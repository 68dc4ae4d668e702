------------------------------- MODULE AuditLog -------------------------------
(***************************************************************************)
(* log_audit_event: every event takes the hash of the one before it from   *)
(* PREV_AUDIT_HASH, leaves its own there and is appended to the log file.  *)
(* The static starts from a constant in every process; an append that      *)
(* fails is ignored.  A hash is a number no other event has had.           *)
(***************************************************************************)
EXTENDS Naturals, Sequences

CONSTANT MaxLost   \* bound on the appends that fail

ASSUME LostAssumption == MaxLost \in Nat

VARIABLES
    prevHash,  \* PREV_AUDIT_HASH
    hashed,    \* the hashes computed so far
    log,       \* the lines of the file
    lost,      \* the appends that failed
    breaks     \* lines before which an append failed or the process restarted (history)

auditVars == <<prevHash, hashed, log, lost, breaks>>

Seed == 0

\* What the log says of a tool call, and everything else.
Events == {"start", "end", "other"}
Entries == [event : Events, prev : Nat, hash : Nat]

AuditTypeOK == /\ prevHash \in Nat
               /\ hashed \in Nat
               /\ log \in Seq(Entries)
               /\ lost \in 0..MaxLost
               /\ breaks \in SUBSET Nat

AuditInit == /\ prevHash = Seed
             /\ hashed = 0
             /\ log = <<>>
             /\ lost = 0
             /\ breaks = {}

NextLine == Len(log) + 1

\* Mutant: the hash is only left for the next event if the line was written.
LogEventIfWritten(event) ==
    \/ /\ hashed' = hashed + 1
       /\ prevHash' = hashed'
       /\ log' = Append(log, [event |-> event, prev |-> prevHash, hash |-> hashed'])
       /\ UNCHANGED <<lost, breaks>>
    \/ /\ lost < MaxLost
       /\ lost' = lost + 1
       /\ breaks' = breaks \cup {NextLine}
       /\ UNCHANGED <<prevHash, hashed, log>>

LogEvent(event) ==
    /\ hashed' = hashed + 1
    /\ prevHash' = hashed'
    /\ \/ /\ log' = Append(log, [event |-> event, prev |-> prevHash, hash |-> hashed'])
          /\ UNCHANGED <<lost, breaks>>
       \/ /\ lost < MaxLost
          /\ lost' = lost + 1
          /\ breaks' = breaks \cup {NextLine}
          /\ UNCHANGED log

\* A new process appends to the same file.
RestartLog == /\ prevHash' = Seed
              /\ breaks' = breaks \cup {NextLine}
              /\ UNCHANGED <<hashed, log, lost>>

AuditNext == (\E event \in Events : LogEvent(event)) \/ RestartLog

AuditSpec == AuditInit /\ [][AuditNext]_auditVars

Chained(i) == log[i].prev = log[i - 1].hash

\* A line carries the hash of the line before it exactly if no event between the
\* two was lost and the process did not restart: the chain tells of every loss
\* but the first and the last ones of a process.
ChainTellsLosses == \A i \in 2..Len(log) : Chained(i) <=> i \notin breaks

\* What README.md:52 says: one chain across the records of the file.
ChainUnbroken == \A i \in 2..Len(log) : Chained(i)
===============================================================================
