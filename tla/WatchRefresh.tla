----------------------------- MODULE WatchRefresh -----------------------------
(***************************************************************************)
(* How one project's FileIndex follows the disk: the watcher thread and    *)
(* its debounce flag (watcher.rs), the pending/running pair of atomics and *)
(* the refresh loop they guard (state/project.rs), the index behind its    *)
(* lock (state/index.rs), and the refresh_index tool, which rebuilds the   *)
(* same index without going through the flags.                             *)
(*                                                                         *)
(* Every atomic operation is a step of its own.  A tokio task is one       *)
(* element of Tasks; the loop that a requester spawns goes on under the    *)
(* requester's name, since the requester does nothing else.                *)
(*                                                                         *)
(* The flags are plain acquire/release atomics.  A release store may       *)
(* become visible after a later acquire load of another location has been  *)
(* made (x86 store buffers do it), a read-modify-write waits for the       *)
(* stores before it.  StoreBuffered lets the model do that to the one      *)
(* store it matters for: running := false, followed by a load of pending.  *)
(***************************************************************************)
EXTENDS Naturals, FiniteSets

CONSTANTS Tasks,         \* names for the watcher's tokio tasks
          MaxChanges,    \* bound on the topological changes of the disk
          MaxManual,     \* bound on the refresh_index tool calls
          MaxFailures,   \* bound on the builds that fail
          StoreBuffered  \* may the release store of running be delayed?

ASSUME BoundsAssumption == /\ MaxChanges \in Nat
                           /\ MaxManual \in Nat
                           /\ MaxFailures \in Nat
                           /\ StoreBuffered \in BOOLEAN

VARIABLES
    disk,       \* version of the tree on disk
    chan,       \* events that classify as ScheduleIndexRefresh, not yet received
    debounce,   \* refresh_debounce_active
    pending,    \* watch_refresh_pending
    running,    \* watch_refresh_running
    pc,         \* where each task stands
    built,      \* the version a task's FileIndex::build has read
    buffered,   \* tasks whose running := false is not visible yet
    index,      \* version behind IndexManager.index
    manual,     \* the refresh_index call: [pc, built]
    manualCalls, failures,   \* counters for the bounds
    excuses     \* why the index may legitimately be behind (history)

watchVars == <<disk, chan, debounce, pending, running, pc, built, buffered>>
indexVars == <<index, manual, manualCalls, failures, excuses>>
vars == <<watchVars, indexVars>>

\* free: no such task; sleep: in the debounce window; post, claim: inside
\* request_watcher_refresh; the rest are the points of the refresh loop.
Points == {"free", "sleep", "post", "claim", "swap", "build", "write",
           "release", "recheck", "reclaim"}

\* The points between winning the running flag and giving it back.
LoopPoints == {"swap", "build", "write", "release"}

TypeOK == /\ disk \in 0..MaxChanges
          /\ chan \in Nat
          /\ debounce \in BOOLEAN
          /\ pending \in BOOLEAN
          /\ running \in BOOLEAN
          /\ pc \in [Tasks -> Points]
          /\ built \in [Tasks -> 0..MaxChanges]
          /\ buffered \in SUBSET Tasks
          /\ index \in 0..MaxChanges
          /\ manual \in [pc : {"idle", "write"}, built : 0..MaxChanges]
          /\ manualCalls \in 0..MaxManual
          /\ failures \in 0..MaxFailures
          /\ excuses \in SUBSET {"buildFailed", "overwritten"}

Init == /\ disk = 0
        /\ chan = 0
        /\ debounce = FALSE
        /\ pending = FALSE
        /\ running = FALSE
        /\ pc = [t \in Tasks |-> "free"]
        /\ built = [t \in Tasks |-> 0]
        /\ buffered = {}
        /\ index = 0
        /\ manual = [pc |-> "idle", built |-> 0]
        /\ manualCalls = 0
        /\ failures = 0
        /\ excuses = {}

Goto(t, point) == pc' = [pc EXCEPT ![t] = point]
-------------------------------------------------------------------------------
(* The disk and the watcher thread *)

\* A create, a remove, a rename or an edit of .mcpignore, and its event.
Change == /\ disk < MaxChanges
          /\ disk' = disk + 1
          /\ chan' = chan + 1
          /\ UNCHANGED <<debounce, pending, running, pc, built, buffered>>
          /\ UNCHANGED indexVars

\* compare_exchange(false, true) on the debounce flag wins: spawn the sleeper.
ScheduleFirst(t) == /\ chan > 0
                    /\ ~debounce
                    /\ pc[t] = "free"
                    /\ t \notin buffered
                    /\ chan' = chan - 1
                    /\ debounce' = TRUE
                    /\ Goto(t, "sleep")
                    /\ UNCHANGED <<disk, pending, running, built, buffered>>
                    /\ UNCHANGED indexVars

\* Mutant: a receive that brought nothing is handled as an event.
ScheduleNothing == /\ debounce
                   /\ chan' = chan - 1
                   /\ UNCHANGED <<disk, debounce, pending, running, pc, built, buffered>>
                   /\ UNCHANGED indexVars

\* It loses: a sleeper will request the refresh for this event too.
ScheduleCoalesced == /\ chan > 0
                     /\ debounce
                     /\ chan' = chan - 1
                     /\ UNCHANGED <<disk, debounce, pending, running, pc, built, buffered>>
                     /\ UNCHANGED indexVars

Watcher == ScheduleCoalesced \/ \E t \in Tasks : ScheduleFirst(t)

\* Mutant: the sleeper reopens the window and forgets the request.
DebounceForgets(t) == /\ pc[t] = "sleep"
                      /\ debounce' = FALSE
                      /\ Goto(t, "free")
                      /\ UNCHANGED <<disk, chan, pending, running, built, buffered>>
                      /\ UNCHANGED indexVars

\* The sleep is over; the window closes before the refresh is requested.
DebounceElapsed(t) == /\ pc[t] = "sleep"
                      /\ debounce' = FALSE
                      /\ Goto(t, "post")
                      /\ UNCHANGED <<disk, chan, pending, running, built, buffered>>
                      /\ UNCHANGED indexVars
-------------------------------------------------------------------------------
(* request_watcher_refresh *)

PostRequest(t) == /\ pc[t] = "post"
                  /\ pending' = TRUE
                  /\ Goto(t, "claim")
                  /\ UNCHANGED <<disk, chan, debounce, running, built, buffered>>
                  /\ UNCHANGED indexVars

\* Mutant: running is loaded and then stored, instead of exchanged.
TryRunningUnchecked(t) == /\ running' = TRUE
                          /\ Goto(t, "swap")
                          /\ UNCHANGED <<disk, chan, debounce, pending, built, buffered>>
                          /\ UNCHANGED indexVars

\* compare_exchange(false, true) on running, from a requester or from the
\* close-race check: the winner runs the loop, a loser leaves it to the owner.
TryRunning(t) == /\ running' = TRUE
                 /\ Goto(t, IF running THEN "free" ELSE "swap")
                 /\ UNCHANGED <<disk, chan, debounce, pending, built, buffered>>
                 /\ UNCHANGED indexVars

ClaimLoop(t) == pc[t] = "claim" /\ TryRunning(t)
-------------------------------------------------------------------------------
(* run_watcher_refresh_loop *)

TakePending(t) == /\ pc[t] = "swap"
                  /\ pending' = FALSE
                  /\ Goto(t, IF pending THEN "build" ELSE "release")
                  /\ UNCHANGED <<disk, chan, debounce, running, built, buffered>>
                  /\ UNCHANGED indexVars

\* IndexManager::rebuild reads the whole tree before it takes the lock.
BuildIndex(t) == /\ pc[t] = "build"
                 /\ built' = [built EXCEPT ![t] = disk]
                 /\ Goto(t, "write")
                 /\ UNCHANGED <<disk, chan, debounce, pending, running, buffered>>
                 /\ UNCHANGED indexVars

\* The build fails (an invalid .mcpignore pattern): logged, the request is gone.
BuildFails(t) == /\ pc[t] = "build"
                 /\ failures < MaxFailures
                 /\ failures' = failures + 1
                 /\ excuses' = excuses \cup {"buildFailed"}
                 /\ Goto(t, "swap")
                 /\ UNCHANGED <<disk, chan, debounce, pending, running, built, buffered>>
                 /\ UNCHANGED <<index, manual, manualCalls>>

\* What a rebuild does once it holds the lock: overwrite, whatever is there.
\* A build that matches the disk settles every earlier excuse.
Install(version, excuse) ==
    /\ index' = version
    /\ excuses' = IF version = disk THEN {} ELSE excuses \cup excuse

\* Mutant: pending is cleared after the pass, not before it.
WriteIndexThenClear(t) == /\ pc[t] = "write"
                          /\ Install(built[t], {})
                          /\ pending' = FALSE
                          /\ Goto(t, "swap")
                          /\ UNCHANGED <<disk, chan, debounce, running, built, buffered>>
                          /\ UNCHANGED <<manual, manualCalls, failures>>

WriteIndex(t) == /\ pc[t] = "write"
                 /\ Install(built[t], {})
                 /\ Goto(t, "swap")
                 /\ UNCHANGED <<disk, chan, debounce, pending, running, built, buffered>>
                 /\ UNCHANGED <<manual, manualCalls, failures>>

\* Mutant: the loop ends without giving running back.
ReleaseForgets(t) == /\ pc[t] = "release"
                     /\ Goto(t, "recheck")
                     /\ UNCHANGED <<disk, chan, debounce, pending, running, built, buffered>>
                     /\ UNCHANGED indexVars

\* Nothing pending: running := false, visible at once or some time later.
ReleaseRunning(t) == /\ pc[t] = "release"
                     /\ Goto(t, "recheck")
                     /\ IF StoreBuffered
                        THEN buffered' = buffered \cup {t} /\ running' = running
                        ELSE buffered' = buffered /\ running' = FALSE
                     /\ UNCHANGED <<disk, chan, debounce, pending, built>>
                     /\ UNCHANGED indexVars

DrainStore(t) == /\ t \in buffered
                 /\ buffered' = buffered \ {t}
                 /\ running' = FALSE
                 /\ UNCHANGED <<disk, chan, debounce, pending, pc, built>>
                 /\ UNCHANGED indexVars

\* Mutant: no close-race check.
RecheckSkipped(t) == /\ pc[t] = "recheck"
                     /\ Goto(t, "free")
                     /\ UNCHANGED <<disk, chan, debounce, pending, running, built, buffered>>
                     /\ UNCHANGED indexVars

\* The close-race check: look at pending once more after giving running back.
Recheck(t) == /\ pc[t] = "recheck"
              /\ Goto(t, IF pending THEN "reclaim" ELSE "free")
              /\ UNCHANGED <<disk, chan, debounce, pending, running, built, buffered>>
              /\ UNCHANGED indexVars

Reclaim(t) == /\ pc[t] = "reclaim"
              /\ t \notin buffered
              /\ TryRunning(t)
-------------------------------------------------------------------------------
(* The refresh_index tool, called by the client *)

ManualBuild == /\ manual.pc = "idle"
               /\ manualCalls < MaxManual
               /\ manual' = [pc |-> "write", built |-> disk]
               /\ manualCalls' = manualCalls + 1
               /\ UNCHANGED watchVars
               /\ UNCHANGED <<index, failures, excuses>>

ManualWrite == /\ manual.pc = "write"
               /\ manual' = [manual EXCEPT !.pc = "idle"]
               /\ Install(manual.built,
                          IF manual.built < index THEN {"overwritten"} ELSE {})
               /\ UNCHANGED watchVars
               /\ UNCHANGED <<manualCalls, failures>>

\* The tool's timeout drops the call while it waits for the lock.
ManualTimeout == /\ manual.pc = "write"
                 /\ manual' = [manual EXCEPT !.pc = "idle"]
                 /\ UNCHANGED watchVars
                 /\ UNCHANGED <<index, manualCalls, failures, excuses>>
-------------------------------------------------------------------------------
TaskStep(t) == \/ DebounceElapsed(t)
               \/ PostRequest(t)
               \/ ClaimLoop(t)
               \/ TakePending(t)
               \/ BuildIndex(t)
               \/ BuildFails(t)
               \/ WriteIndex(t)
               \/ ReleaseRunning(t)
               \/ Recheck(t)
               \/ Reclaim(t)

Next == \/ Change
        \/ Watcher
        \/ \E t \in Tasks : TaskStep(t) \/ DrainStore(t)
        \/ ManualBuild
        \/ ManualWrite
        \/ ManualTimeout

Safety == Init /\ [][Next]_vars

\* The watcher thread keeps receiving, the runtime keeps polling every task
\* that can go on, a store buffer drains.  The disk and the client may stop.
Spec == /\ Safety
        /\ WF_vars(Watcher)
        /\ \A t \in Tasks : WF_vars(TaskStep(t)) /\ WF_vars(DrainStore(t))
-------------------------------------------------------------------------------
(* Properties *)

\* The task that holds the running flag: it is between winning the flag and
\* giving it back, or its store of FALSE is still on its way.
Owns(t) == pc[t] \in LoopPoints \/ t \in buffered

\* running is up exactly while one task owns it: the flag is never left up by
\* a loop that has gone (which would swallow every later request), and two
\* loops never rebuild the index side by side.
RunningHasOneOwner == /\ running <=> \E t \in Tasks : Owns(t)
                      /\ \A s, t \in Tasks : Owns(s) /\ Owns(t) => s = t

\* The tasks that will still look at pending or at running before they end.
Attends(t) == pc[t] \in {"claim", "recheck", "reclaim"} \cup LoopPoints

\* A posted request always has a task that will take it: the loser of the
\* claim may go because the owner has yet to look at pending again.
NoLostRequest == pending => \E t \in Tasks : Attends(t)

\* Some event or request stands for a change the index has not seen.
Signalled == \/ chan > 0
             \/ pending
             \/ \E t \in Tasks : pc[t] \in {"sleep", "post", "build"}

\* The index falls behind the disk only while a signal is on its way or a pass
\* with the disk's version is about to be installed, unless the last build
\* failed or refresh_index overwrote a newer index with the one it had built
\* earlier.
NoForgottenChange ==
    index # disk => \/ Signalled
                    \/ \E t \in Tasks : pc[t] = "write" /\ built[t] = disk
                    \/ excuses # {}

\* Coalescing and the loop never put an older index over a newer one.
IndexNeverRegresses == [][index' >= index]_index

\* Once the disk is quiet, the index ends up equal to it and stays so, or the
\* last pass failed to build one.
CatchesUp == <>[](index = disk \/ excuses # {})

\* The loop does not spin: running comes down again and again.
LoopStops == []<>~running

\* The machinery of flags, sleepers and loops does what RefreshService says:
\* the request is anything that signals a change, the pass is what a loop has
\* read and not installed.
Service == INSTANCE RefreshService WITH
               wanted <- Signalled,
               pass <- {built[t] : t \in {u \in Tasks : pc[u] = "write"}}

ImplementsService == Service!ServiceSpec
===============================================================================
