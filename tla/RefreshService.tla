---------------------------- MODULE RefreshService ----------------------------
(***************************************************************************)
(* What the watcher-driven index refresh of one project promises, with     *)
(* none of its machinery: topological changes of the disk raise a request, *)
(* one pass at a time answers it, a pass installs the disk it read, and a  *)
(* request stays up until a pass has read the disk after it.  A pass that  *)
(* cannot build an index drops its request: the next change raises it      *)
(* again.                                                                  *)
(***************************************************************************)
EXTENDS Naturals

CONSTANTS MaxChanges,    \* bound on the topological changes of the disk
          MaxFailures    \* bound on the passes that fail

VARIABLES disk,          \* version of the tree on disk
          index,         \* version the served index was built from
          wanted,        \* a request no pass has read the disk for yet
          pass,          \* the version the running pass has read, as a set
                         \* of at most one
          failures       \* passes that have failed

serviceVars == <<disk, index, wanted, pass, failures>>

ServiceInit == /\ disk = 0
               /\ index = 0
               /\ wanted = FALSE
               /\ pass = {}
               /\ failures = 0

\* A file is created, removed or renamed, or .mcpignore is edited.
Request == /\ disk < MaxChanges
           /\ disk' = disk + 1
           /\ wanted' = TRUE
           /\ UNCHANGED <<index, pass, failures>>

\* A pass reads the disk.  A request raised while an earlier one was being
\* answered may cost one more pass than necessary, so wanted may stay up.
StartPass == /\ wanted
             /\ pass = {}
             /\ pass' = {disk}
             /\ wanted' \in BOOLEAN
             /\ UNCHANGED <<disk, index, failures>>

FinishPass == /\ index' \in pass
              /\ pass' = {}
              /\ UNCHANGED <<disk, wanted, failures>>

\* The tree could not be indexed; the request is gone with the attempt.  Nothing
\* else may drop a request, which is why failures are counted.
FailPass == /\ wanted
            /\ pass = {}
            /\ failures < MaxFailures
            /\ failures' = failures + 1
            /\ wanted' \in BOOLEAN
            /\ UNCHANGED <<disk, index, pass>>

ServiceNext == Request \/ StartPass \/ FinishPass \/ FailPass

ServiceSafety == ServiceInit /\ [][ServiceNext]_serviceVars

ServiceSpec == /\ ServiceSafety
               /\ WF_serviceVars(StartPass \/ FailPass)
               /\ WF_serviceVars(FinishPass)
===============================================================================
