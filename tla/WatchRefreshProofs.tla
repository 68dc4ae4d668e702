-------------------------- MODULE WatchRefreshProofs --------------------------
(***************************************************************************)
(* Theorems about WatchRefresh, for any set of tasks and any bounds.       *)
(*                                                                         *)
(* The argument rests on who may hold the running flag (OwnerInv): the     *)
(* flag is up exactly while one task is between winning it and giving it   *)
(* back.  From it follow that a request is lost only to a loop that has    *)
(* ended and whose store is late (never, when the flags are sequentially   *)
(* consistent), that no change is forgotten (FreshInv) and that the        *)
(* machinery implements RefreshService.                                    *)
(***************************************************************************)
EXTENDS WatchRefresh, TLAPS

\* The type invariant: every step keeps every variable in its range.
LEMMA TypeInit == Init => TypeOK
<1> SUFFICES ASSUME Init PROVE TypeOK
  OBVIOUS
<1>1. /\ disk \in 0..MaxChanges /\ index \in 0..MaxChanges /\ chan \in Nat
      /\ manualCalls \in 0..MaxManual /\ failures \in 0..MaxFailures
      /\ manual \in [pc : {"idle", "write"}, built : 0..MaxChanges]
      /\ built \in [Tasks -> 0..MaxChanges]
  BY BoundsAssumption DEF Init
<1>2. /\ debounce \in BOOLEAN /\ pending \in BOOLEAN /\ running \in BOOLEAN
      /\ buffered \in SUBSET Tasks
      /\ excuses \in SUBSET {"buildFailed", "overwritten"}
      /\ pc \in [Tasks -> Points]
  BY DEF Init, Points
<1>3. QED
  BY <1>1, <1>2 DEF TypeOK

LEMMA TypeStep == TypeOK /\ [Next]_vars => TypeOK'
<1> SUFFICES ASSUME TypeOK, [Next]_vars PROVE TypeOK'
  OBVIOUS
<1> USE BoundsAssumption DEF TypeOK, Points, Goto, watchVars, indexVars
<1>1. CASE Change
  BY <1>1 DEF Change
<1>2. CASE ScheduleCoalesced
  BY <1>2 DEF ScheduleCoalesced
<1>3. ASSUME NEW t \in Tasks, ScheduleFirst(t) PROVE TypeOK'
  BY <1>3 DEF ScheduleFirst
<1>4. ASSUME NEW t \in Tasks, TaskStep(t) PROVE TypeOK'
  <2>1. CASE DebounceElapsed(t)
    BY <2>1 DEF DebounceElapsed
  <2>2. CASE PostRequest(t)
    BY <2>2 DEF PostRequest
  <2>3. CASE ClaimLoop(t) \/ Reclaim(t)
    BY <2>3 DEF ClaimLoop, Reclaim, TryRunning
  <2>4. CASE TakePending(t)
    BY <2>4 DEF TakePending
  <2>5. CASE BuildIndex(t)
    BY <2>5 DEF BuildIndex
  <2>6. CASE BuildFails(t)
    BY <2>6 DEF BuildFails
  <2>7. CASE WriteIndex(t)
    BY <2>7 DEF WriteIndex, Install
  <2>8. CASE ReleaseRunning(t)
    BY <2>8 DEF ReleaseRunning
  <2>9. CASE Recheck(t)
    BY <2>9 DEF Recheck
  <2>10. QED
    BY <1>4, <2>1, <2>2, <2>3, <2>4, <2>5, <2>6, <2>7, <2>8, <2>9 DEF TaskStep
<1>5. ASSUME NEW t \in Tasks, DrainStore(t) PROVE TypeOK'
  BY <1>5 DEF DrainStore
<1>6. CASE ManualBuild
  BY <1>6 DEF ManualBuild
<1>7. CASE ManualWrite
  BY <1>7 DEF ManualWrite, Install
<1>8. CASE ManualTimeout
  BY <1>8 DEF ManualTimeout
<1>9. CASE UNCHANGED vars
  BY <1>9 DEF vars
<1>10. QED
  BY <1>1, <1>2, <1>3, <1>4, <1>5, <1>6, <1>7, <1>8, <1>9 DEF Next, Watcher

\* Every variable stays in its range in every reachable state.
THEOREM TypeCorrect == Spec => []TypeOK
  BY TypeInit, TypeStep, PTL DEF Spec, Safety
-------------------------------------------------------------------------------
(* Who owns the running flag *)

\* RunningHasOneOwner, made inductive: a task whose store is still buffered has
\* left the loop, and stores are buffered only where the machine does that.
OwnerInv == /\ RunningHasOneOwner
            /\ \A t \in buffered : pc[t] \in {"recheck", "reclaim", "free"}
            /\ buffered # {} => StoreBuffered

LEMMA OwnerInit == Init => OwnerInv
  BY DEF Init, OwnerInv, RunningHasOneOwner, Owns, LoopPoints

LEMMA OwnerStep == TypeOK /\ OwnerInv /\ [Next]_vars => OwnerInv'
<1> SUFFICES ASSUME TypeOK, OwnerInv, [Next]_vars PROVE OwnerInv'
  OBVIOUS
<1> USE DEF TypeOK, Points, OwnerInv, RunningHasOneOwner, Owns, LoopPoints, Goto
<1>1. CASE Change \/ ScheduleCoalesced
  BY <1>1 DEF Change, ScheduleCoalesced
<1>2. ASSUME NEW t \in Tasks, ScheduleFirst(t) PROVE OwnerInv'
  BY <1>2 DEF ScheduleFirst
<1>3. ASSUME NEW t \in Tasks, TaskStep(t) PROVE OwnerInv'
  <2>1. CASE DebounceElapsed(t)
    BY <2>1 DEF DebounceElapsed
  <2>2. CASE PostRequest(t)
    BY <2>2 DEF PostRequest
  <2>3. CASE (ClaimLoop(t) \/ Reclaim(t)) /\ running
    BY <2>3 DEF ClaimLoop, Reclaim, TryRunning
  <2>4. CASE (ClaimLoop(t) \/ Reclaim(t)) /\ ~running
    BY <2>4 DEF ClaimLoop, Reclaim, TryRunning
  <2>5. CASE TakePending(t)
    BY <2>5 DEF TakePending
  <2>6. CASE BuildIndex(t)
    BY <2>6 DEF BuildIndex
  <2>7. CASE BuildFails(t)
    BY <2>7 DEF BuildFails
  <2>8. CASE WriteIndex(t)
    BY <2>8 DEF WriteIndex
  <2>9. CASE ReleaseRunning(t) /\ StoreBuffered
    BY <2>9 DEF ReleaseRunning
  <2>10. CASE ReleaseRunning(t) /\ ~StoreBuffered
    BY <2>10 DEF ReleaseRunning
  <2>11. CASE Recheck(t)
    BY <2>11 DEF Recheck
  <2>12. QED
    BY <1>3, <2>1, <2>2, <2>3, <2>4, <2>5, <2>6, <2>7, <2>8, <2>9, <2>10, <2>11
    DEF TaskStep
<1>4. ASSUME NEW t \in Tasks, DrainStore(t) PROVE OwnerInv'
  BY <1>4 DEF DrainStore
<1>5. CASE ManualBuild \/ ManualWrite \/ ManualTimeout
  BY <1>5 DEF ManualBuild, ManualWrite, ManualTimeout, watchVars
<1>6. CASE UNCHANGED vars
  BY <1>6 DEF vars, watchVars
<1>7. QED
  BY <1>1, <1>2, <1>3, <1>4, <1>5, <1>6 DEF Next, Watcher

LEMMA OwnerAlways == Spec => [](TypeOK /\ OwnerInv)
  BY TypeInit, TypeStep, OwnerInit, OwnerStep, PTL DEF Spec, Safety

\* The running flag is up exactly while one task owns it, store buffers or not:
\* two refresh loops never run side by side, and no loop leaves the flag up.
THEOREM OneOwner == Spec => []RunningHasOneOwner
<1>1. OwnerInv => RunningHasOneOwner
  BY DEF OwnerInv
<1>2. QED
  BY <1>1, OwnerAlways, PTL
-------------------------------------------------------------------------------
(* No request is lost *)

\* A claim finds the flag up although its owner has ended: the owner's store of FALSE is
\* still in its buffer, and its close-race check was made before the request was posted.
LateRelease == \E s \in buffered, t \in Tasks : /\ pc[s] = "free"
                                                /\ pc[t] \in {"claim", "reclaim"} /\ pc'[t] = "free"
OnlyToLateReleases == NoLostRequest => NoLostRequest' \/ LateRelease

LEMMA AttendStep == TypeOK /\ OwnerInv /\ [Next]_vars => OnlyToLateReleases
<1> DEFINE Kept == NoLostRequest' \/ LateRelease
<1> SUFFICES ASSUME TypeOK, OwnerInv, NoLostRequest, [Next]_vars
             PROVE  Kept
  BY DEF OnlyToLateReleases
<1> USE DEF TypeOK, Points, NoLostRequest, Attends, LoopPoints, Goto
<1>1. CASE Change \/ ScheduleCoalesced
  BY <1>1 DEF Change, ScheduleCoalesced
<1>2. ASSUME NEW t \in Tasks, ScheduleFirst(t) PROVE Kept
  BY <1>2 DEF ScheduleFirst
<1>3. ASSUME NEW t \in Tasks, TaskStep(t) PROVE Kept
  <2>1. CASE DebounceElapsed(t)
    BY <2>1 DEF DebounceElapsed
  <2>2. CASE PostRequest(t)
    BY <2>2 DEF PostRequest
  \* The loser of an exchange leaves the request to the owner of the flag, which is at
  \* work, is about to look again, or has ended with its store still in a buffer.
  <2>3. CASE ClaimLoop(t) \/ Reclaim(t)
    <3>1. CASE running
      <4>1. PICK u \in Tasks : Owns(u)
        BY <3>1 DEF OwnerInv, RunningHasOneOwner
      <4>2. pc[t] \in {"claim", "reclaim"} /\ pc' = [pc EXCEPT ![t] = "free"]
        BY <2>3, <3>1 DEF ClaimLoop, Reclaim, TryRunning
      <4>3. CASE pc[u] \in LoopPoints
        BY <4>2, <4>3
      <4>4. CASE u \in buffered /\ pc[u] = "free"
        BY <4>2, <4>4 DEF LateRelease
      <4>5. CASE u \in buffered /\ pc[u] \in {"recheck", "reclaim"}
        <5>1. u # t
          BY <2>3, <4>5 DEF ClaimLoop, Reclaim
        <5>2. QED
          BY <4>2, <4>5, <5>1
      <4>6. QED
        BY <4>1, <4>3, <4>4, <4>5 DEF OwnerInv, Owns
    <3>2. CASE ~running
      BY <2>3, <3>2 DEF ClaimLoop, Reclaim, TryRunning
    <3>3. QED
      BY <3>1, <3>2
  <2>4. CASE TakePending(t)
    BY <2>4 DEF TakePending
  <2>5. CASE BuildIndex(t)
    BY <2>5 DEF BuildIndex
  <2>6. CASE BuildFails(t)
    BY <2>6 DEF BuildFails
  <2>7. CASE WriteIndex(t)
    BY <2>7 DEF WriteIndex
  <2>8. CASE ReleaseRunning(t)
    BY <2>8 DEF ReleaseRunning
  <2>9. CASE Recheck(t)
    BY <2>9 DEF Recheck
  <2>10. QED
    BY <1>3, <2>1, <2>2, <2>3, <2>4, <2>5, <2>6, <2>7, <2>8, <2>9 DEF TaskStep
<1>4. ASSUME NEW t \in Tasks, DrainStore(t) PROVE Kept
  BY <1>4 DEF DrainStore
<1>5. CASE ManualBuild \/ ManualWrite \/ ManualTimeout
  BY <1>5 DEF ManualBuild, ManualWrite, ManualTimeout, watchVars
<1>6. CASE UNCHANGED vars
  BY <1>6 DEF vars, watchVars
<1>7. QED
  BY <1>1, <1>2, <1>3, <1>4, <1>5, <1>6 DEF Next, Watcher

\* A posted request always has a task that will still take it, and with store buffers
\* there is one way to lose it: a claim that fails on the flag of a loop that has ended.
\* No other step, of a task, the watcher or refresh_index, leaves a request behind.
THEOREM RequestsLostLate == Spec => [][OnlyToLateReleases]_vars
<1>1. TypeOK /\ OwnerInv /\ [Next]_vars => [OnlyToLateReleases]_vars
  BY AttendStep
<1>2. QED
  BY <1>1, OwnerAlways, PTL DEF Spec, Safety

\* With sequentially consistent flags nothing is ever in a buffer: no request is lost.
THEOREM RequestsAreAttended ==
  ASSUME ~StoreBuffered
  PROVE  Spec => []NoLostRequest
<1>1. Init => NoLostRequest
  BY DEF Init, NoLostRequest
<1>2. TypeOK /\ OwnerInv /\ NoLostRequest /\ [Next]_vars => NoLostRequest'
  <2>1. OwnerInv => ~LateRelease
    BY DEF OwnerInv, LateRelease
  <2>2. QED
    BY <2>1, AttendStep DEF OnlyToLateReleases
<1>3. QED
  BY <1>1, <1>2, OwnerAlways, PTL DEF Spec, Safety
-------------------------------------------------------------------------------
(* No change is forgotten *)

\* NoForgottenChange, made inductive: nothing holds a version the disk has not
\* reached, a pass that has read an old version still has a signal up, and an
\* open debounce window has a sleeper that will request the refresh.
VersionInv == /\ index <= disk
              /\ manual.built <= disk
              /\ \A t \in Tasks : built[t] <= disk

SignalInv == /\ NoForgottenChange
             /\ \A t \in Tasks : pc[t] = "write" /\ built[t] # disk => Signalled
             /\ debounce => \E t \in Tasks : pc[t] = "sleep"

FreshInv == VersionInv /\ SignalInv

LEMMA FreshInit == Init => FreshInv
  BY DEF Init, FreshInv, VersionInv, SignalInv, NoForgottenChange

LEMMA VersionStep == TypeOK /\ VersionInv /\ [Next]_vars => VersionInv'
<1> SUFFICES ASSUME TypeOK, VersionInv, [Next]_vars PROVE VersionInv'
  OBVIOUS
<1> USE BoundsAssumption DEF TypeOK, VersionInv, watchVars, indexVars
<1>1. CASE Change
  BY <1>1 DEF Change
<1>2. ASSUME NEW t \in Tasks, BuildIndex(t) PROVE VersionInv'
  BY <1>2 DEF BuildIndex
<1>3. ASSUME NEW t \in Tasks, WriteIndex(t) PROVE VersionInv'
  BY <1>3 DEF WriteIndex, Install
<1>4. CASE ManualBuild
  BY <1>4 DEF ManualBuild
<1>5. CASE ManualWrite
  BY <1>5 DEF ManualWrite, Install
<1>6. CASE UNCHANGED <<disk, index, built>> /\ manual'.built = manual.built
  BY <1>6
<1>7. QED
  BY <1>1, <1>2, <1>3, <1>4, <1>5, <1>6
  DEF Next, Watcher, TaskStep, vars, ScheduleFirst, ScheduleCoalesced, DebounceElapsed,
      PostRequest, ClaimLoop, Reclaim, TryRunning, TakePending, BuildFails,
      ReleaseRunning, Recheck, DrainStore, ManualTimeout

\* Only one task can be between reading the disk and installing what it read.
LEMMA OnePass ==
  ASSUME OwnerInv, NEW t \in Tasks, NEW u \in Tasks,
         pc[t] \in LoopPoints, pc[u] \in LoopPoints
  PROVE  t = u
  BY DEF OwnerInv, RunningHasOneOwner, Owns

LEMMA SignalStep ==
  TypeOK /\ OwnerInv /\ FreshInv /\ [Next]_vars => SignalInv'
<1> SUFFICES ASSUME TypeOK, OwnerInv, FreshInv, [Next]_vars PROVE SignalInv'
  OBVIOUS
<1> USE BoundsAssumption
    DEF TypeOK, Points, FreshInv, VersionInv, SignalInv, NoForgottenChange, Signalled,
        Goto, indexVars
<1>1. CASE Change
  BY <1>1 DEF Change
<1>2. CASE ScheduleCoalesced
  BY <1>2 DEF ScheduleCoalesced
<1>3. ASSUME NEW t \in Tasks, ScheduleFirst(t) PROVE SignalInv'
  BY <1>3 DEF ScheduleFirst
<1>4. ASSUME NEW t \in Tasks, TaskStep(t) PROVE SignalInv'
  <2>1. CASE DebounceElapsed(t)
    BY <2>1 DEF DebounceElapsed
  <2>2. CASE PostRequest(t)
    BY <2>2 DEF PostRequest
  <2>3. CASE ClaimLoop(t) \/ Reclaim(t)
    BY <2>3 DEF ClaimLoop, Reclaim, TryRunning
  <2>4. CASE TakePending(t)
    BY <2>4 DEF TakePending
  \* The signal may come down here: the pass has read what it stood for.
  <2>5. CASE BuildIndex(t)
    <3>1. \A u \in Tasks \ {t} : pc[u] # "write"
      BY <2>5, OnePass DEF BuildIndex, LoopPoints
    <3>2. \A u \in Tasks : pc'[u] = "write" => built'[u] = disk'
      BY <2>5, <3>1 DEF BuildIndex
    <3>3. pc'[t] = "write" /\ built'[t] = disk'
      BY <2>5 DEF BuildIndex
    <3>4. debounce' => \E u \in Tasks : pc'[u] = "sleep"
      BY <2>5 DEF BuildIndex
    <3>5. QED
      BY <3>2, <3>3, <3>4
  <2>6. CASE BuildFails(t)
    <3>1. \A u \in Tasks : pc'[u] # "write"
      BY <2>6, OnePass DEF BuildFails, LoopPoints
    <3>2. debounce' => \E u \in Tasks : pc'[u] = "sleep"
      BY <2>6 DEF BuildFails
    <3>3. excuses' # {}
      BY <2>6 DEF BuildFails
    <3>4. QED
      BY <3>1, <3>2, <3>3
  <2>7. CASE WriteIndex(t)
    <3>1. /\ \A u \in Tasks \ {t} : pc'[u] = pc[u]
          /\ pc'[t] = "swap"
          /\ UNCHANGED <<disk, chan, debounce, pending, built>>
      BY <2>7 DEF WriteIndex
    <3>2. Signalled <=> Signalled'
      BY <2>7, <3>1 DEF WriteIndex
    <3>3. index' = built[t]
      BY <2>7 DEF WriteIndex, Install
    <3>4. QED
      BY <2>7, <3>1, <3>2, <3>3 DEF WriteIndex
  <2>8. CASE ReleaseRunning(t)
    BY <2>8 DEF ReleaseRunning
  <2>9. CASE Recheck(t)
    BY <2>9 DEF Recheck
  <2>10. QED
    BY <1>4, <2>1, <2>2, <2>3, <2>4, <2>5, <2>6, <2>7, <2>8, <2>9 DEF TaskStep
<1>5. ASSUME NEW t \in Tasks, DrainStore(t) PROVE SignalInv'
  BY <1>5 DEF DrainStore
<1>6. CASE ManualBuild \/ ManualTimeout
  BY <1>6 DEF ManualBuild, ManualTimeout, watchVars
\* refresh_index may put an older index over a newer one: then it is excused.
<1>7. CASE ManualWrite
  <2>1. UNCHANGED watchVars /\ index' = manual.built
    BY <1>7 DEF ManualWrite, Install
  <2>2. CASE manual.built = disk
    BY <2>1, <2>2 DEF watchVars
  <2>3. CASE manual.built < index /\ manual.built # disk
    <3>1. excuses' # {}
      BY <1>7, <2>3 DEF ManualWrite, Install
    <3>2. QED
      BY <2>1, <3>1 DEF watchVars
  <2>4. CASE manual.built >= index /\ manual.built # disk
    <3>1. index # disk /\ (excuses # {} => excuses' # {})
      BY <1>7, <2>4 DEF ManualWrite, Install
    <3>2. QED
      BY <2>1, <3>1 DEF watchVars
  <2>5. QED
    BY <2>2, <2>3, <2>4
<1>8. CASE UNCHANGED vars
  BY <1>8 DEF vars, watchVars
<1>9. QED
  BY <1>1, <1>2, <1>3, <1>4, <1>5, <1>6, <1>7, <1>8 DEF Next, Watcher

LEMMA FreshAlways == Spec => [](TypeOK /\ OwnerInv /\ FreshInv)
<1>1. TypeOK /\ OwnerInv /\ FreshInv /\ [Next]_vars => FreshInv'
  BY VersionStep, SignalStep DEF FreshInv
<1>2. QED
  BY <1>1, TypeInit, TypeStep, OwnerInit, OwnerStep, FreshInit, PTL DEF Spec, Safety

\* The index falls behind the disk only while a signal is up or a pass is about
\* to install the disk's version, unless a build failed or refresh_index put an
\* older index over a newer one: with or without store buffers.
THEOREM NoChangeForgotten == Spec => []NoForgottenChange
<1>1. FreshInv => NoForgottenChange
  BY DEF FreshInv, SignalInv
<1>2. QED
  BY <1>1, FreshAlways, PTL
-------------------------------------------------------------------------------
(* Without refresh_index calls *)

\* No call is in progress, and no pass holds an older version than the index.
LoopOnlyInv == /\ manual.pc = "idle"
               /\ \A t \in Tasks : pc[t] = "write" => index <= built[t]

LEMMA LoopOnlyStep ==
  ASSUME MaxManual = 0
  PROVE  TypeOK /\ OwnerInv /\ FreshInv /\ LoopOnlyInv /\ [Next]_vars => LoopOnlyInv'
<1> SUFFICES ASSUME TypeOK, OwnerInv, FreshInv, LoopOnlyInv, [Next]_vars
             PROVE  LoopOnlyInv'
  OBVIOUS
<1> USE BoundsAssumption DEF TypeOK, Points, LoopOnlyInv, Goto, watchVars, indexVars
<1>1. CASE Change \/ ScheduleCoalesced
  BY <1>1 DEF Change, ScheduleCoalesced
<1>2. ASSUME NEW t \in Tasks, ScheduleFirst(t) PROVE LoopOnlyInv'
  BY <1>2 DEF ScheduleFirst
<1>3. ASSUME NEW t \in Tasks, TaskStep(t) PROVE LoopOnlyInv'
  <2>1. CASE BuildIndex(t)
    BY <2>1 DEF BuildIndex, FreshInv, VersionInv
  <2>2. CASE WriteIndex(t)
    <3>1. \A u \in Tasks : pc'[u] # "write"
      BY <2>2, OnePass DEF WriteIndex, LoopPoints
    <3>2. QED
      BY <2>2, <3>1 DEF WriteIndex
  <2>3. CASE BuildFails(t)
    BY <2>3 DEF BuildFails
  <2>4. CASE DebounceElapsed(t) \/ PostRequest(t) \/ TakePending(t) \/ Recheck(t)
    BY <2>4 DEF DebounceElapsed, PostRequest, TakePending, Recheck
  <2>5. CASE ClaimLoop(t) \/ Reclaim(t)
    BY <2>5 DEF ClaimLoop, Reclaim, TryRunning
  <2>6. CASE ReleaseRunning(t)
    BY <2>6 DEF ReleaseRunning
  <2>7. QED
    BY <1>3, <2>1, <2>2, <2>3, <2>4, <2>5, <2>6 DEF TaskStep
<1>4. ASSUME NEW t \in Tasks, DrainStore(t) PROVE LoopOnlyInv'
  BY <1>4 DEF DrainStore
<1>5. CASE ManualBuild \/ ManualWrite \/ ManualTimeout
  BY <1>5 DEF ManualBuild, ManualWrite, ManualTimeout
<1>6. CASE UNCHANGED vars
  BY <1>6 DEF vars
<1>7. QED
  BY <1>1, <1>2, <1>3, <1>4, <1>5, <1>6 DEF Next, Watcher

Inv == TypeOK /\ OwnerInv /\ FreshInv /\ LoopOnlyInv

LEMMA LoopOnlyAlways ==
  ASSUME MaxManual = 0
  PROVE  Spec => []Inv
<1>1. Init => LoopOnlyInv
  BY DEF Init, LoopOnlyInv
<1>2. TypeOK /\ OwnerInv /\ FreshInv /\ [Next]_vars => FreshInv'
  BY VersionStep, SignalStep DEF FreshInv
<1>3. Init => Inv
  BY <1>1, TypeInit, OwnerInit, FreshInit DEF Inv
<1>4. Inv /\ [Next]_vars => Inv'
  BY <1>2, TypeStep, OwnerStep, LoopOnlyStep DEF Inv
<1>5. QED
  BY <1>3, <1>4, PTL DEF Spec, Safety

\* Without refresh_index calls, no step puts an older index over a newer one.
THEOREM NoRegression ==
  ASSUME MaxManual = 0
  PROVE  Spec => IndexNeverRegresses
<1>1. Inv /\ [Next]_vars => [index' >= index]_index
  <2> SUFFICES ASSUME Inv, [Next]_vars PROVE index' >= index \/ index' = index
    BY DEF Inv
  <2>1. ASSUME NEW t \in Tasks, WriteIndex(t) PROVE index' >= index
    BY <2>1, BoundsAssumption DEF WriteIndex, Install, Inv, LoopOnlyInv, TypeOK
  <2>2. CASE ManualWrite
    BY <2>2 DEF ManualWrite, Inv, LoopOnlyInv
  <2>3. CASE UNCHANGED index
    BY <2>3
  <2>4. QED
    BY <2>1, <2>2, <2>3
    DEF Next, Watcher, TaskStep, vars, indexVars, Change, ScheduleFirst,
        ScheduleCoalesced, DebounceElapsed, PostRequest, ClaimLoop, Reclaim, TryRunning,
        TakePending, BuildIndex, BuildFails, ReleaseRunning, Recheck, DrainStore,
        ManualBuild, ManualTimeout
<1>2. QED
  BY <1>1, LoopOnlyAlways, PTL DEF IndexNeverRegresses, Spec, Safety
-------------------------------------------------------------------------------
(* The machinery implements the service *)

\* What the service sees as its running pass.
Passing == {built[t] : t \in {u \in Tasks : pc[u] = "write"}}

LEMMA ServiceStep ==
  Inv /\ [Next]_vars => [Service!ServiceNext]_(Service!serviceVars)
<1> SUFFICES ASSUME Inv, [Next]_vars
             PROVE  Service!ServiceNext \/ UNCHANGED <<disk, index, Signalled, Passing, failures>>
  BY DEF Service!serviceVars, Passing
<1> USE BoundsAssumption DEF Inv, TypeOK, Points, Signalled, Passing, Goto
<1>1. CASE Change
  <2>1. Signalled' /\ Passing' = Passing /\ disk < MaxChanges /\ disk' = disk + 1
       /\ index' = index /\ failures' = failures
    BY <1>1 DEF Change, indexVars
  <2>2. QED
    BY <2>1 DEF Service!ServiceNext, Service!Request
<1>2. CASE ScheduleCoalesced
  BY <1>2 DEF ScheduleCoalesced, indexVars, FreshInv, SignalInv
<1>3. ASSUME NEW t \in Tasks, ScheduleFirst(t)
      PROVE  UNCHANGED <<disk, index, Signalled, Passing, failures>>
  BY <1>3 DEF ScheduleFirst, indexVars
<1>4. ASSUME NEW t \in Tasks, TaskStep(t)
      PROVE  Service!ServiceNext \/ UNCHANGED <<disk, index, Signalled, Passing, failures>>
  <2>1. CASE DebounceElapsed(t)
    BY <2>1 DEF DebounceElapsed, indexVars
  <2>2. CASE PostRequest(t)
    BY <2>2 DEF PostRequest, indexVars
  <2>3. CASE ClaimLoop(t) \/ Reclaim(t)
    BY <2>3 DEF ClaimLoop, Reclaim, TryRunning, indexVars
  <2>4. CASE TakePending(t)
    BY <2>4 DEF TakePending, indexVars
  <2>5. CASE BuildIndex(t)
    <3>1. \A u \in Tasks : pc[u] # "write"
      BY <2>5, OnePass DEF BuildIndex, LoopPoints
    <3>2. Signalled /\ Passing = {}
      BY <2>5, <3>1 DEF BuildIndex
    <3>3. Passing' = {disk}
      BY <2>5, <3>1 DEF BuildIndex
    <3>4. UNCHANGED <<disk, index, failures>> /\ Signalled' \in BOOLEAN
      BY <2>5 DEF BuildIndex, indexVars
    <3>5. QED
      BY <3>2, <3>3, <3>4 DEF Service!ServiceNext, Service!StartPass
  <2>6. CASE BuildFails(t)
    <3>1. \A u \in Tasks : pc[u] # "write" /\ pc'[u] # "write"
      BY <2>6, OnePass DEF BuildFails, LoopPoints
    <3>2. Signalled /\ Passing = {} /\ Passing' = {}
      BY <2>6, <3>1 DEF BuildFails
    <3>3. /\ UNCHANGED <<disk, index>> /\ Signalled' \in BOOLEAN
          /\ failures < MaxFailures /\ failures' = failures + 1
      BY <2>6 DEF BuildFails
    <3>4. QED
      BY <3>2, <3>3 DEF Service!ServiceNext, Service!FailPass
  <2>7. CASE WriteIndex(t)
    <3>1. \A u \in Tasks : pc'[u] # "write"
      BY <2>7, OnePass DEF WriteIndex, LoopPoints
    <3>2. Passing' = {} /\ built[t] \in Passing
      BY <2>7, <3>1 DEF WriteIndex
    <3>3. index' = built[t] /\ disk' = disk /\ failures' = failures
      BY <2>7 DEF WriteIndex, Install
    <3>4. Signalled' = Signalled
      BY <2>7 DEF WriteIndex
    <3>5. QED
      BY <3>2, <3>3, <3>4 DEF Service!ServiceNext, Service!FinishPass
  <2>8. CASE ReleaseRunning(t)
    BY <2>8 DEF ReleaseRunning, indexVars
  <2>9. CASE Recheck(t)
    BY <2>9 DEF Recheck, indexVars
  <2>10. QED
    BY <1>4, <2>1, <2>2, <2>3, <2>4, <2>5, <2>6, <2>7, <2>8, <2>9 DEF TaskStep
<1>5. ASSUME NEW t \in Tasks, DrainStore(t)
      PROVE  UNCHANGED <<disk, index, Signalled, Passing, failures>>
  BY <1>5 DEF DrainStore, indexVars
<1>6. CASE ManualBuild \/ ManualTimeout
  BY <1>6 DEF ManualBuild, ManualTimeout, watchVars
<1>7. CASE ManualWrite
  BY <1>7 DEF ManualWrite, LoopOnlyInv
<1>8. CASE UNCHANGED vars
  BY <1>8 DEF vars, watchVars, indexVars
<1>9. QED
  BY <1>1, <1>2, <1>3, <1>4, <1>5, <1>6, <1>7, <1>8 DEF Next, Watcher

\* Without refresh_index calls, the flags, sleepers and loops implement the
\* safety part of RefreshService: one pass at a time, and a request stays up
\* until a pass has read the disk after it.
THEOREM RefreshImplementsService ==
  ASSUME MaxManual = 0
  PROVE  Spec => Service!ServiceSafety
<1>1. Init => Service!ServiceInit
  BY DEF Init, Service!ServiceInit, Signalled
<1>2. QED
  BY <1>1, LoopOnlyAlways, ServiceStep, PTL DEF Spec, Safety, Service!ServiceSafety
===============================================================================
