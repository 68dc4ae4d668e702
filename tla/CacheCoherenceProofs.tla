------------------------- MODULE CacheCoherenceProofs -------------------------
(***************************************************************************)
(* For any files, tools and bounds: a stale entry of either cache is       *)
(* explained, and the client is never told an older content than before.   *)
(***************************************************************************)
EXTENDS CacheCoherence, TLAPS

(* What a call carries *)

AtFile == {"analyze", "parse", "fill", "read", "insert"}

FileCalls == [pc : AtFile, key : Keys, version : Readings]

\* A call that works on a file carries the key and what it has read.
LEMMA OnFile ==
    ASSUME NEW c \in Calls, c.pc \in AtFile
    PROVE  c \in FileCalls /\ c.key \in Keys /\ c.key[2] \in Files /\ c.version \in Readings
<1>1. c # Idle /\ c \notin [pc : {"rebuild"}, version : 0..MaxChanges]
  BY DEF Idle, AtFile
<1>2. c \in FileCalls
  BY <1>1 DEF Calls, FileCalls, AtFile
<1>3. QED
  BY <1>2 DEF FileCalls, Keys

\* It goes on to another point with what it has, or with something newly read.
LEMMA GoesOn ==
    ASSUME NEW c \in FileCalls, NEW point \in AtFile, NEW v \in Readings
    PROVE  /\ [c EXCEPT !.pc = point] \in FileCalls
           /\ [c EXCEPT !.pc = point, !.version = v] \in FileCalls
           /\ [c EXCEPT !.pc = point].pc = point
           /\ [c EXCEPT !.pc = point].key = c.key
           /\ [c EXCEPT !.pc = point].version = c.version
           /\ [c EXCEPT !.pc = point, !.version = v].pc = point
           /\ [c EXCEPT !.pc = point, !.version = v].key = c.key
           /\ [c EXCEPT !.pc = point, !.version = v].version = v
BY DEF FileCalls

LEMMA CallsHold == FileCalls \subseteq Calls /\ Idle \in Calls
BY DEF FileCalls, AtFile, Calls
-------------------------------------------------------------------------------
(* Types *)

\* The versions of the tree that the refresh handles.
TreeTypes == disk \in 0..MaxChanges /\ pass \in SUBSET (0..MaxChanges)

CacheTypes == /\ ast \in [Files -> AtMostOne(Readings)]
              /\ toolCache \in [Keys -> AtMostOne(Readings)]
              /\ served \in [Keys -> Versions]
              /\ unevicted \in SUBSET Files
              /\ unflushed \in SUBSET Keys

DiskTypes == /\ content \in [Files -> Versions]
             /\ chan \in Seq(Events)
             /\ evicting \in AtMostOne(Files)
             /\ flushes \in Nat
             /\ promised \in SUBSET Files

Typed == DiskTypes /\ CacheTypes /\ call \in Calls /\ TreeTypes

LEMMA TypedIs == Typed <=> TypeOK /\ TreeTypes
BY DEF Typed, TypeOK, DiskTypes, CacheTypes

LEMMA InitTyped == Init => Typed
<1> SUFFICES ASSUME Init PROVE Typed
  OBVIOUS
<1>1. DiskTypes /\ TreeTypes
  BY BoundsAssumption DEF Init, ServiceInit, DiskTypes, TreeTypes, AtMostOne, Versions
<1>2. CacheTypes
  BY BoundsAssumption DEF Init, CacheTypes, AtMostOne, Versions
<1>3. QED
  BY <1>1, <1>2, CallsHold DEF Init, Typed

LEMMA OneOf == \A S : {} \in AtMostOne(S) /\ \A x \in S : {x} \in AtMostOne(S)
BY DEF AtMostOne

LEMMA TypedKept == Typed /\ [Next]_vars => Typed'
<1> SUFFICES ASSUME Typed, [Next]_vars PROVE Typed'
  OBVIOUS
<1> USE DEF Typed, serviceVars, cacheVars, watcherVars, clientVars, excuseVars
<1>1. ASSUME NEW f \in Files, NEW kind \in {"modify", "topology"}, NewContent(f, kind)
      PROVE  DiskTypes' /\ call' \in Calls
  <2>1. content' \in [Files -> Versions]
    BY <1>1, BoundsAssumption DEF NewContent, DiskTypes, Versions
  <2>2. [kind |-> kind, file |-> f] \in Events
    BY DEF Events
  <2>3. chan' \in Seq(Events)
    BY <1>1, <2>2 DEF NewContent, DiskTypes
  <2>4. QED
    BY <1>1, <2>1, <2>3 DEF NewContent, DiskTypes
<1>2. ASSUME NEW f \in Files, Edit(f) PROVE Typed'
  BY <1>1, <1>2 DEF Edit, NewContent, CacheTypes, TreeTypes
<1>3. ASSUME NEW f \in Files, Replace(f) PROVE Typed'
  <2>1. CacheTypes'
    BY <1>3 DEF Replace, NewContent, CacheTypes
  <2>2. TreeTypes'
    BY <1>3, BoundsAssumption DEF Replace, Request, TreeTypes
  <2>3. QED
    BY <1>1, <1>3, <2>1, <2>2 DEF Replace
<1>4. ASSUME NEW f \in Files, CapacityEvict(f) PROVE Typed'
  BY <1>4, OneOf DEF CapacityEvict, DiskTypes, CacheTypes, TreeTypes
<1>5. CASE Receive
  <2>1. Head(chan) \in Events /\ chan' \in Seq(Events)
    BY <1>5 DEF Receive, DiskTypes
  <2>2. evicting' \in AtMostOne(Files)
    BY <1>5, <2>1, OneOf DEF Receive, Events
  <2>3. QED
    BY <1>5, <2>1, <2>2 DEF Receive, DiskTypes, CacheTypes, TreeTypes
<1>6. CASE Evict
  <2>1. PICK f \in evicting : ast' = [ast EXCEPT ![f] = {}] /\ unevicted' = unevicted \ {f}
    BY <1>6 DEF Evict
  <2>2. CacheTypes'
    BY <1>6, <2>1, OneOf DEF Evict, CacheTypes
  <2>3. evicting' = {}
    BY <1>6 DEF Evict
  <2>4. QED
    BY <1>6, <2>2, <2>3, OneOf DEF Evict, DiskTypes, TreeTypes
<1>7. FlushTools => toolCache' \in [Keys -> AtMostOne(Readings)] /\ unflushed' = {}
  BY OneOf DEF FlushTools, Empty, CacheTypes
<1>8. CASE RunFlush
  BY <1>7, <1>8 DEF RunFlush, DiskTypes, CacheTypes, TreeTypes
<1>9. CASE RefreshStarts
  BY <1>9 DEF RefreshStarts, StartPass, FailPass, DiskTypes, CacheTypes, TreeTypes
<1>10. CASE RefreshEnds
  BY <1>7, <1>10 DEF RefreshEnds, FinishPass, DiskTypes, CacheTypes, TreeTypes
<1>11. ASSUME NEW k \in Keys, NEW v \in Readings, Serve(k, v)
       PROVE  served' \in [Keys -> Versions]
  BY <1>11 DEF Serve, CacheTypes, Readings
<1>12. ASSUME NEW k \in Keys, Lookup(k) PROVE Typed'
  <2>1. CASE \E v \in toolCache[k] : AtCall("idle", Idle) /\ Serve(k, v)
    <3>1. toolCache[k] \subseteq Readings
      BY DEF CacheTypes, AtMostOne
    <3>2. served' \in [Keys -> Versions] /\ call' \in Calls
      BY <1>11, <2>1, <3>1, CallsHold DEF AtCall
    <3>3. QED
      BY <1>12, <2>1, <3>2 DEF Lookup, AtCall, DiskTypes, CacheTypes, TreeTypes
  <2>2. CASE AtCall("idle", [pc |-> IF k[1] \in AstTools THEN "analyze" ELSE "read",
                             key |-> k, version |-> 0]) /\ UNCHANGED served
    <3>1. 0 \in Readings
      BY BoundsAssumption DEF Readings, Versions
    <3>2. call' \in Calls
      BY <2>2, <3>1, CallsHold DEF AtCall, FileCalls, AtFile
    <3>3. QED
      BY <1>12, <2>2, <3>2 DEF Lookup, AtCall, DiskTypes, CacheTypes, TreeTypes
  <2>3. QED
    BY <1>12, <2>1, <2>2 DEF Lookup
<1>13. CASE Analyze
  <2>1. call \in FileCalls /\ call.key[2] \in Files
    BY <1>13, OnFile DEF Analyze, AtFile
  <2>2. ast[call.key[2]] \subseteq Readings
    BY <2>1 DEF CacheTypes, AtMostOne
  <2>3. call' \in Calls
    <3>1. CASE \E v \in ast[call.key[2]] :
                   call' = [call EXCEPT !.pc = "insert", !.version = v]
      <4>1. PICK v \in Readings : call' = [call EXCEPT !.pc = "insert", !.version = v]
        BY <2>2, <3>1
      <4>2. [call EXCEPT !.pc = "insert", !.version = v] \in FileCalls
        BY <2>1, GoesOn, Zenon DEF AtFile
      <4>3. QED
        BY <4>1, <4>2, CallsHold
    <3>2. CASE call' = [call EXCEPT !.pc = "parse"]
      <4>1. call.version \in Readings /\ "parse" \in AtFile
        BY <2>1 DEF FileCalls, AtFile
      <4>2. [call EXCEPT !.pc = "parse"] \in FileCalls
        BY <2>1, <4>1, GoesOn, Zenon
      <4>3. QED
        BY <3>2, <4>2, CallsHold
    <3>3. QED
      BY <1>13, <3>1, <3>2 DEF Analyze, AtCall
  <2>4. QED
    BY <1>13, <2>3 DEF Analyze, AtCall, DiskTypes, CacheTypes, TreeTypes
<1>14. ASSUME NEW point \in AtFile, NEW next \in AtFile, NEW R \in SUBSET Readings,
              ReadFile(point, next, R)
       PROVE  Typed'
  <2>1. call \in FileCalls
    BY <1>14, OnFile DEF ReadFile
  <2>2. call' \in Calls
    BY <1>14, <2>1, GoesOn, CallsHold DEF ReadFile, AtCall
  <2>3. QED
    BY <1>14, <2>2 DEF ReadFile, AtCall, DiskTypes, CacheTypes, TreeTypes
<1>15. ASSUME call.pc \in AtFile
       PROVE  content[call.key[2]] \in Readings /\ Unread \in Readings
  BY <1>15, OnFile DEF DiskTypes, Readings
<1>16. CASE Parse \/ ReadDirect
  BY <1>14, <1>15, <1>16 DEF Parse, ReadDirect, ReadFile, AtFile
<1>17. CASE Fill
  <2>1. call \in FileCalls /\ call.key[2] \in Files /\ call.version \in Readings
    BY <1>17, OnFile DEF Fill, AtFile
  <2>2. call' \in Calls
    BY <1>17, <2>1, GoesOn, CallsHold DEF Fill, AtCall, AtFile
  <2>3. ast' \in [Files -> AtMostOne(Readings)] /\ unevicted' \in SUBSET Files
    BY <1>17, <2>1, OneOf DEF Fill, CacheTypes
  <2>4. QED
    BY <1>17, <2>2, <2>3 DEF Fill, AtCall, DiskTypes, CacheTypes, TreeTypes
<1>18. CASE Insert
  <2>1. call.key \in Keys /\ call.version \in Readings
    BY <1>18, OnFile DEF Insert, AtFile
  <2>2. /\ toolCache' \in [Keys -> AtMostOne(Readings)]
        /\ served' \in [Keys -> Versions] /\ unflushed' \in SUBSET Keys
    BY <1>11, <1>18, <2>1, OneOf DEF Insert, CacheTypes
  <2>3. QED
    BY <1>18, <2>2, CallsHold DEF Insert, AtCall, DiskTypes, CacheTypes, TreeTypes
<1>19. CASE Timeout
  BY <1>19, CallsHold DEF Timeout, AtCall, DiskTypes, CacheTypes, TreeTypes
<1>20. CASE RebuildIndex
  BY <1>20 DEF RebuildIndex, AtCall, Calls, DiskTypes, CacheTypes, TreeTypes
<1>21. CASE ReportRefreshed
  BY <1>7, <1>21, CallsHold DEF ReportRefreshed, AtCall, DiskTypes, CacheTypes, TreeTypes
<1>22. CASE UNCHANGED vars
  BY <1>22 DEF vars, DiskTypes, CacheTypes, TreeTypes
<1>23. QED
  BY <1>2, <1>3, <1>4, <1>5, <1>6, <1>8, <1>9, <1>10, <1>12, <1>13, <1>16, <1>17,
     <1>18, <1>19, <1>20, <1>21, <1>22 DEF Next, WatcherNext, CallNext

LEMMA AlwaysTyped == Spec => []Typed
BY InitTyped, TypedKept, PTL DEF Spec

\* Every variable stays in its range in every reachable state.
THEOREM TypeCorrect == Spec => []TypeOK
BY AlwaysTyped, TypedIs, PTL
-------------------------------------------------------------------------------
(* Stale entries of the AST cache.  StaleAstExplained is inductive: a change of  *)
(* the file puts its own explanation into the channel or into unevicted, and an  *)
(* explanation only goes together with the entry.                                *)

LEMMA EvictionsStay ==
    ASSUME Typed, [Next]_vars, NEW f \in Files, EvictionComing(f), ~EvictionComing(f)'
    PROVE  Evict /\ f \in evicting
<1> USE DEF serviceVars, cacheVars, watcherVars, clientVars, excuseVars
<1>1. CASE f \in evicting
  <2>1. evicting # {}
    BY <1>1
  <2>2. ~UNCHANGED evicting
    BY <1>1 DEF EvictionComing
  <2>3. QED
    BY <1>1, <2>1, <2>2 DEF Next, WatcherNext, CallNext, Edit, Replace, NewContent,
       CapacityEvict, Receive, RunFlush, RefreshStarts, RefreshEnds, Lookup, Analyze,
       Parse, ReadDirect, ReadFile, Fill, Insert, RebuildIndex, ReportRefreshed, Timeout,
       AtCall, vars
<1>2. CASE f \notin evicting
  <2> DEFINE modify == [kind |-> "modify", file |-> f]
  <2>1. PICK i \in DOMAIN chan : chan[i] = modify
    BY <1>2 DEF EvictionComing
  <2>2. chan \in Seq(Events)
    BY DEF Typed, DiskTypes
  <2>3. ~UNCHANGED chan
    BY <2>1 DEF EvictionComing
  <2>4. ASSUME NEW e \in Events, chan' = Append(chan, e) PROVE FALSE
    <3>1. i \in DOMAIN chan' /\ chan'[i] = modify
      BY <2>1, <2>2, <2>4
    <3>2. QED
      BY <3>1 DEF EvictionComing
  <2>5. ASSUME Receive PROVE FALSE
    <3>1. CASE i = 1
      <4>1. f \in evicting'
        BY <2>1, <2>2, <2>5, <3>1 DEF Receive
      <4>2. QED
        BY <4>1 DEF EvictionComing
    <3>2. CASE i # 1
      <4>1. i - 1 \in DOMAIN chan' /\ chan'[i - 1] = modify
        BY <2>1, <2>2, <2>5, <3>2 DEF Receive
      <4>2. QED
        BY <4>1 DEF EvictionComing
    <3>3. QED
      BY <3>1, <3>2
  <2>6. ASSUME NEW g \in Files, Edit(g) \/ Replace(g) PROVE FALSE
    BY <2>4, <2>6 DEF Edit, Replace, NewContent, Events
  <2>7. QED
    BY <2>3, <2>5, <2>6 DEF Next, WatcherNext, CallNext, CapacityEvict, Evict, RunFlush,
       RefreshStarts, RefreshEnds, Lookup, Analyze, Parse, ReadDirect, ReadFile, Fill,
       Insert, RebuildIndex, ReportRefreshed, Timeout, AtCall, vars
<1>3. QED
  BY <1>1, <1>2

LEMMA StaleAstKept == Typed /\ StaleAstExplained /\ [Next]_vars => StaleAstExplained'
<1> SUFFICES ASSUME Typed, StaleAstExplained, [Next]_vars, NEW f \in Files
             PROVE  (ast[f] \subseteq {content[f]} \/ EvictionComing(f) \/ f \in unevicted)'
  BY DEF StaleAstExplained
<1> USE DEF serviceVars, cacheVars, watcherVars, clientVars, excuseVars
<1>1. ast \in [Files -> AtMostOne(Readings)] /\ content \in [Files -> Versions]
  BY DEF Typed, CacheTypes, DiskTypes
<1>2. ASSUME NEW g \in Files, Edit(g) PROVE EvictionComing(g)'
  <2>1. chan \in Seq(Events) /\ [kind |-> "modify", file |-> g] \in Events
    BY DEF Typed, DiskTypes, Events
  <2>2. chan' = Append(chan, [kind |-> "modify", file |-> g])
    BY <1>2 DEF Edit, NewContent
  <2>3. Len(chan) + 1 \in DOMAIN chan' /\ chan'[Len(chan) + 1] = [kind |-> "modify", file |-> g]
    BY <2>1, <2>2
  <2>4. QED
    BY <2>3 DEF EvictionComing
<1>3. ASSUME NEW g \in Files, Edit(g)
      PROVE  ast' = ast /\ unevicted' = unevicted /\ \A h \in Files \ {g} : content'[h] = content[h]
  BY <1>1, <1>3 DEF Edit, NewContent
<1>4. ASSUME NEW g \in Files, Replace(g)
      PROVE  /\ ast' = ast /\ unevicted' = unevicted \cup {g}
             /\ \A h \in Files \ {g} : content'[h] = content[h]
  BY <1>1, <1>4 DEF Replace, NewContent
<1>5. CASE \E g \in Files : Edit(g) \/ Replace(g)
  BY <1>2, <1>3, <1>4, <1>5, EvictionsStay DEF StaleAstExplained, Evict, Edit, Replace, NewContent
<1>6. ASSUME NEW g \in Files, CapacityEvict(g)
      PROVE  (ast[f] \subseteq {content[f]} \/ EvictionComing(f) \/ f \in unevicted)'
  BY <1>1, <1>6 DEF CapacityEvict, StaleAstExplained, EvictionComing
<1>7. CASE Evict
  <2>1. PICK g \in evicting : ast' = [ast EXCEPT ![g] = {}] /\ unevicted' = unevicted \ {g}
    BY <1>7 DEF Evict
  <2>2. f # g => f \notin evicting
    BY <2>1 DEF Typed, DiskTypes, AtMostOne
  <2>3. QED
    BY <1>1, <1>7, <2>1, <2>2, EvictionsStay DEF Evict, StaleAstExplained
<1>8. CASE Fill
  <2>1. call.key[2] \in Files
    BY <1>8, OnFile DEF Fill, AtFile, Typed
  <2>2. EvictionComing(f)' <=> EvictionComing(f)
    BY <1>8 DEF Fill, AtCall, EvictionComing
  <2>3. content' = content
    BY <1>8 DEF Fill, AtCall
  <2>4. CASE f = call.key[2]
    BY <1>1, <1>8, <2>1, <2>2, <2>3, <2>4 DEF Fill
  <2>5. CASE f # call.key[2]
    BY <1>1, <1>8, <2>1, <2>2, <2>3, <2>5 DEF Fill, StaleAstExplained
  <2>6. QED
    BY <2>4, <2>5
<1>9. CASE UNCHANGED <<ast, content, unevicted>> /\ ~Evict
  BY <1>9, EvictionsStay DEF StaleAstExplained
<1>10. QED
  BY <1>5, <1>6, <1>7, <1>8, <1>9 DEF Next, WatcherNext, CallNext, Receive, RunFlush,
     RefreshStarts, RefreshEnds, Lookup, Analyze, Parse, ReadDirect, ReadFile, Insert,
     RebuildIndex, ReportRefreshed, Timeout, AtCall, vars

\* However the watcher, the refresh, a call and the changes of the disk interleave, a
\* stale AST entry has one of the explanations.
THEOREM StaleAst == Spec => []StaleAstExplained
<1>1. Init => StaleAstExplained
  BY DEF Init, StaleAstExplained
<1>2. QED
  BY <1>1, StaleAstKept, AlwaysTyped, PTL DEF Spec
-------------------------------------------------------------------------------
(* Stale results of the tool cache *)

LEMMA StaleToolKept == Typed /\ StaleToolExplained /\ [Next]_vars => StaleToolExplained'
<1> SUFFICES ASSUME Typed, StaleToolExplained, [Next]_vars, NEW k \in Keys
             PROVE  (toolCache[k] \subseteq {content[k[2]]} \/ FlushComing \/ k \in unflushed)'
  BY DEF StaleToolExplained
<1> USE DEF serviceVars, cacheVars, watcherVars, clientVars, excuseVars
<1>1. CASE \E f \in Files : Edit(f) \/ Replace(f)
  <2>1. chan \in Seq(Events) /\ \E e \in Events : chan' = Append(chan, e)
    BY <1>1 DEF Typed, DiskTypes, Edit, Replace, NewContent, Events
  <2>2. chan' # <<>>
    BY <2>1
  <2>3. QED
    BY <2>2 DEF FlushComing
<1>2. CASE Receive
  BY <1>2 DEF Receive, FlushComing, Typed, DiskTypes
<1>3. CASE RunFlush \/ RefreshEnds \/ ReportRefreshed
  BY <1>3 DEF RunFlush, RefreshEnds, ReportRefreshed, FlushTools, Empty, Typed, CacheTypes
<1>4. CASE Insert
  <2>1. call.key \in Keys
    BY <1>4, OnFile DEF Insert, AtFile, Typed
  <2>2. (FlushComing' <=> FlushComing) /\ content' = content
    BY <1>4 DEF Insert, AtCall, FlushComing
  <2>3. toolCache \in [Keys -> AtMostOne(Readings)]
    BY DEF Typed, CacheTypes
  <2>4. CASE k = call.key
    BY <1>4, <2>1, <2>2, <2>3, <2>4 DEF Insert
  <2>5. CASE k # call.key
    BY <1>4, <2>1, <2>2, <2>3, <2>5 DEF Insert, StaleToolExplained
  <2>6. QED
    BY <2>4, <2>5
<1>5. CASE UNCHANGED <<toolCache, content, chan, flushes, unflushed>>
  BY <1>5 DEF StaleToolExplained, FlushComing
<1>6. QED
  BY <1>1, <1>2, <1>3, <1>4, <1>5 DEF Next, WatcherNext, CallNext, CapacityEvict, Evict,
     RefreshStarts, Lookup, Analyze, Parse, ReadDirect, ReadFile, Fill, RebuildIndex,
     Timeout, AtCall, vars

\* A stale tool result is about to be flushed or was stored behind the flush.
THEOREM StaleTool == Spec => []StaleToolExplained
<1>1. Init => StaleToolExplained
  BY DEF Init, StaleToolExplained
<1>2. QED
  BY <1>1, StaleToolKept, AlwaysTyped, PTL DEF Spec
-------------------------------------------------------------------------------
(* No time travel *)

\* What the client was told is not newer than what is on disk, in the AST cache or in
\* the hands of a call that will tell it next; the tool cache repeats it.
DiskFollows == \A k \in Keys : served[k] <= content[k[2]]

ToolsRepeat == \A k \in Keys : toolCache[k] \subseteq {served[k], Unread}

AstFollows == \A k \in Keys : \A v \in ast[k[2]] :
                 /\ v <= content[k[2]]
                 /\ k[1] \in AstTools /\ v # Unread => served[k] <= v

FillFollows ==
    call.pc = "fill" =>
        /\ call.version <= content[call.key[2]]
        /\ call.version # Unread =>
              \A k \in Keys : k[1] \in AstTools /\ k[2] = call.key[2] => served[k] <= call.version

InsertFollows ==
    call.pc = "insert" =>
        /\ call.version <= content[call.key[2]]
        /\ call.version # Unread =>
              /\ served[call.key] <= call.version
              /\ call.key[1] \in AstTools =>
                    \A v \in ast[call.key[2]] \ {Unread} : call.version <= v

ByTool == /\ call.pc \in {"analyze", "parse", "fill"} => call.key[1] \in AstTools
          /\ call.pc = "read" => call.key[1] \notin AstTools

Onward == DiskFollows /\ ToolsRepeat /\ AstFollows /\ FillFollows /\ InsertFollows /\ ByTool

LEMMA InitOnward == Init => Onward
<1> SUFFICES ASSUME Init PROVE Onward
  OBVIOUS
<1>1. \A k \in Keys : k[2] \in Files
  BY DEF Keys
<1>2. QED
  BY <1>1 DEF Init, Onward, DiskFollows, ToolsRepeat, AstFollows, FillFollows, InsertFollows,
     ByTool, Idle

\* Readings are compared as integers.
LEMMA Numbers ==
    ASSUME Typed
    PROVE  /\ \A f \in Files : content[f] \in Int /\ ast[f] \subseteq Int
           /\ \A f \in Files : \A v, w \in ast[f] : v = w
           /\ \A k \in Keys : served[k] \in Int /\ k[2] \in Files
           /\ call.pc \in AtFile => call.version \in Int /\ call.key \in Keys
<1>1. Readings \subseteq Int
  BY BoundsAssumption DEF Readings, Versions, Unread
<1>2. \A f \in Files : content[f] \in Int /\ ast[f] \subseteq Int /\ \A v, w \in ast[f] : v = w
  BY <1>1 DEF Typed, DiskTypes, CacheTypes, AtMostOne, Readings
<1>3. \A k \in Keys : served[k] \in Int /\ k[2] \in Files
  BY <1>1 DEF Typed, CacheTypes, Readings, Keys
<1>4. QED
  BY <1>1, <1>2, <1>3, OnFile DEF Typed

LEMMA OnwardKept == Typed /\ Onward /\ [Next]_vars => Onward'
<1> SUFFICES ASSUME Typed, Onward, [Next]_vars PROVE Onward'
  OBVIOUS
<1> USE Numbers DEF Onward, serviceVars, cacheVars, watcherVars, clientVars, excuseVars
<1>0. Typed'
  BY TypedKept
<1>1. CASE \E f \in Files : Edit(f) \/ Replace(f)
  <2>1. PICK f \in Files : content' = [content EXCEPT ![f] = @ + 1]
    BY <1>1 DEF Edit, Replace, NewContent
  <2>2. \A g \in Files : content[g] <= content'[g] /\ content'[g] \in Int
    BY <2>1 DEF Typed, DiskTypes
  <2>3. UNCHANGED <<call, served, ast, toolCache>>
    BY <1>1 DEF Edit, Replace, NewContent
  <2>4. DiskFollows' /\ ToolsRepeat'
    BY <2>2, <2>3 DEF DiskFollows, ToolsRepeat
  <2>5. AstFollows'
    BY <2>2, <2>3 DEF AstFollows
  <2>6. FillFollows' /\ InsertFollows' /\ ByTool'
    BY <2>2, <2>3 DEF FillFollows, InsertFollows, ByTool, AtFile
  <2>7. QED
    BY <2>4, <2>5, <2>6
<1>2. CASE Evict \/ \E f \in Files : CapacityEvict(f)
  <2>1. \A f \in Files : ast'[f] \subseteq ast[f]
    BY <1>2 DEF Evict, CapacityEvict, Typed, CacheTypes
  <2>2. UNCHANGED <<call, served, content, toolCache>>
    BY <1>2 DEF Evict, CapacityEvict
  <2>3. DiskFollows' /\ ToolsRepeat' /\ FillFollows' /\ ByTool'
    BY <2>2 DEF DiskFollows, ToolsRepeat, FillFollows, ByTool
  <2>4. AstFollows' /\ InsertFollows'
    BY <2>1, <2>2 DEF AstFollows, InsertFollows, AtFile
  <2>5. QED
    BY <2>3, <2>4
<1>3. CASE RunFlush \/ RefreshEnds
  <2>1. \A k \in Keys : toolCache'[k] = {}
    BY <1>3 DEF RunFlush, RefreshEnds, FlushTools, Empty, Typed, CacheTypes
  <2>2. UNCHANGED <<call, served, content, ast>>
    BY <1>3 DEF RunFlush, RefreshEnds
  <2>3. QED
    BY <2>1, <2>2 DEF DiskFollows, ToolsRepeat, AstFollows, FillFollows, InsertFollows, ByTool
<1>4. ASSUME NEW k \in Keys, Lookup(k) PROVE Onward'
  <2>1. CASE \E v \in toolCache[k] : call' = Idle /\ Serve(k, v)
    <3>1. served' = served
      BY <2>1 DEF Serve, ToolsRepeat, Typed, CacheTypes
    <3>2. UNCHANGED <<content, ast, toolCache>> /\ call'.pc = "idle"
      BY <1>4, <2>1 DEF Lookup, AtCall, Idle
    <3>3. QED
      BY <3>1, <3>2 DEF DiskFollows, ToolsRepeat, AstFollows, FillFollows, InsertFollows, ByTool
  <2>2. CASE UNCHANGED served /\ call' = [pc |-> IF k[1] \in AstTools THEN "analyze" ELSE "read",
                                         key |-> k, version |-> 0]
    <3>1. UNCHANGED <<content, ast, toolCache>>
      BY <1>4 DEF Lookup, AtCall
    <3>2. QED
      BY <2>2, <3>1 DEF DiskFollows, ToolsRepeat, AstFollows, FillFollows, InsertFollows, ByTool
  <2>3. QED
    BY <1>4, <2>1, <2>2 DEF Lookup, AtCall
<1>5. CASE Analyze
  <2>1. UNCHANGED <<content, ast, toolCache, served>>
    BY <1>5 DEF Analyze, AtCall
  <2>2. DiskFollows' /\ ToolsRepeat' /\ AstFollows'
    BY <2>1 DEF DiskFollows, ToolsRepeat, AstFollows
  <2>3. call \in FileCalls /\ call.key[1] \in AstTools /\ call.key \in Keys
    BY <1>5, OnFile DEF Analyze, AtFile, Typed, ByTool
  <2>4. CASE call' = [call EXCEPT !.pc = "parse"]
    BY <2>2, <2>3, <2>4 DEF FileCalls, FillFollows, InsertFollows, ByTool
  <2>5. ASSUME NEW v \in ast[call.key[2]], call' = [call EXCEPT !.pc = "insert", !.version = v]
        PROVE  Onward'
    <3>1. call'.pc = "insert" /\ call'.key = call.key /\ call'.version = v
      BY <2>3, <2>5 DEF FileCalls
    <3>2. InsertFollows'
      BY <2>1, <2>3, <3>1 DEF InsertFollows, AstFollows
    <3>3. QED
      BY <2>2, <3>1, <3>2 DEF FillFollows, ByTool
  <2>6. QED
    BY <1>5, <2>4, <2>5 DEF Analyze, AtCall
<1>6. CASE Parse \/ ReadDirect
  <2>1. UNCHANGED <<content, ast, toolCache, served>>
    BY <1>6 DEF Parse, ReadDirect, ReadFile, AtCall
  <2>2. DiskFollows' /\ ToolsRepeat' /\ AstFollows'
    BY <2>1 DEF DiskFollows, ToolsRepeat, AstFollows
  <2>3. call \in FileCalls /\ call.key \in Keys
    BY <1>6, OnFile DEF Parse, ReadDirect, ReadFile, AtFile, Typed
  <2> DEFINE f == call.key[2]
  <2>4. CASE Parse
    <3>1. PICK v \in {content[f], Unread} : call' = [call EXCEPT !.pc = "fill", !.version = v]
      BY <2>4 DEF Parse, ReadFile, AtCall
    <3>2. call'.pc = "fill" /\ call'.key = call.key /\ call'.version = v
      BY <2>3, <3>1 DEF FileCalls
    <3>3. v <= content[f]
      BY <2>3, BoundsAssumption DEF Unread, Typed, DiskTypes, Versions
    <3>4. FillFollows'
      BY <2>1, <2>3, <3>2, <3>3 DEF FillFollows, DiskFollows
    <3>5. QED
      BY <2>2, <2>4, <3>2, <3>4 DEF InsertFollows, ByTool, Parse, ReadFile
  <2>5. CASE ReadDirect
    <3>1. call' = [call EXCEPT !.pc = "insert", !.version = content[f]]
      BY <2>5 DEF ReadDirect, ReadFile, AtCall
    <3>2. call'.pc = "insert" /\ call'.key = call.key /\ call'.version = content[f]
      BY <2>3, <3>1 DEF FileCalls
    <3>3. InsertFollows'
      BY <2>1, <2>3, <2>5, <3>2 DEF InsertFollows, DiskFollows, ByTool, ReadDirect, ReadFile
    <3>4. QED
      BY <2>2, <3>2, <3>3 DEF FillFollows, ByTool
  <2>6. QED
    BY <1>6, <2>4, <2>5
<1>7. CASE Fill
  <2>1. call \in FileCalls /\ call.key[1] \in AstTools /\ call.key \in Keys /\ call.key[2] \in Files
    BY <1>7, OnFile DEF Fill, AtFile, Typed, ByTool
  <2>2. call' = [call EXCEPT !.pc = "insert"] /\ ast' = [ast EXCEPT ![call.key[2]] = {call.version}]
    BY <1>7 DEF Fill, AtCall
  <2>3. call'.pc = "insert" /\ call'.key = call.key /\ call'.version = call.version
    BY <2>1, <2>2 DEF FileCalls
  <2>4. UNCHANGED <<content, toolCache, served>>
    BY <1>7 DEF Fill, AtCall
  <2>5. /\ call.version <= content[call.key[2]]
        /\ call.version # Unread =>
              \A k \in Keys : k[1] \in AstTools /\ k[2] = call.key[2] => served[k] <= call.version
    BY <1>7 DEF Fill, FillFollows
  <2>6. ast'[call.key[2]] = {call.version} /\ \A g \in Files \ {call.key[2]} : ast'[g] = ast[g]
    BY <2>1, <2>2 DEF Typed, CacheTypes
  <2>7. AstFollows'
    BY <2>4, <2>5, <2>6 DEF AstFollows
  <2>8. InsertFollows'
    BY <2>1, <2>3, <2>4, <2>5, <2>6 DEF InsertFollows, AtFile, FileCalls
  <2>9. QED
    BY <2>3, <2>4, <2>7, <2>8 DEF DiskFollows, ToolsRepeat, FillFollows, ByTool
<1>8. CASE Insert
  <2>1. call.key \in Keys /\ call.version \in Int /\ call.key[2] \in Files
    BY <1>8, OnFile DEF Insert, AtFile, Typed
  <2>2. call'.pc = "idle" /\ UNCHANGED <<content, ast>>
    BY <1>8 DEF Insert, AtCall, Idle
  <2>3. toolCache' = [toolCache EXCEPT ![call.key] = {call.version}] /\ Serve(call.key, call.version)
    BY <1>8 DEF Insert
  <2>4. \A k \in Keys \ {call.key} : served'[k] = served[k] /\ toolCache'[k] = toolCache[k]
    BY <2>1, <2>3 DEF Serve, Typed, CacheTypes
  <2>5. toolCache'[call.key] \subseteq {served'[call.key], Unread}
    BY <2>1, <2>3 DEF Serve, Typed, CacheTypes
  <2>6. served'[call.key] = served[call.key] \/ (call.version # Unread /\ served'[call.key] = call.version)
    BY <2>1, <2>3 DEF Serve, Typed, CacheTypes
  <2>7. DiskFollows'
    BY <1>8, <2>1, <2>2, <2>4, <2>6 DEF DiskFollows, InsertFollows, Insert
  <2>8. AstFollows'
    BY <1>8, <2>1, <2>2, <2>4, <2>6 DEF AstFollows, InsertFollows, Insert
  <2>9. ToolsRepeat'
    BY <2>4, <2>5 DEF ToolsRepeat
  <2>10. QED
    BY <2>2, <2>7, <2>8, <2>9 DEF FillFollows, InsertFollows, ByTool
<1>9. CASE Timeout \/ RebuildIndex
  BY <1>9 DEF Timeout, RebuildIndex, AtCall, Idle, DiskFollows, ToolsRepeat, AstFollows,
     FillFollows, InsertFollows, ByTool
<1>10. CASE ReportRefreshed
  <2>1. \A k \in Keys : toolCache'[k] = {}
    BY <1>10 DEF ReportRefreshed, FlushTools, Empty, Typed, CacheTypes
  <2>2. UNCHANGED <<served, content, ast>> /\ call'.pc = "idle"
    BY <1>10 DEF ReportRefreshed, AtCall, Idle
  <2>3. QED
    BY <2>1, <2>2 DEF DiskFollows, ToolsRepeat, AstFollows, FillFollows, InsertFollows, ByTool
<1>11. CASE UNCHANGED <<call, served, content, ast, toolCache>>
  BY <1>11 DEF DiskFollows, ToolsRepeat, AstFollows, FillFollows, InsertFollows, ByTool
<1>12. QED
  BY <1>1, <1>2, <1>3, <1>4, <1>5, <1>6, <1>7, <1>8, <1>9, <1>10, <1>11 DEF Next, WatcherNext,
     CallNext, Receive, RefreshStarts, vars

\* The client is never told an older content of a file than the same tool has told it
\* before.
THEOREM NeverBack == Spec => NoTimeTravel
<1>1. ASSUME Typed, Onward, [Next]_vars PROVE [\A k \in Keys : served'[k] >= served[k]]_served
  <2> SUFFICES ASSUME served' # served, NEW k \in Keys PROVE served'[k] >= served[k]
    OBVIOUS
  <2> USE Numbers DEF clientVars
  <2>1. ASSUME NEW l \in Keys, Lookup(l) PROVE FALSE
    BY <1>1, <2>1 DEF Lookup, Serve, Onward, ToolsRepeat, Typed, CacheTypes
  <2>2. CASE Insert
    <3>1. call.key \in Keys
      BY <1>1, <2>2, OnFile DEF Insert, AtFile, Typed
    <3>2. k # call.key => served'[k] = served[k]
      BY <1>1, <2>2, <3>1 DEF Insert, Serve, Typed, CacheTypes
    <3>3. served'[call.key] >= served[call.key]
      BY <1>1, <2>2, <3>1 DEF Insert, Serve, Onward, InsertFollows, AtFile, Typed, CacheTypes
    <3>4. QED
      BY <1>1, <3>2, <3>3
  <2>3. QED
    BY <1>1, <2>1, <2>2 DEF Next, WatcherNext, CallNext, Edit, Replace, NewContent,
       CapacityEvict, Receive, Evict, RunFlush, RefreshStarts, RefreshEnds, Analyze, Parse,
       ReadDirect, ReadFile, Fill, RebuildIndex, ReportRefreshed, Timeout, AtCall, vars
<1>2. QED
  BY <1>1, InitOnward, OnwardKept, InitTyped, TypedKept, PTL DEF Spec, NoTimeTravel
===============================================================================
