------------------------ MODULE ProjectRegistryProofs ------------------------
(***************************************************************************)
(* For any clients, ids, roots and files: the registry's locks exclude     *)
(* each other and never lock its callers up, its default project is        *)
(* registered, and behind the locks it is ProjectService.                  *)
(***************************************************************************)
EXTENDS ProjectRegistry, TLAPS

HoldMap == {"registerDefault", "registerSet", "unregisterDefault", "unregisterSet"}

\* The holders of the two locks are known from where the clients are.
LocksHeld ==
    \A c \in Clients :
        /\ c \in mapLock.writer <=> At(c, HoldMap)
        /\ c \in mapLock.readers <=> At(c, {"readDefault", "answerDefault"})
        /\ c \in defaultLock.writer <=> At(c, {"registerSet", "unregisterSet"})
        /\ c \in defaultLock.readers <=> At(c, {"answerDefault"})

\* A writer of the map is alone.
Exclusive ==
    \A c \in mapLock.writer : \A d \in Clients : /\ d \in mapLock.writer => d = c
                                                 /\ d \notin mapLock.readers

\* What a client carries at each point.
Carried(c) ==
    /\ At(c, {"get", "unregister"}) => call[c].arg \in Keys
    /\ At(c, {"path"}) => call[c].arg \in Files
    /\ At(c, {"register", "registerDefault", "registerSet"}) => call[c].arg \in Contexts
    /\ At(c, {"unregisterDefault", "unregisterSet"}) => call[c].arg \in Removals
    /\ At(c, {"resolve"}) => active[c] \in Ids
    /\ At(c, {"activate", "cache", "store"}) => answer[c] \in Contexts
    /\ At(c, {"register", "registerDefault", "registerSet", "get", "path"})
           => call[c].goal \in {"idle", "activate"}
    /\ At(c, {"store"}) \/ (call[c].goal = "store" /\ ~At(c, {"idle"})) => call[c].arg \in Roots

\* What the registry looks like while a client holds the map.
Changing(c) ==
    /\ At(c, {"registerDefault", "registerSet"}) =>
           projects[call[c].arg.id] = call[c].arg.root
    /\ At(c, {"unregisterDefault", "unregisterSet"}) =>
           /\ default # None
           /\ projects[call[c].arg.id] = None
           /\ IF call[c].arg.first = None THEN \A i \in Ids : projects[i] = None
              ELSE projects[call[c].arg.first] # None

\* The default project is registered, but for the one that is being replaced.
DefaultKept ==
    /\ default # None => \/ projects[default] # None
                         \/ \E c \in Clients : /\ At(c, {"unregisterDefault", "unregisterSet"})
                                               /\ call[c].arg.id = default
    /\ default = None => \/ \A i \in Ids : projects[i] = None
                         \/ \E c \in Clients : At(c, {"registerDefault", "registerSet"})

IInv == /\ TypeOK
        /\ LocksHeld
        /\ Exclusive
        /\ \A c \in Clients : Carried(c) /\ Changing(c)
        /\ DefaultKept

\* The locks follow the clients.
LEMMA LockStep ==
    TypeOK /\ LocksHeld /\ Exclusive /\ [Next]_vars => LocksHeld' /\ Exclusive'
<1> SUFFICES ASSUME TypeOK /\ LocksHeld /\ Exclusive, [Next]_vars PROVE LocksHeld' /\ Exclusive'
    OBVIOUS
<1> USE DEF TypeOK, Calls, Goals, Locks, LocksHeld, Exclusive, At, HoldMap, Lookups
<1> USE DEF Becomes, Goto, Finish, Idle, Begin, registryVars, lockVars
<1>1. CASE UNCHANGED vars
    BY <1>1 DEF vars
<1>2. ASSUME NEW c \in Clients, ClientNext(c) PROVE LocksHeld' /\ Exclusive'
  <2>1. CASE BeginRegister(c)
      BY <2>1 DEF BeginRegister
  <2>2. CASE BeginUnregister(c)
      BY <2>2 DEF BeginUnregister
  <2>3. CASE BeginGet(c)
      BY <2>3 DEF BeginGet
  <2>4. CASE BeginPath(c)
      BY <2>4 DEF BeginPath
  <2>5. CASE BeginTool(c)
      BY <2>5 DEF BeginTool, Scope
  <2>6. CASE RegisterInsert(c)
      BY <2>6 DEF RegisterInsert, CanWrite, Writing
  <2>7. CASE RegisterDefault(c)
      BY <2>7 DEF RegisterDefault, CanWrite, Writing
  <2>8. CASE RegisterSet(c)
      BY <2>8 DEF RegisterSet, ReleaseBoth, Released, Found
  <2>9. CASE UnregisterRemove(c)
      BY <2>9 DEF UnregisterRemove, CanWrite, Writing
  <2>10. CASE UnregisterUnknown(c)
      BY <2>10 DEF UnregisterUnknown
  <2>11. CASE UnregisterDefault(c)
      BY <2>11 DEF UnregisterDefault, CanWrite, Writing
  <2>12. CASE UnregisterSet(c)
      BY <2>12 DEF UnregisterSet, ReleaseBoth, Released
  <2>13. CASE LookUp(c)
    <3>1. UNCHANGED lockVars /\ At(c, Lookups)
        BY <2>13 DEF LookUp
    <3>2. PICK next : /\ call' = [call EXCEPT ![c] = next]
                      /\ next.pc \in Goals \cup {"getDefault"}
      <4>1. call[c] \in Calls /\ call[c].goal \in Goals
          OBVIOUS
      <4>2. \/ call' = [call EXCEPT ![c] = Idle]
            \/ call' = [call EXCEPT ![c] = [call[c] EXCEPT !.pc = call[c].goal]]
            \/ call' = [call EXCEPT ![c] = [call[c] EXCEPT !.pc = "getDefault"]]
          BY <2>13 DEF LookUp, Found, NotFound
      <4> QED
          BY <4>1, <4>2
    <3>3. \A d \in Clients : call'[d] = IF d = c THEN next ELSE call[d]
        BY <3>2
    <3> QED
        BY <3>1, <3>2, <3>3
  <2>14. CASE GetDefault(c)
      BY <2>14 DEF GetDefault, CanRead, Reading
  <2>15. CASE ReadDefault(c)
      BY <2>15 DEF ReadDefault, CanRead, Reading
  <2>16. CASE AnswerDefault(c)
      BY <2>16 DEF AnswerDefault, ReleaseBoth, Released, Found, NotFound
  <2>17. CASE SetActive(c)
      BY <2>17 DEF SetActive
  <2>18. CASE CacheHit(c)
      BY <2>18 DEF CacheHit
  <2>19. CASE CacheMiss(c)
      BY <2>19 DEF CacheMiss, Scope
  <2>20. CASE StoreResult(c)
      BY <2>20 DEF StoreResult
  <2> QED
      BY <1>2,
         <2>1, <2>2, <2>3, <2>4, <2>5, <2>6, <2>7, <2>8, <2>9, <2>10,
         <2>11, <2>12, <2>13, <2>14, <2>15, <2>16, <2>17, <2>18, <2>19, <2>20
      DEF ClientNext
<1> QED
    BY <1>1, <1>2 DEF Next

\* What a lookup finds is a registered project with its root.
LEMMA CandidatesAreContexts ==
    ASSUME projects \in [Ids -> Roots \cup {None}], NEW c \in Clients, At(c, Lookups)
    PROVE  /\ Candidates(c) \subseteq Contexts
           /\ \A x \in Candidates(c) : \E i \in Registered : x = Context(i)
<1>1. \A i \in Registered : Context(i) \in Contexts
    BY DEF Registered, Context, Contexts
<1>2. \A key : \A x \in Matches(key) : \E i \in Registered : x = Context(i)
    BY DEF Matches
<1>3. \A f : \A x \in Innermost(f) : \E i \in Registered : x = Context(i)
    BY DEF Innermost, Containing
<1>4. \A x \in Candidates(c) : \E i \in Registered : x = Context(i)
    BY <1>2, <1>3 DEF Candidates, At, Lookups
<1> QED
    BY <1>1, <1>4

\* What a removal takes out of the map, and the id the map then yields first.
Removed(c, i, first) ==
    /\ projects[i] # None
    /\ projects' = [projects EXCEPT ![i] = None]
    /\ call' = [call EXCEPT ![c] = [pc |-> "unregisterDefault", goal |-> "idle",
                                   arg |-> [id |-> i, first |-> first]]]
    /\ IF first = None THEN \A j \in Ids : j # i => projects[j] = None
       ELSE first # i /\ projects[first] # None

LEMMA RemovalStep ==
    ASSUME NEW c \in Clients, UnregisterRemove(c)
    PROVE  \E i \in Ids, first \in Ids \cup {None} : Removed(c, i, first)
<1>1. PICK i \in Targets(call[c].arg) : \E first \in FirstOf(Registered \ {i}) :
             /\ projects' = [projects EXCEPT ![i] = None]
             /\ call' = [call EXCEPT ![c] = [
                         pc |-> "unregisterDefault", goal |-> "idle",
                         arg |-> [id |-> i, first |-> first]]]
    BY DEF UnregisterRemove, Becomes
<1>2. PICK first \in FirstOf(Registered \ {i}) :
             call' = [call EXCEPT ![c] = [
                         pc |-> "unregisterDefault", goal |-> "idle",
                         arg |-> [id |-> i, first |-> first]]]
    BY <1>1
<1>3. i \in Registered
    BY <1>1 DEF Targets, Matches, Context
<1>4. IF first = None THEN \A j \in Ids : j # i => projects[j] = None
      ELSE first \in Ids /\ first # i /\ projects[first] # None
    <2>1. CASE Registered \ {i} = {}
        <3>1. \A j \in Ids : j # i => projects[j] = None
            BY <2>1 DEF Registered
        <3>2. first = None
            BY <2>1, <1>2 DEF FirstOf
        <3> QED
            BY <3>1, <3>2
    <2>2. CASE Registered \ {i} # {}
        <3>1. first \in Registered \ {i}
            BY <2>2, <1>2 DEF FirstOf
        <3> QED
            BY <3>1, KeysAssumption DEF Registered
    <2> QED
        BY <2>1, <2>2
<1> QED
    BY <1>1, <1>2, <1>3, <1>4 DEF Removed, Registered

\* Every step carries what the next one needs.
LEMMA TypeStep ==
    TypeOK /\ (\A c \in Clients : Carried(c)) /\ [Next]_vars
        => TypeOK' /\ (\A c \in Clients : Carried(c)')
<1> SUFFICES ASSUME TypeOK, \A c \in Clients : Carried(c), [Next]_vars
             PROVE  TypeOK' /\ (\A c \in Clients : Carried(c)')
    OBVIOUS
<1> USE DEF TypeOK, Calls, Goals, Points, Locks, Keys, Contexts, Removals, Carried, At,
            Lookups
<1> USE DEF Becomes, Goto, Finish, Idle, Begin, registryVars, lockVars
<1>1. CASE UNCHANGED vars
    BY <1>1 DEF vars
<1>2. ASSUME NEW c \in Clients, ClientNext(c)
      PROVE  TypeOK' /\ (\A d \in Clients : Carried(d)')
  <2>1. CASE BeginRegister(c)
      BY <2>1 DEF BeginRegister
  <2>2. CASE BeginUnregister(c)
      BY <2>2 DEF BeginUnregister
  <2>3. CASE BeginGet(c)
      BY <2>3 DEF BeginGet
  <2>4. CASE BeginPath(c)
      BY <2>4 DEF BeginPath
  <2>5. CASE BeginTool(c)
      BY <2>5, KeysAssumption DEF BeginTool, Scope
  <2>6. CASE RegisterInsert(c)
    <3>1. call[c].arg.id \in Ids /\ call[c].arg.root \in Roots
      BY <2>6 DEF RegisterInsert
    <3>2. projects' \in [Ids -> Roots \cup {None}]
      BY <2>6, <3>1 DEF RegisterInsert
    <3>5. call' \in [Clients -> Calls]
      BY <2>6 DEF RegisterInsert
    <3>6. mapLock' \in Locks
      BY <2>6 DEF RegisterInsert, Writing
    <3>3. TypeOK'
      BY <2>6, <3>2, <3>5, <3>6 DEF RegisterInsert
    <3>4. \A d \in Clients : Carried(d)'
      BY <2>6 DEF RegisterInsert, Writing
    <3> QED
      BY <3>3, <3>4
  <2>7. CASE RegisterDefault(c)
      BY <2>7 DEF RegisterDefault, Writing
  <2>8. CASE RegisterSet(c)
    <3>1. call[c].arg \in Contexts /\ call[c].arg.id \in Ids
      BY <2>8 DEF RegisterSet
    <3>2. default' \in Ids \cup {None} /\ answer' \in [Clients -> Contexts \cup {None, NoProject}]
      BY <2>8, <3>1 DEF RegisterSet, Found
    <3>3. TypeOK'
      BY <2>8, <3>2 DEF RegisterSet, ReleaseBoth, Released, Found
    <3>4. \A d \in Clients : Carried(d)'
      BY <2>8, <3>1 DEF RegisterSet, Found
    <3> QED
      BY <3>3, <3>4
  <2>9. CASE UnregisterRemove(c)
    <3>1. PICK i \in Ids, first \in Ids \cup {None} : Removed(c, i, first)
      BY <2>9, RemovalStep
    <3>2. [id |-> i, first |-> first] \in Removals
      BY <3>1
    <3>3. call' \in [Clients -> Calls] /\ projects' \in [Ids -> Roots \cup {None}]
      BY <3>1, <3>2 DEF Removed
    <3>4. mapLock' \in Locks /\ tools' \in [Roots -> Contexts \cup {None}]
      BY <2>9 DEF UnregisterRemove, Writing
    <3>5. made' = made /\ UNCHANGED <<default, active, answer, defaultLock>>
      BY <2>9 DEF UnregisterRemove
    <3>6. TypeOK'
      BY <3>3, <3>4, <3>5
    <3>7. \A d \in Clients : Carried(d)'
      BY <3>1, <3>2, <3>5 DEF Removed
    <3> QED
      BY <3>6, <3>7
  <2>10. CASE UnregisterUnknown(c)
      BY <2>10 DEF UnregisterUnknown
  <2>11. CASE UnregisterDefault(c)
      BY <2>11 DEF UnregisterDefault, Writing
  <2>12. CASE UnregisterSet(c)
      BY <2>12 DEF UnregisterSet, ReleaseBoth, Released
  <2>13. CASE LookUp(c)
    <3>1. CASE Candidates(c) = {}
      <4>1. /\ UNCHANGED <<projects, default, active, tools, lockVars>>
            /\ \/ NotFound(c)
               \/ Goto(c, "getDefault") /\ UNCHANGED answer
        BY <2>13, <3>1 DEF LookUp
      <4>2. CASE NotFound(c)
        BY <4>1, <4>2 DEF NotFound
      <4>3. CASE Goto(c, "getDefault") /\ UNCHANGED answer
        <5>1. ~At(c, {"idle"})
          BY <2>13 DEF LookUp
        <5> QED
          BY <4>1, <4>3, <5>1
      <4> QED
        BY <4>1, <4>2, <4>3
    <3>2. ASSUME NEW context \in Candidates(c), Found(c, context)
          PROVE  TypeOK' /\ (\A d \in Clients : Carried(d)')
      <4>1. context \in Contexts
        BY <2>13, <3>2, CandidatesAreContexts DEF LookUp
      <4>2. answer' \in [Clients -> Contexts \cup {None, NoProject}]
        BY <3>2, <4>1 DEF Found
      <4>3. TypeOK'
        BY <2>13, <3>2, <4>2 DEF LookUp, Found
      <4>4. \A d \in Clients : Carried(d)'
        BY <2>13, <3>2, <4>1 DEF LookUp, Found
      <4> QED
        BY <4>3, <4>4
    <3> QED
      BY <2>13, <3>1, <3>2 DEF LookUp
  <2>14. CASE GetDefault(c)
      BY <2>14 DEF GetDefault, Reading
  <2>15. CASE ReadDefault(c)
      BY <2>15 DEF ReadDefault, Reading
  <2>16. CASE AnswerDefault(c)
    <3>1. CASE default \notin Registered
      <4>1. NotFound(c)
        BY <2>16, <3>1 DEF AnswerDefault
      <4> QED
        BY <2>16, <4>1 DEF AnswerDefault, NotFound, ReleaseBoth, Released
    <3>2. CASE default \in Registered
      <4>1. Context(default) \in Contexts
        BY <3>2 DEF Registered, Context
      <4>2. Found(c, Context(default))
        BY <2>16, <3>2 DEF AnswerDefault
      <4>3. answer' \in [Clients -> Contexts \cup {None, NoProject}]
        BY <4>1, <4>2 DEF Found
      <4>4. TypeOK'
        BY <2>16, <4>2, <4>3 DEF AnswerDefault, Found, ReleaseBoth, Released
      <4>5. \A d \in Clients : Carried(d)'
        BY <2>16, <4>1, <4>2 DEF AnswerDefault, Found
      <4> QED
        BY <4>4, <4>5
    <3> QED
      BY <3>1, <3>2
  <2>17. CASE SetActive(c)
      BY <2>17, KeysAssumption DEF SetActive
  <2>18. CASE CacheHit(c)
      BY <2>18, KeysAssumption DEF CacheHit
  <2>19. CASE CacheMiss(c)
      BY <2>19, KeysAssumption DEF CacheMiss, Scope
  <2>20. CASE StoreResult(c)
      BY <2>20, KeysAssumption DEF StoreResult
  <2> QED
      BY <1>2,
         <2>1, <2>2, <2>3, <2>4, <2>5, <2>6, <2>7, <2>8, <2>9, <2>10,
         <2>11, <2>12, <2>13, <2>14, <2>15, <2>16, <2>17, <2>18, <2>19, <2>20
      DEF ClientNext
<1> QED
    BY <1>1, <1>2 DEF Next

\* A client that holds the map finds the registry as it left it.
LEMMA ChangeStep ==
    IInv /\ [Next]_vars => (\A c \in Clients : Changing(c)')
<1> SUFFICES ASSUME IInv, [Next]_vars PROVE (\A c \in Clients : Changing(c)')
    OBVIOUS
<1> USE DEF IInv, TypeOK, Calls, Goals, Contexts, Removals, Keys, Carried, LocksHeld,
            Exclusive, HoldMap, Changing, At, Lookups
<1> USE DEF Becomes, Goto, Finish, Idle, Begin, registryVars, lockVars
<1>1. CASE UNCHANGED vars
    BY <1>1 DEF vars
<1>2. ASSUME NEW c \in Clients, ClientNext(c) PROVE (\A d \in Clients : Changing(d)')
  <2>1. CASE BeginRegister(c)
      BY <2>1 DEF BeginRegister
  <2>2. CASE BeginUnregister(c)
      BY <2>2 DEF BeginUnregister
  <2>3. CASE BeginGet(c)
      BY <2>3 DEF BeginGet
  <2>4. CASE BeginPath(c)
      BY <2>4 DEF BeginPath
  <2>5. CASE BeginTool(c)
      BY <2>5 DEF BeginTool, Scope
  <2>6. CASE RegisterInsert(c)
      BY <2>6 DEF RegisterInsert, CanWrite
  <2>7. CASE RegisterDefault(c)
      BY <2>7 DEF RegisterDefault, CanWrite
  <2>8. CASE RegisterSet(c)
      BY <2>8 DEF RegisterSet, Found
  <2>9. CASE UnregisterRemove(c)
    <3>1. PICK i \in Ids, first \in Ids \cup {None} : Removed(c, i, first)
      BY <2>9, RemovalStep
    <3>2. /\ \A d \in Clients : ~At(d, HoldMap)
          /\ default' = default
      BY <2>9 DEF UnregisterRemove, CanWrite
    <3>3. default # None
      BY <3>1, <3>2 DEF Removed, DefaultKept
    <3>4. Changing(c)'
      BY <3>1, <3>2, <3>3 DEF Removed
    <3> QED
      BY <3>1, <3>2, <3>4 DEF Removed
  <2>10. CASE UnregisterUnknown(c)
      BY <2>10 DEF UnregisterUnknown
  <2>11. CASE UnregisterDefault(c)
      BY <2>11 DEF UnregisterDefault, CanWrite
  <2>12. CASE UnregisterSet(c)
      BY <2>12 DEF UnregisterSet
  <2>13. CASE LookUp(c)
      BY <2>13 DEF LookUp, Found, NotFound
  <2>14. CASE GetDefault(c)
      BY <2>14 DEF GetDefault
  <2>15. CASE ReadDefault(c)
      BY <2>15 DEF ReadDefault
  <2>16. CASE AnswerDefault(c)
      BY <2>16 DEF AnswerDefault, Found, NotFound, Context
  <2>17. CASE SetActive(c)
      BY <2>17 DEF SetActive
  <2>18. CASE CacheHit(c)
      BY <2>18 DEF CacheHit
  <2>19. CASE CacheMiss(c)
      BY <2>19 DEF CacheMiss, Scope
  <2>20. CASE StoreResult(c)
      BY <2>20 DEF StoreResult
  <2> QED
      BY <1>2,
         <2>1, <2>2, <2>3, <2>4, <2>5, <2>6, <2>7, <2>8, <2>9, <2>10,
         <2>11, <2>12, <2>13, <2>14, <2>15, <2>16, <2>17, <2>18, <2>19, <2>20
      DEF ClientNext
<1> QED
    BY <1>1, <1>2 DEF Next

\* The default project follows the registry.
LEMMA DefaultStep ==
    IInv /\ [Next]_vars => DefaultKept'
<1> SUFFICES ASSUME IInv, [Next]_vars PROVE DefaultKept'
    OBVIOUS
<1> USE DEF IInv, TypeOK, Calls, Goals, Contexts, Removals, Keys, Carried, LocksHeld,
            Exclusive, HoldMap, Changing, DefaultKept, At, Lookups
<1> USE DEF Becomes, Goto, Finish, Idle, Begin, registryVars, lockVars
<1>1. CASE UNCHANGED vars
    BY <1>1 DEF vars
<1>2. ASSUME NEW c \in Clients, ClientNext(c) PROVE DefaultKept'
  <2>1. CASE BeginRegister(c)
      BY <2>1 DEF BeginRegister
  <2>2. CASE BeginUnregister(c)
      BY <2>2 DEF BeginUnregister
  <2>3. CASE BeginGet(c)
      BY <2>3 DEF BeginGet
  <2>4. CASE BeginPath(c)
      BY <2>4 DEF BeginPath
  <2>5. CASE BeginTool(c)
      BY <2>5 DEF BeginTool, Scope
  <2>6. CASE RegisterInsert(c)
    <3>1. /\ \A d \in Clients : ~At(d, HoldMap)
          /\ default' = default
      BY <2>6 DEF RegisterInsert, CanWrite
    <3>2. /\ call[c].arg.id \in Ids /\ call[c].arg.root \in Roots
          /\ projects' = [projects EXCEPT ![call[c].arg.id] = call[c].arg.root]
          /\ At(c, {"registerDefault"})'
      BY <2>6 DEF RegisterInsert
    <3>3. default # None => projects[default] # None
      BY <3>1
    <3> QED
      BY <3>1, <3>2, <3>3, KeysAssumption
  <2>7. CASE RegisterDefault(c)
      BY <2>7 DEF RegisterDefault, CanWrite
  <2>8. CASE RegisterSet(c)
    <3>1. \A d \in Clients : At(d, {"unregisterDefault", "unregisterSet"}) => FALSE
      BY <2>8 DEF RegisterSet
    <3>2. call[c].arg.id \in Ids /\ projects[call[c].arg.id] # None
      BY <2>8, KeysAssumption DEF RegisterSet
    <3>3. default # None => projects[default] # None
      BY <3>1
    <3>4. /\ projects' = projects
          /\ default' = IF default = None THEN call[c].arg.id ELSE default
      BY <2>8 DEF RegisterSet
    <3> QED
      BY <3>2, <3>3, <3>4, KeysAssumption
  <2>9. CASE UnregisterRemove(c)
      BY <2>9
      DEF UnregisterRemove, CanWrite, Targets, Matches, Context, FirstOf, Registered
  <2>10. CASE UnregisterUnknown(c)
      BY <2>10 DEF UnregisterUnknown
  <2>11. CASE UnregisterDefault(c)
      BY <2>11 DEF UnregisterDefault, CanWrite
  <2>12. CASE UnregisterSet(c)
      BY <2>12 DEF UnregisterSet
  <2>13. CASE LookUp(c)
    <3>1. UNCHANGED <<projects, default>> /\ ~At(c, HoldMap)
      BY <2>13 DEF LookUp
    <3>2. \A d \in Clients : d # c => call'[d] = call[d]
      BY <2>13 DEF LookUp, Found, NotFound
    <3> QED
      BY <3>1, <3>2
  <2>14. CASE GetDefault(c)
      BY <2>14 DEF GetDefault
  <2>15. CASE ReadDefault(c)
      BY <2>15 DEF ReadDefault
  <2>16. CASE AnswerDefault(c)
      BY <2>16 DEF AnswerDefault, Found, NotFound, Context
  <2>17. CASE SetActive(c)
      BY <2>17 DEF SetActive
  <2>18. CASE CacheHit(c)
      BY <2>18 DEF CacheHit
  <2>19. CASE CacheMiss(c)
      BY <2>19 DEF CacheMiss, Scope
  <2>20. CASE StoreResult(c)
      BY <2>20 DEF StoreResult
  <2> QED
      BY <1>2,
         <2>1, <2>2, <2>3, <2>4, <2>5, <2>6, <2>7, <2>8, <2>9, <2>10,
         <2>11, <2>12, <2>13, <2>14, <2>15, <2>16, <2>17, <2>18, <2>19, <2>20
      DEF ClientNext
<1> QED
    BY <1>1, <1>2 DEF Next

LEMMA InvInit == Init => IInv
<1> SUFFICES ASSUME Init PROVE IInv
    OBVIOUS
<1> USE DEF Init, RegistryInit, Idle, Free
<1>1. TypeOK
    BY DEF TypeOK, Calls, Points, Goals, Locks
<1>2. LocksHeld /\ Exclusive
    BY DEF LocksHeld, Exclusive, At, HoldMap
<1>3. \A c \in Clients : Carried(c) /\ Changing(c)
    BY DEF Carried, Changing, At
<1>4. DefaultKept
    BY DEF DefaultKept
<1> QED
    BY <1>1, <1>2, <1>3, <1>4 DEF IInv

LEMMA InvStep == IInv /\ [Next]_vars => IInv'
<1> SUFFICES ASSUME IInv, [Next]_vars PROVE IInv'
    OBVIOUS
<1>1. TypeOK' /\ (\A c \in Clients : Carried(c)')
    BY TypeStep DEF IInv
<1>2. LocksHeld' /\ Exclusive'
    BY LockStep DEF IInv
<1> QED
    BY <1>1, <1>2, ChangeStep, DefaultStep DEF IInv

\* The invariant that everything below rests on: the locks are held by those who
\* are at the points where the code holds them, and the registry is consistent but
\* for what the one writer has yet to do.
THEOREM Invariant == Spec => []IInv
    BY InvInit, InvStep, PTL DEF Spec

\* The state stays in its types, whatever clients, ids, roots and files there are.
THEOREM TypeCorrect == Spec => []TypeOK
<1>1. IInv => TypeOK
    BY DEF IInv
<1> QED
    BY <1>1, Invariant, PTL

\* With no writer at work the default id of get_project(None) is a registered one,
\* and there is one as soon as a project is registered.
THEOREM DefaultAlwaysRegistered == Spec => []DefaultIsRegistered
<1>1. IInv => DefaultIsRegistered
    <2> SUFFICES ASSUME IInv, mapLock.writer = {}
                 PROVE  /\ default = None <=> Registered = {}
                        /\ default # None => default \in Registered
        BY DEF DefaultIsRegistered
    <2>1. \A c \in Clients : ~At(c, HoldMap)
        BY DEF IInv, LocksHeld
    <2>2. default # None => default \in Registered
        BY <2>1 DEF IInv, DefaultKept, TypeOK, Registered, At, HoldMap
    <2>3. default = None => Registered = {}
        BY <2>1 DEF IInv, DefaultKept, Registered, At, HoldMap
    <2> QED
        BY <2>2, <2>3
<1> QED
    BY <1>1, Invariant, PTL

\* No order of the registry's calls locks them up: a writer of the default id holds
\* the map, a writer of the map waits for readers that wait for no one.
THEOREM NeverLockedUp == Spec => []NoDeadlock
<1>1. IInv => NoDeadlock
    <2> SUFFICES ASSUME IInv, NEW b \in Clients, ~At(b, {"idle"})
                 PROVE  \E c \in Clients : ~At(c, {"idle"}) /\ ~Blocked(c)
        BY DEF NoDeadlock
    <2> USE DEF At
    <2>1. CASE \E c \in Clients : At(c, HoldMap)
        <3>1. PICK c \in Clients : At(c, HoldMap)
            BY <2>1
        <3>2. /\ c \in mapLock.writer
              /\ \A d \in Clients : d \in mapLock.writer => d = c
              /\ \A d \in Clients : d \notin mapLock.readers
            BY <3>1 DEF IInv, LocksHeld, Exclusive
        <3>3. At(c, {"registerDefault", "unregisterDefault"}) => CanWrite(defaultLock)
            <4> SUFFICES ASSUME At(c, {"registerDefault", "unregisterDefault"})
                         PROVE  CanWrite(defaultLock)
                OBVIOUS
            <4>1. \A d \in Clients : d \notin defaultLock.writer /\ d \notin defaultLock.readers
                BY <3>2 DEF IInv, LocksHeld, HoldMap
            <4> QED
                BY <4>1 DEF IInv, TypeOK, Locks, CanWrite
        <3>4. ~At(c, {"idle"}) /\ ~Blocked(c)
            BY <3>1, <3>3 DEF Blocked, HoldMap, Lookups
        <3> QED
            BY <3>4
    <2>2. CASE /\ \A c \in Clients : ~At(c, HoldMap)
               /\ \E c \in Clients : At(c, {"readDefault", "answerDefault"})
        <3>1. PICK c \in Clients : At(c, {"readDefault", "answerDefault"})
            BY <2>2
        <3>2. defaultLock.writer = {} /\ DefaultWriters = {}
            BY <2>2 DEF IInv, TypeOK, Locks, LocksHeld, DefaultWriters, HoldMap
        <3>3. ~At(c, {"idle"}) /\ ~Blocked(c)
            BY <3>1, <3>2 DEF Blocked, CanRead, Lookups
        <3> QED
            BY <3>3
    <2>3. CASE /\ \A c \in Clients : ~At(c, HoldMap)
               /\ ~\E c \in Clients : At(c, {"readDefault", "answerDefault"})
        <3>1. mapLock.writer = {} /\ mapLock.readers = {}
            BY <2>3 DEF IInv, TypeOK, Locks, LocksHeld, HoldMap
        <3>2. CASE MapWriters = {}
            <4>1. ~Blocked(b)
                BY <2>3, <3>1, <3>2 DEF Blocked, CanRead, CanWrite, HoldMap
            <4> QED
                BY <4>1
        <3>3. CASE MapWriters # {}
            <4>1. PICK c \in Clients : At(c, {"register", "unregister"})
                BY <3>3 DEF MapWriters
            <4>2. ~At(c, {"idle"}) /\ ~Blocked(c)
                BY <4>1, <3>1 DEF Blocked, CanWrite, Lookups
            <4> QED
                BY <4>2
        <3> QED
            BY <3>2, <3>3
    <2> QED
        BY <2>1, <2>2, <2>3
<1> QED
    BY <1>1, Invariant, PTL

\* The default id as the service sees it, by what the holder of the map is doing.
Settled ==
    /\ (\A c \in Clients : ~At(c, HoldMap)) => SettledDefault = default
    /\ \A c \in Clients : At(c, {"registerDefault", "registerSet"}) =>
           SettledDefault = IF default = None THEN call[c].arg.id ELSE default
    /\ \A c \in Clients : At(c, {"unregisterDefault", "unregisterSet"}) =>
           SettledDefault = IF default = call[c].arg.id THEN call[c].arg.first ELSE default

LEMMA SettledIs == IInv => Settled
<1> SUFFICES ASSUME IInv PROVE Settled
    OBVIOUS
<1> USE DEF At, HoldMap
<1>1. (\A c \in Clients : ~At(c, HoldMap)) => SettledDefault = default
    BY DEF SettledDefault
<1>2. \A c, d \in Clients : At(c, HoldMap) /\ At(d, HoldMap) => c = d
    BY DEF IInv, LocksHeld, Exclusive
<1>3. ASSUME NEW c \in Clients, At(c, {"registerDefault", "registerSet"})
      PROVE  SettledDefault = IF default = None THEN call[c].arg.id ELSE default
    <2>1. call[c].arg.id \in Ids
        BY <1>3 DEF IInv, Carried, Contexts
    <2>2. \A i \in Ids : (\E d \in Clients : /\ At(d, {"registerDefault", "registerSet"})
                                            /\ call[d].arg.id = i) <=> i = call[c].arg.id
        BY <1>2, <1>3, <2>1
    <2>3. \A d \in Clients : ~At(d, {"unregisterDefault", "unregisterSet"})
        BY <1>2, <1>3
    <2>4. CASE default = None
        <3>1. SettledDefault = CHOOSE i \in Ids : \E d \in Clients :
                  At(d, {"registerDefault", "registerSet"}) /\ call[d].arg.id = i
            BY <1>3, <2>4 DEF SettledDefault
        <3> QED
            BY <2>1, <2>2, <2>4, <3>1
    <2>5. CASE default # None
        BY <2>3, <2>5 DEF SettledDefault
    <2> QED
        BY <2>4, <2>5
<1>4. ASSUME NEW c \in Clients, At(c, {"unregisterDefault", "unregisterSet"})
      PROVE  SettledDefault = IF default = call[c].arg.id THEN call[c].arg.first ELSE default
    <2>1. call[c].arg.first \in Ids \cup {None}
        BY <1>4 DEF IInv, Carried, Removals
    <2>2. \A i \in Ids \cup {None} :
             (\E d \in Clients : /\ At(d, {"unregisterDefault", "unregisterSet"})
                                 /\ call[d].arg.first = i) <=> i = call[c].arg.first
        BY <1>2, <1>4, <2>1
    <2>3. \A d \in Clients : ~At(d, {"registerDefault", "registerSet"})
        BY <1>2, <1>4
    <2>4. CASE default = call[c].arg.id
        <3>1. SettledDefault = CHOOSE i \in Ids \cup {None} : \E d \in Clients :
                  At(d, {"unregisterDefault", "unregisterSet"}) /\ call[d].arg.first = i
            BY <1>4, <2>3, <2>4 DEF SettledDefault
        <3> QED
            BY <2>1, <2>2, <2>4, <3>1
    <2>5. CASE default # call[c].arg.id
        <3>1. ~\E d \in Clients : /\ At(d, {"unregisterDefault", "unregisterSet"})
                                  /\ call[d].arg.id = default
            BY <1>2, <1>4, <2>5
        <3> QED
            BY <2>3, <2>5, <3>1 DEF SettledDefault
    <2> QED
        BY <2>4, <2>5
<1> QED
    BY <1>1, <1>3, <1>4 DEF Settled

\* A step that leaves the holder of the map where it is does not show.
LEMMA SettledKept ==
    ASSUME Settled, Settled', default' = default,
           \A d \in Clients :
               /\ At(d, {"registerDefault", "registerSet"})'
                      <=> At(d, {"registerDefault", "registerSet"})
               /\ At(d, {"unregisterDefault", "unregisterSet"})'
                      <=> At(d, {"unregisterDefault", "unregisterSet"})
               /\ At(d, HoldMap) => call'[d].arg = call[d].arg
    PROVE  SettledDefault' = SettledDefault
    BY DEF Settled, At, HoldMap

\* Each step of the registry is one of the service, or does not show.
LEMMA ServiceStep ==
    ASSUME IInv, IInv', Settled, Settled', [Next]_vars
    PROVE  [Registry!RegistryNext]_(Registry!registryVars)
<1> DEFINE Hidden == /\ UNCHANGED <<projects, active, tools, answer>>
                     /\ SettledDefault' = SettledDefault
<1>0. Hidden => [Registry!RegistryNext]_(Registry!registryVars)
    BY DEF Registry!registryVars
<1> USE DEF At
<1>1. CASE UNCHANGED vars
    <2>1. SettledDefault' = SettledDefault
        BY <1>1, SettledKept DEF vars, registryVars
    <2> QED
        BY <1>0, <1>1, <2>1 DEF vars, registryVars
<1>2. ASSUME NEW c \in Clients, ClientNext(c)
      PROVE  [Registry!RegistryNext]_(Registry!registryVars)
  <2> USE DEF Becomes, Goto, Finish, Idle, Begin, registryVars, lockVars
  <2>0. call \in [Clients -> Calls] /\ projects \in [Ids -> Roots \cup {None}]
    BY DEF IInv, TypeOK
  <2>1. CASE BeginRegister(c)
    <3>1. SettledDefault' = SettledDefault
      BY <2>1, <2>0, SettledKept DEF BeginRegister, HoldMap, Calls
    <3> QED
      BY <2>1, <1>0, <3>1 DEF BeginRegister
  <2>2. CASE BeginUnregister(c)
    <3>1. SettledDefault' = SettledDefault
      BY <2>2, <2>0, SettledKept DEF BeginUnregister, HoldMap, Calls
    <3> QED
      BY <2>2, <1>0, <3>1 DEF BeginUnregister
  <2>3. CASE BeginGet(c)
    <3>1. SettledDefault' = SettledDefault
      BY <2>3, <2>0, SettledKept DEF BeginGet, HoldMap, Calls
    <3> QED
      BY <2>3, <1>0, <3>1 DEF BeginGet
  <2>4. CASE BeginPath(c)
    <3>1. SettledDefault' = SettledDefault
      BY <2>4, <2>0, SettledKept DEF BeginPath, HoldMap, Calls
    <3> QED
      BY <2>4, <1>0, <3>1 DEF BeginPath
  <2>5. CASE BeginTool(c)
    <3>1. SettledDefault' = SettledDefault
      BY <2>5, <2>0, SettledKept DEF BeginTool, Scope, HoldMap, Calls
    <3> QED
      BY <2>5, <1>0, <3>1 DEF BeginTool, Scope
  <2>6. CASE RegisterInsert(c)
    <3>1. /\ \A d \in Clients : ~At(d, HoldMap)
          /\ default' = default
          /\ At(c, {"registerDefault"})'
          /\ call'[c].arg = call[c].arg
      BY <2>6, <2>0 DEF RegisterInsert, CanWrite, IInv, LocksHeld, Calls
    <3>2. SettledDefault = default
      BY <3>1 DEF Settled
    <3>3. SettledDefault' = IF default = None THEN call[c].arg.id ELSE default
      BY <3>1 DEF Settled
    <3>4. call[c].arg.id \in Ids /\ call[c].arg.root \in Roots
      BY <2>6 DEF RegisterInsert, IInv, Carried, Contexts
    <3>5. Registry!Register(call[c].arg.id, call[c].arg.root)
      BY <2>6, <3>2, <3>3 DEF RegisterInsert, Registry!Register
    <3> QED
      BY <3>4, <3>5 DEF Registry!RegistryNext
  <2>7. CASE RegisterDefault(c)
    <3>1. SettledDefault' = SettledDefault
      BY <2>7, <2>0, SettledKept DEF RegisterDefault, HoldMap, Calls
    <3> QED
      BY <2>7, <1>0, <3>1 DEF RegisterDefault
  <2>8. CASE RegisterSet(c)
    <3>1. /\ SettledDefault = default'
          /\ default' = IF default = None THEN call[c].arg.id ELSE default
      BY <2>8 DEF RegisterSet, Settled
    <3>2. \A d \in Clients : ~At(d, HoldMap)'
      <4>1. c \in mapLock.writer /\ mapLock' = Released(mapLock, c)
        BY <2>8 DEF RegisterSet, ReleaseBoth, IInv, LocksHeld, HoldMap
      <4>2. \A d \in Clients : d \notin mapLock'.writer
        BY <4>1 DEF Released, IInv, Exclusive
      <4> QED
        BY <4>2 DEF IInv, LocksHeld
    <3>3. SettledDefault' = default'
      BY <3>2 DEF Settled
    <3>4. /\ call[c].arg \in Contexts
          /\ projects[call[c].arg.id] = call[c].arg.root
      BY <2>8 DEF RegisterSet, IInv, Carried, Changing
    <3>5. /\ call[c].arg.id \in Registered
          /\ call[c].arg = Context(call[c].arg.id)
      BY <3>4, KeysAssumption DEF Registered, Contexts, Context
    <3>6. Registry!Answer(c)
      BY <2>8, <3>1, <3>3, <3>5
      DEF RegisterSet, Found, Registry!Answer, Registry!Registered, Registered,
          Registry!Context, Context
    <3> QED
      BY <3>6 DEF Registry!RegistryNext
  <2>9. CASE UnregisterRemove(c)
    <3>1. PICK i \in Ids, first \in Ids \cup {None} : Removed(c, i, first)
      BY <2>9, RemovalStep
    <3>2. /\ \A d \in Clients : ~At(d, HoldMap)
          /\ UNCHANGED <<default, active, answer>>
          /\ tools' = [r \in Roots |-> None]
      BY <2>9 DEF UnregisterRemove, CanWrite, IInv, LocksHeld
    <3>3. At(c, {"unregisterDefault"})' /\ call'[c].arg = [id |-> i, first |-> first]
      BY <2>0, <3>1 DEF Removed
    <3>4. /\ SettledDefault = default
          /\ SettledDefault' = IF default = i THEN first ELSE default
      BY <3>2, <3>3 DEF Settled
    <3>5. default = i => first \in FirstOf(Registered \ {i})
      BY <3>1 DEF Removed, FirstOf, Registered
    <3>6. SettledDefault' \in Registry!NextDefault(i, Registered \ {i})
      BY <3>4, <3>5 DEF Registry!NextDefault, FirstOf
    <3>7. Registry!Unregister(i)
      BY <3>1, <3>2, <3>6
      DEF Removed, Registry!Unregister, Registry!Registered, Registered
    <3> QED
      BY <3>7 DEF Registry!RegistryNext
  <2>10. CASE UnregisterUnknown(c)
    <3>1. SettledDefault' = SettledDefault
      BY <2>10, <2>0, SettledKept DEF UnregisterUnknown, HoldMap, Calls
    <3> QED
      BY <2>10, <1>0, <3>1 DEF UnregisterUnknown
  <2>11. CASE UnregisterDefault(c)
    <3>1. SettledDefault' = SettledDefault
      BY <2>11, <2>0, SettledKept DEF UnregisterDefault, HoldMap, Calls
    <3> QED
      BY <2>11, <1>0, <3>1 DEF UnregisterDefault
  <2>12. CASE UnregisterSet(c)
    <3>1. SettledDefault = default'
      BY <2>12 DEF UnregisterSet, Settled
    <3>2. \A d \in Clients : ~At(d, HoldMap)'
      <4>1. c \in mapLock.writer /\ mapLock' = Released(mapLock, c)
        BY <2>12 DEF UnregisterSet, ReleaseBoth, IInv, LocksHeld, HoldMap
      <4>2. \A d \in Clients : d \notin mapLock'.writer
        BY <4>1 DEF Released, IInv, Exclusive
      <4> QED
        BY <4>2 DEF IInv, LocksHeld
    <3>3. SettledDefault' = default'
      BY <3>2 DEF Settled
    <3> QED
      BY <2>12, <1>0, <3>1, <3>3 DEF UnregisterSet
  <2>13. CASE LookUp(c)
    <3>1. /\ UNCHANGED <<projects, default, active, tools>>
          /\ ~At(c, HoldMap)
          /\ At(c, Lookups)
      BY <2>13 DEF LookUp, HoldMap, Lookups
    <3>2. /\ \A d \in Clients : d # c => call'[d] = call[d]
          /\ call'[c].pc \in {"getDefault", "idle", "activate", "cache", "store"}
      BY <2>13, <2>0 DEF LookUp, Found, NotFound, Calls, Goals
    <3>3. SettledDefault' = SettledDefault
      BY <3>1, <3>2, SettledKept DEF HoldMap
    <3>4. CASE \E context \in Candidates(c) : Found(c, context)
      <4>1. PICK i \in Registered : answer' = [answer EXCEPT ![c] = Context(i)]
        BY <2>0, <3>1, <3>4, CandidatesAreContexts DEF Found
      <4>2. Registry!Answer(c)
        BY <3>1, <3>3, <4>1
        DEF Registry!Answer, Registry!Registered, Registered, Registry!Context, Context
      <4> QED
        BY <4>2 DEF Registry!RegistryNext
    <3>5. CASE Candidates(c) = {} /\ At(c, {"get"}) /\ NotFound(c)
      <4>1. call[c].arg \in Keys /\ Matches(call[c].arg) = {}
        BY <3>5 DEF Candidates, IInv, Carried
      <4>2. Registry!AnswerUnknown(c, call[c].arg)
        BY <3>1, <3>3, <3>5, <4>1
        DEF NotFound, Registry!AnswerUnknown, Registry!Matches, Matches,
            Registry!Registered, Registered, Registry!Context, Context
      <4> QED
        BY <4>1, <4>2 DEF Registry!RegistryNext, Registry!Keys, Keys
    <3>6. CASE UNCHANGED answer
      BY <1>0, <3>1, <3>3, <3>6
    <3> QED
      BY <2>13, <3>4, <3>5, <3>6 DEF LookUp
  <2>14. CASE GetDefault(c)
    <3>1. SettledDefault' = SettledDefault
      BY <2>14, <2>0, SettledKept DEF GetDefault, HoldMap, Calls
    <3> QED
      BY <2>14, <1>0, <3>1 DEF GetDefault
  <2>15. CASE ReadDefault(c)
    <3>1. SettledDefault' = SettledDefault
      BY <2>15, <2>0, SettledKept DEF ReadDefault, HoldMap, Calls
    <3> QED
      BY <2>15, <1>0, <3>1 DEF ReadDefault
  <2>16. CASE AnswerDefault(c)
    <3>1. /\ UNCHANGED <<projects, default, active, tools>>
          /\ ~At(c, HoldMap)
      BY <2>16 DEF AnswerDefault, HoldMap
    <3>2. /\ \A d \in Clients : d # c => call'[d] = call[d]
          /\ call'[c].pc \in {"idle", "activate", "cache", "store"}
      BY <2>16, <2>0 DEF AnswerDefault, Found, NotFound, Calls, Goals
    <3>3. SettledDefault' = SettledDefault
      BY <3>1, <3>2, SettledKept DEF HoldMap
    <3>4. CASE default \in Registered
      <4>1. Registry!Answer(c)
        BY <2>16, <3>1, <3>3, <3>4
        DEF AnswerDefault, Found, Registry!Answer, Registry!Registered, Registered,
            Registry!Context, Context
      <4> QED
        BY <4>1 DEF Registry!RegistryNext
    <3>5. CASE default \notin Registered
      <4>1. c \in mapLock.readers
        BY <2>16 DEF AnswerDefault, IInv, LocksHeld
      <4>2. \A d \in Clients : ~At(d, HoldMap)
        BY <4>1 DEF IInv, LocksHeld, Exclusive
      <4>3. \A i \in Ids : projects[i] = None
        BY <3>5, <4>2 DEF IInv, TypeOK, DefaultKept, Registered, HoldMap
      <4>4. Registry!AnswerNone(c)
        BY <2>16, <3>1, <3>3, <3>5, <4>3
        DEF AnswerDefault, NotFound, Registry!AnswerNone, Registry!Registered
      <4> QED
        BY <4>4 DEF Registry!RegistryNext
    <3> QED
      BY <3>4, <3>5
  <2>17. CASE SetActive(c)
    <3>1. SettledDefault' = SettledDefault
      BY <2>17, <2>0, SettledKept DEF SetActive, HoldMap, Calls
    <3>2. answer[c].id \in Ids
      BY <2>17 DEF SetActive, IInv, Carried, Contexts
    <3>3. Registry!Activate(c, answer[c].id)
      BY <2>17, <3>1 DEF SetActive, Registry!Activate
    <3> QED
      BY <3>2, <3>3 DEF Registry!RegistryNext
  <2>18. CASE CacheHit(c)
    <3>1. SettledDefault' = SettledDefault
      BY <2>18, <2>0, SettledKept DEF CacheHit, HoldMap, Calls
    <3>2. answer[c].root \in Roots
      BY <2>18 DEF CacheHit, IInv, Carried, Contexts
    <3>3. Registry!Hit(c, answer[c].root)
      BY <2>18, <3>1 DEF CacheHit, Registry!Hit
    <3> QED
      BY <3>2, <3>3 DEF Registry!RegistryNext
  <2>19. CASE CacheMiss(c)
    <3>1. SettledDefault' = SettledDefault
      BY <2>19, <2>0, SettledKept DEF CacheMiss, Scope, HoldMap, Calls
    <3> QED
      BY <2>19, <1>0, <3>1 DEF CacheMiss, Scope
  <2>20. CASE StoreResult(c)
    <3>1. SettledDefault' = SettledDefault
      BY <2>20, <2>0, SettledKept DEF StoreResult, HoldMap, Calls
    <3>2. call[c].arg \in Roots /\ answer[c] \in Contexts
      BY <2>20 DEF StoreResult, IInv, Carried
    <3>3. Registry!Store(c, call[c].arg)
      BY <2>20, <3>1, <3>2 DEF StoreResult, Registry!Store, Registry!Contexts, Contexts
    <3> QED
      BY <3>2, <3>3 DEF Registry!RegistryNext
  <2> QED
      BY <1>2,
         <2>1, <2>2, <2>3, <2>4, <2>5, <2>6, <2>7, <2>8, <2>9, <2>10,
         <2>11, <2>12, <2>13, <2>14, <2>15, <2>16, <2>17, <2>18, <2>19, <2>20
      DEF ClientNext
<1> QED
    BY <1>1, <1>2 DEF Next

\* Behind its locks the registry is ProjectService: every operation happens at one
\* instant, and get_project(None) fails only when there is no project.
THEOREM RegistryImplementsService == Spec => ImplementsRegistry
<1>1. Init => Registry!RegistryInit
    <2>1. Init => SettledDefault = None
        BY SettledIs, InvInit DEF Init, RegistryInit, Settled, At, HoldMap, Idle
    <2> QED
        BY <2>1 DEF Init, RegistryInit, Registry!RegistryInit
<1>2. IInv => Settled
    BY SettledIs
<1>3. IInv /\ IInv' /\ Settled /\ Settled' /\ [Next]_vars
          => [Registry!RegistryNext]_(Registry!registryVars)
    BY ServiceStep
<1> QED
    BY <1>1, <1>2, <1>3, Invariant, PTL
    DEF Spec, ImplementsRegistry, Registry!RegistrySpec
===============================================================================
