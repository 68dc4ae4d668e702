---------------------------- MODULE ProjectRegistry ----------------------------
(***************************************************************************)
(* The project registry as the code has it: a map of projects and a        *)
(* default id, each behind a std::sync::RwLock of its own, operations that *)
(* take the two locks in turn, sessions with an active project, and the    *)
(* cacheable tool call that resolves its project twice, once for the key   *)
(* of the cache and once to compute.                                       *)
(*                                                                         *)
(* A lock taken and released with no other acquisition between is one      *)
(* step.  The server's main loop serves one client; the registry is built  *)
(* for several ("two clients connected to the same registry").             *)
(***************************************************************************)
EXTENDS ProjectService, FiniteSets, Naturals

CONSTANTS Files,   \* files that calls name
          Covers,  \* the roots each file is under
          Depth,   \* the number of components of each root
          MaxCalls \* bound on the calls made

ASSUME KeysAssumption == /\ Ids \cap Roots = {}
                         /\ None \notin Ids \cup Roots \cup Contexts \cup {NoProject}
                         /\ NoProject \notin Contexts
ASSUME PathsAssumption == /\ Covers \in [Files -> SUBSET Roots]
                          /\ Depth \in [Roots -> Nat]
ASSUME CallsAssumption == MaxCalls \in Nat

VARIABLES
    call,      \* the call of each client
    made,      \* the calls made so far
    mapLock,   \* the lock of projects
    defaultLock

lockVars == <<mapLock, defaultLock>>
vars == <<registryVars, call, made, lockVars>>

Lookups == {"get", "path", "resolve"}
Points == {"idle", "register", "registerDefault", "registerSet",
           "unregister", "unregisterDefault", "unregisterSet",
           "getDefault", "readDefault", "answerDefault",
           "activate", "cache", "store"} \cup Lookups

\* What becomes of the project a lookup finds.
Goals == {"idle", "activate", "cache", "store"}

\* A removal in progress: the id, and the id the map now yields first.
Removals == [id : Ids, first : Ids \cup {None}]

Calls == [pc : Points, goal : Goals,
          arg : Keys \cup Files \cup Contexts \cup Removals \cup {None}]
Idle == [pc |-> "idle", goal |-> "idle", arg |-> None]

Free == [readers |-> {}, writer |-> {}]
Locks == [readers : SUBSET Clients, writer : SUBSET Clients]

TypeOK == /\ projects \in [Ids -> Roots \cup {None}]
          /\ default \in Ids \cup {None}
          /\ active \in [Clients -> Ids \cup {None}]
          /\ tools \in [Roots -> Contexts \cup {None}]
          /\ answer \in [Clients -> Contexts \cup {None, NoProject}]
          /\ call \in [Clients -> Calls]
          /\ made \in Nat
          /\ mapLock \in Locks
          /\ defaultLock \in Locks

Init == /\ RegistryInit
        /\ call = [c \in Clients |-> Idle]
        /\ made = 0
        /\ mapLock = Free
        /\ defaultLock = Free
-------------------------------------------------------------------------------
(* std::sync::RwLock: a reader waits for the writers that wait before it *)

At(c, points) == call[c].pc \in points
MapWriters == {c \in Clients : At(c, {"register", "unregister"})}
DefaultWriters == {c \in Clients : At(c, {"registerDefault", "unregisterDefault"})}

CanRead(lock, waitingWriters) == lock.writer = {} /\ waitingWriters = {}
CanWrite(lock) == lock.writer = {} /\ lock.readers = {}

Reading(lock, c) == [lock EXCEPT !.readers = @ \cup {c}]
Writing(lock, c) == [lock EXCEPT !.writer = {c}]
Released(lock, c) == [readers |-> lock.readers \ {c}, writer |-> lock.writer \ {c}]

ReleaseBoth(c) == /\ mapLock' = Released(mapLock, c)
                  /\ defaultLock' = Released(defaultLock, c)

Becomes(c, next) == call' = [call EXCEPT ![c] = next] /\ made' = made
Goto(c, point) == Becomes(c, [call[c] EXCEPT !.pc = point])
Finish(c) == Becomes(c, Idle)

Found(c, context) == /\ answer' = [answer EXCEPT ![c] = context]
                     /\ IF call[c].goal = "idle" THEN Finish(c) ELSE Goto(c, call[c].goal)

NotFound(c) == /\ answer' = [answer EXCEPT ![c] = NoProject]
               /\ Finish(c)
-------------------------------------------------------------------------------
(* Calls begin *)

Begin(c, point, goal, arg) ==
    /\ At(c, {"idle"})
    /\ made < MaxCalls
    /\ made' = made + 1
    /\ call' = [call EXCEPT ![c] = [pc |-> point, goal |-> goal, arg |-> arg]]
    /\ UNCHANGED <<registryVars, lockVars>>

BeginRegister(c) == \E context \in Contexts, goal \in {"idle", "activate"} :
                        Begin(c, "register", goal, context)

BeginUnregister(c) == \E key \in Keys : Begin(c, "unregister", "idle", key)

\* An explicit project, for an answer or to make it the active one.
BeginGet(c) == \E key \in Keys, goal \in {"idle", "activate"} : Begin(c, "get", goal, key)

BeginPath(c) == \E f \in Files : Begin(c, "path", "idle", f)

\* A tool that names no project: the session's active one, else the default one.
Scope(c) == IF active[c] = None THEN "getDefault" ELSE "resolve"

BeginTool(c) == Begin(c, Scope(c), "cache", None)
-------------------------------------------------------------------------------
(* register_project and unregister_project *)

RegisterInsert(c) ==
    /\ At(c, {"register"})
    /\ CanWrite(mapLock)
    /\ mapLock' = Writing(mapLock, c)
    /\ projects' = [projects EXCEPT ![call[c].arg.id] = call[c].arg.root]
    /\ Goto(c, "registerDefault")
    /\ UNCHANGED <<default, active, tools, answer, defaultLock>>

RegisterDefault(c) ==
    /\ At(c, {"registerDefault"})
    /\ CanWrite(defaultLock)
    /\ defaultLock' = Writing(defaultLock, c)
    /\ Goto(c, "registerSet")
    /\ UNCHANGED <<registryVars, mapLock>>

RegisterSet(c) ==
    /\ At(c, {"registerSet"})
    /\ default' = IF default = None THEN call[c].arg.id ELSE default
    /\ ReleaseBoth(c)
    /\ Found(c, call[c].arg)
    /\ UNCHANGED <<projects, active, tools>>

\* What the map yields first, any id of it: HashMap has no order of its own.
FirstOf(ids) == IF ids = {} THEN {None} ELSE ids

\* Mutant: the map is unlocked before the default project is seen to.
UnregisterDropsGuard(c) ==
    /\ At(c, {"unregister"})
    /\ CanWrite(mapLock)
    /\ \E i \in Targets(call[c].arg) : \E first \in FirstOf(Registered \ {i}) :
          /\ projects' = [projects EXCEPT ![i] = None]
          /\ Becomes(c, [pc |-> "unregisterDefault", goal |-> "idle",
                         arg |-> [id |-> i, first |-> first]])
    /\ tools' = [r \in Roots |-> None]
    /\ UNCHANGED <<default, active, answer, lockVars>>

\* The project is looked up and removed, and the tool results purged, under the
\* lock.  The AST entries stay: their cache cannot be invalidated by predicate.
\* The map is not touched again before its first id is asked for.
UnregisterRemove(c) ==
    /\ At(c, {"unregister"})
    /\ CanWrite(mapLock)
    /\ \E i \in Targets(call[c].arg) : \E first \in FirstOf(Registered \ {i}) :
          /\ projects' = [projects EXCEPT ![i] = None]
          /\ Becomes(c, [pc |-> "unregisterDefault", goal |-> "idle",
                         arg |-> [id |-> i, first |-> first]])
    /\ mapLock' = Writing(mapLock, c)
    /\ tools' = [r \in Roots |-> None]
    /\ UNCHANGED <<default, active, answer, defaultLock>>

UnregisterUnknown(c) ==
    /\ At(c, {"unregister"})
    /\ CanWrite(mapLock)
    /\ Targets(call[c].arg) = {}
    /\ Finish(c)
    /\ UNCHANGED <<registryVars, lockVars>>

UnregisterDefault(c) ==
    /\ At(c, {"unregisterDefault"})
    /\ CanWrite(defaultLock)
    /\ defaultLock' = Writing(defaultLock, c)
    /\ Goto(c, "unregisterSet")
    /\ UNCHANGED <<registryVars, mapLock>>

\* Mutant: the default project stays the one that was removed.
UnregisterKeepsDefault(c) ==
    /\ At(c, {"unregisterSet"})
    /\ ReleaseBoth(c)
    /\ Finish(c)
    /\ UNCHANGED registryVars

UnregisterSet(c) ==
    /\ At(c, {"unregisterSet"})
    /\ default' = IF default = call[c].arg.id THEN call[c].arg.first ELSE default
    /\ ReleaseBoth(c)
    /\ Finish(c)
    /\ UNCHANGED <<projects, active, tools, answer>>
-------------------------------------------------------------------------------
(* get_project, resolve_project_for_path and resolve_project *)

\* The registered projects that contain the file, the innermost root among them.
Containing(f) == {i \in Registered : projects[i] \in Covers[f]}
Innermost(f) == {Context(i) : i \in {j \in Containing(f) :
                    \A k \in Containing(f) : Depth[projects[k]] <= Depth[projects[j]]}}

Candidates(c) == CASE At(c, {"get"}) -> Matches(call[c].arg)
                   [] At(c, {"path"}) -> Innermost(call[c].arg)
                   [] At(c, {"resolve"}) -> Matches(active[c])

\* Mutant: resolve_project_for_path falls back without dropping its read guard.
LookUpKeepingGuard(c) ==
    /\ At(c, Lookups)
    /\ CanRead(mapLock, MapWriters)
    /\ \/ /\ \E context \in Candidates(c) : Found(c, context)
          /\ UNCHANGED mapLock
       \/ /\ Candidates(c) = {}
          /\ IF At(c, {"get"}) THEN NotFound(c) /\ UNCHANGED mapLock
             ELSE /\ Goto(c, "getDefault")
                  /\ mapLock' = Reading(mapLock, c)
                  /\ UNCHANGED answer
    /\ UNCHANGED <<projects, default, active, tools, defaultLock>>

\* One read of the map.  An explicit key that matches nothing is an error; a file
\* of no project and an active project that is gone fall back on the default one,
\* after the guard is dropped.
LookUp(c) ==
    /\ At(c, Lookups)
    /\ CanRead(mapLock, MapWriters)
    /\ \/ \E context \in Candidates(c) : Found(c, context)
       \/ /\ Candidates(c) = {}
          /\ IF At(c, {"get"}) THEN NotFound(c)
             ELSE Goto(c, "getDefault") /\ UNCHANGED answer
    /\ UNCHANGED <<projects, default, active, tools, lockVars>>

\* The default project: both locks, the map first.
GetDefault(c) ==
    /\ At(c, {"getDefault"})
    /\ CanRead(mapLock, MapWriters)
    /\ mapLock' = Reading(mapLock, c)
    /\ Goto(c, "readDefault")
    /\ UNCHANGED <<registryVars, defaultLock>>

ReadDefault(c) ==
    /\ At(c, {"readDefault"})
    /\ CanRead(defaultLock, DefaultWriters)
    /\ defaultLock' = Reading(defaultLock, c)
    /\ Goto(c, "answerDefault")
    /\ UNCHANGED <<registryVars, mapLock>>

\* "No project registered", or "Default project not found", or the project.
AnswerDefault(c) ==
    /\ At(c, {"answerDefault"})
    /\ IF default \in Registered THEN Found(c, Context(default)) ELSE NotFound(c)
    /\ ReleaseBoth(c)
    /\ UNCHANGED <<projects, default, active, tools>>
-------------------------------------------------------------------------------
(* The active project and the tool call *)

\* Mutant: the session remembers the key it was given.
SetActiveKey(c) ==
    /\ At(c, {"activate"})
    /\ active' = [active EXCEPT ![c] = call[c].arg]
    /\ Finish(c)
    /\ UNCHANGED <<projects, default, tools, answer, lockVars>>

\* The session is told the id, that a register or a lookup has had.
SetActive(c) ==
    /\ At(c, {"activate"})
    /\ active' = [active EXCEPT ![c] = answer[c].id]
    /\ Finish(c)
    /\ UNCHANGED <<projects, default, tools, answer, lockVars>>

\* A result cached for the root is given as it is.
CacheHit(c) ==
    /\ At(c, {"cache"})
    /\ tools[answer[c].root] # None
    /\ answer' = [answer EXCEPT ![c] = tools[answer[c].root]]
    /\ Finish(c)
    /\ UNCHANGED <<projects, default, active, tools, lockVars>>

\* Otherwise dispatch_tool_uncached resolves the scope of the call again.
CacheMiss(c) ==
    /\ At(c, {"cache"})
    /\ tools[answer[c].root] = None
    /\ Becomes(c, [pc |-> Scope(c), goal |-> "store", arg |-> answer[c].root])
    /\ UNCHANGED <<registryVars, lockVars>>

StoreResult(c) ==
    /\ At(c, {"store"})
    /\ tools' = [tools EXCEPT ![call[c].arg] = answer[c]]
    /\ Finish(c)
    /\ UNCHANGED <<projects, default, active, answer, lockVars>>
-------------------------------------------------------------------------------
ClientNext(c) ==
    \/ BeginRegister(c) \/ BeginUnregister(c) \/ BeginGet(c) \/ BeginPath(c) \/ BeginTool(c)
    \/ RegisterInsert(c) \/ RegisterDefault(c) \/ RegisterSet(c)
    \/ UnregisterRemove(c) \/ UnregisterUnknown(c)
    \/ UnregisterDefault(c) \/ UnregisterSet(c)
    \/ LookUp(c) \/ GetDefault(c) \/ ReadDefault(c) \/ AnswerDefault(c)
    \/ SetActive(c) \/ CacheHit(c) \/ CacheMiss(c) \/ StoreResult(c)

Next == \E c \in Clients : ClientNext(c)

Spec == Init /\ [][Next]_vars
-------------------------------------------------------------------------------
(* Properties *)

\* Whenever no one is changing the registry the default project is a registered
\* one, and there is one as soon as there is a project.
DefaultIsRegistered ==
    mapLock.writer = {} => /\ default = None <=> Registered = {}
                           /\ default # None => default \in Registered

Blocked(c) == \/ At(c, Lookups \cup {"getDefault"}) /\ ~CanRead(mapLock, MapWriters)
              \/ At(c, {"register", "unregister"}) /\ ~CanWrite(mapLock)
              \/ At(c, {"readDefault"}) /\ ~CanRead(defaultLock, DefaultWriters)
              \/ At(c, {"registerDefault", "unregisterDefault"}) /\ ~CanWrite(defaultLock)

\* The calls in progress never all wait for each other's locks.
NoDeadlock == (\E c \in Clients : ~At(c, {"idle"}))
                  => \E c \in Clients : ~At(c, {"idle"}) /\ ~Blocked(c)

\* The default project as it will be when the operation that holds the map is done.
SettledDefault ==
    IF \E c \in Clients : At(c, {"registerDefault", "registerSet"}) /\ default = None
      THEN CHOOSE i \in Ids : \E c \in Clients :
               At(c, {"registerDefault", "registerSet"}) /\ call[c].arg.id = i
    ELSE IF \E c \in Clients : /\ At(c, {"unregisterDefault", "unregisterSet"})
                               /\ call[c].arg.id = default
      THEN CHOOSE i \in Ids \cup {None} : \E c \in Clients :
               At(c, {"unregisterDefault", "unregisterSet"}) /\ call[c].arg.first = i
    ELSE default

Registry == INSTANCE ProjectService WITH default <- SettledDefault

\* Behind its locks every operation of the registry happens at one instant.
ImplementsRegistry == Registry!RegistrySpec

\* The project a result names is the one the call was resolved to.
ResultNamesProject ==
    [][\A c \in Clients : At(c, {"cache"}) /\ call'[c].pc = "idle"
                              => answer'[c] = answer[c]]_vars
================================================================================
