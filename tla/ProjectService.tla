---------------------------- MODULE ProjectService ----------------------------
(***************************************************************************)
(* What the project registry promises, each operation in one step: a       *)
(* default project as long as there is a project, answers that were true   *)
(* of one instant, a tool cache that unregistering a project empties.      *)
(***************************************************************************)
CONSTANTS Clients,   \* connections, each with its session
          Ids,       \* project ids
          Roots,     \* canonical project roots
          None,      \* no id, no root, no context
          NoProject  \* the error of a lookup

VARIABLES
    projects,  \* the root registered under each id, None if there is none
    default,   \* the default project id, or None
    active,    \* the active project id of each session, or None
    tools,     \* the context that computed the tool result cached for each root
    answer     \* what each client's last lookup answered

registryVars == <<projects, default, active, tools, answer>>

Contexts == [id : Ids, root : Roots]
Keys == Ids \cup Roots

Registered == {i \in Ids : projects[i] # None}
Context(i) == [id |-> i, root |-> projects[i]]

\* get_project(Some(key)): an id, else a root that may have several ids.
Matches(key) == IF key \in Registered THEN {Context(key)}
                ELSE {Context(i) : i \in {j \in Registered : projects[j] = key}}

\* The ids unregister_project(key) may remove.
Targets(key) == {context.id : context \in Matches(key)}

RegistryInit == /\ projects = [i \in Ids |-> None]
                /\ default = None
                /\ active = [c \in Clients |-> None]
                /\ tools = [r \in Roots |-> None]
                /\ answer = [c \in Clients |-> None]

Register(i, r) == /\ projects' = [projects EXCEPT ![i] = r]
                  /\ default' = IF default = None THEN i ELSE default
                  /\ UNCHANGED <<active, tools, answer>>

\* The next default is whichever project the map yields first.
NextDefault(i, remaining) == IF default # i THEN {default}
                             ELSE IF remaining = {} THEN {None} ELSE remaining

Unregister(i) == /\ i \in Registered
                 /\ projects' = [projects EXCEPT ![i] = None]
                 /\ default' \in NextDefault(i, Registered \ {i})
                 /\ tools' = [r \in Roots |-> None]
                 /\ UNCHANGED <<active, answer>>

\* A client is told of a project that is registered.
Answer(c) == /\ \E i \in Registered : answer' = [answer EXCEPT ![c] = Context(i)]
             /\ UNCHANGED <<projects, default, active, tools>>

\* It asked for a key that no project has.
AnswerUnknown(c, key) == /\ Matches(key) = {}
                         /\ answer' = [answer EXCEPT ![c] = NoProject]
                         /\ UNCHANGED <<projects, default, active, tools>>

\* It asked for the default project, and there is no project at all.
AnswerNone(c) == /\ Registered = {}
                 /\ answer' = [answer EXCEPT ![c] = NoProject]
                 /\ UNCHANGED <<projects, default, active, tools>>

Activate(c, i) == /\ active' = [active EXCEPT ![c] = i]
                  /\ UNCHANGED <<projects, default, tools, answer>>

\* A tool result comes from the cache, or is computed and stored.
Hit(c, r) == /\ tools[r] # None
             /\ answer' = [answer EXCEPT ![c] = tools[r]]
             /\ UNCHANGED <<projects, default, active, tools>>

Store(c, r) == /\ answer[c] \in Contexts
               /\ tools' = [tools EXCEPT ![r] = answer[c]]
               /\ UNCHANGED <<projects, default, active, answer>>

RegistryNext ==
    \/ \E i \in Ids, r \in Roots : Register(i, r)
    \/ \E i \in Ids : Unregister(i)
    \/ \E c \in Clients : \/ Answer(c)
                          \/ AnswerNone(c)
                          \/ \E key \in Keys : AnswerUnknown(c, key)
                          \/ \E i \in Ids : Activate(c, i)
                          \/ \E r \in Roots : Hit(c, r) \/ Store(c, r)

RegistrySpec == RegistryInit /\ [][RegistryNext]_registryVars
===============================================================================
