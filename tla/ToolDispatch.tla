----------------------------- MODULE ToolDispatch -----------------------------
(***************************************************************************)
(* dispatch_tool and what it shares between calls: the permits of the      *)
(* expensive tools, the tool cache, the AST cache with moka's get_with,    *)
(* and, for the tools that lint, the LintPool of the project with its own  *)
(* permits and its own cache.  A call is dropped where it waits when the   *)
(* tool timeout fires; what it has started, a parse on a blocking thread   *)
(* or an external linter, is not.  The loop of the binary has one call in  *)
(* flight; the semaphores and the shared parse are for the library, whose  *)
(* ServerState is one for all its clients.                                 *)
(*                                                                         *)
(* One project, one source file whose content is a version.  Of a result   *)
(* only the version its diagnostics were read from is kept: the            *)
(* freshness of analyses is the subject of CacheCoherence, whose           *)
(* invalidations may come at any time here.                                *)
(***************************************************************************)
EXTENDS Permits

CONSTANTS Calls,       \* the tasks of the clients that dispatch tools
          CachedTools, \* tools of the registry whose results are cached
          ArgSets,     \* arguments: each the set of strings they contain
          ToolPermits, \* NEXUS_TOOL_MAX_CONCURRENCY
          LintPermits, \* permits of the LintPool
          MaxEdits, MaxTimeouts \* bounds: changes of the file, dropped calls

ASSUME DispatchAssumption == /\ IsFiniteSet(Calls)
                             /\ ToolPermits \in Nat \ {0}
                             /\ LintPermits \in Nat \ {0}
                             /\ MaxEdits \in Nat
                             /\ MaxTimeouts \in Nat

VARIABLES
    call,      \* where each call is, and what it carries
    permits,   \* ServerState.tool_concurrency
    linters,   \* LintPool.semaphore
    toolCache, \* for each key {} or {version}
    lintCache, \* LintPool.lint_cache of the file: {} or {version}
    parsed,    \* whether the AST cache has the file
    parser,    \* the call whose get_with future parses it, if any: {} or {call}
    content,   \* version of the file on disk
    timeouts,  \* number of calls dropped
    reported,  \* newest version lint_file has answered for (history)
    slipped    \* places outdated diagnostics got to from a call beside lint_file (history)

dispatchVars == <<permits, toolCache>>
lintVars == <<linters, lintCache, parsed, parser>>
worldVars == <<content, timeouts>>
historyVars == <<reported, slipped>>
vars == <<call, dispatchVars, lintVars, worldVars, historyVars>>

Tool(cacheable, expensive) == [cacheable |-> cacheable, expensive |-> expensive]

\* The registered tools, as far as dispatch tells them apart.
Registered == [get_project_structure     |-> Tool(TRUE, TRUE),
               get_file_outline          |-> Tool(TRUE, FALSE),
               inspect_symbol            |-> Tool(TRUE, FALSE),
               lint_file                 |-> Tool(FALSE, TRUE),
               get_dependencies_graph    |-> Tool(TRUE, TRUE),
               query_ast                 |-> Tool(TRUE, FALSE),
               read_config_file          |-> Tool(TRUE, FALSE),
               search_design_patterns    |-> Tool(TRUE, TRUE),
               audit_security_measures   |-> Tool(TRUE, TRUE),
               refresh_index             |-> Tool(FALSE, TRUE),
               get_server_stats          |-> Tool(FALSE, FALSE),
               get_module_summary        |-> Tool(TRUE, FALSE),
               generate_project_docs     |-> Tool(TRUE, TRUE),
               list_projects             |-> Tool(FALSE, FALSE),
               register_project          |-> Tool(FALSE, TRUE),
               unregister_project        |-> Tool(FALSE, FALSE),
               set_active_project        |-> Tool(FALSE, FALSE),
               analyze_angular_component |-> Tool(TRUE, FALSE)]

is_expensive_tool(t) == Registered[t].expensive

tool_is_cacheable(t) == Registered[t].cacheable

Lints(t) == t \in {"lint_file", "inspect_symbol", "analyze_angular_component"}

Tools == CachedTools \cup {"lint_file"}
Keys == CachedTools \X ArgSets
Versions == 0..MaxEdits
NoLint == -1 \* the result has no diagnostics in it
Stored == {{}} \cup {{v} : v \in Versions \cup {NoLint}}

\* What a call carries: its tool and arguments, the version it has linted, and
\* whether another call, of lint_file, has been running at the same time.
Idle == [pc |-> "idle"]
Running == [pc : {"queued", "lookup", "analyze", "parse", "await", "lint", "lintqueue",
                  "linter", "finish"},
            key : Tools \X ArgSets, lint : Versions \cup {NoLint}, overlaps : BOOLEAN]

Active == {c \in Calls : call[c].pc # "idle"}
Queued == {c \in Active : call[c].pc = "queued"}
Holders == {c \in Active \ Queued : is_expensive_tool(call[c].key[1])}
LintHolders == {c \in Active : call[c].pc = "linter"}

TypeOK == /\ call \in [Calls -> {Idle} \cup Running]
          /\ permits \in Semaphores(ToolPermits, Calls)
          /\ linters \in Semaphores(LintPermits, Calls)
          /\ toolCache \in [Keys -> Stored]
          /\ lintCache \in Stored
          /\ parsed \in BOOLEAN
          /\ parser \in SUBSET Calls
          /\ content \in Versions
          /\ timeouts \in 0..MaxTimeouts
          /\ reported \in Versions
          /\ slipped \in SUBSET (Keys \cup {<<"lint_cache">>})

Init == /\ call = [c \in Calls |-> Idle]
        /\ permits = Fresh(ToolPermits)
        /\ linters = Fresh(LintPermits)
        /\ toolCache = [k \in Keys |-> {}]
        /\ lintCache = {}
        /\ parsed = FALSE
        /\ parser = {}
        /\ content = 0
        /\ timeouts = 0
        /\ reported = 0
        /\ slipped = {}
-------------------------------------------------------------------------------
(* Permit and lookup *)

At(c, point) == call[c].pc = point
Go(c, point) == call' = [call EXCEPT ![c].pc = point]

\* Mutant: a counter of permits that wakes nobody.
FreeUnnoticed(c) == permits' = IF c \in Holders THEN [permits EXCEPT !.free = @ + 1]
                               ELSE permits

\* Mutant: a cheap tool gives back a permit too.
FreeAlways(c) == permits' = IF c \in Active \ Queued THEN Release(permits) ELSE permits

\* The permit of an expensive tool is dropped with the call.
Free(c) == permits' = IF c \in Holders THEN Release(permits) ELSE permits

\* The lint_file calls under way, and the calls that one with this key overlaps.
Linting == {c \in Active : call[c].key[1] = "lint_file"}

Marked(key) == [c \in Calls |-> IF c \in Active /\ key[1] = "lint_file"
                               THEN [call[c] EXCEPT !.overlaps = TRUE] ELSE call[c]]

Begin(c, key) ==
    /\ At(c, "idle")
    /\ LET waits == is_expensive_tool(key[1]) /\ ~Available(permits)
       IN  /\ call' = [Marked(key) EXCEPT ![c] = [pc |-> IF waits THEN "queued" ELSE "lookup",
                                                  key |-> key, lint |-> NoLint,
                                                  overlaps |-> Linting # {}]]
           /\ permits' = IF waits THEN Enqueue(permits, c)
                         ELSE IF is_expensive_tool(key[1]) THEN Take(permits) ELSE permits
    /\ UNCHANGED <<toolCache, lintVars, worldVars, historyVars>>

Granted(c) ==
    /\ At(c, "queued") /\ c \in permits.granted
    /\ Go(c, "lookup")
    /\ permits' = Collect(permits, c)
    /\ UNCHANGED <<toolCache, lintVars, worldVars, historyVars>>

\* Mutant: a queue of the server's own that only drops what is still waiting.
BusyForgetsGrant(c) ==
    /\ At(c, "queued")
    /\ call' = [call EXCEPT ![c] = Idle]
    /\ permits' = IF c \in permits.granted THEN Collect(permits, c) ELSE Abandon(permits, c)
    /\ UNCHANGED <<toolCache, lintVars, worldVars, historyVars>>

\* After 30 s: "temporarily unavailable".  A permit may be handed over between
\* the last look at it and the drop.
Busy(c) ==
    /\ At(c, "queued")
    /\ call' = [call EXCEPT ![c] = Idle]
    /\ permits' = Abandon(permits, c)
    /\ UNCHANGED <<toolCache, lintVars, worldVars, historyVars>>

Missing(key) == key \in Keys => toolCache[key] = {}

\* The cache is asked twice, once for the statistics; the second answer counts.
Lookup(c) ==
    /\ At(c, "lookup")
    /\ LET key == call[c].key
       IN  \/ /\ key \in Keys /\ toolCache[key] # {}
              /\ call' = [call EXCEPT ![c] = Idle]
              /\ Free(c)
           \/ /\ Missing(key)
              /\ Go(c, "analyze")
              /\ UNCHANGED permits
    /\ UNCHANGED <<toolCache, lintVars, worldVars, historyVars>>
-------------------------------------------------------------------------------
(* get_analysis: one future parses, the others wait for what it finds *)

AfterAnalysis(c) == IF Lints(call[c].key[1]) THEN "lint" ELSE "finish"

Analyze(c) ==
    /\ At(c, "analyze")
    /\ \/ parsed /\ Go(c, AfterAnalysis(c)) /\ UNCHANGED parser
       \/ ~parsed /\ parser = {} /\ Go(c, "parse") /\ parser' = {c}
       \/ ~parsed /\ parser # {} /\ Go(c, "await") /\ UNCHANGED parser
    /\ UNCHANGED <<dispatchVars, linters, lintCache, parsed, worldVars, historyVars>>

\* Mutant: a cache whose waiters are not told.
ParsedForItself(c) ==
    /\ At(c, "parse")
    /\ Go(c, AfterAnalysis(c))
    /\ parsed' = TRUE
    /\ parser' = {}
    /\ UNCHANGED <<dispatchVars, linters, lintCache, worldVars, historyVars>>

Parsed(c) ==
    /\ At(c, "parse")
    /\ call' = [d \in Calls |-> IF d = c \/ At(d, "await")
                               THEN [call[d] EXCEPT !.pc = AfterAnalysis(d)] ELSE call[d]]
    /\ parsed' = TRUE
    /\ parser' = {}
    /\ UNCHANGED <<dispatchVars, linters, lintCache, worldVars, historyVars>>
-------------------------------------------------------------------------------
(* LintPool, with external linters enabled *)

\* Outdated diagnostics reach a cache.  They may get past a lint_file call if the
\* call that brings them ran at the same time, or took them from a cache they had
\* slipped into.
Slip(c, place) == slipped' = IF call[c].overlaps /\ call[c].lint < content
                             THEN slipped \cup {place} ELSE slipped \ {place}

\* get_or_schedule takes what is cached; run_sync does not ask.  A new result
\* starts with the checks of level 1, which read the file, and then waits for
\* the external linter, one of a few at a time.
LintCached(c) ==
    /\ At(c, "lint") /\ call[c].key[1] # "lint_file"
    /\ \E v \in lintCache :
          call' = [call EXCEPT ![c].pc = "finish", ![c].lint = v,
                               ![c].overlaps = @ \/ <<"lint_cache">> \in slipped]
    /\ UNCHANGED <<dispatchVars, lintVars, worldVars, historyVars>>

LintFile(c) ==
    /\ At(c, "lint")
    /\ call[c].key[1] = "lint_file" \/ lintCache = {}
    /\ call' = [call EXCEPT ![c].pc = IF Available(linters) THEN "linter" ELSE "lintqueue",
                            ![c].lint = content]
    /\ linters' = IF Available(linters) THEN Take(linters) ELSE Enqueue(linters, c)
    /\ UNCHANGED <<dispatchVars, lintCache, parsed, parser, worldVars, historyVars>>

LintGranted(c) ==
    /\ At(c, "lintqueue") /\ c \in linters.granted
    /\ Go(c, "linter")
    /\ linters' = Collect(linters, c)
    /\ UNCHANGED <<dispatchVars, lintCache, parsed, parser, worldVars, historyVars>>

\* The permit goes back and the result is cached, a notice of a linter that failed
\* or was stopped by its own timeout like any other.
LinterEnds(c) ==
    /\ At(c, "linter")
    /\ Go(c, "finish")
    /\ linters' = Release(linters)
    /\ lintCache' = {call[c].lint}
    /\ Slip(c, <<"lint_cache">>)
    /\ UNCHANGED <<dispatchVars, parsed, parser, worldVars, reported>>
-------------------------------------------------------------------------------
(* Result *)

Done(c) == call' = [call EXCEPT ![c] = Idle]

\* invalidate_tool_cache_for_file: results whose arguments contain the string.
Without(strings) == [k \in Keys |-> IF k[2] \cap strings = {} THEN toolCache[k] ELSE {}]

\* Mutant: lint_file leaves cached results alone.
ReportLintOnly(c) ==
    /\ At(c, "finish") /\ call[c].key[1] = "lint_file"
    /\ Done(c)
    /\ Free(c)
    /\ reported' = IF call[c].lint > reported THEN call[c].lint ELSE reported
    /\ UNCHANGED <<toolCache, lintVars, worldVars, slipped>>

\* lint_file drops the results that name the file, absolutely or from the root,
\* and answers.
ReportLint(c) ==
    /\ At(c, "finish") /\ call[c].key[1] = "lint_file"
    /\ Done(c)
    /\ Free(c)
    /\ toolCache' = Without({"absolute", "relative"})
    /\ reported' = IF call[c].lint > reported THEN call[c].lint ELSE reported
    /\ UNCHANGED <<lintVars, worldVars, slipped>>

\* A result that is not an error is cached.
StoreResult(c) ==
    /\ At(c, "finish") /\ call[c].key \in Keys
    /\ Done(c)
    /\ Free(c)
    /\ toolCache' = [toolCache EXCEPT ![call[c].key] = {call[c].lint}]
    /\ IF call[c].lint = NoLint THEN UNCHANGED slipped ELSE Slip(c, call[c].key)
    /\ UNCHANGED <<lintVars, worldVars, reported>>

\* An error, from the arguments or the path before the analysis or from the tool
\* after it, is not; a cacheable tool drops the results that name the root.
Fail(c) ==
    /\ At(c, "finish") \/ (At(c, "lookup") /\ Missing(call[c].key))
    /\ Done(c)
    /\ Free(c)
    /\ toolCache' = IF call[c].key \in Keys THEN Without({"root"}) ELSE toolCache
    /\ UNCHANGED <<lintVars, worldVars, historyVars>>

\* A parse is dropped: a call that waits for it parses, or the next that comes.
DropParse(c) ==
    LET heirs == {d \in Calls : At(d, "await")}
    IN  /\ parser' \in {{d} : d \in heirs} \/ (heirs = {} /\ parser' = {})
        /\ call' = [d \in Calls |-> IF d = c THEN Idle
                                   ELSE IF d \in parser' THEN [call[d] EXCEPT !.pc = "parse"]
                                   ELSE call[d]]

\* The tool timeout: the future is dropped where it is.  The semaphores get back
\* what it held or waited for.  A blocking thread goes on reading the file, and an
\* external linter runs on without its permit.
Timeout(c) ==
    /\ c \in Active /\ timeouts < MaxTimeouts
    /\ timeouts' = timeouts + 1
    /\ IF At(c, "parse") THEN DropParse(c) ELSE Done(c) /\ UNCHANGED parser
    /\ permits' = IF c \in Holders THEN Release(permits) ELSE Abandon(permits, c)
    /\ linters' = IF c \in LintHolders THEN Release(linters) ELSE Abandon(linters, c)
    /\ UNCHANGED <<toolCache, lintCache, parsed, content, historyVars>>
-------------------------------------------------------------------------------
(* The rest of the world *)

Edit == /\ content < MaxEdits
        /\ content' = content + 1
        /\ UNCHANGED <<call, dispatchVars, lintVars, timeouts, historyVars>>

\* The watcher, the index refresh or the capacity of a cache; the lint cache has
\* only the last.
FlushTools == /\ toolCache' = [k \in Keys |-> {}]
              /\ slipped' = slipped \ Keys
              /\ UNCHANGED <<call, permits, lintVars, worldVars, reported>>

EvictAnalysis == /\ parsed
                 /\ parsed' = FALSE
                 /\ UNCHANGED <<call, dispatchVars, linters, lintCache, parser, worldVars>>
                 /\ UNCHANGED historyVars
-------------------------------------------------------------------------------
Step(c) == \/ Granted(c)
           \/ Lookup(c)
           \/ Analyze(c) \/ Parsed(c)
           \/ LintCached(c) \/ LintFile(c) \/ LintGranted(c)
           \/ ReportLint(c) \/ StoreResult(c) \/ Fail(c)

Next == \/ \E c \in Calls : \/ \E key \in Tools \X ArgSets : Begin(c, key)
                            \/ Step(c)
                            \/ LinterEnds(c)
                            \/ Busy(c) \/ Timeout(c)
        \/ Edit \/ FlushTools \/ EvictAnalysis

\* A task that can go on does, a parse ends, and the timeout of a linter fires if
\* the linter does not end.  Neither the tool timeout nor the 30 s of the permit
\* are needed for calls to end.
Spec == /\ Init /\ [][Next]_vars
        /\ \A c \in Calls : WF_vars(Step(c)) /\ WF_vars(LinterEnds(c))
-------------------------------------------------------------------------------
(* Properties *)

\* However calls end, each permit is free, with a waiter or with a running call:
\* none is lost to a call dropped in the queue, with a permit in the hand or at work.
PermitsKept == /\ Balanced(permits, ToolPermits, Holders)
               /\ Balanced(linters, LintPermits, LintHolders)

\* A call is never left in a queue while a permit lies idle.
NoIdlePermit == NoneIdle(permits) /\ NoneIdle(linters)

\* After lint_file has answered, no cache holds older diagnostics of the file for a
\* later call, except where a call that ran beside it has put them, and in results
\* whose arguments spell the path in a third way.
LintResultsFollow ==
    /\ \A v \in lintCache : v >= reported \/ <<"lint_cache">> \in slipped
    /\ \A k \in Keys : \A v \in toolCache[k] \ {NoLint} :
          v >= reported \/ k \in slipped \/ k[2] \cap {"absolute", "relative"} = {}

\* Every call ends, without help from the tool timeout: permits come round.
CallsEnd == \A c \in Calls : c \in Active ~> c \notin Active
===============================================================================
