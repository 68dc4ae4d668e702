---------------------------- MODULE CacheCoherence ----------------------------
(***************************************************************************)
(* The two caches of the server and what keeps them in step with the disk: *)
(* the AST cache (one entry per file, filled through moka's get_with), the *)
(* tool cache (one entry per tool and file, filled after a tool has        *)
(* computed its result), the watcher thread that evicts and flushes them,  *)
(* the index refresh and the refresh_index tool that flush them.           *)
(*                                                                         *)
(* The watcher-driven refresh is taken from its abstract specification,    *)
(* RefreshService, whose disk is the version of the tree; contents are     *)
(* versions too, a cached value is the version it was computed from, an    *)
(* absent file being a version like another, or Unread if the file could   *)
(* not be read.  The transport handles one request at a time, so there is  *)
(* one call.                                                               *)
(***************************************************************************)
EXTENDS RefreshService, Integers, Sequences

CONSTANTS Files,       \* source files of the project
          AstTools,    \* tools that work on get_analysis
          DirectTools, \* tools that read the file themselves
          MaxEdits     \* bound on the content changes of a file

ASSUME BoundsAssumption == MaxEdits \in Nat /\ MaxChanges \in Nat

Tools == AstTools \cup DirectTools
Keys == Tools \X Files
Versions == 0..MaxEdits
Unread == -1 \* the empty analysis of a file that could not be read
Readings == Versions \cup {Unread}

VARIABLES
    content,   \* version of each file on disk
    chan,      \* watcher events not yet received: the channel
    evicting,  \* the file whose AST entry the watcher thread is about to evict
    flushes,   \* spawned tool cache invalidations that have not run
    ast,       \* AST cache: for each file {} or {version}
    toolCache, \* tool cache: for each key {} or {version}
    call,      \* the tool call in progress
    served,    \* the last content the client was told of under each key (history)
    promised,  \* files refresh_index called up to date, unchanged since (history)
    unevicted, \* files whose stale AST entry no eviction is coming for (history)
    unflushed  \* keys whose stale result no flush is coming for (history)

cacheVars == <<ast, toolCache>>
watcherVars == <<chan, evicting, flushes>>
clientVars == <<call, served>>
excuseVars == <<unevicted, unflushed>>
vars == <<serviceVars, content, cacheVars, watcherVars, clientVars, promised, excuseVars>>

Idle == [pc |-> "idle"]
Calls == {Idle} \cup [pc : {"analyze", "parse", "fill", "read", "insert"},
                      key : Keys, version : Readings]
               \cup [pc : {"rebuild"}, version : 0..MaxChanges]
Events == [kind : {"modify", "topology"}, file : Files]
AtMostOne(S) == {{}} \cup {{x} : x \in S}

TypeOK == /\ content \in [Files -> Versions]
          /\ chan \in Seq(Events)
          /\ evicting \in AtMostOne(Files)
          /\ flushes \in Nat
          /\ ast \in [Files -> AtMostOne(Readings)]
          /\ toolCache \in [Keys -> AtMostOne(Readings)]
          /\ call \in Calls
          /\ served \in [Keys -> Versions]
          /\ promised \in SUBSET Files
          /\ unevicted \in SUBSET Files
          /\ unflushed \in SUBSET Keys

Init == /\ ServiceInit
        /\ content = [f \in Files |-> 0]
        /\ chan = <<>>
        /\ evicting = {}
        /\ flushes = 0
        /\ ast = [f \in Files |-> {}]
        /\ toolCache = [k \in Keys |-> {}]
        /\ call = Idle
        /\ served = [k \in Keys |-> 0]
        /\ promised = {}
        /\ unevicted = {}
        /\ unflushed = {}

EvictionComing(f) == \/ f \in evicting
                     \/ \E i \in DOMAIN chan : chan[i] = [kind |-> "modify", file |-> f]

FlushComing == flushes > 0 \/ chan # <<>>

Empty(cache) == [x \in DOMAIN cache |-> {}]
-------------------------------------------------------------------------------
(* The disk *)

NewContent(f, kind) == /\ content[f] < MaxEdits
                       /\ content' = [content EXCEPT ![f] = @ + 1]
                       /\ chan' = Append(chan, [kind |-> kind, file |-> f])
                       /\ promised' = promised \ {f}
                       /\ UNCHANGED <<evicting, flushes, cacheVars, clientVars, unflushed>>

\* The file is written in place: a data modification event.
Edit(f) == /\ NewContent(f, "modify")
           /\ UNCHANGED <<serviceVars, unevicted>>

\* Another file is renamed over it, as an editor that saves through a temporary
\* file does: the event is a rename, a change of the tree.
Replace(f) == /\ NewContent(f, "topology")
              /\ Request
              /\ unevicted' = unevicted \cup {f}
-------------------------------------------------------------------------------
(* The watcher thread and the tasks it spawns *)

\* Mutant: a modification spawns no tool cache invalidation.
ReceiveWithoutFlush ==
    /\ evicting = {} /\ chan # <<>>
    /\ chan' = Tail(chan)
    /\ flushes' = flushes + (IF Head(chan).kind = "modify" THEN 0 ELSE 1)
    /\ evicting' = IF Head(chan).kind = "modify" THEN {Head(chan).file} ELSE {}
    /\ UNCHANGED <<serviceVars, content, cacheVars, clientVars, promised, excuseVars>>

\* Every event of the two kinds spawns an invalidation of the whole tool cache.
\* A modification goes on to evict the file's AST entry; a change of the tree
\* leaves the AST cache to the index refresh.
Receive ==
    /\ evicting = {}
    /\ chan # <<>>
    /\ chan' = Tail(chan)
    /\ flushes' = flushes + 1
    /\ evicting' = IF Head(chan).kind = "modify" THEN {Head(chan).file} ELSE {}
    /\ UNCHANGED <<serviceVars, content, cacheVars, clientVars, promised, excuseVars>>

\* Mutant: the path of the event is not the key of the cached entry.
EvictNothing == /\ evicting # {}
                /\ evicting' = {}
                /\ UNCHANGED <<serviceVars, content, chan, flushes, cacheVars>>
                /\ UNCHANGED <<clientVars, promised, excuseVars>>

Evict == \E f \in evicting :
    /\ ast' = [ast EXCEPT ![f] = {}]
    /\ evicting' = {}
    /\ unevicted' = unevicted \ {f}
    /\ UNCHANGED <<serviceVars, content, chan, flushes, toolCache, clientVars>>
    /\ UNCHANGED <<promised, unflushed>>

\* invalidate_tool_cache_for_root ignores the root: everything goes.
FlushTools == /\ toolCache' = Empty(toolCache)
              /\ unflushed' = {}

\* Mutant: the task runs for an event it was not spawned for.
RunFlushAgain == /\ FlushTools
                 /\ flushes' = flushes - 1
                 /\ UNCHANGED <<serviceVars, content, chan, evicting, ast, clientVars>>
                 /\ UNCHANGED <<promised, unevicted>>

RunFlush == /\ flushes > 0
            /\ FlushTools
            /\ flushes' = flushes - 1
            /\ UNCHANGED <<serviceVars, content, chan, evicting, ast, clientVars>>
            /\ UNCHANGED <<promised, unevicted>>

\* The refresh loop.  ProjectContext::refresh_index asks for the AST entries of
\* the root to be invalidated too; the AST cache is built without invalidation
\* closures, so that call returns an error, which is dropped.
RefreshStarts == /\ StartPass \/ FailPass
                 /\ UNCHANGED <<content, cacheVars, watcherVars, clientVars>>
                 /\ UNCHANGED <<promised, excuseVars>>

\* Between the index and the flush the loop does not wait for anything.
RefreshEnds == /\ FinishPass
               /\ FlushTools
               /\ UNCHANGED <<content, ast, watcherVars, clientVars, promised, unevicted>>

\* The AST cache is at its capacity and drops the entry for another one.
CapacityEvict(f) == /\ ast[f] # {}
                    /\ ast' = [ast EXCEPT ![f] = {}]
                    /\ unevicted' = unevicted \ {f}
                    /\ UNCHANGED <<serviceVars, content, toolCache, watcherVars>>
                    /\ UNCHANGED <<clientVars, promised, unflushed>>
-------------------------------------------------------------------------------
(* A cacheable tool call *)

AtCall(point, next) == /\ call.pc = point
                       /\ call' = next
                       /\ UNCHANGED <<content, watcherVars>>

Serve(k, version) == served' = IF version = Unread THEN served
                               ELSE [served EXCEPT ![k] = version]

\* The tool cache is asked first.
Lookup(k) ==
    /\ \/ \E version \in toolCache[k] : AtCall("idle", Idle) /\ Serve(k, version)
       \/ /\ toolCache[k] = {}
          /\ AtCall("idle", [pc |-> IF k[1] \in AstTools THEN "analyze" ELSE "read",
                             key |-> k, version |-> 0])
          /\ UNCHANGED served
    /\ UNCHANGED <<serviceVars, cacheVars, promised, excuseVars>>

\* get_analysis: an entry is taken as it is, a missing one is computed.
Analyze ==
    /\ call.pc = "analyze"
    /\ LET cached == ast[call.key[2]]
       IN  \/ \E version \in cached :
                AtCall("analyze", [call EXCEPT !.pc = "insert", !.version = version])
           \/ cached = {} /\ AtCall("analyze", [call EXCEPT !.pc = "parse"])
    /\ UNCHANGED <<serviceVars, cacheVars, served, promised, excuseVars>>

\* The file is read on a blocking thread.  An analysis that fails is taken for an
\* empty one ...
ReadFile(point, next, readings) ==
    /\ call.pc = point
    /\ \E version \in readings : AtCall(point, [call EXCEPT !.pc = next, !.version = version])
    /\ UNCHANGED <<serviceVars, cacheVars, served, promised, excuseVars>>

Parse == ReadFile("parse", "fill", {content[call.key[2]], Unread})

\* ... and a tool that cannot read the file itself gives up, as in Timeout.
ReadDirect == ReadFile("read", "insert", {content[call.key[2]]})

\* get_with stores what the analysis returned, whatever happened meanwhile.
Fill ==
    /\ call.pc = "fill"
    /\ AtCall("fill", [call EXCEPT !.pc = "insert"])
    /\ LET f == call.key[2]
       IN  /\ ast' = [ast EXCEPT ![f] = {call.version}]
           /\ unevicted' = IF call.version = content[f] THEN unevicted \ {f}
                           ELSE IF EvictionComing(f) THEN unevicted
                           ELSE unevicted \cup {f}
    /\ UNCHANGED <<serviceVars, toolCache, served, promised, unflushed>>

\* Mutant: the key of the tool cache leaves out the name of the tool.
InsertUnderFile ==
    /\ call.pc = "insert"
    /\ AtCall("insert", Idle)
    /\ toolCache' = [k \in Keys |-> IF k[2] = call.key[2] THEN {call.version}
                                   ELSE toolCache[k]]
    /\ Serve(call.key, call.version)
    /\ UNCHANGED <<serviceVars, ast, promised, excuseVars>>

\* The result is stored under its key and returned.
Insert ==
    /\ call.pc = "insert"
    /\ AtCall("insert", Idle)
    /\ LET k == call.key
       IN  /\ toolCache' = [toolCache EXCEPT ![k] = {call.version}]
           /\ Serve(k, call.version)
           /\ unflushed' = IF call.version = content[k[2]] \/ FlushComing THEN unflushed
                           ELSE unflushed \cup {k}
    /\ UNCHANGED <<serviceVars, ast, promised, unevicted>>

\* The tool timeout drops the call where it waits: nothing it had computed stays.
Timeout == /\ call # Idle
           /\ AtCall(call.pc, Idle)
           /\ UNCHANGED <<serviceVars, cacheVars, served, promised, excuseVars>>

\* The refresh_index tool reads the tree ...
RebuildIndex == /\ AtCall("idle", [pc |-> "rebuild", version |-> disk])
                /\ UNCHANGED <<serviceVars, cacheVars, served, promised, excuseVars>>

\* ... installs the index, flushes the tool cache, asks in vain for the AST entries
\* to be invalidated, and reports the project up to date.
ReportRefreshed == /\ AtCall("rebuild", Idle)
                   /\ index' = call.version
                   /\ FlushTools
                   /\ promised' = Files
                   /\ UNCHANGED <<disk, wanted, pass, failures, ast, served, unevicted>>
-------------------------------------------------------------------------------
WatcherNext == Receive \/ Evict \/ RunFlush

CallNext == \/ \E k \in Keys : Lookup(k)
            \/ Analyze \/ Parse \/ Fill \/ ReadDirect \/ Insert
            \/ RebuildIndex \/ ReportRefreshed
            \/ Timeout

Next == \/ \E f \in Files : Edit(f) \/ Replace(f) \/ CapacityEvict(f)
        \/ WatcherNext
        \/ RefreshStarts
        \/ RefreshEnds
        \/ CallNext

\* The watcher thread, the spawned tasks and the refresh loop go on by
\* themselves; the disk changes and the client calls as they like.
Spec == /\ Init /\ [][Next]_vars
        /\ WF_vars(Receive) /\ WF_vars(Evict) /\ WF_vars(RunFlush)
        /\ WF_vars(RefreshStarts) /\ WF_vars(RefreshEnds)
-------------------------------------------------------------------------------
(* Properties *)

\* A stale AST entry is about to be evicted, or its file was replaced rather
\* than edited, or it was filled, from an older read or one that failed, behind the
\* eviction.
StaleAstExplained ==
    \A f \in Files : ast[f] \subseteq {content[f]} \/ EvictionComing(f) \/ f \in unevicted

\* A stale tool result is about to be flushed, or was inserted behind the flush.
StaleToolExplained ==
    \A k \in Keys : toolCache[k] \subseteq {content[k[2]]} \/ FlushComing \/ k \in unflushed

\* The client is never told an older content of a file than the same tool has told
\* it before: not across flushes, evictions, timeouts, failed reads, stale entries.
NoTimeTravel == [][\A k \in Keys : served'[k] >= served[k]]_served

\* Once the disk is quiet, only entries that slipped behind an invalidation, or
\* whose file was replaced, stay stale.
CachesSettle ==
    <>[](/\ \A f \in Files : ast[f] \subseteq {content[f]} \/ f \in unevicted
         /\ \A k \in Keys : toolCache[k] \subseteq {content[k[2]]} \/ k \in unflushed)

\* What refresh_index reports, "The project index and AST cache are now up-to-date
\* with the current filesystem state", holds of every file that has not changed
\* since and could be read, unless the watcher thread has yet to hear of an earlier
\* change.
RefreshIndexMakesFresh ==
    \A f \in promised : ast[f] \subseteq {content[f], Unread} \/ EvictionComing(f)
===============================================================================
