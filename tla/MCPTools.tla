------------------------------ MODULE MCPTools ------------------------------
(***************************************************************************)
(* Tools of MCP servers (tools/): the manager asks each declared server    *)
(* for its tools, keeps what it hears in a cache file, falls back on that  *)
(* file when no server answers, and calls a tool for an agent after        *)
(* looking at the security profile and at the tool's schema.               *)
(*                                                                         *)
(* A server may answer, fail, or do what it was asked and lose the answer. *)
(* The process may die anywhere, in the middle of writing the cache too.   *)
(***************************************************************************)
EXTENDS Naturals

CONSTANTS
    Servers,    \* how many are declared, asked in this order
    Tools,      \* names
    HostOf,     \* HostOf[t]: the server that has tool t
    CoreTools   \* CORE_TOOLS

Profiles == {"open", "restricted", "strict", "unknown"}

VARIABLES
    cache,      \* .anvil/mcp-tools-cache.json: none, torn, or whole with its tools
    indexed,    \* _schemas of this process
    discovery,  \* the pass under way and its MCPDiscoveryResult
    call,       \* the invocation under way, and its result
    ran,        \* ran[t]: times the server ran t for this invocation
    listed      \* what the last pass that heard of any tool returned (history)

vars == <<cache, indexed, discovery, call, ran, listed>>

Absent == [state |-> "none", tools |-> {}]
Torn   == [state |-> "torn", tools |-> {}]
Whole(tools) == [state |-> "whole", tools |-> tools]

NoDiscovery == [pc |-> "never", server |-> 0, tools |-> {}, failures |-> {},
                fromCache |-> FALSE, escalate |-> FALSE]
NoCall == [pc |-> "none", tool |-> "none", attempts |-> 0, valid |-> TRUE, status |-> "none"]
NeverRan == [t \in Tools |-> 0]

Init ==
    /\ cache = Absent
    /\ indexed = {}
    /\ discovery = NoDiscovery
    /\ call = NoCall
    /\ ran = NeverRan
    /\ listed = {}

-----------------------------------------------------------------------------
(***************************************************************************)
(* discover                                                                *)
(***************************************************************************)
Discover ==
    /\ discovery.pc \in {"never", "done"} /\ call.pc # "calling"
    /\ discovery' = [NoDiscovery EXCEPT !.pc = "listing", !.server = 1]
    /\ call' = NoCall
    /\ ran' = NeverRan
    /\ UNCHANGED <<cache, indexed, listed>>

\* list_tools of the next server: some of its tools, or none.
ServerLists ==
    /\ discovery.pc = "listing" /\ discovery.server <= Servers
    /\ \E tools \in SUBSET {t \in Tools : HostOf[t] = discovery.server} :
           discovery' = [discovery EXCEPT !.server = @ + 1, !.tools = @ \cup tools]
    /\ UNCHANGED <<cache, indexed, call, ran, listed>>

ServerUnreachable ==
    /\ discovery.pc = "listing" /\ discovery.server <= Servers
    /\ discovery' = [discovery EXCEPT !.server = @ + 1, !.failures = @ \cup {discovery.server}]
    /\ UNCHANGED <<cache, indexed, call, ran, listed>>

NothingHeard == discovery.failures # {} /\ discovery.tools = {}

\* Every contacted server failed: the cache, or an escalation without one.
FallBack(result) ==
    IF NothingHeard
    THEN [result EXCEPT !.tools = cache.tools,
                        !.fromCache = cache.tools # {}, !.escalate = cache.tools = {}]
    ELSE result

\* Fault: the schemas are indexed before the fallback.
IndexHeardSchemas(tools) == indexed' = indexed \cup discovery.tools

IndexSchemas(tools) == indexed' = indexed \cup tools

\* Fault: only a pass that heard every server is cached.
CachesComplete(result) == result.tools # {} /\ ~result.fromCache /\ result.failures = {}

\* What is heard from a server is worth caching, what comes from the cache not.
Caches(result) == result.tools # {} /\ ~result.fromCache

\* History: a pass that heard of tools has returned them.
Hears(result) ==
    listed' = IF result.pc = "done" /\ result.tools # {} /\ ~result.fromCache
              THEN result.tools ELSE listed

EndListing ==
    /\ discovery.pc = "listing" /\ discovery.server > Servers
    /\ ~(NothingHeard /\ cache.state = "torn")
    /\ LET result == FallBack(discovery)
       IN /\ discovery' = [result EXCEPT !.pc = IF Caches(result) THEN "opening" ELSE "done"]
          /\ IndexSchemas(result.tools)
    /\ Hears(discovery')
    /\ UNCHANGED <<cache, call, ran>>

\* The cache file is not JSON: the fallback raises out of discover.
FallBackRaises ==
    /\ discovery.pc = "listing" /\ discovery.server > Servers
    /\ NothingHeard /\ cache.state = "torn"
    /\ discovery' = NoDiscovery
    /\ UNCHANGED <<cache, indexed, call, ran, listed>>

\* MCPCache.write opens the file itself, which empties it, and then writes.
OpenCache ==
    /\ discovery.pc = "opening"
    /\ cache' = Torn
    /\ discovery' = [discovery EXCEPT !.pc = "writing"]
    /\ UNCHANGED <<indexed, call, ran, listed>>

WriteCache ==
    /\ discovery.pc = "writing"
    /\ cache' = Whole(discovery.tools)
    /\ discovery' = [discovery EXCEPT !.pc = "done"]
    /\ Hears(discovery')
    /\ UNCHANGED <<indexed, call, ran>>

-----------------------------------------------------------------------------
(***************************************************************************)
(* invoke.  white and black: a pattern of the whitelist, of the          *)
(* blacklist matches the tool.                                             *)
(***************************************************************************)
Authorized(tool, profile, white, black) ==
    \/ tool \in CoreTools
    \/ profile = "open" /\ ~black
    \/ profile = "restricted" /\ white /\ ~black
    \/ profile = "strict" /\ white

\* Without a schema there is nothing to validate against.
SchemaRefuses(tool, valid) == tool \in indexed /\ ~valid

Busy == discovery.pc \in {"listing", "opening", "writing"}

Invoke ==
    /\ call.pc # "calling" /\ ~Busy
    /\ \E tool \in Tools, profile \in Profiles, white, black, valid \in BOOLEAN :
           LET asked == [NoCall EXCEPT !.tool = tool, !.valid = valid]
           IN call' = IF ~Authorized(tool, profile, white, black)
                      THEN [asked EXCEPT !.pc = "returned", !.status = "denied"]
                      ELSE IF SchemaRefuses(tool, valid)
                      THEN [asked EXCEPT !.pc = "returned", !.status = "error"]
                      ELSE [asked EXCEPT !.pc = "calling", !.attempts = 1]
    /\ ran' = NeverRan
    /\ UNCHANGED <<cache, indexed, discovery, listed>>

ToolAnswers ==
    /\ call.pc = "calling"
    /\ ran' = [ran EXCEPT ![call.tool] = @ + 1]
    /\ call' = [call EXCEPT !.pc = "returned", !.status = "ok"]
    /\ UNCHANGED <<cache, indexed, discovery, listed>>

\* One retry, whatever became of the first attempt.
AfterFailure ==
    IF call.attempts < 2
    THEN [call EXCEPT !.attempts = @ + 1]
    ELSE [call EXCEPT !.pc = "returned", !.status = "error"]

ToolFails ==
    /\ call.pc = "calling"
    /\ \E effects \in {0, 1} : ran' = [ran EXCEPT ![call.tool] = @ + effects]
    /\ call' = AfterFailure
    /\ UNCHANGED <<cache, indexed, discovery, listed>>

-----------------------------------------------------------------------------
\* A new process: the cache file is what is left of discovery.
Restart ==
    /\ indexed' = {}
    /\ discovery' = NoDiscovery
    /\ call' = NoCall
    /\ ran' = NeverRan
    /\ UNCHANGED <<cache, listed>>

Next ==
    \/ Discover \/ ServerLists \/ ServerUnreachable \/ EndListing \/ FallBackRaises
    \/ OpenCache \/ WriteCache
    \/ Invoke \/ ToolAnswers \/ ToolFails
    \/ Restart

Spec == Init /\ [][Next]_vars

-----------------------------------------------------------------------------
\* A pass that falls back (mcp_manager.py:140-146) returns what the last pass
\* that heard of any tool returned, whatever passes failed and whenever the
\* process died in between: a cache that was being written is never believed.
FallbackIsLastListing ==
    discovery.pc = "done" /\ discovery.fromCache => discovery.tools = listed

\* A tool of the last pass, one that came from the cache included, does not
\* run with arguments that its schema refuses (mcp_manager.py:154, 174-181).
KnownToolsValidated ==
    \A t \in Tools :
        discovery.pc = "done" /\ t \in discovery.tools /\ call.tool = t /\ ~call.valid
            => ran[t] = 0

\* spec.md, FR-MC-012: a server that fails during discovery is answered for by
\* the tools cached for it.
FailedServerAnswered ==
    discovery.pc = "listing" /\ discovery'.pc \in {"opening", "done"}
        => \A t \in cache.tools : HostOf[t] \in discovery.failures => t \in discovery'.tools

FailedServerFromCache == [][FailedServerAnswered]_vars

=============================================================================
