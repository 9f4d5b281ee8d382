--------------------------- MODULE ServicesProofs ---------------------------
(***************************************************************************)
(* The services, for every value of their constants.                       *)
(*                                                                         *)
(*   tools    what is offered when no server answers is what servers       *)
(*            offered last, and no offered tool runs with arguments its    *)
(*            schema refuses.  The invariant says that a whole cache file  *)
(*            holds the last listing at every moment, that a pass indexes  *)
(*            what it goes on to offer, and that no call is under way      *)
(*            during a pass                                                *)
(*   models   no prompt goes to a forbidden model, and completions are in  *)
(*            the account once.  The invariant says that the model of the  *)
(*            step under way may be called, and that what the step has     *)
(*            used is neither in the account nor lost                      *)
(*   workspace                                                             *)
(*            a step writes within the outputs of its phase, a document    *)
(*            that was written is valid, and what was recorded of a phase  *)
(*            stays as it was, but for a GENERATED.md where code goes.     *)
(*            The invariant says that what is recorded, written or yet to  *)
(*            be written belongs to its phase, and that the document which *)
(*            a schema wants is still to be written, or valid              *)
(*   graph    validate accepts the graphs without cycles, and              *)
(*            downstream_of returns the least closed set.  The invariant   *)
(*            says that a pass that changed nothing yet has passed no node *)
(*            its loop would take, that what is resolved is on no cycle,   *)
(*            and that what is reached depends on the root and is in every *)
(*            closed set; an acyclic graph never reaches the root again    *)
(*   interfaces                                                            *)
(*            the siblings shown go down by rank from the closest, one is  *)
(*            missing only where its block did not fit, and the map is     *)
(*            above its cap by its blank lines and note at most.  The invariant says    *)
(*            that all of those passed were shown or did not fit, and that *)
(*            what is still to come ranks no higher                        *)
(*   failures a round takes the artifacts that a report implicates, once   *)
(*            each, those with the most failures of one error first.       *)
(*            Nothing is kept between reports: the invariant is the        *)
(*            promise itself, and its proof is about sorting               *)
(*   contract what was given and what was recorded since reach every later *)
(*            prompt.  The invariant says what the file holds: the text    *)
(*            given, with a line at the end of one section for each fact   *)
(*   events   a trail that no crash broke can be decoded, one that can be  *)
(*            has lost one event for each crash at most, and the editor    *)
(*            sees the events in order.  The invariant says of the trail   *)
(*            that one thread at most is amid a line, that what is kept    *)
(*            has its three pieces there, side by side, that a head has    *)
(*            its tail or a line broken off behind it, and that there is   *)
(*            a crash for every line broken off; and of the stream, that   *)
(*            what was handed on is the beginning of the run's events, and *)
(*            that what is buffered and on its way is the rest of them     *)
(*                                                                         *)
(* Sorting is Ranked and filtering is At (Ordered.tla).  The lemmas about  *)
(* them rest on one: in a strict total order a finite set is gone through  *)
(* in one way only, for the member at position k has k - 1 before it.      *)
(*                                                                         *)
(* It is assumed that the tables of the workspace fit each other           *)
(* (TablesAssumption), as those shipped do, that a graph keeps a node once *)
(* (NodesAssumption), that NoFile is no artifact (ArtifactsAssumption) and *)
(* Nobody no thread (ThreadsAssumption), and that budgets, caps and sizes  *)
(* are numbers (ServicesAssumption).                                       *)
(***************************************************************************)
EXTENDS Services, Integers, Ordered, FiniteSetTheorems, FunctionTheorems, TLAPS

ToolsTyped ==
    /\ cache \in [state : {"none", "torn", "whole"}, tools : SUBSET Tools]
    /\ discovery.pc \in {"never", "listing", "opening", "writing", "done"}
    /\ discovery.fromCache \in BOOLEAN
    /\ DOMAIN discovery = DOMAIN Mcp!NoDiscovery
    /\ discovery.tools \in SUBSET Tools
    /\ DOMAIN call = DOMAIN Mcp!NoCall
    /\ call.pc \in {"none", "calling", "returned"}
    /\ call.pc = "calling" => call.tool \in Tools
    /\ ran \in [Tools -> Nat]

\* The cache file, when it can be read, holds the last listing.
CacheOK ==
    /\ cache.state # "torn" => cache.tools = listed
    /\ discovery.pc \in {"listing", "opening", "writing"} => ~discovery.fromCache
    /\ discovery.pc \in {"opening", "writing"} => discovery.tools # {}

\* What a pass offers is indexed, and a call under way is valid.
CallOK ==
    /\ discovery.pc \in {"opening", "writing", "done"} => discovery.tools \subseteq indexed
    /\ Mcp!Busy => call = Mcp!NoCall /\ ran = Mcp!NeverRan
    /\ call.pc = "calling" /\ call.tool \in indexed => call.valid

ToolsInv == ToolsTyped /\ CacheOK /\ CallOK /\ Mcp!FallbackIsLastListing /\ Mcp!KnownToolsValidated

-----------------------------------------------------------------------------
\* A new manager has indexed nothing.
LEMMA ToolsInit == Mcp!Init => ToolsInv
  BY DEF Mcp!Init, ToolsInv, ToolsTyped, CacheOK, CallOK,
         Mcp!FallbackIsLastListing, Mcp!KnownToolsValidated,
         Mcp!Absent, Mcp!NoDiscovery, Mcp!NoCall, Mcp!NeverRan, Mcp!Busy

\* A pass begins.
LEMMA ToolsDiscover == ToolsInv /\ Mcp!Discover => ToolsInv'
  BY DEF Mcp!Discover, ToolsInv, ToolsTyped, CacheOK, CallOK,
         Mcp!FallbackIsLastListing, Mcp!KnownToolsValidated,
         Mcp!NoDiscovery, Mcp!NoCall, Mcp!NeverRan, Mcp!Busy

\* Servers are heard, one after the other.
LEMMA ToolsListing == ToolsInv /\ (Mcp!ServerLists \/ Mcp!ServerUnreachable) => ToolsInv'
  <1> SUFFICES ASSUME ToolsInv, Mcp!ServerLists \/ Mcp!ServerUnreachable PROVE ToolsInv'
    OBVIOUS
  <1>1. /\ DOMAIN discovery' = DOMAIN discovery
        /\ discovery.pc = "listing" /\ discovery'.pc = discovery.pc
        /\ discovery'.fromCache = discovery.fromCache
        /\ discovery'.tools \in SUBSET Tools
        /\ UNCHANGED <<cache, indexed, call, ran, listed>>
    <2>1. CASE Mcp!ServerLists
      <3>1. PICK heard \in SUBSET Tools :
                discovery' = [discovery EXCEPT !.server = @ + 1, !.tools = @ \cup heard]
        BY <2>1 DEF Mcp!ServerLists
      <3> QED BY <2>1, <3>1 DEF Mcp!ServerLists, ToolsInv, ToolsTyped, Mcp!NoDiscovery
    <2>2. CASE Mcp!ServerUnreachable
      BY <2>2 DEF Mcp!ServerUnreachable, ToolsInv, ToolsTyped, Mcp!NoDiscovery
    <2> QED BY <2>1, <2>2
  <1> QED
    BY <1>1 DEF ToolsInv, ToolsTyped, CacheOK, CallOK,
         Mcp!FallbackIsLastListing, Mcp!KnownToolsValidated, Mcp!Busy

\* A pass falls back, or goes on to cache what it heard.
LEMMA ToolsEndListing == ToolsInv /\ Mcp!EndListing => ToolsInv'
  <1> SUFFICES ASSUME ToolsInv, Mcp!EndListing PROVE ToolsInv'
    OBVIOUS
  <1> USE DEF ToolsInv, ToolsTyped, CacheOK, CallOK
  <1> DEFINE result == Mcp!FallBack(discovery)
  <1>1. /\ discovery.pc = "listing" /\ ~discovery.fromCache
        /\ call = Mcp!NoCall /\ ran = Mcp!NeverRan
        /\ discovery' = [result EXCEPT !.pc = IF Mcp!Caches(result) THEN "opening" ELSE "done"]
        /\ indexed' = indexed \cup result.tools
        /\ UNCHANGED <<cache, call, ran>>
    BY DEF Mcp!EndListing, Mcp!IndexSchemas, Mcp!Busy
  <1>2. /\ DOMAIN result = DOMAIN Mcp!NoDiscovery
        /\ result.fromCache \in BOOLEAN /\ result.tools \in SUBSET Tools
        /\ result.fromCache => result.tools = listed
    <2>1. CASE Mcp!NothingHeard
      <3>1. cache.tools = listed
        BY <2>1 DEF Mcp!EndListing
      <3> QED BY <2>1, <3>1, <1>1 DEF Mcp!FallBack, Mcp!NoDiscovery
    <2>2. CASE ~Mcp!NothingHeard
      BY <2>2, <1>1 DEF Mcp!FallBack
    <2> QED BY <2>1, <2>2
  <1>3. /\ DOMAIN discovery' = DOMAIN Mcp!NoDiscovery
        /\ discovery'.pc = IF Mcp!Caches(result) THEN "opening" ELSE "done"
        /\ discovery'.tools = result.tools
        /\ discovery'.fromCache = result.fromCache
    BY <1>1, <1>2 DEF Mcp!NoDiscovery
  <1>4. listed' = listed
    BY <1>3 DEF Mcp!EndListing, Mcp!Hears, Mcp!Caches
  <1>5. ToolsTyped' /\ CacheOK'
    BY <1>1, <1>2, <1>3, <1>4 DEF Mcp!Caches
  <1>6. CallOK'
    BY <1>1, <1>2, <1>3, <1>4 DEF Mcp!Busy, Mcp!NoCall
  <1>7. Mcp!FallbackIsLastListing'
    BY <1>1, <1>2, <1>3, <1>4 DEF Mcp!FallbackIsLastListing, Mcp!Caches
  <1>8. Mcp!KnownToolsValidated'
    BY <1>1 DEF Mcp!KnownToolsValidated, Mcp!NeverRan
  <1> QED BY <1>5, <1>6, <1>7, <1>8

\* The fallback raises, or the cache is written.
LEMMA ToolsCache ==
    ToolsInv /\ (Mcp!FallBackRaises \/ Mcp!OpenCache \/ Mcp!WriteCache) => ToolsInv'
  <1> USE DEF ToolsInv, ToolsTyped, CacheOK, CallOK,
         Mcp!FallbackIsLastListing, Mcp!KnownToolsValidated,
              Mcp!NoDiscovery, Mcp!NoCall, Mcp!NeverRan, Mcp!Busy
  <1>1. ToolsInv /\ Mcp!FallBackRaises => ToolsInv'
    BY DEF Mcp!FallBackRaises
  <1>2. ToolsInv /\ Mcp!OpenCache => ToolsInv'
    BY DEF Mcp!OpenCache, Mcp!Torn
  <1>3. ToolsInv /\ Mcp!WriteCache => ToolsInv'
    <2> SUFFICES ASSUME ToolsInv, Mcp!WriteCache PROVE ToolsInv'
      OBVIOUS
    <2>1. /\ discovery'.pc = "done" /\ discovery'.fromCache = FALSE
          /\ discovery'.tools = discovery.tools
          /\ DOMAIN discovery' = DOMAIN discovery
          /\ discovery.pc = "writing"
          /\ cache' = Mcp!Whole(discovery.tools)
          /\ UNCHANGED <<indexed, call, ran>>
      BY DEF Mcp!WriteCache
    <2>2. listed' = discovery.tools
      BY <2>1 DEF Mcp!WriteCache, Mcp!Hears
    <2>3. discovery.tools \in SUBSET Tools
      OBVIOUS
    <2>4. /\ cache'.state = "whole" /\ cache'.tools = discovery.tools
          /\ cache' \in [state : {"none", "torn", "whole"}, tools : SUBSET Tools]
      BY <2>1, <2>3 DEF Mcp!Whole
    <2>5. ToolsTyped'
      BY <2>1, <2>3, <2>4
    <2>6. CacheOK'
      BY <2>1, <2>2, <2>4
    <2>7. CallOK'
      BY <2>1
    <2>8. Mcp!FallbackIsLastListing' /\ Mcp!KnownToolsValidated'
      BY <2>1
    <2> QED BY <2>5, <2>6, <2>7, <2>8
  <1> QED BY <1>1, <1>2, <1>3

\* A call is refused, or begins.
LEMMA ToolsInvoke == ToolsInv /\ Mcp!Invoke => ToolsInv'
  <1> SUFFICES ASSUME ToolsInv, Mcp!Invoke PROVE ToolsInv'
    OBVIOUS
  <1>1. PICK tool \in Tools, refused \in BOOLEAN, valid \in BOOLEAN :
            /\ call'.pc = IF refused THEN "returned" ELSE "calling"
            /\ DOMAIN call' = DOMAIN Mcp!NoCall
            /\ call'.tool = tool /\ call'.valid = valid
            /\ ~refused => ~Mcp!SchemaRefuses(tool, valid)
    <2>1. PICK tool \in Tools, profile \in Mcp!Profiles, white \in BOOLEAN, black \in BOOLEAN,
               valid \in BOOLEAN :
              LET asked == [Mcp!NoCall EXCEPT !.tool = tool, !.valid = valid]
              IN call' = IF ~Mcp!Authorized(tool, profile, white, black)
                         THEN [asked EXCEPT !.pc = "returned", !.status = "denied"]
                         ELSE IF Mcp!SchemaRefuses(tool, valid)
                         THEN [asked EXCEPT !.pc = "returned", !.status = "error"]
                         ELSE [asked EXCEPT !.pc = "calling", !.attempts = 1]
      BY Zenon DEF Mcp!Invoke
    <2>2. CASE ~Mcp!Authorized(tool, profile, white, black) \/ Mcp!SchemaRefuses(tool, valid)
      <3>1. /\ call'.pc = "returned" /\ DOMAIN call' = DOMAIN Mcp!NoCall
            /\ call'.tool = tool /\ call'.valid = valid
        BY <2>1, <2>2 DEF Mcp!NoCall
      <3> QED BY <3>1
    <2>3. CASE ~(~Mcp!Authorized(tool, profile, white, black) \/ Mcp!SchemaRefuses(tool, valid))
      <3>1. /\ call'.pc = "calling" /\ DOMAIN call' = DOMAIN Mcp!NoCall
            /\ call'.tool = tool /\ call'.valid = valid
        BY <2>1, <2>3 DEF Mcp!NoCall
      <3> QED BY <2>3, <3>1
    <2> QED BY <2>2, <2>3
  <1>2. ran' = Mcp!NeverRan /\ ~Mcp!Busy /\ UNCHANGED <<cache, indexed, discovery, listed>>
    BY DEF Mcp!Invoke
  <1> QED
    BY <1>1, <1>2 DEF ToolsInv, ToolsTyped, CacheOK, CallOK, Mcp!FallbackIsLastListing,
         Mcp!KnownToolsValidated, Mcp!SchemaRefuses, Mcp!NeverRan, Mcp!Busy

\* A call is answered, or fails.
LEMMA ToolsCall == ToolsInv /\ (Mcp!ToolAnswers \/ Mcp!ToolFails) => ToolsInv'
  <1> SUFFICES ASSUME ToolsInv, Mcp!ToolAnswers \/ Mcp!ToolFails PROVE ToolsInv'
    OBVIOUS
  <1>1. PICK effects \in {0, 1} : ran' = [ran EXCEPT ![call.tool] = @ + effects]
    BY DEF Mcp!ToolAnswers, Mcp!ToolFails
  <1>2. /\ call.pc = "calling" /\ ~Mcp!Busy
        /\ DOMAIN call' = DOMAIN Mcp!NoCall
        /\ call'.pc \in {"calling", "returned"}
        /\ call'.tool = call.tool /\ call'.valid = call.valid
        /\ UNCHANGED <<cache, indexed, discovery, listed>>
    <2>1. call.pc = "calling" /\ DOMAIN call = DOMAIN Mcp!NoCall /\ ~Mcp!Busy
      BY DEF Mcp!ToolAnswers, Mcp!ToolFails, ToolsInv, ToolsTyped, CallOK, Mcp!NoCall
    <2>2. CASE Mcp!ToolAnswers
      BY <2>1, <2>2 DEF Mcp!ToolAnswers, Mcp!NoCall
    <2>3. CASE Mcp!ToolFails
      BY <2>1, <2>3 DEF Mcp!ToolFails, Mcp!AfterFailure, Mcp!NoCall
    <2> QED BY <2>2, <2>3
  <1>3. ToolsTyped' /\ CacheOK' /\ CallOK' /\ Mcp!FallbackIsLastListing'
    BY <1>1, <1>2 DEF ToolsInv, ToolsTyped, CacheOK, CallOK, Mcp!FallbackIsLastListing, Mcp!Busy
  <1>4. Mcp!KnownToolsValidated'
    BY <1>1, <1>2 DEF ToolsInv, ToolsTyped, CallOK, Mcp!KnownToolsValidated
  <1> QED BY <1>3, <1>4 DEF ToolsInv

\* A restart keeps the cache file and nothing else.
LEMMA ToolsRestart == ToolsInv /\ Mcp!Restart => ToolsInv'
  BY DEF Mcp!Restart, ToolsInv, ToolsTyped, CacheOK, CallOK,
         Mcp!FallbackIsLastListing, Mcp!KnownToolsValidated,
         Mcp!NoDiscovery, Mcp!NoCall, Mcp!NeverRan, Mcp!Busy


\* A step of the part keeps it.
LEMMA ToolsNext == ToolsInv /\ [Mcp!Next]_tools => ToolsInv'
  <1>1. ToolsInv /\ UNCHANGED tools => ToolsInv'
    BY DEF tools, ToolsInv, ToolsTyped, CacheOK, CallOK, Mcp!FallbackIsLastListing,
           Mcp!KnownToolsValidated, Mcp!Busy
  <1> QED
    BY <1>1, ToolsDiscover, ToolsListing, ToolsEndListing, ToolsCache, ToolsInvoke, ToolsCall,
       ToolsRestart DEF Mcp!Next

-----------------------------------------------------------------------------
(***************************************************************************)
(* The models part.                                                        *)
(***************************************************************************)
ModelsTyped ==
    /\ policy \in Policies
    /\ step \in [pc : {"idle", "calling"}, model : Models \cup {"none"}, attempt : Nat,
                 calls : Nat, used : Nat]
    /\ usage \in Nat /\ answers \in Nat /\ lost \in Nat

\* What the step under way has used is neither in the account nor lost.
Accounted ==
    /\ step.pc = "idle" => step.used = 0
    /\ usage + lost + step.used = answers
    /\ usageReport = [total |-> usage, over |-> usage > Budget]

\* The model of a step, and those called before, may be called.
Allowed ==
    /\ step.pc = "calling" => Calls!Violated(step.model) = {}
    /\ \A model \in called : Calls!Violated(model) = {}

ModelsInv == ModelsTyped /\ Accounted

-----------------------------------------------------------------------------
\* A new tracker has counted nothing.
LEMMA ModelsInit == Calls!Init => ModelsInv /\ Allowed
  <1> SUFFICES ASSUME Calls!Init PROVE ModelsInv /\ Allowed
    OBVIOUS
  <1> USE ServicesAssumption DEF Calls!Init, Calls!Idle
  <1>1. ModelsTyped
    BY DEF ModelsTyped
  <1>2. Accounted
    <2>1. (usage > Budget) = FALSE
      OBVIOUS
    <2>2. usageReport = [total |-> usage, over |-> usage > Budget]
      BY <2>1, Zenon
    <2>3. step.used = 0 /\ usage + lost + step.used = answers
      OBVIOUS
    <2> QED BY <2>2, <2>3 DEF Accounted
  <1>3. Allowed
    BY DEF Allowed
  <1> QED BY <1>1, <1>2, <1>3 DEF ModelsInv

\* select() answers with a model that no rule forbids.
LEMMA SelectedAllowed ==
    ASSUME RulesAgree, policy \in Policies, NEW routed, NEW model \in Calls!Selected(routed)
    PROVE  Calls!Violated(model) = {}
  <1>1. CASE Calls!Violated(routed) = {}
    BY <1>1 DEF Calls!Selected
  <1>2. CASE Calls!Violated(routed) # {}
    <2>1. model \in Calls!Replacements
      BY <1>2 DEF Calls!Selected
    <2>2. PICK i \in DOMAIN policy : Replaces(policy, i) /\ model = policy[i].values[1]
      BY <2>1 DEF Calls!Replacements, Replaces
    <2> QED BY <2>2 DEF RulesAgree, Calls!Violated, Calls!Permits
  <1> QED BY <1>1, <1>2

\* What the router selects is a model of the catalogue, or none.
LEMMA SelectedTyped ==
    ASSUME policy \in Policies, NEW routed \in Models
    PROVE  Calls!Selected(routed) \subseteq Models
  <1> SUFFICES ASSUME NEW model \in Calls!Selected(routed) PROVE model \in Models
    OBVIOUS
  <1>1. CASE model \in Calls!Replacements
    <2>1. PICK i \in DOMAIN policy : policy[i].values # <<>> /\ model = policy[i].values[1]
      BY <1>1 DEF Calls!Replacements
    <2>2. policy[i].values \in Seq(Models)
      <3>1. policy \in Seq(Rule)
        BY ServicesAssumption
      <3>2. policy[i] \in Rule
        BY <3>1
      <3> QED BY <3>2 DEF Rule
    <2> QED BY <2>1, <2>2
  <1>2. CASE model \notin Calls!Replacements
    BY <1>2 DEF Calls!Selected
  <1> QED BY <1>1, <1>2

\* A step is recorded with what it used and one answer more, or raises with
\* what it used lost.
LEMMA ReturnsAccounted ==
    ASSUME ModelsInv, step.pc = "calling", NEW result,
           Calls!Returns(result, step.used + 1), answers' = answers + 1,
           UNCHANGED <<policy, lost>>
    PROVE  ModelsInv'
  <1> USE DEF ModelsInv, ModelsTyped, Accounted, Calls!Returns, Calls!Recorded, Calls!Idle
  <1>1. ModelsTyped'
    OBVIOUS
  <1>2. Accounted'
    OBVIOUS
  <1> QED BY <1>1, <1>2

\* A step that raises keeps the account in order: what it used is lost, not pending.
LEMMA RaisesAccounted ==
    ASSUME ModelsInv, Calls!Raises, UNCHANGED <<policy, answers>>
    PROVE  ModelsInv'
  BY DEF ModelsInv, ModelsTyped, Accounted, Calls!Raises, Calls!Idle

\* A step begins with a model that every rule permits.
LEMMA ModelsBegin ==
    ASSUME ModelsInv, Calls!Begin
    PROVE  ModelsInv' /\ (RulesAgree /\ Allowed => Allowed')
  <1>1. UNCHANGED <<policy, key, usage, usageReport, called, answers, lost>>
    BY DEF Calls!Begin
  <1>2. CASE UNCHANGED step
    BY <1>1, <1>2 DEF ModelsInv, ModelsTyped, Accounted, Allowed, Calls!Violated
  <1>3. CASE step' # step
    <2>. PICK routed \in Models : \E model \in Calls!Selected(routed) :
              step' = [Calls!Idle EXCEPT !.pc = "calling", !.model = model]
      BY <1>3 DEF Calls!Begin
    <2>1. PICK model \in Calls!Selected(routed) :
              step' = [Calls!Idle EXCEPT !.pc = "calling", !.model = model]
      OBVIOUS
    <2>2. model \in Models
      BY SelectedTyped DEF ModelsInv, ModelsTyped
    <2>3. step' = [pc |-> "calling", model |-> model, attempt |-> 0, calls |-> 0, used |-> 0]
      BY <2>1 DEF Calls!Idle
    <2>a. ModelsTyped'
      BY <1>1, <2>2, <2>3 DEF ModelsInv, ModelsTyped
    <2>b. Accounted'
      <3>1. step.pc = "idle" /\ step.used = 0
        BY DEF Calls!Begin, ModelsInv, Accounted
      <3> QED BY <1>1, <2>3, <3>1 DEF ModelsInv, Accounted
    <2>4. RulesAgree /\ Allowed => Allowed'
      <3> SUFFICES ASSUME RulesAgree, Allowed PROVE Allowed'
        OBVIOUS
      <3>1. Calls!Violated(model) = {}
        BY SelectedAllowed DEF ModelsInv, ModelsTyped
      <3>2. step'.model = model
        BY <2>1 DEF Calls!Idle
      <3> QED BY <1>1, <3>1, <3>2 DEF Allowed, Calls!Violated
    <2> QED BY <2>a, <2>b, <2>4 DEF ModelsInv
  <1> QED BY <1>2, <1>3

\* Every step of the models' part keeps the account.
LEMMA ModelsNext ==
    ASSUME ModelsInv, [Calls!Next]_models
    PROVE  ModelsInv' /\ (RulesAgree /\ Allowed => Allowed')
  <1>1. CASE UNCHANGED models
    BY <1>1 DEF models, ModelsInv, ModelsTyped, Accounted, Allowed, Calls!Violated
  <1>2. CASE Calls!Begin
    BY <1>2, ModelsBegin
  <1>3. CASE Calls!KeyMissing
    <2>1. ModelsInv'
      BY <1>3, RaisesAccounted DEF Calls!KeyMissing
    <2>2. Allowed => Allowed'
      BY <1>3 DEF Calls!KeyMissing, Calls!Raises, Calls!Idle, Allowed, Calls!Violated
    <2> QED BY <2>1, <2>2
  <1>4. CASE Calls!Answered
    <2>1. step.pc = "calling" /\ answers' = answers + 1 /\ UNCHANGED <<policy, lost>>
      BY <1>4 DEF Calls!Answered, Calls!Sends
    <2>2. CASE \E result \in {"failure", "success"} : Calls!Returns(result, step.used + 1)
      <3>1. ModelsInv'
        BY <2>1, <2>2, ReturnsAccounted
      <3>2. step' = Calls!Idle
        BY <2>2 DEF Calls!Returns
      <3>3. Allowed => Allowed'
        BY <1>4, <2>1, <3>2 DEF Calls!Answered, Calls!Sends, Calls!Idle, Allowed, Calls!Violated
      <3> QED BY <3>1, <3>3
    <2>3. CASE step' = [step EXCEPT !.attempt = 0, !.calls = @ + 1, !.used = step.used + 1]
               /\ UNCHANGED <<usage, usageReport, event>>
      <3>1. ModelsTyped'
        <4>1. step' = [pc |-> step.pc, model |-> step.model, attempt |-> 0,
                       calls |-> step.calls + 1, used |-> step.used + 1]
          BY <2>3 DEF ModelsInv, ModelsTyped
        <4>2. step.calls + 1 \in Nat /\ step.used + 1 \in Nat /\ answers' \in Nat
          BY <2>1 DEF ModelsInv, ModelsTyped
        <4> QED BY <2>1, <2>3, <4>1, <4>2 DEF ModelsInv, ModelsTyped
      <3>a. Accounted'
        BY <2>1, <2>3 DEF ModelsInv, ModelsTyped, Accounted
      <3>2. step'.pc = step.pc /\ step'.model = step.model
        BY <2>3 DEF ModelsInv, ModelsTyped
      <3>3. Allowed => Allowed'
        BY <1>4, <2>1, <3>2 DEF Calls!Answered, Calls!Sends, Allowed, Calls!Violated
      <3> QED BY <3>1, <3>a, <3>3 DEF ModelsInv
    <2> QED BY <1>4, <2>2, <2>3 DEF Calls!Answered
  <1>5. CASE Calls!Transient
    <2>1. called' = called \cup {step.model} /\ step.pc = "calling" /\ UNCHANGED <<policy, answers>>
      BY <1>5 DEF Calls!Transient, Calls!Sends
    <2>2. CASE Calls!Raises
      <3>1. ModelsInv'
        BY <2>1, <2>2, RaisesAccounted
      <3>2. Allowed => Allowed'
        BY <2>1, <2>2 DEF Calls!Raises, Calls!Idle, Allowed, Calls!Violated
      <3> QED BY <3>1, <3>2
    <2>3. CASE ~Calls!Raises
      <3>1. /\ step' = [step EXCEPT !.attempt = (@ + 1) % (MAX_RETRIES + 1)]
            /\ step.attempt < MAX_RETRIES
            /\ UNCHANGED <<usage, usageReport, event, lost>>
        BY <1>5, <2>3 DEF Calls!Transient, Calls!AttemptsLeft
      <3>2. ModelsTyped'
        <4>1. (step.attempt + 1) % (MAX_RETRIES + 1) \in Nat
          BY ServicesAssumption DEF ModelsInv, ModelsTyped
        <4> DEFINE n == (step.attempt + 1) % (MAX_RETRIES + 1)
        <4>2. step' = [step EXCEPT !.attempt = n] /\ n \in Nat
          BY <3>1, <4>1
        <4> HIDE DEF n
        <4> QED BY <2>1, <3>1, <4>2 DEF ModelsInv, ModelsTyped
      <3>3. Accounted'
        BY <2>1, <3>1 DEF ModelsInv, ModelsTyped, Accounted
      <3>4. Allowed => Allowed'
        BY <2>1, <3>1 DEF Allowed, Calls!Violated, ModelsInv, ModelsTyped
      <3> QED BY <3>2, <3>3, <3>4 DEF ModelsInv
    <2> QED BY <2>2, <2>3
  <1>6. CASE Calls!Refused
    <2>1. ModelsInv'
      BY <1>6, RaisesAccounted DEF Calls!Refused
    <2>2. Allowed => Allowed'
      BY <1>6 DEF Calls!Refused, Calls!Sends, Calls!Raises, Calls!Idle, Allowed, Calls!Violated
    <2> QED BY <2>1, <2>2
  <1> QED BY <1>1, <1>2, <1>3, <1>4, <1>5, <1>6 DEF Calls!Next

-----------------------------------------------------------------------------
(***************************************************************************)
(* The workspace part.                                                     *)
(***************************************************************************)
\* The provers do not know that a literal is in STRING.
Paths == [dir : Seq(STRING), name : STRING \cup {"GENERATED"}]
Records == UNION {[D -> BOOLEAN] : D \in SUBSET Paths}
Contents == [kind : {"document", "code", "raw"},
             headings : SUBSET UNION {Artifact!Required(p) : p \in DOMAIN ArtifactSchemas},
             authored : BOOLEAN]
Entries == [path : Paths, text : Contents]

WorkspaceTyped ==
    /\ sums \in Seq(Records)
    /\ Len(sums) =< Len(Pipeline)
    /\ dispatch \in [pc : {"idle", "failed", "writing"},
                     queue : Seq(Entries), written : SUBSET Paths]

\* A path that phase p writes.
Belongs(p, f) ==
    IF p = Artifact!CODE_PHASE THEN Artifact!InCode(f) ELSE f \in Artifact!FilesOf(p)

\* Contents that phase p may write: a document has the headings the schema wants.
Fits(p, text) ==
    IF p = Artifact!CODE_PHASE
    THEN text.kind # "document"
    ELSE text.kind = "document" /\ Artifact!Required(p) \subseteq text.headings

\* What is recorded of a phase is there, and is what the phase writes.
Recorded ==
    \A i \in DOMAIN sums : \A f \in DOMAIN sums[i] :
        f \in DOMAIN files /\ Belongs(Pipeline[i], f)

\* The step under way writes what its phase may write, and the document that its
\* schema wants is yet to be written, or valid.
UnderWay ==
    dispatch.pc = "writing" =>
        /\ Len(sums) < Len(Pipeline)
        /\ \A j \in DOMAIN dispatch.queue :
              /\ Belongs(Artifact!Due, dispatch.queue[j].path)
              /\ Fits(Artifact!Due, dispatch.queue[j].text)
        /\ \A f \in dispatch.written : f \in DOMAIN files /\ Belongs(Artifact!Due, f)
        /\ Artifact!Due \in DOMAIN ArtifactSchemas =>
              \/ Artifact!ValidDocument(ArtifactSchemas[Artifact!Due])
              \/ \E j \in DOMAIN dispatch.queue :
                    dispatch.queue[j].path = ArtifactSchemas[Artifact!Due].path

WorkspaceInv == WorkspaceTyped /\ Recorded /\ UnderWay /\ Artifact!ChecksumsStand

-----------------------------------------------------------------------------
\* A directory lies within itself.
LEMMA WithinItself == ASSUME NEW d \in Seq(STRING) PROVE Artifact!Within(d, d)
  <1>1. Len(d) \in Nat /\ Len(d) =< Len(d)
    OBVIOUS
  <1>2. SubSeq(d, 1, Len(d)) = d
    OBVIOUS
  <1> QED BY <1>1, <1>2 DEF Artifact!Within

\* The file that stands for an output.
LEMMA TargetOf ==
    ASSUME NEW out \in Artifact!Path
    PROVE  /\ Artifact!Target(out) \in Paths
           /\ Artifact!Target(out).dir = out.dir
           /\ out.name # Artifact!NoName => Artifact!Target(out) = out
  <1>1. out = [dir |-> out.dir, name |-> out.name] /\ out.dir \in Seq(STRING)
    BY DEF Artifact!Path
  <1>2. CASE out.name = Artifact!NoName
    <2>1. Artifact!Target(out) = [dir |-> out.dir, name |-> "GENERATED"]
      BY <1>1, <1>2 DEF Artifact!Target
    <2>2. Artifact!Target(out).dir = out.dir
      BY <2>1
    <2>3. [dir |-> out.dir, name |-> "GENERATED"] \in Paths
      BY <1>1 DEF Paths
    <2> QED BY <1>2, <2>1, <2>2, <2>3 DEF Paths
  <1>3. CASE out.name # Artifact!NoName
    BY <1>1, <1>3 DEF Artifact!Target, Artifact!Path, Paths
  <1> QED BY <1>2, <1>3

\* A phase that is due has outputs.
LEMMA DueOutputs ==
    ASSUME WorkspaceTyped, Len(sums) < Len(Pipeline)
    PROVE  /\ Len(sums) + 1 \in DOMAIN Pipeline
           /\ Artifact!Due \in DOMAIN AllowedOutputs
           /\ Artifact!Outputs = AllowedOutputs[Artifact!Due]
           /\ Artifact!Outputs \in Seq(Artifact!Path)
           /\ 1 \in DOMAIN Artifact!Outputs
           /\ \A i \in DOMAIN Artifact!Outputs : Artifact!Outputs[i] \in Artifact!Path
  <1>1. Pipeline \in Seq(DOMAIN AllowedOutputs)
    BY TablesAssumption DEF Artifact!TablesAgree
  <1>2. Len(sums) \in Nat
    BY DEF WorkspaceTyped
  <1>3. Len(sums) + 1 \in DOMAIN Pipeline /\ Artifact!Due \in DOMAIN AllowedOutputs
    BY <1>1, <1>2 DEF Artifact!Due
  <1>4. AllowedOutputs[Artifact!Due] \in Seq(Artifact!Path) \ {<<>>}
    BY <1>3, TablesAssumption DEF Artifact!TablesAgree
  <1> QED BY <1>3, <1>4 DEF Artifact!Outputs

\* The code goes into directories.
LEMMA CodeDirectories ==
    \A i \in DOMAIN AllowedOutputs[Artifact!CODE_PHASE] :
        AllowedOutputs[Artifact!CODE_PHASE][i].name = Artifact!NoName
  BY TablesAssumption DEF Artifact!TablesAgree

\* The file of an output is one of its phase, code excepted.
LEMMA OutputBelongs ==
    ASSUME WorkspaceTyped, Len(sums) < Len(Pipeline), NEW i \in DOMAIN Artifact!Outputs
    PROVE  Belongs(Artifact!Due, Artifact!Target(Artifact!Outputs[i]))
  <1>1. CASE Artifact!Due = Artifact!CODE_PHASE
    <2>1. /\ Artifact!Outputs = AllowedOutputs[Artifact!CODE_PHASE]
          /\ Artifact!Outputs[i] \in Artifact!Path
      BY <1>1, DueOutputs
    <2>2. Artifact!Target(Artifact!Outputs[i]).dir = Artifact!Outputs[i].dir
      BY <2>1, TargetOf
    <2>3. Artifact!Within(Artifact!Outputs[i].dir, Artifact!Outputs[i].dir)
      BY <2>1, WithinItself DEF Artifact!Path
    <2> QED BY <1>1, <2>1, <2>2, <2>3 DEF Belongs, Artifact!InCode
  <1>2. CASE Artifact!Due # Artifact!CODE_PHASE
    BY <1>2, DueOutputs DEF Belongs, Artifact!FilesOf
  <1> QED BY <1>1, <1>2

\* What belongs to the phase that is due is within its outputs.
LEMMA BelongsOwned ==
    ASSUME WorkspaceTyped, Len(sums) < Len(Pipeline), NEW f, Belongs(Artifact!Due, f)
    PROVE  Artifact!Owned(f)
  <1>1. CASE Artifact!Due = Artifact!CODE_PHASE
    <2>1. PICK i \in DOMAIN AllowedOutputs[Artifact!CODE_PHASE] :
              Artifact!Within(f.dir, AllowedOutputs[Artifact!CODE_PHASE][i].dir)
      BY <1>1 DEF Belongs, Artifact!InCode
    <2> QED BY <1>1, <2>1, DueOutputs, CodeDirectories DEF Artifact!Owned
  <1>2. CASE Artifact!Due # Artifact!CODE_PHASE
    <2>1. PICK i \in DOMAIN Artifact!Outputs : f = Artifact!Target(Artifact!Outputs[i])
      BY <1>2, DueOutputs DEF Belongs, Artifact!FilesOf
    <2>2. Artifact!Outputs[i] \in Artifact!Path
      BY DueOutputs
    <2>3. CASE Artifact!Outputs[i].name = Artifact!NoName
      <3>1. f.dir = Artifact!Outputs[i].dir
        BY <2>1, <2>2, TargetOf
      <3>2. Artifact!Within(Artifact!Outputs[i].dir, Artifact!Outputs[i].dir)
        BY <2>2, WithinItself DEF Artifact!Path
      <3> QED BY <2>3, <3>1, <3>2 DEF Artifact!Owned
    <2>4. CASE Artifact!Outputs[i].name # Artifact!NoName
      <3>1. f = Artifact!Outputs[i]
        BY <2>1, <2>2, <2>4, TargetOf
      <3> QED BY <3>1 DEF Artifact!Owned
    <2> QED BY <2>3, <2>4
  <1> QED BY <1>1, <1>2

\* A recorded file that the phase due may write is the GENERATED.md of a phase that
\* owns no document, where code goes.
LEMMA Apart ==
    ASSUME WorkspaceTyped, Recorded, Len(sums) < Len(Pipeline),
           NEW i \in DOMAIN sums, NEW f \in DOMAIN sums[i], Belongs(Artifact!Due, f)
    PROVE  /\ Artifact!Due = Artifact!CODE_PHASE
           /\ Pipeline[i] \notin DOMAIN ArtifactSchemas \cup {Artifact!CODE_PHASE}
           /\ f.name = "GENERATED"
  <1> DEFINE n == Len(sums) + 1
  <1>1. /\ i \in DOMAIN Pipeline /\ n \in DOMAIN Pipeline /\ i # n /\ ~(n < i)
        /\ Artifact!Due = Pipeline[n]
        /\ Belongs(Pipeline[i], f)
    <2>1. i \in 1 .. Len(sums) /\ Len(sums) \in Nat /\ Pipeline \in Seq(DOMAIN AllowedOutputs)
      BY TablesAssumption DEF WorkspaceTyped, Artifact!TablesAgree
    <2> QED BY <2>1 DEF Artifact!Due, Recorded
  <1> HIDE DEF n
  <1>2. /\ Pipeline[i] # Pipeline[n]
        /\ Artifact!CODE_PHASE \notin {Pipeline[i], Pipeline[n]} =>
              Artifact!FilesOf(Pipeline[i]) \cap Artifact!FilesOf(Pipeline[n]) = {}
        /\ Pipeline[n] = Artifact!CODE_PHASE => \A g \in Artifact!FilesOf(Pipeline[i]) :
              Artifact!InCode(g) => /\ g.name = "GENERATED"
                                    /\ Pipeline[i] \notin DOMAIN ArtifactSchemas
        /\ Pipeline[i] = Artifact!CODE_PHASE => \A g \in Artifact!FilesOf(Pipeline[n]) :
              Artifact!InCode(g) => n < i
    BY <1>1, TablesAssumption DEF Artifact!TablesAgree
  <1>3. CASE Pipeline[n] = Artifact!CODE_PHASE
    BY <1>1, <1>2, <1>3 DEF Belongs
  <1>4. CASE Pipeline[n] # Artifact!CODE_PHASE
    BY <1>1, <1>2, <1>4 DEF Belongs
  <1> QED BY <1>3, <1>4

-----------------------------------------------------------------------------
\* An empty workspace.
LEMMA WorkspaceInit == Artifact!Init => WorkspaceInv
  <1> SUFFICES ASSUME Artifact!Init PROVE WorkspaceInv
    OBVIOUS
  <1>1. Len(Pipeline) \in Nat
    BY TablesAssumption DEF Artifact!TablesAgree
  <1>2. WorkspaceTyped
    BY <1>1 DEF WorkspaceTyped, Artifact!Init, Artifact!Idle
  <1>3. Recorded /\ UnderWay /\ Artifact!ChecksumsStand
    BY DEF Recorded, UnderWay, Artifact!ChecksumsStand, Artifact!Init, Artifact!Idle
  <1> QED BY <1>2, <1>3 DEF WorkspaceInv

\* A step ends without a success, or another one may begin.
LEMMA WorkspaceStops ==
    ASSUME WorkspaceInv, UNCHANGED <<files, sums>>,
           dispatch' \in {Artifact!Idle, Artifact!Failed}
    PROVE  WorkspaceInv'
  <1>1. /\ dispatch' \in [pc : {"idle", "failed", "writing"},
                          queue : Seq(Entries), written : SUBSET Paths]
        /\ dispatch'.pc # "writing"
    <2>1. PICK place \in {"idle", "failed"} :
              dispatch' = [pc |-> place, queue |-> <<>>, written |-> {}]
      BY DEF Artifact!Idle, Artifact!Failed
    <2>2. <<>> \in Seq(Entries)
      OBVIOUS
    <2> QED BY <2>1, <2>2
  <1> QED
    BY <1>1 DEF WorkspaceInv, WorkspaceTyped, Recorded, UnderWay, Artifact!ChecksumsStand

\* The answer of a document phase becomes one document for each output.
LEMMA WorkspaceRunDoc ==
    ASSUME WorkspaceInv, NEW reply \in Artifact!DocumentReplies, Artifact!RunDoc(reply)
    PROVE  WorkspaceInv'
  <1> DEFINE text == Artifact!Document(Artifact!Due, reply)
             queue == [i \in DOMAIN Artifact!Outputs |->
                          [path |-> Artifact!Target(Artifact!Outputs[i]), text |-> text]]
  <1>1. /\ Len(sums) < Len(Pipeline) /\ Artifact!Due # Artifact!CODE_PHASE
        /\ WorkspaceTyped
        /\ dispatch' = [pc |-> "writing", queue |-> queue, written |-> {}]
        /\ UNCHANGED <<files, sums>>
    BY DEF Artifact!RunDoc, Artifact!Dispatched, Artifact!Idle, WorkspaceInv
  <1>2. text \in Contents /\ Fits(Artifact!Due, text)
    <2>1. /\ reply.headings \subseteq Artifact!Required(Artifact!Due)
          /\ reply.prose \in BOOLEAN
      BY DEF Artifact!DocumentReplies
    <2>2. Artifact!Required(Artifact!Due)
              \subseteq UNION {Artifact!Required(p) : p \in DOMAIN ArtifactSchemas}
      BY DEF Artifact!Required
    <2>3. /\ text.kind = "document" /\ text.authored = reply.prose
          /\ text.headings = reply.headings
                \cup {s \in Artifact!Required(Artifact!Due) : ~Artifact!HasHeading(reply, s)}
          /\ text = [kind |-> text.kind, headings |-> text.headings,
                     authored |-> text.authored]
      BY DEF Artifact!Document
    <2>4. Artifact!Required(Artifact!Due) \subseteq text.headings
      BY <2>3 DEF Artifact!HasHeading
    <2> HIDE DEF text
    <2>5. text \in Contents
      BY <2>1, <2>2, <2>3 DEF Contents
    <2> QED BY <1>1, <2>3, <2>4, <2>5 DEF Fits
  <1> HIDE DEF text
  <1>3. queue \in Seq(Entries)
    <2>1. \A i \in DOMAIN Artifact!Outputs : queue[i] \in Entries
      BY <1>1, <1>2, DueOutputs, TargetOf DEF Entries
    <2>2. Artifact!Outputs \in Seq(Artifact!Path)
      BY <1>1, DueOutputs
    <2> QED BY <2>1, <2>2
  <1>4. DOMAIN queue = DOMAIN Artifact!Outputs /\
        \A j \in DOMAIN queue :
            /\ Belongs(Artifact!Due, queue[j].path)
            /\ Fits(Artifact!Due, queue[j].text)
    BY <1>1, <1>2, OutputBelongs
  <1>5. Artifact!Due \in DOMAIN ArtifactSchemas =>
            \E j \in DOMAIN queue : queue[j].path = ArtifactSchemas[Artifact!Due].path
    <2> SUFFICES ASSUME Artifact!Due \in DOMAIN ArtifactSchemas
                 PROVE  \E j \in DOMAIN queue :
                            queue[j].path = ArtifactSchemas[Artifact!Due].path
      OBVIOUS
    <2>1. ArtifactSchemas[Artifact!Due].path \in Artifact!FilesOf(Artifact!Due)
      BY TablesAssumption DEF Artifact!TablesAgree
    <2>2. PICK i \in DOMAIN Artifact!Outputs :
              ArtifactSchemas[Artifact!Due].path = Artifact!Target(Artifact!Outputs[i])
      BY <1>1, <2>1, DueOutputs DEF Artifact!FilesOf
    <2> QED BY <2>2
  <1> HIDE DEF queue
  <1>6. WorkspaceTyped'
    BY <1>1, <1>3 DEF WorkspaceTyped
  <1>7. UnderWay'
    <2>1. Artifact!Due' = Artifact!Due
      BY <1>1 DEF Artifact!Due
    <2> QED BY <1>1, <1>4, <1>5, <2>1 DEF UnderWay, Belongs, Fits
  <1>8. Recorded' /\ Artifact!ChecksumsStand'
    BY <1>1 DEF WorkspaceInv, Recorded, Artifact!ChecksumsStand
  <1> QED BY <1>6, <1>7, <1>8 DEF WorkspaceInv

\* The code of an answer goes into directories of the phase, or the answer does.
LEMMA WorkspaceRunCode ==
    ASSUME WorkspaceInv, NEW blocks \in Replies, Artifact!RunCode(blocks)
    PROVE  WorkspaceInv'
  <1> DEFINE code == [kind |-> "code", headings |-> {}, authored |-> TRUE]
             taken == [i \in DOMAIN blocks |->
                          [path |-> Artifact!Sandbox(blocks[i]), text |-> code]]
             raw == <<[path |-> Artifact!Target(Artifact!Outputs[1]),
                       text |-> [code EXCEPT !.kind = "raw"]]>>
             queue == IF blocks = <<>> THEN raw ELSE taken
  <1>1. /\ Len(sums) < Len(Pipeline) /\ Artifact!Due = Artifact!CODE_PHASE
        /\ WorkspaceTyped
        /\ dispatch' = [pc |-> "writing", queue |-> queue, written |-> {}]
        /\ UNCHANGED <<files, sums>>
    BY DEF Artifact!RunCode, Artifact!Dispatched, Artifact!Idle, WorkspaceInv
  <1>2. \A kind \in {"code", "raw"} :
            /\ [code EXCEPT !.kind = kind] \in Contents
            /\ [code EXCEPT !.kind = kind].kind = kind
    BY DEF Contents
  <1>3. /\ code \in Contents /\ code.kind = "code"
        /\ [code EXCEPT !.kind = "raw"] \in Contents
        /\ [code EXCEPT !.kind = "raw"].kind = "raw"
    BY DEF Contents
  <1>4. /\ Artifact!Target(Artifact!Outputs[1]) \in Paths
        /\ Belongs(Artifact!Due, Artifact!Target(Artifact!Outputs[1]))
    BY <1>1, DueOutputs, TargetOf, OutputBelongs
  <1>5. \A i \in DOMAIN blocks :
            /\ Artifact!Sandbox(blocks[i]) \in Paths
            /\ Belongs(Artifact!Due, Artifact!Sandbox(blocks[i]))
    <2> SUFFICES ASSUME NEW i \in DOMAIN blocks
                 PROVE  /\ Artifact!Sandbox(blocks[i]) \in Paths
                        /\ Artifact!InCode(Artifact!Sandbox(blocks[i]))
      BY <1>1 DEF Belongs
    <2> DEFINE path == blocks[i]
    <2>1. path.dir \in Seq(STRING) /\ path.name \in STRING
      <3> DEFINE Blocks == [dir : Seq(STRING), name : STRING, up : BOOLEAN]
      <3>1. blocks \in Seq(Blocks)
        BY TablesAssumption DEF Artifact!TablesAgree
      <3> HIDE DEF Blocks
      <3>2. path \in Blocks
        BY <3>1
      <3> QED BY <3>2 DEF Blocks
    <2> HIDE DEF path
    <2>2. /\ Artifact!Outputs = AllowedOutputs[Artifact!CODE_PHASE]
          /\ 1 \in DOMAIN Artifact!Outputs
          /\ Artifact!Outputs[1].dir \in Seq(STRING)
      BY <1>1, DueOutputs DEF Artifact!Path
    <2>3. CASE path.up \/ \A j \in DOMAIN Artifact!Outputs :
                              ~Artifact!Within(path.dir, Artifact!Outputs[j].dir)
      <3>1. Artifact!Sandbox(path) = [dir |-> Artifact!Outputs[1].dir, name |-> path.name]
        BY <2>3 DEF Artifact!Sandbox
      <3>2. Artifact!Within(Artifact!Outputs[1].dir, Artifact!Outputs[1].dir)
        BY <2>2, WithinItself
      <3> QED BY <2>1, <2>2, <3>1, <3>2 DEF Artifact!InCode, Paths, path
    <2>4. CASE ~(path.up \/ \A j \in DOMAIN Artifact!Outputs :
                                ~Artifact!Within(path.dir, Artifact!Outputs[j].dir))
      <3>1. Artifact!Sandbox(path) = [dir |-> path.dir, name |-> path.name]
        BY <2>4 DEF Artifact!Sandbox
      <3> QED BY <2>1, <2>2, <2>4, <3>1 DEF Artifact!InCode, Paths, path
    <2> QED BY <2>3, <2>4
  <1>6. queue \in Seq(Entries) /\
        \A j \in DOMAIN queue :
            /\ Belongs(Artifact!Due, queue[j].path)
            /\ Fits(Artifact!Due, queue[j].text)
    <2>1. CASE blocks = <<>>
      <3> HIDE DEF code
      <3>1. queue = raw /\ Len(raw) = 1
        BY <2>1
      <3>2. raw[1].path = Artifact!Target(Artifact!Outputs[1]) /\ raw[1].text.kind = "raw"
            /\ raw[1] \in Entries
        BY <1>3, <1>4 DEF Entries
      <3>3. raw \in Seq(Entries)
        BY <3>2
      <3>4. \A j \in DOMAIN raw : j = 1
        OBVIOUS
      <3> HIDE DEF queue, raw
      <3> QED BY <1>1, <1>4, <3>1, <3>2, <3>3, <3>4 DEF Fits
    <2>2. CASE blocks # <<>>
      <3> HIDE DEF code
      <3>1. queue = taken /\ blocks \in Seq([dir : Seq(STRING), name : STRING, up : BOOLEAN])
        BY <2>2, TablesAssumption DEF Artifact!TablesAgree
      <3>2. \A i \in DOMAIN blocks : taken[i] \in Entries
        BY <1>3, <1>5 DEF Entries
      <3>3. taken \in Seq(Entries)
        BY <3>1, <3>2
      <3> QED BY <1>1, <1>3, <1>5, <3>1, <3>3 DEF Fits
    <2> QED BY <2>1, <2>2
  <1>7. Artifact!Due \notin DOMAIN ArtifactSchemas
    BY <1>1, TablesAssumption DEF Artifact!TablesAgree
  <1> HIDE DEF queue
  <1>8. WorkspaceTyped'
    BY <1>1, <1>6 DEF WorkspaceTyped
  <1>9. UnderWay'
    <2>1. Artifact!Due' = Artifact!Due
      BY <1>1 DEF Artifact!Due
    <2> QED BY <1>1, <1>6, <1>7, <2>1 DEF UnderWay, Belongs, Fits
  <1>10. Recorded' /\ Artifact!ChecksumsStand'
    BY <1>1 DEF WorkspaceInv, Recorded, Artifact!ChecksumsStand
  <1> QED BY <1>8, <1>9, <1>10 DEF WorkspaceInv

\* A file is written: what it replaces of an earlier phase is a GENERATED.md.
LEMMA WorkspaceWriteNext == WorkspaceInv /\ Artifact!WriteNext => WorkspaceInv'
  <1> SUFFICES ASSUME WorkspaceInv, Artifact!WriteNext PROVE WorkspaceInv'
    OBVIOUS
  <1> DEFINE entry == Head(dispatch.queue)
             queue == dispatch.queue
  <1>1. /\ dispatch.pc = "writing" /\ queue # <<>>
        /\ files' = [f \in DOMAIN files \cup {entry.path} |->
                        IF f = entry.path THEN entry.text ELSE files[f]]
        /\ sums' = [i \in DOMAIN sums |->
                       [f \in DOMAIN sums[i] |-> sums[i][f] /\ f # entry.path]]
        /\ dispatch' = [dispatch EXCEPT !.queue = Tail(dispatch.queue),
                                        !.written = dispatch.written \cup {entry.path}]
    BY DEF Artifact!WriteNext
  <1>2. /\ WorkspaceTyped /\ Recorded /\ Artifact!ChecksumsStand
        /\ Len(sums) < Len(Pipeline)
        /\ sums \in Seq(Records) /\ queue \in Seq(Entries)
    BY <1>1 DEF WorkspaceInv, WorkspaceTyped, UnderWay
  <1>3. /\ entry \in Entries /\ Tail(queue) \in Seq(Entries)
        /\ 1 \in DOMAIN queue /\ entry = queue[1]
        /\ \A j \in DOMAIN Tail(queue) : j + 1 \in DOMAIN queue /\ Tail(queue)[j] = queue[j + 1]
        /\ \A j \in DOMAIN queue \ {1} : j - 1 \in DOMAIN Tail(queue)
                                         /\ Tail(queue)[j - 1] = queue[j]
    BY <1>1, <1>2
  <1>4. Belongs(Artifact!Due, entry.path) /\ Fits(Artifact!Due, entry.text)
    BY <1>1, <1>3 DEF WorkspaceInv, UnderWay
  <1>5. /\ dispatch'.pc = "writing" /\ dispatch'.queue = Tail(queue)
        /\ dispatch'.written = dispatch.written \cup {entry.path}
        /\ dispatch' \in [pc : {"idle", "failed", "writing"},
                          queue : Seq(Entries), written : SUBSET Paths]
    <2>1. entry.path \in Paths
      BY <1>3 DEF Entries
    <2>2. dispatch' = [pc |-> "writing", queue |-> Tail(queue),
                       written |-> dispatch.written \cup {entry.path}]
      BY <1>1, <1>2 DEF WorkspaceTyped
    <2> HIDE DEF entry, queue
    <2> QED BY <1>2, <1>3, <2>1, <2>2 DEF WorkspaceTyped
  <1>6. /\ DOMAIN sums' = DOMAIN sums /\ Len(sums') = Len(sums) /\ sums' \in Seq(Records)
        /\ \A i \in DOMAIN sums : DOMAIN sums'[i] = DOMAIN sums[i]
        /\ \A i \in DOMAIN sums : \A f \in DOMAIN sums[i] :
              sums'[i][f] = (sums[i][f] /\ f # entry.path)
    <2> HIDE DEF entry, queue
    <2>1. \A i \in DOMAIN sums : sums[i] \in Records
      BY <1>2
    <2>2. \A i \in DOMAIN sums :
              [f \in DOMAIN sums[i] |-> sums[i][f] /\ f # entry.path] \in Records
      <3> SUFFICES ASSUME NEW i \in DOMAIN sums
                   PROVE  [f \in DOMAIN sums[i] |-> sums[i][f] /\ f # entry.path] \in Records
        OBVIOUS
      <3>1. DOMAIN sums[i] \in SUBSET Paths
        BY <2>1 DEF Records
      <3>2. [f \in DOMAIN sums[i] |-> sums[i][f] /\ f # entry.path]
                \in [DOMAIN sums[i] -> BOOLEAN]
        BY Zenon
      <3> QED BY <3>1, <3>2 DEF Records
    <2>3. DOMAIN sums = 1 .. Len(sums) /\ Len(sums) \in Nat
      BY <1>2
    <2>4. sums' \in Seq(Records) /\ DOMAIN sums' = DOMAIN sums /\ Len(sums') = Len(sums)
      BY <1>1, <2>2, <2>3
    <2>5. \A i \in DOMAIN sums : sums'[i] = [f \in DOMAIN sums[i] |-> sums[i][f] /\ f # entry.path]
      BY <1>1, Zenon
    <2>6. \A i \in DOMAIN sums : DOMAIN sums'[i] = DOMAIN sums[i]
      BY <2>5
    <2>7. \A i \in DOMAIN sums : \A f \in DOMAIN sums[i] :
              sums'[i][f] = (sums[i][f] /\ f # entry.path)
      <3> SUFFICES ASSUME NEW i \in DOMAIN sums, NEW g \in DOMAIN sums[i]
                   PROVE  sums'[i][g] = (sums[i][g] /\ g # entry.path)
        OBVIOUS
      <3>1. sums'[i] = [f \in DOMAIN sums[i] |-> sums[i][f] /\ f # entry.path]
        BY <2>5
      <3>2. [f \in DOMAIN sums[i] |-> sums[i][f] /\ f # entry.path][g]
                = (sums[i][g] /\ g # entry.path)
        BY Zenon
      <3> QED BY <3>1, <3>2, Zenon
    <2> QED BY <2>4, <2>6, <2>7
  <1>7. Artifact!Due' = Artifact!Due
    BY <1>6 DEF Artifact!Due
  <1>8. DOMAIN files' = DOMAIN files \cup {entry.path} /\ files'[entry.path] = entry.text
        /\ \A f \in DOMAIN files \ {entry.path} : files'[f] = files[f]
    BY <1>1
  <1> HIDE DEF entry, queue
  <1>9. WorkspaceTyped'
    BY <1>2, <1>5, <1>6 DEF WorkspaceTyped
  <1>10. Recorded'
    BY <1>2, <1>6, <1>8 DEF Recorded, Belongs
  <1>11. UnderWay'
    <2>1. \A j \in DOMAIN Tail(queue) :
              /\ Belongs(Artifact!Due, Tail(queue)[j].path)
              /\ Fits(Artifact!Due, Tail(queue)[j].text)
      BY <1>1, <1>3 DEF WorkspaceInv, UnderWay, queue
    <2>2. \A f \in dispatch'.written : f \in DOMAIN files' /\ Belongs(Artifact!Due, f)
      BY <1>1, <1>4, <1>5, <1>8 DEF WorkspaceInv, UnderWay
    <2>3. ASSUME Artifact!Due \in DOMAIN ArtifactSchemas
          PROVE  \/ Artifact!ValidDocument(ArtifactSchemas[Artifact!Due])'
                 \/ \E j \in DOMAIN Tail(queue) :
                        Tail(queue)[j].path = ArtifactSchemas[Artifact!Due].path
      <3> DEFINE schema == ArtifactSchemas[Artifact!Due]
      <3>1. CASE entry.path = schema.path
        <4>1. Artifact!Due # Artifact!CODE_PHASE
          BY <2>3, TablesAssumption DEF Artifact!TablesAgree
        <4>2. entry.text.kind = "document" /\ schema.required_sections \subseteq entry.text.headings
          BY <1>4, <2>3, <4>1 DEF Fits, Artifact!Required
        <4> QED BY <1>7, <1>8, <3>1, <4>2 DEF Artifact!ValidDocument
      <3>2. CASE entry.path # schema.path /\ Artifact!ValidDocument(schema)
        <4>1. schema.path \in DOMAIN files \ {entry.path} /\ schema.path \in DOMAIN files'
              /\ files'[schema.path] = files[schema.path]
          BY <1>8, <3>2 DEF Artifact!ValidDocument
        <4> QED BY <1>7, <3>2, <4>1 DEF Artifact!ValidDocument
      <3>3. CASE entry.path # schema.path /\ ~Artifact!ValidDocument(schema)
        <4>1. PICK j \in DOMAIN queue : queue[j].path = schema.path
          BY <1>1, <2>3, <3>3 DEF WorkspaceInv, UnderWay, queue
        <4>2. j # 1
          BY <1>3, <3>3, <4>1
        <4>3. j - 1 \in DOMAIN Tail(queue) /\ Tail(queue)[j - 1] = queue[j]
          BY <1>3, <4>2
        <4>4. Tail(queue)[j - 1].path = schema.path
          BY <4>1, <4>3
        <4> QED BY <4>3, <4>4
      <3> QED BY <3>1, <3>2, <3>3
    <2> QED BY <1>2, <1>5, <1>6, <1>7, <2>1, <2>2, <2>3 DEF UnderWay, Belongs, Fits
  <1>12. Artifact!ChecksumsStand'
    <2> SUFFICES ASSUME NEW i \in DOMAIN sums', NEW f \in DOMAIN sums'[i], ~sums'[i][f]
                 PROVE  /\ Pipeline[i] \notin DOMAIN ArtifactSchemas \cup {Artifact!CODE_PHASE}
                        /\ f.name = "GENERATED"
                        /\ files'[f].kind # "document"
      BY DEF Artifact!ChecksumsStand
    <2>1. i \in DOMAIN sums /\ f \in DOMAIN sums[i] /\ ~(sums[i][f] /\ f # entry.path)
      BY <1>6
    <2>2. CASE f = entry.path
      <3>1. Belongs(Artifact!Due, f)
        BY <1>4, <2>2
      <3>2. /\ Artifact!Due = Artifact!CODE_PHASE
            /\ Pipeline[i] \notin DOMAIN ArtifactSchemas \cup {Artifact!CODE_PHASE}
            /\ f.name = "GENERATED"
        BY <1>2, <2>1, <3>1, Apart
      <3>3. entry.text.kind # "document"
        BY <1>4, <3>2 DEF Fits
      <3> QED BY <1>8, <2>2, <3>2, <3>3
    <2>3. CASE f # entry.path
      <3>1. f \in DOMAIN files
        BY <1>2, <2>1 DEF Recorded
      <3> QED BY <1>2, <1>8, <2>1, <2>3, <3>1 DEF Artifact!ChecksumsStand
    <2> QED BY <2>2, <2>3
  <1> QED BY <1>9, <1>10, <1>11, <1>12 DEF WorkspaceInv

\* What a phase wrote is recorded.
LEMMA WorkspaceCompletes == WorkspaceInv /\ Artifact!Completes => WorkspaceInv'
  <1> SUFFICES ASSUME WorkspaceInv, Artifact!Completes PROVE WorkspaceInv'
    OBVIOUS
  <1> DEFINE record == [f \in dispatch.written |-> TRUE]
             n == Len(sums) + 1
  <1>1. /\ dispatch.pc = "writing" /\ sums' = Append(sums, record)
        /\ dispatch' = Artifact!Idle /\ files' = files
    BY DEF Artifact!Completes, Artifact!Written
  <1>2. /\ WorkspaceTyped /\ Recorded /\ Artifact!ChecksumsStand
        /\ sums \in Seq(Records) /\ Len(sums) \in Nat /\ Len(sums) < Len(Pipeline)
        /\ dispatch.written \in SUBSET Paths
        /\ \A f \in dispatch.written : f \in DOMAIN files /\ Belongs(Pipeline[n], f)
    BY <1>1 DEF WorkspaceInv, WorkspaceTyped, UnderWay, Artifact!Due
  <1>3. record \in Records
    <2>1. record \in [dispatch.written -> BOOLEAN]
      OBVIOUS
    <2> QED BY <1>2, <2>1 DEF Records
  <1>4. DOMAIN record = dispatch.written /\ \A f \in DOMAIN record : record[f] = TRUE
    OBVIOUS
  <1> HIDE DEF record
  <1>5. /\ sums' \in Seq(Records) /\ Len(sums') = n /\ sums'[n] = record
        /\ DOMAIN sums' = DOMAIN sums \cup {n}
        /\ \A i \in DOMAIN sums : sums'[i] = sums[i]
    BY <1>1, <1>2, <1>3
  <1>6. Len(Pipeline) \in Nat
    BY TablesAssumption DEF Artifact!TablesAgree
  <1>7. dispatch' \in [pc : {"idle", "failed", "writing"},
                       queue : Seq(Entries), written : SUBSET Paths]
        /\ dispatch'.pc = "idle"
    <2>1. dispatch' = [pc |-> "idle", queue |-> <<>>, written |-> {}] /\ <<>> \in Seq(Entries)
      BY <1>1 DEF Artifact!Idle
    <2> QED BY <2>1
  <1>8. WorkspaceTyped'
    <2>1. Len(sums') =< Len(Pipeline)
      BY <1>2, <1>5, <1>6
    <2> QED BY <1>5, <1>7, <2>1 DEF WorkspaceTyped
  <1>9. Recorded'
    <2> SUFFICES ASSUME NEW i \in DOMAIN sums', NEW f \in DOMAIN sums'[i]
                 PROVE  f \in DOMAIN files' /\ Belongs(Pipeline[i], f)
      BY DEF Recorded, Belongs
    <2>1. CASE i \in DOMAIN sums
      BY <1>1, <1>2, <1>5, <2>1 DEF Recorded
    <2>2. CASE i = n
      BY <1>1, <1>2, <1>4, <1>5, <2>2
    <2> QED BY <1>5, <2>1, <2>2
  <1>10. UnderWay'
    BY <1>7 DEF UnderWay
  <1>11. Artifact!ChecksumsStand'
    <2> SUFFICES ASSUME NEW i \in DOMAIN sums', NEW f \in DOMAIN sums'[i], ~sums'[i][f]
                 PROVE  /\ Pipeline[i] \notin DOMAIN ArtifactSchemas \cup {Artifact!CODE_PHASE}
                        /\ f.name = "GENERATED"
                        /\ files'[f].kind # "document"
      BY DEF Artifact!ChecksumsStand
    <2>1. i \in DOMAIN sums
      BY <1>4, <1>5
    <2> QED BY <1>1, <1>2, <1>5, <2>1 DEF Artifact!ChecksumsStand
  <1> QED BY <1>8, <1>9, <1>10, <1>11 DEF WorkspaceInv

\* A rollback or a resume keeps the first phases as they are.
LEMMA WorkspaceKeep ==
    ASSUME WorkspaceInv, NEW k \in 0 .. Len(sums), Artifact!Keep(k)
    PROVE  WorkspaceInv'
  <1>1. /\ sums' = SubSeq(sums, 1, k) /\ dispatch' = Artifact!Idle /\ files' = files
    BY DEF Artifact!Keep
  <1>2. /\ sums \in Seq(Records) /\ Len(sums) \in Nat /\ Len(sums) =< Len(Pipeline)
        /\ Len(Pipeline) \in Nat
    BY TablesAssumption DEF Artifact!TablesAgree, WorkspaceInv, WorkspaceTyped
  <1>3. /\ sums' \in Seq(Records) /\ Len(sums') = k
        /\ \A i \in DOMAIN sums' : i \in DOMAIN sums /\ sums'[i] = sums[i]
    BY <1>1, <1>2
  <1>4. dispatch' \in [pc : {"idle", "failed", "writing"},
                       queue : Seq(Entries), written : SUBSET Paths]
        /\ dispatch'.pc = "idle"
    <2>1. dispatch' = [pc |-> "idle", queue |-> <<>>, written |-> {}] /\ <<>> \in Seq(Entries)
      BY <1>1 DEF Artifact!Idle
    <2> QED BY <2>1
  <1>5. WorkspaceTyped'
    <2>1. Len(sums') =< Len(Pipeline)
      BY <1>2, <1>3
    <2> QED BY <1>3, <1>4, <2>1 DEF WorkspaceTyped
  <1>6. Recorded' /\ UnderWay'
    BY <1>1, <1>3, <1>4 DEF WorkspaceInv, Recorded, UnderWay, Belongs
  <1>7. Artifact!ChecksumsStand'
    BY <1>1, <1>3 DEF WorkspaceInv, Artifact!ChecksumsStand
  <1> QED BY <1>5, <1>6, <1>7 DEF WorkspaceInv

\* Every step of the workspace's part keeps the invariant.
LEMMA WorkspaceNext ==
    ASSUME WorkspaceInv, [Artifact!Next]_workspace
    PROVE  WorkspaceInv'
  <1>1. CASE UNCHANGED workspace
    BY <1>1 DEF workspace, WorkspaceInv, WorkspaceTyped, Recorded, UnderWay, Belongs, Fits,
                Artifact!ChecksumsStand, Artifact!Due, Artifact!ValidDocument
  <1>2. CASE Artifact!Unusable \/ Artifact!WriteFails \/ Artifact!Refused \/ Artifact!Retry
    <2>1. /\ UNCHANGED <<files, sums>>
          /\ dispatch' \in {Artifact!Idle, Artifact!Failed}
      BY <1>2 DEF Artifact!Unusable, Artifact!WriteFails, Artifact!Refused, Artifact!Retry
    <2> QED BY <2>1, WorkspaceStops
  <1>3. CASE Artifact!WriteNext
    BY <1>3, WorkspaceWriteNext
  <1>4. CASE Artifact!Completes
    BY <1>4, WorkspaceCompletes
  <1>5. CASE Artifact!Rollback \/ Artifact!Resume
    <2>1. PICK k \in 0 .. Len(sums) : Artifact!Keep(k)
      <3>1. Len(sums) \in Nat
        BY DEF WorkspaceInv, WorkspaceTyped
      <3> QED BY <1>5, <3>1 DEF Artifact!Rollback, Artifact!Resume
    <2> QED BY <2>1, WorkspaceKeep
  <1>6. CASE \E reply \in Artifact!DocumentReplies : Artifact!RunDoc(reply)
    BY <1>6, WorkspaceRunDoc
  <1>7. CASE \E blocks \in Replies : Artifact!RunCode(blocks)
    BY <1>7, WorkspaceRunCode
  <1> QED BY <1>1, <1>2, <1>3, <1>4, <1>5, <1>6, <1>7 DEF Artifact!Next

\* Only a file that the phase due may write changes.
LEMMA WorkspaceWrites ==
    ASSUME WorkspaceInv, [Artifact!Next]_workspace
    PROVE  Artifact!SingleWriter
  <1>1. CASE files' = files
    BY <1>1 DEF Artifact!SingleWriter
  <1>2. CASE Artifact!WriteNext
    <2>1. /\ dispatch.pc = "writing" /\ dispatch.queue # <<>>
          /\ DOMAIN files' = DOMAIN files \cup {Head(dispatch.queue).path}
          /\ \A f \in DOMAIN files : f # Head(dispatch.queue).path => files'[f] = files[f]
      BY <1>2 DEF Artifact!WriteNext
    <2>2. /\ WorkspaceTyped /\ Len(sums) < Len(Pipeline)
          /\ dispatch.queue \in Seq(Entries)
          /\ \A j \in DOMAIN dispatch.queue : Belongs(Artifact!Due, dispatch.queue[j].path)
      BY <2>1 DEF WorkspaceInv, WorkspaceTyped, UnderWay
    <2>3. Belongs(Artifact!Due, Head(dispatch.queue).path)
      <3>1. 1 \in DOMAIN dispatch.queue /\ Head(dispatch.queue) = dispatch.queue[1]
        BY <2>1, <2>2
      <3> QED BY <2>2, <3>1
    <2>4. Artifact!Owned(Head(dispatch.queue).path)
      BY <2>2, <2>3, BelongsOwned
    <2> QED BY <2>1, <2>4 DEF Artifact!SingleWriter
  <1>3. CASE Artifact!Next /\ ~Artifact!WriteNext
    BY <1>1, <1>3 DEF Artifact!Next, Artifact!Unusable, Artifact!WriteFails, Artifact!Refused,
           Artifact!Retry, Artifact!Completes, Artifact!Rollback, Artifact!Resume,
           Artifact!Keep, Artifact!RunDoc, Artifact!RunCode
  <1> QED BY <1>1, <1>2, <1>3 DEF workspace

-----------------------------------------------------------------------------
(***************************************************************************)
(* The graph part.                                                         *)
(***************************************************************************)
GraphTyped ==
    /\ loop \in {"validate", "downstream", "returned", "rejected"}
    /\ deps \in [Graph!Nodes -> SUBSET (Graph!Nodes \cup {Unknown})]
    /\ root \in Graph!Nodes
    /\ found \in SUBSET Graph!Nodes
    /\ position \in Nat \ {0}
    /\ changed \in BOOLEAN

Known == \A n \in Graph!Nodes : Unknown \notin deps[n]
Acyclic == \A S \in SUBSET Graph!Nodes : ~Graph!Cyclic(S)

\* A pass that has changed nothing yet left behind what its loop does not take.
Passed ==
    ~changed => \A i \in DOMAIN Order :
        i < position => Order[i] \in found \/ ~Graph!Takes(Order[i])

\* What is resolved is on no cycle.
Validating ==
    loop = "validate" =>
        /\ Known /\ Passed
        /\ \A S \in SUBSET Graph!Nodes : Graph!Cyclic(S) => S \cap found = {}

\* What is reached depends on the root, and is in every closed set.
Growing ==
    loop \in {"downstream", "returned"} =>
        /\ Known /\ Acyclic /\ root \notin found
        /\ \A n \in found : deps[n] \cap (found \cup {root}) # {}
        /\ \A S \in SUBSET Graph!Nodes : Graph!G!ClosedDownstream(root, S) => found \subseteq S

GraphInv ==
    /\ GraphTyped /\ Validating /\ Growing
    /\ loop = "downstream" => Passed
    /\ Graph!ValidatesGraph /\ Graph!DownstreamIsLeast

-----------------------------------------------------------------------------
\* A graph that names an unknown node is rejected, another is validated.
LEMMA GraphInit == Graph!Init => GraphInv
  <1> SUFFICES ASSUME Graph!Init PROVE GraphInv
    OBVIOUS
  <1>1. loop = IF \E n \in Graph!Nodes : Unknown \in deps[n] THEN "rejected" ELSE "validate"
    BY DEF Graph!Init
  <1>2. GraphTyped
    <2>1. loop \in {"rejected", "validate"}
      BY <1>1
    <2>2. deps \in [Graph!Nodes -> SUBSET (Graph!Nodes \cup {Unknown})] /\ root \in Graph!Nodes
      BY DEF Graph!Init
    <2>3. found \in SUBSET Graph!Nodes /\ position \in Nat \ {0}
      BY DEF Graph!Init
    <2>4. changed \in BOOLEAN
      BY Zenon DEF Graph!Init
    <2> QED BY <2>1, <2>2, <2>3, <2>4 DEF GraphTyped
  <1>3. loop = "validate" => Known
    BY <1>1 DEF Known
  <1>4. Passed
    <2>1. \A i \in DOMAIN Order : ~(i < 1)
      BY NodesAssumption DEF Graph!KeptOnce
    <2> QED BY <2>1 DEF Passed, Graph!Init
  <1>5. Validating /\ Growing
    BY <1>1, <1>3, <1>4 DEF Validating, Growing, Graph!Init
  <1>6. Graph!ValidatesGraph /\ Graph!DownstreamIsLeast
    BY <1>1 DEF Graph!ValidatesGraph, Graph!DownstreamIsLeast
  <1> QED BY <1>1, <1>2, <1>4, <1>5, <1>6 DEF GraphInv

\* The loop under way takes a node, or passes it.
LEMMA GraphVisit == GraphInv /\ Graph!Visit => GraphInv'
  <1> SUFFICES ASSUME GraphInv, Graph!Visit PROVE GraphInv'
    OBVIOUS
  <1> DEFINE n == Order[position]
  <1>1. /\ loop \in {"validate", "downstream"} /\ position \in DOMAIN Order
        /\ position' = position + 1 /\ position \in Nat \ {0}
        /\ UNCHANGED <<deps, loop, root>>
        /\ n \in Graph!Nodes /\ found \in SUBSET Graph!Nodes
    BY DEF Graph!Visit, Graph!Nodes, GraphInv, GraphTyped
  <1>2. \/ /\ n \notin found /\ Graph!Takes(n)
           /\ found' = found \cup {n} /\ changed' = TRUE
        \/ /\ n \in found \/ ~Graph!Takes(n)
           /\ UNCHANGED <<found, changed>>
    BY DEF Graph!Visit
  <1> HIDE DEF n
  <1>3. GraphTyped'
    <2>1. found' \in SUBSET Graph!Nodes /\ changed' \in BOOLEAN
      BY <1>1, <1>2 DEF GraphInv, GraphTyped
    <2> QED BY <1>1, <2>1 DEF GraphInv, GraphTyped
  <1>4. Passed'
    <2> SUFFICES ASSUME ~changed', NEW i \in DOMAIN Order, i < position'
                 PROVE  Order[i] \in found' \/ ~Graph!Takes(Order[i])'
      BY DEF Passed
    <2>1. /\ n \in found \/ ~Graph!Takes(n)
          /\ UNCHANGED <<found, changed>>
      BY <1>2
    <2>2. Graph!Takes(Order[i])' = Graph!Takes(Order[i])
      BY <1>1, <2>1 DEF Graph!Takes, Graph!Resolves, Graph!Reached
    <2>3. i < position \/ i = position
      <3>1. DOMAIN Order \subseteq Nat
        BY NodesAssumption DEF Graph!KeptOnce
      <3> QED BY <1>1, <3>1
    <2>4. CASE i < position
      BY <1>1, <2>1, <2>2, <2>4 DEF GraphInv, Validating, Passed
    <2>5. CASE i = position
      BY <2>1, <2>2, <2>5 DEF n
    <2> QED BY <2>3, <2>4, <2>5
  <1>5. Validating'
    <2> SUFFICES ASSUME loop = "validate",
                        NEW S \in SUBSET Graph!Nodes, Graph!Cyclic(S)
                 PROVE  S \cap found' = {}
      BY <1>1, <1>4 DEF GraphInv, Validating, Known, Graph!Cyclic
    <2>1. S \cap found = {}
      BY DEF GraphInv, Validating
    <2>2. CASE UNCHANGED found
      BY <2>1, <2>2
    <2>3. CASE Graph!Takes(n) /\ found' = found \cup {n}
      <3>1. deps[n] \subseteq found
        BY <2>3 DEF Graph!Takes, Graph!Resolves
      <3>2. n \notin S
        BY <2>1, <3>1 DEF Graph!Cyclic
      <3> QED BY <2>1, <2>3, <3>2
    <2> QED BY <1>2, <2>2, <2>3
  <1>6. Growing'
    <2> SUFFICES ASSUME loop = "downstream"
                 PROVE  /\ root \notin found'
                        /\ \A m \in found' : deps[m] \cap (found' \cup {root}) # {}
                        /\ \A S \in SUBSET Graph!Nodes :
                              Graph!G!ClosedDownstream(root, S) => found' \subseteq S
      BY <1>1 DEF GraphInv, Growing, Known, Acyclic, Graph!Cyclic, Graph!G!ClosedDownstream
    <2>1. /\ root \notin found
          /\ \A m \in found : deps[m] \cap (found \cup {root}) # {}
          /\ \A S \in SUBSET Graph!Nodes :
                Graph!G!ClosedDownstream(root, S) => found \subseteq S
      BY DEF GraphInv, Growing
    <2>2. CASE UNCHANGED found
      BY <2>1, <2>2
    <2>3. CASE Graph!Takes(n) /\ found' = found \cup {n}
      <3>1. n # root /\ deps[n] \cap (found \cup {root}) # {}
        BY <2>3 DEF Graph!Takes, Graph!Reached
      <3>2. ASSUME NEW S \in SUBSET Graph!Nodes, Graph!G!ClosedDownstream(root, S)
            PROVE  n \in S
        BY <1>1, <2>1, <3>1, <3>2 DEF Graph!G!ClosedDownstream
      <3>3. \A m \in found' : deps[m] \cap (found' \cup {root}) # {}
        BY <2>1, <2>3, <3>1
      <3>4. root \notin found'
        BY <2>1, <2>3, <3>1
      <3>5. \A S \in SUBSET Graph!Nodes :
                Graph!G!ClosedDownstream(root, S) => found' \subseteq S
        BY <2>1, <2>3, <3>2
      <3> QED BY <3>3, <3>4, <3>5
    <2> QED BY <1>2, <2>2, <2>3
  <1>7. Graph!ValidatesGraph' /\ Graph!DownstreamIsLeast'
    BY <1>1 DEF GraphInv, Graph!ValidatesGraph, Graph!DownstreamIsLeast, Graph!Cyclic
  <1> QED BY <1>3, <1>4, <1>5, <1>6, <1>7 DEF GraphInv

\* A pass that changed something is followed by another.
LEMMA GraphNextPass == GraphInv /\ Graph!NextPass => GraphInv'
  <1> SUFFICES ASSUME GraphInv, Graph!NextPass PROVE GraphInv'
    OBVIOUS
  <1>1. /\ position' = 1 /\ changed' = FALSE /\ loop \in {"validate", "downstream"}
        /\ UNCHANGED <<deps, loop, root, found>>
    BY DEF Graph!NextPass
  <1>2. GraphTyped'
    <2>1. changed' \in BOOLEAN
      BY <1>1, Zenon
    <2> QED BY <1>1, <2>1 DEF GraphInv, GraphTyped
  <1>3. Passed'
    <2>1. \A i \in DOMAIN Order : ~(i < 1)
      BY NodesAssumption DEF Graph!KeptOnce
    <2> QED BY <1>1, <2>1 DEF Passed
  <1>4. Validating' /\ Growing'
    BY <1>1, <1>3 DEF GraphInv, Validating, Growing, Known, Acyclic, Graph!Cyclic,
           Graph!G!ClosedDownstream
  <1>5. Graph!ValidatesGraph' /\ Graph!DownstreamIsLeast'
    BY <1>1 DEF GraphInv, Graph!ValidatesGraph, Graph!DownstreamIsLeast, Graph!Cyclic
  <1> QED BY <1>2, <1>3, <1>4, <1>5 DEF GraphInv

\* A pass without change has left no node that its loop takes.
LEMMA NothingTaken ==
    ASSUME GraphInv, Passed, position \notin DOMAIN Order, ~changed
    PROVE  \A n \in Graph!Nodes \ found : ~Graph!Takes(n)
  <1> SUFFICES ASSUME NEW n \in Graph!Nodes \ found PROVE ~Graph!Takes(n)
    OBVIOUS
  <1>1. PICK i \in DOMAIN Order : Order[i] = n
    BY DEF Graph!Nodes
  <1>2. i < position
    <2>1. DOMAIN Order = 1 .. Len(Order) /\ Len(Order) \in Nat
      BY NodesAssumption DEF Graph!KeptOnce
    <2> QED BY <2>1 DEF GraphInv, GraphTyped
  <1> QED BY <1>1, <1>2 DEF Passed

\* What is left over when nothing more can be resolved is a cycle.
LEMMA GraphEndValidate == GraphInv /\ Graph!EndValidate => GraphInv'
  <1> SUFFICES ASSUME GraphInv, Graph!EndValidate PROVE GraphInv'
    OBVIOUS
  <1>1. /\ loop = "validate" /\ position \notin DOMAIN Order /\ ~changed
        /\ UNCHANGED <<deps, root, changed>>
        /\ IF found = Graph!Nodes
           THEN loop' = "downstream" /\ found' = {} /\ position' = 1
           ELSE loop' = "rejected" /\ UNCHANGED <<found, position>>
    BY DEF Graph!EndValidate
  <1>2. /\ Known /\ Passed
        /\ \A S \in SUBSET Graph!Nodes : Graph!Cyclic(S) => S \cap found = {}
    BY <1>1 DEF GraphInv, Validating
  <1>3. GraphTyped'
    <2>1. loop' \in {"downstream", "rejected"}
      BY <1>1
    <2>2. found \in SUBSET Graph!Nodes /\ position \in Nat \ {0}
      BY DEF GraphInv, GraphTyped
    <2>3. found' \in {found, {}} /\ position' \in {position, 1}
      BY <1>1
    <2>4. found' \in SUBSET Graph!Nodes /\ position' \in Nat \ {0}
      BY <2>2, <2>3
    <2> QED BY <1>1, <2>1, <2>4 DEF GraphInv, GraphTyped
  <1>4. CASE found = Graph!Nodes
    <2>1. loop' = "downstream" /\ found' = {} /\ position' = 1
      BY <1>1, <1>4
    <2>2. Acyclic
      BY <1>2, <1>4 DEF Acyclic, Graph!Cyclic
    <2>3. Acyclic' /\ Known'
      BY <1>1, <1>2, <2>2 DEF Acyclic, Known, Graph!Cyclic
    <2>4. Passed'
      <3>1. \A i \in DOMAIN Order : ~(i < 1)
        BY NodesAssumption DEF Graph!KeptOnce
      <3> QED BY <2>1, <3>1 DEF Passed
    <2>5. Growing' /\ Validating'
      BY <2>1, <2>3 DEF Growing, Validating
    <2>6. Graph!ValidatesGraph' /\ Graph!DownstreamIsLeast'
      BY <2>1, <2>3 DEF Graph!ValidatesGraph, Graph!DownstreamIsLeast, Acyclic, Known
    <2> QED BY <1>3, <2>4, <2>5, <2>6 DEF GraphInv
  <1>5. CASE found # Graph!Nodes
    <2>1. loop' = "rejected" /\ UNCHANGED <<deps, found>>
      BY <1>1, <1>5
    <2>2. Graph!Cyclic(Graph!Nodes \ found)
      <3>1. Graph!Nodes \ found # {}
        BY <1>5 DEF GraphInv, GraphTyped
      <3>2. ASSUME NEW n \in Graph!Nodes \ found
            PROVE  deps[n] \cap (Graph!Nodes \ found) # {}
        <4>1. ~(deps[n] \subseteq found)
          BY <1>1, <1>2, NothingTaken DEF Graph!Takes, Graph!Resolves
        <4>2. deps[n] \subseteq Graph!Nodes
          BY <1>2 DEF Known, GraphInv, GraphTyped
        <4> QED BY <4>1, <4>2
      <3> QED BY <3>1, <3>2 DEF Graph!Cyclic
    <2>3. Graph!ValidatesGraph'
      <3>1. Graph!Cyclic(Graph!Nodes \ found)'
        BY <2>1, <2>2 DEF Graph!Cyclic
      <3>2. (\E S \in SUBSET Graph!Nodes : Graph!Cyclic(S))'
        BY <3>1
      <3> QED BY <2>1, <3>2 DEF Graph!ValidatesGraph
    <2>4. Growing' /\ Validating' /\ Graph!DownstreamIsLeast'
      BY <2>1 DEF Growing, Validating, Graph!DownstreamIsLeast
    <2> QED BY <1>3, <2>1, <2>3, <2>4 DEF GraphInv
  <1> QED BY <1>4, <1>5

\* What was reached is closed: nothing of it leads back to the root.
LEMMA GraphEndDownstream == GraphInv /\ Graph!EndDownstream => GraphInv'
  <1> SUFFICES ASSUME GraphInv, Graph!EndDownstream PROVE GraphInv'
    OBVIOUS
  <1>1. /\ loop = "downstream" /\ position \notin DOMAIN Order /\ ~changed
        /\ loop' = "returned"
        /\ UNCHANGED <<deps, root, found, position, changed>>
    BY DEF Graph!EndDownstream
  <1>2. /\ Known /\ Acyclic /\ root \notin found /\ Passed
        /\ \A n \in found : deps[n] \cap (found \cup {root}) # {}
        /\ \A S \in SUBSET Graph!Nodes : Graph!G!ClosedDownstream(root, S) => found \subseteq S
        /\ found \in SUBSET Graph!Nodes /\ root \in Graph!Nodes
    BY <1>1 DEF GraphInv, Growing, GraphTyped
  <1>3. deps[root] \cap (found \cup {root}) = {}
    <2> SUFFICES ASSUME deps[root] \cap (found \cup {root}) # {} PROVE FALSE
      OBVIOUS
    <2>1. Graph!Cyclic(found \cup {root})
      BY <1>2 DEF Graph!Cyclic
    <2>2. found \cup {root} \in SUBSET Graph!Nodes
      BY <1>2
    <2> QED BY <1>2, <2>1, <2>2 DEF Acyclic
  <1>4. Graph!G!ClosedDownstream(root, found)
    <2> SUFFICES ASSUME NEW q \in Graph!Nodes \ found
                 PROVE  root \notin deps[q] /\ deps[q] \cap found = {}
      BY DEF Graph!G!ClosedDownstream
    <2>1. CASE q = root
      BY <1>3, <2>1
    <2>2. CASE q # root
      <3>1. ~Graph!Takes(q)
        BY <1>1, <1>2, NothingTaken
      <3> QED BY <1>1, <2>2, <3>1 DEF Graph!Takes, Graph!Reached
    <2> QED BY <2>1, <2>2
  <1>5. found = Graph!G!DownstreamOf(root)
    BY <1>2, <1>4 DEF Graph!G!DownstreamOf
  <1>6. Graph!DownstreamIsLeast'
    BY <1>1, <1>5 DEF Graph!DownstreamIsLeast, Graph!G!DownstreamOf, Graph!G!ClosedDownstream
  <1>7. Growing' /\ Validating' /\ GraphTyped'
    BY <1>1, <1>2 DEF Growing, Validating, Known, Acyclic, Graph!Cyclic,
           Graph!G!ClosedDownstream, GraphInv, GraphTyped
  <1>8. Graph!ValidatesGraph'
    BY <1>1, <1>2 DEF Graph!ValidatesGraph, Known, Acyclic, Graph!Cyclic
  <1> QED BY <1>1, <1>6, <1>7, <1>8 DEF GraphInv

\* Every step of the graph's part keeps the invariant.
LEMMA GraphNext ==
    ASSUME GraphInv, [Graph!Next]_graph
    PROVE  GraphInv'
  <1>1. CASE UNCHANGED graph
    BY <1>1 DEF graph, GraphInv, GraphTyped, Validating, Growing, Passed, Known, Acyclic,
           Graph!Cyclic, Graph!Takes, Graph!Resolves, Graph!Reached, Graph!ValidatesGraph,
           Graph!DownstreamIsLeast, Graph!G!DownstreamOf, Graph!G!ClosedDownstream
  <1> QED
    BY <1>1, GraphVisit, GraphNextPass, GraphEndValidate, GraphEndDownstream DEF Graph!Next

-----------------------------------------------------------------------------
(***************************************************************************)
(* Sorted sequences.  What is put in order by counting what comes before   *)
(* it (Ranked) has every member once, in the order; and what a sequence    *)
(* has at some places (At) is what it has at them going upwards.  Both are *)
(* pigeonhole arguments: among finitely many members no two have as many   *)
(* before them, so every place is somebody's.                              *)
(***************************************************************************)
\* R orders the members of S, one before the other.
Orders(R, S) ==
    /\ \A x \in S : <<x, x>> \notin R
    /\ \A x, y \in S : x = y \/ <<x, y>> \in R \/ <<y, x>> \in R
    /\ \A x, y, z \in S : <<x, y>> \in R /\ <<y, z>> \in R => <<x, z>> \in R

Before(R, S, x) == {y \in S : <<y, x>> \in R}

\* The sequence s has every member of S once, in the order R.
Sorts(s, R, S) ==
    /\ s \in [1 .. Cardinality(S) -> S]
    /\ \A x \in S : \E k \in DOMAIN s : s[k] = x
    /\ \A j, k \in DOMAIN s : j < k => <<s[j], s[k]>> \in R

\* Every member is behind as many as its place says.
Placed(s, R, S) ==
    /\ s \in [1 .. Cardinality(S) -> S]
    /\ \A k \in DOMAIN s : Cardinality(Before(R, S, s[k])) = k - 1

\* The number of members before it tells where a member is.
LEMMA BeforeGrows ==
    ASSUME NEW S, IsFiniteSet(S), NEW R, Orders(R, S)
    PROVE  /\ \A x \in S : Cardinality(Before(R, S, x)) \in 0 .. Cardinality(S) - 1
           /\ \A x, y \in S :
                 <<x, y>> \in R => Cardinality(Before(R, S, x)) < Cardinality(Before(R, S, y))
  <1>1. ASSUME NEW x \in S
        PROVE  IsFiniteSet(Before(R, S, x)) /\ Cardinality(Before(R, S, x)) \in 0 .. Cardinality(S) - 1
    <2>1. Before(R, S, x) \in SUBSET S /\ Before(R, S, x) # S
      BY DEF Before, Orders
    <2>2. /\ IsFiniteSet(Before(R, S, x))
          /\ Cardinality(Before(R, S, x)) =< Cardinality(S)
          /\ Cardinality(Before(R, S, x)) # Cardinality(S)
      BY <2>1, FS_Subset
    <2> QED BY <2>2, FS_CardinalityType
  <1>2. ASSUME NEW x \in S, NEW y \in S, <<x, y>> \in R
        PROVE  Cardinality(Before(R, S, x)) < Cardinality(Before(R, S, y))
    <2>1. Before(R, S, x) \in SUBSET Before(R, S, y)
      BY <1>2 DEF Before, Orders
    <2>2. Before(R, S, x) # Before(R, S, y)
      BY <1>2 DEF Before, Orders
    <2> QED BY <1>1, <2>1, <2>2, FS_Subset
  <1> QED BY <1>1, <1>2

\* So every place is somebody's.
LEMMA EveryPlaceTaken ==
    ASSUME NEW S, IsFiniteSet(S), NEW R, Orders(R, S), NEW k \in 1 .. Cardinality(S)
    PROVE  \E x \in S : Cardinality(Before(R, S, x)) = k - 1
  <1> DEFINE n == Cardinality(S)
             place == [x \in S |-> Cardinality(Before(R, S, x)) + 1]
  <1>1. n \in Nat
    BY FS_CardinalityType
  <1>2. \A x \in S : place[x] \in 1 .. n
    BY <1>1, BeforeGrows
  <1>3. place \in [S -> 1 .. n]
    BY <1>2
  <1>4. ASSUME NEW x \in S, NEW y \in S, x # y PROVE place[x] # place[y]
    <2>1. <<x, y>> \in R \/ <<y, x>> \in R
      BY <1>4 DEF Orders
    <2>2. place[x] \in Nat /\ place[y] \in Nat /\ (place[x] < place[y] \/ place[y] < place[x])
      BY <2>1, <1>1, BeforeGrows
    <2> QED BY <2>2
  <1>5. place \in Injection(S, 1 .. n)
    BY <1>3, <1>4 DEF Injection, IsInjective
  <1>6. IsFiniteSet(1 .. n) /\ Cardinality(1 .. n) = n
    BY <1>1, FS_Interval
  <1>7. place \in Surjection(S, 1 .. n)
    BY <1>5, <1>6, FS_Injection
  <1>8. PICK x \in S : place[x] = k
    BY <1>7 DEF Surjection
  <1> QED BY <1>8, <1>2, BeforeGrows

\* Members in their places are sorted.
LEMMA PlacedSorts ==
    ASSUME NEW S, IsFiniteSet(S), NEW R, Orders(R, S), NEW s, Placed(s, R, S)
    PROVE  Sorts(s, R, S)
  <1>0. Cardinality(S) \in Nat
    BY FS_CardinalityType
  <1>1. ASSUME NEW k \in 1 .. Cardinality(S)
        PROVE  s[k] \in S /\ Cardinality(Before(R, S, s[k])) = k - 1
    BY DEF Placed
  <1>2. s \in [1 .. Cardinality(S) -> S]
    BY DEF Placed
  <1>3. ASSUME NEW x \in S PROVE \E k \in DOMAIN s : s[k] = x
    <2> DEFINE k == Cardinality(Before(R, S, x)) + 1
    <2>1. k \in 1 .. Cardinality(S)
      BY <1>0, BeforeGrows
    <2>2. s[k] \in S /\ Cardinality(Before(R, S, s[k])) = k - 1
      BY <1>1, <2>1
    <2>3. s[k] = x
      <3>1. s[k] = x \/ <<s[k], x>> \in R \/ <<x, s[k]>> \in R
        BY <2>2 DEF Orders
      <3>2. /\ Cardinality(Before(R, S, x)) \in Int
            /\ Cardinality(Before(R, S, s[k])) = Cardinality(Before(R, S, x))
        BY <2>2, BeforeGrows, <1>0
      <3>3. <<s[k], x>> \notin R /\ <<x, s[k]>> \notin R
        BY <3>2, <2>2, BeforeGrows
      <3> QED BY <3>1, <3>3
    <2> QED BY <2>1, <2>3, <1>2
  <1>4. ASSUME NEW j \in DOMAIN s, NEW k \in DOMAIN s, j < k PROVE <<s[j], s[k]>> \in R
    <2>1. /\ s[j] \in S /\ Cardinality(Before(R, S, s[j])) = j - 1
          /\ s[k] \in S /\ Cardinality(Before(R, S, s[k])) = k - 1
          /\ j \in 1 .. Cardinality(S) /\ k \in 1 .. Cardinality(S)
      BY <1>1, <1>2
    <2>2. s[j] # s[k] /\ <<s[k], s[j]>> \notin R
      BY <2>1, <1>4, <1>0, BeforeGrows
    <2> QED BY <2>1, <2>2 DEF Orders
  <1> QED BY <1>2, <1>3, <1>4 DEF Sorts

\* And only one sequence has them so.
LEMMA PlacedOnce ==
    ASSUME NEW S, IsFiniteSet(S), NEW R, Orders(R, S),
           NEW s, Placed(s, R, S), NEW t, Placed(t, R, S)
    PROVE  s = t
  <1>1. ASSUME NEW k \in 1 .. Cardinality(S) PROVE s[k] = t[k]
    <2>1. /\ s[k] \in S /\ Cardinality(Before(R, S, s[k])) = k - 1
          /\ t[k] \in S /\ Cardinality(Before(R, S, t[k])) = k - 1
      BY DEF Placed
    <2>2. <<s[k], t[k]>> \notin R /\ <<t[k], s[k]>> \notin R
      BY <2>1, BeforeGrows
    <2> QED BY <2>1, <2>2 DEF Orders
  <1>2. s \in [1 .. Cardinality(S) -> S] /\ t \in [1 .. Cardinality(S) -> S]
    BY DEF Placed
  <1>3. /\ s = [k \in 1 .. Cardinality(S) |-> s[k]]
        /\ t = [k \in 1 .. Cardinality(S) |-> t[k]]
    BY <1>2
  <1> QED BY <1>1, <1>3

\* A sorted sequence has every member in its place.
LEMMA SortedIsPlaced ==
    ASSUME NEW S, NEW R, Orders(R, S), NEW m \in Nat, NEW s \in [1 .. m -> S],
           \A x \in S : \E k \in 1 .. m : s[k] = x,
           \A j, k \in 1 .. m : j < k => <<s[j], s[k]>> \in R
    PROVE  IsFiniteSet(S) /\ Cardinality(S) = m /\ Placed(s, R, S)
  <1>1. \A j, k \in 1 .. m : s[j] = s[k] => j = k
    <2> SUFFICES ASSUME NEW j \in 1 .. m, NEW k \in 1 .. m, s[j] = s[k], j < k PROVE FALSE
      OBVIOUS
    <2> QED BY DEF Orders
  <1>2. s \in Bijection(1 .. m, S)
    BY <1>1 DEF Bijection, Injection, Surjection, IsInjective
  <1>3. IsFiniteSet(1 .. m) /\ Cardinality(1 .. m) = m
    BY FS_Interval
  <1>4. IsFiniteSet(S) /\ Cardinality(S) = m
    BY <1>2, <1>3, FS_Bijection DEF ExistsBijection
  <1>5. ASSUME NEW k \in 1 .. m PROVE Cardinality(Before(R, S, s[k])) = k - 1
    <2> DEFINE T == Before(R, S, s[k])
               t == [j \in 1 .. k - 1 |-> s[j]]
    <2>1. \A j \in 1 .. k - 1 : j \in 1 .. m /\ s[j] \in T
      BY DEF Before
    <2>2. \A x \in T : \E j \in 1 .. k - 1 : s[j] = x
      <3> SUFFICES ASSUME NEW x \in T PROVE \E j \in 1 .. k - 1 : s[j] = x
        OBVIOUS
      <3>1. PICK j \in 1 .. m : s[j] = x
        BY DEF Before
      <3>2. ~ (k =< j)
        <4> SUFFICES ASSUME k =< j PROVE FALSE
          OBVIOUS
        <4>1. <<x, s[k]>> \in R /\ x \in S /\ s[k] \in S
          BY DEF Before
        <4>2. CASE k = j
          BY <4>1, <4>2, <3>1 DEF Orders
        <4>3. CASE k < j
          <5>1. <<s[k], x>> \in R
            BY <4>3, <3>1
          <5> QED BY <4>1, <5>1 DEF Orders
        <4> QED BY <4>2, <4>3
      <3> QED BY <3>1, <3>2
    <2>3. t \in Bijection(1 .. k - 1, T)
      BY <2>1, <2>2, <1>1 DEF Bijection, Injection, Surjection, IsInjective
    <2>4. IsFiniteSet(1 .. k - 1) /\ Cardinality(1 .. k - 1) = k - 1
      BY FS_Interval
    <2> QED BY <2>3, <2>4, FS_Bijection DEF ExistsBijection
  <1> QED BY <1>4, <1>5 DEF Placed

\* In a set with members one of them is the first.
LEMMA HasFirst ==
    ASSUME NEW S, IsFiniteSet(S), S # {}, NEW R, Orders(R, S)
    PROVE  \E x \in S : \A y \in S : y = x \/ <<x, y>> \in R
  <1>1. 1 \in 1 .. Cardinality(S)
    BY FS_EmptySet, FS_CardinalityType
  <1>2. PICK x \in S : Cardinality(Before(R, S, x)) = 1 - 1
    BY <1>1, EveryPlaceTaken
  <1>3. Before(R, S, x) \in SUBSET S
    BY DEF Before
  <1>4. IsFiniteSet(Before(R, S, x))
    BY <1>3, FS_Subset
  <1>5. Before(R, S, x) = {}
    BY <1>2, <1>4, FS_EmptySet
  <1> QED BY <1>5 DEF Before, Orders

-----------------------------------------------------------------------------
\* The elements of a sequence at some of its places.
Less(S) == {p \in S \X S : p[1] < p[2]}

LEMMA LessOrders == ASSUME NEW S \in SUBSET Int PROVE Orders(Less(S), S)
  BY DEF Orders, Less

InOrder(S) == Ranked(S, <)

LEMMA NumbersPlaced ==
    ASSUME NEW S \in SUBSET Int, IsFiniteSet(S)
    PROVE  Placed(InOrder(S), Less(S), S)
  <1> DEFINE Here(x, k) == Cardinality({y \in S : y < x}) = k - 1
  <1>0. Orders(Less(S), S)
    BY LessOrders
  <1>1. \A x \in S : {y \in S : y < x} = Before(Less(S), S, x)
    BY DEF Before, Less
  <1>2. InOrder(S) = [k \in 1 .. Cardinality(S) |-> CHOOSE x \in S : Here(x, k)]
    BY DEF InOrder, Ranked
  <1>3. ASSUME NEW k \in 1 .. Cardinality(S)
        PROVE  InOrder(S)[k] \in S /\ Here(InOrder(S)[k], k)
    <2>1. \E x \in S : Here(x, k)
      <3>1. PICK x \in S : Cardinality(Before(Less(S), S, x)) = k - 1
        BY <1>0, EveryPlaceTaken
      <3>2. Here(x, k)
        BY <3>1, <1>1
      <3> QED BY <3>2
    <2> QED BY <1>2, <2>1
  <1>4. InOrder(S) \in [1 .. Cardinality(S) -> S]
    BY <1>2, <1>3
  <1> QED BY <1>1, <1>3, <1>4 DEF Placed

\* s goes through S upwards.
Upwards(s, m, S) ==
    /\ s \in [1 .. m -> S]
    /\ \A x \in S : \E k \in 1 .. m : s[k] = x
    /\ \A j, k \in 1 .. m : j < k => s[j] < s[k]

\* There is one way to go through a finite set of numbers upwards.
LEMMA UpwardsExists ==
    ASSUME NEW S \in SUBSET Int, IsFiniteSet(S)
    PROVE  \E m \in Nat : \E s \in [1 .. m -> S] : Upwards(s, m, S)
  <1> DEFINE s == InOrder(S)
             m == Cardinality(S)
  <1>1. Sorts(s, Less(S), S)
    BY LessOrders, NumbersPlaced, PlacedSorts
  <1>2. m \in Nat
    BY FS_CardinalityType
  <1>3. Upwards(s, m, S)
    BY <1>1 DEF Sorts, Less, Upwards
  <1> QED BY <1>2, <1>3 DEF Upwards

LEMMA AtUpwards ==
    ASSUME NEW seq, NEW S \in SUBSET Int, NEW m \in Nat, NEW s, Upwards(s, m, S)
    PROVE  At(seq, S) = [k \in 1 .. m |-> seq[s[k]]]
  <1>1. \A j, k \in 1 .. m : j < k => <<s[j], s[k]>> \in Less(S)
    BY DEF Upwards, Less
  <1>2. IsFiniteSet(S) /\ Placed(s, Less(S), S)
    BY <1>1, LessOrders, SortedIsPlaced DEF Upwards
  <1>3. s = InOrder(S)
    BY <1>2, LessOrders, NumbersPlaced, PlacedOnce
  <1>4. At(seq, S) = [k \in DOMAIN InOrder(S) |-> seq[InOrder(S)[k]]]
    BY DEF At, InOrder
  <1> QED BY <1>3, <1>4 DEF Upwards

\* Nothing is at no place.
LEMMA AtNone == ASSUME NEW seq PROVE At(seq, {}) = <<>>
  <1> DEFINE s == [k \in 1 .. 0 |-> 0]
  <1>1. Upwards(s, 0, {})
    BY DEF Upwards
  <1>2. At(seq, {}) = [k \in 1 .. 0 |-> seq[s[k]]]
    BY <1>1, AtUpwards
  <1> QED BY <1>2

\* Where the places and the elements match, the sequences are the same.
LEMMA AtMoved ==
    ASSUME NEW seq, NEW other, NEW S \in SUBSET Int, IsFiniteSet(S), NEW T \in SUBSET Int,
           NEW f \in [S -> T], \A y \in T : \E x \in S : f[x] = y,
           \A x, y \in S : x < y => f[x] < f[y],
           \A x \in S : other[f[x]] = seq[x]
    PROVE  At(other, T) = At(seq, S)
  <1>1. PICK m \in Nat : \E s \in [1 .. m -> S] : Upwards(s, m, S)
    BY UpwardsExists
  <1>2. PICK s \in [1 .. m -> S] : Upwards(s, m, S)
    BY <1>1
  <1> DEFINE t == [k \in 1 .. m |-> f[s[k]]]
  <1>3. Upwards(t, m, T)
    <2>1. t \in [1 .. m -> T]
      BY <1>2 DEF Upwards
    <2>2. \A y \in T : \E k \in 1 .. m : t[k] = y
      BY <1>2 DEF Upwards
    <2>3. \A j, k \in 1 .. m : j < k => t[j] < t[k]
      BY <1>2 DEF Upwards
    <2> QED BY <2>1, <2>2, <2>3 DEF Upwards
  <1>4. At(seq, S) = [k \in 1 .. m |-> seq[s[k]]]
    BY <1>2, AtUpwards
  <1>5. At(other, T) = [k \in 1 .. m |-> other[t[k]]]
    BY <1>3, AtUpwards
  <1> QED BY <1>2, <1>4, <1>5

\* A place behind all the others adds its element at the end.
LEMMA AtOneMore ==
    ASSUME NEW seq, NEW S \in SUBSET Int, IsFiniteSet(S), NEW n \in Int, \A x \in S : x < n
    PROVE  At(seq, S \cup {n}) = Append(At(seq, S), seq[n])
  <1>1. PICK m \in Nat : \E s \in [1 .. m -> S] : Upwards(s, m, S)
    BY UpwardsExists
  <1>2. PICK s \in [1 .. m -> S] : Upwards(s, m, S)
    BY <1>1
  <1> DEFINE t == [k \in 1 .. m + 1 |-> IF k = m + 1 THEN n ELSE s[k]]
             U == S \cup {n}
  <1>3. Upwards(t, m + 1, U)
    <2>1. t \in [1 .. m + 1 -> U]
      OBVIOUS
    <2>2. \A y \in U : \E k \in 1 .. m + 1 : t[k] = y
      <3> SUFFICES ASSUME NEW y \in U PROVE \E k \in 1 .. m + 1 : t[k] = y
        OBVIOUS
      <3>1. CASE y = n
        BY <3>1
      <3>2. CASE y \in S
        <4>1. PICK k \in 1 .. m : s[k] = y
          BY <1>2, <3>2 DEF Upwards
        <4>2. k \in 1 .. m + 1 /\ k # m + 1
          OBVIOUS
        <4> QED BY <4>1, <4>2
      <3> QED BY <3>1, <3>2
    <2>3. ASSUME NEW j \in 1 .. m + 1, NEW k \in 1 .. m + 1, j < k PROVE t[j] < t[k]
      <3>1. j \in 1 .. m /\ t[j] = s[j] /\ s[j] \in S
        BY <2>3
      <3>2. CASE k = m + 1
        BY <3>1, <3>2
      <3>3. CASE k # m + 1
        BY <3>1, <3>3, <2>3, <1>2 DEF Upwards
      <3> QED BY <3>2, <3>3
    <2> QED BY <2>1, <2>2, <2>3 DEF Upwards
  <1>4. At(seq, S) = [k \in 1 .. m |-> seq[s[k]]]
    BY <1>2, AtUpwards
  <1>5. At(seq, U) = [k \in 1 .. m + 1 |-> seq[t[k]]]
    BY <1>3, AtUpwards
  <1> HIDE DEF U
  <1>6. Append(At(seq, S), seq[n]) = [k \in 1 .. m + 1 |-> seq[t[k]]]
    BY <1>4
  <1> QED BY <1>5, <1>6 DEF U

\* A finite set of numbers has a least and a greatest member.
LEMMA HasLeast ==
    ASSUME NEW S \in SUBSET Int, IsFiniteSet(S), S # {}
    PROVE  \E x \in S : \A y \in S : x =< y
  <1>1. Orders(Less(S), S)
    BY LessOrders
  <1>2. PICK x \in S : \A y \in S : y = x \/ <<x, y>> \in Less(S)
    BY <1>1, HasFirst
  <1>3. ASSUME NEW y \in S PROVE x =< y
    <2>1. CASE y = x
      BY <2>1
    <2>2. CASE <<x, y>> \in Less(S)
      BY <2>2 DEF Less
    <2> QED BY <1>2, <2>1, <2>2
  <1> QED BY <1>3

LEMMA HasGreatest ==
    ASSUME NEW S \in SUBSET Int, IsFiniteSet(S), S # {}
    PROVE  \E x \in S : \A y \in S : y =< x
  <1> DEFINE R == {p \in S \X S : p[1] > p[2]}
  <1>1. Orders(R, S)
    BY DEF Orders
  <1>2. \A x, y \in S : <<x, y>> \in R => y =< x
    OBVIOUS
  <1> HIDE DEF R
  <1>3. PICK x \in S : \A y \in S : y = x \/ <<x, y>> \in R
    BY <1>1, HasFirst
  <1>4. ASSUME NEW y \in S PROVE y =< x
    <2>1. CASE y = x
      BY <2>1
    <2>2. CASE <<x, y>> \in R
      BY <1>2, <2>2
    <2> QED BY <1>3, <2>1, <2>2
  <1> QED BY <1>4

\* What a sequence has at some of its places is a sequence.
LEMMA AtSeq ==
    ASSUME NEW X, NEW seq, NEW S \in SUBSET Int, IsFiniteSet(S), \A i \in S : seq[i] \in X
    PROVE  At(seq, S) \in Seq(X)
  <1>1. PICK m \in Nat : \E s \in [1 .. m -> S] : Upwards(s, m, S)
    BY UpwardsExists
  <1>2. PICK s \in [1 .. m -> S] : Upwards(s, m, S)
    BY <1>1
  <1>3. At(seq, S) = [k \in 1 .. m |-> seq[s[k]]]
    BY <1>2, AtUpwards
  <1>4. \A k \in 1 .. m : seq[s[k]] \in X
    BY <1>2
  <1> QED BY <1>3, <1>4

\* Where the elements are the same, at the same places.
LEMMA AtSame ==
    ASSUME NEW seq, NEW other, NEW S \in SUBSET Int, IsFiniteSet(S),
           \A i \in S : other[i] = seq[i]
    PROVE  At(other, S) = At(seq, S)
  <1>1. PICK m \in Nat : \E s \in [1 .. m -> S] : Upwards(s, m, S)
    BY UpwardsExists
  <1>2. PICK s \in [1 .. m -> S] : Upwards(s, m, S)
    BY <1>1
  <1>3. At(seq, S) = [k \in 1 .. m |-> seq[s[k]]] /\ At(other, S) = [k \in 1 .. m |-> other[s[k]]]
    BY <1>2, AtUpwards
  <1>4. \A k \in 1 .. m : other[s[k]] = seq[s[k]]
    BY <1>2
  <1> QED BY <1>3, <1>4

-----------------------------------------------------------------------------
(***************************************************************************)
(* The siblings that a repair prompt shows.                                *)
(***************************************************************************)
\* The map as far as it has come.  What is ranked is all the siblings, closest
\* first; what is shown is of those passed, the first of them included, and
\* what was passed and is not shown does not fit.
InterfacesTyped ==
    /\ parses \in BOOLEAN
    /\ sibling \in [1 .. Siblings -> Interfaces!Files]
    /\ pc \in {"rank", "add", "done"}
    /\ next \in 1 .. Siblings + 1
    /\ shown \in Seq(1 .. Siblings)
    /\ used \in Nat

Closer(i, j) ==
    \/ Interfaces!RankOf(i) < Interfaces!RankOf(j)
    \/ Interfaces!RankOf(i) = Interfaces!RankOf(j) /\ i < j

InRanks ==
    /\ ranked \in [1 .. Siblings -> 1 .. Siblings]
    /\ \A i \in 1 .. Siblings : \E k \in 1 .. Siblings : ranked[k] = i
    /\ \A j, k \in 1 .. Siblings : j < k => Closer(ranked[j], ranked[k])

PassedOK ==
    /\ \A m \in DOMAIN shown : \E k \in 1 .. next - 1 : shown[m] = ranked[k]
    /\ \A m, n \in DOMAIN shown :
          m < n => Interfaces!RankOf(shown[m]) =< Interfaces!RankOf(shown[n])
    /\ next > 1 => shown # <<>> /\ shown[1] = ranked[1]
    /\ used =< MapCap \/ Len(shown) = 1
    /\ \A k \in 1 .. next - 1 :
          \/ \E m \in DOMAIN shown : shown[m] = ranked[k]
          \/ used + sibling[ranked[k]].size > MapCap

InterfacesInv ==
    /\ InterfacesTyped
    /\ pc = "rank" => next = 1 /\ shown = <<>> /\ used = 0
    /\ pc # "rank" => InRanks /\ PassedOK
    /\ pc = "done" => next = Siblings + 1

\* Ranks and sizes are numbers.
LEMMA RanksAreNumbers ==
    /\ \A i : Interfaces!RankOf(i) \in 0 .. 2
    /\ InterfacesTyped => \A i \in 1 .. Siblings : sibling[i].size \in Nat
  <1>1. \A i : Interfaces!RankOf(i) \in 0 .. 2
    BY DEF Interfaces!RankOf
  <1>2. InterfacesTyped => \A i \in 1 .. Siblings : sibling[i].size \in Nat
    BY ServicesAssumption DEF InterfacesTyped, Interfaces!Files
  <1> QED BY <1>1, <1>2

\* sorted() puts the closest first.
LEMMA InterfacesRank ==
    ASSUME Interfaces!Rank
    PROVE  /\ ranked' \in [1 .. Siblings -> 1 .. Siblings]
           /\ \A i \in 1 .. Siblings : \E k \in 1 .. Siblings : ranked'[k] = i
           /\ \A j, k \in 1 .. Siblings : j < k => Closer(ranked'[j], ranked'[k])
  <1> DEFINE S == 1 .. Siblings
             R == {p \in S \X S : Closer(p[1], p[2])}
             Here(x, k) == Interfaces!Cardinality({y \in S : Closer(y, x)}) = k - 1
  <1>1. Siblings \in Nat /\ IsFiniteSet(S) /\ Cardinality(S) = Siblings
    BY ServicesAssumption, FS_Interval
  <1>2. Orders(R, S)
    <2> HIDE DEF S
    <2>1. \A x \in S : ~Closer(x, x)
      BY <1>1, RanksAreNumbers DEF Closer, S
    <2>2. \A x, y \in S : x = y \/ Closer(x, y) \/ Closer(y, x)
      BY <1>1, RanksAreNumbers DEF Closer, S
    <2>3. \A x, y, z \in S : Closer(x, y) /\ Closer(y, z) => Closer(x, z)
      BY <1>1, RanksAreNumbers DEF Closer, S
    <2> QED BY <2>1, <2>2, <2>3 DEF Orders
  <1>3. \A x \in S : {y \in S : Closer(y, x)} = Before(R, S, x)
    BY DEF Before
  <1>0. \A T : Interfaces!Cardinality(T) = Cardinality(T)
    BY DEF Interfaces!Cardinality, Cardinality
  <1>4. ranked' = [k \in 1 .. Interfaces!Cardinality(S) |-> CHOOSE x \in S : Here(x, k)]
    BY DEF Interfaces!Rank, Interfaces!Ranked, Closer
  <1> HIDE DEF S, R
  <1>5. ASSUME NEW k \in 1 .. Cardinality(S)
        PROVE  ranked'[k] \in S /\ Here(ranked'[k], k)
    <2>1. PICK x \in S : Cardinality(Before(R, S, x)) = k - 1
      BY <1>1, <1>2, EveryPlaceTaken
    <2>2. Here(x, k)
      BY <2>1, <1>3, <1>0
    <2> QED BY <1>4, <2>2, <1>0
  <1>6. ranked' \in [1 .. Cardinality(S) -> S]
    BY <1>4, <1>5, <1>0
  <1>7. Placed(ranked', R, S)
    BY <1>3, <1>5, <1>6, <1>0 DEF Placed
  <1>8. Sorts(ranked', R, S)
    BY <1>1, <1>2, <1>7, PlacedSorts
  <1> QED BY <1>1, <1>8 DEF Sorts, R, S

\* The ranks stay: the files do.
LEMMA RanksStay ==
    ASSUME UNCHANGED <<parses, sibling>>
    PROVE  \A i : Interfaces!RankOf(i)' = Interfaces!RankOf(i)
  BY DEF Interfaces!RankOf, Interfaces!Uses, Interfaces!UsedBy

\* No sibling is ranked yet.
LEMMA InterfacesInit == Interfaces!Init => InterfacesInv
  BY ServicesAssumption DEF Interfaces!Init, InterfacesInv, InterfacesTyped

\* The ranking.
LEMMA InterfacesBegin == InterfacesInv /\ Interfaces!Begin => InterfacesInv'
  <1> SUFFICES ASSUME InterfacesInv, Interfaces!Begin PROVE InterfacesInv'
    OBVIOUS
  <1>1. /\ pc' = "add" /\ next' = 1 /\ shown' = <<>> /\ used' = 0
        /\ UNCHANGED <<parses, sibling>> /\ Interfaces!Rank
    BY DEF Interfaces!Begin, InterfacesInv
  <1>2. InterfacesTyped'
    BY <1>1, ServicesAssumption DEF InterfacesInv, InterfacesTyped
  <1>3. InRanks'
    BY <1>1, InterfacesRank, RanksStay DEF InRanks, Closer
  <1>4. PassedOK'
    BY <1>1, ServicesAssumption DEF PassedOK
  <1> QED BY <1>1, <1>2, <1>3, <1>4 DEF InterfacesInv

\* A sibling is added or passed over.
LEMMA InterfacesAdd == InterfacesInv /\ Interfaces!Add => InterfacesInv'
  <1> SUFFICES ASSUME InterfacesInv, Interfaces!Add PROVE InterfacesInv'
    OBVIOUS
  <1> DEFINE i == ranked[next]
             size == sibling[i].size
             fits == used + size =< MapCap \/ shown = <<>>
  <1>1. /\ pc = "add" /\ pc' = "add" /\ next' = next + 1
        /\ shown' = IF fits THEN Append(shown, i) ELSE shown
        /\ used' = IF fits THEN used + size ELSE used
        /\ UNCHANGED <<parses, sibling, ranked>>
    BY DEF Interfaces!Add, Interfaces!Fits
  <1>2. InRanks /\ PassedOK /\ InterfacesTyped
    BY <1>1 DEF InterfacesInv
  <1>3. Siblings \in Nat /\ MapCap \in Nat
    BY ServicesAssumption
  <1>4. next \in 1 .. Siblings
    <2>1. Len(ranked) = Siblings
      BY <1>2, <1>3 DEF InRanks
    <2> QED BY <2>1, <1>2, <1>3 DEF Interfaces!Add, InterfacesTyped
  <1>5. i \in 1 .. Siblings /\ size \in Nat
    BY <1>2, <1>4, RanksAreNumbers DEF InRanks
  <1> HIDE DEF i, size
  <1>6. InterfacesTyped'
    <2>1. shown' \in Seq(1 .. Siblings)
      <3>1. shown \in Seq(1 .. Siblings)
        BY <1>2 DEF InterfacesTyped
      <3>2. Append(shown, i) \in Seq(1 .. Siblings)
        BY <3>1, <1>5
      <3> QED BY <1>1, <3>1, <3>2
    <2>2. used' \in Nat /\ next' \in 1 .. Siblings + 1
      BY <1>1, <1>2, <1>3, <1>4, <1>5 DEF InterfacesTyped
    <2> QED BY <1>1, <1>2, <2>1, <2>2 DEF InterfacesTyped
  <1>7. InRanks'
    BY <1>1, <1>2, RanksStay DEF InRanks, Closer
  <1>8. \A k \in 1 .. next - 1 : Interfaces!RankOf(ranked[k]) =< Interfaces!RankOf(i)
    <2> SUFFICES ASSUME NEW k \in 1 .. next - 1
                 PROVE  Interfaces!RankOf(ranked[k]) =< Interfaces!RankOf(i)
      OBVIOUS
    <2>1. k \in 1 .. Siblings /\ k < next
      BY <1>3, <1>4
    <2>2. Closer(ranked[k], i)
      BY <2>1, <1>2, <1>4 DEF InRanks, i
    <2> QED BY <2>2, RanksAreNumbers DEF Closer
  <1>9. PassedOK'
    <2>0. \A j : Interfaces!RankOf(j)' = Interfaces!RankOf(j)
      BY <1>1, RanksStay
    <2>1. CASE fits
      <3>1. /\ shown' = Append(shown, i) /\ used' = used + size
            /\ Len(shown') = Len(shown) + 1 /\ shown'[Len(shown) + 1] = i
            /\ \A m \in DOMAIN shown : m \in DOMAIN shown' /\ shown'[m] = shown[m]
            /\ \A m \in DOMAIN shown' : m = Len(shown) + 1 \/ m \in DOMAIN shown
            /\ Len(shown) \in Nat /\ DOMAIN shown = 1 .. Len(shown)
        BY <1>1, <1>2, <1>5, <2>1 DEF InterfacesTyped
      <3>2. \A m \in DOMAIN shown' : \E k \in 1 .. next' - 1 : shown'[m] = ranked'[k]
        <4> SUFFICES ASSUME NEW m \in DOMAIN shown'
                     PROVE  \E k \in 1 .. next' - 1 : shown'[m] = ranked'[k]
          OBVIOUS
        <4>1. CASE m = Len(shown) + 1
          BY <3>1, <4>1, <1>1, <1>4 DEF i
        <4>2. CASE m \in DOMAIN shown
          <5>1. PICK k \in 1 .. next - 1 : shown[m] = ranked[k]
            BY <4>2, <1>2 DEF PassedOK
          <5> QED BY <5>1, <4>2, <3>1, <1>1, <1>4
        <4> QED BY <4>1, <4>2, <3>1
      <3>3. \A m, n \in DOMAIN shown' :
                m < n => Interfaces!RankOf(shown'[m]) =< Interfaces!RankOf(shown'[n])
        <4> SUFFICES ASSUME NEW m \in DOMAIN shown', NEW n \in DOMAIN shown', m < n
                     PROVE  Interfaces!RankOf(shown'[m]) =< Interfaces!RankOf(shown'[n])
          OBVIOUS
        <4>1. m \in DOMAIN shown /\ shown'[m] = shown[m]
          BY <3>1
        <4>2. CASE n = Len(shown) + 1
          <5>1. PICK k \in 1 .. next - 1 : shown[m] = ranked[k]
            BY <4>1, <1>2 DEF PassedOK
          <5> QED BY <5>1, <4>1, <4>2, <3>1, <1>8
        <4>3. CASE n \in DOMAIN shown
          BY <4>1, <4>3, <3>1, <1>2 DEF PassedOK
        <4> QED BY <4>2, <4>3, <3>1
      <3>4. shown' # <<>> /\ shown'[1] = ranked[1]
        <4>1. CASE shown = <<>>
          <5>1. next = 1
            BY <4>1, <1>2, <1>4 DEF PassedOK
          <5> QED BY <5>1, <4>1, <3>1 DEF i
        <4>2. CASE shown # <<>>
          <5>1. 1 \in DOMAIN shown
            BY <4>2, <1>2 DEF InterfacesTyped
          <5>2. next > 1
            BY <5>1, <1>2, <1>4 DEF PassedOK
          <5> QED BY <5>1, <5>2, <3>1, <1>2 DEF PassedOK
        <4> QED BY <4>1, <4>2
      <3>5. used' =< MapCap \/ Len(shown') = 1
        <4>1. CASE shown = <<>>
          BY <4>1, <3>1
        <4>2. CASE used + size =< MapCap
          BY <4>2, <3>1
        <4> QED BY <4>1, <4>2, <2>1
      <3>6. ASSUME NEW k \in 1 .. next' - 1
            PROVE  \/ \E m \in DOMAIN shown' : shown'[m] = ranked[k]
                   \/ used' + sibling[ranked[k]].size > MapCap
        <4>1. CASE k = next
          BY <4>1, <3>1, <1>2 DEF i, InterfacesTyped
        <4>2. CASE k # next
          <5>1. k \in 1 .. next - 1 /\ k \in 1 .. Siblings
            BY <4>2, <1>1, <1>3, <1>4
          <5>2. \/ \E m \in DOMAIN shown : shown[m] = ranked[k]
                \/ used + sibling[ranked[k]].size > MapCap
            BY <5>1, <1>2 DEF PassedOK
          <5>3. ranked[k] \in 1 .. Siblings /\ sibling[ranked[k]].size \in Nat /\ used \in Nat
            BY <5>1, <1>2, RanksAreNumbers DEF InRanks, InterfacesTyped
          <5>4. CASE \E m \in DOMAIN shown : shown[m] = ranked[k]
            BY <5>4, <3>1
          <5>5. CASE used + sibling[ranked[k]].size > MapCap
            BY <5>5, <5>3, <3>1, <1>3, <1>5
          <5> QED BY <5>2, <5>4, <5>5
        <4> QED BY <4>1, <4>2
      <3> QED BY <3>2, <3>3, <3>4, <3>5, <3>6, <1>1, <2>0 DEF PassedOK
    <2>2. CASE ~fits
      <3>1. shown' = shown /\ used' = used /\ shown # <<>> /\ used + size > MapCap /\ next > 1
        <4>1. shown' = shown /\ used' = used /\ shown # <<>> /\ used + size > MapCap
          BY <1>1, <1>2, <1>3, <1>5, <2>2 DEF InterfacesTyped
        <4>2. 1 \in DOMAIN shown
          BY <4>1, <1>2 DEF InterfacesTyped
        <4> QED BY <4>1, <4>2, <1>2, <1>4 DEF PassedOK
      <3>2. \A m \in DOMAIN shown : \E k \in 1 .. next' - 1 : shown[m] = ranked[k]
        BY <1>1, <1>2, <1>4 DEF PassedOK
      <3>3. \A k \in 1 .. next' - 1 :
                \/ \E m \in DOMAIN shown : shown[m] = ranked[k]
                \/ used + sibling[ranked[k]].size > MapCap
        BY <1>1, <1>2, <1>4, <3>1 DEF PassedOK, i, size
      <3> QED BY <3>1, <3>2, <3>3, <1>1, <1>2, <2>0 DEF PassedOK
    <2> QED BY <2>1, <2>2
  <1> QED BY <1>1, <1>6, <1>7, <1>9 DEF InterfacesInv

\* Every step of the map.
LEMMA InterfacesNext == InterfacesInv /\ [Interfaces!Next]_interfaces => InterfacesInv'
  <1> SUFFICES ASSUME InterfacesInv, [Interfaces!Next]_interfaces PROVE InterfacesInv'
    OBVIOUS
  <1>1. CASE Interfaces!End
    <2>1. /\ pc = "add" /\ pc' = "done" /\ next > Len(ranked)
          /\ UNCHANGED <<parses, sibling, ranked, next, shown, used>>
      BY <1>1 DEF Interfaces!End
    <2>2. Len(ranked) = Siblings /\ Siblings \in Nat
      BY <2>1, ServicesAssumption DEF InterfacesInv, InRanks
    <2>3. next' = Siblings + 1
      BY <2>1, <2>2 DEF InterfacesInv, InterfacesTyped
    <2> QED BY <2>1, <2>3, RanksStay
            DEF InterfacesInv, InterfacesTyped, InRanks, Closer, PassedOK
  <1>2. CASE UNCHANGED interfaces
    BY <1>2, RanksStay
       DEF interfaces, InterfacesInv, InterfacesTyped, InRanks, Closer, PassedOK
  <1> QED BY <1>1, <1>2, InterfacesBegin, InterfacesAdd DEF Interfaces!Next

\* What the map shows when it is done.
LEMMA ClosestAreShown == InterfacesInv => Interfaces!ClosestShown
  <1> SUFFICES ASSUME InterfacesInv, pc = "done" PROVE Interfaces!ClosestShown
    BY DEF Interfaces!ClosestShown
  <1>1. InRanks /\ PassedOK /\ InterfacesTyped /\ next = Siblings + 1 /\ Siblings \in Nat
    BY ServicesAssumption DEF InterfacesInv
  <1>2. Siblings > 0 => shown # <<>> /\ shown[1] = ranked[1]
    BY <1>1 DEF PassedOK
  <1>3. \A i \in 1 .. Siblings : Interfaces!RankOf(ranked[1]) =< Interfaces!RankOf(i)
    <2> SUFFICES ASSUME NEW i \in 1 .. Siblings
                 PROVE  Interfaces!RankOf(ranked[1]) =< Interfaces!RankOf(i)
      OBVIOUS
    <2>1. PICK k \in 1 .. Siblings : ranked[k] = i
      BY <1>1 DEF InRanks
    <2>2. 1 \in 1 .. Siblings /\ (k = 1 \/ 1 < k)
      BY <1>1
    <2>3. k = 1 \/ Closer(ranked[1], i)
      BY <2>1, <2>2, <1>1 DEF InRanks
    <2> QED BY <2>1, <2>3, RanksAreNumbers DEF Closer
  <1>4. \A i \in 1 .. Siblings : Interfaces!RankOf(shown[1]) =< Interfaces!RankOf(i)
    BY <1>1, <1>2, <1>3
  <1>5. \A i \in Interfaces!Omitted :
            /\ used + sibling[i].size > MapCap
            /\ \E j \in Interfaces!ToSet(shown) : Interfaces!RankOf(j) =< Interfaces!RankOf(i)
    <2> SUFFICES ASSUME NEW i \in Interfaces!Omitted
                 PROVE  /\ used + sibling[i].size > MapCap
                        /\ \E j \in Interfaces!ToSet(shown) :
                              Interfaces!RankOf(j) =< Interfaces!RankOf(i)
      OBVIOUS
    <2>1. i \in 1 .. Siblings /\ \A m \in DOMAIN shown : shown[m] # i
      BY DEF Interfaces!Omitted, Interfaces!ToSet
    <2>2. PICK k \in 1 .. Siblings : ranked[k] = i
      BY <1>1, <2>1 DEF InRanks
    <2>3. used + sibling[i].size > MapCap
      BY <2>1, <2>2, <1>1 DEF PassedOK
    <2>4. shown[1] \in Interfaces!ToSet(shown)
      BY <1>1, <1>2, <2>1 DEF Interfaces!ToSet, InterfacesTyped
    <2> QED BY <2>1, <2>3, <2>4, <1>4
  <1>6. \/ used =< MapCap /\ Interfaces!MapLength =< MapCap + 2 * Len(shown) + Note
        \/ Len(shown) = 1
    <2>1. used \in Nat /\ MapCap \in Nat /\ Note \in Nat /\ Len(shown) \in Nat
      BY <1>1, ServicesAssumption DEF InterfacesTyped
    <2>2. Interfaces!MapLength =< used + 2 * Len(shown) + Note
      BY <2>1 DEF Interfaces!MapLength
    <2>3. Interfaces!MapLength \in Int
      BY <2>1 DEF Interfaces!MapLength
    <2>4. used =< MapCap \/ Len(shown) = 1
      BY <1>1 DEF PassedOK
    <2> QED BY <2>1, <2>2, <2>3, <2>4
  <1> QED BY <1>1, <1>2, <1>4, <1>5, <1>6 DEF Interfaces!ClosestShown, PassedOK

-----------------------------------------------------------------------------
(***************************************************************************)
(* What a round of repair reads off a report.                              *)
(***************************************************************************)
\* What a round reads off the report.  It is read once: what holds of it holds
\* for good.
FailuresTyped ==
    /\ report \in Failing!Reports
    /\ DOMAIN todo \subseteq Nat

FailuresInv == FailuresTyped /\ Failing!LargestCauseFirst

Blamed(i) == Failing!FileOf(report, i)
Size(i) == Failing!SizeAt(report, i)
Firsts == Failing!Firsts(report)
Leading == Failing!Leading(report)
Ahead(i, j) == Size(i) > Size(j) \/ (Size(i) = Size(j) /\ i < j)

\* The components' copies of a library operator.
LEMMA FailingCardinality == \A S : Failing!Cardinality(S) = Cardinality(S)
  BY DEF Failing!Cardinality, Cardinality

\* The positions of a report are numbers, and there are finitely many.
LEMMA ReportType ==
    ASSUME FailuresTyped
    PROVE  \E n \in Nat : DOMAIN report = 1 .. n /\ \A i \in 1 .. n : report[i] \in Failing!Failures
  BY ArtifactsAssumption DEF FailuresTyped, Failing!Reports

LEMMA ReportFinite ==
    ASSUME FailuresTyped, NEW S \in SUBSET DOMAIN report
    PROVE  S \in SUBSET Nat /\ IsFiniteSet(S)
  <1>1. PICK n \in Nat : DOMAIN report = 1 .. n
    BY ReportType
  <1>2. IsFiniteSet(1 .. n)
    BY FS_Interval
  <1> QED BY <1>1, <1>2, FS_Subset

\* A basename of an artifact stands for an artifact.
LEMMA NamedIsWritten == ASSUME NEW source PROVE Failing!NamedBy(source) \subseteq Failing!Written
  <1> SUFFICES ASSUME NEW name, name \in {BasenameOf[a] : a \in Failing!Written}
               PROVE  Artifacts[Failing!LastNamed(name)] \in Failing!Written
    BY DEF Failing!NamedBy
  <1> DEFINE I == {i \in 1 .. Len(Artifacts) : BasenameOf[Artifacts[i]] = name}
  <1>1. PICK i \in DOMAIN Artifacts : BasenameOf[Artifacts[i]] = name
    BY DEF Failing!Written, Failing!ToSet
  <1>2. Len(Artifacts) \in Nat /\ DOMAIN Artifacts = 1 .. Len(Artifacts)
    BY ArtifactsAssumption
  <1>3. I # {} /\ I \in SUBSET Int /\ IsFiniteSet(I)
    <2>0. 1 \in Int /\ Len(Artifacts) \in Int
      BY <1>2
    <2>1. IsFiniteSet(1 .. Len(Artifacts))
      BY <2>0, FS_Interval, Zenon
    <2>2. I \in SUBSET (1 .. Len(Artifacts))
      OBVIOUS
    <2>3. IsFiniteSet(I)
      BY <2>1, <2>2, FS_Subset
    <2> QED BY <1>1, <1>2, <2>3
  <1>4. Failing!LastNamed(name) = Failing!Max(I)
    BY <1>3 DEF Failing!LastNamed, Failing!SelectLastInSeq
  <1>5. \E x \in I : \A y \in I : x >= y
    <2> HIDE DEF I
    <2>1. PICK x \in I : \A y \in I : y =< x
      BY <1>3, HasGreatest
    <2> QED BY <1>3, <2>1
  <1>6. Failing!Max(I) \in I
    <2> HIDE DEF I
    <2> QED BY <1>5 DEF Failing!Max
  <1> QED BY <1>2, <1>4, <1>6 DEF Failing!Written, Failing!ToSet

\* An artifact was put into the dict somewhere.
LEMMA FirstPutType == ASSUME NEW a \in Failing!Written PROVE Failing!FirstPut(a) \in 1 .. Len(Artifacts)
  <1> DEFINE I == {i \in 1 .. Len(Artifacts) : BasenameOf[Artifacts[i]] = BasenameOf[a]}
  <1>1. PICK i \in DOMAIN Artifacts : Artifacts[i] = a
    BY DEF Failing!Written, Failing!ToSet
  <1>2. Len(Artifacts) \in Nat /\ DOMAIN Artifacts = 1 .. Len(Artifacts)
    BY ArtifactsAssumption
  <1>3. I # {} /\ I \in SUBSET Int /\ IsFiniteSet(I)
    <2>0. 1 \in Int /\ Len(Artifacts) \in Int
      BY <1>2
    <2>1. IsFiniteSet(1 .. Len(Artifacts))
      BY <2>0, FS_Interval, Zenon
    <2>2. I \in SUBSET (1 .. Len(Artifacts))
      OBVIOUS
    <2>3. IsFiniteSet(I)
      BY <2>1, <2>2, FS_Subset
    <2> QED BY <1>1, <1>2, <2>3
  <1>4. Failing!FirstPut(a) = Failing!Min(I)
    BY <1>3 DEF Failing!FirstPut, Failing!SelectInSeq
  <1>5. Failing!Min(I) \in I
    <2> HIDE DEF I
    <2>1. \E x \in I : \A y \in I : x =< y
      BY <1>3, HasLeast
    <2> QED BY <2>1 DEF Failing!Min
  <1> QED BY <1>4, <1>5

\* Of the names in a line, one is taken.
LEMMA LastOfNamed ==
    ASSUME NEW named, named \subseteq Failing!Written, named # {}
    PROVE  Failing!LastOf(named) \in named
  <1> DEFINE P == {Failing!FirstPut(a) : a \in named}
  <1>1. P \subseteq 1 .. Len(Artifacts) /\ P # {}
    BY FirstPutType
  <1>2. Len(Artifacts) \in Nat
    BY ArtifactsAssumption
  <1>3. P \in SUBSET Int /\ IsFiniteSet(P)
    <2>0. 1 \in Int /\ Len(Artifacts) \in Int
      BY <1>2
    <2>1. IsFiniteSet(1 .. Len(Artifacts))
      BY <2>0, FS_Interval, Zenon
    <2> HIDE DEF P
    <2>2. IsFiniteSet(P)
      BY <1>1, <2>1, FS_Subset
    <2> QED BY <1>1, <1>2, <2>2
  <1>4. PICK p \in P : \A q \in P : q =< p
    BY <1>1, <1>3, HasGreatest
  <1>5. PICK a \in named : Failing!FirstPut(a) = p
    OBVIOUS
  <1>6. \A b \in named : Failing!FirstPut(b) =< Failing!FirstPut(a)
    BY <1>4, <1>5
  <1> HIDE DEF P
  <1> QED BY <1>5, <1>6 DEF Failing!LastOf

\* A failure implicates an artifact, or nothing.
LEMMA BlamedType ==
    ASSUME FailuresTyped, NEW i \in DOMAIN report
    PROVE  Blamed(i) = NoFile \/ Blamed(i) \in Failing!Written
  <1> DEFINE deepest == Failing!SelectLastInSeq(report[i].trace,
                             LAMBDA s : Failing!NamedBy(s) # {})
             trace == report[i].trace
             I == {k \in 1 .. Len(trace) : Failing!NamedBy(trace[k]) # {}}
  <1>1. Blamed(i) = IF (IF I # {} THEN Failing!Max(I) ELSE 0) = 0 THEN NoFile
                    ELSE Failing!LastOf(Failing!NamedBy(trace[IF I # {} THEN Failing!Max(I) ELSE 0]))
    BY DEF Blamed, Failing!FileOf, Failing!ImplicatedTarget, Failing!SelectLastInSeq
  <1>2. CASE I = {}
    BY <1>1, <1>2
  <1>3. CASE I # {}
    <2>1. PICK n \in Nat : trace \in [1 .. n -> Sources]
      BY ReportType DEF Failing!Failures, Failing!Traces
    <2>2. IsFiniteSet(1 .. n) /\ Len(trace) = n
      BY <2>1, FS_Interval
    <2>3. I \in SUBSET (1 .. n)
      BY <2>2
    <2>4. I \in SUBSET Int /\ IsFiniteSet(I)
      BY <2>2, <2>3, FS_Subset
    <2>5. \E x \in I : \A y \in I : x >= y
      <3> HIDE DEF I
      <3>1. PICK x \in I : \A y \in I : y =< x
        BY <2>4, <1>3, HasGreatest
      <3> QED BY <2>4, <3>1
    <2>6. Failing!Max(I) \in I
      <3> HIDE DEF I
      <3> QED BY <2>5 DEF Failing!Max
    <2>7. \A k \in I : Failing!NamedBy(trace[k]) # {} /\ k # 0
      OBVIOUS
    <2>8. Blamed(i) = Failing!LastOf(Failing!NamedBy(trace[Failing!Max(I)]))
      <3> HIDE DEF I
      <3> QED BY <1>1, <1>3, <2>6, <2>7
    <2>9. Failing!NamedBy(trace[Failing!Max(I)]) # {}
      <3> HIDE DEF I
      <3> QED BY <2>6, <2>7
    <2> QED BY <2>8, <2>9, NamedIsWritten, LastOfNamed
  <1> QED BY <1>2, <1>3

\* Clusters: failures of one cluster are alike, of one size and in one file, and
\* each cluster has a first failure.
LEMMA Clusters ==
    ASSUME FailuresTyped
    PROVE  /\ \A i \in DOMAIN report : Size(i) \in Nat
           /\ \A i, j \in DOMAIN report : j \in Failing!Alike(report, i) =>
                 /\ Failing!Alike(report, j) = Failing!Alike(report, i) /\ Size(j) = Size(i)
                 /\ Blamed(j) = Blamed(i) /\ report[j].error = report[i].error
           /\ \A i \in DOMAIN report : \E j \in Failing!Alike(report, i) : j \in Firsts
           /\ \A i \in DOMAIN report : i \in Failing!Alike(report, i)
  <1>1. ASSUME NEW i \in DOMAIN report
        PROVE  i \in Failing!Alike(report, i) /\ Size(i) \in Nat
    <2>1. Failing!Alike(report, i) \in SUBSET DOMAIN report /\ i \in Failing!Alike(report, i)
      BY DEF Failing!Alike
    <2> QED BY <2>1, ReportFinite, FailingCardinality, FS_CardinalityType DEF Size, Failing!SizeAt
  <1>2. ASSUME NEW i \in DOMAIN report, NEW j \in Failing!Alike(report, i)
        PROVE  /\ Failing!Alike(report, j) = Failing!Alike(report, i) /\ Size(j) = Size(i)
               /\ Blamed(j) = Blamed(i) /\ report[j].error = report[i].error
    <2>1. Failing!Key(report[j]) = Failing!Key(report[i])
      BY DEF Failing!Alike
    <2>2. Failing!Alike(report, j) = Failing!Alike(report, i)
      BY <2>1 DEF Failing!Alike
    <2>3. Blamed(j) = Blamed(i) /\ report[j].error = report[i].error
      BY <2>1 DEF Failing!Key, Blamed, Failing!FileOf
    <2> QED BY <2>2, <2>3 DEF Size, Failing!SizeAt
  <1>3. ASSUME NEW i \in DOMAIN report
        PROVE  \E j \in Failing!Alike(report, i) : j \in Firsts
    <2> DEFINE A == Failing!Alike(report, i)
    <2>1. A \in SUBSET DOMAIN report
      BY DEF Failing!Alike
    <2>2. A \in SUBSET Int /\ IsFiniteSet(A) /\ A # {}
      BY <1>1, <2>1, ReportFinite
    <2>3. PICK j \in A : \A k \in A : j =< k
      BY <2>2, HasLeast
    <2>4. j \in DOMAIN report /\ Failing!Alike(report, j) = A
      BY <1>2, <2>1
    <2> QED BY <2>3, <2>4 DEF Firsts, Failing!Firsts
  <1> QED BY <1>1, <1>2, <1>3

\* Clusters are sorted by size, then by their first failures.
LEMMA AheadOrders ==
    ASSUME FailuresTyped, NEW S \in SUBSET DOMAIN report
    PROVE  Orders({p \in S \X S : Ahead(p[1], p[2])}, S)
  <1>1. \A i \in S : Size(i) \in Nat /\ i \in Nat
    BY Clusters, ReportFinite
  <1>2. \A x \in S : ~Ahead(x, x)
    BY <1>1 DEF Ahead
  <1>3. \A x, y \in S : x = y \/ Ahead(x, y) \/ Ahead(y, x)
    BY <1>1 DEF Ahead
  <1>4. \A x, y, z \in S : Ahead(x, y) /\ Ahead(y, z) => Ahead(x, z)
    BY <1>1 DEF Ahead
  <1> QED BY <1>2, <1>3, <1>4 DEF Orders

\* The leaders: one for each file that a failure implicates, of the largest
\* cluster in that file.
LEMMA Leaders ==
    ASSUME FailuresTyped
    PROVE  /\ Leading \in SUBSET DOMAIN report
           /\ \A i \in Leading : Blamed(i) \in Failing!Written
           /\ \A i, j \in Leading : Blamed(i) = Blamed(j) => i = j
           /\ \A a \in Failing!Written : Failing!Blaming(a) # {} =>
                 \E i \in Leading : Blamed(i) = a
           /\ \A i \in Leading, j \in DOMAIN report :
                 Blamed(j) = Blamed(i) => Size(j) =< Size(i)
  <1>1. Firsts \in SUBSET DOMAIN report
    BY DEF Firsts, Failing!Firsts
  <1>2. \A i : i \in Leading <=>
           /\ i \in Firsts /\ Blamed(i) # NoFile
           /\ \A j \in Firsts : Blamed(j) = Blamed(i) => ~Ahead(j, i)
    BY DEF Leading, Failing!Leading, Blamed, Firsts, Ahead, Failing!SortsBefore, Size
  <1>3. \A i \in DOMAIN report : Size(i) \in Nat /\ i \in Nat
    BY Clusters, ReportFinite
  <1>4. \A i, j \in Leading : Blamed(i) = Blamed(j) => i = j
    BY <1>1, <1>2, <1>3 DEF Ahead
  <1>5. ASSUME NEW a \in Failing!Written, Failing!Blaming(a) # {}
        PROVE  \E i \in Leading : Blamed(i) = a
    <2> DEFINE S == {i \in Firsts : Blamed(i) = a}
               R == {p \in S \X S : Ahead(p[1], p[2])}
    <2>1. PICK k \in DOMAIN report : Blamed(k) = a
      BY <1>5 DEF Failing!Blaming, Blamed
    <2>2. PICK j \in Failing!Alike(report, k) : j \in Firsts
      BY Clusters
    <2>3. j \in S
      BY <1>1, <2>1, <2>2, Clusters
    <2>4. S \in SUBSET DOMAIN report /\ IsFiniteSet(S)
      BY <1>1, ReportFinite
    <2>5. Orders(R, S)
      BY <2>4, AheadOrders
    <2>6. PICK i \in S : \A m \in S : m = i \/ <<i, m>> \in R
      <3> HIDE DEF S, R
      <3> QED BY <2>3, <2>4, <2>5, HasFirst
    <2>7. \A m \in S : ~Ahead(m, i)
      <3> SUFFICES ASSUME NEW m \in S PROVE ~Ahead(m, i)
        OBVIOUS
      <3>1. m = i \/ Ahead(i, m)
        BY <2>6
      <3>2. m \in DOMAIN report /\ i \in DOMAIN report
        BY <2>4
      <3> QED BY <3>1, <3>2, <1>3 DEF Ahead
    <2>8. i \in Firsts /\ Blamed(i) = a
      OBVIOUS
    <2>9. Blamed(i) # NoFile
      <3>1. a \in Sources
        BY ArtifactsAssumption DEF Failing!Written, Failing!ToSet
      <3> QED BY <2>8, <3>1, ArtifactsAssumption
    <2> QED BY <1>2, <2>7, <2>8, <2>9
  <1>6. ASSUME NEW i \in Leading, NEW j \in DOMAIN report, Blamed(j) = Blamed(i)
        PROVE  Size(j) =< Size(i)
    <2>1. PICK f \in Failing!Alike(report, j) : f \in Firsts
      BY Clusters
    <2>2. f \in DOMAIN report /\ Blamed(f) = Blamed(i) /\ Size(f) = Size(j)
      BY <2>1, <1>1, <1>6, Clusters
    <2>3. ~Ahead(f, i)
      BY <1>2, <2>1, <2>2
    <2>4. i \in DOMAIN report
      BY <1>1, <1>2
    <2> QED BY <1>3, <2>2, <2>3, <2>4 DEF Ahead
  <1>7. \A i \in Leading : Blamed(i) \in Failing!Written
    BY <1>1, <1>2, BlamedType
  <1> QED BY <1>1, <1>2, <1>4, <1>5, <1>6, <1>7

\* The leaders, in their order.
LEMMA LeadsSorted ==
    ASSUME FailuresTyped
    PROVE  LET leads == Failing!Leads(report)
           IN /\ leads \in [1 .. Cardinality(Leading) -> Leading]
              /\ \A x \in Leading : \E k \in DOMAIN leads : leads[k] = x
              /\ \A j, k \in DOMAIN leads : j < k => Ahead(leads[j], leads[k])
              /\ Cardinality(Leading) \in Nat
  <1> DEFINE S == Leading
             R == {p \in S \X S : Ahead(p[1], p[2])}
             Here(x, k) == Failing!Cardinality({y \in S : Ahead(y, x)}) = k - 1
             leads == Failing!Leads(report)
  <1>1. S \in SUBSET DOMAIN report /\ IsFiniteSet(S)
    BY Leaders, ReportFinite
  <1>2. Orders(R, S)
    BY <1>1, AheadOrders
  <1>3. \A x \in S : {y \in S : Ahead(y, x)} = Before(R, S, x)
    BY DEF Before
  <1>4. leads = [k \in 1 .. Failing!Cardinality(S) |-> CHOOSE x \in S : Here(x, k)]
    BY DEF Failing!Leads, Failing!Ranked, Ahead, Leading, Failing!SortsBefore, Size
  <1> HIDE DEF S, R, leads
  <1>5. ASSUME NEW k \in 1 .. Cardinality(S)
        PROVE  leads[k] \in S /\ Here(leads[k], k)
    <2>1. PICK x \in S : Cardinality(Before(R, S, x)) = k - 1
      BY <1>1, <1>2, EveryPlaceTaken
    <2>2. Here(x, k)
      BY <2>1, <1>3, FailingCardinality
    <2> QED BY <1>4, <2>2, FailingCardinality
  <1>6. leads \in [1 .. Cardinality(S) -> S]
    BY <1>4, <1>5, FailingCardinality
  <1>7. Placed(leads, R, S)
    BY <1>3, <1>5, <1>6, FailingCardinality DEF Placed
  <1>8. Sorts(leads, R, S)
    BY <1>1, <1>2, <1>7, PlacedSorts
  <1>9. Cardinality(S) \in Nat
    BY <1>1, FS_CardinalityType
  <1> QED BY <1>8, <1>9 DEF Sorts, R, S, leads

LEMMA FailuresInit == Failing!Init => FailuresInv
  BY DEF Failing!Init, FailuresInv, FailuresTyped, Failing!LargestCauseFirst, Failing!Localized

LEMMA FailuresByReport ==
    ASSUME FailuresInv, Failing!ByReport
    PROVE  FailuresInv'
  <1> DEFINE leads == Failing!Leads(report)
             n == Cardinality(Leading)
  <1>1. FailuresTyped /\ report' = report
    BY DEF FailuresInv, Failing!ByReport
  <1>2. /\ leads \in [1 .. n -> Leading] /\ n \in Nat
        /\ \A x \in Leading : \E k \in 1 .. n : leads[k] = x
        /\ \A j, k \in 1 .. n : j < k => Ahead(leads[j], leads[k])
    BY <1>1, LeadsSorted
  <1>3. \A i \in DOMAIN report : Size(i) \in Nat /\ i \in Nat
    BY <1>1, Clusters, ReportFinite
  <1>4. todo' = [k \in 1 .. n |-> Blamed(leads[k])]
    BY <1>2 DEF Failing!ByReport, Blamed
  <1>5. /\ DOMAIN excerpt' = {Blamed(i) : i \in Leading}
        /\ \A i \in Leading : excerpt'[Blamed(i)] = Failing!Alike(report, i)
    <2>1. excerpt' = [a \in {Blamed(i) : i \in Leading} |->
                         Failing!Alike(report, CHOOSE i \in Leading : Blamed(i) = a)]
      BY DEF Failing!ByReport, Blamed, Leading
    <2>2. ASSUME NEW i \in Leading PROVE (CHOOSE j \in Leading : Blamed(j) = Blamed(i)) = i
      BY <1>1, Leaders
    <2> QED BY <2>1, <2>2
  <1>6. Failing!IsInjective(todo')
    <2> SUFFICES ASSUME NEW j \in 1 .. n, NEW k \in 1 .. n, Blamed(leads[j]) = Blamed(leads[k])
                 PROVE  j = k
      BY <1>4 DEF Failing!IsInjective
    <2>1. leads[j] = leads[k] /\ leads[j] \in Leading /\ leads[j] \in DOMAIN report
      BY <1>1, <1>2, Leaders
    <2>2. ~Ahead(leads[j], leads[j])
      BY <1>3, <2>1 DEF Ahead
    <2> QED BY <1>2, <2>1, <2>2
  <1>7. Failing!ToSet(todo') = {Blamed(i) : i \in Leading}
    BY <1>2, <1>4 DEF Failing!ToSet
  <1>8. {Blamed(i) : i \in Leading} = {a \in Failing!Written : Failing!Blaming(a) # {}}
    BY <1>1, Leaders DEF Failing!Blaming, Blamed
  <1>9. ASSUME NEW i \in Leading
        PROVE  /\ excerpt'[Blamed(i)] \subseteq Failing!Blaming(Blamed(i))
               /\ \A j, k \in excerpt'[Blamed(i)] : report[j].error = report[k].error
               /\ \A j \in Failing!Blaming(Blamed(i)) :
                     Size(j) =< Failing!Cardinality(excerpt'[Blamed(i)])
               /\ Failing!Cardinality(excerpt'[Blamed(i)]) =< Failing!Cardinality(excerpt'[Head(todo')])
    <2>1. i \in DOMAIN report /\ excerpt'[Blamed(i)] = Failing!Alike(report, i)
      BY <1>1, <1>5, Leaders
    <2>2. \A j \in Failing!Alike(report, i) :
              j \in DOMAIN report /\ Blamed(j) = Blamed(i) /\ report[j].error = report[i].error
      <3>1. Failing!Alike(report, i) \subseteq DOMAIN report
        BY DEF Failing!Alike
      <3> QED BY <1>1, <2>1, <3>1, Clusters
    <2>3. Failing!Alike(report, i) \subseteq Failing!Blaming(Blamed(i))
      BY <2>2 DEF Failing!Blaming, Blamed
    <2>4. Failing!Cardinality(Failing!Alike(report, i)) = Size(i)
      BY DEF Size, Failing!SizeAt
    <2>5. \A j \in Failing!Blaming(Blamed(i)) : Size(j) =< Size(i)
      BY <1>1, Leaders DEF Failing!Blaming, Blamed
    <2>6. PICK k \in 1 .. n : leads[k] = i
      BY <1>2
    <2>7. 1 \in 1 .. n /\ leads[1] \in Leading /\ Head(todo') = Blamed(leads[1])
      BY <1>2, <1>4, <2>6
    <2>8. Failing!Cardinality(excerpt'[Head(todo')]) = Size(leads[1])
      BY <1>5, <2>7 DEF Size, Failing!SizeAt
    <2>9. Size(i) =< Size(leads[1])
      <3>1. Size(i) \in Nat /\ leads[1] \in DOMAIN report
        BY <1>1, <1>3, <2>1, <2>7, Leaders
      <3>2. CASE k = 1
        BY <3>1, <3>2, <2>6
      <3>3. CASE k # 1
        <4>1. Ahead(leads[1], i)
          BY <3>3, <1>2, <2>6, <2>7
        <4> QED BY <4>1, <3>1, <1>3 DEF Ahead
      <3> QED BY <3>2, <3>3
    <2> QED BY <2>1, <2>2, <2>3, <2>4, <2>5, <2>8, <2>9
  <1>10. Failing!LargestCauseFirst'
    <2>1. \A a : Failing!Blaming(a)' = Failing!Blaming(a)
      BY <1>1 DEF Failing!Blaming, Failing!FileOf
    <2>2. \A j : Failing!SizeAt(report, j)' = Size(j)
      BY <1>1 DEF Size
    <2>3. Failing!ToSet(todo') \subseteq Failing!Written
      BY <1>7, <1>8
    <2>4. ASSUME NEW a \in Failing!ToSet(todo')
          PROVE  /\ excerpt'[a] \subseteq Failing!Blaming(a)
                 /\ \A j, k \in excerpt'[a] : report'[j].error = report'[k].error
                 /\ \A j \in Failing!Blaming(a) : Size(j) =< Failing!Cardinality(excerpt'[a])
                 /\ Failing!Cardinality(excerpt'[a]) =< Failing!Cardinality(excerpt'[Head(todo')])
      <3>1. PICK i \in Leading : a = Blamed(i)
        BY <1>7
      <3> QED BY <1>1, <1>9, <3>1
    <2> QED BY <1>6, <1>7, <1>8, <2>1, <2>2, <2>3, <2>4 DEF Failing!LargestCauseFirst
  <1>11. FailuresTyped'
    BY <1>1, <1>2, <1>4 DEF FailuresTyped
  <1> QED BY <1>10, <1>11 DEF FailuresInv

\* Without a failure to go by, all the artifacts or those the output names.
LEMMA FailuresByOutput ==
    ASSUME FailuresInv, Failing!ByOutput
    PROVE  FailuresInv'
  <1> DEFINE places == {i \in DOMAIN Artifacts :
                 \E s \in output : BasenameOf[Artifacts[i]] \in NamesIn[s]}
             named == Failing!At(Artifacts, places)
  <1>1. FailuresTyped /\ report' = report /\ Leading = {}
    BY DEF FailuresInv, Failing!ByOutput, Leading
  <1>2. \A a \in Failing!Written : Failing!Blaming(a) = {}
    BY <1>1, Leaders
  <1>3. Artifacts \in Seq(Sources)
    BY ArtifactsAssumption
  <1>4. places \in SUBSET Int /\ IsFiniteSet(places)
    <2>1. DOMAIN Artifacts = 1 .. Len(Artifacts) /\ Len(Artifacts) \in Nat
      BY <1>3
    <2>2. IsFiniteSet(DOMAIN Artifacts) /\ places \in SUBSET DOMAIN Artifacts
      BY <2>1, FS_Interval
    <2>3. IsFiniteSet(places)
      BY <2>2, FS_Subset
    <2> QED BY <2>1, <2>2, <2>3
  <1>5. PICK m \in Nat : \E s \in [1 .. m -> places] : Upwards(s, m, places)
    <2> HIDE DEF places
    <2> QED BY <1>4, UpwardsExists
  <1>6. PICK s \in [1 .. m -> places] : Upwards(s, m, places)
    BY <1>5
  <1>7. named = [k \in 1 .. m |-> Artifacts[s[k]]]
    <2> HIDE DEF places
    <2>1. At(Artifacts, places) = [k \in 1 .. m |-> Artifacts[s[k]]]
      BY <1>4, <1>6, AtUpwards
    <2> QED BY <2>1 DEF Failing!At, At, Failing!Ranked, Ranked, Failing!Cardinality, Cardinality
  <1>8. todo' = IF named = <<>> THEN Artifacts ELSE named
    BY DEF Failing!ByOutput, Failing!Fallback
  <1>9. ASSUME Failing!IsInjective(Artifacts) PROVE Failing!IsInjective(named)
    <2>1. ASSUME NEW j \in 1 .. m, NEW k \in 1 .. m, Artifacts[s[j]] = Artifacts[s[k]]
          PROVE  j = k
      <3>1. s[j] \in DOMAIN Artifacts /\ s[k] \in DOMAIN Artifacts /\ s[j] \in Int
        BY <1>4
      <3>2. s[j] = s[k]
        BY <1>9, <2>1, <3>1 DEF Failing!IsInjective
      <3> HIDE DEF places
      <3>3. ~(j < k) /\ ~(k < j)
        BY <3>1, <3>2, <1>6 DEF Upwards
      <3> QED BY <3>3
    <2> HIDE DEF named, places
    <2> QED BY <1>7, <2>1 DEF Failing!IsInjective
  <1>10. Failing!ToSet(named) \subseteq Failing!Written
    <2>1. \A k \in 1 .. m : Artifacts[s[k]] \in Failing!Written
      BY DEF Failing!Written, Failing!ToSet
    <2> HIDE DEF named, places
    <2> QED BY <1>7, <2>1 DEF Failing!ToSet
  <1> HIDE DEF named
  <1>11. /\ Failing!IsInjective(Artifacts) => Failing!IsInjective(todo')
         /\ Failing!ToSet(todo') \subseteq Failing!Written /\ DOMAIN todo' \subseteq Nat
    BY <1>3, <1>7, <1>8, <1>9, <1>10 DEF Failing!Written
  <1>12. Failing!LargestCauseFirst'
    BY <1>1, <1>2, <1>11 DEF Failing!LargestCauseFirst, Failing!Blaming, Failing!FileOf
  <1> QED BY <1>1, <1>11, <1>12 DEF FailuresInv, FailuresTyped

LEMMA FailuresNext == FailuresInv /\ [Failing!Next]_failures => FailuresInv'
  <1> SUFFICES ASSUME FailuresInv, [Failing!Next]_failures PROVE FailuresInv'
    OBVIOUS
  <1>1. CASE Failing!ByReport
    BY <1>1, FailuresByReport
  <1>2. CASE Failing!ByOutput
    BY <1>2, FailuresByOutput
  <1>3. CASE UNCHANGED failures
    BY <1>3 DEF failures, FailuresInv, FailuresTyped, Failing!LargestCauseFirst, Failing!Localized,
                Failing!Blaming, Failing!FileOf
  <1> QED BY <1>1, <1>2, <1>3 DEF Failing!Next

-----------------------------------------------------------------------------
(***************************************************************************)
(* The task's binding facts.                                               *)
(***************************************************************************)
\* The lines of the domain-knowledge file.
Lines ==
    {Contract!Marker, Contract!Closer, Contract!Mention}
    \cup {Contract!Fact(i) : i \in Int} \cup {Contract!Added(i) : i \in Int}

LEMMA AppendLast ==
    \A a, b \in Seq(Lines) : \A x \in Lines : Append(a \o b, x) = a \o Append(b, x)
  <1> HIDE DEF Lines
  <1> QED OBVIOUS

HasMarker(text) == \E i \in DOMAIN text : text[i] = Contract!Marker

\* The places whose lines are in a section, or in none.
Inside(text, inside) ==
    {i \in DOMAIN text :
        text[i] \notin {Contract!Marker, Contract!Closer} /\ Contract!Opened(text, i) = inside}

LEMMA ContentsAre ==
    \A text, inside : Contract!Contents(text, inside) = At(text, Inside(text, inside))
  BY DEF Contract!Contents, Inside, Contract!At, At, Contract!Ranked, Ranked,
         Contract!Cardinality, Cardinality

LEMMA InsideType ==
    ASSUME NEW text \in Seq(Lines), NEW inside
    PROVE  /\ Inside(text, inside) \in SUBSET Int /\ IsFiniteSet(Inside(text, inside))
           /\ Inside(text, inside) \subseteq 1 .. Len(text)
           /\ Contract!Contents(text, inside) \in Seq(Lines)
  <1>1. DOMAIN text = 1 .. Len(text) /\ Len(text) \in Nat
    OBVIOUS
  <1>2. Inside(text, inside) \in SUBSET (1 .. Len(text))
    BY <1>1 DEF Inside
  <1>3. IsFiniteSet(1 .. Len(text))
    BY <1>1, FS_Interval
  <1>4. IsFiniteSet(Inside(text, inside))
    BY <1>2, <1>3, FS_Subset
  <1>5. \A i \in Inside(text, inside) : text[i] \in Lines
    BY <1>1, <1>2
  <1>6. Inside(text, inside) \in SUBSET Int
    BY <1>2
  <1>7. Contract!Contents(text, inside) \in Seq(Lines)
    BY <1>4, <1>5, <1>6, AtSeq, ContentsAre
  <1> QED BY <1>2, <1>4, <1>6, <1>7

\* Without a marker nothing is in a section.
LEMMA NoSection ==
    ASSUME NEW text \in Seq(Lines), ~HasMarker(text)
    PROVE  /\ \A i \in 1 .. Len(text) + 1 : ~Contract!Opened(text, i)
           /\ Contract!ContractOf(text) = <<>>
           /\ Contract!InsertAt(text) = 0
  <1>1. \A i \in 1 .. Len(text) + 1 : ~Contract!Opened(text, i)
    BY DEF HasMarker, Contract!Opened
  <1>2. Inside(text, TRUE) = {}
    BY <1>1 DEF Inside
  <1>3. Contract!Contents(text, TRUE) = <<>>
    BY <1>2, AtNone, ContentsAre
  <1>4. Contract!InsertAt(text) = 0
    BY <1>1 DEF Contract!InsertAt
  <1> QED BY <1>1, <1>3, <1>4 DEF Contract!ContractOf

\* An open section ends somewhere.
Ends(text) ==
    {i \in 1 .. Len(text) + 1 :
        (i = Len(text) + 1 \/ text[i] = Contract!Closer) /\ Contract!Opened(text, i)}

LEMMA SectionEnds ==
    ASSUME NEW text \in Seq(Lines), NEW i \in 1 .. Len(text) + 1, Contract!Opened(text, i)
    PROVE  \E k \in Ends(text) : i =< k
  <1> DEFINE K == {k \in 1 .. Len(text) + 1 :
                      i =< k /\ (k = Len(text) + 1 \/ text[k] = Contract!Closer)}
  <1>1. Len(text) \in Nat /\ IsFiniteSet(1 .. Len(text) + 1)
    BY FS_Interval
  <1>2. Len(text) + 1 \in K /\ K \in SUBSET (1 .. Len(text) + 1)
    BY <1>1
  <1>3. IsFiniteSet(K)
    BY <1>1, <1>2, FS_Subset
  <1>4. K \in SUBSET Int /\ K # {}
    BY <1>2
  <1>5. PICK k \in K : \A l \in K : k =< l
    <2> HIDE DEF K
    <2> QED BY <1>3, <1>4, HasLeast
  <1>6. PICK j \in 1 .. i - 1 : /\ text[j] = Contract!Marker
                                /\ \A l \in j + 1 .. i - 1 : text[l] # Contract!Closer
    BY DEF Contract!Opened
  <1>7. \A l \in i .. k - 1 : text[l] # Contract!Closer
    <2> SUFFICES ASSUME NEW l \in i .. k - 1, text[l] = Contract!Closer PROVE FALSE
      OBVIOUS
    <2>1. l \in K
      BY <1>1
    <2> QED BY <1>5, <2>1, <1>1
  <1>8. j \in 1 .. k - 1 /\ \A l \in j + 1 .. k - 1 : text[l] # Contract!Closer
    BY <1>1, <1>6, <1>7
  <1>9. Contract!Opened(text, k)
    BY <1>6, <1>8 DEF Contract!Opened
  <1> QED BY <1>9 DEF Ends

\* With a marker there is a last section, and InsertAt is its end.
LEMMA LastSection ==
    ASSUME NEW text \in Seq(Lines), HasMarker(text)
    PROVE  /\ Contract!InsertAt(text) \in 1 .. Len(text) + 1
           /\ Contract!Opened(text, Contract!InsertAt(text))
           /\ \/ Contract!InsertAt(text) = Len(text) + 1
              \/ text[Contract!InsertAt(text)] = Contract!Closer
           /\ \A i \in 1 .. Len(text) + 1 :
                 Contract!InsertAt(text) < i => ~Contract!Opened(text, i)
  <1>1. PICK j \in 1 .. Len(text) : text[j] = Contract!Marker
    BY DEF HasMarker
  <1>2. Len(text) \in Nat /\ IsFiniteSet(1 .. Len(text) + 1)
    BY FS_Interval
  <1>3. j + 1 \in 1 .. Len(text) + 1 /\ Contract!Opened(text, j + 1)
    BY <1>1, <1>2 DEF Contract!Opened
  <1>4. Ends(text) # {} /\ Ends(text) \in SUBSET (1 .. Len(text) + 1)
    BY <1>3, SectionEnds DEF Ends
  <1>5. Ends(text) \in SUBSET Int /\ IsFiniteSet(Ends(text))
    BY <1>2, <1>4, FS_Subset
  <1>6. \E k \in Ends(text) : \A l \in Ends(text) : l =< k
    BY <1>4, <1>5, HasGreatest
  <1>7. Contract!InsertAt(text) = CHOOSE k \in Ends(text) : \A l \in Ends(text) : l =< k
    BY <1>4 DEF Contract!InsertAt, Ends
  <1>8. /\ Contract!InsertAt(text) \in Ends(text)
        /\ \A l \in Ends(text) : l =< Contract!InsertAt(text)
    BY <1>6, <1>7
  <1>9. ASSUME NEW i \in 1 .. Len(text) + 1, Contract!InsertAt(text) < i
        PROVE  ~Contract!Opened(text, i)
    <2> SUFFICES ASSUME Contract!Opened(text, i) PROVE FALSE
      OBVIOUS
    <2>1. PICK k \in Ends(text) : i =< k
      BY SectionEnds
    <2>2. k \in Int /\ Contract!InsertAt(text) \in Int /\ k =< Contract!InsertAt(text)
      BY <1>5, <1>8
    <2> QED BY <1>9, <2>1, <2>2
  <1> QED BY <1>8, <1>9 DEF Ends

\* What is recorded goes to the end of the last section, and nothing else moves
\* between the sections and the context.
LEMMA RecordedInSection ==
    ASSUME NEW text \in Seq(Lines), HasMarker(text), NEW line \in Lines,
           line \notin {Contract!Marker, Contract!Closer, Contract!Mention}
    PROVE  LET new == Contract!AppendBlock(text, line)
           IN /\ new \in Seq(Lines) /\ HasMarker(new)
              /\ Contract!ContractOf(new) = Append(Contract!ContractOf(text), line)
              /\ Contract!ContextOf(new) = Contract!ContextOf(text)
  <1> DEFINE at == Contract!InsertAt(text)
             n == Len(text)
             new == Contract!AppendBlock(text, line)
             moved == [i \in 1 .. n |-> IF i < at THEN i ELSE i + 1]
  <1>1. /\ n \in Nat /\ DOMAIN text = 1 .. n
        /\ at \in 1 .. n + 1 /\ Contract!Opened(text, at)
        /\ at = n + 1 \/ text[at] = Contract!Closer
        /\ \A i \in 1 .. n + 1 : at < i => ~Contract!Opened(text, i)
    BY LastSection
  <1>2. /\ new \in Seq(Lines) /\ DOMAIN new = 1 .. n + 1
        /\ \A i \in 1 .. n + 1 :
              new[i] = IF i < at THEN text[i] ELSE IF i = at THEN line ELSE text[i - 1]
    <2>1. new = SubSeq(text, 1, at - 1) \o <<line>> \o SubSeq(text, at, n)
      <3>1. at # 0
        BY <1>1
      <3> QED BY <3>1, Zenon DEF Contract!AppendBlock
    <2>2. /\ SubSeq(text, 1, at - 1) \in Seq(Lines) /\ Len(SubSeq(text, 1, at - 1)) = at - 1
          /\ \A i \in 1 .. at - 1 : SubSeq(text, 1, at - 1)[i] = text[i]
      BY <1>1
    <2>3. /\ SubSeq(text, at, n) \in Seq(Lines) /\ Len(SubSeq(text, at, n)) = n + 1 - at
          /\ \A i \in 1 .. n + 1 - at : SubSeq(text, at, n)[i] = text[at + i - 1]
      BY <1>1
    <2> DEFINE a == SubSeq(text, 1, at - 1)
               b == SubSeq(text, at, n)
    <2> HIDE DEF new, at, n, a, b
    <2>4. /\ a \o <<line>> \in Seq(Lines) /\ Len(a \o <<line>>) = at
          /\ \A i \in 1 .. at : (a \o <<line>>)[i] = IF i < at THEN text[i] ELSE line
      BY <1>1, <2>2 DEF a
    <2>5. /\ new \in Seq(Lines) /\ Len(new) = n + 1
          /\ \A i \in 1 .. n + 1 :
                new[i] = IF i =< at THEN (a \o <<line>>)[i] ELSE b[i - at]
      BY <1>1, <2>1, <2>3, <2>4 DEF a, b
    <2> QED BY <1>1, <2>3, <2>4, <2>5 DEF b
  <1> HIDE DEF new, at
  <1>3. /\ \A i \in 1 .. n : moved[i] \in 1 .. n + 1 /\ moved[i] # at /\ new[moved[i]] = text[i]
        /\ \A i \in 1 .. n + 1 : i # at => \E j \in 1 .. n : moved[j] = i
        /\ \A i, j \in 1 .. n : i < j => moved[i] < moved[j]
    <2>1. \A i \in 1 .. n : moved[i] \in 1 .. n + 1 /\ moved[i] # at /\ new[moved[i]] = text[i]
      BY <1>1, <1>2
    <2>2. ASSUME NEW i \in 1 .. n + 1, i # at PROVE \E j \in 1 .. n : moved[j] = i
      <3>1. CASE i < at
        <4>1. i \in 1 .. n /\ moved[i] = i
          BY <1>1, <3>1
        <4> QED BY <4>1
      <3>2. CASE at < i
        <4>1. i - 1 \in 1 .. n /\ moved[i - 1] = i
          BY <1>1, <3>2
        <4> QED BY <4>1
      <3> QED BY <1>1, <2>2, <3>1, <3>2
    <2>3. \A i, j \in 1 .. n : i < j => moved[i] < moved[j]
      BY <1>1
    <2> QED BY <2>1, <2>2, <2>3
  <1>4. \A i \in 1 .. at : Contract!Opened(new, i) = Contract!Opened(text, i)
    BY <1>1, <1>2 DEF Contract!Opened
  <1>5. ASSUME NEW i \in at .. n PROVE Contract!Opened(new, i + 1) = Contract!Opened(text, i)
    <2>1. ASSUME Contract!Opened(text, i) PROVE Contract!Opened(new, i + 1)
      <3>1. PICK j \in 1 .. i - 1 : /\ text[j] = Contract!Marker
                                    /\ \A k \in j + 1 .. i - 1 : text[k] # Contract!Closer
        BY <2>1 DEF Contract!Opened
      <3>2. moved[j] \in 1 .. i /\ new[moved[j]] = Contract!Marker
        BY <1>1, <1>3, <3>1
      <3>3. ASSUME NEW k \in moved[j] + 1 .. i PROVE new[k] # Contract!Closer
        <4>1. moved[j] \in Int /\ moved[j] = IF j < at THEN j ELSE j + 1
          BY <1>1, <3>1
        <4> HIDE DEF moved
        <4>2. CASE k = at
          BY <1>1, <1>2, <4>2
        <4>3. CASE k < at
          <5>1. k \in j + 1 .. i - 1
            BY <1>1, <3>1, <3>3, <4>1, <4>3
          <5>2. new[k] = text[k]
            BY <1>1, <1>2, <3>1, <4>3, <5>1
          <5> QED BY <3>1, <5>1, <5>2
        <4>4. CASE at < k
          <5>1. k - 1 \in j + 1 .. i - 1
            BY <1>1, <3>1, <3>3, <4>1, <4>4
          <5>2. new[k] = text[k - 1]
            BY <1>1, <1>2, <3>1, <4>4, <5>1
          <5> QED BY <3>1, <5>1, <5>2
        <4>5. k \in Int
          BY <3>3, <4>1
        <4> QED BY <1>1, <4>2, <4>3, <4>4, <4>5
      <3>4. \E l \in 1 .. (i + 1) - 1 :
               /\ new[l] = Contract!Marker
               /\ \A k \in l + 1 .. (i + 1) - 1 : new[k] # Contract!Closer
        <4>1. (i + 1) - 1 = i
          BY <1>1
        <4> HIDE DEF moved
        <4> QED BY <3>2, <3>3, <4>1
      <3> QED BY <3>4 DEF Contract!Opened
    <2>2. ASSUME Contract!Opened(new, i + 1) PROVE Contract!Opened(text, i)
      <3>1. PICK j \in 1 .. i : /\ new[j] = Contract!Marker
                                /\ \A k \in j + 1 .. i : new[k] # Contract!Closer
        BY <2>2, <1>1 DEF Contract!Opened
      <3>2. j # at /\ j \in 1 .. n + 1
        BY <1>1, <1>2, <3>1
      <3>3. PICK p \in 1 .. n : moved[p] = j
        BY <1>3, <3>2
      <3>4. p \in 1 .. i - 1 /\ text[p] = Contract!Marker
        BY <1>1, <1>3, <3>1, <3>3
      <3>5. ASSUME NEW k \in p + 1 .. i - 1 PROVE text[k] # Contract!Closer
        <4>1. k \in 1 .. n /\ moved[k] \in j + 1 .. i
          BY <1>1, <3>3, <3>4
        <4> QED BY <4>1, <3>1, <1>3
      <3> QED BY <3>4, <3>5 DEF Contract!Opened
    <2> QED BY <2>1, <2>2 DEF Contract!Opened
  <1>6. \A i \in 1 .. n : Contract!Opened(new, moved[i]) = Contract!Opened(text, i)
    BY <1>1, <1>4, <1>5
  <1>7. Contract!Contents(new, FALSE) = Contract!Contents(text, FALSE)
    <2> DEFINE S == Inside(text, FALSE)
               T == Inside(new, FALSE)
               f == [i \in S |-> moved[i]]
    <2>1. S \in SUBSET Int /\ IsFiniteSet(S) /\ T \in SUBSET Int /\ S \subseteq 1 .. n
      BY <1>2, InsideType
    <2>2. ASSUME NEW i \in S PROVE moved[i] \in T
      <3>1. i \in 1 .. n /\ text[i] \notin {Contract!Marker, Contract!Closer} /\ ~Contract!Opened(text, i)
        BY <1>1 DEF Inside
      <3>2. moved[i] \in 1 .. n + 1 /\ new[moved[i]] = text[i] /\ ~Contract!Opened(new, moved[i])
        BY <1>3, <1>6, <3>1
      <3> QED BY <3>1, <3>2, <1>2 DEF Inside, Contract!Opened
    <2>3. ASSUME NEW j \in T PROVE \E i \in S : moved[i] = j
      <3>1. /\ j \in 1 .. n + 1 /\ new[j] \notin {Contract!Marker, Contract!Closer}
            /\ ~Contract!Opened(new, j)
        BY <1>2 DEF Inside
      <3>2. j # at
        BY <1>1, <1>4, <3>1
      <3>3. PICK i \in 1 .. n : moved[i] = j
        BY <1>3, <3>1, <3>2
      <3>4. text[i] = new[j] /\ ~Contract!Opened(text, i)
        BY <1>3, <1>6, <3>1, <3>3
      <3>5. i \in S
        BY <1>1, <3>1, <3>4 DEF Inside, Contract!Opened
      <3> QED BY <3>3, <3>5
    <2> HIDE DEF S, T, moved
    <2>4. f \in [S -> T]
      BY <2>2
    <2>5. \A y \in T : \E x \in S : f[x] = y
      BY <2>3
    <2>6. \A x, y \in S : x < y => f[x] < f[y]
      BY <2>1, <1>3
    <2>7. \A x \in S : new[f[x]] = text[x]
      BY <2>1, <1>3
    <2> HIDE DEF f
    <2>8. At(new, T) = At(text, S)
      BY <2>1, <2>4, <2>5, <2>6, <2>7, AtMoved
    <2> QED BY <2>8, ContentsAre DEF S, T
  <1>8. Contract!Contents(new, TRUE) = Append(Contract!Contents(text, TRUE), line)
    <2> DEFINE S == Inside(text, TRUE)
    <2>1. S \in SUBSET Int /\ IsFiniteSet(S) /\ S \subseteq 1 .. n
      BY <1>2, InsideType
    <2>2. ASSUME NEW i \in S PROVE i < at
      <3>1. i \in 1 .. n /\ text[i] # Contract!Closer /\ Contract!Opened(text, i)
        BY <1>1 DEF Inside
      <3> QED BY <1>1, <3>1
    <2>3. Inside(new, TRUE) = S \cup {at}
      <3>1. ASSUME NEW j \in S \cup {at} PROVE j \in Inside(new, TRUE)
        <4>1. CASE j = at
          BY <4>1, <1>1, <1>2, <1>4 DEF Inside, Contract!Opened
        <4>2. CASE j \in S
          <5>1. j \in 1 .. n /\ text[j] \notin {Contract!Marker, Contract!Closer} /\ Contract!Opened(text, j)
            BY <1>1, <4>2 DEF Inside
          <5>2. j < at /\ new[j] = text[j] /\ Contract!Opened(new, j)
            BY <1>1, <1>2, <1>4, <2>2, <4>2, <5>1
          <5> QED BY <5>1, <5>2, <1>1, <1>2 DEF Inside, Contract!Opened
        <4> QED BY <3>1, <4>1, <4>2
      <3>2. ASSUME NEW j \in Inside(new, TRUE), j # at PROVE j \in S
        <4>1. /\ j \in 1 .. n + 1 /\ new[j] \notin {Contract!Marker, Contract!Closer}
              /\ Contract!Opened(new, j)
          BY <1>2 DEF Inside
        <4>2. PICK i \in 1 .. n : moved[i] = j
          BY <1>3, <4>1, <3>2
        <4>3. text[i] = new[j] /\ Contract!Opened(text, i)
          BY <1>3, <1>6, <4>1, <4>2
        <4>4. i \in S
          BY <1>1, <4>1, <4>3 DEF Inside, Contract!Opened
        <4>5. i < at
          BY <2>2, <4>4
        <4> QED BY <4>2, <4>4, <4>5
      <3> QED BY <3>1, <3>2
    <2> HIDE DEF S, moved
    <2>4. At(new, S \cup {at}) = Append(At(new, S), new[at])
      <3>1. at \in Int /\ \A x \in S : x < at
        BY <1>1, <2>2
      <3> QED BY <2>1, <3>1, AtOneMore
    <2>6. \A x \in S : new[x] = text[x]
      BY <1>1, <1>2, <2>1, <2>2
    <2>7. At(new, S) = At(text, S)
      BY <2>1, <2>6, AtSame
    <2>8. new[at] = line
      BY <1>1, <1>2
    <2> QED BY <2>3, <2>4, <2>7, <2>8, ContentsAre DEF S
  <1>9. HasMarker(new)
    BY <1>1, <1>2, <1>3 DEF HasMarker
  <1>10. Contract!Marked(text) /\ Contract!Marked(new)
    BY <1>9 DEF HasMarker, Contract!Marked
  <1> QED BY <1>2, <1>7, <1>8, <1>9, <1>10 DEF new, Contract!ContractOf, Contract!ContextOf

\* Or to the end of a file that has no section.
LEMMA RecordedAtEnd ==
    ASSUME NEW text \in Seq(Lines), ~HasMarker(text), NEW line \in Lines,
           line \notin {Contract!Marker, Contract!Closer, Contract!Mention}
    PROVE  LET new == Contract!AppendBlock(text, line)
           IN /\ new \in Seq(Lines) /\ ~HasMarker(new)
              /\ Contract!ContextOf(new) = Append(Contract!ContextOf(text), line)
  <1> DEFINE new == Append(text, line)
             n == Len(text)
             S == Inside(text, FALSE)
  <1>1. Contract!AppendBlock(text, line) = new
    BY NoSection DEF Contract!AppendBlock
  <1>2. /\ n \in Nat /\ DOMAIN text = 1 .. n /\ DOMAIN new = 1 .. n + 1
        /\ new \in Seq(Lines) /\ Len(new) = n + 1
        /\ \A i \in 1 .. n : new[i] = text[i]
        /\ new[n + 1] = line
    OBVIOUS
  <1> HIDE DEF new
  <1>3. ~HasMarker(new)
    BY <1>2 DEF HasMarker
  <1>4. Contract!Marked(new) = Contract!Marked(text)
    BY <1>2 DEF Contract!Marked
  <1>5. /\ \A i \in 1 .. n + 1 : ~Contract!Opened(text, i)
        /\ \A i \in 1 .. n + 1 : ~Contract!Opened(new, i)
    BY <1>2, <1>3, NoSection
  <1>6. Inside(new, FALSE) = S \cup {n + 1}
    BY <1>2, <1>5 DEF Inside
  <1>7. S \in SUBSET Int /\ IsFiniteSet(S) /\ S \subseteq 1 .. n
    BY <1>2, InsideType
  <1> HIDE DEF S
  <1>8. At(new, S \cup {n + 1}) = Append(At(new, S), new[n + 1])
    <2>1. n + 1 \in Int /\ \A x \in S : x < n + 1
      BY <1>2, <1>7
    <2> QED BY <1>7, <2>1, AtOneMore
  <1>9. \A x \in S : new[x] = text[x]
    BY <1>2, <1>7
  <1>10. At(new, S) = At(text, S)
    BY <1>7, <1>9, AtSame
  <1>11. Contract!Contents(new, FALSE) = Append(Contract!Contents(text, FALSE), line)
    BY <1>2, <1>6, <1>8, <1>10, ContentsAre DEF S
  <1>12. Contract!ContextOf(new) = Append(Contract!ContextOf(text), line)
    BY <1>4, <1>11 DEF Contract!ContextOf, new
  <1> QED BY <1>1, <1>2, <1>3, <1>12

-----------------------------------------------------------------------------
\* The file as far as it has come: what was given, and what was recorded since.
InputAsRecorded ==
    /\ given \in Seq(Lines) /\ input \in Seq(Lines) /\ facts \in Nat
    /\ HasMarker(input) <=> Contract!Sectioned
    /\ Contract!ContractOf(input) =
          IF Contract!Sectioned THEN Contract!ContractOf(given) \o Contract!Recorded ELSE <<>>
    /\ Contract!ContextOf(input) =
          Contract!ContextOf(given) \o (IF Contract!Sectioned THEN <<>> ELSE Contract!Recorded)

ContractInv == InputAsRecorded /\ Contract!PinnedReachesPhases

LEMMA ContextType ==
    ASSUME NEW text \in Seq(Lines)
    PROVE  Contract!ContractOf(text) \in Seq(Lines) /\ Contract!ContextOf(text) \in Seq(Lines)
  <1>1. Contract!Contents(text, TRUE) \in Seq(Lines) /\ Contract!Contents(text, FALSE) \in Seq(Lines)
    BY InsideType
  <1>2. <<>> \in Seq(Lines)
    OBVIOUS
  <1> QED BY <1>1, <1>2, Zenon DEF Contract!ContractOf, Contract!ContextOf

LEMMA ContractInit == Contract!Init => ContractInv
  <1> SUFFICES ASSUME Contract!Init PROVE ContractInv
    OBVIOUS
  <1>1. given \in Seq(Lines) /\ input = given /\ facts = 0
    <2>1. PICK n \in 0 .. MaxLines : given \in Contract!Given(n)
      BY DEF Contract!Init
    <2>2. given \in [1 .. n -> Lines]
      BY <2>1 DEF Contract!Given, Lines
    <2> QED BY <2>2 DEF Contract!Init
  <1>2. Contract!Recorded = <<>>
    BY <1>1 DEF Contract!Recorded
  <1>3. HasMarker(input) <=> Contract!Sectioned
    BY <1>1 DEF HasMarker, Contract!Sectioned
  <1>4. Contract!ContractOf(given) \in Seq(Lines) /\ Contract!ContextOf(given) \in Seq(Lines)
    BY <1>1, ContextType
  <1>5. ~Contract!Sectioned => Contract!ContractOf(given) = <<>>
    BY <1>1, <1>3, NoSection
  <1>6. Contract!PinnedReachesPhases
    BY DEF Contract!Init, Contract!PinnedReachesPhases
  <1> QED BY <1>1, <1>2, <1>3, <1>4, <1>5, <1>6 DEF ContractInv, InputAsRecorded

\* What is recorded is pinned if the file has a section, and else is context.
LEMMA ContractRecord ==
    ASSUME ContractInv, Contract!Record, given' = given
    PROVE  InputAsRecorded'
  <1> DEFINE line == Contract!Added(facts + 1)
             a == Contract!ContractOf(given)
             b == Contract!ContextOf(given)
             r == Contract!Recorded
  <1>1. /\ given \in Seq(Lines) /\ input \in Seq(Lines) /\ facts \in Nat
        /\ HasMarker(input) <=> Contract!Sectioned
        /\ Contract!ContractOf(input) = IF Contract!Sectioned THEN a \o r ELSE <<>>
        /\ Contract!ContextOf(input) = b \o (IF Contract!Sectioned THEN <<>> ELSE r)
    BY DEF ContractInv, InputAsRecorded
  <1>2. /\ input' = Contract!AppendBlock(input, line) /\ facts' = facts + 1
        /\ line \in Lines
        /\ line \notin {Contract!Marker, Contract!Closer, Contract!Mention}
    BY <1>1 DEF Contract!Record, Lines, Contract!Added, Contract!Marker, Contract!Closer,
                Contract!Mention
  <1>3. /\ Contract!Sectioned' = Contract!Sectioned
        /\ Contract!ContractOf(given)' = a /\ Contract!ContextOf(given)' = b
        /\ HasMarker(input)' = HasMarker(input')
        /\ Contract!ContractOf(input)' = Contract!ContractOf(input')
        /\ Contract!ContextOf(input)' = Contract!ContextOf(input')
    BY DEF Contract!Sectioned
  <1>4. r \in Seq(Lines) /\ Contract!Recorded' = Append(r, line)
    <2>1. r \in Seq(Lines)
      BY <1>1 DEF Contract!Recorded, Lines
    <2>2. Contract!Recorded' = Append(r, line)
      BY <1>1, <1>2 DEF Contract!Recorded
    <2> QED BY <2>1, <2>2
  <1>5. a \in Seq(Lines) /\ b \in Seq(Lines)
    BY <1>1, ContextType
  <1> HIDE DEF a, b, r, line
  <1>6. CASE Contract!Sectioned
    <2>1. /\ input' \in Seq(Lines) /\ HasMarker(input')
          /\ Contract!ContractOf(input') = Append(a \o r, line)
          /\ Contract!ContextOf(input') = b \o <<>>
      BY <1>1, <1>2, <1>6, RecordedInSection
    <2>2. line \in Lines /\ a \in Seq(Lines) /\ b \in Seq(Lines) /\ r \in Seq(Lines)
      BY <1>2, <1>4, <1>5
    <2>3. Append(a \o r, line) = a \o Append(r, line)
      BY <2>2, AppendLast, Zenon
    <2>4. b \o <<>> = b
      BY <2>2
    <2>5. facts' \in Nat
      BY <1>1, <1>2
    <2>6. HasMarker(input)' <=> Contract!Sectioned'
      BY <1>3, <1>6, <2>1, Zenon
    <2>7. Contract!ContractOf(input)' =
             IF Contract!Sectioned' THEN Contract!ContractOf(given)' \o Contract!Recorded' ELSE <<>>
      BY <1>3, <1>4, <1>6, <2>1, <2>3, Zenon
    <2>8. Contract!ContextOf(input)' =
             Contract!ContextOf(given)' \o (IF Contract!Sectioned' THEN <<>> ELSE Contract!Recorded')
      BY <1>3, <1>6, <2>1, <2>4, Zenon
    <2>9. given' \in Seq(Lines) /\ input' \in Seq(Lines)
      BY <1>1, <1>3, <2>1
    <2> QED BY <2>5, <2>6, <2>7, <2>8, <2>9, Zenon DEF InputAsRecorded
  <1>7. CASE ~Contract!Sectioned
    <2>1. /\ input' \in Seq(Lines) /\ ~HasMarker(input')
          /\ Contract!ContextOf(input') = Append(b \o r, line)
      BY <1>1, <1>2, <1>7, RecordedAtEnd
    <2>2. Contract!ContractOf(input') = <<>>
      BY <2>1, NoSection
    <2>3. line \in Lines /\ b \in Seq(Lines) /\ r \in Seq(Lines)
      BY <1>2, <1>4, <1>5
    <2>4. Append(b \o r, line) = b \o Append(r, line)
      BY <2>3, AppendLast, Zenon
    <2>5. facts' \in Nat
      BY <1>1, <1>2
    <2>6. HasMarker(input)' <=> Contract!Sectioned'
      BY <1>3, <1>7, <2>1, Zenon
    <2>7. Contract!ContractOf(input)' =
             IF Contract!Sectioned' THEN Contract!ContractOf(given)' \o Contract!Recorded' ELSE <<>>
      BY <1>3, <1>7, <2>2, Zenon
    <2>8. Contract!ContextOf(input)' =
             Contract!ContextOf(given)' \o (IF Contract!Sectioned' THEN <<>> ELSE Contract!Recorded')
      BY <1>3, <1>4, <1>7, <2>1, <2>4, Zenon
    <2>9. given' \in Seq(Lines) /\ input' \in Seq(Lines)
      BY <1>1, <1>3, <2>1
    <2> QED BY <2>5, <2>6, <2>7, <2>8, <2>9, Zenon DEF InputAsRecorded
  <1> QED BY <1>6, <1>7

LEMMA ContractNext == ContractInv /\ [Contract!Next]_contract => ContractInv'
  <1> SUFFICES ASSUME ContractInv, [Contract!Next]_contract PROVE ContractInv'
    OBVIOUS
  <1> DEFINE Same == UNCHANGED <<given, input, facts>>
  <1>1. ASSUME Same PROVE InputAsRecorded'
    BY <1>1 DEF ContractInv, InputAsRecorded, Contract!Sectioned, Contract!Recorded
  <1>2. ASSUME Contract!Record, given' = given PROVE InputAsRecorded'
    BY <1>2, ContractRecord DEF ContractInv
  <1>3. ASSUME InputAsRecorded', status' # "phases" PROVE ContractInv'
    BY <1>3 DEF ContractInv, Contract!PinnedReachesPhases
  <1>4. ASSUME InputAsRecorded', prompt'.of = "intake" PROVE ContractInv'
    BY <1>4 DEF ContractInv, Contract!PinnedReachesPhases
  <1>5. CASE Contract!IntakeRefuses
    BY <1>1, <1>3, <1>5 DEF Contract!IntakeRefuses
  <1>6. CASE Contract!IntakeAsks
    BY <1>1, <1>3, <1>6 DEF Contract!IntakeAsks
  <1>7. CASE Contract!IntakeSettles
    BY <1>1, <1>2, <1>4, <1>7 DEF Contract!IntakeSettles, Contract!Prompt
  <1>8. CASE Contract!Clarify
    BY <1>2, <1>3, <1>8 DEF Contract!Clarify
  <1>9. CASE Contract!Phase
    <2>1. Same
      BY <1>9 DEF Contract!Phase
    <2>2. PICK of \in {"proposal", "later"} : prompt' = Contract!Prompt(of, of = "proposal")
      BY <1>9 DEF Contract!Phase
    <2>3. prompt'.of = of /\ prompt'.contract = Contract!ContractOf(input)
      BY <2>2 DEF Contract!Prompt
    <2>4. of = "proposal" /\ ~prompt'.cut => prompt'.context = Contract!ContextOf(input)
      BY <2>2 DEF Contract!Prompt
    <2>5. InputAsRecorded' /\ Contract!ContractOf(input)' = Contract!ContractOf(input)
          /\ Contract!ContextOf(input)' = Contract!ContextOf(input)
      BY <1>1, <2>1
    <2>6. /\ prompt'.contract =
                IF Contract!Sectioned' THEN Contract!ContractOf(given)' \o Contract!Recorded' ELSE <<>>
          /\ prompt'.of = "proposal" /\ ~prompt'.cut =>
                prompt'.context = Contract!ContextOf(given)'
                                  \o (IF Contract!Sectioned' THEN <<>> ELSE Contract!Recorded')
      BY <2>3, <2>4, <2>5, Zenon DEF InputAsRecorded
    <2> QED BY <2>5, <2>6, Zenon DEF ContractInv, Contract!PinnedReachesPhases
  <1>10. CASE Contract!Rollback
    BY <1>1, <1>3, <1>10 DEF Contract!Rollback
  <1>11. CASE UNCHANGED contract
    <2>1. InputAsRecorded'
      BY <1>1, <1>11 DEF contract
    <2> QED BY <1>11, <2>1 DEF contract, ContractInv, Contract!PinnedReachesPhases,
                Contract!Sectioned, Contract!Recorded
  <1> QED BY <1>5, <1>6, <1>7, <1>8, <1>9, <1>10, <1>11 DEF Contract!Next

-----------------------------------------------------------------------------
(***************************************************************************)
(* The audit trail and its way to the editor.                              *)
(***************************************************************************)
LEMMA EventsCardinality == \A S : Events!Cardinality(S) = Cardinality(S)
  BY DEF Events!Cardinality, Cardinality

LEMMA EventsAtPlaces ==
    ASSUME NEW seq, NEW S \in SUBSET Int, NEW m \in Nat, NEW s, Upwards(s, m, S)
    PROVE  Events!At(seq, S) = [k \in 1 .. m |-> seq[s[k]]]
  <1>1. Events!At(seq, S) = At(seq, S)
    BY DEF Events!At, At, Events!Ranked, Ranked, Events!Cardinality, Cardinality
  <1> QED BY <1>1, AtUpwards

LEMMA EventsAtUpwards ==
    ASSUME NEW seq, NEW S \in SUBSET Int, NEW m \in Nat, NEW s, Upwards(s, m, S)
    PROVE  Events!EventsAt(seq, S) = [k \in 1 .. m |-> seq[s[k]][1]]
  <1>1. Events!At(seq, S) = [k \in 1 .. m |-> seq[s[k]]]
    BY EventsAtPlaces
  <1> QED BY <1>1 DEF Events!EventsAt

-----------------------------------------------------------------------------
\* The trail: one thread writes at a time, a line's pieces follow each other,
\* and events come in the order in which they were begun.
Piece == Int \X {"head", "tail", "newline"}

LogTyped ==
    /\ trail \in Seq(Piece)
    /\ writing \in [Threads -> Seq(Piece)]
    /\ emitted \in Nat /\ crashes \in Nat

OneWriter == \A t \in Threads : writing[t] # <<>> => lock = t

NothingOf(e) == \A i \in DOMAIN trail : trail[i][1] < e
EndsWithHead(e) == Len(trail) > 0 /\ trail[Len(trail)] = <<e, "head">>
EndsWithTail(e) ==
    /\ Len(trail) > 1
    /\ trail[Len(trail) - 1] = <<e, "head">> /\ trail[Len(trail)] = <<e, "tail">>

LineUnderWay ==
    \A t \in Threads :
        \/ writing[t] = <<>>
        \/ writing[t] = Events!Line(emitted) /\ NothingOf(emitted) /\ emitted > 0
        \/ writing[t] = << <<emitted, "tail">>, <<emitted, "newline">> >> /\ EndsWithHead(emitted)
        \/ writing[t] = << <<emitted, "newline">> >> /\ EndsWithTail(emitted)

InOrderWritten ==
    /\ \A i \in DOMAIN trail : trail[i][1] \in 1 .. emitted
    /\ \A i, j \in DOMAIN trail : i < j =>
          /\ trail[i][1] =< trail[j][1]
          /\ trail[j][2] = "head" => trail[i][1] < trail[j][1]

LineAt(e, i) ==
    /\ i \in 1 .. Len(trail) - 2
    /\ trail[i] = <<e, "head">> /\ trail[i + 1] = <<e, "tail">> /\ trail[i + 2] = <<e, "newline">>

KeptWritten == \A e \in kept : \E i \in DOMAIN trail : LineAt(e, i)

\* Pieces that the next line joins: a line was broken off behind them.
BetweenLines == \A t \in Threads : writing[t] = <<>> \/ Len(writing[t]) = 3
Torn ==
    {i \in DOMAIN trail :
        /\ trail[i][2] # "newline"
        /\ IF i = Len(trail) THEN BetweenLines ELSE trail[i + 1][2] = "head"}

\* Behind a head comes its tail, or the head of the line that joins it.
HeadsFollowed ==
    \A i \in 1 .. Len(trail) - 1 :
        trail[i][2] = "head" =>
            trail[i + 1][2] = "head" \/ trail[i + 1] = <<trail[i][1], "tail">>

LogInv ==
    /\ LogTyped /\ OneWriter /\ LineUnderWay /\ InOrderWritten /\ KeptWritten
    /\ HeadsFollowed
    /\ Cardinality(Torn) =< crashes

LEMMA TornFinite == ASSUME trail \in Seq(Piece) PROVE IsFiniteSet(Torn) /\ Cardinality(Torn) \in Nat
  <1>1. Len(trail) \in Nat /\ DOMAIN trail = 1 .. Len(trail)
    OBVIOUS
  <1>2. Torn \in SUBSET (1 .. Len(trail))
    BY <1>1 DEF Torn
  <1>3. IsFiniteSet(1 .. Len(trail))
    BY <1>1, FS_Interval
  <1>4. IsFiniteSet(Torn)
    BY <1>2, <1>3, FS_Subset
  <1> QED BY <1>4, FS_CardinalityType

LEMMA LogInit == Events!Init => LogInv
  <1> SUFFICES ASSUME Events!Init PROVE LogInv
    OBVIOUS
  <1>1. /\ trail = <<>> /\ writing = [t \in Threads |-> <<>>] /\ emitted = 0 /\ kept = {}
        /\ crashes = 0
    BY DEF Events!Init
  <1>2. LogTyped /\ OneWriter /\ LineUnderWay
    BY <1>1 DEF LogTyped, OneWriter, LineUnderWay
  <1>3. InOrderWritten /\ KeptWritten /\ HeadsFollowed
    BY <1>1 DEF InOrderWritten, KeptWritten, HeadsFollowed
  <1>4. Torn = {}
    BY <1>1 DEF Torn
  <1>5. Cardinality(Torn) = 0
    BY <1>4, FS_EmptySet
  <1> QED BY <1>1, <1>2, <1>3, <1>5 DEF LogInv

LEMMA LogUnchanged ==
    ASSUME LogInv, UNCHANGED <<trail, lock, writing, emitted, kept, crashes>>
    PROVE  LogInv'
  BY DEF LogInv, LogTyped, OneWriter, LineUnderWay, InOrderWritten, KeptWritten, Torn,
         BetweenLines, NothingOf, EndsWithHead, EndsWithTail, LineAt, HeadsFollowed

LEMMA LogBegin ==
    ASSUME LogInv, NEW t \in Threads, Events!BeginEmit(t)
    PROVE  LogInv'
  <1>1. /\ writing[t] = <<>> /\ lock = Events!Nobody
        /\ lock' = t /\ emitted' = emitted + 1
        /\ writing' = [writing EXCEPT ![t] = Events!Line(emitted + 1)]
        /\ trail' = trail /\ kept' = kept /\ crashes' = crashes
    BY DEF Events!BeginEmit, Events!LockFree
  <1>2. /\ trail \in Seq(Piece) /\ writing \in [Threads -> Seq(Piece)] /\ emitted \in Nat
        /\ crashes \in Nat
    BY DEF LogInv, LogTyped
  <1>3. Events!Line(emitted + 1) \in Seq(Piece) /\ Len(Events!Line(emitted + 1)) = 3
    BY <1>2 DEF Events!Line, Piece
  <1>4. \A u \in Threads : writing[u] = <<>>
    BY <1>1, ThreadsAssumption DEF LogInv, OneWriter
  <1>5. \A u \in Threads : writing'[u] = IF u = t THEN Events!Line(emitted') ELSE <<>>
    BY <1>1, <1>2, <1>4
  <1>6. LogTyped'
    BY <1>1, <1>2, <1>3 DEF LogTyped
  <1>7. OneWriter'
    BY <1>1, <1>5 DEF OneWriter
  <1>8. NothingOf(emitted)'
    <2>1. \A i \in DOMAIN trail : trail[i][1] \in 1 .. emitted
      BY DEF LogInv, InOrderWritten
    <2>2. \A i \in DOMAIN trail : trail[i][1] < emitted + 1
      BY <1>2, <2>1
    <2> QED BY <1>1, <2>2 DEF NothingOf
  <1>9. LineUnderWay'
    <2>1. emitted' > 0
      BY <1>1, <1>2
    <2> QED BY <1>5, <1>8, <2>1, Zenon DEF LineUnderWay
  <1>10. InOrderWritten'
    BY <1>1, <1>2 DEF LogInv, InOrderWritten
  <1>11. KeptWritten' /\ HeadsFollowed'
    BY <1>1 DEF LogInv, KeptWritten, LineAt, HeadsFollowed
  <1>12. Torn' = Torn
    <2>1. BetweenLines /\ BetweenLines'
      BY <1>1, <1>3, <1>4, <1>5 DEF BetweenLines
    <2> QED BY <1>1, <2>1 DEF Torn
  <1> QED BY <1>1, <1>6, <1>7, <1>9, <1>10, <1>11, <1>12 DEF LogInv

\* The pieces of a line, one after the other.
LEMMA LogWrite ==
    ASSUME LogInv, NEW t \in Threads, Events!WritePiece(t)
    PROVE  LogInv'
  <1> DEFINE n == Len(trail)
             w == writing[t]
             p == Head(w)
  <1>1. /\ w # <<>>
        /\ trail' = Append(trail, p) /\ writing' = [writing EXCEPT ![t] = Tail(w)]
        /\ emitted' = emitted /\ crashes' = crashes
        /\ Len(w) = 1 => lock' = Events!Nobody /\ kept' = kept \cup {p[1]}
        /\ Len(w) # 1 => lock' = lock /\ kept' = kept
    BY DEF Events!WritePiece
  <1>2. /\ trail \in Seq(Piece) /\ writing \in [Threads -> Seq(Piece)] /\ emitted \in Nat
        /\ crashes \in Nat
    BY DEF LogInv, LogTyped
  <1>3. lock = t /\ \A u \in Threads : u # t => writing[u] = <<>>
    BY <1>1 DEF LogInv, OneWriter
  <1>4. \A u \in Threads : writing'[u] = IF u = t THEN Tail(w) ELSE <<>>
    BY <1>1, <1>2, <1>3
  <1>5. p \in Piece /\ Tail(w) \in Seq(Piece)
    BY <1>1, <1>2
  <1>6. /\ n \in Nat /\ DOMAIN trail = 1 .. n
        /\ trail' \in Seq(Piece) /\ Len(trail') = n + 1 /\ DOMAIN trail' = 1 .. n + 1
        /\ \A i \in 1 .. n : trail'[i] = trail[i]
        /\ trail'[n + 1] = p
    BY <1>1, <1>2, <1>5
  <1> HIDE DEF n
  <1>7. LogTyped'
    BY <1>1, <1>2, <1>5, <1>6 DEF LogTyped
  <1>8. \A i \in 1 .. n : trail[i] \in Piece
    BY <1>2, <1>6
  <1>9. ASSUME NEW e, NEW i, LineAt(e, i) PROVE LineAt(e, i)' /\ i \in DOMAIN trail'
    <2>1. /\ i \in 1 .. n - 2 /\ trail[i] = <<e, "head">> /\ trail[i + 1] = <<e, "tail">>
          /\ trail[i + 2] = <<e, "newline">>
      BY <1>9 DEF LineAt, n
    <2>2. i \in 1 .. n /\ i + 1 \in 1 .. n /\ i + 2 \in 1 .. n /\ i \in 1 .. (n + 1) - 2
      BY <1>6, <2>1
    <2> QED BY <1>6, <2>1, <2>2 DEF LineAt
  <1>10. \A e \in kept : \E i \in DOMAIN trail' : LineAt(e, i)'
    BY <1>9 DEF LogInv, KeptWritten
  <1>11. ASSUME p[1] = emitted, p[2] = "head" => NothingOf(emitted), emitted > 0
         PROVE  InOrderWritten'
    <2>1. /\ \A i \in 1 .. n : trail[i][1] \in 1 .. emitted
          /\ \A i, j \in 1 .. n : i < j =>
                /\ trail[i][1] =< trail[j][1]
                /\ trail[j][2] = "head" => trail[i][1] < trail[j][1]
      BY <1>6 DEF LogInv, InOrderWritten
    <2>2. ASSUME NEW i \in 1 .. n + 1 PROVE trail'[i][1] \in 1 .. emitted
      <3>1. CASE i = n + 1
        <4>1. trail'[i] = p
          BY <1>6, <3>1
        <4>2. emitted \in 1 .. emitted
          BY <1>2, <1>11
        <4> QED BY <1>11, <4>1, <4>2
      <3>2. CASE i # n + 1
        <4>1. i \in 1 .. n
          BY <1>6, <3>2
        <4>2. trail'[i] = trail[i]
          BY <1>6, <4>1
        <4> QED BY <2>1, <4>1, <4>2
      <3> QED BY <3>1, <3>2
    <2>3. ASSUME NEW i \in 1 .. n + 1, NEW j \in 1 .. n + 1, i < j
          PROVE  /\ trail'[i][1] =< trail'[j][1]
                 /\ trail'[j][2] = "head" => trail'[i][1] < trail'[j][1]
      <3>1. i \in 1 .. n /\ trail'[i] = trail[i]
        BY <1>6, <2>3
      <3>2. CASE j \in 1 .. n
        BY <1>6, <2>1, <2>3, <3>1, <3>2
      <3>3. CASE j = n + 1
        <4>1. trail'[j] = p /\ trail[i][1] =< emitted
          BY <1>6, <2>1, <3>1, <3>3
        <4>2. p[2] = "head" => trail[i][1] < emitted
          BY <1>6, <1>11, <3>1 DEF NothingOf
        <4> QED BY <1>11, <3>1, <4>1, <4>2
      <3> QED BY <1>6, <3>2, <3>3
    <2> QED BY <1>1, <1>6, <2>2, <2>3 DEF InOrderWritten
  <1>12. ASSUME ~BetweenLines' \/ p[2] = "newline",
                n > 0 /\ trail[n][2] # "newline" => (p[2] = "head" <=> BetweenLines)
         PROVE  Torn' = Torn
    <2>1. ASSUME NEW i \in 1 .. n PROVE i \in Torn' <=> i \in Torn
      <3>1. i \in 1 .. n + 1 /\ i # n + 1 /\ trail'[i] = trail[i]
        BY <1>6
      <3>2. i \in Torn' <=> trail[i][2] # "newline" /\ trail'[i + 1][2] = "head"
        BY <1>6, <3>1 DEF Torn
      <3>3. CASE i = n
        <4>1. i \in Torn <=> trail[i][2] # "newline" /\ BetweenLines
          BY <1>6, <3>3 DEF Torn, n
        <4>2. trail'[i + 1] = p /\ n > 0
          BY <1>6, <3>3
        <4> QED BY <1>12, <3>2, <3>3, <4>1, <4>2
      <3>4. CASE i # n
        <4>1. i \in Torn <=> trail[i][2] # "newline" /\ trail[i + 1][2] = "head"
          BY <1>6, <3>4 DEF Torn, n
        <4>2. i + 1 \in 1 .. n
          BY <1>6, <3>4
        <4> QED BY <1>6, <3>2, <4>1, <4>2
      <3> QED BY <3>3, <3>4
    <2>2. n + 1 \notin Torn'
      BY <1>6, <1>12 DEF Torn
    <2>3. Torn \subseteq 1 .. n /\ Torn' \subseteq 1 .. n + 1
      BY <1>6 DEF Torn
    <2>4. \A i \in 1 .. n + 1 : i \in 1 .. n \/ i = n + 1
      BY <1>6
    <2> QED BY <2>1, <2>2, <2>3, <2>4
  <1>16. ASSUME n > 0 /\ trail[n][2] = "head" => p[2] = "head" \/ p = <<trail[n][1], "tail">>
         PROVE  HeadsFollowed'
    <2> SUFFICES ASSUME NEW i \in 1 .. n, trail'[i][2] = "head"
                 PROVE  trail'[i + 1][2] = "head" \/ trail'[i + 1] = <<trail'[i][1], "tail">>
      BY <1>6 DEF HeadsFollowed
    <2>1. trail'[i] = trail[i]
      BY <1>6
    <2>2. CASE i = n
      BY <1>6, <1>16, <2>1, <2>2
    <2>3. CASE i # n
      <3>1. i \in 1 .. n - 1 /\ i + 1 \in 1 .. n
        BY <1>6, <2>3
      <3>2. trail'[i + 1] = trail[i + 1]
        BY <1>6, <3>1
      <3> QED BY <2>1, <3>1, <3>2 DEF LogInv, HeadsFollowed, n
    <2> QED BY <2>2, <2>3
  <1>13. CASE w = Events!Line(emitted) /\ NothingOf(emitted) /\ emitted > 0
    <2>1. /\ p = <<emitted, "head">> /\ Len(w) = 3
          /\ Tail(w) = << <<emitted, "tail">>, <<emitted, "newline">> >>
          /\ Tail(w) # <<>> /\ Len(Tail(w)) # 3
      BY <1>13 DEF Events!Line
    <2>2. lock' = t /\ kept' = kept /\ p[1] = emitted /\ p[2] = "head"
      BY <1>1, <1>3, <2>1
    <2> HIDE DEF p, w
    <2>3. OneWriter'
      BY <1>4, <2>2 DEF OneWriter
    <2>4. EndsWithHead(emitted)'
      BY <1>1, <1>6, <2>1 DEF EndsWithHead
    <2>5. LineUnderWay'
      BY <1>1, <1>4, <2>1, <2>4, Zenon DEF LineUnderWay
    <2>6. InOrderWritten'
      BY <1>11, <1>13, <2>2
    <2>7. BetweenLines /\ ~BetweenLines'
      <3>1. BetweenLines
        BY <1>3, <2>1 DEF BetweenLines, w
      <3>2. writing'[t] # <<>> /\ Len(writing'[t]) # 3
        BY <1>4, <2>1, Zenon
      <3> QED BY <3>1, <3>2 DEF BetweenLines
    <2>8. Torn' = Torn /\ HeadsFollowed'
      BY <1>12, <1>16, <2>2, <2>7
    <2>9. KeptWritten'
      BY <1>10, <2>2 DEF KeptWritten
    <2> QED BY <1>1, <1>7, <2>3, <2>5, <2>6, <2>8, <2>9 DEF LogInv
  <1>14. CASE w = << <<emitted, "tail">>, <<emitted, "newline">> >> /\ EndsWithHead(emitted)
    <2>1. /\ p = <<emitted, "tail">> /\ Len(w) = 2
          /\ Tail(w) = << <<emitted, "newline">> >>
          /\ Tail(w) # <<>> /\ Len(Tail(w)) # 3
      BY <1>14
    <2>2. lock' = t /\ kept' = kept /\ p[1] = emitted /\ p[2] = "tail"
      BY <1>1, <1>3, <2>1
    <2> HIDE DEF p, w
    <2>0. n > 0 /\ trail[n] = <<emitted, "head">>
      BY <1>14 DEF EndsWithHead, n
    <2>3. OneWriter'
      BY <1>4, <2>2 DEF OneWriter
    <2>4. EndsWithTail(emitted)'
      <3>1. n \in 1 .. n /\ (n + 1) - 1 = n /\ n + 1 > 1
        BY <1>6, <2>0
      <3> QED BY <1>1, <1>6, <2>0, <2>1, <3>1 DEF EndsWithTail
    <2>5. LineUnderWay'
      BY <1>1, <1>4, <2>1, <2>4, Zenon DEF LineUnderWay
    <2>6. InOrderWritten'
      <3>1. emitted > 0
        BY <1>2, <1>6, <2>0 DEF LogInv, InOrderWritten
      <3> QED BY <1>11, <2>2, <3>1
    <2>7. ~BetweenLines /\ ~BetweenLines'
      <3>1. w # <<>> /\ Len(w) # 3
        BY <1>1, <2>1 DEF w
      <3>2. writing'[t] # <<>> /\ Len(writing'[t]) # 3
        BY <1>4, <2>1, Zenon
      <3> QED BY <3>1, <3>2 DEF BetweenLines, w
    <2>8. Torn' = Torn
      BY <1>12, <2>2, <2>7
    <2>10. HeadsFollowed'
      BY <1>16, <2>0, <2>1
    <2>9. KeptWritten'
      BY <1>10, <2>2 DEF KeptWritten
    <2> QED BY <1>1, <1>7, <2>3, <2>5, <2>6, <2>8, <2>9, <2>10 DEF LogInv
  <1>15. CASE w = << <<emitted, "newline">> >> /\ EndsWithTail(emitted)
    <2>1. /\ p = <<emitted, "newline">> /\ Len(w) = 1 /\ Tail(w) = <<>>
      BY <1>15
    <2>2. kept' = kept \cup {emitted} /\ p[1] = emitted /\ p[2] = "newline"
      BY <1>1, <2>1
    <2> HIDE DEF p, w
    <2>0. n > 1 /\ trail[n - 1] = <<emitted, "head">> /\ trail[n] = <<emitted, "tail">>
      BY <1>15 DEF EndsWithTail, n
    <2>3. \A u \in Threads : writing'[u] = <<>>
      BY <1>4, <2>1
    <2>4. OneWriter' /\ LineUnderWay'
      BY <2>3 DEF OneWriter, LineUnderWay
    <2>6. InOrderWritten'
      <3>1. emitted > 0
        BY <1>2, <1>6, <2>0 DEF LogInv, InOrderWritten
      <3> QED BY <1>11, <2>2, <3>1
    <2>7. ~BetweenLines
      <3>1. w # <<>> /\ Len(w) # 3
        BY <1>1, <2>1 DEF w
      <3> QED BY <3>1 DEF BetweenLines, w
    <2>8. Torn' = Torn
      BY <1>12, <2>2, <2>7
    <2>9. \E i \in DOMAIN trail' : LineAt(emitted, i)'
      <3> SUFFICES ASSUME NEW i, i = n - 1 PROVE i \in DOMAIN trail' /\ LineAt(emitted, i)'
        OBVIOUS
      <3>1. /\ i \in 1 .. n /\ n \in 1 .. n /\ i \in 1 .. (n + 1) - 2
            /\ i + 1 = n /\ i + 2 = n + 1 /\ i \in 1 .. n + 1
        BY <1>6, <2>0
      <3>2. trail'[i] = <<emitted, "head">> /\ trail'[i + 1] = <<emitted, "tail">>
        BY <1>6, <2>0, <3>1
      <3>3. trail'[i + 2] = <<emitted, "newline">>
        BY <1>6, <2>1, <3>1
      <3> QED BY <1>1, <1>6, <3>1, <3>2, <3>3 DEF LineAt
    <2>10. KeptWritten'
      BY <1>1, <1>10, <2>2, <2>9 DEF KeptWritten
    <2>11. HeadsFollowed'
      BY <1>16, <2>0
    <2> QED BY <1>1, <1>7, <2>4, <2>6, <2>8, <2>10, <2>11 DEF LogInv
  <1> QED BY <1>1, <1>13, <1>14, <1>15 DEF LogInv, LineUnderWay

\* A crash leaves at most one more line broken off.
LEMMA LogCrash ==
    ASSUME LogInv, Events!Crash
    PROVE  LogInv'
  <1> DEFINE n == Len(trail)
  <1>1. /\ writing' = [t \in Threads |-> <<>>] /\ crashes' = crashes + 1
        /\ trail' = trail /\ emitted' = emitted /\ kept' = kept
    BY DEF Events!Crash
  <1>2. trail \in Seq(Piece) /\ crashes \in Nat /\ emitted \in Nat
    BY DEF LogInv, LogTyped
  <1>3. LogTyped' /\ OneWriter' /\ LineUnderWay' /\ BetweenLines'
    BY <1>1, <1>2 DEF LogTyped, OneWriter, LineUnderWay, BetweenLines
  <1>4. InOrderWritten' /\ KeptWritten' /\ HeadsFollowed'
    BY <1>1 DEF LogInv, InOrderWritten, KeptWritten, LineAt, HeadsFollowed
  <1>5. Torn' \in SUBSET (Torn \cup {n})
    BY <1>1 DEF Torn
  <1>6. IsFiniteSet(Torn) /\ Cardinality(Torn) \in Nat
    BY <1>2, TornFinite
  <1>7. /\ IsFiniteSet(Torn \cup {n}) /\ Cardinality(Torn \cup {n}) \in Nat
        /\ Cardinality(Torn \cup {n}) =< Cardinality(Torn) + 1
    <2>1. /\ IsFiniteSet(Torn \cup {n})
          /\ Cardinality(Torn \cup {n}) =
                IF n \in Torn THEN Cardinality(Torn) ELSE Cardinality(Torn) + 1
      BY <1>6, FS_AddElement
    <2> QED BY <1>6, <2>1
  <1>8. IsFiniteSet(Torn') /\ Cardinality(Torn') =< Cardinality(Torn \cup {n})
    BY <1>5, <1>7, FS_Subset
  <1>9. Cardinality(Torn') \in Nat
    BY <1>8, FS_CardinalityType
  <1>10. Cardinality(Torn) =< crashes
    BY DEF LogInv
  <1>11. Cardinality(Torn') =< crashes'
    BY <1>1, <1>2, <1>6, <1>7, <1>8, <1>9, <1>10
  <1> QED BY <1>3, <1>4, <1>11 DEF LogInv

LEMMA LogNext == LogInv /\ [Events!Next]_events => LogInv'
  <1> SUFFICES ASSUME LogInv, [Events!Next]_events PROVE LogInv'
    OBVIOUS
  <1>1. ASSUME NEW t \in Threads, Events!BeginEmit(t) PROVE LogInv'
    BY <1>1, LogBegin
  <1>2. ASSUME NEW t \in Threads, Events!WritePiece(t) PROVE LogInv'
    BY <1>2, LogWrite
  <1>3. CASE Events!Crash
    BY <1>3, LogCrash
  <1>4. CASE UNCHANGED <<trail, lock, writing, emitted, kept, crashes>>
    BY <1>4, LogUnchanged
  <1>5. CASE Events!Subscribe \/ Events!ReadChunk \/ Events!OnEvent \/ Events!Dispose
             \/ Events!StreamEnds \/ Events!ConnectionLost
    <2>1. UNCHANGED <<trail, lock, writing, emitted, kept, crashes>>
      BY <1>5 DEF Events!Subscribe, Events!ReadChunk, Events!OnEvent, Events!Dispose,
                  Events!StreamEnds, Events!ConnectionLost, Events!log
    <2> QED BY <1>4, <2>1
  <1>6. CASE UNCHANGED events
    BY <1>4, <1>6 DEF events
  <1> QED BY <1>1, <1>2, <1>3, <1>5, <1>6 DEF Events!Next

-----------------------------------------------------------------------------
\* Where the whole events of a trail begin, they are read.
Whole == {i \in DOMAIN trail : Events!WholeAt(trail, i)}

LEMMA ReadAllIs ==
    ASSUME trail \in Seq(Piece)
    PROVE  \E m \in Nat : \E s \in [1 .. m -> Whole] :
              /\ Upwards(s, m, Whole)
              /\ Events!ReadAll(trail) = [k \in 1 .. m |-> trail[s[k]][1]]
  <1>1. DOMAIN trail = 1 .. Len(trail) /\ Len(trail) \in Nat
    OBVIOUS
  <1>2. Whole \in SUBSET (1 .. Len(trail)) /\ Whole \in SUBSET Int
    BY <1>1 DEF Whole
  <1>3. IsFiniteSet(1 .. Len(trail))
    BY <1>1, FS_Interval
  <1>4. IsFiniteSet(Whole)
    BY <1>2, <1>3, FS_Subset
  <1>5. PICK m \in Nat : \E s \in [1 .. m -> Whole] : Upwards(s, m, Whole)
    BY <1>2, <1>4, UpwardsExists
  <1>6. PICK s \in [1 .. m -> Whole] : Upwards(s, m, Whole)
    BY <1>5
  <1>7. Events!EventsAt(trail, Whole) = [k \in 1 .. m |-> trail[s[k]][1]]
    BY <1>2, <1>6, EventsAtUpwards
  <1> QED BY <1>6, <1>7 DEF Events!ReadAll, Whole

\* While nobody writes and nothing is torn, every head has its tail.
LEMMA DecodesUntorn ==
    ASSUME LogInv, crashes = 0, Events!LockFree
    PROVE  Events!Decodes(trail)
  <1>1. trail \in Seq(Piece) /\ Cardinality(Torn) =< 0
    BY DEF LogInv, LogTyped
  <1>2. Torn = {}
    <2>1. IsFiniteSet(Torn) /\ Cardinality(Torn) = 0
      BY <1>1, TornFinite
    <2> QED BY <2>1, FS_EmptySet
  <1>3. BetweenLines
    BY ThreadsAssumption DEF LogInv, OneWriter, BetweenLines, Events!LockFree
  <1> SUFFICES ASSUME NEW i \in DOMAIN trail, trail[i][2] = "head"
               PROVE  i < Len(trail) /\ trail[i + 1] = <<trail[i][1], "tail">>
    BY DEF Events!Decodes, Events!Divided
  <1>4. i \in 1 .. Len(trail) /\ Len(trail) \in Nat
    BY <1>1
  <1>5. i # Len(trail)
    BY <1>2, <1>3 DEF Torn
  <1>6. trail[i + 1][2] # "head"
    BY <1>2, <1>5 DEF Torn
  <1>7. i \in 1 .. Len(trail) - 1
    BY <1>4, <1>5
  <1> QED BY <1>6, <1>7 DEF LogInv, HeadsFollowed

\* An event that was kept and is not read follows a torn piece, each its own.
LEMMA OneIsLost ==
    ASSUME LogInv
    PROVE  Events!OneLostPerCrash
  <1>1. trail \in Seq(Piece) /\ crashes \in Nat
    BY DEF LogInv, LogTyped
  <1>2. PICK m \in Nat : \E s \in [1 .. m -> Whole] :
              /\ Upwards(s, m, Whole)
              /\ Events!ReadAll(trail) = [k \in 1 .. m |-> trail[s[k]][1]]
    BY <1>1, ReadAllIs
  <1>3. PICK s \in [1 .. m -> Whole] :
              /\ Upwards(s, m, Whole)
              /\ Events!ReadAll(trail) = [k \in 1 .. m |-> trail[s[k]][1]]
    BY <1>2
  <1> DEFINE readable == {Events!ReadAll(trail)[k] : k \in DOMAIN Events!ReadAll(trail)}
             Missed == kept \ readable
             At1(e) == CHOOSE i \in DOMAIN trail : LineAt(e, i)
             f == [e \in Missed |-> At1(e) - 1]
  <1>4. \A i \in Whole : trail[i][1] \in readable
    BY <1>3 DEF Upwards
  <1> HIDE DEF readable
  <1>5. ASSUME NEW e \in Missed
        PROVE  f[e] \in Torn /\ f[e] + 1 \in DOMAIN trail /\ trail[f[e] + 1] = <<e, "head">>
    <2> DEFINE i == At1(e)
    <2>1. i \in DOMAIN trail /\ LineAt(e, i)
      <3>1. \E j \in DOMAIN trail : LineAt(e, j)
        BY DEF LogInv, KeptWritten
      <3> QED BY <3>1
    <2>2. f[e] = i - 1
      OBVIOUS
    <2> HIDE DEF i, f
    <2>3. /\ i \in 1 .. Len(trail) - 2 /\ trail[i] = <<e, "head">>
          /\ trail[i + 1] = <<e, "tail">> /\ trail[i + 2] = <<e, "newline">>
      BY <2>1 DEF LineAt
    <2>4. i \notin Whole
      BY <1>4, <2>3
    <2>5. i # 1 /\ trail[i - 1][2] # "newline"
      <3> SUFFICES ASSUME i = 1 \/ trail[i - 1][2] = "newline" PROVE FALSE
        OBVIOUS
      <3>1. Events!WholeAt(trail, i)
        BY <1>1, <2>3 DEF Events!WholeAt
      <3> QED BY <2>1, <2>4, <3>1 DEF Whole
    <2>6. i - 1 \in DOMAIN trail /\ i - 1 # Len(trail) /\ (i - 1) + 1 = i
      BY <1>1, <2>3, <2>5
    <2>7. i - 1 \in Torn
      BY <2>3, <2>5, <2>6 DEF Torn
    <2> QED BY <2>1, <2>2, <2>3, <2>6, <2>7
  <1>6. f \in Injection(Missed, Torn)
    <2>1. \A e \in Missed : f[e] \in Torn
      BY <1>5
    <2>2. f \in [Missed -> Torn]
      BY <2>1
    <2>3. \A d, e \in Missed : f[d] = f[e] => d = e
      <3> SUFFICES ASSUME NEW d \in Missed, NEW e \in Missed, f[d] = f[e] PROVE d = e
        OBVIOUS
      <3>1. <<d, "head">> = <<e, "head">>
        <4> HIDE DEF f, Missed
        <4> QED BY <1>5
      <3> QED BY <3>1
    <2> QED BY <2>2, <2>3 DEF Injection, IsInjective
  <1> HIDE DEF f, Missed
  <1>7. IsFiniteSet(Torn) /\ Cardinality(Torn) \in Nat
    BY <1>1, TornFinite
  <1>8. IsFiniteSet(Missed) /\ Cardinality(Missed) =< Cardinality(Torn)
    BY <1>6, <1>7, FS_Injection
  <1>9. Cardinality(Missed) \in Nat
    BY <1>8, FS_CardinalityType
  <1>10. Cardinality(Missed) =< crashes
    BY <1>1, <1>7, <1>8, <1>9 DEF LogInv
  <1> QED BY <1>10, EventsCardinality, DecodesUntorn
          DEF Events!OneLostPerCrash, Missed, readable

\* An event is sent as its head, its tail and the end of the line.
LEMMA FramedIs ==
    ASSUME NEW list \in Seq(Int)
    PROVE  /\ Events!Framed(list) \in Seq(Piece)
           /\ Len(Events!Framed(list)) = 3 * Len(list)
           /\ \A k \in 1 .. Len(list) :
                 /\ Events!Framed(list)[3 * k - 2] = <<list[k], "head">>
                 /\ Events!Framed(list)[3 * k - 1] = <<list[k], "tail">>
                 /\ Events!Framed(list)[3 * k] = <<list[k], "newline">>
  <1> DEFINE n == Len(list)
             F == Events!Framed(list)
             Item(i) == Events!Frame(list[(i + 2) \div 3])[((i - 1) % 3) + 1]
  <1>1. n \in Nat /\ F = [i \in 1 .. 3 * n |-> Item(i)]
    BY DEF Events!Framed
  <1>2. \A e : /\ Events!Frame(e)[1] = <<e, "head">> /\ Events!Frame(e)[2] = <<e, "tail">>
               /\ Events!Frame(e)[3] = <<e, "newline">>
    BY DEF Events!Frame, Events!Line
  <1>3. ASSUME NEW k \in 1 .. n
        PROVE  /\ 3 * k - 2 \in 1 .. 3 * n /\ 3 * k - 1 \in 1 .. 3 * n /\ 3 * k \in 1 .. 3 * n
               /\ ((3 * k - 2) + 2) \div 3 = k /\ ((3 * k - 2) - 1) % 3 = 0
               /\ ((3 * k - 1) + 2) \div 3 = k /\ ((3 * k - 1) - 1) % 3 = 1
               /\ (3 * k + 2) \div 3 = k /\ (3 * k - 1) % 3 = 2
    BY <1>1
  <1>4. ASSUME NEW k \in 1 .. n
        PROVE  /\ F[3 * k - 2] = <<list[k], "head">> /\ F[3 * k - 1] = <<list[k], "tail">>
               /\ F[3 * k] = <<list[k], "newline">>
    <2>1. F[3 * k - 2] = Events!Frame(list[k])[1]
      BY <1>1, <1>3
    <2>2. F[3 * k - 1] = Events!Frame(list[k])[2]
      BY <1>1, <1>3
    <2>3. F[3 * k] = Events!Frame(list[k])[3]
      BY <1>1, <1>3
    <2> QED BY <1>2, <2>1, <2>2, <2>3
  <1>5. ASSUME NEW i \in 1 .. 3 * n PROVE F[i] \in Piece
    <2>1. PICK k \in 1 .. n : i = 3 * k - 2 \/ i = 3 * k - 1 \/ i = 3 * k
      <3>1. (i + 2) \div 3 \in 1 .. n
        BY <1>1
      <3>2. \/ i = 3 * ((i + 2) \div 3) - 2 \/ i = 3 * ((i + 2) \div 3) - 1
            \/ i = 3 * ((i + 2) \div 3)
        BY <1>1
      <3> QED BY <3>1, <3>2
    <2>2. list[k] \in Int
      OBVIOUS
    <2>3. /\ F[3 * k - 2] = <<list[k], "head">> /\ F[3 * k - 1] = <<list[k], "tail">>
          /\ F[3 * k] = <<list[k], "newline">>
      BY <1>4
    <2> HIDE DEF F
    <2>4. F[i] \in {<<list[k], "head">>, <<list[k], "tail">>, <<list[k], "newline">>}
      BY <2>1, <2>3
    <2> QED BY <2>2, <2>4 DEF Piece
  <1> HIDE DEF F
  <1>6. F \in Seq(Piece) /\ Len(F) = 3 * n
    <2>1. DOMAIN F = 1 .. 3 * n /\ F = [i \in 1 .. 3 * n |-> F[i]] /\ 3 * n \in Nat
      BY <1>1
    <2> QED BY <1>5, <2>1
  <1> QED BY <1>4, <1>6 DEF F

\* Where the pieces of the events are that a chunk has whole.
LEMMA Thirds ==
    ASSUME NEW n \in Nat, NEW L \in Nat, NEW m \in 0 .. L, NEW q \in Nat,
           n =< 3 * (L - m), 3 * q =< n, n < 3 * q + 3
    PROVE  /\ \A k \in 1 .. q :
                 /\ 3 * k - 2 \in 1 .. n /\ 3 * k - 1 \in 1 .. n /\ 3 * k \in 1 .. n
                 /\ 3 * k - 2 < n /\ 3 * k - 1 < n
                 /\ m + k \in 1 .. L
                 /\ 3 * m + (3 * k - 2) = 3 * (m + k) - 2
                 /\ 3 * m + (3 * k - 1) = 3 * (m + k) - 1
                 /\ 3 * m + 3 * k = 3 * (m + k)
           /\ 3 * q + 1 =< n =>
                 /\ m + q + 1 \in 1 .. L /\ 3 * q + 1 \in 1 .. n
                 /\ 3 * m + (3 * q + 1) = 3 * (m + q + 1) - 2
                 /\ 3 * m + (3 * q + 2) = 3 * (m + q + 1) - 1
  OBVIOUS

LEMMA ThirdOf ==
    ASSUME NEW q \in Nat, NEW i \in 1 .. 3 * q
    PROVE  \E k \in 1 .. q : i = 3 * k - 2 \/ i = 3 * k - 1 \/ i = 3 * k
  <1>1. PICK k \in Int : k = (i + 2) \div 3
    OBVIOUS
  <1>2. 3 * k =< i + 2 /\ i + 2 < 3 * k + 3
    BY <1>1
  <1>3. k \in 1 .. q /\ (i = 3 * k - 2 \/ i = 3 * k - 1 \/ i = 3 * k)
    BY <1>2
  <1> QED BY <1>3

LEMMA PieceOf ==
    ASSUME NEW p, NEW e, NEW k, p = <<e, k>>
    PROVE  p[1] = e /\ p[2] = k
  OBVIOUS

\* A chunk's whole lines are decoded, the rest of it is kept.
LEMMA DecodedIs ==
    ASSUME NEW list \in Seq(Int), NEW m \in 0 .. Len(list), NEW text \in Seq(Piece),
           Len(text) =< 3 * (Len(list) - m),
           \A i \in 1 .. Len(text) : text[i] = Events!Framed(list)[3 * m + i],
           NEW q \in Nat, 3 * q =< Len(text), Len(text) < 3 * q + 3
    PROVE  /\ Events!Decoded(text) = [k \in 1 .. q |-> list[m + k]]
           /\ Events!AfterLastNewline(text) = SubSeq(text, 3 * q + 1, Len(text))
  <1> DEFINE n == Len(text)
             F == Events!Framed(list)
  <1>1. n \in Nat /\ DOMAIN text = 1 .. n /\ Len(list) \in Nat
    OBVIOUS
  <1>2. ASSUME NEW k \in 1 .. q
        PROVE  /\ 3 * k - 2 \in 1 .. n /\ text[3 * k - 2] = <<list[m + k], "head">>
               /\ 3 * k - 1 \in 1 .. n /\ text[3 * k - 1] = <<list[m + k], "tail">>
               /\ 3 * k \in 1 .. n /\ text[3 * k] = <<list[m + k], "newline">>
    <2>1. /\ 3 * k - 2 \in 1 .. n /\ 3 * k - 1 \in 1 .. n /\ 3 * k \in 1 .. n
          /\ m + k \in 1 .. Len(list)
          /\ 3 * m + (3 * k - 2) = 3 * (m + k) - 2
          /\ 3 * m + (3 * k - 1) = 3 * (m + k) - 1
          /\ 3 * m + 3 * k = 3 * (m + k)
      BY <1>1, Thirds
    <2>2. /\ F[3 * (m + k) - 2] = <<list[m + k], "head">>
          /\ F[3 * (m + k) - 1] = <<list[m + k], "tail">>
          /\ F[3 * (m + k)] = <<list[m + k], "newline">>
      BY <2>1, FramedIs
    <2> HIDE DEF F
    <2> QED BY <2>1, <2>2 DEF F
  <1>3. /\ 3 * q + 1 \in 1 .. n => text[3 * q + 1][2] = "head"
        /\ 3 * q + 2 \in 1 .. n => text[3 * q + 2][2] = "tail"
    <2> SUFFICES ASSUME 3 * q + 1 =< n
                 PROVE  /\ text[3 * q + 1][2] = "head"
                        /\ 3 * q + 2 \in 1 .. n => text[3 * q + 2][2] = "tail"
      BY <1>1
    <2>1. /\ m + q + 1 \in 1 .. Len(list) /\ 3 * q + 1 \in 1 .. n
          /\ 3 * m + (3 * q + 1) = 3 * (m + q + 1) - 2
          /\ 3 * m + (3 * q + 2) = 3 * (m + q + 1) - 1
      BY <1>1, Thirds
    <2>2. /\ F[3 * (m + q + 1) - 2] = <<list[m + q + 1], "head">>
          /\ F[3 * (m + q + 1) - 1] = <<list[m + q + 1], "tail">>
      BY <2>1, FramedIs
    <2>3. text[3 * q + 1] = F[3 * m + (3 * q + 1)]
      BY <2>1
    <2>4. 3 * q + 2 \in 1 .. n => text[3 * q + 2] = F[3 * m + (3 * q + 2)]
      OBVIOUS
    <2> HIDE DEF F
    <2>5. text[3 * q + 1] = <<list[m + q + 1], "head">>
      BY <2>1, <2>2, <2>3
    <2>6. 3 * q + 2 \in 1 .. n => text[3 * q + 2] = <<list[m + q + 1], "tail">>
      BY <2>1, <2>2, <2>4
    <2>7. text[3 * q + 1][2] = "head"
      BY <2>5, PieceOf
    <2>8. 3 * q + 2 \in 1 .. n => text[3 * q + 2][2] = "tail"
      BY <2>6, PieceOf
    <2> QED BY <2>7, <2>8, Zenon
  <1>4. ASSUME NEW i \in 1 .. n
        PROVE  \/ \E k \in 1 .. q : i = 3 * k - 2 \/ i = 3 * k - 1 \/ i = 3 * k
               \/ i = 3 * q + 1 \/ i = 3 * q + 2
    <2>1. CASE i =< 3 * q
      <3>1. i \in 1 .. 3 * q
        BY <2>1
      <3> QED BY <3>1, ThirdOf
    <2>2. CASE 3 * q < i
      BY <1>1, <2>2
    <2>3. i =< 3 * q \/ 3 * q < i
      BY <1>1
    <2> QED BY <2>1, <2>2, <2>3
  <1> DEFINE S == {i \in DOMAIN text : Events!WholeAt(text, i) /\ i + 1 < Len(text)}
             s == [k \in 1 .. q |-> 3 * k - 2]
             ends == {i \in DOMAIN text : text[i][2] = "newline"}
  <1>5. Upwards(s, q, S)
    <2>1. ASSUME NEW k \in 1 .. q PROVE 3 * k - 2 \in S
      <3>1. k # 1 => k - 1 \in 1 .. q /\ (3 * k - 2) - 1 = 3 * (k - 1)
        OBVIOUS
      <3>2. k # 1 => text[3 * (k - 1)][2] = "newline"
        <4> SUFFICES ASSUME k # 1 PROVE text[3 * (k - 1)][2] = "newline"
          OBVIOUS
        <4>1. text[3 * (k - 1)] = <<list[m + (k - 1)], "newline">>
          BY <1>2, <3>1, Zenon
        <4> QED BY <4>1
      <3>3. SUFFICES ASSUME NEW i, i = 3 * k - 2 PROVE i \in S
        OBVIOUS
      <3>4. /\ i \in 1 .. n /\ i + 1 = 3 * k - 1 /\ i + 2 = 3 * k /\ i < n /\ i + 1 < n
            /\ k = 1 => i = 1
            /\ k # 1 => i - 1 = 3 * (k - 1)
        BY <1>1, <3>3, Thirds
      <3>5. /\ text[i] = <<list[m + k], "head">> /\ text[i + 1] = <<list[m + k], "tail">>
            /\ text[i + 2] = <<list[m + k], "newline">>
        BY <1>2, <3>3, <3>4
      <3>6. i = 1 \/ text[i - 1][2] = "newline"
        BY <3>2, <3>4
      <3>7. Events!WholeAt(text, i)
        BY <3>4, <3>5, <3>6 DEF Events!WholeAt
      <3> QED BY <1>1, <3>4, <3>7
    <2>2. ASSUME NEW i \in S PROVE \E k \in 1 .. q : 3 * k - 2 = i
      <3>1. i \in 1 .. n /\ text[i][2] = "head" /\ i + 1 < n
        BY <1>1 DEF Events!WholeAt
      <3>2. i # 3 * q + 1
        BY <1>1, <3>1
      <3>3. i # 3 * q + 2
        BY <1>1, <3>1
      <3>4. PICK k \in 1 .. q : i = 3 * k - 2 \/ i = 3 * k - 1 \/ i = 3 * k
        BY <1>4, <3>1, <3>2, <3>3
      <3>5. text[3 * k - 1][2] = "tail" /\ text[3 * k][2] = "newline"
        <4>1. text[3 * k - 1] = <<list[m + k], "tail">> /\ text[3 * k] = <<list[m + k], "newline">>
          BY <1>2, Zenon
        <4> QED BY <4>1
      <3>6. i = 3 * k - 2
        BY <3>1, <3>4, <3>5
      <3> QED BY <3>6
    <2> HIDE DEF S
    <2>3. s \in [1 .. q -> S]
      BY <2>1
    <2>4. \A x \in S : \E k \in 1 .. q : s[k] = x
      BY <2>2
    <2>5. \A j, k \in 1 .. q : j < k => s[j] < s[k]
      OBVIOUS
    <2> QED BY <2>3, <2>4, <2>5 DEF Upwards
  <1>6. Events!Decoded(text) = [k \in 1 .. q |-> list[m + k]]
    <2>1. S \in SUBSET Int
      BY <1>1
    <2> HIDE DEF S, s
    <2>2. Events!EventsAt(text, S) = [k \in 1 .. q |-> text[s[k]][1]]
      BY <1>5, <2>1, EventsAtUpwards
    <2>3. ASSUME NEW k \in 1 .. q PROVE text[s[k]][1] = list[m + k]
      <3>1. s[k] = 3 * k - 2
        BY DEF s
      <3>2. text[3 * k - 2] = <<list[m + k], "head">>
        BY <1>2, Zenon
      <3>3. text[3 * k - 2][1] = list[m + k]
        BY <3>2, PieceOf
      <3> QED BY <3>1, <3>3, Zenon
    <2> QED BY <2>2, <2>3 DEF Events!Decoded, S
  <1>7. ends = {3 * k : k \in 1 .. q}
    <2>1. ASSUME NEW i \in ends PROVE \E k \in 1 .. q : i = 3 * k
      <3>1. i \in 1 .. n /\ text[i][2] = "newline"
        BY <1>1
      <3>2. i # 3 * q + 1 /\ i # 3 * q + 2
        BY <1>3, <3>1
      <3>3. PICK k \in 1 .. q : i = 3 * k - 2 \/ i = 3 * k - 1 \/ i = 3 * k
        BY <1>4, <3>1, <3>2
      <3>4. text[3 * k - 2][2] = "head" /\ text[3 * k - 1][2] = "tail"
        <4>1. text[3 * k - 2] = <<list[m + k], "head">> /\ text[3 * k - 1] = <<list[m + k], "tail">>
          BY <1>2, Zenon
        <4> QED BY <4>1
      <3>5. i = 3 * k
        BY <3>1, <3>3, <3>4
      <3> QED BY <3>5
    <2>2. \A k \in 1 .. q : 3 * k \in ends
      BY <1>1, <1>2
    <2> QED BY <2>1, <2>2
  <1>8. Events!AfterLastNewline(text) = SubSeq(text, 3 * q + 1, Len(text))
    <2>1. CASE q = 0
      <3>1. ends = {}
        BY <1>7, <2>1
      <3>2. Events!AfterLastNewline(text) = text
        BY <3>1 DEF Events!AfterLastNewline
      <3>3. SubSeq(text, 1, Len(text)) = text
        OBVIOUS
      <3> QED BY <2>1, <3>2, <3>3
    <2>2. CASE q # 0
      <3>1. 3 * q \in ends /\ \A j \in ends : j =< 3 * q
        BY <1>7, <2>2
      <3> DEFINE last == CHOOSE i \in ends : \A j \in ends : j =< i
      <3>2. last \in ends /\ \A j \in ends : j =< last
        <4> HIDE DEF ends
        <4> QED BY <3>1
      <3>3. ends \subseteq Int
        BY <1>1
      <3>4. last = 3 * q
        <4> HIDE DEF ends, last
        <4>1. last \in Int /\ last =< 3 * q /\ 3 * q =< last
          BY <3>1, <3>2, <3>3
        <4> QED BY <4>1
      <3>5. Events!AfterLastNewline(text) = SubSeq(text, 1 + last, Len(text))
        BY <3>1, Zenon DEF Events!AfterLastNewline
      <3>6. 1 + last = 3 * q + 1
        <4> HIDE DEF last
        <4> QED BY <3>4
      <3> QED BY <3>5, <3>6, Zenon
    <2> QED BY <2>1, <2>2
  <1> QED BY <1>6, <1>8

-----------------------------------------------------------------------------
\* What the route reads for a client are the run's events, in their order.
InOrderOfRun(list) ==
    /\ list \in Seq(Int)
    /\ \A i \in DOMAIN list : list[i] \in Mine /\ \A j \in 1 .. i - 1 : list[j] < list[i]

LEMMA ShotInOrder ==
    ASSUME LogInv
    PROVE  InOrderOfRun(Events!OfRun(Events!ReadAll(trail)))
  <1>1. trail \in Seq(Piece) /\ DOMAIN trail = 1 .. Len(trail) /\ Len(trail) \in Nat
    BY DEF LogInv, LogTyped
  <1>2. PICK m \in Nat : \E s \in [1 .. m -> Whole] :
              /\ Upwards(s, m, Whole)
              /\ Events!ReadAll(trail) = [k \in 1 .. m |-> trail[s[k]][1]]
    BY <1>1, ReadAllIs
  <1>3. PICK s \in [1 .. m -> Whole] :
              /\ Upwards(s, m, Whole)
              /\ Events!ReadAll(trail) = [k \in 1 .. m |-> trail[s[k]][1]]
    BY <1>2
  <1> DEFINE E == [k \in 1 .. m |-> trail[s[k]][1]]
             P == {k \in 1 .. m : E[k] \in Mine}
  <1>4. \A k \in 1 .. m : s[k] \in DOMAIN trail /\ trail[s[k]][2] = "head" /\ s[k] \in Int
    <2>1. \A i \in Whole : i \in DOMAIN trail /\ trail[i][2] = "head" /\ i \in Int
      BY <1>1 DEF Whole, Events!WholeAt
    <2> QED BY <2>1
  <1>5. \A k \in 1 .. m : E[k] \in Int
    BY <1>1, <1>4 DEF Piece
  <1>6. \A j, k \in 1 .. m : j < k => E[j] < E[k]
    <2> SUFFICES ASSUME NEW j \in 1 .. m, NEW k \in 1 .. m, j < k
                 PROVE  trail[s[j]][1] < trail[s[k]][1]
      OBVIOUS
    <2>1. s[j] < s[k]
      BY <1>3 DEF Upwards
    <2> QED BY <1>4, <2>1 DEF LogInv, InOrderWritten
  <1>7. IsFiniteSet(1 .. m)
    BY FS_Interval
  <1>8. P \in SUBSET (1 .. m) /\ P \in SUBSET Int
    OBVIOUS
  <1> HIDE DEF E
  <1>9. P = {k \in DOMAIN E : E[k] \in Mine}
    BY DEF E
  <1>10. \A k \in P : E[k] \in Mine
    OBVIOUS
  <1> HIDE DEF P
  <1>11. IsFiniteSet(P)
    BY <1>7, <1>8, FS_Subset
  <1>12. PICK n \in Nat : \E u \in [1 .. n -> P] : Upwards(u, n, P)
    BY <1>8, <1>11, UpwardsExists
  <1>13. PICK u \in [1 .. n -> P] : Upwards(u, n, P)
    BY <1>12
  <1> DEFINE list == Events!OfRun(Events!ReadAll(trail))
  <1>14. list = [k \in 1 .. n |-> E[u[k]]]
    <2>1. Events!At(E, P) = [k \in 1 .. n |-> E[u[k]]]
      BY <1>8, <1>13, EventsAtPlaces
    <2>2. Events!ReadAll(trail) = E
      BY <1>3 DEF E
    <2> QED BY <1>9, <2>1, <2>2 DEF Events!OfRun
  <1> HIDE DEF list
  <1>15. \A k \in 1 .. n : u[k] \in 1 .. m /\ E[u[k]] \in Int /\ E[u[k]] \in Mine
    BY <1>5, <1>8, <1>10
  <1>16. \A j, k \in 1 .. n : j < k => E[u[j]] < E[u[k]]
    <2> SUFFICES ASSUME NEW j \in 1 .. n, NEW k \in 1 .. n, j < k PROVE E[u[j]] < E[u[k]]
      OBVIOUS
    <2>1. u[j] < u[k]
      BY <1>13 DEF Upwards
    <2> QED BY <1>6, <1>15, <2>1
  <1>17. list \in Seq(Int)
    BY <1>14, <1>15
  <1>18. \A i \in DOMAIN list : list[i] \in Mine /\ \A j \in 1 .. i - 1 : list[j] < list[i]
    <2>1. ASSUME NEW i \in 1 .. n PROVE list[i] \in Mine /\ \A j \in 1 .. i - 1 : list[j] < list[i]
      <3>1. \A j \in 1 .. i - 1 : j \in 1 .. n /\ j < i
        OBVIOUS
      <3> QED BY <1>14, <1>15, <1>16, <3>1
    <2> QED BY <1>14, <2>1
  <1> QED BY <1>17, <1>18 DEF InOrderOfRun, list

-----------------------------------------------------------------------------
\* The response: what was handed over, what is due and what is still to come
\* are the events that were read for it, one after the other.
Handed == Len(seen) + Len(due)

StreamInv ==
    /\ InOrderOfRun(shot) /\ spoiled \subseteq Wide
    /\ seen \in Seq(Int) /\ due \in Seq(Int) /\ Handed =< Len(shot)
    /\ \A k \in 1 .. Len(seen) : seen[k] = shot[k]
    /\ \A k \in 1 .. Len(due) : due[k] = shot[Len(seen) + k]
    /\ client \in {"idle", "reading", "ended", "broken"}
    /\ client = "idle" => shot = <<>> /\ buffer = <<>>
    /\ client = "ended" => Handed = Len(shot) /\ due = <<>>
    /\ client = "reading" =>
          /\ wire \in Seq(Piece) /\ buffer \in Seq(Piece)
          /\ Len(buffer) < 3 /\ Len(buffer) + Len(wire) = 3 * (Len(shot) - Handed)
          /\ \A i \in 1 .. Len(buffer) : buffer[i] = Events!Framed(shot)[3 * Handed + i]
          /\ \A i \in 1 .. Len(wire) :
                wire[i] = Events!Framed(shot)[3 * Handed + Len(buffer) + i]

LEMMA SeenInOrder == ASSUME StreamInv PROVE Events!SeenAsKept
  <1>1. seen \in Seq(Int) /\ due \in Seq(Int) /\ shot \in Seq(Int) /\ Handed =< Len(shot)
    BY DEF StreamInv, InOrderOfRun
  <1>2. Len(seen) \in Nat /\ Len(due) \in Nat /\ Len(shot) \in Nat
    BY <1>1
  <1>3. Len(seen) =< Len(shot)
    BY <1>1, <1>2 DEF Handed
  <1>4. seen = SubSeq(shot, 1, Len(seen))
    <2>1. \A k \in 1 .. Len(seen) : seen[k] = shot[k]
      BY DEF StreamInv
    <2>2. SubSeq(shot, 1, Len(seen)) = [k \in 1 .. Len(seen) |-> shot[k]]
      BY <1>1, <1>2, <1>3
    <2>3. seen = [k \in 1 .. Len(seen) |-> seen[k]]
      BY <1>1
    <2> QED BY <2>1, <2>2, <2>3
  <1>5. client = "ended" => seen = shot
    <2> SUFFICES ASSUME client = "ended" PROVE seen = shot
      OBVIOUS
    <2>1. Len(seen) = Len(shot)
      BY <1>2 DEF StreamInv, Handed
    <2>2. SubSeq(shot, 1, Len(shot)) = shot
      BY <1>1
    <2> QED BY <1>4, <2>1, <2>2
  <1> QED BY <1>3, <1>4, <1>5 DEF Events!SeenAsKept, StreamInv, InOrderOfRun

LEMMA StreamInit == Events!Init => StreamInv
  <1> SUFFICES ASSUME Events!Init PROVE StreamInv
    OBVIOUS
  <1>1. /\ shot = <<>> /\ buffer = <<>> /\ spoiled = {} /\ due = <<>> /\ seen = <<>>
        /\ client = "idle"
    BY DEF Events!Init
  <1> QED BY <1>1 DEF StreamInv, InOrderOfRun, Handed

LEMMA StreamUnchanged ==
    ASSUME StreamInv, UNCHANGED <<shot, buffer, spoiled, due, seen>>,
           \/ UNCHANGED <<wire, client>>
           \/ client' = "broken"
           \/ client # "reading" /\ client' = client
    PROVE  StreamInv'
  BY DEF StreamInv, Handed, InOrderOfRun

LEMMA StreamSubscribe ==
    ASSUME LogInv, StreamInv, Events!Subscribe, Events!Decodes(trail)
    PROVE  StreamInv'
  <1>1. /\ client = "idle" /\ client' = "reading"
        /\ shot' = Events!OfRun(Events!ReadAll(trail)) /\ wire' = Events!Framed(shot')
        /\ buffer' = buffer /\ spoiled' = spoiled /\ due' = due /\ seen' = seen
    BY DEF Events!Subscribe
  <1>2. /\ seen \in Seq(Int) /\ due \in Seq(Int) /\ shot = <<>> /\ buffer = <<>> /\ Handed =< Len(shot)
    BY <1>1 DEF StreamInv
  <1>3. seen = <<>> /\ due = <<>> /\ Handed' = 0
    <2>1. Len(seen) = 0 /\ Len(due) = 0
      BY <1>2 DEF Handed
    <2>2. seen = <<>> /\ due = <<>>
      BY <1>2, <2>1
    <2> QED BY <1>1, <2>1, <2>2 DEF Handed
  <1>4. InOrderOfRun(shot')
    BY <1>1, ShotInOrder
  <1>5. shot' \in Seq(Int)
    BY <1>4 DEF InOrderOfRun
  <1>6. wire' \in Seq(Piece) /\ Len(wire') = 3 * Len(shot') /\ Len(shot') \in Nat
    BY <1>1, <1>5, FramedIs
  <1>7. InOrderOfRun(shot)'
    BY <1>4 DEF InOrderOfRun
  <1>8. /\ seen' = <<>> /\ due' = <<>> /\ buffer' = <<>>
    BY <1>1, <1>2, <1>3
  <1>9. /\ wire' \in Seq(Piece) /\ buffer' \in Seq(Piece) /\ Len(buffer') < 3
        /\ Len(buffer') + Len(wire') = 3 * (Len(shot') - Handed')
        /\ \A i \in 1 .. Len(buffer') : buffer'[i] = Events!Framed(shot')[3 * Handed' + i]
        /\ \A i \in 1 .. Len(wire') :
              wire'[i] = Events!Framed(shot')[3 * Handed' + Len(buffer') + i]
    <2>1. Len(buffer') = 0 /\ buffer' \in Seq(Piece)
      BY <1>8
    <2>2. \A i \in 1 .. Len(wire') : 3 * 0 + 0 + i = i
      OBVIOUS
    <2> QED BY <1>1, <1>3, <1>6, <2>1, <2>2
  <1>10. /\ seen' \in Seq(Int) /\ due' \in Seq(Int) /\ Handed' =< Len(shot')
         /\ spoiled' \subseteq Wide
         /\ \A k \in 1 .. Len(seen') : seen'[k] = shot'[k]
         /\ \A k \in 1 .. Len(due') : due'[k] = shot'[Len(seen') + k]
    BY <1>1, <1>3, <1>6, <1>8 DEF StreamInv
  <1> QED BY <1>1, <1>7, <1>9, <1>10 DEF StreamInv

LEMMA TailOf ==
    ASSUME NEW X, NEW s \in Seq(X), NEW i \in 1 .. Len(s) + 1
    PROVE  /\ SubSeq(s, i, Len(s)) \in Seq(X)
           /\ Len(SubSeq(s, i, Len(s))) = Len(s) - i + 1
           /\ \A k \in 1 .. Len(s) - i + 1 : SubSeq(s, i, Len(s))[k] = s[i + k - 1]
  OBVIOUS

LEMMA Joined ==
    ASSUME NEW s \in Seq(Piece), NEW t \in Seq(Piece), NEW n \in Nat, Len(t) = n
    PROVE  /\ s \o t \in Seq(Piece) /\ Len(s \o t) = Len(s) + n
           /\ \A i \in 1 .. Len(s) : (s \o t)[i] = s[i]
           /\ \A i \in Len(s) + 1 .. Len(s) + n : (s \o t)[i] = t[i - Len(s)]
  OBVIOUS

LEMMA StreamReadChunk == ASSUME StreamInv, Events!ReadChunk PROVE StreamInv'
  <1>1. /\ client = "reading" /\ client' = "reading" /\ due = <<>>
        /\ shot' = shot /\ seen' = seen
    BY DEF Events!ReadChunk
  <1>2. PICK n \in 1 .. Len(wire) :
           /\ due' = Events!Decoded(buffer \o SubSeq(wire, 1, n))
           /\ buffer' = Events!AfterLastNewline(buffer \o SubSeq(wire, 1, n))
           /\ wire' = SubSeq(wire, n + 1, Len(wire))
           /\ spoiled' = spoiled \cup Events!SpoiledBy(n)
    BY DEF Events!ReadChunk
  <1> DEFINE text == buffer \o SubSeq(wire, 1, n)
             F == Events!Framed(shot)
             m == Len(seen)
             b == Len(buffer)
             L == Len(shot)
             w == Len(wire)
  <1>3. /\ shot \in Seq(Int) /\ seen \in Seq(Int) /\ wire \in Seq(Piece) /\ buffer \in Seq(Piece)
        /\ \A k \in 1 .. m : seen[k] = shot[k]
    BY <1>1 DEF StreamInv, InOrderOfRun
  <1>4. Handed = m /\ m \in Nat /\ b \in Nat /\ L \in Nat /\ w \in Nat
    BY <1>1, <1>3 DEF Handed
  <1>5. /\ m =< L /\ b + w = 3 * (L - m)
        /\ \A i \in 1 .. b : buffer[i] = F[3 * m + i]
        /\ \A i \in 1 .. w : wire[i] = F[3 * m + b + i]
    BY <1>1, <1>4 DEF StreamInv
  <1>6. /\ text \in Seq(Piece) /\ Len(text) = b + n
        /\ \A i \in 1 .. b : text[i] = buffer[i]
        /\ \A i \in b + 1 .. b + n : text[i] = wire[i - b]
    <2> DEFINE c == SubSeq(wire, 1, n)
    <2>1. c \in Seq(Piece) /\ Len(c) = n /\ \A i \in 1 .. n : c[i] = wire[i]
      BY <1>3, <1>4
    <2> HIDE DEF c
    <2>0. n \in Nat
      BY <1>4
    <2>2. /\ buffer \o c \in Seq(Piece) /\ Len(buffer \o c) = b + n
          /\ \A i \in 1 .. b : (buffer \o c)[i] = buffer[i]
          /\ \A i \in b + 1 .. b + n : (buffer \o c)[i] = c[i - b]
      BY <1>3, <2>0, <2>1, Joined, Zenon
    <2>3. \A i \in b + 1 .. b + n : i - b \in 1 .. n
      BY <1>4
    <2> QED BY <2>1, <2>2, <2>3 DEF c
  <1> HIDE DEF text, F, m, b, L, w
  <1>7. \A i \in 1 .. b + n : text[i] = F[3 * m + i]
    <2> SUFFICES ASSUME NEW i \in 1 .. b + n PROVE text[i] = F[3 * m + i]
      OBVIOUS
    <2>1. CASE i =< b
      BY <1>4, <1>5, <1>6, <2>1
    <2>2. CASE b < i
      <3>1. i \in b + 1 .. b + n /\ i - b \in 1 .. w /\ 3 * m + b + (i - b) = 3 * m + i
        BY <1>4, <2>2 DEF w
      <3> QED BY <1>5, <1>6, <3>1
    <2> QED BY <1>4, <2>1, <2>2
  <1> DEFINE q == (b + n) \div 3
  <1>8. q \in Nat /\ 3 * q =< b + n /\ b + n < 3 * q + 3 /\ b + n =< 3 * (L - m)
    BY <1>4, <1>5 DEF w
  <1> HIDE DEF q
  <1>9. m + q =< L /\ m \in 0 .. L
    BY <1>4, <1>5, <1>8
  <1>10. /\ due' = [k \in 1 .. q |-> shot[m + k]]
         /\ buffer' = SubSeq(text, 3 * q + 1, b + n)
    <2>1. /\ m \in 0 .. Len(shot) /\ Len(text) =< 3 * (Len(shot) - m)
          /\ \A i \in 1 .. Len(text) : text[i] = Events!Framed(shot)[3 * m + i]
          /\ 3 * q =< Len(text) /\ Len(text) < 3 * q + 3
      BY <1>6, <1>7, <1>8, <1>9 DEF L, F
    <2>2. /\ Events!Decoded(text) = [k \in 1 .. q |-> shot[m + k]]
          /\ Events!AfterLastNewline(text) = SubSeq(text, 3 * q + 1, Len(text))
      BY <1>3, <1>6, <1>8, <2>1, DecodedIs
    <2> QED BY <1>2, <1>6, <2>2 DEF text
  <1>11. due' \in Seq(Int) /\ Len(due') = q /\ \A k \in 1 .. q : due'[k] = shot[m + k]
    <2>1. \A k \in 1 .. q : shot[m + k] \in Int
      BY <1>3, <1>4, <1>8, <1>9 DEF L
    <2> QED BY <1>8, <1>10, <2>1
  <1>12. Handed' = m + q
    BY <1>1, <1>11 DEF Handed, m
  <1>13. /\ buffer' \in Seq(Piece) /\ Len(buffer') = b + n - 3 * q
         /\ \A i \in 1 .. b + n - 3 * q : buffer'[i] = F[3 * (m + q) + i]
    <2>0. 3 * q + 1 \in 1 .. b + n + 1 /\ b + n \in Nat /\ b + n - 3 * q \in Nat
      BY <1>4, <1>8
    <2>3. /\ buffer' \in Seq(Piece)
          /\ Len(buffer') = (b + n) - (3 * q + 1) + 1
          /\ \A i \in 1 .. (b + n) - (3 * q + 1) + 1 : buffer'[i] = text[(3 * q + 1) + i - 1]
      BY <1>6, <1>10, <2>0, TailOf
    <2>4. /\ (b + n) - (3 * q + 1) + 1 = b + n - 3 * q
          /\ \A i \in 1 .. b + n - 3 * q : (3 * q + 1) + i - 1 = 3 * q + i
      BY <1>4, <1>8
    <2>1. /\ buffer' \in Seq(Piece) /\ Len(buffer') = b + n - 3 * q
          /\ \A i \in 1 .. b + n - 3 * q : buffer'[i] = text[3 * q + i]
      BY <2>3, <2>4
    <2>2. \A i \in 1 .. b + n - 3 * q :
             3 * q + i \in 1 .. b + n /\ 3 * m + (3 * q + i) = 3 * (m + q) + i
      BY <1>4, <1>8
    <2> QED BY <1>7, <2>1, <2>2
  <1>14. /\ wire' \in Seq(Piece) /\ Len(wire') = w - n
         /\ \A i \in 1 .. w - n : wire'[i] = F[3 * (m + q) + (b + n - 3 * q) + i]
    <2>1. /\ wire' \in Seq(Piece) /\ Len(wire') = w - n
          /\ \A i \in 1 .. w - n : wire'[i] = wire[n + i]
      BY <1>2, <1>3, <1>4 DEF w
    <2>2. \A i \in 1 .. w - n :
             /\ n + i \in 1 .. w
             /\ 3 * m + b + (n + i) = 3 * (m + q) + (b + n - 3 * q) + i
      BY <1>4, <1>8 DEF w
    <2> QED BY <1>5, <2>1, <2>2
  <1>18. spoiled' \subseteq Wide
    <2>1. Events!SpoiledBy(n) \subseteq Wide
      BY DEF Events!SpoiledBy, Events!Divided
    <2> QED BY <1>2, <2>1 DEF StreamInv
  <1>15. /\ InOrderOfRun(shot)' /\ seen' \in Seq(Int) /\ Handed' =< Len(shot')
         /\ \A k \in 1 .. Len(seen') : seen'[k] = shot'[k]
         /\ \A k \in 1 .. Len(due') : due'[k] = shot'[Len(seen') + k]
    <2>1. InOrderOfRun(shot)'
      BY <1>1 DEF StreamInv, InOrderOfRun
    <2> QED BY <1>1, <1>3, <1>9, <1>11, <1>12, <2>1 DEF m, L
  <1>16. /\ Len(buffer') < 3 /\ Len(buffer') + Len(wire') = 3 * (Len(shot') - Handed')
    <2>1. b + n - 3 * q < 3 /\ q \in Nat /\ n \in Nat
      BY <1>4, <1>8
    <2>0. b + w = 3 * (L - m)
      BY <1>5
    <2>3. (b + n - 3 * q) + (w - n) = 3 * (L - (m + q))
      <3> HIDE DEF b, w, m, L
      <3> QED BY <1>4, <2>0, <2>1
    <2>2. /\ Len(buffer') = b + n - 3 * q /\ Len(wire') = w - n /\ Len(shot') = L /\ Handed' = m + q
      BY <1>1, <1>12, <1>13, <1>14 DEF L
    <2> QED BY <2>1, <2>2, <2>3, Zenon
  <1>17. /\ \A i \in 1 .. Len(buffer') : buffer'[i] = Events!Framed(shot')[3 * Handed' + i]
         /\ \A i \in 1 .. Len(wire') :
               wire'[i] = Events!Framed(shot')[3 * Handed' + Len(buffer') + i]
    BY <1>1, <1>12, <1>13, <1>14 DEF F
  <1> QED BY <1>1, <1>11, <1>13, <1>14, <1>15, <1>16, <1>17, <1>18 DEF StreamInv

LEMMA StreamOnEvent == ASSUME StreamInv, Events!OnEvent PROVE StreamInv'
  <1>1. /\ due # <<>> /\ seen' = Append(seen, Head(due)) /\ due' = Tail(due)
        /\ shot' = shot /\ wire' = wire /\ buffer' = buffer /\ client' = client
        /\ spoiled' = spoiled
    BY DEF Events!OnEvent
  <1>2. /\ seen \in Seq(Int) /\ due \in Seq(Int) /\ shot \in Seq(Int) /\ Handed =< Len(shot)
        /\ \A k \in 1 .. Len(seen) : seen[k] = shot[k]
        /\ \A k \in 1 .. Len(due) : due[k] = shot[Len(seen) + k]
    BY DEF StreamInv, InOrderOfRun
  <1>3. /\ seen' \in Seq(Int) /\ Len(seen') = Len(seen) + 1
        /\ \A k \in 1 .. Len(seen) : seen'[k] = seen[k]
        /\ seen'[Len(seen) + 1] = due[1]
        /\ due' \in Seq(Int) /\ Len(due') = Len(due) - 1
        /\ \A k \in 1 .. Len(due) - 1 : due'[k] = due[k + 1]
        /\ Len(seen) \in Nat /\ Len(due) \in Nat /\ Len(due) > 0
    BY <1>1, <1>2
  <1>4. Handed' = Handed
    BY <1>3 DEF Handed
  <1>5. \A k \in 1 .. Len(seen') : seen'[k] = shot'[k]
    <2> SUFFICES ASSUME NEW k \in 1 .. Len(seen) + 1 PROVE seen'[k] = shot[k]
      BY <1>1, <1>3
    <2>1. CASE k = Len(seen) + 1
      BY <1>2, <1>3, <2>1
    <2>2. CASE k # Len(seen) + 1
      <3>1. k \in 1 .. Len(seen)
        BY <1>3, <2>2
      <3> QED BY <1>2, <1>3, <3>1
    <2> QED BY <2>1, <2>2
  <1>6. \A k \in 1 .. Len(due') : due'[k] = shot'[Len(seen') + k]
    <2> SUFFICES ASSUME NEW k \in 1 .. Len(due) - 1 PROVE due'[k] = shot[Len(seen) + 1 + k]
      BY <1>1, <1>3
    <2>1. k + 1 \in 1 .. Len(due) /\ Len(seen) + (k + 1) = Len(seen) + 1 + k
      BY <1>3
    <2> QED BY <1>2, <1>3, <2>1
  <1>7. client # "ended"
    BY <1>1 DEF StreamInv
  <1>8. InOrderOfRun(shot)'
    BY <1>1 DEF StreamInv, InOrderOfRun
  <1>9. client' = "reading" =>
           /\ wire' \in Seq(Piece) /\ buffer' \in Seq(Piece)
           /\ Len(buffer') < 3 /\ Len(buffer') + Len(wire') = 3 * (Len(shot') - Handed')
           /\ \A i \in 1 .. Len(buffer') : buffer'[i] = Events!Framed(shot')[3 * Handed' + i]
           /\ \A i \in 1 .. Len(wire') :
                 wire'[i] = Events!Framed(shot')[3 * Handed' + Len(buffer') + i]
    <2> HIDE DEF Handed
    <2> QED BY <1>1, <1>4 DEF StreamInv
  <1>10. /\ client' \in {"idle", "reading", "ended", "broken"} /\ Handed' =< Len(shot')
         /\ client' = "idle" => shot' = <<>> /\ buffer' = <<>>
         /\ spoiled' \subseteq Wide
    BY <1>1, <1>2, <1>4 DEF StreamInv
  <1> QED BY <1>1, <1>3, <1>5, <1>6, <1>7, <1>8, <1>9, <1>10 DEF StreamInv

LEMMA StreamEnd == ASSUME StreamInv, Events!StreamEnds PROVE StreamInv'
  <1>1. /\ client = "reading" /\ due = <<>> /\ UNCHANGED <<shot, wire, buffer, spoiled, due, seen>>
        /\ client' \in {"ended", "broken"} /\ (client' = "ended" => wire = <<>>)
    BY DEF Events!StreamEnds
  <1>2. CASE client' = "broken"
    BY <1>1, <1>2, StreamUnchanged
  <1>3. CASE client' = "ended"
    <2>1. /\ seen \in Seq(Int) /\ due \in Seq(Int) /\ shot \in Seq(Int) /\ Handed =< Len(shot)
          /\ buffer \in Seq(Piece) /\ Len(buffer) < 3
          /\ Len(buffer) + Len(wire) = 3 * (Len(shot) - Handed)
      BY <1>1 DEF StreamInv, InOrderOfRun
    <2>2. Handed = Len(shot)
      <3>1. Len(wire) = 0 /\ Len(buffer) \in Nat /\ Handed \in Nat /\ Len(shot) \in Nat
        BY <1>1, <1>3, <2>1 DEF Handed
      <3> QED BY <2>1, <3>1
    <2>3. Handed' = Handed
      BY <1>1 DEF Handed
    <2> QED BY <1>1, <1>3, <2>2, <2>3 DEF StreamInv, InOrderOfRun
  <1> QED BY <1>1, <1>2, <1>3

LEMMA StreamNext == LogInv /\ StreamInv /\ [Events!Next]_events => StreamInv'
  <1> SUFFICES ASSUME LogInv, StreamInv, [Events!Next]_events PROVE StreamInv'
    OBVIOUS
  <1>1. CASE UNCHANGED <<shot, wire, buffer, spoiled, due, seen, client>>
    BY <1>1, StreamUnchanged
  <1>2. ASSUME NEW t \in Threads, Events!BeginEmit(t) \/ Events!WritePiece(t) PROVE StreamInv'
    BY <1>1, <1>2 DEF Events!BeginEmit, Events!WritePiece, Events!stream
  <1>3. CASE Events!Crash
    <2>1. /\ UNCHANGED <<shot, buffer, spoiled, due, seen>>
          /\ client' = "broken" \/ (client # "reading" /\ client' = client)
      BY <1>3 DEF Events!Crash
    <2> QED BY <2>1, StreamUnchanged
  <1>4. CASE Events!Subscribe
    <2>1. CASE Events!Decodes(trail)
      BY <1>4, <2>1, StreamSubscribe
    <2>2. CASE ~Events!Decodes(trail)
      <3>1. UNCHANGED <<shot, wire, buffer, spoiled, due, seen>> /\ client' = "broken"
        BY <1>4, <2>2 DEF Events!Subscribe
      <3> QED BY <3>1, StreamUnchanged
    <2> QED BY <2>1, <2>2
  <1>5. CASE Events!ReadChunk
    BY <1>5, StreamReadChunk
  <1>6. CASE Events!OnEvent
    BY <1>6, StreamOnEvent
  <1>7. CASE Events!Dispose
    BY <1>1, <1>7 DEF Events!Dispose
  <1>8. CASE Events!StreamEnds
    BY <1>8, StreamEnd
  <1>9. CASE Events!ConnectionLost
    <2>1. UNCHANGED <<shot, buffer, spoiled, due, seen>> /\ client' = "broken"
      BY <1>9 DEF Events!ConnectionLost
    <2> QED BY <2>1, StreamUnchanged
  <1>10. CASE UNCHANGED events
    BY <1>1, <1>10 DEF events
  <1> QED BY <1>2, <1>3, <1>4, <1>5, <1>6, <1>7, <1>8, <1>9, <1>10 DEF Events!Next

-----------------------------------------------------------------------------
(***************************************************************************)
(* The composition: a step is one of the part's own, or leaves it alone.   *)
(***************************************************************************)
ServicesInv ==
    /\ part = "tools" => ToolsInv
    /\ part = "models" => ModelsInv
    /\ part = "models" /\ RulesAgree => Allowed
    /\ part = "workspace" => WorkspaceInv
    /\ part = "graph" => GraphInv
    /\ part = "interfaces" => InterfacesInv
    /\ part = "failures" => FailuresInv
    /\ part = "contract" => ContractInv
    /\ part = "events" => LogInv /\ StreamInv

\* A step of the state graph is a step of its part, or none.
LEMMA PartSteps ==
    ASSUME [Next]_vars
    PROVE  /\ part' = part
           /\ part = "tools" => [Mcp!Next]_tools
           /\ part = "models" => [Calls!Next]_models
           /\ part = "workspace" => [Artifact!Next]_workspace
           /\ part = "graph" => [Graph!Next]_graph
           /\ part = "interfaces" => [Interfaces!Next]_interfaces
           /\ part = "failures" => [Failing!Next]_failures
           /\ part = "contract" => [Contract!Next]_contract
           /\ part = "events" => [Events!Next]_events
  <1>1. CASE UNCHANGED vars
    BY <1>1 DEF vars
  <1>2. CASE Next
    BY <1>2 DEF Next, In
  <1> QED BY <1>1, <1>2

\* The invariants of the parts are invariants of the state graph.
LEMMA ServicesInvariance == Spec => []ServicesInv
  <1>1. Init => ServicesInv
    BY ToolsInit, ModelsInit, WorkspaceInit, GraphInit, InterfacesInit, FailuresInit,
       ContractInit, LogInit, StreamInit DEF Init, ServicesInv
  <1>2. ServicesInv /\ [Next]_vars => ServicesInv'
    <2> SUFFICES ASSUME ServicesInv, [Next]_vars PROVE ServicesInv'
      OBVIOUS
    <2>1. part = "tools" => ToolsInv'
      BY PartSteps, ToolsNext DEF ServicesInv
    <2>2. part = "models" => ModelsInv' /\ (RulesAgree => Allowed')
      BY PartSteps, ModelsNext DEF ServicesInv
    <2>3. RulesAgree' = RulesAgree
      BY DEF RulesAgree
    <2>4. part = "workspace" => WorkspaceInv'
      BY PartSteps, WorkspaceNext DEF ServicesInv
    <2>5. part = "graph" => GraphInv'
      BY PartSteps, GraphNext DEF ServicesInv
    <2>6. part = "interfaces" => InterfacesInv'
      BY PartSteps, InterfacesNext DEF ServicesInv
    <2>7. part = "failures" => FailuresInv'
      BY PartSteps, FailuresNext DEF ServicesInv
    <2>8. part = "contract" => ContractInv'
      BY PartSteps, ContractNext DEF ServicesInv
    <2>9. part = "events" => LogInv' /\ StreamInv'
      BY PartSteps, LogNext, StreamNext DEF ServicesInv
    <2> QED
      BY <2>1, <2>2, <2>3, <2>4, <2>5, <2>6, <2>7, <2>8, <2>9, PartSteps DEF ServicesInv
  <1> QED BY <1>1, <1>2, PTL DEF Spec

-----------------------------------------------------------------------------
\* Discovery without a server offers what servers offered last (FR-MC-012), for
\* any servers and through any crash, one inside the write of the cache too.
THEOREM OfferedFromCache == Spec => []FallbackIsLastListing
  <1>1. ServicesInv => FallbackIsLastListing
    BY DEF ServicesInv, ToolsInv, FallbackIsLastListing
  <1> QED BY <1>1, ServicesInvariance, PTL

\* No tool that is offered runs with arguments its schema refuses, whether its
\* schema was listed by its server or read from the cache (mcp_manager.py:154).
THEOREM OfferedIsValidated == Spec => []KnownToolsValidated
  <1>1. ServicesInv => KnownToolsValidated
    BY DEF ServicesInv, ToolsInv, KnownToolsValidated
  <1> QED BY <1>1, ServicesInvariance, PTL

\* Every completion that arrived is in the phase's account once, or was lost
\* with the step that raised, and the report is of the whole account, for any
\* policy, budget and number of retries (session_bridge.py:77-79).
THEOREM CompletionsAccounted == Spec => []AnswersAccounted
  <1>1. ServicesInv => AnswersAccounted
    <2> SUFFICES ASSUME ServicesInv, part = "models" PROVE Calls!AnswersAccounted
      BY DEF AnswersAccounted
    <2>1. step.pc = "idle" => usage + lost = answers
      BY DEF ServicesInv, ModelsInv, ModelsTyped, Accounted
    <2> QED BY <2>1 DEF ServicesInv, ModelsInv, Accounted, Calls!AnswersAccounted
  <1> QED BY <1>1, ServicesInvariance, PTL

\* No prompt goes to a model that a rule forbids, whatever was routed and
\* however often it was asked, if the value that a policy puts in the place of
\* a forbidden one satisfies all of its rules: select() does not check the
\* replacement again (model_router.py:115-133).
THEOREM OnlyPermittedCalled ==
    ASSUME RulesAgree
    PROVE  Spec => []OnlyAllowedModels
  <1>1. ServicesInv => OnlyAllowedModels
    BY DEF ServicesInv, Allowed, OnlyAllowedModels, Calls!OnlyAllowedModels
  <1> QED BY <1>1, ServicesInvariance, PTL

\* A document that was written is accepted, and the checksums of completed phases
\* hold through retries, failed writes, rollbacks and resumes, but for the
\* GENERATED.md where code goes, in any pipeline whose tables fit each other
\* (openhands_adapter.py:1258, development_manager.py:465-472).
THEOREM WorkspaceStands == Spec => []ArtifactsStand
  <1>1. WorkspaceInv => Artifact!SuccessAccepted
    <2> SUFFICES ASSUME WorkspaceInv, Artifact!Written, Artifact!Due \in DOMAIN ArtifactSchemas
                 PROVE  Artifact!ValidDocument(ArtifactSchemas[Artifact!Due])
      BY DEF Artifact!SuccessAccepted
    <2>1. dispatch.pc = "writing" /\ dispatch.queue = <<>>
      BY DEF Artifact!Written
    <2>2. ~ \E j \in DOMAIN dispatch.queue : TRUE
      BY <2>1
    <2> QED BY <2>1, <2>2 DEF WorkspaceInv, UnderWay
  <1>2. ServicesInv => ArtifactsStand
    BY <1>1 DEF ServicesInv, WorkspaceInv, ArtifactsStand
  <1> QED BY <1>2, ServicesInvariance, PTL

\* "allowed_outputs is the closed set of paths/prefixes a phase agent may write"
\* (phase_contracts.py:56): no step changes another file, whatever paths a model
\* names and wherever the step stops.
THEOREM WritesWithinOutputs == Spec => OutputsOwned
  <1>1. ServicesInv /\ [Next]_vars => (part = "workspace" => Artifact!SingleWriter)
    BY PartSteps, WorkspaceWrites DEF ServicesInv
  <1> QED BY <1>1, ServicesInvariance, PTL DEF OutputsOwned, Spec

\* validate() accepts exactly the graphs that name known phases only and have no
\* cycle, for any number of phases, kept in any order (phase_dag.py).
THEOREM AcceptsAcyclic == Spec => []ValidatesGraph
  <1>1. ServicesInv => ValidatesGraph
    BY DEF ServicesInv, GraphInv, ValidatesGraph
  <1> QED BY <1>1, ServicesInvariance, PTL

\* downstream_of() ends with the least set of phases that is closed downstream of
\* its argument, the set that rollback and resume are modelled with: it leaves no
\* phase on an output that was discarded, and sends back none without a reason.
THEOREM ReachesAllDownstream == Spec => []DownstreamIsLeast
  <1>1. ServicesInv => DownstreamIsLeast
    BY DEF ServicesInv, GraphInv, DownstreamIsLeast
  <1> QED BY <1>1, ServicesInvariance, PTL

\* The siblings in a repair prompt come closest first, the closest of all among
\* them, nothing whose block would still fit is left out, and the map exceeds its
\* cap by its blank lines and note at most, but for a closest that does so alone,
\* for any number of siblings of any size (interface_map.py:139-160).
THEOREM ShowsClosest == Spec => []ClosestShown
  <1>1. ServicesInv => ClosestShown
    BY ClosestAreShown DEF ServicesInv, ClosestShown
  <1> QED BY <1>1, ServicesInvariance, PTL

\* A round of repair takes the artifacts that the report implicates, each once and
\* the one with the most failures of one error first, and shows each the largest
\* of its clusters, for reports of any length (localize.py:15-18).
THEOREM RepairsLargestFirst == Spec => []LargestCauseFirst
  <1>1. ServicesInv => LargestCauseFirst
    BY DEF ServicesInv, FailuresInv, LargestCauseFirst
  <1> QED BY <1>1, ServicesInvariance, PTL

\* A proposal and every later prompt has the whole contract, what was pinned and
\* then what was recorded, a proposal that is not cut the whole context, and no
\* line moves between the two, for any file with any markers in it and any number
\* of rounds (resolver.py:59-85, 108-137).
THEOREM PinnedInEveryPrompt == Spec => []PinnedReachesPhases
  <1>1. ServicesInv => PinnedReachesPhases
    BY DEF ServicesInv, ContractInv, PinnedReachesPhases
  <1> QED BY <1>1, ServicesInvariance, PTL

\* However many threads emit, a trail that no crash broke can be decoded, and
\* wherever the process dies, one that still can be has lost at most one event for
\* each crash (event_bus.py:78-80, 90-101).
THEOREM LosesOnePerCrash == Spec => []OneLostPerCrash
  <1>1. ServicesInv => OneLostPerCrash
    BY OneIsLost DEF ServicesInv, OneLostPerCrash
  <1> QED BY <1>1, ServicesInvariance, PTL

\* However the response is cut, the editor sees the run's events in the order of
\* the trail, once each, and all that were read if the stream ended by itself, and
\* changes the text of none but wide ones (eventStreamClient.ts:39-70, 107-115).
THEOREM SeesTrailInOrder == Spec => []SeenAsKept
  <1>1. ServicesInv => SeenAsKept
    BY SeenInOrder DEF ServicesInv, SeenAsKept
  <1> QED BY <1>1, ServicesInvariance, PTL

=============================================================================
