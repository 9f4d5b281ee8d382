------------------------------ MODULE ModelCall ------------------------------
(***************************************************************************)
(* From a phase's step to the provider and back: a model is routed and     *)
(* checked against the policy (llm/model_router.py, policy/), the backend  *)
(* makes one or more completions with it (sdk/openhands_adapter.py), each  *)
(* retried by the transport (llm/openrouter_provider.py), and what the     *)
(* step used is added to its phase's account (sdk/session_bridge.py,       *)
(* llm/usage_tracker.py).                                                  *)
(*                                                                         *)
(* Every completion costs one unit of tokens.  A request that times out    *)
(* may have been served and charged for.                                   *)
(***************************************************************************)
EXTENDS Naturals, Sequences

CONSTANTS
    Models,
    Policies,       \* policies to start with: sequences of model-selection rules
    MAX_RETRIES,    \* HttpxTransport's max_retries
    Budget,         \* tokenBudgetPerPhase
    MaxCalls,       \* bound on the completions of a step
    MaxUsage        \* bound on the completions in all

VARIABLES
    policy, key,    \* the PolicyDocument; whether an API key is to be had
    step,           \* the step under way and what it used
    usage,          \* UsageTracker's account of the phase
    report,         \* the last TokenUsageReported
    event,          \* status of the last PhaseCompleteEvent, or "raised"
    called,         \* models that were sent a prompt (history)
    answers, lost   \* completions received in all, and in steps that raised (history)

vars == <<policy, key, step, usage, report, event, called, answers, lost>>

Idle == [pc |-> "idle", model |-> "none", attempt |-> 0, calls |-> 0, used |-> 0]

Init ==
    /\ policy \in Policies /\ key \in BOOLEAN
    /\ step = Idle
    /\ usage = 0 /\ report = [total |-> 0, over |-> FALSE]
    /\ event = "none"
    /\ called = {} /\ answers = 0 /\ lost = 0

-----------------------------------------------------------------------------
\* RuleEvaluator, PolicyEngine.check: the first rule that is violated denies.
Permits(rule, model) == \E i \in DOMAIN rule.values : rule.values[i] = model

Violated(model) == {i \in DOMAIN policy : ~Permits(policy[i], model)}

FirstViolated(model) ==
    policy[CHOOSE i \in Violated(model) : \A j \in Violated(model) : i <= j]

\* The first value of the union of all rules, in their order.
Replacements ==
    {policy[i].values[1] : i \in {j \in DOMAIN policy :
        policy[j].values # <<>> /\ \A k \in 1 .. j - 1 : policy[k].values = <<>>}}

\* Fault: what is to be remediated is called as routed.
SelectedAsRouted(model) == {model}

\* The models select() may answer with for a routed one: none if it is denied.
Selected(model) ==
    IF Violated(model) = {} THEN {model}
    ELSE IF FirstViolated(model).remediable THEN Replacements
    ELSE {}

\* execute_phase, up to its first completion.
Begin ==
    /\ step.pc = "idle" /\ answers + MaxCalls <= MaxUsage
    /\ \E routed \in Models :
           \/ /\ Selected(routed) = {}
              /\ event' = "failure"
              /\ UNCHANGED step
           \/ /\ \E model \in Selected(routed) :
                     step' = [Idle EXCEPT !.pc = "calling", !.model = model]
              /\ event' = "none"
    /\ UNCHANGED <<policy, key, usage, report, called, answers, lost>>

-----------------------------------------------------------------------------
\* UsageTracker.record
Recorded(used) ==
    /\ usage' = usage + used
    /\ report' = IF used = 0 THEN report
                 ELSE [total |-> usage', over |-> usage' > Budget]

\* Fault: a step that fails is not accounted for.
ReturnsIfSuccess(status, used) ==
    /\ step' = Idle /\ event' = status
    /\ Recorded(IF status = "success" THEN used ELSE 0)

\* run_phase_step came back, with success or with failure.
Returns(status, used) ==
    /\ step' = Idle /\ event' = status
    /\ Recorded(used)

\* The completion raises through the backend and the bridge.
Raises ==
    /\ step' = Idle /\ event' = "raised"
    /\ lost' = lost + step.used
    /\ UNCHANGED <<usage, report>>

\* complete() without a key asks nobody.
KeyMissing ==
    /\ step.pc = "calling" /\ ~key
    /\ Raises
    /\ UNCHANGED <<policy, key, called, answers>>

Sends ==
    /\ step.pc = "calling" /\ key
    /\ called' = called \cup {step.model}

\* A completion arrives.  Unusable is an empty or a truncated one: it fails
\* the step and is paid for.  A step may go on to its next completion.
Answered ==
    /\ Sends
    /\ answers' = answers + 1
    /\ LET used == step.used + 1
       IN \/ Returns("failure", used)
          \/ Returns("success", used)
          \/ /\ step.calls + 1 < MaxCalls
             /\ step' = [step EXCEPT !.attempt = 0, !.calls = @ + 1, !.used = used]
             /\ UNCHANGED <<usage, report, event>>
    /\ UNCHANGED <<policy, key, lost>>

AttemptsLeft == step.attempt < MAX_RETRIES

\* TransportError, or one of the retryable statuses: the last one raises.
Transient ==
    /\ Sends
    /\ IF AttemptsLeft
       THEN /\ step' = [step EXCEPT !.attempt = (@ + 1) % (MAX_RETRIES + 1)]
            /\ UNCHANGED <<usage, report, event, lost>>
       ELSE Raises
    /\ UNCHANGED <<policy, key, answers>>

\* Any other status, a body that is no JSON, or an error reported with 200.
Refused ==
    /\ Sends
    /\ Raises
    /\ UNCHANGED <<policy, key, answers>>

Next == Begin \/ KeyMissing \/ Answered \/ Transient \/ Refused

Spec == Init /\ [][Next]_vars

-----------------------------------------------------------------------------
\* A prompt goes to no model that a rule forbids, whatever was routed and
\* replaced (model_router.py:115-133).
OnlyAllowedModels == \A model \in called : Violated(model) = {}

\* Every completion that arrived is in the phase's account once, also those of
\* steps that failed, and the report is of the whole account; only a step that
\* raised after its first completion leaves any out (session_bridge.py:77-79).
AnswersAccounted ==
    /\ step.pc = "idle" => usage + lost = answers
    /\ report = [total |-> usage, over |-> usage > Budget]

\* usage_tracker.py:4, "Accumulates token usage per phase": no completion is
\* left out.
NoAnswerLost == lost = 0

=============================================================================
