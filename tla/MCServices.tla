----------------------------- MODULE MCServices -----------------------------
(***************************************************************************)
(* The services of a run, each small enough to be searched:                *)
(*                                                                         *)
(*   events      two threads emit three events, two of them of the run     *)
(*               that is watched and the first wide; the process dies up   *)
(*               to twice                                                  *)
(*   models      a step of up to three completions over three models, under*)
(*               every policy of at most one rule, and of two rules that   *)
(*               agree                                                     *)
(*   tools       two servers, a core tool and one more on the first        *)
(*   contract    every input file of up to three lines                     *)
(*   failures    every report of up to three failures, two artifacts of    *)
(*               one basename and a test whose name holds two others       *)
(*   interfaces  three siblings, of which the cap admits one, two or three *)
(*   workspace   the twelve phases behind intake with their shipped        *)
(*               outputs and schemas; code in two files, in places it may  *)
(*               not be written to, or in no file at all                   *)
(*   graph       every graph on three phases, each of which may also name  *)
(*               an unknown one: 4096 graphs; three passes of a loop are   *)
(*               needed for the chains that run against the order          *)
(***************************************************************************)
EXTENDS Services

Rules(lists) == [values : lists, remediable : BOOLEAN]
Agree(p) ==
    p[1].values # <<>> =>
        \E i \in DOMAIN p[2].values : p[2].values[i] = p[1].values[1]
ShortPolicies ==
    {<<>>} \cup [1 .. 1 -> Rules({<<>>, <<"a">>, <<"b", "a">>})]
    \cup {p \in [1 .. 2 -> Rules({<<"a">>, <<"b", "a">>})] : Agree(p)}

ASSUME PoliciesAssumption == RulesAgree

ToolHosts == [core |-> 1, a |-> 1, b |-> 2]

Written == <<"a", "b", "inner">>
\* A completion that had a file twice (openhands_adapter.py:1159-1164).
WrittenTwice == <<"a", "b", "inner", "a">>
Names == [a |-> "a", b |-> "b", inner |-> "a"]
NamesInLine == [a |-> {"a"}, b |-> {"b"}, inner |-> {"a"}, test_ab |-> {"a", "b"}]

MCOrder == <<"first", "second", "third">>

Contracts == INSTANCE PhaseContracts
ShippedPipeline == Tail(Contracts!PHASE_IDS)
ShippedOutputs == Contracts!PHASE_CONTRACTS
ShippedSchemas == Contracts!ARTIFACT_SCHEMAS

Block(dir, name, up) == [dir |-> dir, name |-> name, up |-> up]
CodeReplies ==
    {<<>>,
     <<Block(<<"src">>, "main", FALSE), Block(<<"src", "pkg">>, "main", FALSE)>>,
     <<Block(<<"docs">>, "proposal", FALSE), Block(<<"src", "..", "docs">>, "spec", TRUE)>>}

=============================================================================
