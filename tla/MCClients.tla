----------------------------- MODULE MCClients ------------------------------
(***************************************************************************)
(* The clients of a run, each small enough to be searched:                 *)
(*                                                                         *)
(*   chat     two turns of the editor, two runs with two gates each, a     *)
(*            driving loop of two advances, one rollback or force-advance  *)
(*   evals    a suite of two tasks                                         *)
(*   commit0  two modules; the first with a stub, a provided function and  *)
(*            one that the skeleton lost; two writes, two attempts         *)
(***************************************************************************)
EXTENDS Clients

Library == [f |-> "m1", g |-> "m1", h |-> "m1", k |-> "m2"]
Stubbed == [f |-> 1, g |-> 2, h |-> 0, k |-> 1]

=============================================================================
