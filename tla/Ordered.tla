------------------------------ MODULE Ordered -------------------------------
(***************************************************************************)
(* The members of a finite set as a sequence, in a given order: what       *)
(* sorted() returns, and what a loop that skips elements goes through.     *)
(* The member at position k is the one with k - 1 members before it, so    *)
(* that a proof can say what is where.                                     *)
(***************************************************************************)
EXTENDS Naturals, FiniteSets

Ranked(S, Before(_, _)) ==
    [k \in 1 .. Cardinality(S) |->
        CHOOSE x \in S : Cardinality({y \in S : Before(y, x)}) = k - 1]

\* What a sequence has at some of its places.
At(seq, places) ==
    LET place == Ranked(places, <)
    IN [k \in DOMAIN place |-> seq[place[k]]]

=============================================================================
