---------------------------- MODULE AtomicStore -----------------------------
(***************************************************************************)
(* What the checkpoint store promises its callers: the state of every run  *)
(* is a register, and a save replaces one run's register in one step.      *)
(***************************************************************************)
EXTENDS Naturals

CONSTANTS Runs, MaxSaves

VARIABLE store     \* store[r]: the last state saved for r; 0 before the first

Init == store = [r \in Runs |-> 0]

Save(r) ==
    \E v \in 1 .. MaxSaves :
        /\ v > store[r]
        /\ store' = [store EXCEPT ![r] = v]

Next == \E r \in Runs : Save(r)

Spec == Init /\ [][Next]_store

=============================================================================
