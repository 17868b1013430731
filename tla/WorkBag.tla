------------------------------- MODULE WorkBag -------------------------------
(***************************************************************************)
(* What the dispatcher promises: a work that is accepted is executed once, *)
(* by one of a bounded number of workers, and none is ever lost.           *)
(***************************************************************************)
EXTENDS Naturals, FiniteSets

CONSTANTS
    Works,      \* everything that is ever submitted
    MaxRunning  \* effectors that may run at the same time

VARIABLE stage  \* how far each work is

In(s) == {w \in Works : stage[w] = s}

BagInit == stage = [w \in Works |-> "new"]

Move(w, from, to) ==
    /\ stage[w] = from
    /\ stage' = [stage EXCEPT ![w] = to]

Accept(w) == Move(w, "new", "accepted")

Start(w) ==
    /\ Cardinality(In("running")) < MaxRunning
    /\ Move(w, "accepted", "running")

End(w) == Move(w, "running", "ended")

BagNext == \E w \in Works : Accept(w) \/ Start(w) \/ End(w)

BagSpec == BagInit /\ [][BagNext]_stage
=============================================================================
