--------------------------- MODULE MCGuardHandling ---------------------------
(* Small instances of GuardHandling: three guards, two of them sampled.    *)
EXTENDS GuardHandling, TLC

CONSTANTS g1, g2, g3

AllUp == [running |-> Guard, valid |-> Guard, guards |-> Guard]

(* The others are down; g1 runs, and is a guard, but is not Valid.         *)
OnlyG1 == [running |-> {g1}, valid |-> {}, guards |-> {g1}]

(* g1 is down, and the others run, but are not guards any more.            *)
NoGuards == [running |-> Guard \ {g1}, valid |-> Guard \ {g1}, guards |-> {}]

Churn == {AllUp, OnlyG1, NoGuards}

(* g2 and g3 are alike in every consensus.                                 *)
AlikeSymmetry == Permutations({g2, g3})
=============================================================================
