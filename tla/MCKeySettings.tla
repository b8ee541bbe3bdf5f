---------------------------- MODULE MCKeySettings ----------------------------
(* Instances of KeySettings for TLC: the row of a model and another key that *)
(* is added for it.                                                          *)
EXTENDS KeySettings, TLC

CONSTANTS m1, x1, k1, k2

MCkeyName == [r \in Row |-> IF r = x1 THEN k2 ELSE k1]
MCparent == [x \in Extra |-> m1]

Alike == Permutations(Slot)

=============================================================================
