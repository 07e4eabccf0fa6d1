------------------------------- MODULE MCAdvice -------------------------------
(* Advice: four dishes, a full board that calls for the liver and a board     *)
(* with one monster left, tools and potions of every group that the           *)
(* playbooks tell apart.                                                      *)
EXTENDS Advice

FiendBoard ==
  [s \in Slots |-> [family |-> IF s = 4 THEN "INSECT" ELSE "FIEND",
                    rarity |-> "normal"]]
LastAwakener ==
  [s \in Slots |-> IF s = 3 THEN [family |-> "AWAKENER", rarity |-> "rare"]
                   ELSE Empty]
FullBoards == {FiendBoard}
TwoBoards == {FiendBoard, LastAwakener}

SomeTargets ==
  [c \in Potions |-> IF c = "mutation" THEN <<1, 2>> ELSE <<0, 0>>]
=============================================================================
