------------------------------- MODULE MCOffers --------------------------------
(* Offers with a small catalogue: five potions that any board can use, one   *)
(* rarity that runs out after a single card and one that has only a box.     *)
EXTENDS Offers, TLC

CONSTANTS p1, p2, p3, p4, p5, salts, dressing, box3, box5,
          claw, sinew, pupa, eggs, saw, s1, s2, s3

MCPotions == {p1, p2, p3, p4, p5, salts, dressing, box3, box5}
MCTools == {claw, sinew, pupa, eggs, saw}
MCSchemes == {s1, s2, s3}

MCRarity ==
  [c \in MCPotions |->
     CASE c \in {p1, p2, p3} -> 1 [] c \in {p4, box3} -> 2
       [] c = box5 -> 3 [] OTHER -> 4]
MCBoxSize == [c \in MCPotions |-> IF c = box3 THEN 3 ELSE IF c = box5 THEN 5 ELSE 0]
MCNeeds ==
  [c \in MCPotions |->
     IF c = salts THEN "monster" ELSE IF c = dressing THEN "bone" ELSE "nothing"]
MCCoreFamily ==
  [t \in MCTools |->
     CASE t \in {claw, sinew} -> "BONE" [] t \in {pupa, eggs} -> "INSECT"
       [] OTHER -> NoFamily]

Only(f, n) == [EmptyBoard EXCEPT ![f] = n]
MCBoards == {EmptyBoard, Only("BONE", 1), Only("INSECT", 6)}

\* Cards that the catalogue does not tell apart.
CardSymmetry ==
  Permutations({p1, p2, p3}) \cup Permutations({claw, sinew})
    \cup Permutations({pupa, eggs})
================================================================================
