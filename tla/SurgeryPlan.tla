------------------------------ MODULE SurgeryPlan -----------------------------
(***************************************************************************)
(* What the product promises of the course of a game, with no offers, no   *)
(* refreshes and no scores: a preparation, an opening tool, then           *)
(* PotionTurns + SchemeTurns base turns, between which every owed reward   *)
(* is a turn of its own, lowest threshold first.  The game is over exactly *)
(* when the base turns are done and nothing is owed.                       *)
(***************************************************************************)
EXTENDS Integers

CONSTANTS PotionTurns, SchemeTurns, LowThreshold, HighThreshold

VARIABLES
  stage,    \* "preparing", "opening", "operating", "done"
  base,     \* base turns completed
  owed,     \* rewards unlocked and not yet taken
  granted   \* rewards taken

vars == <<stage, base, owed, granted>>

Thresholds == {LowThreshold, HighThreshold}
Lowest(S) == IF LowThreshold \in S THEN LowThreshold ELSE HighThreshold

Init ==
  /\ stage = "preparing"
  /\ base = 0
  /\ owed = {} /\ granted = {}

Prepare ==
  /\ stage = "preparing"
  /\ stage' = "opening"
  /\ UNCHANGED <<base, owed, granted>>

TakeOpeningTool ==
  /\ stage = "opening"
  /\ stage' = "operating"
  /\ UNCHANGED <<base, owed, granted>>

\* A turn ends with some rewards newly owed, the high one never before the low.
Settle(stillOwed) ==
  /\ \E new \in SUBSET (Thresholds \ (stillOwed \cup granted')) :
       /\ owed' = stillOwed \cup new
       /\ HighThreshold \in new => LowThreshold \in owed' \cup granted'
  /\ stage' = IF owed' = {} /\ base' = PotionTurns + SchemeTurns
              THEN "done" ELSE "operating"

BaseTurn ==
  /\ stage = "operating" /\ owed = {}
  /\ base < PotionTurns + SchemeTurns
  /\ base' = base + 1
  /\ granted' = granted
  /\ Settle({})

RewardTurn ==
  /\ stage = "operating" /\ owed # {}
  /\ granted' = granted \cup {Lowest(owed)}
  /\ base' = base
  /\ Settle(owed \ {Lowest(owed)})

Next == Prepare \/ TakeOpeningTool \/ BaseTurn \/ RewardTurn

Spec == Init /\ [][Next]_vars
=============================================================================
