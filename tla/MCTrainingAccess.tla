--------------------------- MODULE MCTrainingAccess ---------------------------
(* Training: one key, two administrators, one client.                        *)
EXTENDS TrainingAccess

SmallPlan == [capacity |-> 1, refill |-> 1]
LargePlan == [capacity |-> 3, refill |-> 2]
TwoPlans == {SmallPlan, LargePlan}
Fresh == [plan |-> LargePlan, expires |-> Nil, revoked |-> FALSE]

\* Nothing, or one key in use.
NoKeys == {NoRecords}
KeysInUse == {[k \in Keys |-> Fresh]}
=============================================================================
