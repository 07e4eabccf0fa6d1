------------------------------- MODULE GameFlow -------------------------------
(***************************************************************************)
(* The flow of one game: what engine.Apply (src/internal/engine/engine.go) *)
(* does to the phase, the clock, the offer on the table, the refresh       *)
(* budgets, the tools and the two score rewards.  One action per accepted  *)
(* command; a command that fails at any point returns nil and leaves the   *)
(* caller's checkpoint as it was, which is a stuttering step here.         *)
(*                                                                         *)
(* The board is abstracted to the score that a turn ends with: any member  *)
(* of Scores.  Cards are abstracted to what the flow distinguishes: a card *)
(* that plays, and a potion box that only opens a new offer.               *)
(***************************************************************************)
EXTENDS Integers, FiniteSets

CONSTANTS
  PotionTurns,      \* potion questions of a game (8 in the code)
  SchemeTurns,      \* scheme questions of a game (3 in the code)
  PotionBudget,     \* potion refreshes a game starts with (3 in the code)
  MaxPet,           \* largest number of tool refreshes a pet brings (2)
  LowThreshold,     \* score of the first tool reward (8000)
  HighThreshold,    \* score of the second tool reward (28000)
  Scores            \* the scores a board may have

ASSUME FlowAssumption ==
  /\ PotionTurns \in Nat \ {0}
  /\ SchemeTurns \in Nat \ {0}
  /\ PotionBudget \in Nat
  /\ MaxPet \in Nat
  /\ LowThreshold \in Nat \ {0}
  /\ HighThreshold \in Nat
  /\ LowThreshold < HighThreshold
  /\ Scores \subseteq Nat

VARIABLES
  phase,            \* s.Phase
  baseCursor,       \* 0 the opening tool is due, then one per base question
  completedTurns,   \* the clock of end-of-turn effects
  offer,            \* s.Offer
  potionRefreshes,
  toolRefreshes,
  pet,              \* s.InitialPetRefreshes, fixed for the game
  tools,            \* len(s.Tools)
  claims,           \* the status of each score reward
  score,
  peak,             \* s.PeakScore
  revision,
  nextOfferId

vars == <<phase, baseCursor, completedTurns, offer, potionRefreshes,
          toolRefreshes, pet, tools, claims, score, peak, revision,
          nextOfferId>>

Phases == {"PREPARING", "CHOOSING", "FINISHED"}
Kinds == {"NONE", "UNKNOWN", "TOOL", "POTION", "SCHEME"}
Sources == {"none", "preparation", "opening", "threshold", "base",
            "refresh", "box"}
Statuses == {"LOCKED", "PENDING", "CLAIMED"}
Rewards == {LowThreshold, HighThreshold}
LastCursor == 1 + PotionTurns + SchemeTurns

\* An offer; boxes counts the potion boxes among its cards.
Offers == [id : Nat, kind : Kinds, source : Sources,
           threshold : Rewards \cup {0}, boxes : 0..1]
NoOffer == [id |-> 0, kind |-> "NONE", source |-> "none", threshold |-> 0,
            boxes |-> 0]

-----------------------------------------------------------------------------
(***************************************************************************)
(* Helpers of the engine                                                   *)
(***************************************************************************)

IsOpeningToolOffer(cursor, threshold) == cursor = 0 /\ threshold = 0

Pending(c) == {t \in Rewards : c[t] = "PENDING"}
Claimed(c) == {t \in Rewards : c[t] = "CLAIMED"}

\* The claim list is in ascending order and advance stops at the first one.
FirstPending(c) ==
  IF c[LowThreshold] = "PENDING" THEN LowThreshold ELSE HighThreshold

\* Fault: the last reward reached is the only one unlocked.
UnlockOnlyHighest(c, s) ==
  [t \in Rewards |->
     IF /\ c[t] = "LOCKED" /\ s >= t
        /\ \A u \in Rewards : s >= u => u <= t
     THEN "PENDING" ELSE c[t]]

\* Fault: a reward is unlocked again whenever the score is high enough.
UnlockAgain(c, s) == [t \in Rewards |-> IF s >= t THEN "PENDING" ELSE c[t]]

\* Fault: the comparison with the threshold is strict.
UnlockAbove(c, s) ==
  [t \in Rewards |-> IF c[t] = "LOCKED" /\ s > t THEN "PENDING" ELSE c[t]]

\* updateRewards(s, true): every locked reward the score reaches is owed.
Unlock(c, s) ==
  [t \in Rewards |-> IF c[t] = "LOCKED" /\ s >= t THEN "PENDING" ELSE c[t]]

\* The score and its running maximum, at every settlement.
RecordScore(s) == score' = s /\ peak' = IF s > peak THEN s ELSE peak

-----------------------------------------------------------------------------
(***************************************************************************)
(* Offers                                                                  *)
(***************************************************************************)

\* A drawn potion offer holds at most one box, every other offer none.
BoxCounts(kind, source) ==
  IF kind = "POTION" /\ source # "box" THEN 0..1 ELSE {0}

\* Fault: the candidates are replaced under the identity of the old offer.
IssueSameId(kind, source, threshold) ==
  /\ offer' \in [id : {IF source = "refresh" THEN offer.id ELSE nextOfferId},
                 kind : {kind}, source : {source},
                 threshold : {threshold}, boxes : BoxCounts(kind, source)]
  /\ nextOfferId' = IF source = "refresh" THEN nextOfferId ELSE nextOfferId + 1

\* Fault: an opened box may hold a box again.
IssueNestedBoxes(kind, source, threshold) ==
  /\ offer' \in [id : {nextOfferId}, kind : {kind}, source : {source},
                 threshold : {threshold},
                 boxes : IF kind = "POTION" THEN 0..1 ELSE {0}]
  /\ nextOfferId' = nextOfferId + 1

\* makeOffer and offerID: the draw is any outcome the limits allow.
Issue(kind, source, threshold) ==
  /\ offer' \in [id : {nextOfferId}, kind : {kind}, source : {source},
                 threshold : {threshold}, boxes : BoxCounts(kind, source)]
  /\ nextOfferId' = nextOfferId + 1

\* The question of the base flow at a cursor below the last one.
AskBaseQuestion(cursor) ==
  \/ cursor = 0 /\ Issue("TOOL", "opening", 0)
  \/ cursor > 0 /\ cursor <= PotionTurns /\ Issue("POTION", "base", 0)
  \/ cursor > PotionTurns /\ cursor < LastCursor /\ Issue("SCHEME", "base", 0)

\* Fault: the end of the base flow is looked at before the owed rewards.
AdvanceFinishFirst(c, cursor) ==
  \/ /\ cursor >= LastCursor
     /\ phase' = "FINISHED" /\ offer' = NoOffer
     /\ UNCHANGED nextOfferId
  \/ /\ cursor < LastCursor /\ Pending(c) # {}
     /\ phase' = "CHOOSING" /\ Issue("TOOL", "threshold", FirstPending(c))
  \/ /\ cursor < LastCursor /\ Pending(c) = {}
     /\ phase' = "CHOOSING" /\ AskBaseQuestion(cursor)

\* advance: rewards owed come first, then the end, then the base flow.
Advance(c, cursor) ==
  \/ /\ Pending(c) # {}
     /\ phase' = "CHOOSING" /\ Issue("TOOL", "threshold", FirstPending(c))
  \/ /\ Pending(c) = {} /\ cursor >= LastCursor
     /\ phase' = "FINISHED" /\ offer' = NoOffer
     /\ UNCHANGED nextOfferId
  \/ /\ Pending(c) = {} /\ cursor < LastCursor
     /\ phase' = "CHOOSING" /\ AskBaseQuestion(cursor)

-----------------------------------------------------------------------------
(***************************************************************************)
(* Commands                                                                *)
(***************************************************************************)

\* New: the preparation offer is the first offer, the board is empty.
Init ==
  /\ phase = "PREPARING"
  /\ baseCursor = 0
  /\ completedTurns = 0
  /\ offer = [id |-> 1, kind |-> "UNKNOWN", source |-> "preparation",
              threshold |-> 0, boxes |-> 0]
  /\ potionRefreshes = PotionBudget
  /\ pet \in 0..MaxPet
  /\ toolRefreshes = pet
  /\ tools = 0
  /\ claims = [t \in Rewards |-> "LOCKED"]
  /\ score = 0 /\ peak = 0
  /\ revision = 1
  /\ nextOfferId = 2

\* skip_unknown, or choosing the initialization card: the board is filled,
\* its score recorded without unlocking, and the opening tool offered.
Prepare ==
  /\ phase = "PREPARING"
  /\ \E s \in Scores : RecordScore(s)
  /\ Advance(claims, baseCursor)
  /\ revision' = revision + 1
  /\ UNCHANGED <<baseCursor, completedTurns, potionRefreshes, toolRefreshes,
                 pet, tools, claims>>

\* Fault: the budget is compared with the wrong bound.
RefreshPotionsUnchecked ==
  /\ phase = "CHOOSING" /\ offer.kind = "POTION"
  /\ potionRefreshes >= 0
  /\ potionRefreshes' = potionRefreshes - 1
  /\ Issue(offer.kind, "refresh", offer.threshold)
  /\ revision' = revision + 1
  /\ UNCHANGED <<phase, baseCursor, completedTurns, toolRefreshes, pet, tools,
                 claims, score, peak>>

\* refresh: a new draw of the same kind for the same reward, no turn spent.
RefreshPotions ==
  /\ phase = "CHOOSING" /\ offer.kind = "POTION"
  /\ potionRefreshes > 0
  /\ potionRefreshes' = potionRefreshes - 1
  /\ Issue(offer.kind, "refresh", offer.threshold)
  /\ revision' = revision + 1
  /\ UNCHANGED <<phase, baseCursor, completedTurns, toolRefreshes, pet, tools,
                 claims, score, peak>>

RefreshTools ==
  /\ phase = "CHOOSING" /\ offer.kind = "TOOL"
  /\ toolRefreshes > 0
  /\ toolRefreshes' = toolRefreshes - 1
  /\ Issue(offer.kind, "refresh", offer.threshold)
  /\ revision' = revision + 1
  /\ UNCHANGED <<phase, baseCursor, completedTurns, potionRefreshes, pet,
                 tools, claims, score, peak>>

\* openPotionBox: the box is replaced by the potions in it, no turn spent.
OpenPotionBox ==
  /\ phase = "CHOOSING" /\ offer.kind = "POTION" /\ offer.boxes > 0
  /\ Issue("POTION", "box", 0)
  /\ revision' = revision + 1
  /\ UNCHANGED <<phase, baseCursor, completedTurns, potionRefreshes,
                 toolRefreshes, pet, tools, claims, score, peak>>

\* The opening tool belongs to the preparation: it starts the base flow but
\* completes no turn, and the score it leads to unlocks nothing.
ChooseOpeningTool ==
  /\ phase = "CHOOSING" /\ offer.kind = "TOOL"
  /\ IsOpeningToolOffer(baseCursor, offer.threshold)
  /\ tools' = tools + 1
  /\ baseCursor' = baseCursor + 1
  /\ \E s \in Scores : RecordScore(s)
  /\ Advance(claims, baseCursor + 1)
  /\ revision' = revision + 1
  /\ UNCHANGED <<completedTurns, potionRefreshes, toolRefreshes, pet, claims>>

\* A reward tool is a turn of its own: the clock ticks, the base flow waits,
\* and the settlement at its end may unlock the other reward.
ChooseRewardTool ==
  /\ phase = "CHOOSING" /\ offer.kind = "TOOL"
  /\ ~IsOpeningToolOffer(baseCursor, offer.threshold)
  /\ tools' = tools + 1
  /\ completedTurns' = completedTurns + 1
  /\ \E s \in Scores :
       LET claimed == [t \in Rewards |->
                         IF t = offer.threshold THEN "CLAIMED" ELSE claims[t]]
       IN /\ RecordScore(s)
          /\ claims' = Unlock(claimed, s)
          /\ Advance(Unlock(claimed, s), baseCursor)
  /\ revision' = revision + 1
  /\ UNCHANGED <<baseCursor, potionRefreshes, toolRefreshes, pet>>

\* A potion that is not a box, or a scheme: one turn and one base question.
\* A potion offer has at least three cards and at most one box, so it always
\* has a card that plays.
PlayBaseCard ==
  /\ phase = "CHOOSING" /\ offer.kind \in {"POTION", "SCHEME"}
  /\ completedTurns' = completedTurns + 1
  /\ baseCursor' = baseCursor + 1
  /\ \E s \in Scores :
       /\ RecordScore(s)
       /\ claims' = Unlock(claims, s)
       /\ Advance(Unlock(claims, s), baseCursor + 1)
  /\ revision' = revision + 1
  /\ UNCHANGED <<potionRefreshes, toolRefreshes, pet, tools>>

Next ==
  \/ Prepare
  \/ ChooseOpeningTool
  \/ ChooseRewardTool
  \/ PlayBaseCard
  \/ RefreshPotions
  \/ RefreshTools
  \/ OpenPotionBox

\* A game that is over accepts no command: the terminated state stutters.
Spec == Init /\ [][Next]_vars

\* A player who keeps sending acceptable commands, of whatever type: one is
\* always possible until the end.
FairSpec == Spec /\ WF_vars(Next)

-----------------------------------------------------------------------------
(***************************************************************************)
(* Properties                                                              *)
(***************************************************************************)

TypeOK ==
  /\ phase \in Phases
  /\ baseCursor \in 0..LastCursor
  /\ completedTurns \in Nat
  /\ offer \in Offers
  /\ potionRefreshes \in 0..PotionBudget
  /\ pet \in 0..MaxPet
  /\ toolRefreshes \in 0..pet
  /\ tools \in Nat
  /\ claims \in [Rewards -> Statuses]
  /\ score \in Nat /\ peak \in Nat
  /\ revision \in Nat \ {0}
  /\ nextOfferId \in Nat

\* The number of potion and scheme turns completed.
BaseTurns == IF baseCursor = 0 THEN 0 ELSE baseCursor - 1

\* The clock, the tools and the claims tell the same story: a turn is a base
\* question answered or a reward claimed, a tool is the opening one or a
\* reward claimed.  ai/visible.go and the companion's session.py rebuild
\* states from a screen by relying on exactly this; the 13-turn bound of
\* ValidateState follows from it.
FlowAccounting ==
  /\ completedTurns = BaseTurns + Cardinality(Claimed(claims))
  /\ tools = (IF baseCursor = 0 THEN 0 ELSE 1) + Cardinality(Claimed(claims))

\* Rewards are unlocked and claimed in ascending order, also when one turn
\* reaches both: 28000 is never owed or taken while 8000 is still locked, and
\* never taken while 8000 is owed.
ClaimsInOrder ==
  /\ claims[HighThreshold] # "LOCKED" => claims[LowThreshold] # "LOCKED"
  /\ claims[HighThreshold] = "CLAIMED" => claims[LowThreshold] = "CLAIMED"

\* The question on the table is the one the position calls for, whatever
\* refreshes and boxes led to it: a tool offer carries the lowest owed reward,
\* or is the opening one; a potion or scheme offer is of the right stage.
OfferFitsPosition ==
  /\ phase = "PREPARING" <=> offer.kind = "UNKNOWN"
  /\ phase = "FINISHED" <=> offer.kind = "NONE"
  /\ offer.kind = "TOOL" =>
       IF Pending(claims) = {}
       THEN baseCursor = 0 /\ offer.threshold = 0
       ELSE baseCursor > 0 /\ offer.threshold = FirstPending(claims)
  /\ offer.kind # "TOOL" => Pending(claims) = {} /\ offer.threshold = 0
  /\ offer.kind = "POTION" => baseCursor \in 1..PotionTurns
  /\ offer.kind = "SCHEME" => baseCursor \in (PotionTurns + 1)..(LastCursor - 1)
  /\ offer.kind = "NONE" => baseCursor = LastCursor
  /\ offer.kind = "UNKNOWN" => baseCursor = 0

\* The two stale-command guards agree: every accepted command moves the
\* revision and puts a fresh offer on the table (none at the end), so an offer
\* id seen at one revision never names the offer of another.
RevisionNamesOffer ==
  IF phase = "FINISHED"
  THEN nextOfferId = revision
  ELSE nextOfferId = revision + 1 /\ offer.id = revision

\* Once a turn has been completed, no reward the score reaches stays locked,
\* and a reward that is not locked was reached at some settlement.
NoRewardLeftLocked ==
  \A t \in Rewards :
    /\ completedTurns > 0 /\ score >= t => claims[t] # "LOCKED"
    /\ claims[t] # "LOCKED" => completedTurns > 0

\* The peak is the highest score of any settlement, and covers every reward
\* ever unlocked although the score itself may have dropped since.
PeakCoversRewards ==
  /\ score <= peak
  /\ \A t \in Rewards : claims[t] # "LOCKED" => peak >= t

\* Boxes opened so far: the offers that no turn, no refresh and neither of the
\* two preparation offers accounts for.
BoxesOpened ==
  IF phase = "PREPARING" THEN 0
  ELSE revision - 2 - (IF baseCursor = 0 THEN 0 ELSE 1) - completedTurns
         - (PotionBudget - potionRefreshes) - (pet - toolRefreshes)

\* Base potion questions drawn so far.
PotionQuestions ==
  IF offer.kind = "POTION" THEN baseCursor
  ELSE IF BaseTurns < PotionTurns THEN BaseTurns ELSE PotionTurns

\* A draw yields at most one box and an opened box none: with the box still on
\* the table, boxes never outnumber the questions and refreshes drawn.  This
\* bounds the commands of a game.
BoxBudget ==
  /\ BoxesOpened >= 0
  /\ BoxesOpened + offer.boxes
       <= PotionQuestions + (PotionBudget - potionRefreshes)

\* Preparation, opening tool, base questions and rewards, then refreshes, then
\* a box for every potion question and every potion refresh.
LongestGame ==
  2 + (PotionTurns + SchemeTurns + 2) + (PotionBudget + MaxPet)
    + (PotionTurns + PotionBudget)

\* No course of a game takes more commands than that: 31 with the numbers of
\* the code, so that Replay (application/service.go, 159), which accepts at
\* most 128, refuses no game that was really played.
GameLength == revision - 1 <= LongestGame

\* What the budget rests on: the preparation spends nothing, no reward is
\* unlocked before the base flow starts, and only potion offers hold boxes.
Beginning ==
  /\ phase = "PREPARING" =>
       /\ revision = 1 /\ baseCursor = 0
       /\ potionRefreshes = PotionBudget /\ toolRefreshes = pet
  /\ baseCursor = 0 => \A t \in Rewards : claims[t] = "LOCKED"
  /\ offer.kind # "POTION" => offer.boxes = 0

\* The invariant that every command preserves.
IInv ==
  /\ TypeOK
  /\ Beginning
  /\ FlowAccounting
  /\ ClaimsInOrder
  /\ OfferFitsPosition
  /\ RevisionNamesOffer
  /\ NoRewardLeftLocked
  /\ PeakCoversRewards
  /\ BoxBudget

\* A claim only moves LOCKED, PENDING, CLAIMED, at most to CLAIMED by the
\* command that spends a turn on it, and never back when the score drops.
ClaimsAdvance ==
  \A t \in Rewards :
    /\ claims[t] = "CLAIMED" => claims'[t] = "CLAIMED"
    /\ claims[t] = "PENDING" =>
         \/ claims'[t] = "PENDING"
         \/ /\ claims'[t] = "CLAIMED" /\ offer.threshold = t
            /\ completedTurns' = completedTurns + 1
            /\ baseCursor' = baseCursor
    /\ claims[t] = "LOCKED" => claims'[t] # "CLAIMED"

\* Every step is one that a claim may make.
ClaimsOnlyAdvance == [][ClaimsAdvance]_vars

\* Refreshing, opening boxes and claiming rewards cannot put the end off
\* forever: a player who keeps playing, whatever he prefers, finishes, and
\* with every reward owed delivered.
GameEnds == <>(phase = "FINISHED" /\ Pending(claims) = {})

-----------------------------------------------------------------------------
(***************************************************************************)
(* The published flow of a game, which this module implements.             *)
(***************************************************************************)
Stage ==
  CASE phase = "PREPARING" -> "preparing"
    [] phase = "FINISHED" -> "done"
    [] phase = "CHOOSING" /\ baseCursor = 0 -> "opening"
    [] OTHER -> "operating"

Plan == INSTANCE SurgeryPlan WITH
  stage <- Stage,
  base <- BaseTurns,
  owed <- Pending(claims),
  granted <- Claimed(claims)

\* Every run of the engine is a run of the published flow.
ImplementsPlan == Plan!Spec
=============================================================================
