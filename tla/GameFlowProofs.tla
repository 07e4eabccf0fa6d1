---------------------------- MODULE GameFlowProofs ----------------------------
(***************************************************************************)
(* Proofs about GameFlow for every number of turns, refreshes and every    *)
(* set of scores.  IInv of GameFlow is inductive; the safety properties    *)
(* are its conjuncts, and the step properties follow from it.              *)
(***************************************************************************)
EXTENDS GameFlow, FiniteSetTheorems, TLAPS

-----------------------------------------------------------------------------
(* Lemmas about the operators.                                             *)

One(c, t) == IF c[t] = "CLAIMED" THEN 1 ELSE 0

\* The claimed rewards of a claim list are counted one by one.
LEMMA CountClaimed ==
  ASSUME NEW c
  PROVE  Cardinality(Claimed(c)) = One(c, LowThreshold) + One(c, HighThreshold)
<1> USE FlowAssumption DEF Claimed, Rewards, One
<1>1. LowThreshold # HighThreshold
  OBVIOUS
<1>2. CASE c[LowThreshold] = "CLAIMED" /\ c[HighThreshold] = "CLAIMED"
  <2>1. Claimed(c) = {LowThreshold} \cup {HighThreshold}
    BY <1>2
  <2>2. IsFiniteSet({LowThreshold}) /\ Cardinality({LowThreshold}) = 1
    BY FS_Singleton
  <2>3. Cardinality({LowThreshold} \cup {HighThreshold}) = 1 + 1
    BY <1>1, <2>2, FS_AddElement
  <2> QED BY <1>2, <2>1, <2>3
<1>3. CASE c[LowThreshold] = "CLAIMED" /\ c[HighThreshold] # "CLAIMED"
  <2>1. Claimed(c) = {LowThreshold}
    BY <1>3
  <2>2. Cardinality({LowThreshold}) = 1
    BY FS_Singleton
  <2> QED BY <1>3, <2>1, <2>2
<1>4. CASE c[LowThreshold] # "CLAIMED" /\ c[HighThreshold] = "CLAIMED"
  <2>1. Claimed(c) = {HighThreshold}
    BY <1>4
  <2>2. Cardinality({HighThreshold}) = 1
    BY FS_Singleton
  <2> QED BY <1>4, <2>1, <2>2
<1>5. CASE c[LowThreshold] # "CLAIMED" /\ c[HighThreshold] # "CLAIMED"
  <2>1. Claimed(c) = {}
    BY <1>5
  <2>2. Cardinality({}) = 0
    BY FS_EmptySet
  <2> QED BY <1>5, <2>1, <2>2
<1> QED BY <1>2, <1>3, <1>4, <1>5

\* Unlocking touches only locked rewards that the score reaches (updateRewards).
LEMMA UnlockEffect ==
  ASSUME NEW c \in [Rewards -> Statuses], NEW s \in Nat
  PROVE  /\ Unlock(c, s) \in [Rewards -> Statuses]
         /\ \A t \in Rewards :
              /\ Unlock(c, s)[t] = "CLAIMED" <=> c[t] = "CLAIMED"
              /\ c[t] # "LOCKED" => Unlock(c, s)[t] = c[t]
              /\ s >= t => Unlock(c, s)[t] # "LOCKED"
              /\ c[t] = "LOCKED" /\ s < t => Unlock(c, s)[t] = "LOCKED"
BY FlowAssumption DEF Unlock, Statuses, Rewards

\* What advance may leave behind (engine.advance): a fresh offer that fits the
\* claims and the cursor, or the end of the game.
LEMMA AdvanceEffect ==
  ASSUME NEW c \in [Rewards -> Statuses], NEW cursor \in 0..LastCursor,
         nextOfferId \in Nat, Advance(c, cursor)
  PROVE  /\ phase' \in {"CHOOSING", "FINISHED"}
         /\ offer' \in Offers
         /\ nextOfferId' \in Nat
         /\ offer'.kind # "UNKNOWN"
         /\ phase' = "FINISHED" <=> offer'.kind = "NONE"
         /\ phase' = "FINISHED" => nextOfferId' = nextOfferId
         /\ phase' # "FINISHED" =>
              nextOfferId' = nextOfferId + 1 /\ offer'.id = nextOfferId
         /\ offer'.kind = "TOOL" =>
              IF Pending(c) = {}
              THEN cursor = 0 /\ offer'.threshold = 0
              ELSE offer'.threshold = FirstPending(c)
         /\ offer'.kind # "TOOL" => Pending(c) = {} /\ offer'.threshold = 0
         /\ offer'.kind = "POTION" => cursor \in 1..PotionTurns
         /\ offer'.kind = "SCHEME" =>
              cursor \in (PotionTurns + 1)..(LastCursor - 1)
         /\ offer'.kind = "NONE" => cursor = LastCursor
         /\ offer'.kind # "POTION" => offer'.boxes = 0
<1> USE FlowAssumption DEF Issue, BoxCounts, Offers, Kinds, Sources, NoOffer
<1>1. FirstPending(c) \in Rewards
  BY DEF FirstPending, Rewards
<1>2. CASE /\ Pending(c) # {}
           /\ phase' = "CHOOSING" /\ Issue("TOOL", "threshold", FirstPending(c))
  BY <1>1, <1>2
<1>3. CASE /\ Pending(c) = {} /\ cursor >= LastCursor
           /\ phase' = "FINISHED" /\ offer' = NoOffer
           /\ UNCHANGED nextOfferId
  BY <1>3 DEF LastCursor
<1>4. CASE /\ Pending(c) = {} /\ cursor < LastCursor
           /\ phase' = "CHOOSING" /\ AskBaseQuestion(cursor)
  <2>1. CASE cursor = 0 /\ Issue("TOOL", "opening", 0)
    BY <1>4, <2>1
  <2>2. CASE cursor > 0 /\ cursor <= PotionTurns /\ Issue("POTION", "base", 0)
    BY <1>4, <2>2
  <2>3. CASE /\ cursor > PotionTurns /\ cursor < LastCursor
             /\ Issue("SCHEME", "base", 0)
    BY <1>4, <2>3 DEF LastCursor
  <2> QED BY <1>4, <2>1, <2>2, <2>3 DEF AskBaseQuestion
<1> QED BY <1>2, <1>3, <1>4 DEF Advance

-----------------------------------------------------------------------------
(* The invariant.                                                          *)

\* A new game satisfies the invariant (engine.New).
LEMMA InitInvariant == Init => IInv
<1> SUFFICES ASSUME Init PROVE IInv
  OBVIOUS
<1> USE FlowAssumption DEF Init
<1>1. TypeOK
  BY DEF TypeOK, Phases, Offers, Kinds, Sources, Statuses, LastCursor
<1>2. Beginning
  BY DEF Beginning
<1>3. FlowAccounting
  BY CountClaimed DEF FlowAccounting, BaseTurns, One, Rewards
<1>4. ClaimsInOrder
  BY DEF ClaimsInOrder, Rewards
<1>5. OfferFitsPosition
  BY DEF OfferFitsPosition, Pending
<1>6. RevisionNamesOffer
  BY DEF RevisionNamesOffer
<1>7. NoRewardLeftLocked
  BY DEF NoRewardLeftLocked, Rewards
<1>8. PeakCoversRewards
  BY DEF PeakCoversRewards, Rewards
<1>9. BoxBudget
  BY DEF BoxBudget, BoxesOpened, PotionQuestions, BaseTurns
<1> QED BY <1>1, <1>2, <1>3, <1>4, <1>5, <1>6, <1>7, <1>8, <1>9 DEF IInv

\* Filling the board and offering the opening tool.
LEMMA PrepareStep == IInv /\ Prepare => IInv'
<1> SUFFICES ASSUME IInv, Prepare PROVE IInv'
  OBVIOUS
<1> USE FlowAssumption
<1>0. TypeOK /\ Beginning /\ FlowAccounting
  BY DEF IInv
<1>1. PICK s \in Scores : RecordScore(s)
  BY DEF Prepare
<1>2. /\ s \in Nat /\ score' = s /\ peak' \in Nat /\ s <= peak' /\ peak <= peak'
  BY <1>0, <1>1 DEF RecordScore, TypeOK
<1>3. /\ phase = "PREPARING" /\ baseCursor = 0 /\ revision = 1
      /\ potionRefreshes = PotionBudget /\ toolRefreshes = pet
      /\ \A t \in Rewards : claims[t] = "LOCKED"
      /\ nextOfferId = 2
  BY <1>0 DEF Prepare, Beginning, IInv, RevisionNamesOffer
<1>4. completedTurns = 0 /\ tools = 0
  BY <1>0, <1>3, CountClaimed DEF FlowAccounting, BaseTurns, One, Rewards
<1>5. /\ UNCHANGED <<baseCursor, completedTurns, potionRefreshes,
                      toolRefreshes, pet, tools, claims>>
      /\ revision' = 2
      /\ Advance(claims, 0)
  BY <1>3 DEF Prepare
<1>6. Pending(claims) = {}
  BY <1>3 DEF Pending
<1>7. /\ phase' = "CHOOSING" /\ offer' \in Offers /\ offer'.kind = "TOOL"
      /\ offer'.threshold = 0 /\ offer'.boxes = 0 /\ offer'.id = 2
      /\ nextOfferId' = 3
  BY <1>3, <1>5, <1>6
     DEF Advance, AskBaseQuestion, Issue, BoxCounts, Offers, Kinds, Sources,
         LastCursor
<1>8. TypeOK'
  BY <1>0, <1>2, <1>5, <1>7 DEF TypeOK, Phases
<1>9. Beginning'
  BY <1>3, <1>5, <1>7 DEF Beginning
<1>10. FlowAccounting'
  BY <1>0, <1>5 DEF FlowAccounting, BaseTurns, Claimed
<1>11. ClaimsInOrder'
  BY <1>5 DEF ClaimsInOrder, IInv
<1>12. OfferFitsPosition'
  BY <1>3, <1>5, <1>6, <1>7 DEF OfferFitsPosition, Pending
<1>13. RevisionNamesOffer'
  BY <1>5, <1>7 DEF RevisionNamesOffer
<1>14. NoRewardLeftLocked'
  BY <1>3, <1>4, <1>5 DEF NoRewardLeftLocked
<1>15. PeakCoversRewards'
  BY <1>2, <1>3, <1>5 DEF PeakCoversRewards
<1>16. BoxBudget'
  BY <1>0, <1>3, <1>4, <1>5, <1>7
     DEF BoxBudget, BoxesOpened, PotionQuestions, BaseTurns, TypeOK
<1> QED BY <1>8, <1>9, <1>10, <1>11, <1>12, <1>13, <1>14, <1>15, <1>16 DEF IInv

\* A refresh or an opened box puts a fresh offer of the same kind and for the
\* same reward on the table and leaves the clock and the rewards alone.
LEMMA RedrawStep ==
  ASSUME IInv, phase = "CHOOSING", offer.kind \in {"POTION", "TOOL"},
         NEW source \in {"refresh", "box"},
         Issue(offer.kind, source, offer.threshold),
         revision' = revision + 1,
         UNCHANGED <<phase, baseCursor, completedTurns, pet, tools, claims,
                     score, peak>>,
         potionRefreshes' \in 0..PotionBudget, toolRefreshes' \in 0..pet,
         BoxBudget'
  PROVE  IInv'
<1> USE FlowAssumption
<1>0. TypeOK /\ Beginning /\ OfferFitsPosition /\ RevisionNamesOffer
  BY DEF IInv
<1>1. /\ offer' \in Offers /\ offer'.kind = offer.kind
      /\ offer'.threshold = offer.threshold /\ offer'.id = nextOfferId
      /\ nextOfferId' = nextOfferId + 1
      /\ offer'.kind # "POTION" => offer'.boxes = 0
  BY <1>0 DEF TypeOK, Issue, BoxCounts, Offers, Sources
<1>2. TypeOK'
  BY <1>0, <1>1 DEF TypeOK
<1>3. Beginning'
  BY <1>0, <1>1 DEF Beginning
<1>4. OfferFitsPosition'
  BY <1>0, <1>1 DEF OfferFitsPosition, Pending, FirstPending
<1>5. RevisionNamesOffer'
  BY <1>0, <1>1 DEF RevisionNamesOffer, TypeOK
<1>6. /\ FlowAccounting' /\ ClaimsInOrder'
      /\ NoRewardLeftLocked' /\ PeakCoversRewards'
  BY DEF IInv, FlowAccounting, BaseTurns, Claimed, ClaimsInOrder,
         NoRewardLeftLocked, PeakCoversRewards
<1> QED BY <1>2, <1>3, <1>4, <1>5, <1>6 DEF IInv

\* A potion refresh pays for the one box its draw may hold.
LEMMA RefreshPotionsStep == IInv /\ RefreshPotions => IInv'
<1> SUFFICES ASSUME IInv, RefreshPotions PROVE IInv'
  OBVIOUS
<1> USE FlowAssumption
<1>1. TypeOK /\ BoxBudget
  BY DEF IInv
<1>2. offer'.boxes \in 0..1 /\ offer'.kind = "POTION"
  BY DEF RefreshPotions, Issue, BoxCounts
<1>3. potionRefreshes' \in 0..PotionBudget /\ toolRefreshes' \in 0..pet
  BY <1>1 DEF RefreshPotions, TypeOK
<1>4. offer.boxes \in 0..1
  BY <1>1 DEF TypeOK, Offers
<1>5. BoxBudget'
  BY <1>1, <1>2, <1>4
     DEF RefreshPotions, BoxBudget, BoxesOpened, PotionQuestions, BaseTurns,
         TypeOK
<1> QED BY <1>3, <1>5, RedrawStep DEF RefreshPotions

\* A tool refresh opens no box.
LEMMA RefreshToolsStep == IInv /\ RefreshTools => IInv'
<1> SUFFICES ASSUME IInv, RefreshTools PROVE IInv'
  OBVIOUS
<1> USE FlowAssumption
<1>1. TypeOK /\ BoxBudget /\ offer.boxes = 0
  BY DEF IInv, Beginning, RefreshTools
<1>2. offer'.boxes = 0 /\ offer'.kind = "TOOL"
  BY DEF RefreshTools, Issue, BoxCounts
<1>3. potionRefreshes' \in 0..PotionBudget /\ toolRefreshes' \in 0..pet
  BY <1>1 DEF RefreshTools, TypeOK
<1>4. BoxBudget'
  BY <1>1, <1>2
     DEF RefreshTools, BoxBudget, BoxesOpened, PotionQuestions, BaseTurns,
         TypeOK
<1> QED BY <1>3, <1>4, RedrawStep DEF RefreshTools

\* Opening a box uses up the box and puts none on the table.
LEMMA OpenPotionBoxStep == IInv /\ OpenPotionBox => IInv'
<1> SUFFICES ASSUME IInv, OpenPotionBox PROVE IInv'
  OBVIOUS
<1> USE FlowAssumption
<1>1. TypeOK /\ BoxBudget /\ offer.boxes = 1 /\ offer.threshold = 0
  BY DEF IInv, OpenPotionBox, TypeOK, Offers, OfferFitsPosition
<1>2. offer'.boxes = 0 /\ offer'.kind = "POTION"
  BY DEF OpenPotionBox, Issue, BoxCounts
<1>3. potionRefreshes' \in 0..PotionBudget /\ toolRefreshes' \in 0..pet
  BY <1>1 DEF OpenPotionBox, TypeOK
<1>4. BoxBudget'
  BY <1>1, <1>2
     DEF OpenPotionBox, BoxBudget, BoxesOpened, PotionQuestions, BaseTurns,
         TypeOK
<1>5. Issue(offer.kind, "box", offer.threshold)
  BY <1>1 DEF OpenPotionBox
<1> QED BY <1>3, <1>4, <1>5, RedrawStep DEF OpenPotionBox

\* The opening tool starts the base flow with nothing unlocked.
LEMMA OpeningToolStep == IInv /\ ChooseOpeningTool => IInv'
<1> SUFFICES ASSUME IInv, ChooseOpeningTool PROVE IInv'
  OBVIOUS
<1> USE FlowAssumption
<1>0. TypeOK /\ Beginning /\ FlowAccounting /\ OfferFitsPosition
      /\ RevisionNamesOffer /\ BoxBudget
  BY DEF IInv
<1>1. PICK s \in Scores : RecordScore(s)
  BY DEF ChooseOpeningTool
<1>2. /\ s \in Nat /\ score' = s /\ peak' \in Nat /\ s <= peak' /\ peak <= peak'
  BY <1>0, <1>1 DEF RecordScore, TypeOK
<1>3. /\ phase = "CHOOSING" /\ baseCursor = 0 /\ offer.kind = "TOOL"
      /\ \A t \in Rewards : claims[t] = "LOCKED"
      /\ nextOfferId = revision + 1
  BY <1>0
     DEF ChooseOpeningTool, IsOpeningToolOffer, Beginning, RevisionNamesOffer
<1>4. completedTurns = 0 /\ tools = 0
  BY <1>0, <1>3, CountClaimed DEF FlowAccounting, BaseTurns, One, Rewards
<1>5. /\ UNCHANGED <<completedTurns, potionRefreshes, toolRefreshes, pet, claims>>
      /\ revision' = revision + 1 /\ baseCursor' = 1 /\ tools' = 1
      /\ Advance(claims, 1)
  BY <1>3, <1>4 DEF ChooseOpeningTool
<1>6. Pending(claims) = {}
  BY <1>3 DEF Pending
<1>7. /\ phase' = "CHOOSING" /\ offer' \in Offers /\ offer'.kind = "POTION"
      /\ offer'.threshold = 0 /\ offer'.boxes \in 0..1 /\ offer'.id = nextOfferId
      /\ nextOfferId' = nextOfferId + 1
  BY <1>0, <1>5, <1>6
     DEF Advance, AskBaseQuestion, Issue, BoxCounts, Offers, Kinds, Sources,
         LastCursor, TypeOK
<1>8. TypeOK'
  BY <1>0, <1>2, <1>5, <1>7 DEF TypeOK, Phases, LastCursor
<1>9. Beginning'
  BY <1>5, <1>7 DEF Beginning
<1>10. FlowAccounting'
  BY <1>0, <1>3, <1>4, <1>5, CountClaimed
     DEF FlowAccounting, BaseTurns, One, Rewards
<1>11. ClaimsInOrder'
  BY <1>5 DEF ClaimsInOrder, IInv
<1>12. OfferFitsPosition'
  BY <1>5, <1>6, <1>7 DEF OfferFitsPosition, Pending
<1>13. RevisionNamesOffer'
  BY <1>0, <1>3, <1>5, <1>7 DEF RevisionNamesOffer, TypeOK
<1>14. NoRewardLeftLocked'
  BY <1>3, <1>4, <1>5 DEF NoRewardLeftLocked
<1>15. PeakCoversRewards'
  BY <1>2, <1>3, <1>5 DEF PeakCoversRewards
<1>16. BoxBudget'
  <2>1. /\ offer.boxes = 0 /\ PotionQuestions = 0
        /\ PotionQuestions' = 1
    BY <1>0, <1>3, <1>5, <1>7 DEF Beginning, PotionQuestions, BaseTurns
  <2>2. BoxesOpened' = BoxesOpened
    BY <1>0, <1>3, <1>5, <1>7 DEF BoxesOpened, TypeOK
  <2>3. BoxesOpened \in Int /\ PotionBudget - potionRefreshes \in Int
    BY <1>0 DEF BoxesOpened, TypeOK
  <2> QED BY <1>0, <1>5, <1>7, <2>1, <2>2, <2>3 DEF BoxBudget
<1> QED BY <1>8, <1>9, <1>10, <1>11, <1>12, <1>13, <1>14, <1>15, <1>16 DEF IInv

\* What every settlement with unlocking preserves, whatever was played: c is
\* the claim list before the unlocking.
LEMMA SettleStep ==
  ASSUME IInv, phase = "CHOOSING",
         NEW c \in [Rewards -> Statuses], NEW s \in Scores, NEW cursor \in 1..LastCursor,
         RecordScore(s), claims' = Unlock(c, s), Advance(Unlock(c, s), cursor),
         baseCursor' = cursor, completedTurns' = completedTurns + 1,
         revision' = revision + 1, tools' \in Nat,
         UNCHANGED <<potionRefreshes, toolRefreshes, pet>>,
         \A t \in Rewards : c[t] = "LOCKED" <=> claims[t] = "LOCKED",
         c[HighThreshold] # "LOCKED" => c[LowThreshold] # "LOCKED",
         c[HighThreshold] = "CLAIMED" => c[LowThreshold] = "CLAIMED"
  PROVE  /\ TypeOK' /\ Beginning' /\ ClaimsInOrder' /\ OfferFitsPosition'
         /\ RevisionNamesOffer' /\ NoRewardLeftLocked' /\ PeakCoversRewards'
<1> USE FlowAssumption
<1>0. TypeOK /\ RevisionNamesOffer
  BY DEF IInv
<1>1. /\ s \in Nat /\ score' = s /\ peak' \in Nat /\ s <= peak' /\ peak <= peak'
  BY <1>0 DEF RecordScore, TypeOK
<1>2. claims' \in [Rewards -> Statuses]
  BY <1>1, UnlockEffect
<1>3. \A t \in Rewards :
        /\ claims'[t] = "CLAIMED" <=> c[t] = "CLAIMED"
        /\ c[t] # "LOCKED" => claims'[t] = c[t]
        /\ s >= t => claims'[t] # "LOCKED"
        /\ c[t] = "LOCKED" /\ s < t => claims'[t] = "LOCKED"
  BY <1>1, UnlockEffect
<1>4. Advance(claims', cursor)
  OBVIOUS
<1>5. /\ phase' \in {"CHOOSING", "FINISHED"}
      /\ offer' \in Offers
      /\ nextOfferId' \in Nat
      /\ offer'.kind # "UNKNOWN"
      /\ phase' = "FINISHED" <=> offer'.kind = "NONE"
      /\ phase' = "FINISHED" => nextOfferId' = nextOfferId
      /\ phase' # "FINISHED" =>
           nextOfferId' = nextOfferId + 1 /\ offer'.id = nextOfferId
      /\ offer'.kind = "TOOL" =>
           IF Pending(claims') = {}
           THEN cursor = 0 /\ offer'.threshold = 0
           ELSE offer'.threshold = FirstPending(claims')
      /\ offer'.kind # "TOOL" => Pending(claims') = {} /\ offer'.threshold = 0
      /\ offer'.kind = "POTION" => cursor \in 1..PotionTurns
      /\ offer'.kind = "SCHEME" =>
           cursor \in (PotionTurns + 1)..(LastCursor - 1)
      /\ offer'.kind = "NONE" => cursor = LastCursor
      /\ offer'.kind # "POTION" => offer'.boxes = 0
  <2>1. cursor \in 0..LastCursor /\ nextOfferId \in Nat
    BY <1>0 DEF TypeOK, LastCursor
  <2> QED BY <1>2, <1>4, <2>1, AdvanceEffect
<1>6. TypeOK'
  BY <1>0, <1>1, <1>2, <1>5 DEF TypeOK, Phases, LastCursor
<1>7. Beginning'
  BY <1>5 DEF Beginning, LastCursor
<1>8. ClaimsInOrder'
  BY <1>2, <1>3 DEF ClaimsInOrder, Rewards
<1>9. OfferFitsPosition'
  BY <1>5 DEF OfferFitsPosition, Pending, FirstPending, LastCursor
<1>10. RevisionNamesOffer'
  BY <1>0, <1>5 DEF RevisionNamesOffer, TypeOK
<1>11. NoRewardLeftLocked'
  BY <1>0, <1>1, <1>3 DEF NoRewardLeftLocked, TypeOK
<1>12. PeakCoversRewards'
  <2>1. ASSUME NEW t \in Rewards, claims'[t] # "LOCKED" PROVE peak' >= t
    <3>1. t \in Nat
      BY DEF Rewards
    <3>2. CASE c[t] = "LOCKED"
      BY <1>1, <1>3, <2>1, <3>1, <3>2
    <3>3. CASE c[t] # "LOCKED"
      BY <1>0, <1>1, <3>1, <3>3 DEF IInv, PeakCoversRewards, TypeOK
    <3> QED BY <3>2, <3>3
  <2> QED BY <1>1, <2>1 DEF PeakCoversRewards
<1> QED BY <1>6, <1>7, <1>8, <1>9, <1>10, <1>11, <1>12

\* Playing a potion or a scheme.
LEMMA PlayBaseCardStep == IInv /\ PlayBaseCard => IInv'
<1> SUFFICES ASSUME IInv, PlayBaseCard PROVE IInv'
  OBVIOUS
<1> USE FlowAssumption
<1>0. TypeOK /\ FlowAccounting /\ ClaimsInOrder /\ OfferFitsPosition /\ BoxBudget
  BY DEF IInv
<1>1. PICK s \in Scores : /\ RecordScore(s)
                          /\ claims' = Unlock(claims, s)
                          /\ Advance(Unlock(claims, s), baseCursor + 1)
  BY DEF PlayBaseCard
<1>2. /\ phase = "CHOOSING" /\ offer.kind \in {"POTION", "SCHEME"}
      /\ completedTurns' = completedTurns + 1
      /\ baseCursor' = baseCursor + 1
      /\ revision' = revision + 1
      /\ UNCHANGED <<potionRefreshes, toolRefreshes, pet, tools>>
  BY DEF PlayBaseCard
<1>3. /\ baseCursor \in 1..(LastCursor - 1)
      /\ offer.kind = "POTION" => baseCursor <= PotionTurns
      /\ offer.kind = "SCHEME" => baseCursor > PotionTurns
  BY <1>0, <1>2 DEF OfferFitsPosition, LastCursor
<1>4. /\ TypeOK' /\ Beginning' /\ ClaimsInOrder' /\ OfferFitsPosition'
      /\ RevisionNamesOffer' /\ NoRewardLeftLocked' /\ PeakCoversRewards'
  <2>1. claims \in [Rewards -> Statuses] /\ tools' \in Nat
        /\ baseCursor + 1 \in 1..LastCursor
    BY <1>0, <1>2, <1>3 DEF TypeOK, LastCursor
  <2>2. /\ claims[HighThreshold] # "LOCKED" => claims[LowThreshold] # "LOCKED"
        /\ claims[HighThreshold] = "CLAIMED" => claims[LowThreshold] = "CLAIMED"
    BY <1>0 DEF ClaimsInOrder
  <2> QED BY <1>1, <1>2, <2>1, <2>2, SettleStep
<1>5. FlowAccounting'
  <2>1. \A t \in Rewards : claims'[t] = "CLAIMED" <=> claims[t] = "CLAIMED"
    BY <1>0, <1>1, UnlockEffect DEF TypeOK
  <2>2. Claimed(claims') = Claimed(claims)
    BY <2>1 DEF Claimed
  <2>3. Cardinality(Claimed(claims)) \in Nat
    BY CountClaimed DEF One
  <2> QED BY <1>0, <1>2, <1>3, <2>2, <2>3
          DEF FlowAccounting, BaseTurns, LastCursor, TypeOK
<1>6. BoxBudget'
  <2>1. offer.boxes \in 0..1 /\ offer'.boxes \in 0..1
    BY <1>0, <1>4 DEF TypeOK, Offers
  <2>2. offer'.kind # "POTION" => offer'.boxes = 0
    BY <1>4 DEF Beginning
  <2>3. offer'.kind = "POTION" => baseCursor + 1 <= PotionTurns
    BY <1>2, <1>4 DEF OfferFitsPosition
  <2>4. phase' # "PREPARING"
    BY <1>1 DEF Advance
  <2>5. BoxesOpened' = BoxesOpened
    BY <1>0, <1>2, <1>3, <2>4 DEF BoxesOpened, LastCursor, TypeOK
  <2>6. BoxesOpened \in Int /\ PotionBudget - potionRefreshes \in Nat
    BY <1>0 DEF BoxesOpened, TypeOK
  <2>7. PotionQuestions + offer'.boxes <= PotionQuestions'
    BY <1>0, <1>2, <1>3, <2>1, <2>2, <2>3
       DEF PotionQuestions, BaseTurns, LastCursor, TypeOK
  <2>8. PotionQuestions \in Int /\ PotionQuestions' \in Int
    <3>1. baseCursor \in Int /\ baseCursor' \in Int
      BY <1>2, <1>3 DEF LastCursor
    <3>2. BaseTurns \in Int /\ BaseTurns' \in Int
      BY <3>1 DEF BaseTurns
    <3> QED BY <3>1, <3>2 DEF PotionQuestions
  <2> QED BY <1>0, <1>2, <2>1, <2>5, <2>6, <2>7, <2>8 DEF BoxBudget
<1> QED BY <1>4, <1>5, <1>6 DEF IInv

\* Claiming a reward tool.
LEMMA RewardToolStep == IInv /\ ChooseRewardTool => IInv'
<1> SUFFICES ASSUME IInv, ChooseRewardTool PROVE IInv'
  OBVIOUS
<1> USE FlowAssumption
<1>0. TypeOK /\ FlowAccounting /\ ClaimsInOrder /\ OfferFitsPosition /\ BoxBudget
      /\ Beginning
  BY DEF IInv
<1> DEFINE c == [t \in Rewards |->
                   IF t = offer.threshold THEN "CLAIMED" ELSE claims[t]]
<1>1. PICK s \in Scores : /\ RecordScore(s)
                          /\ claims' = Unlock(c, s)
                          /\ Advance(Unlock(c, s), baseCursor)
  BY DEF ChooseRewardTool
<1>2. /\ phase = "CHOOSING" /\ offer.kind = "TOOL"
      /\ completedTurns' = completedTurns + 1
      /\ tools' = tools + 1
      /\ revision' = revision + 1
      /\ UNCHANGED <<baseCursor, potionRefreshes, toolRefreshes, pet>>
  BY DEF ChooseRewardTool
<1>3. /\ baseCursor \in 1..LastCursor
      /\ offer.threshold = FirstPending(claims)
      /\ Pending(claims) # {}
  BY <1>0 DEF ChooseRewardTool, IsOpeningToolOffer, OfferFitsPosition, TypeOK,
              LastCursor
<1>4. offer.threshold \in Rewards /\ claims[offer.threshold] = "PENDING"
  BY <1>3 DEF FirstPending, Pending, Rewards
<1>5. c \in [Rewards -> Statuses]
  BY <1>0 DEF TypeOK, Statuses
<1>6. \A t \in Rewards :
        c[t] = IF t = offer.threshold THEN "CLAIMED" ELSE claims[t]
  OBVIOUS
<1> HIDE DEF c
<1>7. /\ c[HighThreshold] # "LOCKED" => c[LowThreshold] # "LOCKED"
      /\ c[HighThreshold] = "CLAIMED" => c[LowThreshold] = "CLAIMED"
  <2>1. c[LowThreshold] \in Statuses /\ claims[LowThreshold] \in Statuses
        /\ LowThreshold \in Rewards /\ HighThreshold \in Rewards
    BY <1>0, <1>5 DEF TypeOK, Rewards
  <2> QED BY <1>0, <1>3, <1>4, <1>6, <2>1
          DEF ClaimsInOrder, FirstPending, Statuses
<1>8. /\ TypeOK' /\ Beginning' /\ ClaimsInOrder' /\ OfferFitsPosition'
      /\ RevisionNamesOffer' /\ NoRewardLeftLocked' /\ PeakCoversRewards'
  <2>1. tools' \in Nat
    BY <1>0, <1>2 DEF TypeOK
  <2>2. \A t \in Rewards : c[t] = "LOCKED" <=> claims[t] = "LOCKED"
    BY <1>4, <1>6
  <2> QED BY <1>1, <1>2, <1>3, <1>5, <1>7, <2>1, <2>2, SettleStep
<1>9. FlowAccounting'
  <2>1. \A t \in Rewards : claims'[t] = "CLAIMED" <=> c[t] = "CLAIMED"
    BY <1>1, <1>5, UnlockEffect
  <2>2. /\ One(claims', LowThreshold) = One(c, LowThreshold)
        /\ One(claims', HighThreshold) = One(c, HighThreshold)
    BY <2>1 DEF One, Rewards
  <2>3. One(c, LowThreshold) + One(c, HighThreshold)
          = One(claims, LowThreshold) + One(claims, HighThreshold) + 1
    BY <1>4, <1>6 DEF One, Rewards
  <2>4. Cardinality(Claimed(claims')) = Cardinality(Claimed(claims)) + 1
    BY <2>2, <2>3, CountClaimed
  <2>5. Cardinality(Claimed(claims)) \in Nat
    BY CountClaimed DEF One
  <2> QED BY <1>0, <1>2, <1>3, <2>4, <2>5
          DEF FlowAccounting, BaseTurns, LastCursor, TypeOK
<1>10. BoxBudget'
  <2>1. offer.boxes = 0 /\ offer'.boxes \in 0..1
    BY <1>0, <1>2, <1>8 DEF TypeOK, Offers, Beginning
  <2>2. offer'.kind # "POTION" => offer'.boxes = 0
    BY <1>8 DEF Beginning
  <2>3. offer'.kind = "POTION" => baseCursor <= PotionTurns
    BY <1>2, <1>8 DEF OfferFitsPosition
  <2>4. phase' # "PREPARING"
    BY <1>1 DEF Advance
  <2>5. BoxesOpened' = BoxesOpened
    BY <1>0, <1>2, <1>3, <2>4 DEF BoxesOpened, TypeOK
  <2>6. BoxesOpened \in Int /\ PotionBudget - potionRefreshes \in Nat
    BY <1>0 DEF BoxesOpened, TypeOK
  <2>7. PotionQuestions + offer'.boxes <= PotionQuestions'
    BY <1>0, <1>2, <1>3, <2>1, <2>2, <2>3
       DEF PotionQuestions, BaseTurns, TypeOK, LastCursor
  <2>8. PotionQuestions \in Int /\ PotionQuestions' \in Int
    <3>1. baseCursor \in Int /\ baseCursor' \in Int
      BY <1>2, <1>3 DEF LastCursor
    <3>2. BaseTurns \in Int /\ BaseTurns' \in Int
      BY <3>1 DEF BaseTurns
    <3> QED BY <3>1, <3>2 DEF PotionQuestions
  <2> QED BY <1>0, <1>2, <2>1, <2>5, <2>6, <2>7, <2>8 DEF BoxBudget
<1> QED BY <1>8, <1>9, <1>10 DEF IInv

-----------------------------------------------------------------------------
(* The theorems.                                                           *)

\* Every command preserves the invariant.
LEMMA StepInvariant == IInv /\ [Next]_vars => IInv'
<1> SUFFICES ASSUME IInv, [Next]_vars PROVE IInv'
  OBVIOUS
<1>1. CASE Prepare
  BY <1>1, PrepareStep
<1>2. CASE ChooseOpeningTool
  BY <1>2, OpeningToolStep
<1>3. CASE ChooseRewardTool
  BY <1>3, RewardToolStep
<1>4. CASE PlayBaseCard
  BY <1>4, PlayBaseCardStep
<1>5. CASE RefreshPotions
  BY <1>5, RefreshPotionsStep
<1>6. CASE RefreshTools
  BY <1>6, RefreshToolsStep
<1>7. CASE OpenPotionBox
  BY <1>7, OpenPotionBoxStep
<1>8. CASE UNCHANGED vars
  BY <1>8
     DEF vars, IInv, TypeOK, Beginning, FlowAccounting, BaseTurns, Claimed,
         ClaimsInOrder, OfferFitsPosition, Pending, FirstPending,
         RevisionNamesOffer, NoRewardLeftLocked, PeakCoversRewards, BoxBudget,
         BoxesOpened, PotionQuestions
<1> QED BY <1>1, <1>2, <1>3, <1>4, <1>5, <1>6, <1>7, <1>8 DEF Next

\* The inductive invariant holds of every game.
THEOREM Invariance == Spec => []IInv
BY InitInvariant, StepInvariant, PTL DEF Spec

\* Every state of a game is well typed; in particular the cursor stays within
\* the range that ValidateState accepts.
THEOREM TypeCorrect == Spec => []TypeOK
<1>1. IInv => TypeOK
  BY DEF IInv
<1> QED BY <1>1, Invariance, PTL

\* The clock, the tools and the claims agree (see FlowAccounting), which is
\* what the screen readers rebuild states from.
THEOREM ClockAndClaimsAgree == Spec => []FlowAccounting
<1>1. IInv => FlowAccounting
  BY DEF IInv
<1> QED BY <1>1, Invariance, PTL

\* Rewards are owed and taken in ascending order of their thresholds.
THEOREM RewardsInOrder == Spec => []ClaimsInOrder
<1>1. IInv => ClaimsInOrder
  BY DEF IInv
<1> QED BY <1>1, Invariance, PTL

\* The offer on the table is always the one the position calls for.
THEOREM OffersFit == Spec => []OfferFitsPosition
<1>1. IInv => OfferFitsPosition
  BY DEF IInv
<1> QED BY <1>1, Invariance, PTL

\* An offer id and a revision name the same moment of the game.
THEOREM RevisionsAndOffersAgree == Spec => []RevisionNamesOffer
<1>1. IInv => RevisionNamesOffer
  BY DEF IInv
<1> QED BY <1>1, Invariance, PTL

\* After the first turn no reward within reach of the score stays locked.
THEOREM RewardsUnlocked == Spec => []NoRewardLeftLocked
<1>1. IInv => NoRewardLeftLocked
  BY DEF IInv
<1> QED BY <1>1, Invariance, PTL

\* The recorded peak covers the score and every reward ever unlocked.
THEOREM PeakCovers == Spec => []PeakCoversRewards
<1>1. IInv => PeakCoversRewards
  BY DEF IInv
<1> QED BY <1>1, Invariance, PTL

\* Boxes are bounded by the draws, so a game has boundedly many commands.
THEOREM BoxesBounded == Spec => []BoxBudget
<1>1. IInv => BoxBudget
  BY DEF IInv
<1> QED BY <1>1, Invariance, PTL

\* A game has at most LongestGame commands (Replay's limit is far above): turns,
\* refreshes and boxes are each bounded, and nothing else moves the revision.
THEOREM GamesAreShort == Spec => []GameLength
<1>1. IInv => GameLength
  <2> SUFFICES ASSUME IInv PROVE GameLength
    OBVIOUS
  <2> USE FlowAssumption
  <2>1. TypeOK /\ Beginning /\ FlowAccounting /\ BoxBudget /\ OfferFitsPosition
    BY DEF IInv
  <2>2. /\ baseCursor \in 0..LastCursor /\ completedTurns \in Nat
        /\ offer.boxes \in 0..1 /\ revision \in Nat
        /\ potionRefreshes \in 0..PotionBudget
        /\ pet \in 0..MaxPet /\ toolRefreshes \in 0..pet
    BY <2>1 DEF TypeOK, Offers
  <2>3. CASE phase = "PREPARING"
    BY <2>1, <2>2, <2>3 DEF Beginning, GameLength, LongestGame
  <2>4. CASE phase # "PREPARING"
    <3>1. BaseTurns \in Nat /\ BaseTurns <= PotionTurns + SchemeTurns
      BY <2>2 DEF BaseTurns, LastCursor
    <3>2. completedTurns <= PotionTurns + SchemeTurns + 2
      <4>1. One(claims, LowThreshold) \in 0..1 /\ One(claims, HighThreshold) \in 0..1
        BY DEF One
      <4>2. completedTurns = BaseTurns + Cardinality(Claimed(claims))
        BY <2>1 DEF FlowAccounting
      <4> QED BY <3>1, <4>1, <4>2, CountClaimed
    <3>3. PotionQuestions \in Int /\ PotionQuestions <= PotionTurns
      BY <2>1, <2>2, <3>1 DEF PotionQuestions, OfferFitsPosition
    <3>4. BoxesOpened = revision - 2 - (IF baseCursor = 0 THEN 0 ELSE 1)
              - completedTurns - (PotionBudget - potionRefreshes)
              - (pet - toolRefreshes)
      BY <2>4 DEF BoxesOpened
    <3>5. BoxesOpened <= PotionTurns + (PotionBudget - potionRefreshes)
      BY <2>1, <2>2, <3>3, <3>4 DEF BoxBudget
    <3> QED BY <2>2, <3>2, <3>4, <3>5 DEF GameLength, LongestGame
  <2> QED BY <2>3, <2>4
<1> QED BY <1>1, Invariance, PTL

-----------------------------------------------------------------------------
(* What a step may do.                                                     *)

\* A claim moves forward only, and to CLAIMED only by the turn spent on it
\* (chooseCard, updateRewards): a lower score takes nothing back.
THEOREM ClaimsNeverReturn == Spec => ClaimsOnlyAdvance
<1>1. IInv /\ [Next]_vars => [ClaimsAdvance]_vars
  <2> SUFFICES ASSUME IInv, Next PROVE ClaimsAdvance
    OBVIOUS
  <2>1. claims \in [Rewards -> Statuses] /\ Scores \subseteq Nat
    BY FlowAssumption DEF IInv, TypeOK
  <2>2. CASE claims' = claims
    BY <2>2 DEF ClaimsAdvance
  <2>3. CASE ChooseRewardTool
    <3>1. baseCursor' = baseCursor /\ completedTurns' = completedTurns + 1
      BY <2>3 DEF ChooseRewardTool
    <3> DEFINE claimed == [u \in Rewards |->
                 IF u = offer.threshold THEN "CLAIMED" ELSE claims[u]]
    <3>2. PICK s \in Scores : claims' = Unlock(claimed, s)
      BY <2>3 DEF ChooseRewardTool
    <3>3. claimed \in [Rewards -> Statuses]
      BY <2>1 DEF Statuses
    <3>4. claims[offer.threshold] = "PENDING"
      <4>1. offer.kind = "TOOL"
            /\ ~(baseCursor = 0 /\ offer.threshold = 0)
        BY <2>3 DEF ChooseRewardTool, IsOpeningToolOffer
      <4>2. Pending(claims) # {} /\ offer.threshold = FirstPending(claims)
        BY <4>1 DEF IInv, OfferFitsPosition
      <4> QED BY <4>2 DEF Pending, FirstPending, Rewards
    <3>5. \A t \in Rewards :
            /\ claims'[t] = "CLAIMED" <=> claimed[t] = "CLAIMED"
            /\ claimed[t] # "LOCKED" => claims'[t] = claimed[t]
      <4> HIDE DEF claimed
      <4> QED BY <2>1, <3>2, <3>3, UnlockEffect
    <3>6. \A t \in Rewards :
            claimed[t] = IF t = offer.threshold THEN "CLAIMED" ELSE claims[t]
      OBVIOUS
    <3> HIDE DEF claimed
    <3> QED BY <3>1, <3>4, <3>5, <3>6 DEF ClaimsAdvance
  <2>4. CASE PlayBaseCard
    <3>1. PICK s \in Scores : claims' = Unlock(claims, s)
      BY <2>4 DEF PlayBaseCard
    <3> QED BY <2>1, <3>1, UnlockEffect DEF ClaimsAdvance
  <2> QED BY <2>2, <2>3, <2>4
     DEF Next, Prepare, ChooseOpeningTool, RefreshPotions, RefreshTools,
         OpenPotionBox
<1> QED BY <1>1, Invariance, PTL DEF Spec, ClaimsOnlyAdvance

-----------------------------------------------------------------------------
(* The engine implements the published flow.                               *)

\* What the plan needs of a state.  It is weaker than IInv, and true as well of
\* a state that is rebuilt from what a player sees (ai.RebuildState): there the
\* identities, the peak and the refreshes spent are made up.
Resumable ==
  /\ phase \in Phases /\ baseCursor \in 0..LastCursor
  /\ offer \in Offers /\ nextOfferId \in Nat
  /\ claims \in [Rewards -> Statuses]
  /\ ClaimsInOrder
  /\ OfferFitsPosition

\* Every state of a game can be resumed.
LEMMA GamesResumable == IInv => Resumable
BY DEF IInv, TypeOK, Resumable

\* A settlement leaves a state that can be resumed, whatever was played: c is
\* the claim list before the unlocking.
LEMMA SettleResumable ==
  ASSUME Resumable,
         NEW c \in [Rewards -> Statuses], NEW s \in Scores,
         NEW cursor \in 1..LastCursor,
         claims' = Unlock(c, s), Advance(Unlock(c, s), cursor),
         baseCursor' = cursor,
         c[HighThreshold] # "LOCKED" => c[LowThreshold] # "LOCKED",
         c[HighThreshold] = "CLAIMED" => c[LowThreshold] = "CLAIMED"
  PROVE  Resumable'
<1> USE FlowAssumption
<1>1. s \in Nat /\ nextOfferId \in Nat /\ cursor \in 0..LastCursor
  BY DEF Resumable, LastCursor
<1>2. claims' \in [Rewards -> Statuses]
  BY <1>1, UnlockEffect
<1>3. \A t \in Rewards :
        /\ claims'[t] = "CLAIMED" <=> c[t] = "CLAIMED"
        /\ c[t] # "LOCKED" => claims'[t] = c[t]
        /\ s >= t => claims'[t] # "LOCKED"
        /\ c[t] = "LOCKED" /\ s < t => claims'[t] = "LOCKED"
  BY <1>1, UnlockEffect
<1>4. /\ phase' \in {"CHOOSING", "FINISHED"}
      /\ offer' \in Offers
      /\ nextOfferId' \in Nat
      /\ offer'.kind # "UNKNOWN"
      /\ phase' = "FINISHED" <=> offer'.kind = "NONE"
      /\ offer'.kind = "TOOL" =>
           IF Pending(claims') = {}
           THEN cursor = 0 /\ offer'.threshold = 0
           ELSE offer'.threshold = FirstPending(claims')
      /\ offer'.kind # "TOOL" => Pending(claims') = {} /\ offer'.threshold = 0
      /\ offer'.kind = "POTION" => cursor \in 1..PotionTurns
      /\ offer'.kind = "SCHEME" =>
           cursor \in (PotionTurns + 1)..(LastCursor - 1)
      /\ offer'.kind = "NONE" => cursor = LastCursor
  <2>1. Advance(claims', cursor)
    OBVIOUS
  <2> QED BY <1>1, <1>2, <2>1, AdvanceEffect
<1>5. ClaimsInOrder'
  BY <1>2, <1>3 DEF ClaimsInOrder, Rewards
<1>6. OfferFitsPosition'
  BY <1>4 DEF OfferFitsPosition, Pending, FirstPending, LastCursor
<1> QED BY <1>1, <1>2, <1>4, <1>5, <1>6 DEF Resumable, Phases

\* Before the base flow starts nothing is unlocked, and the next question is
\* the one that comes with the cursor.
LEMMA BeginResumable ==
  ASSUME Resumable, NEW cursor \in {0, 1}, Pending(claims) = {},
         Advance(claims, cursor), baseCursor' = cursor, claims' = claims
  PROVE  Resumable'
<1> USE FlowAssumption
<1>1. cursor \in 0..LastCursor /\ nextOfferId \in Nat
      /\ claims \in [Rewards -> Statuses] /\ ClaimsInOrder
  BY DEF Resumable, LastCursor
<1>2. /\ phase' \in {"CHOOSING", "FINISHED"}
      /\ offer' \in Offers
      /\ nextOfferId' \in Nat
      /\ offer'.kind # "UNKNOWN"
      /\ phase' = "FINISHED" <=> offer'.kind = "NONE"
      /\ offer'.kind = "TOOL" => cursor = 0 /\ offer'.threshold = 0
      /\ offer'.kind # "TOOL" => offer'.threshold = 0
      /\ offer'.kind = "POTION" => cursor \in 1..PotionTurns
      /\ offer'.kind = "SCHEME" =>
           cursor \in (PotionTurns + 1)..(LastCursor - 1)
      /\ offer'.kind = "NONE" => cursor = LastCursor
  BY <1>1, AdvanceEffect
<1>3. ClaimsInOrder'
  BY <1>1 DEF ClaimsInOrder
<1>4. Pending(claims)' = {}
  BY DEF Pending
<1>5. OfferFitsPosition'
  BY <1>2, <1>4 DEF OfferFitsPosition
<1> QED BY <1>1, <1>2, <1>3, <1>5 DEF Resumable, Phases

\* A new offer of the same kind and for the same reward.
LEMMA RedrawResumable ==
  ASSUME Resumable, phase = "CHOOSING",
         NEW source \in {"refresh", "box"},
         Issue(offer.kind, source, offer.threshold),
         UNCHANGED <<phase, baseCursor, claims>>
  PROVE  Resumable'
<1>1. /\ offer' \in Offers /\ offer'.kind = offer.kind
      /\ offer'.threshold = offer.threshold /\ nextOfferId' \in Nat
  BY DEF Resumable, Issue, BoxCounts, Offers, Sources
<1>2. OfferFitsPosition'
  BY <1>1 DEF Resumable, OfferFitsPosition, Pending, FirstPending
<1>3. ClaimsInOrder'
  BY DEF Resumable, ClaimsInOrder
<1> QED BY <1>1, <1>2, <1>3 DEF Resumable

\* Every command preserves that.
LEMMA StepResumable == Resumable /\ [Next]_vars => Resumable'
<1> SUFFICES ASSUME Resumable, [Next]_vars PROVE Resumable'
  OBVIOUS
<1> USE FlowAssumption
<1>1. CASE Prepare
  <2>1. baseCursor = 0 /\ Pending(claims) = {}
    BY <1>1 DEF Prepare, Resumable, OfferFitsPosition
  <2> QED BY <1>1, <2>1, BeginResumable DEF Prepare
<1>2. CASE ChooseOpeningTool
  <2>1. baseCursor = 0 /\ Pending(claims) = {}
    BY <1>2 DEF ChooseOpeningTool, IsOpeningToolOffer, Resumable,
                OfferFitsPosition
  <2>2. Advance(claims, 1) /\ baseCursor' = 1 /\ claims' = claims
    BY <1>2, <2>1 DEF ChooseOpeningTool
  <2> QED BY <2>1, <2>2, BeginResumable
<1>3. CASE ChooseRewardTool
  <2> DEFINE c == [t \in Rewards |->
                     IF t = offer.threshold THEN "CLAIMED" ELSE claims[t]]
  <2>1. PICK s \in Scores : /\ claims' = Unlock(c, s)
                            /\ Advance(Unlock(c, s), baseCursor)
    BY <1>3 DEF ChooseRewardTool
  <2>2. offer.kind = "TOOL" /\ ~(baseCursor = 0 /\ offer.threshold = 0)
        /\ baseCursor' = baseCursor
    BY <1>3 DEF ChooseRewardTool, IsOpeningToolOffer
  <2>3. /\ baseCursor \in 1..LastCursor
        /\ offer.threshold = FirstPending(claims)
        /\ Pending(claims) # {}
    BY <2>2 DEF Resumable, OfferFitsPosition, LastCursor
  <2>4. offer.threshold \in Rewards /\ claims[offer.threshold] = "PENDING"
    BY <2>3 DEF FirstPending, Pending, Rewards
  <2>5. c \in [Rewards -> Statuses] /\ claims \in [Rewards -> Statuses]
        /\ ClaimsInOrder
    BY DEF Resumable, Statuses
  <2>6. \A t \in Rewards :
          c[t] = IF t = offer.threshold THEN "CLAIMED" ELSE claims[t]
    OBVIOUS
  <2> HIDE DEF c
  <2>7. /\ c[HighThreshold] # "LOCKED" => c[LowThreshold] # "LOCKED"
        /\ c[HighThreshold] = "CLAIMED" => c[LowThreshold] = "CLAIMED"
    <3>1. c[LowThreshold] \in Statuses /\ claims[LowThreshold] \in Statuses
          /\ LowThreshold \in Rewards /\ HighThreshold \in Rewards
      BY <2>5 DEF Rewards
    <3> QED BY <2>3, <2>4, <2>5, <2>6, <3>1
            DEF ClaimsInOrder, FirstPending, Statuses
  <2> QED BY <2>1, <2>2, <2>3, <2>5, <2>7, SettleResumable
<1>4. CASE PlayBaseCard
  <2>1. PICK s \in Scores : /\ claims' = Unlock(claims, s)
                            /\ Advance(Unlock(claims, s), baseCursor + 1)
    BY <1>4 DEF PlayBaseCard
  <2>2. baseCursor + 1 \in 1..LastCursor /\ baseCursor' = baseCursor + 1
    BY <1>4 DEF PlayBaseCard, Resumable, OfferFitsPosition, LastCursor
  <2>3. /\ claims \in [Rewards -> Statuses]
        /\ claims[HighThreshold] # "LOCKED" => claims[LowThreshold] # "LOCKED"
        /\ claims[HighThreshold] = "CLAIMED" => claims[LowThreshold] = "CLAIMED"
    BY DEF Resumable, ClaimsInOrder
  <2> QED BY <2>1, <2>2, <2>3, SettleResumable
<1>5. CASE RefreshPotions
  BY <1>5, RedrawResumable DEF RefreshPotions
<1>6. CASE RefreshTools
  BY <1>6, RedrawResumable DEF RefreshTools
<1>7. CASE OpenPotionBox
  <2>1. offer.kind = "POTION" /\ offer.threshold = 0
    BY <1>7 DEF OpenPotionBox, Resumable, OfferFitsPosition
  <2>2. Issue(offer.kind, "box", offer.threshold)
    BY <1>7, <2>1 DEF OpenPotionBox
  <2> QED BY <1>7, <2>2, RedrawResumable DEF OpenPotionBox
<1>8. CASE UNCHANGED vars
  BY <1>8 DEF vars, Resumable, ClaimsInOrder, OfferFitsPosition, Pending,
              FirstPending
<1> QED BY <1>1, <1>2, <1>3, <1>4, <1>5, <1>6, <1>7, <1>8 DEF Next

\* The stage that a state of the engine stands for.
LEMMA StageOf ==
  ASSUME phase \in Phases
  PROVE  /\ phase = "PREPARING" => Stage = "preparing"
         /\ phase = "FINISHED" => Stage = "done"
         /\ phase = "CHOOSING" /\ baseCursor = 0 => Stage = "opening"
         /\ phase = "CHOOSING" /\ baseCursor # 0 => Stage = "operating"
BY DEF Stage, Phases

\* The same after a step.
LEMMA StageAfter ==
  ASSUME phase' \in Phases
  PROVE  /\ phase' = "PREPARING" => Stage' = "preparing"
         /\ phase' = "FINISHED" => Stage' = "done"
         /\ phase' = "CHOOSING" /\ baseCursor' = 0 => Stage' = "opening"
         /\ phase' = "CHOOSING" /\ baseCursor' # 0 => Stage' = "operating"
BY DEF Stage, Phases

\* A new game is a new plan (engine.New).
LEMMA InitPlan == Init => Plan!Init
<1> SUFFICES ASSUME Init PROVE Plan!Init
  OBVIOUS
<1>1. Stage = "preparing"
  BY DEF Init, Stage
<1>2. Pending(claims) = {} /\ Claimed(claims) = {} /\ BaseTurns = 0
  BY DEF Init, Pending, Claimed, BaseTurns
<1> QED BY <1>1, <1>2 DEF Plan!Init

\* Where advance leads from a settlement at a cursor past the opening: to the
\* end exactly when nothing is owed and the base flow is over.
LEMMA AdvanceStage ==
  ASSUME NEW c \in [Rewards -> Statuses], NEW cursor \in 1..LastCursor,
         claims' = c, baseCursor' = cursor, Advance(c, cursor)
  PROVE  Stage' = IF Pending(claims)' = {}
                       /\ BaseTurns' = PotionTurns + SchemeTurns
                  THEN "done" ELSE "operating"
<1> USE FlowAssumption DEF LastCursor
<1>1. /\ phase' \in {"CHOOSING", "FINISHED"}
      /\ phase' = "FINISHED" <=> Pending(c) = {} /\ cursor >= LastCursor
  BY DEF Advance
<1>2. BaseTurns' = cursor - 1 /\ Pending(claims)' = Pending(c)
  BY DEF BaseTurns, Pending
<1>3. cursor >= LastCursor <=> cursor - 1 = PotionTurns + SchemeTurns
  OBVIOUS
<1>4. /\ phase' = "FINISHED" => Stage' = "done"
      /\ phase' = "CHOOSING" => Stage' = "operating"
  BY <1>1, StageAfter DEF Phases
<1> QED BY <1>1, <1>2, <1>3, <1>4

\* A settlement owes new rewards only in ascending order, which is all that
\* the plan asks of it (updateRewards).
LEMMA SettlePlan ==
  ASSUME Resumable', Stage' = IF Pending(claims)' = {}
                              /\ BaseTurns' = PotionTurns + SchemeTurns
                         THEN "done" ELSE "operating",
         NEW still \in SUBSET Rewards,
         still \subseteq Pending(claims)'
  PROVE  Plan!Settle(still)
<1> DEFINE new == Pending(claims)' \ still
<1>1. new \in SUBSET (Plan!Thresholds \ (still \cup Claimed(claims)'))
  BY DEF Pending, Claimed, Rewards, Plan!Thresholds
<1>2. Pending(claims)' = still \cup new
  OBVIOUS
<1>3. HighThreshold \in new =>
        LowThreshold \in Pending(claims)' \cup Claimed(claims)'
  <2>1. claims' \in [Rewards -> Statuses] /\ ClaimsInOrder'
    BY DEF Resumable
  <2> QED BY <2>1 DEF ClaimsInOrder, Pending, Claimed, Rewards, Statuses
<1> HIDE DEF new
<1> QED BY <1>1, <1>2, <1>3 DEF Plan!Settle

\* A base card is a base turn of the plan.
LEMMA PlayBaseCardPlan ==
  Resumable /\ Resumable' /\ PlayBaseCard => Plan!BaseTurn
<1> SUFFICES ASSUME Resumable, Resumable', PlayBaseCard PROVE Plan!BaseTurn
  OBVIOUS
<1> USE FlowAssumption
<1>1. PICK s \in Scores : /\ claims' = Unlock(claims, s)
                          /\ Advance(Unlock(claims, s), baseCursor + 1)
  BY DEF PlayBaseCard
<1>2. /\ phase = "CHOOSING" /\ offer.kind \in {"POTION", "SCHEME"}
      /\ baseCursor' = baseCursor + 1
  BY DEF PlayBaseCard
<1>3. baseCursor \in 1..(LastCursor - 1) /\ Pending(claims) = {}
  BY <1>2 DEF Resumable, OfferFitsPosition, LastCursor
<1>4. claims \in [Rewards -> Statuses] /\ s \in Nat
  BY DEF Resumable
<1>5. /\ claims' \in [Rewards -> Statuses]
      /\ \A t \in Rewards : claims'[t] = "CLAIMED" <=> claims[t] = "CLAIMED"
  BY <1>1, <1>4, UnlockEffect
<1>6. Claimed(claims)' = Claimed(claims)
  BY <1>5 DEF Claimed
<1>7. Stage = "operating"
  BY <1>2, <1>3, StageOf DEF Phases
<1>8. baseCursor + 1 \in 1..LastCursor
  BY <1>3 DEF LastCursor
<1>9. Plan!Settle({})
  BY <1>1, <1>2, <1>5, <1>8, AdvanceStage, SettlePlan
<1>10. BaseTurns' = BaseTurns + 1 /\ BaseTurns < PotionTurns + SchemeTurns
  BY <1>2, <1>3 DEF BaseTurns, LastCursor
<1> QED BY <1>3, <1>6, <1>7, <1>9, <1>10 DEF Plan!BaseTurn

\* A reward tool is a reward turn of the plan.
LEMMA RewardToolPlan ==
  Resumable /\ Resumable' /\ ChooseRewardTool => Plan!RewardTurn
<1> SUFFICES ASSUME Resumable, Resumable', ChooseRewardTool
             PROVE  Plan!RewardTurn
  OBVIOUS
<1> USE FlowAssumption
<1> DEFINE claimed == [t \in Rewards |->
             IF t = offer.threshold THEN "CLAIMED" ELSE claims[t]]
<1>1. PICK s \in Scores : /\ claims' = Unlock(claimed, s)
                          /\ Advance(Unlock(claimed, s), baseCursor)
  BY DEF ChooseRewardTool
<1>2. /\ phase = "CHOOSING" /\ offer.kind = "TOOL"
      /\ ~(baseCursor = 0 /\ offer.threshold = 0)
      /\ baseCursor' = baseCursor
  BY DEF ChooseRewardTool, IsOpeningToolOffer
<1>3. /\ Pending(claims) # {} /\ baseCursor \in 1..LastCursor
      /\ offer.threshold = FirstPending(claims)
  <2>1. Pending(claims) # {} /\ baseCursor > 0
        /\ offer.threshold = FirstPending(claims)
    BY <1>2 DEF Resumable, OfferFitsPosition
  <2> QED BY <2>1 DEF Resumable, LastCursor
<1>4. offer.threshold = Plan!Lowest(Pending(claims))
  BY <1>3 DEF FirstPending, Plan!Lowest, Pending, Rewards
<1>5. claims \in [Rewards -> Statuses] /\ s \in Nat
  BY DEF Resumable
<1>6. claimed \in [Rewards -> Statuses]
  BY <1>5 DEF Statuses
<1>7. /\ \A t \in Rewards : claimed[t] =
             IF t = offer.threshold THEN "CLAIMED" ELSE claims[t]
      /\ offer.threshold \in Rewards
  BY <1>3 DEF FirstPending, Rewards
<1> HIDE DEF claimed
<1>8. /\ claims' \in [Rewards -> Statuses]
      /\ \A t \in Rewards :
           /\ claims'[t] = "CLAIMED" <=> claimed[t] = "CLAIMED"
           /\ claimed[t] # "LOCKED" => claims'[t] = claimed[t]
  BY <1>1, <1>5, <1>6, UnlockEffect
<1>9. Claimed(claims)' = Claimed(claims) \cup {offer.threshold}
  BY <1>7, <1>8 DEF Claimed
<1>10. Pending(claims) \ {offer.threshold} \subseteq Pending(claims)'
  BY <1>7, <1>8 DEF Pending
<1>11. Stage = "operating"
  BY <1>2, <1>3, StageOf DEF Phases
<1>12. Plan!Settle(Pending(claims) \ {offer.threshold})
  <2>1. Pending(claims) \ {offer.threshold} \in SUBSET Rewards
    BY DEF Pending
  <2> QED BY <1>1, <1>2, <1>3, <1>8, <1>10, <2>1, AdvanceStage, SettlePlan
<1>13. BaseTurns' = BaseTurns
  BY <1>2 DEF BaseTurns
<1> QED BY <1>3, <1>4, <1>9, <1>11, <1>12, <1>13 DEF Plan!RewardTurn

\* The preparation ends with nothing owed.
LEMMA PreparePlan == Resumable /\ Resumable' /\ Prepare => Plan!Prepare
<1> SUFFICES ASSUME Resumable, Resumable', Prepare PROVE Plan!Prepare
  OBVIOUS
<1> USE FlowAssumption
<1>1. /\ phase = "PREPARING" /\ baseCursor = 0
      /\ claims' = claims /\ baseCursor' = baseCursor
  BY DEF Resumable, OfferFitsPosition, Prepare
<1>2. phase' = "CHOOSING"
  <2>1. LastCursor \in Nat \ {0}
    BY DEF LastCursor
  <2>2. Advance(claims, 0)
    BY <1>1 DEF Prepare
  <2> QED BY <2>1, <2>2 DEF Advance
<1>3. Stage = "preparing" /\ Stage' = "opening"
  BY <1>1, <1>2, StageOf, StageAfter DEF Phases
<1>4. UNCHANGED <<BaseTurns, Pending(claims), Claimed(claims)>>
  BY <1>1 DEF BaseTurns, Pending, Claimed
<1> QED BY <1>3, <1>4 DEF Plan!Prepare

\* The opening tool completes no turn and owes nothing.
LEMMA OpeningToolPlan ==
  Resumable /\ Resumable' /\ ChooseOpeningTool => Plan!TakeOpeningTool
<1> SUFFICES ASSUME Resumable, Resumable', ChooseOpeningTool
             PROVE  Plan!TakeOpeningTool
  OBVIOUS
<1> USE FlowAssumption
<1>1. /\ phase = "CHOOSING" /\ baseCursor = 0 /\ baseCursor' = 1
      /\ claims' = claims /\ Advance(claims, 1)
  BY DEF ChooseOpeningTool, IsOpeningToolOffer
<1>2. claims \in [Rewards -> Statuses] /\ 1 \in 1..LastCursor
  BY DEF Resumable, LastCursor
<1>3. Stage = "opening"
  BY <1>1, StageOf DEF Phases
<1>4. BaseTurns = 0 /\ BaseTurns' = 0
  BY <1>1 DEF BaseTurns
<1>5. Stage' = "operating"
  <2>1. PotionTurns + SchemeTurns # 0
    OBVIOUS
  <2> QED BY <1>1, <1>2, <1>4, <2>1, AdvanceStage
<1>6. UNCHANGED <<Pending(claims), Claimed(claims)>>
  BY <1>1 DEF Pending, Claimed
<1> QED BY <1>3, <1>4, <1>5, <1>6 DEF Plan!TakeOpeningTool

\* Every command is a step of the plan, or leaves the plan where it is.
LEMMA StepPlan ==
  Resumable /\ Resumable' /\ [Next]_vars => [Plan!Next]_(Plan!vars)
<1> SUFFICES ASSUME Resumable, Resumable', [Next]_vars
             PROVE  [Plan!Next]_(Plan!vars)
  OBVIOUS
<1>1. CASE Prepare
  BY <1>1, PreparePlan DEF Plan!Next
<1>2. CASE ChooseOpeningTool
  BY <1>2, OpeningToolPlan DEF Plan!Next
<1>3. CASE ChooseRewardTool
  BY <1>3, RewardToolPlan DEF Plan!Next
<1>4. CASE PlayBaseCard
  BY <1>4, PlayBaseCardPlan DEF Plan!Next
<1>5. CASE RefreshPotions \/ RefreshTools \/ OpenPotionBox \/ UNCHANGED vars
  <2>1. UNCHANGED <<phase, baseCursor, claims>>
    BY <1>5 DEF RefreshPotions, RefreshTools, OpenPotionBox, vars
  <2> QED BY <2>1 DEF Plan!vars, Stage, BaseTurns, Pending, Claimed
<1> QED BY <1>1, <1>2, <1>3, <1>4, <1>5 DEF Next

\* The engine implements the published flow, whatever is refreshed, opened or
\* scored on the way (engine.Apply, advance, updateRewards).
THEOREM EngineFollowsPlan == Spec => ImplementsPlan
<1>1. Init => Plan!Init
  BY InitPlan
<1>2. Resumable /\ Resumable' /\ [Next]_vars => [Plan!Next]_(Plan!vars)
  BY StepPlan
<1> QED BY <1>1, <1>2, GamesResumable, Invariance, PTL DEF Spec, ImplementsPlan, Plan!Spec
=============================================================================
