----------------------------- MODULE AdviceProofs -----------------------------
(***************************************************************************)
(* Proofs about Advice for every board, every set of cards and every       *)
(* number of questions and refreshes.                                      *)
(*                                                                         *)
(* A game that is watched is a game: IInv of GameFlow carries over until a *)
(* future is imagined.  From then on only Resumable does, since identities *)
(* and refreshes spent are made up.  Table says what the cards on offer    *)
(* have to do with the offer and the board, Watching what the tools that   *)
(* were read have to do with those that were gained, and Seeking what a    *)
(* guided player is about to do with the opening tool.                     *)
(***************************************************************************)
EXTENDS Advice, GameFlowProofs, WellFoundedInduction

-----------------------------------------------------------------------------
(* The invariant.                                                          *)

\* A card that may be put on the table (rules.CardDefinition).
Cards == Instruments \cup Potions \cup Tools \cup Schemes

\* A board with a monster on it.
Inhabited(b) == Occupied(b) # {}

\* The cards are some of those the offer calls for, and as many as an offer
\* may have; a board is empty before the preparation only.
Table ==
  /\ board \in [Slots -> Monsters \cup {Empty}]
  /\ phase # "PREPARING" => Inhabited(board)
  /\ offer.kind = "UNKNOWN" => cards \subseteq Instruments
  /\ offer.kind = "NONE" => cards = {}
  /\ offer.kind \in {"TOOL", "POTION", "SCHEME"} =>
       /\ Cardinality(cards) \in 1..5
       /\ cards \subseteq CardsOfKind(offer.kind, offer.threshold)

\* The refreshes left never exceed what a game starts with.
Budgets == potionRefreshes \in 0..PotionBudget /\ toolRefreshes \in 0..MaxPet

\* What is read of the tools are tools; in a real game no more are read than
\* were gained.
Watching ==
  /\ read \in Seq(Tools)
  /\ ~imagined => IInv /\ Len(read) <= tools

\* The opening tool of the playbook that fits a board.
WantedTool(b) ==
  LET book == SelectInitialPlaybook(b)
  IN IF book = Unmatched THEN Unmatched ELSE OpeningToolOf(book)

\* While the guided player is looking for a tool, one that has been shown is
\* still on the table: it is taken before anything else is done.
Seeking ==
  /\ guided \in BOOLEAN /\ imagined \in BOOLEAN
  /\ opening = [wanted |-> opening.wanted, shown |-> opening.shown,
                left |-> opening.left, tool |-> opening.tool]
  /\ opening.shown \in BOOLEAN
  /\ ~guided \/ imagined \/ phase = "PREPARING" => opening = NotYet
  /\ guided /\ ~imagined /\ phase # "PREPARING" /\ baseCursor = 0 =>
       /\ opening.wanted = WantedTool(board)
       /\ opening.tool = Unmatched
       /\ opening.shown /\ opening.wanted # Unmatched
            => opening.wanted \in cards
  /\ OpeningSought

AdviceInv == Resumable /\ Table /\ Budgets /\ Watching /\ Seeking

-----------------------------------------------------------------------------
(* Lemmas about the operators.                                             *)

\* A board with a monster has targets for every card (engine.LegalTargets): a
\* card asks for none, for one, or for one or two.
LEMMA SomeTuple ==
  ASSUME NEW places, NEW p \in places,
         NEW bounds \in {<<0, 0>>, <<1, 1>>, <<1, 2>>}
  PROVE  Tuples(places, bounds[1], bounds[2]) # {}
<1>1. CASE bounds = <<0, 0>>
  <2> DEFINE t == [i \in 1..0 |-> p]
  <2>1. t \in [1..0 -> places] /\ IsInjective(t)
    BY DEF IsInjective
  <2>2. 0 \in bounds[1]..bounds[2]
    BY <1>1
  <2> HIDE DEF t
  <2>3. t \in {u \in [1..0 -> places] : IsInjective(u)}
    BY <2>1
  <2> QED BY <2>2, <2>3 DEF Tuples
<1>2. CASE bounds # <<0, 0>>
  <2> DEFINE t == [i \in 1..1 |-> p]
  <2>1. t \in [1..1 -> places] /\ IsInjective(t)
    BY DEF IsInjective
  <2>2. 1 \in bounds[1]..bounds[2]
    BY <1>2
  <2> HIDE DEF t
  <2>3. t \in {u \in [1..1 -> places] : IsInjective(u)}
    BY <2>1
  <2> QED BY <2>2, <2>3 DEF Tuples
<1> QED BY <1>1, <1>2

\* More places, more tuples of them.
LEMMA TuplesGrow ==
  ASSUME NEW P, NEW Q, P \subseteq Q, NEW least \in Int, NEW largest \in Int
  PROVE  Tuples(P, least, largest) \subseteq Tuples(Q, least, largest)
<1> SUFFICES ASSUME NEW n \in least..largest, NEW t \in [1..n -> P],
                    IsInjective(t)
             PROVE  t \in Tuples(Q, least, largest)
  BY DEF Tuples
<1>1. t \in [1..n -> Q]
  OBVIOUS
<1> QED BY <1>1 DEF Tuples

\* How many targets a card asks for.
LEMMA TargetBounds ==
  ASSUME NEW c
  PROVE  /\ TargetsOf(c) \in {<<0, 0>>, <<1, 1>>, <<1, 2>>}
         /\ TargetsOf(c)[1] \in Int /\ TargetsOf(c)[2] \in Int
<1>1. TargetsOf(c) \in {<<0, 0>>, <<1, 1>>, <<1, 2>>}
  BY AdviceAssumption DEF TargetsOf
<1> QED BY <1>1

\* Every deal is one to five of the cards that the offer calls for.
LEMMA DealFits ==
  ASSUME NEW o \in Offers, NEW b, NEW d \in Deals(o, b)
  PROVE  /\ o.kind = "UNKNOWN" => d \subseteq Instruments
         /\ o.kind = "NONE" => d = {}
         /\ o.kind \in {"TOOL", "POTION", "SCHEME"} =>
              /\ Cardinality(d) \in 1..5
              /\ d \subseteq CardsOfKind(o.kind, o.threshold)
<1> USE AdviceAssumption
<1>1. CASE o.kind = "UNKNOWN"
  BY <1>1 DEF Deals
<1>2. CASE o.kind = "NONE"
  BY <1>2 DEF Deals
<1>3. CASE o.kind = "SCHEME"
  BY <1>3 DEF Deals, CardsOfKind
<1>4. CASE o.kind = "TOOL"
  <2>1. d \in kSubset(3, IF o.threshold = 0 THEN CoreTools ELSE Tools)
    BY <1>4 DEF Deals
  <2>2. Cardinality(d) = 3
    BY <2>1 DEF kSubset
  <2>3. d \subseteq IF o.threshold = 0 THEN CoreTools ELSE Tools
    BY <2>1 DEF kSubset
  <2> QED BY <1>4, <2>2, <2>3 DEF CardsOfKind
<1>5. CASE o.kind = "POTION"
  <2> DEFINE usable == {c \in Potions :
                          Tuples(Occupied(b), Targets[c][1],
                                 Targets[c][2]) # {}}
             sizes == IF o.source = "box" THEN {3, 5} ELSE {3}
  <2>1. d \in UNION {kSubset(n, usable) : n \in sizes}
    BY <1>5 DEF Deals
  <2>2. PICK n \in sizes : d \in kSubset(n, usable)
    BY <2>1
  <2>3. n \in 1..5
    OBVIOUS
  <2>4. Cardinality(d) = n /\ d \subseteq Potions
    BY <2>2 DEF kSubset
  <2> QED BY <1>5, <2>3, <2>4 DEF CardsOfKind
<1> QED BY <1>1, <1>2, <1>3, <1>4, <1>5 DEF Offers, Kinds

\* What an offer calls for are cards.
LEMMA KindsAreCards ==
  ASSUME NEW kind, NEW threshold
  PROVE  CardsOfKind(kind, threshold) \subseteq Cards
BY AdviceAssumption DEF CardsOfKind, Cards

\* The families by name.
LEMMA FamilyNames == Families = {"BONE", "FIEND", "AWAKENER", "INSECT"}
<1>1. DOMAIN FamilyOrder = {1, 2, 3, 4}
  BY DEF FamilyOrder
<1> QED BY <1>1 DEF Families, Range, FamilyOrder

\* A board with a monster has a leading family (derivedToolFamily).
LEMMA SomeFamilyLeads ==
  ASSUME NEW b \in [Slots -> Monsters \cup {Empty}], Inhabited(b)
  PROVE  NoFamily \notin DerivedFamilies(b)
<1> DEFINE of(f) == {s \in Slots : b[s] # Empty /\ b[s].family = f}
           have(f) == Cardinality(of(f))
           leaders == {f \in Families :
                    have(f) > 0 /\ \A g \in Families : have(g) <= have(f)}
<1>1. \A f \in Families : have(f) \in Nat
  <2> TAKE f \in Families
  <2>1. IsFiniteSet(of(f))
    BY AdviceAssumption, FS_Subset
  <2> QED BY <2>1, FS_CardinalityType
<1>2. PICK s \in Slots : b[s] # Empty
  BY DEF Inhabited, Occupied
<1>3. b[s].family \in Families
  BY <1>2 DEF Monsters
<1>4. have(b[s].family) > 0
  <2>1. s \in of(b[s].family)
    BY <1>2
  <2>2. IsFiniteSet(of(b[s].family))
    BY AdviceAssumption, FS_Subset
  <2>3. have(b[s].family) # 0
    BY <2>1, <2>2, FS_EmptySet
  <2> QED BY <1>1, <1>3, <2>3
<1>5. leaders # {}
  <2> DEFINE n == [f \in Families |-> have(f)]
  <2>1. \A f \in Families : n[f] = have(f) /\ n[f] \in Nat
    BY <1>1
  <2> HIDE DEF have, n
  <2>2. PICK f \in Families : \A g \in Families : n[g] <= n[f]
    BY <2>1, FamilyNames
  <2>3. have(f) > 0 /\ \A g \in Families : have(g) <= have(f)
    BY <1>1, <1>3, <1>4, <2>1, <2>2
  <2> QED BY <2>3
<1>6. DerivedFamilies(b) = leaders
  BY <1>5 DEF DerivedFamilies
<1> QED BY <1>6, FamilyNames DEF NoFamily

-----------------------------------------------------------------------------
(* Steps preserve the invariant.                                           *)

\* The steps of a player: everything but imagining a future.
Played ==
  \/ PlayPreparation \/ PlayOpeningTool \/ PlayRewardTool \/ PlayCard
  \/ OpenBox \/ PlayPotionRefresh \/ PlayToolRefresh

\* Each of them is a command of the engine, and deals cards for the new offer
\* on the new board.
LEMMA PlayedCommand ==
  ASSUME Played
  PROVE  /\ Next /\ Deal
         /\ UNCHANGED <<guided, imagined>>
         /\ board' = board \/ board' \in Boards
         /\ phase = "PREPARING" => board' \in Boards
<1> USE AdviceAssumption
<1>1. CASE PlayPreparation
  BY <1>1 DEF PlayPreparation, Next
<1>2. CASE PlayOpeningTool
  BY <1>2 DEF PlayOpeningTool, Next
<1>3. CASE PlayRewardTool
  BY <1>3 DEF PlayRewardTool, Next
<1>4. CASE PlayCard
  BY <1>4 DEF PlayCard, Next
<1>5. CASE OpenBox
  BY <1>5 DEF OpenBox, Next, OpenPotionBox
<1>6. CASE PlayPotionRefresh
  BY <1>6 DEF PlayPotionRefresh, Next, RefreshPotions
<1>7. CASE PlayToolRefresh
  BY <1>7 DEF PlayToolRefresh, Next, RefreshTools
<1> QED BY <1>1, <1>2, <1>3, <1>4, <1>5, <1>6, <1>7 DEF Played

\* What a rebuilt state keeps (RebuildState): all that a player can see.
LEMMA ImagineKeeps ==
  ASSUME Imagine, Resumable
  PROVE  /\ UNCHANGED <<phase, baseCursor, completedTurns, claims, board, read,
                        cards, guided, potionRefreshes, toolRefreshes>>
         /\ offer' \in Offers /\ offer'.kind = offer.kind
         /\ offer'.threshold = offer.threshold
         /\ nextOfferId' = 1 /\ imagined' = TRUE /\ opening' = NotYet
<1>1. /\ offer' = [offer EXCEPT !.id = 0, !.source = "none"]
      /\ offer \in Offers
      /\ claims' = claims
  BY DEF Imagine, Rebuild, RebuiltClaims, View, Resumable
<1>2. /\ offer' \in Offers /\ offer'.kind = offer.kind
      /\ offer'.threshold = offer.threshold
  BY <1>1 DEF Offers, Sources
<1> QED BY <1>1, <1>2 DEF Imagine, Rebuild

\* A step is one of the player, one into a future, or none.
LEMMA StepIsEither ==
  NextAdvice \/ UNCHANGED allVars => Played \/ Imagine \/ UNCHANGED allVars
BY DEF NextAdvice, Played

\* Games and futures can be resumed.
LEMMA ResumableKept == Resumable /\ [NextAdvice]_allVars => Resumable'
<1> SUFFICES ASSUME Resumable, [NextAdvice]_allVars PROVE Resumable'
  OBVIOUS
<1>1. CASE Played
  BY <1>1, PlayedCommand, StepResumable
<1>2. CASE Imagine
  <2>1. /\ UNCHANGED <<phase, baseCursor, claims>>
        /\ offer' \in Offers /\ offer'.kind = offer.kind
        /\ offer'.threshold = offer.threshold /\ nextOfferId' = 1
    BY <1>2, ImagineKeeps
  <2>2. ClaimsInOrder'
    BY <2>1 DEF Resumable, ClaimsInOrder
  <2>3. OfferFitsPosition'
    BY <2>1 DEF Resumable, OfferFitsPosition, Pending, FirstPending
  <2> QED BY <2>1, <2>2, <2>3 DEF Resumable
<1>3. CASE UNCHANGED allVars
  BY <1>3, StepResumable DEF allVars, vars
<1> QED BY <1>1, <1>2, <1>3, StepIsEither

\* The cards fit the offer: a command deals anew, a future keeps what is shown.
LEMMA TableKept ==
  Resumable /\ Resumable' /\ Table /\ [NextAdvice]_allVars => Table'
<1> SUFFICES ASSUME Resumable, Resumable', Table, [NextAdvice]_allVars
             PROVE  Table'
  OBVIOUS
<1>1. CASE Played
  <2>1. /\ Next /\ cards' \in Deals(offer', board')
        /\ board' = board \/ board' \in Boards
        /\ phase = "PREPARING" => board' \in Boards
    BY <1>1, PlayedCommand DEF Deal
  <2>2. \A b \in Boards : b \in [Slots -> Monsters \cup {Empty}] /\ Inhabited(b)
    BY AdviceAssumption DEF Inhabited, Occupied
  <2>3. board' \in [Slots -> Monsters \cup {Empty}] /\ Inhabited(board')
    BY <2>1, <2>2 DEF Table
  <2>4. offer' \in Offers
    BY DEF Resumable
  <2>5. /\ offer'.kind = "UNKNOWN" => cards' \subseteq Instruments
        /\ offer'.kind = "NONE" => cards' = {}
        /\ offer'.kind \in {"TOOL", "POTION", "SCHEME"} =>
             /\ Cardinality(cards') \in 1..5
             /\ cards' \subseteq CardsOfKind(offer'.kind, offer'.threshold)
    BY <2>1, <2>4, DealFits
  <2> QED BY <2>3, <2>5 DEF Table, Inhabited, Occupied
<1>2. CASE Imagine
  BY <1>2, ImagineKeeps DEF Table, Inhabited, Occupied
<1>3. CASE UNCHANGED allVars
  BY <1>3 DEF allVars, vars, adviceVars, Table, Inhabited, Occupied
<1> QED BY <1>1, <1>2, <1>3, StepIsEither

\* Refreshes are only spent.
LEMMA BudgetsKept ==
  Resumable /\ Budgets /\ [NextAdvice]_allVars => Budgets'
<1> SUFFICES ASSUME Resumable, Budgets, [NextAdvice]_allVars PROVE Budgets'
  OBVIOUS
<1> USE FlowAssumption DEF Budgets
<1>1. CASE Played
  <2>1. Next
    BY <1>1, PlayedCommand
  <2> QED BY <2>1 DEF Next, Prepare, ChooseOpeningTool, ChooseRewardTool,
                      PlayBaseCard, RefreshPotions, RefreshTools, OpenPotionBox
<1>2. CASE Imagine
  BY <1>2, ImagineKeeps
<1>3. CASE UNCHANGED allVars
  BY <1>3 DEF allVars, vars
<1> QED BY <1>1, <1>2, <1>3, StepIsEither

\* A tool that is gained may be read or missed; one that is read was gained.
LEMMA WatchingKept ==
  Resumable /\ Table /\ Watching /\ [NextAdvice]_allVars => Watching'
<1> SUFFICES ASSUME Resumable, Table, Watching, [NextAdvice]_allVars
             PROVE  Watching'
  OBVIOUS
<1>1. CASE Played
  <2>1. Next /\ imagined' = imagined
    BY <1>1, PlayedCommand
  <2>2. ~imagined => IInv'
    BY <2>1, StepInvariant DEF Watching
  <2>3. CASE PlayOpeningTool \/ PlayRewardTool
    <3>1. offer.kind = "TOOL" /\ tools' = tools + 1
      BY <2>3 DEF PlayOpeningTool, PlayRewardTool, ChooseOpeningTool,
                  ChooseRewardTool
    <3>2. PICK card \in cards : Gain(card)
      BY <2>3 DEF PlayOpeningTool, PlayRewardTool
    <3>3. card \in Tools
      BY <3>1, AdviceAssumption DEF Table, CardsOfKind
    <3>4. /\ read' \in Seq(Tools)
          /\ Len(read') = Len(read) \/ Len(read') = Len(read) + 1
      BY <3>2, <3>3 DEF Gain, Watching
    <3>5. ~imagined => Len(read') <= tools'
      BY <3>1, <3>4 DEF Watching, IInv, TypeOK
    <3> QED BY <2>1, <2>2, <3>4, <3>5 DEF Watching
  <2>4. CASE PlayPreparation \/ PlayCard \/ OpenBox \/ PlayPotionRefresh
             \/ PlayToolRefresh
    <3>1. read' = read /\ tools' = tools
      BY <2>4 DEF PlayPreparation, PlayCard, OpenBox, PlayPotionRefresh,
                  PlayToolRefresh, Prepare, PlayBaseCard, OpenPotionBox,
                  RefreshPotions, RefreshTools
    <3> QED BY <2>1, <2>2, <3>1 DEF Watching
  <2> QED BY <1>1, <2>3, <2>4 DEF Played
<1>2. CASE Imagine
  BY <1>2, ImagineKeeps DEF Watching
<1>3. CASE UNCHANGED allVars
  <2>1. ~imagined => IInv'
    BY <1>3, StepInvariant DEF Watching, allVars, vars
  <2> QED BY <1>3, <2>1 DEF Watching, allVars, vars, adviceVars
<1> QED BY <1>1, <1>2, <1>3, StepIsEither

-----------------------------------------------------------------------------
(* The opening.                                                            *)

\* Until an opening tool is read, the playbook is the one that fits the board.
LEMMA NothingLocked ==
  ASSUME NEW v, v.tools = <<>>
  PROVE  LockedPlaybook(v) = SelectInitialPlaybook(v.slots)
<1>1. Len(v.tools) = 0
  OBVIOUS
<1>2. 1..0 = {}
  OBVIOUS
<1> QED BY <1>1, <1>2 DEF LockedPlaybook, SelectInSeq

\* Actions of different types are different, and so are choices of different
\* cards.
LEMMA ActionsDiffer ==
  ASSUME NEW c, NEW d, NEW s, NEW t
  PROVE  /\ Choose(c, s) # Refreshing /\ Choose(c, s) # Skipping
         /\ Refreshing # Skipping
         /\ Choose(c, s) = Choose(d, t) => c = d /\ s = t
<1>1. /\ Choose(c, s).type = "choose" /\ Choose(c, s).card = c
      /\ Choose(c, s).slots = s
      /\ Choose(d, t).card = d /\ Choose(d, t).slots = t
      /\ Refreshing.type = "refresh" /\ Skipping.type = "skip_unknown"
  BY DEF Choose, Refreshing, Skipping
<1> HIDE DEF Choose, Refreshing, Skipping
<1>2. Choose(c, s) # Refreshing /\ Choose(c, s) # Skipping
  <2>1. Choose(c, s).type # Refreshing.type /\ Choose(c, s).type # Skipping.type
    BY <1>1
  <2> QED BY <2>1
<1>3. Refreshing # Skipping
  <2>1. Refreshing.type # Skipping.type
    BY <1>1
  <2> QED BY <2>1
<1>4. Choose(c, s) = Choose(d, t) => c = d /\ s = t
  BY <1>1
<1> QED BY <1>2, <1>3, <1>4

\* When a card may be chosen (LegalActionsFromObservation).
LEMMA ChoiceIsLegal ==
  ASSUME NEW v, NEW c, NEW s
  PROVE  Choose(c, s) \in LegalActions(v) <=>
           c \in v.cards /\ s \in TargetSets(v, c)
<1>1. ASSUME c \in v.cards, s \in TargetSets(v, c)
      PROVE  Choose(c, s) \in LegalActions(v)
  BY <1>1 DEF LegalActions
<1>2. ASSUME Choose(c, s) \in LegalActions(v)
      PROVE  c \in v.cards /\ s \in TargetSets(v, c)
  <2>1. Choose(c, s) # Refreshing /\ Choose(c, s) # Skipping
    BY ActionsDiffer
  <2>2. PICK d \in v.cards : \E t \in TargetSets(v, d) :
               Choose(c, s) = Choose(d, t)
    BY <1>2, <2>1 DEF LegalActions
  <2>3. PICK t \in TargetSets(v, d) : Choose(c, s) = Choose(d, t)
    BY <2>2
  <2>4. c = d /\ s = t
    BY <2>3, ActionsDiffer
  <2> QED BY <2>3, <2>4
<1> QED BY <1>1, <1>2

\* A tool is played on no slot, so it may be taken whenever it is offered.
LEMMA ToolsNeedNoTarget ==
  ASSUME NEW v, NEW c \in v.cards, c \in Tools
  PROVE  Choose(c, <<>>) \in LegalActions(v)
<1>1. TargetsOf(c) = <<0, 0>>
  BY AdviceAssumption DEF TargetsOf
<1>2. <<>> \in TargetSets(v, c)
  <2> DEFINE P == {s \in Slots : v.slots[s] # Empty}
  <2>1. <<>> \in [1..0 -> P]
    OBVIOUS
  <2>2. IsInjective(<<>>)
    BY DEF IsInjective
  <2>3. <<>> \in {t \in [1..0 -> P] : IsInjective(t)}
    BY <2>1, <2>2
  <2>4. 0 \in 0..0
    OBVIOUS
  <2>5. <<>> \in Tuples(P, 0, 0)
    BY <2>3, <2>4 DEF Tuples
  <2> QED BY <1>1, <2>5 DEF TargetSets
<1> QED BY <1>2, ChoiceIsLegal

\* While the opening tool is offered, nothing is gained yet.
LEMMA NothingGained ==
  ASSUME IInv, Watching, ~imagined, baseCursor = 0
  PROVE  read = <<>>
<1>1. Cardinality(Claimed(claims)) = 0
  <2>1. Claimed(claims) = {}
    BY DEF IInv, Beginning, Claimed
  <2> QED BY <2>1, FS_EmptySet
<1>2. tools = 0
  BY <1>1 DEF IInv, FlowAccounting
<1>3. Len(read) = 0
  BY <1>2 DEF Watching
<1> QED BY <1>3 DEF Watching

\* What the guided player has to do in the opening (lockedOpeningAction).
LEMMA LockedInOpening ==
  ASSUME Resumable, Table, Watching, ~imagined, baseCursor = 0,
         offer.kind = "TOOL", WantedTool(board) # Unmatched
  PROVE  LockedOpeningAction(View) =
           IF WantedTool(board) \in cards
           THEN {Choose(WantedTool(board), <<>>)}
           ELSE LegalActions(View) \cap {Refreshing}
<1> DEFINE take == Choose(WantedTool(board), <<>>)
<1>1. offer.threshold = 0
  BY DEF Resumable, OfferFitsPosition
<1>2. read = <<>>
  BY NothingGained DEF Watching
<1>3. /\ View.tools = read /\ View.slots = board /\ View.cards = cards
      /\ View.kind = "TOOL" /\ View.threshold = 0
  BY <1>1 DEF View
<1>4. LockedPlaybook(View) = SelectInitialPlaybook(board)
  BY <1>2, <1>3, NothingLocked
<1>5. /\ SelectInitialPlaybook(board) # Unmatched
      /\ WantedTool(board) = OpeningToolOf(SelectInitialPlaybook(board))
  BY DEF WantedTool
<1>6. LockedOpeningAction(View) =
        IF take \in LegalActions(View) THEN {take}
        ELSE LegalActions(View) \cap {Refreshing}
  BY <1>3, <1>4, <1>5 DEF LockedOpeningAction, InOpening
<1>7. take \in LegalActions(View) <=> WantedTool(board) \in cards
  <2>1. ASSUME WantedTool(board) \in cards PROVE take \in LegalActions(View)
    <3>1. WantedTool(board) \in Tools
      BY <2>1, AdviceAssumption DEF Table, CardsOfKind
    <3> QED BY <1>3, <2>1, <3>1, ToolsNeedNoTarget
  <2>2. ASSUME take \in LegalActions(View) PROVE WantedTool(board) \in cards
    BY <1>3, <2>2, ChoiceIsLegal
  <2> QED BY <2>1, <2>2
<1> QED BY <1>6, <1>7

\* No command leads back to the preparation.
LEMMA NeverBack == Next => phase' # "PREPARING"
BY DEF Next, Prepare, ChooseOpeningTool, ChooseRewardTool, PlayBaseCard,
       RefreshPotions, RefreshTools, OpenPotionBox, Advance

\* The guided player looks at the cards on a board that is new, or the same.
LEMMA LooksAtCards ==
  ASSUME SeekOpeningTool, guided, ~imagined, opening.shown \in BOOLEAN,
         WantedTool(board') # Unmatched => ~opening.shown
  PROVE  /\ opening' = [wanted |-> WantedTool(board'),
                        shown |-> opening'.shown, left |-> 0,
                        tool |-> Unmatched]
         /\ opening'.shown \in BOOLEAN
         /\ opening'.shown /\ WantedTool(board') # Unmatched
              => WantedTool(board') \in cards'
<1>1. opening' = [NotYet EXCEPT !.wanted = WantedTool(board'),
                    !.shown = opening.shown \/ WantedTool(board') \in cards']
  BY DEF SeekOpeningTool, WantedTool
<1>2. opening' = [wanted |-> WantedTool(board'),
                  shown |-> opening.shown \/ WantedTool(board') \in cards',
                  left |-> 0, tool |-> Unmatched]
  BY <1>1 DEF NotYet
<1>3. opening'.shown = (opening.shown \/ WantedTool(board') \in cards')
  BY <1>2
<1> QED BY <1>2, <1>3

\* A guided player takes the wanted tool as soon as it is shown and refreshes
\* for it until then, and never changes its mind about which one it is.
LEMMA SeekingKept ==
  Resumable /\ Table /\ Budgets /\ Watching /\ Seeking /\ [NextAdvice]_allVars
    => Seeking'
<1> SUFFICES ASSUME Resumable, Table, Budgets, Watching, Seeking,
                    [NextAdvice]_allVars
             PROVE  Seeking'
  OBVIOUS
<1>1. CASE Played
  <2>1. Next /\ phase' # "PREPARING" /\ guided' = guided /\ imagined' = imagined
    BY <1>1, PlayedCommand, NeverBack
  <2>2. opening = [wanted |-> opening.wanted, shown |-> opening.shown,
                   left |-> opening.left, tool |-> opening.tool]
        /\ opening.shown \in BOOLEAN
    BY DEF Seeking
  <2>3. NotYet.tool = Unmatched /\ NotYet.shown = FALSE
        /\ NotYet = [wanted |-> NotYet.wanted, shown |-> NotYet.shown,
                     left |-> NotYet.left, tool |-> NotYet.tool]
    BY DEF NotYet
  <2>4. CASE ~guided \/ imagined
    <3>1. opening = NotYet
      BY <2>4 DEF Seeking
    <3>2. opening' = opening
      BY <1>1, <2>4
         DEF Played, PlayPreparation, PlayOpeningTool, PlayRewardTool, PlayCard,
             OpenBox, PlayPotionRefresh, PlayToolRefresh, SeekOpeningTool
    <3>3. opening' = NotYet
      BY <3>1, <3>2
    <3> QED BY <2>1, <2>3, <2>4, <3>3 DEF Seeking, OpeningSought
  <2>5. CASE guided /\ ~imagined
    <3>1. CASE PlayPreparation
      <4>1. opening.shown = FALSE
        BY <2>3, <3>1 DEF Seeking, PlayPreparation, Prepare
      <4>2. SeekOpeningTool
        BY <3>1 DEF PlayPreparation
      <4>3. /\ opening' = [wanted |-> WantedTool(board'),
                           shown |-> opening'.shown, left |-> 0,
                           tool |-> Unmatched]
            /\ opening'.shown \in BOOLEAN
            /\ opening'.shown /\ WantedTool(board') # Unmatched
                 => WantedTool(board') \in cards'
        BY <2>5, <4>1, <4>2, LooksAtCards
      <4> QED BY <2>1, <2>5, <4>3 DEF Seeking, OpeningSought
    <3>2. CASE PlayToolRefresh /\ baseCursor = 0
      <4>1. SeekOpeningTool /\ board' = board /\ offer.kind = "TOOL"
            /\ Decides(Refreshing) /\ phase = "CHOOSING"
        BY <3>2 DEF PlayToolRefresh, RefreshTools
      <4>2. WantedTool(board') # Unmatched => ~opening.shown
        <5> SUFFICES ASSUME WantedTool(board) # Unmatched, opening.shown
                     PROVE  FALSE
          BY <4>1 DEF WantedTool
        <5>1. WantedTool(board) \in cards
          BY <2>5, <3>2, <4>1 DEF Seeking
        <5>2. LockedOpeningAction(View) = {Choose(WantedTool(board), <<>>)}
          BY <2>5, <3>2, <4>1, <5>1, LockedInOpening
        <5>3. Refreshing = Choose(WantedTool(board), <<>>)
          BY <2>5, <4>1, <5>2 DEF Decides
        <5> QED BY <5>3, ActionsDiffer
      <4>3. /\ opening' = [wanted |-> WantedTool(board'),
                           shown |-> opening'.shown, left |-> 0,
                           tool |-> Unmatched]
            /\ opening'.shown \in BOOLEAN
            /\ opening'.shown /\ WantedTool(board') # Unmatched
                 => WantedTool(board') \in cards'
        BY <2>2, <2>5, <4>1, <4>2, LooksAtCards
      <4> QED BY <2>1, <2>5, <4>3 DEF Seeking, OpeningSought
    <3>3. CASE PlayOpeningTool
      <4>1. /\ offer.kind = "TOOL" /\ baseCursor = 0 /\ baseCursor' = 1
            /\ phase = "CHOOSING"
        BY <3>3 DEF PlayOpeningTool, ChooseOpeningTool, IsOpeningToolOffer
      <4>2. PICK card \in cards :
               /\ Decides(Choose(card, <<>>))
               /\ opening' = [opening EXCEPT !.left = toolRefreshes,
                                             !.tool = card]
        BY <2>5, <3>3 DEF PlayOpeningTool
      <4>3. opening' = [wanted |-> opening.wanted, shown |-> opening.shown,
                        left |-> toolRefreshes, tool |-> card]
        BY <2>2, <4>2
      <4>4. opening.wanted = WantedTool(board)
        BY <2>5, <4>1 DEF Seeking
      <4>5. ASSUME opening.wanted # Unmatched
            PROVE  card = opening.wanted \/ (~opening.shown /\ toolRefreshes = 0)
        <5>1. CASE WantedTool(board) \in cards
          <6>1. LockedOpeningAction(View) = {Choose(WantedTool(board), <<>>)}
            BY <2>5, <4>1, <4>4, <4>5, <5>1, LockedInOpening
          <6>2. Choose(card, <<>>) = Choose(WantedTool(board), <<>>)
            BY <2>5, <4>2, <6>1 DEF Decides
          <6> QED BY <4>4, <6>2, ActionsDiffer
        <5>2. CASE WantedTool(board) \notin cards
          <6>1. ~opening.shown
            BY <2>5, <4>1, <4>4, <4>5, <5>2 DEF Seeking
          <6>2. LockedOpeningAction(View) = LegalActions(View) \cap {Refreshing}
            BY <2>5, <4>1, <4>4, <4>5, <5>2, LockedInOpening
          <6>3. toolRefreshes = 0
            <7> SUFFICES ASSUME toolRefreshes # 0 PROVE FALSE
              OBVIOUS
            <7>1. View.kind = "TOOL" /\ View.toolRefreshes > 0
              BY <4>1, FlowAssumption DEF View, Budgets
            <7>2. Refreshing \in LegalActions(View)
              BY <7>1 DEF LegalActions
            <7>3. Choose(card, <<>>) = Refreshing
              BY <2>5, <4>2, <6>2, <7>2 DEF Decides
            <7> QED BY <7>3, ActionsDiffer
          <6> QED BY <6>1, <6>3
        <5> QED BY <5>1, <5>2
      <4>6. OpeningSought'
        BY <4>3, <4>5 DEF OpeningSought
      <4> QED BY <2>1, <2>2, <2>5, <4>1, <4>3, <4>6 DEF Seeking
    <3>4. CASE PlayRewardTool \/ PlayCard \/ OpenBox \/ PlayPotionRefresh
               \/ (PlayToolRefresh /\ baseCursor # 0)
      <4>1. opening' = opening
        BY <3>4 DEF PlayRewardTool, PlayCard, OpenBox, PlayPotionRefresh,
                    PlayToolRefresh
      <4>2. baseCursor' # 0 /\ phase # "PREPARING"
        <5>1. CASE PlayRewardTool
          BY <5>1 DEF PlayRewardTool, ChooseRewardTool, IsOpeningToolOffer,
                      Resumable, OfferFitsPosition
        <5>2. CASE PlayCard
          BY <5>2, FlowAssumption
             DEF PlayCard, PlayBaseCard, Resumable, OfferFitsPosition
        <5>3. CASE OpenBox \/ PlayPotionRefresh
          BY <5>3, FlowAssumption
             DEF OpenBox, OpenPotionBox, PlayPotionRefresh, RefreshPotions,
                 Resumable, OfferFitsPosition
        <5>4. CASE PlayToolRefresh /\ baseCursor # 0
          BY <5>4 DEF PlayToolRefresh, RefreshTools
        <5> QED BY <3>4, <5>1, <5>2, <5>3, <5>4
      <4> QED BY <2>1, <2>2, <2>5, <4>1, <4>2 DEF Seeking, OpeningSought
    <3> QED BY <1>1, <3>1, <3>2, <3>3, <3>4 DEF Played
  <2> QED BY <2>1, <2>4, <2>5 DEF Seeking
<1>2. CASE Imagine
  <2>1. /\ opening' = NotYet /\ imagined' = TRUE /\ guided' = guided
    BY <1>2, ImagineKeeps
  <2>2. NotYet = [wanted |-> NotYet.wanted, shown |-> NotYet.shown,
                  left |-> NotYet.left, tool |-> NotYet.tool]
        /\ NotYet.shown \in BOOLEAN /\ NotYet.tool = Unmatched
    BY DEF NotYet
  <2> QED BY <2>1, <2>2 DEF Seeking, OpeningSought
<1>3. CASE UNCHANGED allVars
  BY <1>3 DEF allVars, vars, adviceVars, Seeking, OpeningSought, WantedTool
<1> QED BY <1>1, <1>2, <1>3, StepIsEither

\* A game that is watched from its start.
LEMMA InitAdviceInv == InitAdvice => AdviceInv
<1> SUFFICES ASSUME InitAdvice PROVE AdviceInv
  OBVIOUS
<1> USE FlowAssumption
<1>1. Init /\ IInv /\ Resumable
  BY InitInvariant, GamesResumable DEF InitAdvice
<1>2. Table
  <2>1. phase = "PREPARING" /\ offer.kind = "UNKNOWN" /\ offer \in Offers
        /\ cards \in Deals(offer, board)
    BY <1>1 DEF InitAdvice, Init, Resumable
  <2>2. board \in [Slots -> Monsters \cup {Empty}]
    BY DEF InitAdvice
  <2>3. cards \subseteq Instruments
    BY <2>1, DealFits
  <2> QED BY <2>1, <2>2, <2>3 DEF Table
<1>3. Budgets
  BY <1>1 DEF Init, Budgets
<1>4. Watching
  BY <1>1 DEF InitAdvice, Init, Watching
<1>5. Seeking
  <2>1. NotYet = [wanted |-> NotYet.wanted, shown |-> NotYet.shown,
                  left |-> NotYet.left, tool |-> NotYet.tool]
        /\ NotYet.shown \in BOOLEAN /\ NotYet.tool = Unmatched
    BY DEF NotYet
  <2>2. opening = NotYet /\ guided \in BOOLEAN /\ imagined = FALSE
        /\ phase = "PREPARING"
    BY <1>1 DEF InitAdvice, Init
  <2> QED BY <2>1, <2>2 DEF Seeking, OpeningSought
<1> QED BY <1>1, <1>2, <1>3, <1>4, <1>5 DEF AdviceInv

\* Every step preserves the invariant.
LEMMA AdviceInvKept == AdviceInv /\ [NextAdvice]_allVars => AdviceInv'
BY ResumableKept, TableKept, BudgetsKept, WatchingKept, SeekingKept
   DEF AdviceInv

\* The invariant holds of every watched game and of every imagined future.
THEOREM AdviceInvariance == SpecAdvice => []AdviceInv
BY InitAdviceInv, AdviceInvKept, PTL DEF SpecAdvice

-----------------------------------------------------------------------------
(* The theorems.                                                           *)

\* The guided player takes the opening tool that fits the board as soon as it
\* is shown, and gives up only when no refresh is left (docs/ai.md, 117).
THEOREM OpeningIsSought == SpecAdvice => []OpeningSought
<1>1. AdviceInv => OpeningSought
  BY DEF AdviceInv, Seeking
<1> QED BY <1>1, AdviceInvariance, PTL

\* A step of a game or of a future is a step of the published flow; rebuilding
\* a state from a view leaves the flow where it is.
LEMMA AdviceStepPlan ==
  ASSUME Resumable, Resumable', [NextAdvice]_allVars
  PROVE  [Plan!Next]_(Plan!vars)
<1>1. CASE Played
  BY <1>1, PlayedCommand, StepPlan
<1>2. CASE Imagine
  <2>1. UNCHANGED <<phase, baseCursor, claims>>
    BY <1>2, ImagineKeeps
  <2> QED BY <2>1 DEF Plan!vars, Stage, BaseTurns, Pending, Claimed
<1>3. CASE UNCHANGED allVars
  BY <1>3, StepPlan DEF allVars, vars
<1> QED BY <1>1, <1>2, <1>3, StepIsEither

\* Whatever was missed on the screen, the game and every future that is
\* imagined of it are runs of the published flow.
THEOREM FuturesImplementPlan == SpecAdvice => FuturesFollowPlan
<1>1. InitAdvice => Plan!Init
  BY InitPlan DEF InitAdvice
<1>2. Resumable /\ Resumable' /\ [NextAdvice]_allVars
        => [Plan!Next]_(Plan!vars)
  BY AdviceStepPlan
<1>3. AdviceInv => Resumable
  BY DEF AdviceInv
<1> QED BY <1>1, <1>2, <1>3, AdviceInvariance, PTL
        DEF SpecAdvice, FuturesFollowPlan, Plan!Spec

\* The demands of FromVisible follow from the accounting of a game.
LEMMA GamesAccepted ==
  ASSUME AdviceInv, ~imagined, phase \in {"CHOOSING", "FINISHED"}
  PROVE  Accepted(View)
<1> USE FlowAssumption
<1>1. /\ IInv /\ TypeOK /\ FlowAccounting /\ ClaimsInOrder /\ OfferFitsPosition
      /\ Len(read) <= tools /\ read \in Seq(Tools)
  BY DEF AdviceInv, Watching, IInv
<1>2. /\ View.phase = phase /\ View.cursor = baseCursor
      /\ View.turns = completedTurns /\ View.claims = claims
      /\ View.slots = board /\ View.tools = read
      /\ View.unknown = tools - Len(read) /\ View.kind = offer.kind
      /\ View.threshold = offer.threshold /\ View.cards = cards
      /\ View.potionRefreshes = potionRefreshes
      /\ View.toolRefreshes = toolRefreshes
  BY DEF View
<1> HIDE DEF View
<1> DEFINE n == Cardinality(Claimed(claims))
<1>3. n \in 0..2
  BY CountClaimed DEF One
<1>4. /\ baseCursor \in 0..LastCursor /\ LastCursor \in Nat
      /\ completedTurns = BaseTurns + n
      /\ tools = (IF baseCursor = 0 THEN 0 ELSE 1) + n
      /\ Len(read) \in Nat
  BY <1>1 DEF TypeOK, FlowAccounting, LastCursor
<1> HIDE DEF n
<1>5. BaseTurns = Most(baseCursor - 1, 0) /\ BaseTurns \in 0..(LastCursor - 1)
  BY <1>4 DEF BaseTurns, Most, LastCursor
<1>6. View.turns = ExpectedTurns(View)
  BY <1>2, <1>4, <1>5 DEF ExpectedTurns, n
<1>7. View.turns \in 0..(LastCursor + 1) /\ View.cursor \in 0..LastCursor
  BY <1>2, <1>3, <1>4, <1>5
<1>8. Len(View.tools) + View.unknown = ExpectedTools(View)
  <2>1. Least(baseCursor, 1) = IF baseCursor = 0 THEN 0 ELSE 1
    BY <1>4 DEF Least
  <2>2. tools = n + Least(baseCursor, 1)
    BY <1>3, <1>4, <2>1
  <2>3. Len(read) + (tools - Len(read)) = tools
    BY <1>3, <1>4
  <2> QED BY <1>2, <2>2, <2>3 DEF ExpectedTools, n
<1>9. View.unknown \in 0..3
  BY <1>1, <1>2, <1>3, <1>4
<1>10. /\ View.potionRefreshes \in 0..PotionBudget
       /\ View.toolRefreshes \in 0..MaxPet
  BY <1>2 DEF AdviceInv, Budgets
<1>11. /\ claims[LowThreshold] \in Statuses /\ claims[HighThreshold] \in Statuses
       /\ Pending(claims) = {} <=> claims[LowThreshold] # "PENDING"
                                     /\ claims[HighThreshold] # "PENDING"
       /\ Pending(claims) # {} =>
            Due(claims) = FirstPending(claims) /\ Due(claims) # 0
       /\ Pending(claims) = {} => Due(claims) = 0
  <2>1. LowThreshold \in Rewards /\ HighThreshold \in Rewards
    BY DEF Rewards
  <2>2. claims \in [Rewards -> Statuses]
    BY <1>1 DEF TypeOK
  <2> QED BY <2>1, <2>2 DEF Pending, Rewards, Due, FirstPending
<1>12. ClaimsReadable(View.claims)
  BY <1>1, <1>2, <1>11 DEF ClaimsReadable, ClaimsInOrder, Statuses, Due
<1>13. ValidState(View)
  <2>1. NoFamily \notin DerivedFamilies(board)
    BY SomeFamilyLeads DEF AdviceInv, Table
  <2>2. Range(read) \subseteq Tools
    BY <1>1 DEF Range
  <2> QED BY <1>2, <1>7, <2>1, <2>2 DEF ValidState
<1>14. CASE phase = "FINISHED"
  <2>1. /\ offer.kind = "NONE" /\ baseCursor = LastCursor
        /\ Pending(claims) = {} /\ cards = {}
    BY <1>1, <1>14 DEF OfferFitsPosition, AdviceInv, Table
  <2> QED BY <1>2, <1>6, <1>7, <1>8, <1>9, <1>10, <1>11, <1>12, <1>13, <1>14,
             <2>1 DEF Accepted
<1>15. CASE phase = "CHOOSING"
  <2>1. offer.kind \in {"TOOL", "POTION", "SCHEME"}
    BY <1>1, <1>15 DEF OfferFitsPosition, TypeOK, Offers, Kinds
  <2>2. /\ Cardinality(cards) \in 1..5
        /\ cards \subseteq CardsOfKind(offer.kind, offer.threshold)
    BY <2>1 DEF AdviceInv, Table
  <2>3. offer.threshold = Due(claims)
    BY <1>1, <1>11, <2>1 DEF OfferFitsPosition
  <2>4. offer.kind = ExpectedKind(View)
    <3>1. CASE offer.kind = "TOOL"
      BY <1>1, <1>2, <1>11, <3>1 DEF OfferFitsPosition, ExpectedKind
    <3>2. CASE offer.kind = "POTION"
      BY <1>1, <1>2, <1>11, <3>2 DEF OfferFitsPosition, ExpectedKind
    <3>3. CASE offer.kind = "SCHEME"
      BY <1>1, <1>2, <1>4, <1>11, <3>3
         DEF OfferFitsPosition, ExpectedKind, LastCursor
    <3> QED BY <2>1, <3>1, <3>2, <3>3
  <2> QED BY <1>2, <1>6, <1>7, <1>8, <1>9, <1>10, <1>12, <1>13, <1>15, <2>1,
             <2>2, <2>3, <2>4 DEF Accepted
<1> QED BY <1>14, <1>15

\* Every view of a real game is accepted, whatever tools were missed
\* (ai.FromVisible): the checks refuse misread screens, never a true one.
THEOREM ViewsAreAccepted == SpecAdvice => []ViewAccepted
<1>1. AdviceInv => ViewAccepted
  BY GamesAccepted DEF ViewAccepted
<1> QED BY <1>1, AdviceInvariance, PTL

\* The environment can name every legal action, and one is left until the end.
LEMMA MaskInAnyState == AdviceInv => MaskComplete
<1> SUFFICES ASSUME AdviceInv PROVE MaskComplete
  OBVIOUS
<1>1. Resumable /\ Table
  BY DEF AdviceInv
<1>2. /\ View.slots = board /\ View.cards = cards /\ View.phase = phase
      /\ View.kind = offer.kind
  BY DEF View
<1> HIDE DEF View
<1>3. offer.kind \in Kinds /\ phase \in Phases
  BY <1>1 DEF Resumable, Offers
<1>4. cards \subseteq Cards
  BY <1>1, <1>3, KindsAreCards DEF Table, Kinds, Cards
<1>5. LegalActions(View) \subseteq Catalog
  <2> SUFFICES ASSUME NEW c \in cards, NEW t \in TargetSets(View, c)
               PROVE  Choose(c, t) \in Catalog
    BY <1>2 DEF LegalActions, Catalog
  <2>1. t \in CatalogTargets(TargetsOf(c)[1], TargetsOf(c)[2])
    <3>1. {s \in Slots : View.slots[s] # Empty} \subseteq Slots
      OBVIOUS
    <3> QED BY <3>1, TargetBounds, TuplesGrow DEF TargetSets, CatalogTargets
  <2> QED BY <1>4, <2>1 DEF Catalog, Cards
<1>6. CASE phase = "PREPARING"
  <2>1. Skipping \in LegalActions(View)
    BY <1>2, <1>6 DEF LegalActions
  <2> QED BY <1>5, <1>6, <2>1 DEF MaskComplete, Masked
<1>7. CASE phase = "CHOOSING"
  <2>1. offer.kind \in {"TOOL", "POTION", "SCHEME"}
    BY <1>1, <1>3, <1>7 DEF Resumable, OfferFitsPosition, Kinds
  <2>2. Cardinality(cards) # 0
    BY <1>1, <2>1 DEF Table
  <2>3. PICK c \in cards : TRUE
    BY <2>2, FS_EmptySet
  <2>4. PICK s \in Slots : board[s] # Empty
    BY <1>1, <1>7 DEF Table, Inhabited, Occupied
  <2>5. TargetSets(View, c) # {}
    BY <1>2, <2>4, SomeTuple, TargetBounds DEF TargetSets
  <2>6. PICK t \in TargetSets(View, c) : TRUE
    BY <2>5
  <2>7. Choose(c, t) \in LegalActions(View)
    BY <1>2, <2>6, ChoiceIsLegal
  <2> QED BY <1>5, <1>7, <2>7 DEF MaskComplete, Masked
<1>8. CASE phase = "FINISHED"
  <2>1. offer.kind = "NONE" /\ cards = {}
    BY <1>1, <1>8 DEF Resumable, OfferFitsPosition, Table
  <2>2. LegalActions(View) = {}
    BY <1>2, <1>8, <2>1 DEF LegalActions
  <2> QED BY <1>5, <1>8, <2>2 DEF MaskComplete, Masked
<1> QED BY <1>3, <1>6, <1>7, <1>8 DEF Phases

\* The mask of the training environment has a bit for every legal action, and
\* is empty at the end only: no reachable state leaves an agent without a move
\* (NewSpec, Spec.Encode, LegalActionsFromObservation).
THEOREM MasksAreComplete == SpecAdvice => []MaskComplete
BY MaskInAnyState, AdviceInvariance, PTL

-----------------------------------------------------------------------------
(* The guide.                                                              *)

\* A least element is the minimum that FiniteSetsExt chooses.
LEMMA MinIs ==
  ASSUME NEW S \in SUBSET Int, NEW k \in S, \A x \in S : k <= x
  PROVE  Min(S) = k
<1>1. \A y \in S : (\A x \in S : y <= x) => y = k
  OBVIOUS
<1> QED BY <1>1 DEF Min

\* What the first group of a card is worth, in halves of a point.
Worth(book, v, id) ==
  LET p == SearchPlaybooks[book]
  IN IF id = p.openingTool THEN 8
     ELSE IF id \in p.alwaysPick THEN 6
     ELSE IF id \in p.coreTools \cup p.corePotions THEN 5
     ELSE IF id \in p.fallbackTools THEN 3
     ELSE IF id \in p.setupPotions THEN IF Early(v) THEN 4 ELSE 2
     ELSE IF id \in p.buffPotions THEN IF Early(v) THEN 2 ELSE 4
     ELSE 0

\* The points of a card are those of its first group (guideCardPoints).
LEMMA PointsOfGroup ==
  ASSUME NEW book, NEW v, NEW id
  PROVE  IF Worth(book, v, id) # 0
         THEN CardPoints(book, v, id) = Points(Worth(book, v, id))
         ELSE CardPoints(book, v, id) \in {-Points(1), 0}
<1> DEFINE
      p == SearchPlaybooks[book]
      groups == <<[ids |-> {p.openingTool}, halves |-> 8],
                  [ids |-> p.alwaysPick, halves |-> 6],
                  [ids |-> p.coreTools \cup p.corePotions, halves |-> 5],
                  [ids |-> p.fallbackTools, halves |-> 3],
                  [ids |-> p.setupPotions, halves |-> IF Early(v) THEN 4 ELSE 2],
                  [ids |-> p.buffPotions, halves |-> IF Early(v) THEN 2 ELSE 4]>>
      preferred == UNION {g.ids : g \in Range(groups)}
      I == {i \in 1..Len(groups) : id \in groups[i].ids}
      first == IF I # {} THEN Min(I) ELSE 0
<1>1. CardPoints(book, v, id) =
        IF first # 0 THEN Points(groups[first].halves)
        ELSE IF v.cards \cap preferred # {} THEN -Points(1) ELSE 0
  BY DEF CardPoints, SelectInSeq
<1>2. /\ Len(groups) = 6
      /\ groups[1].ids = {p.openingTool} /\ groups[1].halves = 8
      /\ groups[2].ids = p.alwaysPick /\ groups[2].halves = 6
      /\ groups[3].ids = p.coreTools \cup p.corePotions /\ groups[3].halves = 5
      /\ groups[4].ids = p.fallbackTools /\ groups[4].halves = 3
      /\ groups[5].ids = p.setupPotions
      /\ groups[5].halves = IF Early(v) THEN 4 ELSE 2
      /\ groups[6].ids = p.buffPotions
      /\ groups[6].halves = IF Early(v) THEN 2 ELSE 4
  OBVIOUS
<1> DEFINE worth == Worth(book, v, id)
<1>3. worth = IF id \in groups[1].ids THEN 8
              ELSE IF id \in groups[2].ids THEN 6
              ELSE IF id \in groups[3].ids THEN 5
              ELSE IF id \in groups[4].ids THEN 3
              ELSE IF id \in groups[5].ids THEN groups[5].halves
              ELSE IF id \in groups[6].ids THEN groups[6].halves
              ELSE 0
  BY <1>2 DEF Worth
<1> HIDE DEF groups, worth
<1>4. \A k \in 1..6 : k \in I /\ (\A i \in I : k <= i) => first = k
  <2> SUFFICES ASSUME NEW k \in I, \A i \in I : k <= i PROVE Min(I) = k
    OBVIOUS
  <2>1. I \in SUBSET Int
    OBVIOUS
  <2> HIDE DEF I
  <2> QED BY <2>1, MinIs
<1>5. \A i \in 1..6 : i \in I <=> id \in groups[i].ids
  BY <1>2
<1>6. \A i \in I : i \in 1..6
  BY <1>2
<1> HIDE DEF I
<1>7. \A k \in 1..6 :
        id \in groups[k].ids /\ (\A i \in 1..6 : i < k => id \notin groups[i].ids)
          => first = k
  <2> SUFFICES ASSUME NEW k \in 1..6, id \in groups[k].ids,
                      \A i \in 1..6 : i < k => id \notin groups[i].ids
               PROVE  first = k
    OBVIOUS
  <2>1. \A i \in I : k <= i
    BY <1>5, <1>6
  <2> QED BY <1>4, <1>5, <2>1
<1>8. worth # 0 => first \in 1..6 /\ groups[first].halves = worth
  BY <1>2, <1>3, <1>7
<1>9. worth = 0 => first = 0
  <2> SUFFICES ASSUME worth = 0 PROVE I = {}
    OBVIOUS
  <2>1. \A i \in 1..6 : id \notin groups[i].ids
    BY <1>2, <1>3
  <2> QED BY <1>5, <1>6, <2>1
<1> HIDE DEF first, preferred
<1> QED BY <1>1, <1>8, <1>9 DEF worth

\* The playbooks that are weighed (a name and its weight).
Weighed == [book : DOMAIN SearchPlaybooks, score : Int]

\* The playbooks by name; none of them prepares with what it strengthens with.
LEMMA Books ==
  /\ DOMAIN SearchPlaybooks =
       {"insect_pupa", "awakener_boss", "awakener_double", "fiend_growth",
        "fiend_double", "bone_claw", "bone_metatarsal"}
  /\ \A book \in DOMAIN SearchPlaybooks :
       SearchPlaybooks[book].setupPotions
         \cap SearchPlaybooks[book].buffPotions = {}
<1>1. DOMAIN SearchPlaybooks =
       {"insect_pupa", "awakener_boss", "awakener_double", "fiend_growth",
        "fiend_double", "bone_claw", "bone_metatarsal"}
  BY DEF SearchPlaybooks
<1>2. FiendSetup \cap FiendBuff = {}
  BY DEF FiendSetup, FiendBuff
<1>3. BoneSetup \cap BoneBuff = {}
  BY DEF BoneSetup, BoneBuff
<1>4. /\ SearchPlaybooks["insect_pupa"].setupPotions
           = {"insect_powder", "brood_hormone", "insect_twin_hormone",
              "eggshell_powder"}
      /\ SearchPlaybooks["insect_pupa"].buffPotions
           = {"pure_leech", "mixed_leech", "sticky_bile", "awakening"}
      /\ SearchPlaybooks["awakener_boss"].setupPotions = {}
      /\ SearchPlaybooks["awakener_double"].setupPotions = {}
      /\ SearchPlaybooks["fiend_growth"].setupPotions = FiendSetup
      /\ SearchPlaybooks["fiend_growth"].buffPotions = FiendBuff
      /\ SearchPlaybooks["fiend_double"].setupPotions = FiendSetup
      /\ SearchPlaybooks["fiend_double"].buffPotions = FiendBuff
      /\ SearchPlaybooks["bone_claw"].setupPotions = BoneSetup
      /\ SearchPlaybooks["bone_claw"].buffPotions = BoneBuff
      /\ SearchPlaybooks["bone_metatarsal"].setupPotions = BoneSetup
      /\ SearchPlaybooks["bone_metatarsal"].buffPotions = BoneBuff
  BY DEF SearchPlaybooks, Book
<1> HIDE DEF SearchPlaybooks
<1>5. \A book \in DOMAIN SearchPlaybooks :
       SearchPlaybooks[book].setupPotions
         \cap SearchPlaybooks[book].buffPotions = {}
  BY <1>1, <1>2, <1>3, <1>4
<1> QED BY <1>1, <1>5

\* Monsters are counted.
LEMMA Counted ==
  ASSUME NEW b, NEW f
  PROVE  OfFamily(b, f) \in Nat
<1>1. IsFiniteSet({s \in Occupied(b) : b[s].family = f})
  BY AdviceAssumption, FS_Subset DEF Occupied
<1> QED BY <1>1, FS_CardinalityType DEF OfFamily

\* A playbook that fits is put on the list, any other is not.
LEMMA CandidateType ==
  ASSUME NEW fits, NEW book \in DOMAIN SearchPlaybooks, NEW weight \in Int
  PROVE  (IF fits THEN <<[book |-> book, score |-> weight]>> ELSE <<>>)
           \in Seq(Weighed)
<1>1. [book |-> book, score |-> weight] \in Weighed
  BY DEF Weighed
<1>2. \A x \in Weighed : <<x>> \in Seq(Weighed)
  OBVIOUS
<1>3. <<[book |-> book, score |-> weight]>> \in Seq(Weighed)
  BY <1>1, <1>2
<1>4. <<>> \in Seq(Weighed)
  OBVIOUS
<1> QED BY <1>3, <1>4

\* Every candidate is a playbook with a weight.
LEMMA CandidatesType ==
  ASSUME NEW b
  PROVE  Candidates(b) \in Seq(Weighed)
<1> DEFINE
      total == Cardinality(Occupied(b))
      normals == Cardinality({s \in Occupied(b) : b[s].rarity = "normal"})
      rares == {s \in Occupied(b) : b[s].rarity \in {"rare", "boss"}}
      rareAwakeners == Cardinality({s \in rares : b[s].family = "AWAKENER"})
      otherRares == Cardinality(rares) - rareAwakeners
      n == [f \in Families |-> OfFamily(b, f)]
      lead(f, bonus) == IF Dominant(b) = f THEN bonus ELSE 0
      candidate(fits, book, weight) ==
        IF fits THEN <<[book |-> book, score |-> weight]>> ELSE <<>>
      c1 == candidate(n["INSECT"] > 0, "insect_pupa",
                      60 + 8 * n["INSECT"] + lead("INSECT", 35))
      c2 == candidate(rareAwakeners > 0 /\ total <= 3, "awakener_boss",
                      105 + 5 * rareAwakeners)
      c3 == candidate(n["AWAKENER"] >= (IF otherRares >= 1 THEN 1 ELSE 2),
                      "awakener_double",
                      100 + 5 * n["AWAKENER"] + lead("AWAKENER", 30))
      c4 == candidate(n["FIEND"] >= 1 /\ total >= 4 /\ normals * 2 >= total,
                      "fiend_growth", 90 + 4 * normals + lead("FIEND", 25))
      c5 == candidate(n["FIEND"] >= 2 /\ total >= 4, "fiend_double",
                      110 + 5 * n["FIEND"] + lead("FIEND", 25))
      c6 == candidate(n["BONE"] > 0, "bone_claw",
                      65 + 5 * n["BONE"] + lead("BONE", 30))
      c7 == candidate(n["BONE"] >= 2, "bone_metatarsal",
                      110 + 5 * n["BONE"] + lead("BONE", 30))
<1>1. Candidates(b) = c1 \o c2 \o c3 \o c4 \o c5 \o c6 \o c7
  BY DEF Candidates
<1>2. normals \in Nat /\ rareAwakeners \in Nat
  <2>1. /\ IsFiniteSet({s \in Occupied(b) : b[s].rarity = "normal"})
        /\ IsFiniteSet({s \in rares : b[s].family = "AWAKENER"})
    BY AdviceAssumption, FS_Subset DEF Occupied
  <2> QED BY <2>1, FS_CardinalityType
<1>3. /\ n["INSECT"] \in Nat /\ n["AWAKENER"] \in Nat
      /\ n["FIEND"] \in Nat /\ n["BONE"] \in Nat
  BY Counted, FamilyNames
<1>4. \A f, bonus : bonus \in Int => lead(f, bonus) \in Int
  OBVIOUS
<1> HIDE DEF normals, rareAwakeners, n, lead, total, otherRares
<1>5. /\ 60 + 8 * n["INSECT"] + lead("INSECT", 35) \in Int
      /\ 105 + 5 * rareAwakeners \in Int
      /\ 100 + 5 * n["AWAKENER"] + lead("AWAKENER", 30) \in Int
      /\ 90 + 4 * normals + lead("FIEND", 25) \in Int
      /\ 110 + 5 * n["FIEND"] + lead("FIEND", 25) \in Int
      /\ 65 + 5 * n["BONE"] + lead("BONE", 30) \in Int
      /\ 110 + 5 * n["BONE"] + lead("BONE", 30) \in Int
  BY <1>2, <1>3, <1>4
<1>6. /\ c1 \in Seq(Weighed) /\ c2 \in Seq(Weighed) /\ c3 \in Seq(Weighed)
      /\ c4 \in Seq(Weighed) /\ c5 \in Seq(Weighed) /\ c6 \in Seq(Weighed)
      /\ c7 \in Seq(Weighed)
  <2> HIDE DEF Weighed
  <2> DEFINE books == DOMAIN SearchPlaybooks
  <2>1. /\ "insect_pupa" \in books /\ "awakener_boss" \in books
        /\ "awakener_double" \in books /\ "fiend_growth" \in books
        /\ "fiend_double" \in books /\ "bone_claw" \in books
        /\ "bone_metatarsal" \in books
    BY Books
  <2>2. c1 \in Seq(Weighed)
    BY <1>5, <2>1, CandidateType
  <2>3. c2 \in Seq(Weighed)
    BY <1>5, <2>1, CandidateType
  <2>4. c3 \in Seq(Weighed)
    BY <1>5, <2>1, CandidateType
  <2>5. c4 \in Seq(Weighed)
    BY <1>5, <2>1, CandidateType
  <2>6. c5 \in Seq(Weighed)
    BY <1>5, <2>1, CandidateType
  <2>7. c6 \in Seq(Weighed)
    BY <1>5, <2>1, CandidateType
  <2>8. c7 \in Seq(Weighed)
    BY <1>5, <2>1, CandidateType
  <2> QED BY <2>2, <2>3, <2>4, <2>5, <2>6, <2>7, <2>8
<1> HIDE DEF c1, c2, c3, c4, c5, c6, c7, Weighed
<1> QED BY <1>1, <1>6

\* The minimum of a set of naturals, such as the indices that SelectInSeq
\* chooses from, is in the set.
LEMMA LeastOfSome ==
  ASSUME NEW I \in SUBSET Nat, I # {}
  PROVE  Min(I) \in I /\ \A x \in I : Min(I) <= x
<1>1. I \in SUBSET Int
  OBVIOUS
<1>2. PICK k \in I : \A x \in I : ~(<<x, k>> \in OpToRel(<, Nat))
  BY NatLessThanWellFounded, WFMin
<1>3. \A x \in I : k <= x
  <2> SUFFICES ASSUME NEW x \in I, x < k PROVE FALSE
    BY <1>1
  <2>1. x \in Nat /\ k \in Nat
    OBVIOUS
  <2>2. <<x, k>> \in OpToRel(<, Nat)
    BY <2>1 DEF OpToRel
  <2> QED BY <1>2, <2>2
<1>4. Min(I) = k
  BY <1>1, <1>3, MinIs
<1> QED BY <1>3, <1>4

\* The playbook that guides a player is one of the list, or there is none.
LEMMA LockedIsBook ==
  ASSUME NEW v, NEW tools_ \in Seq(Tools), v.tools = tools_
  PROVE  LockedPlaybook(v) \in DOMAIN SearchPlaybooks \cup {Unmatched}
<1> DEFINE books(t) == {k \in DOMAIN SearchPlaybooks :
                          SearchPlaybooks[k].openingTool = t}
           I == {i \in 1..Len(v.tools) : books(v.tools[i]) # {}}
           lock == IF I # {} THEN Min(I) ELSE 0
<1>1. LockedPlaybook(v) =
        IF lock = 0 THEN SelectInitialPlaybook(v.slots)
        ELSE CHOOSE k \in books(v.tools[lock]) : TRUE
  BY DEF LockedPlaybook, SelectInSeq
<1>2. CASE lock # 0
  <2>1. I \in SUBSET Nat /\ I # {}
    BY <1>2
  <2>2. lock \in I
    BY <2>1, LeastOfSome
  <2>3. books(v.tools[lock]) # {}
    BY <2>2
  <2> HIDE DEF lock
  <2> QED BY <1>1, <1>2, <2>3
<1>3. CASE lock = 0
  <2> DEFINE c == Candidates(v.slots)
             J == {j \in 1..Len(c) : \A i \in DOMAIN c : c[i].score <= c[j].score}
             best == IF J # {} THEN Min(J) ELSE 0
  <2>1. SelectInitialPlaybook(v.slots) =
          IF best = 0 THEN Unmatched ELSE c[best].book
    BY DEF SelectInitialPlaybook, SelectInSeq
  <2>2. c \in Seq(Weighed)
    BY CandidatesType
  <2> HIDE DEF c
  <2>3. best # 0 => best \in 1..Len(c)
    <3>1. J \subseteq 1..Len(c) /\ J \in SUBSET Nat
      BY <2>2
    <3> QED BY <3>1, LeastOfSome
  <2> HIDE DEF best
  <2>4. best # 0 => c[best].book \in DOMAIN SearchPlaybooks
    <3>1. \A x \in Weighed : x.book \in DOMAIN SearchPlaybooks
      BY DEF Weighed
    <3>2. best # 0 => c[best] \in Weighed
      BY <2>2, <2>3
    <3> QED BY <3>1, <3>2
  <2> HIDE DEF lock
  <2> QED BY <1>1, <1>3, <2>1, <2>4
<1> QED BY <1>2, <1>3

\* What the points of a card may be.
Scale == {13440, 10080, 8400, 6720, 5040, 3360, 0, -1680}

\* The points of a card tell which group it is in.
LEMMA PointsOnScale ==
  ASSUME NEW book, NEW v, NEW id
  PROVE  /\ CardPoints(book, v, id) \in Scale
         /\ CardPoints(book, v, id) >= Points(3) <=> Worth(book, v, id) >= 3
         /\ Worth(book, v, id) = 8 => CardPoints(book, v, id) = Points(8)
<1>1. Worth(book, v, id) \in {8, 6, 5, 4, 3, 2, 0}
  BY DEF Worth
<1>2. /\ Points(8) = 13440 /\ Points(6) = 10080 /\ Points(5) = 8400
      /\ Points(4) = 6720 /\ Points(3) = 5040 /\ Points(2) = 3360
      /\ Points(1) = 1680
  BY DEF Points
<1> QED BY <1>1, <1>2, PointsOfGroup DEF Scale

\* One of the cards has the most points, and it is the best that GuideRanks
\* looks at.
LEMMA BestCard ==
  ASSUME NEW book, NEW v, v.cards # {}
  PROVE  \E c \in v.cards :
           /\ \A d \in v.cards : CardPoints(book, v, d) <= CardPoints(book, v, c)
           /\ (CHOOSE p \in {CardPoints(book, v, d) : d \in v.cards} :
                 \A d \in v.cards : CardPoints(book, v, d) <= p)
                = CardPoints(book, v, c)
<1> DEFINE S == {CardPoints(book, v, d) : d \in v.cards}
<1>1. S \subseteq Scale /\ S # {}
  BY PointsOnScale
<1>2. \A d \in v.cards : CardPoints(book, v, d) \in S
  OBVIOUS
<1>3. \E p \in S : \A q \in S : q <= p
  <2> DEFINE T == {13440 - q : q \in S}
  <2> HIDE DEF S
  <2>1. \A q \in S : 13440 - q \in Nat
    BY <1>1 DEF Scale
  <2>2. T \in SUBSET Nat /\ T # {}
    <3>1. PICK q \in S : TRUE
      BY <1>1
    <3>2. 13440 - q \in T
      BY <3>1
    <3>3. T \subseteq Nat
      BY <2>1
    <3> QED BY <3>2, <3>3
  <2> HIDE DEF T
  <2>3. Min(T) \in T /\ \A x \in T : Min(T) <= x
    BY <2>2, LeastOfSome
  <2>4. PICK p \in S : Min(T) = 13440 - p
    <3>1. \A x \in T : \E p \in S : x = 13440 - p
      BY DEF T
    <3> QED BY <2>3, <3>1
  <2>5. \A q \in S : q \in Int /\ 13440 - p <= 13440 - q
    <3>1. \A q \in S : 13440 - q \in T
      BY DEF T
    <3>2. \A q \in S : q \in Int
      BY <1>1 DEF Scale
    <3> QED BY <2>3, <2>4, <3>1, <3>2
  <2>6. \A q \in S : q <= p
    BY <2>5
  <2> QED BY <2>6
<1>4. PICK p \in S : \A q \in S : q <= p
  BY <1>3
<1> DEFINE best == CHOOSE q \in S : \A d \in v.cards : CardPoints(book, v, d) <= q
<1>5. best \in S /\ \A d \in v.cards : CardPoints(book, v, d) <= best
  <2>1. \A d \in v.cards : CardPoints(book, v, d) <= p
    BY <1>2, <1>4
  <2> QED BY <2>1
<1>6. PICK c \in v.cards : best = CardPoints(book, v, c)
  BY <1>5
<1> QED BY <1>5, <1>6

\* Cards that stop a refresh are those of the groups worth three halves or
\* more, but for an opening tool that turns up later.
LEMMA WantedIsWorth ==
  ASSUME NEW book \in DOMAIN SearchPlaybooks, NEW v, ~InOpening(v),
         v.kind \in {"TOOL", "POTION"},
         NEW c, v.kind = "TOOL" => c \in Tools, v.kind = "POTION" => c \in Potions
  PROVE  /\ c \in Wanted(book, v) => Worth(book, v, c) >= 3
         /\ Worth(book, v, c) >= 3 /\ c \notin Wanted(book, v)
              => v.kind = "TOOL" /\ Worth(book, v, c) = 8
<1> DEFINE p == SearchPlaybooks[book]
<1>1. /\ Tools \cap (p.alwaysPick \cup p.corePotions
                      \cup p.setupPotions \cup p.buffPotions) = {}
      /\ Potions \cap ({p.openingTool} \cup p.coreTools
                        \cup p.fallbackTools) = {}
      /\ p.setupPotions \cap p.buffPotions = {}
  BY GuideAssumption, Books
<1>2. Wanted(book, v) =
        IF v.kind = "TOOL" THEN p.coreTools \cup p.fallbackTools
        ELSE p.corePotions \cup p.alwaysPick
               \cup (IF Early(v) THEN p.setupPotions ELSE p.buffPotions)
  BY DEF Wanted
<1>3. Worth(book, v, c) =
        IF c = p.openingTool THEN 8
        ELSE IF c \in p.alwaysPick THEN 6
        ELSE IF c \in p.coreTools \cup p.corePotions THEN 5
        ELSE IF c \in p.fallbackTools THEN 3
        ELSE IF c \in p.setupPotions THEN IF Early(v) THEN 4 ELSE 2
        ELSE IF c \in p.buffPotions THEN IF Early(v) THEN 2 ELSE 4
        ELSE 0
  BY DEF Worth
<1> HIDE DEF p
<1>4. CASE v.kind = "TOOL"
  BY <1>1, <1>2, <1>3, <1>4
<1>5. CASE v.kind = "POTION"
  BY <1>1, <1>2, <1>3, <1>5
<1> QED BY <1>4, <1>5

\* What a refresh that wastes nothing is worth (refreshGuidePoints): for a tool
\* more than any card but the opening tool, for potions more than any that is
\* not wanted.
LEMMA RefreshIsWorth ==
  ASSUME NEW book, NEW v, ~InOpening(v), v.cards \cap Wanted(book, v) = {},
         v.cursor \in 1..LastCursor,
         \/ v.kind = "TOOL" /\ v.toolRefreshes \in 1..MaxPet
         \/ v.kind = "POTION" /\ v.potionRefreshes \in 1..PotionBudget
  PROVE  /\ RefreshPoints(book, v) \in Int
         /\ v.kind = "TOOL" =>
             6720 <= RefreshPoints(book, v) /\ RefreshPoints(book, v) <= 12600
         /\ v.kind = "POTION" /\ Early(v) => RefreshPoints(book, v) >= 5040
         /\ v.kind = "POTION" => RefreshPoints(book, v) > 3360
<1> USE FlowAssumption, GuideAssumption
<1>1. CASE v.kind = "TOOL"
  <2>1. RefreshPoints(book, v) = 5880 + 840 * v.toolRefreshes
    BY <1>1 DEF RefreshPoints
  <2>2. v.toolRefreshes \in 1..8
    BY <1>1
  <2> QED BY <1>1, <2>1, <2>2
<1>2. CASE v.kind = "POTION"
  <2> DEFINE opportunities == Most(1, 1 + PotionTurns - v.cursor)
             share == (4200 * v.potionRefreshes) \div opportunities
  <2>1. RefreshPoints(book, v) =
          (IF Early(v) THEN 5040 ELSE 2520) + Least(4200, share)
    BY <1>2 DEF RefreshPoints
  <2>2. opportunities \in Nat /\ opportunities >= 1
    BY DEF LastCursor, Most
  <2>3. 4200 * v.potionRefreshes \in Nat /\ 4200 * v.potionRefreshes >= 4200
    BY <1>2
  <2>4. ~Early(v) => opportunities \in {1, 2, 3, 4}
    BY DEF Early, Most, LastCursor
  <2> DEFINE x == 4200 * v.potionRefreshes
  <2> HIDE DEF opportunities, x
  <2>5. x \div opportunities \in Int /\ x \div opportunities >= 0
    BY <2>2, <2>3 DEF x
  <2>6. opportunities \in {1, 2, 3, 4} => x \div opportunities >= 1050
    <3>1. x \in Int /\ x >= 4200
      BY <2>3 DEF x
    <3>2. /\ x \div 1 >= 1050 /\ x \div 2 >= 1050
          /\ x \div 3 >= 1050 /\ x \div 4 >= 1050
      BY <3>1
    <3> QED BY <3>2
  <2>7. share = x \div opportunities
    BY DEF x
  <2> HIDE DEF share
  <2>8. /\ Least(4200, share) \in Int /\ Least(4200, share) >= 0
        /\ ~Early(v) => Least(4200, share) >= 1050
    BY <2>4, <2>5, <2>6, <2>7 DEF Least
  <2> QED BY <1>2, <2>1, <2>8
<1> QED BY <1>1, <1>2

\* Where a refresh stands among the cards.
LEMMA GuideRanksAll == AdviceInv => GuideRanks
<1> SUFFICES ASSUME AdviceInv PROVE GuideRanks
  OBVIOUS
<1> USE FlowAssumption
<1> DEFINE v == View
           book == LockedPlaybook(v)
<1>1. /\ v.cursor = baseCursor /\ v.cards = cards /\ v.kind = offer.kind
      /\ v.threshold = offer.threshold /\ v.tools = read
      /\ v.toolRefreshes = toolRefreshes
      /\ v.potionRefreshes = potionRefreshes
  BY DEF View
<1>2. book \in DOMAIN SearchPlaybooks \cup {Unmatched}
  BY <1>1, LockedIsBook DEF AdviceInv, Watching
<1>3. Resumable /\ Table /\ Budgets
  BY DEF AdviceInv
<1> DEFINE best == CHOOSE p \in {CardPoints(book, v, c) : c \in v.cards} :
                     \A c \in v.cards : CardPoints(book, v, c) <= p
<1> SUFFICES ASSUME v.cursor > 0, book # Unmatched,
                    Refreshing \in LegalActions(v)
             PROVE  IF best >= Points(3) THEN best > RefreshPoints(book, v)
                    ELSE RefreshPoints(book, v) > best
  BY DEF GuideRanks
<1>4. \/ offer.kind = "TOOL" /\ toolRefreshes > 0
      \/ offer.kind = "POTION" /\ potionRefreshes > 0
  BY <1>1, ActionsDiffer DEF LegalActions
<1> HIDE DEF v, book, best
<1>5. /\ v.cursor \in 1..LastCursor /\ ~InOpening(v)
      /\ v.kind \in {"TOOL", "POTION"}
      /\ \/ v.kind = "TOOL" /\ v.toolRefreshes \in 1..MaxPet
         \/ v.kind = "POTION" /\ v.potionRefreshes \in 1..PotionBudget
  <2>1. baseCursor \in 1..LastCursor
    BY <1>1, <1>3 DEF Resumable, LastCursor
  <2>2. offer.kind = "TOOL" => offer.threshold # 0
    BY <1>3, <2>1 DEF Resumable, OfferFitsPosition, FirstPending
  <2>3. toolRefreshes \in 0..MaxPet /\ potionRefreshes \in 0..PotionBudget
    BY <1>3 DEF Budgets
  <2> QED BY <1>1, <1>4, <2>1, <2>2, <2>3 DEF InOpening
<1>6. /\ v.cards # {}
      /\ \A c \in v.cards : /\ v.kind = "TOOL" => c \in Tools
                            /\ v.kind = "POTION" => c \in Potions
  <2>1. Cardinality(cards) \in 1..5
        /\ cards \subseteq CardsOfKind(offer.kind, offer.threshold)
    BY <1>3, <1>4 DEF Table
  <2>2. cards # {}
    BY <2>1, FS_EmptySet
  <2> QED BY <1>1, <2>1, <2>2, AdviceAssumption DEF CardsOfKind
<1>7. \A c \in v.cards :
        /\ c \in Wanted(book, v) => Worth(book, v, c) >= 3
        /\ Worth(book, v, c) >= 3 /\ c \notin Wanted(book, v)
             => v.kind = "TOOL" /\ Worth(book, v, c) = 8
  BY <1>2, <1>5, <1>6, WantedIsWorth
<1>8. PICK c \in v.cards :
        /\ \A d \in v.cards : CardPoints(book, v, d) <= CardPoints(book, v, c)
        /\ best = CardPoints(book, v, c)
  BY <1>6, BestCard DEF best
<1>9. best \in Scale /\ Points(3) = 5040 /\ Points(2) = 3360 /\ Points(8) = 13440
  BY <1>8, PointsOnScale DEF Points
<1>10. CASE v.cards \cap Wanted(book, v) # {}
  <2>1. RefreshPoints(book, v) = -3360
    BY <1>9, <1>10 DEF RefreshPoints
  <2>2. PICK d \in v.cards : d \in Wanted(book, v)
    BY <1>10
  <2>3. CardPoints(book, v, d) >= Points(3)
    BY <1>7, <2>2, PointsOnScale
  <2>4. CardPoints(book, v, d) \in Scale /\ CardPoints(book, v, d) <= best
    BY <1>8, PointsOnScale
  <2>5. best >= 5040
    BY <1>9, <2>3, <2>4 DEF Scale
  <2> QED BY <1>9, <2>1, <2>5 DEF Scale
<1>11. CASE v.cards \cap Wanted(book, v) = {}
  <2>1. /\ RefreshPoints(book, v) \in Int
        /\ v.kind = "TOOL" =>
             6720 <= RefreshPoints(book, v) /\ RefreshPoints(book, v) <= 12600
        /\ v.kind = "POTION" => RefreshPoints(book, v) > 3360
    BY <1>5, <1>11, RefreshIsWorth
  <2>2. CASE best >= Points(3)
    <3>1. Worth(book, v, c) >= 3
      BY <1>8, <2>2, PointsOnScale
    <3>2. v.kind = "TOOL" /\ Worth(book, v, c) = 8
      BY <1>7, <1>11, <3>1
    <3>3. best = 13440
      BY <1>8, <1>9, <3>2, PointsOnScale
    <3>4. 6720 <= RefreshPoints(book, v) /\ RefreshPoints(book, v) <= 12600
      BY <2>1, <3>2
    <3>5. best > RefreshPoints(book, v)
      BY <2>1, <3>3, <3>4
    <3> QED BY <2>2, <3>5
  <2>3. CASE ~(best >= Points(3))
    <3>1. best <= 3360
      BY <1>9, <2>3 DEF Scale
    <3> QED BY <1>5, <1>9, <2>1, <2>3, <3>1 DEF Scale
  <2> QED BY <2>2, <2>3
<1> QED BY <1>10, <1>11

\* After the opening a refresh ranks below every card that the guide wants, and
\* above the rest when it wants none: the two places where the groups of a card
\* are written down agree for every hand (guideCardPoints, refreshGuidePoints).
THEOREM GuideRanksRefreshes == SpecAdvice => []GuideRanks
BY GuideRanksAll, AdviceInvariance, PTL
=============================================================================
