--------------------------------- MODULE Advice ---------------------------------
(***************************************************************************)
(* What the finite-information AI (src/internal/ai) makes of a game: the   *)
(* view it is shown, the checks of a view read from the screen, the state  *)
(* it rebuilds to try futures in, and the playbooks that guide it.         *)
(*                                                                         *)
(* A behaviour is a game of GameFlow that is watched, up to the moment     *)
(* when one of its futures is imagined: from then on the variables are     *)
(* those of the rebuilt state and the behaviour is a rollout.  The numbers *)
(* that rollouts compare are abstracted: any legal action may be the best. *)
(***************************************************************************)
EXTENDS GameFlow, SequencesExt

CONSTANTS
  Slots,      \* culture dishes, 0..5 in the code
  Empty,      \* the content of a dish without a monster
  Boards,     \* bound: boards a settlement may leave behind
  FirstBoards,  \* those among them that the preparation fills
  Instruments,  \* the cards that replace the preparation
  Potions,    \* potion cards that are offered
  Boxes,      \* the potion boxes among them
  Schemes,    \* scheme cards, always offered together
  Tools,      \* tool cards
  CoreTools,  \* tools that the opening offers
  Targets,    \* least and largest number of targets of a potion
  EarlyPotions  \* potion questions that lay the ground (4 in the code)

FamilyOrder == <<"BONE", "FIEND", "AWAKENER", "INSECT">>
Families == Range(FamilyOrder)
NoFamily == "NONE"
Monsters == [family : Families, rarity : {"normal", "magic", "rare", "boss"}]

\* A settled board holds a monster: Effects checks that no turn empties it.
ASSUME AdviceAssumption ==
  /\ IsFiniteSet(Slots)
  /\ Boards \subseteq [Slots -> Monsters \cup {Empty}]
  /\ FirstBoards \subseteq Boards
  /\ \A b \in Boards : \E s \in Slots : b[s] # Empty
  /\ CoreTools \subseteq Tools /\ Boxes \subseteq Potions
  /\ Tools \cap Potions = {}  \* an identifier names one card
  /\ Cardinality(Schemes) \in 1..5
  /\ Targets \in [Potions -> {<<0, 0>>, <<1, 1>>, <<1, 2>>}]

VARIABLES
  board,      \* s.Slots
  read,       \* the tools of the view, in the order they were gained; on a
              \* screen some may be missed, and they are tools - Len(read)
  cards,      \* s.Offer.CardIds
  guided,     \* the player follows tier_sampler, fixed for a game
  imagined,   \* the variables are those of a rebuilt state
  opening     \* history: what became of the tool the guided player wanted

adviceVars == <<board, read, cards, guided, imagined, opening>>
allVars == <<vars, adviceVars>>

Least(x, y) == IF x < y THEN x ELSE y
Most(x, y) == IF x > y THEN x ELSE y

-----------------------------------------------------------------------------
(***************************************************************************)
(* The view                                                                *)
(***************************************************************************)

\* FromGameState, and what a client reads from the screen: no offer identity,
\* no revision, no random state.
View ==
  [phase |-> phase, cursor |-> baseCursor, turns |-> completedTurns,
   claims |-> claims, score |-> score, slots |-> board, tools |-> read,
   unknown |-> tools - Len(read), kind |-> offer.kind,
   threshold |-> offer.threshold, cards |-> cards,
   potionRefreshes |-> potionRefreshes, toolRefreshes |-> toolRefreshes]

\* Tuples of different slots, as the recursive visits of catalogTargets and
\* LegalTargets build them.
Tuples(places, least, largest) ==
  UNION {{t \in [1..n -> places] : IsInjective(t)} : n \in least..largest}

Choose(card, slots) == [type |-> "choose", card |-> card, slots |-> slots]
Refreshing == [type |-> "refresh"]
Skipping == [type |-> "skip_unknown"]

TargetsOf(card) == IF card \in Potions THEN Targets[card] ELSE <<0, 0>>

\* LegalTargets of the engine, as slots.
TargetSets(v, card) ==
  Tuples({s \in Slots : v.slots[s] # Empty}, TargetsOf(card)[1],
         TargetsOf(card)[2])

\* LegalActionsFromObservation: whether a refresh is left follows from the kind
\* of the offer and its counter.
LegalActions(v) ==
  {a \in {Skipping} : v.phase = "PREPARING"}
    \cup {a \in {Refreshing} :
            \/ v.kind = "POTION" /\ v.potionRefreshes > 0
            \/ v.kind = "TOOL" /\ v.toolRefreshes > 0}
    \cup UNION {{Choose(c, t) : t \in TargetSets(v, c)} : c \in v.cards}

\* Fault: the catalogue holds each set of slots once, in ascending order.
CatalogAscending(least, largest) ==
  {t \in Tuples(Slots, least, largest) :
     \A i, j \in DOMAIN t : i < j => t[i] < t[j]}

\* catalogTargets: every tuple of slots that a card may ever be played on.
CatalogTargets(least, largest) == Tuples(Slots, least, largest)

\* NewSpec: the actions an index of the training environment can name.
Catalog ==
  {Skipping, Refreshing} \cup
  UNION {{Choose(c, t) : t \in CatalogTargets(TargetsOf(c)[1], TargetsOf(c)[2])} :
           c \in Instruments \cup Potions \cup Tools \cup Schemes}

\* Spec.Encode: the actions whose mask is set.
Masked(v) == LegalActions(v) \cap Catalog

-----------------------------------------------------------------------------
(***************************************************************************)
(* FromVisible                                                             *)
(***************************************************************************)

\* The reward that is due, the first one of the list.
Due(c) ==
  IF c[LowThreshold] = "PENDING" THEN LowThreshold
  ELSE IF c[HighThreshold] = "PENDING" THEN HighThreshold ELSE 0

ClaimsReadable(c) ==
  /\ c[HighThreshold] # "LOCKED" => c[LowThreshold] # "LOCKED"
  /\ c[HighThreshold] = "CLAIMED" => Due(c) = 0

\* Base questions answered and rewards claimed.
ExpectedTurns(v) == Most(v.cursor - 1, 0) + Cardinality(Claimed(v.claims))

\* Fault: the opening tool is counted with the first potion.
ExpectedToolsLate(v) ==
  Cardinality(Claimed(v.claims)) + Least(Most(v.cursor - 1, 0), 1)

\* Rewards claimed and the opening tool.
ExpectedTools(v) == Cardinality(Claimed(v.claims)) + Least(v.cursor, 1)

\* The kind of question that progress and claims call for.
ExpectedKind(v) ==
  IF Due(v.claims) # 0 \/ v.cursor = 0 THEN "TOOL"
  ELSE IF v.cursor <= PotionTurns THEN "POTION"
  ELSE IF v.cursor < LastCursor THEN "SCHEME" ELSE "NONE"

CardsOfKind(kind, threshold) ==
  CASE kind = "POTION" -> Potions
    [] kind = "TOOL" /\ threshold = 0 -> CoreTools
    [] kind = "TOOL" /\ threshold # 0 -> Tools
    [] kind = "SCHEME" -> Schemes
    [] OTHER -> {}

\* derivedToolFamily: any of the families with the most monsters.
DerivedFamilies(b) ==
  LET have(f) == Cardinality({s \in Slots : b[s] # Empty /\ b[s].family = f})
      leaders == {f \in Families :
                    have(f) > 0 /\ \A g \in Families : have(g) <= have(f)}
  IN IF leaders = {} THEN {NoFamily} ELSE leaders

\* ValidateState, of a state rebuilt from a view: once the game has begun it
\* has an opening family, and so a monster.
ValidState(v) ==
  /\ v.cursor \in 0..LastCursor /\ v.turns \in 0..(LastCursor + 1)
  /\ v.phase # "PREPARING" => NoFamily \notin DerivedFamilies(v.slots)
  /\ Range(v.tools) \subseteq Tools

\* FromVisible.  Names, versions and monsters without values are left out.
Accepted(v) ==
  /\ v.phase \in {"CHOOSING", "FINISHED"}
  /\ v.potionRefreshes \in 0..PotionBudget /\ v.toolRefreshes \in 0..MaxPet
  /\ v.unknown \in 0..3
  /\ v.cursor \in 0..LastCursor /\ v.turns \in 0..(LastCursor + 1)
  /\ ClaimsReadable(v.claims)
  /\ v.turns = ExpectedTurns(v)
  /\ Len(v.tools) + v.unknown = ExpectedTools(v)
  /\ IF v.phase = "FINISHED"
     THEN /\ v.cursor = LastCursor /\ Due(v.claims) = 0
          /\ v.cards = {} /\ v.kind = "NONE"
     ELSE /\ v.kind = ExpectedKind(v) /\ v.kind # "NONE"
          /\ v.threshold = Due(v.claims)
          /\ Cardinality(v.cards) \in 1..5
          /\ v.cards \subseteq CardsOfKind(v.kind, v.threshold)
  /\ ValidState(v)

-----------------------------------------------------------------------------
(***************************************************************************)
(* Playbooks                                                               *)
(***************************************************************************)

Book(tool, core, fallback, setup, buff, corePotions, always) ==
  [openingTool |-> tool, coreTools |-> core, fallbackTools |-> fallback,
   setupPotions |-> setup, buffPotions |-> buff, corePotions |-> corePotions,
   alwaysPick |-> always]

FiendSetup == {"alien_hormone", "insect_powder", "brood_hormone"}
FiendBuff ==
  {"awakening", "fiend_anesthetic", "petrified_marrow", "gray_marrow",
   "hollow_marrow", "proliferation_powder", "mutagen_powder"}
BoneSetup ==
  {"bone_ointment", "alien_hormone", "targeted_alien_hormone", "will_powder"}
BoneBuff ==
  {"awakening", "cleansing_ointment", "mixed_leech", "sticky_bile", "mutation",
   "awaker_anesthetic", "digestive", "fusion", "petrified_marrow",
   "gray_marrow", "hollow_marrow"}

SearchPlaybooks ==
  [insect_pupa |->
     Book("pupa", {"scraper", "tanned_restraint"}, {},
          {"insect_powder", "brood_hormone", "insect_twin_hormone",
           "eggshell_powder"},
          {"pure_leech", "mixed_leech", "sticky_bile", "awakening"}, {},
          {"insect_boost", "lure"}),
   awakener_boss |->
     Book("pituitary", {"fang", "saw"}, {"cortex"}, {}, {},
          {"strong_will_powder", "will_powder", "awakening", "pia_mater"}, {}),
   awakener_double |->
     Book("frontal_lobe", {"fang", "rawhide_restraint"}, {}, {}, {},
          {"awaker_fluid", "awaker_anesthetic", "awakening", "mutagen_powder",
           "mutation"}, {}),
   fiend_growth |->
     Book("growth", {"nettle", "fang", "goat_suture", "marrow"}, {},
          FiendSetup, FiendBuff,
          {"fresh_marrow_powder", "fiend_anesthetic"}, {}),
   fiend_double |->
     Book("liver", {"nettle", "fang", "saw"}, {}, FiendSetup, FiendBuff,
          {"fresh_marrow_powder", "mutagen_powder", "gray_marrow", "mutation"},
          {}),
   bone_claw |->
     Book("claw", {"cortex", "goat_suture"}, {"saw", "scraper", "eye"},
          BoneSetup, BoneBuff, {}, {}),
   bone_metatarsal |->
     Book("metatarsal", {"sinew", "scraper"}, {"tanned_restraint", "cortex"},
          BoneSetup, BoneBuff, {}, {})]

Unmatched == "unmatched"

\* What the ranking of the guide rests on: the lists of a playbook keep tools
\* and potions apart, a pet brings few refreshes (at most 2 in the code), and
\* few potion questions are left when the ground has been laid (8 less 4).
ASSUME GuideAssumption ==
  /\ EarlyPotions \in Nat
  /\ PotionTurns - EarlyPotions <= 4
  /\ MaxPet <= 8
  /\ \A book \in DOMAIN SearchPlaybooks :
       LET p == SearchPlaybooks[book]
       IN /\ Tools \cap (p.alwaysPick \cup p.corePotions
                           \cup p.setupPotions \cup p.buffPotions) = {}
          /\ Potions \cap ({p.openingTool} \cup p.coreTools
                             \cup p.fallbackTools) = {}

Occupied(b) == {s \in Slots : b[s] # Empty}
OfFamily(b, f) == Cardinality({s \in Occupied(b) : b[s].family = f})

\* The earliest of the families with the most monsters.
Dominant(b) ==
  FamilyOrder[SelectInSeq(FamilyOrder, LAMBDA f :
                \A g \in Families : OfFamily(b, g) <= OfFamily(b, f))]

\* The playbooks that fit a board, in the order they are weighed.
Candidates(b) ==
  LET total == Cardinality(Occupied(b))
      normals == Cardinality({s \in Occupied(b) : b[s].rarity = "normal"})
      rares == {s \in Occupied(b) : b[s].rarity \in {"rare", "boss"}}
      rareAwakeners == Cardinality({s \in rares : b[s].family = "AWAKENER"})
      otherRares == Cardinality(rares) - rareAwakeners
      n == [f \in Families |-> OfFamily(b, f)]
      lead(f, bonus) == IF Dominant(b) = f THEN bonus ELSE 0
      candidate(fits, book, weight) ==
        IF fits THEN <<[book |-> book, score |-> weight]>> ELSE <<>>
  IN candidate(n["INSECT"] > 0, "insect_pupa",
               60 + 8 * n["INSECT"] + lead("INSECT", 35))
     \o candidate(rareAwakeners > 0 /\ total <= 3, "awakener_boss",
                  105 + 5 * rareAwakeners)
     \o candidate(n["AWAKENER"] >= (IF otherRares >= 1 THEN 1 ELSE 2),
                  "awakener_double",
                  100 + 5 * n["AWAKENER"] + lead("AWAKENER", 30))
     \o candidate(n["FIEND"] >= 1 /\ total >= 4 /\ normals * 2 >= total,
                  "fiend_growth", 90 + 4 * normals + lead("FIEND", 25))
     \o candidate(n["FIEND"] >= 2 /\ total >= 4, "fiend_double",
                  110 + 5 * n["FIEND"] + lead("FIEND", 25))
     \o candidate(n["BONE"] > 0, "bone_claw",
                  65 + 5 * n["BONE"] + lead("BONE", 30))
     \o candidate(n["BONE"] >= 2, "bone_metatarsal",
                  110 + 5 * n["BONE"] + lead("BONE", 30))

\* The first of the best.
SelectInitialPlaybook(b) ==
  LET c == Candidates(b)
      best == SelectInSeq(c, LAMBDA x :
                \A i \in DOMAIN c : c[i].score <= x.score)
  IN IF best = 0 THEN Unmatched ELSE c[best].book

\* An opening tool that is owned fixes the playbook for the rest of the game.
LockedPlaybook(v) ==
  LET books(t) == {k \in DOMAIN SearchPlaybooks :
                     SearchPlaybooks[k].openingTool = t}
      lock == SelectInSeq(v.tools, LAMBDA t : books(t) # {})
  IN IF lock = 0 THEN SelectInitialPlaybook(v.slots)
     ELSE CHOOSE k \in books(v.tools[lock]) : TRUE

OpeningToolOf(book) == SearchPlaybooks[book].openingTool

InOpening(v) == v.kind = "TOOL" /\ v.threshold = 0

\* Fault: refreshes are used up before the candidates are looked at.
LockedOpeningActionLate(v) ==
  LET book == LockedPlaybook(v)
  IN IF book = Unmatched \/ ~InOpening(v) THEN {}
     ELSE IF v.toolRefreshes > 0 THEN LegalActions(v) \cap {Refreshing}
     ELSE LegalActions(v) \cap {Choose(OpeningToolOf(book), <<>>)}

\* lockedOpeningAction: the one action the guided player takes, if any.
LockedOpeningAction(v) ==
  LET book == LockedPlaybook(v)
      take == Choose(OpeningToolOf(book), <<>>)
  IN IF book = Unmatched \/ ~InOpening(v) THEN {}
     ELSE IF take \in LegalActions(v) THEN {take}
     ELSE LegalActions(v) \cap {Refreshing}

\* Points of the guide, scaled to integers.
Points(halves) == 1680 * halves

Early(v) == v.cursor <= EarlyPotions

\* guideCardPoints of a card: what the first group it is in is worth; a card
\* without a group is marked down next to preferred ones.
CardPoints(book, v, id) ==
  LET p == SearchPlaybooks[book]
      groups == <<[ids |-> {p.openingTool}, halves |-> 8],
                  [ids |-> p.alwaysPick, halves |-> 6],
                  [ids |-> p.coreTools \cup p.corePotions, halves |-> 5],
                  [ids |-> p.fallbackTools, halves |-> 3],
                  [ids |-> p.setupPotions, halves |-> IF Early(v) THEN 4 ELSE 2],
                  [ids |-> p.buffPotions, halves |-> IF Early(v) THEN 2 ELSE 4]>>
      first == SelectInSeq(groups, LAMBDA g : id \in g.ids)
      preferred == UNION {g.ids : g \in Range(groups)}
  IN IF first # 0 THEN Points(groups[first].halves)
     ELSE IF v.cards \cap preferred # {} THEN -Points(1) ELSE 0

\* Fault: the groups of the two halves of the potions are exchanged.
WantedSwapped(book, v) ==
  LET p == SearchPlaybooks[book]
  IN IF InOpening(v) THEN {p.openingTool}
     ELSE IF v.kind = "TOOL" THEN p.coreTools \cup p.fallbackTools
     ELSE p.corePotions \cup p.alwaysPick
            \cup (IF Early(v) THEN p.buffPotions ELSE p.setupPotions)

\* Cards that make a refresh a waste.
Wanted(book, v) ==
  LET p == SearchPlaybooks[book]
  IN IF InOpening(v) THEN {p.openingTool}
     ELSE IF v.kind = "TOOL" THEN p.coreTools \cup p.fallbackTools
     ELSE p.corePotions \cup p.alwaysPick
            \cup (IF Early(v) THEN p.setupPotions ELSE p.buffPotions)

\* refreshGuidePoints of a refresh that is possible: 1.25 * urgency is
\* 4200 scaled, which every number of opportunities up to 8 divides.
RefreshPoints(book, v) ==
  LET opportunities == Most(1, 1 + PotionTurns - v.cursor)
  IN IF v.cards \cap Wanted(book, v) # {} THEN -Points(2)
     ELSE IF InOpening(v) THEN Points(6)
     ELSE IF v.kind = "TOOL" THEN 5880 + 840 * v.toolRefreshes
     ELSE (IF Early(v) THEN 5040 ELSE 2520)
            + Least(4200, (4200 * v.potionRefreshes) \div opportunities)

-----------------------------------------------------------------------------
(***************************************************************************)
(* Watched games and rollouts                                              *)
(***************************************************************************)

\* The cards of an offer on a board; a potion is drawn only when it has
\* targets.
Deals(o, b) ==
  CASE o.kind = "UNKNOWN" -> {{c} : c \in Instruments}
    [] o.kind = "SCHEME" -> {Schemes}
    [] o.kind = "TOOL" ->
         kSubset(3, IF o.threshold = 0 THEN CoreTools ELSE Tools)
    [] o.kind = "POTION" ->
         {d \in UNION {kSubset(n, {c \in Potions :
                                     Tuples(Occupied(b), Targets[c][1],
                                            Targets[c][2]) # {}}) :
                         n \in IF o.source = "box" THEN {3, 5} ELSE {3}} :
            Cardinality(d \cap Boxes) = o.boxes}
    [] OTHER -> {{}}

\* Nothing to tell of the opening yet, or of a game that is imagined.
NotYet == [wanted |-> Unmatched, shown |-> FALSE, left |-> 0, tool |-> Unmatched]

InitAdvice ==
  /\ Init
  /\ board = [s \in Slots |-> Empty]
  /\ read = <<>>
  /\ cards \in Deals(offer, board)
  /\ guided \in BOOLEAN
  /\ imagined = FALSE
  /\ opening = NotYet

\* tier_sampler takes the locked action; any other choice depends on numbers.
Decides(action) ==
  guided /\ ~imagined /\ LockedOpeningAction(View) # {}
    => action \in LockedOpeningAction(View)

Deal == cards' \in Deals(offer', board')

\* What the guided player wants from here on, and whether it has been shown.
SeekOpeningTool ==
  IF guided /\ ~imagined
  THEN LET book == SelectInitialPlaybook(board')
           wanted == IF book = Unmatched THEN Unmatched ELSE OpeningToolOf(book)
       IN opening' = [NotYet EXCEPT !.wanted = wanted,
                                    !.shown = opening.shown \/ wanted \in cards']
  ELSE UNCHANGED opening

\* Choosing an instrument, or skipping it.
PlayPreparation ==
  /\ Prepare /\ board' \in FirstBoards /\ Deal
  /\ SeekOpeningTool
  /\ UNCHANGED <<read, guided, imagined>>

\* The new tool may be missed on the screen: its effects are known to nobody.
Gain(card) ==
  read' \in IF imagined THEN {Append(read, card)}
            ELSE {read, Append(read, card)}

PlayOpeningTool ==
  /\ ChooseOpeningTool /\ board' \in Boards /\ Deal
  /\ \E card \in cards :
       /\ Decides(Choose(card, <<>>))
       /\ Gain(card)
       /\ opening' = IF guided /\ ~imagined
                     THEN [opening EXCEPT !.left = toolRefreshes,
                                          !.tool = card]
                     ELSE opening
  /\ UNCHANGED <<guided, imagined>>

PlayRewardTool ==
  /\ ChooseRewardTool /\ board' \in Boards /\ Deal
  /\ \E card \in cards : Gain(card)
  /\ UNCHANGED <<guided, imagined, opening>>

PlayCard ==
  /\ PlayBaseCard /\ board' \in Boards /\ Deal
  /\ UNCHANGED <<read, guided, imagined, opening>>

OpenBox ==
  /\ OpenPotionBox /\ UNCHANGED board /\ Deal
  /\ UNCHANGED <<read, guided, imagined, opening>>

PlayPotionRefresh ==
  /\ RefreshPotions /\ UNCHANGED board /\ Deal
  /\ UNCHANGED <<read, guided, imagined, opening>>

PlayToolRefresh ==
  /\ RefreshTools /\ UNCHANGED board /\ Deal
  /\ Decides(Refreshing)
  /\ IF baseCursor = 0 THEN SeekOpeningTool ELSE UNCHANGED opening
  /\ UNCHANGED <<read, guided, imagined>>

\* Fault: the statuses of the rewards are left at their default.
RebuiltClaimsLocked(v) == [t \in Rewards |-> "LOCKED"]

RebuiltClaims(v) == v.claims

\* RebuildState: a state with everything that the view shows; tools that were
\* missed are absent, identities start anew, what is hidden is made up.
Rebuild ==
  /\ ValidState(View)
  /\ offer' = [offer EXCEPT !.id = 0, !.source = "none"]
  /\ tools' = Len(read)
  /\ claims' = RebuiltClaims(View)
  /\ peak' = score /\ pet' = 0
  /\ revision' = 1 /\ nextOfferId' = 1
  /\ UNCHANGED <<phase, baseCursor, completedTurns, potionRefreshes,
                 toolRefreshes, score, board, read, cards>>

\* buildSimSample: Decide imagines a future of a game that is not over.
Imagine ==
  /\ phase # "FINISHED" /\ ~imagined
  /\ Rebuild
  /\ imagined' = TRUE /\ opening' = NotYet
  /\ UNCHANGED guided

NextAdvice ==
  \/ PlayPreparation
  \/ PlayOpeningTool
  \/ PlayRewardTool
  \/ PlayCard
  \/ OpenBox
  \/ PlayPotionRefresh
  \/ PlayToolRefresh
  \/ Imagine

SpecAdvice == InitAdvice /\ [][NextAdvice]_allVars

-----------------------------------------------------------------------------
(***************************************************************************)
(* Properties                                                              *)
(***************************************************************************)

\* FromVisible accepts every view of a game that is really played, whatever
\* tools were missed on its screens: nothing that it demands of the history
\* contradicts the engine.
ViewAccepted ==
  ~imagined /\ phase \in {"CHOOSING", "FINISHED"} => Accepted(View)

\* A state rebuilt from any view, with missed tools, fresh identities and
\* another random state, goes on along the published flow: rewards already
\* claimed or due stay so, and no question is asked twice or skipped.
FuturesFollowPlan == Plan!Spec

\* The training environment can name every legal action: the mask of a state
\* has one bit for each of them, and is empty at the end only.
MaskComplete ==
  /\ LegalActions(View) \subseteq Catalog
  /\ Masked(View) = {} <=> phase = "FINISHED"

\* docs/ai.md, 117: the guided player takes the opening tool of the playbook
\* as soon as it is shown, and otherwise spends every refresh looking for it.
OpeningSought ==
  opening.tool # Unmatched /\ opening.wanted # Unmatched =>
    \/ opening.tool = opening.wanted
    \/ ~opening.shown /\ opening.left = 0

\* After the opening, the guide puts a refresh below every card that it wants,
\* and first when it wants none of those on the table: refreshes are neither
\* wasted nor left over.  The groups of a card and those that stop a refresh
\* are written down twice in the code and change in the middle of a game.
GuideRanks ==
  LET v == View
      book == LockedPlaybook(v)
  IN (v.cursor > 0 /\ book # Unmatched /\ Refreshing \in LegalActions(v)) =>
       LET best == CHOOSE p \in {CardPoints(book, v, c) : c \in v.cards} :
                     \A c \in v.cards : CardPoints(book, v, c) <= p
       IN IF best >= Points(3) THEN best > RefreshPoints(book, v)
          ELSE RefreshPoints(book, v) > best
=============================================================================
