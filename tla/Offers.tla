--------------------------------- MODULE Offers ---------------------------------
(***************************************************************************)
(* What lies on the table: how the engine draws the candidates of an offer *)
(* (src/internal/engine: makeOffer in engine.go, boxes.go, tool_offers.go) *)
(* from the catalogue, the board and the family the preparation left.      *)
(*                                                                         *)
(* A card is drawn per step; a roll is any outcome of positive weight, and *)
(* the candidates are a set with the number of cards drawn for it.  A      *)
(* board is the number of monsters of each family, which is all that the   *)
(* draws read of it; what a turn does to it is any of Boards.  GameFlow    *)
(* says which offer follows which and how many refreshes there are.        *)
(***************************************************************************)
EXTENDS Integers, FiniteSets

CONSTANTS
  Potions,      \* enabled potion cards, boxes included
  Tools,        \* enabled tool cards
  Schemes,      \* the scheme cards
  Rarity,       \* rarity of each potion
  BoxSize,      \* candidates in a box, 0 for a potion that is no box
  Needs,        \* what a potion needs on the board to have a target
  CoreFamily,   \* family of a core tool, NoFamily for the others
  Boards,       \* boards a turn may leave behind
  FamilyDraws,  \* bound: families that the preparation draws
  MaxOwned      \* bound: tools gained, 3 in a game

Families == {"BONE", "FIEND", "AWAKENER", "INSECT"}
NoFamily == "NONE"
Rarities == 1..4
CoreTools == {t \in Tools : CoreFamily[t] # NoFamily}

\* The potions that any board can use and that are no boxes.
Staples == {c \in Potions : BoxSize[c] = 0 /\ Needs[c] = "nothing"}

\* Validate demands three tools, three core tools and three schemes; the
\* catalogue has ten staples (potions.go 9-59), enough for the largest box.
ASSUME CatalogueAssumption ==
  /\ IsFiniteSet(Potions) /\ IsFiniteSet(Tools)
  /\ Potions \cap Tools = {} /\ Cardinality(Schemes) = 3
  /\ Rarity \in [Potions -> Rarities]
  /\ BoxSize \in [Potions -> {0, 3, 5}]
  /\ Needs \in [Potions -> {"nothing", "monster", "bone"}]
  /\ CoreFamily \in [Tools -> Families \cup {NoFamily}]
  /\ Boards \subseteq [Families -> Nat]
  /\ FamilyDraws \subseteq Families
  /\ MaxOwned \in Nat
  /\ Cardinality(Staples) >= 5
  /\ Cardinality(CoreTools) >= 3

VARIABLES
  board,      \* monsters of each family
  family,     \* s.OpeningToolFamily
  begun,      \* s.BaseCursor > 0: the opening tool is chosen
  owned,      \* tools gained so far
  offer,      \* s.Offer
  draw,       \* what a command draws for, or NoDraw between commands
  progress,   \* how far the draw has come
  rejected    \* the last command ended in INVALID_CONTENT

vars == <<board, family, begun, owned, offer, draw, progress, rejected>>
checkpoint == <<board, family, begun, owned, offer>>

Skip == "skip_unknown"
Unknowns == {"initial_six", "initial_insects", "initial_bones", "initial_rares"}

EmptyBoard == [f \in Families |-> 0]
TableOf(b, f, started, tools) ==
  [board |-> b, family |-> f, begun |-> started, owned |-> tools]
Table == TableOf(board, family, begun, owned)

\* A draw for a table that the command will leave, and its cards so far.
DrawOf(kind, source, reward, count, after) ==
  [kind |-> kind, source |-> source, reward |-> reward, count |-> count,
   after |-> after]
NoDraw == DrawOf("NONE", "none", FALSE, 0, << >>)

ProgressOf(pool, cards, taken, boxes) ==
  [pool |-> pool, cards |-> cards, taken |-> taken, boxes |-> boxes]
NoProgress == ProgressOf({}, {}, 0, 0)

-----------------------------------------------------------------------------
(***************************************************************************)
(* Reading the board                                                       *)
(***************************************************************************)

\* LegalTargets(s, card) is not empty: a card with targets needs a monster to
\* point at, some of the others a monster or a bone guard to act on.
Playable(c, b) ==
  /\ Needs[c] = "monster" => \E f \in Families : b[f] > 0
  /\ Needs[c] = "bone" => b["BONE"] > 0

\* The families with the most monsters.
Leaders(b) ==
  {f \in Families : b[f] > 0 /\ \A g \in Families : b[g] <= b[f]}

\* initialToolFamily: awakeners win a tie, other ties are drawn.
InitialFamily(b) ==
  IF Leaders(b) = {} THEN {NoFamily}
  ELSE IF "AWAKENER" \in Leaders(b) THEN {"AWAKENER"} ELSE Leaders(b)

\* The board that families drawn one after the other make.
Count(drawn) ==
  [f \in Families |-> Cardinality({i \in DOMAIN drawn : drawn[i] = f})]

\* initialize and initializeRares: the boards each preparation may lead to.
Prepared(h) ==
  IF h = Skip THEN {Count(d) : d \in [1..3 -> FamilyDraws]}
  ELSE IF h = "initial_six" THEN {Count(d) : d \in [1..6 -> FamilyDraws]}
  ELSE IF h = "initial_insects" THEN {Count([i \in 1..4 |-> "INSECT"])}
  ELSE IF h = "initial_bones"
  THEN {Count([i \in 1..4 |-> IF i = 3 THEN f ELSE "BONE"]) :
          f \in FamilyDraws \ {"BONE"}}
  ELSE {[f \in Families |-> 1]}

-----------------------------------------------------------------------------
(***************************************************************************)
(* Drawing                                                                 *)
(***************************************************************************)

\* The command fails; the caller keeps the checkpoint it had.
Reject ==
  /\ draw' = NoDraw /\ progress' = NoProgress
  /\ rejected' = TRUE
  /\ UNCHANGED checkpoint

\* A draw of count cards from a pool, for the table that the command leaves.
Draw(kind, source, reward, count, boxes, pool, after) ==
  /\ draw' = DrawOf(kind, source, reward, count, after)
  /\ progress' = ProgressOf(pool, {}, 0, boxes)
  /\ rejected' = FALSE
  /\ UNCHANGED checkpoint

\* Fault: the potions are those that the board before the turn could use.
MakeOfferEarly(kind, source, reward, after) ==
  IF kind = "POTION"
  THEN Draw(kind, source, reward, 3, 1,
            {c \in Potions : Playable(c, board)}, after)
  ELSE Draw(kind, source, reward, 3, 0,
            IF reward \/ after.begun THEN Tools ELSE CoreTools, after)

\* makeOffer: three candidates, or no offer at all if the pool is too small.
MakeOffer(kind, source, reward, after) ==
  LET pool == IF kind = "POTION"
              THEN {c \in Potions : Playable(c, after.board)}
              ELSE IF reward \/ after.begun THEN Tools ELSE CoreTools
  IN IF Cardinality(pool) < 3 THEN Reject
     ELSE Draw(kind, source, reward, 3, IF kind = "POTION" THEN 1 ELSE 0,
               pool, after)

\* The offer after a turn: the base question, or a score reward.
NextOffer(after) ==
  \/ MakeOffer("POTION", "base", FALSE, after)
  \/ MakeOffer("TOOL", "threshold", TRUE, after)
  \/ /\ offer' = [kind |-> "SCHEME", source |-> "base", reward |-> FALSE,
                  cards |-> Schemes, size |-> 3]
     /\ board' = after.board /\ family' = after.family
     /\ begun' = after.begun /\ owned' = after.owned
     /\ rejected' = FALSE
     /\ UNCHANGED <<draw, progress>>

Drawing(kind) == draw.kind = kind /\ progress.taken < draw.count
Boxes(cards) == {c \in cards \cap Potions : BoxSize[c] > 0}

\* Fault: a card that is drawn stays in the pool.
TakeAgain(c) ==
  /\ progress' = [progress EXCEPT !.cards = @ \cup {c}, !.taken = @ + 1]
  /\ UNCHANGED <<checkpoint, draw, rejected>>

Take(c) ==
  /\ progress' = ProgressOf(progress.pool \ {c}, progress.cards \cup {c},
                   progress.taken + 1,
                   IF c \in Potions /\ BoxSize[c] > 0
                   THEN progress.boxes - 1 ELSE progress.boxes)
  /\ UNCHANGED <<checkpoint, draw, rejected>>

\* Fault: the whole pool is fallen back on, boxes over the limit included.
PotionGroupAnyFallback(r) ==
  LET rolled == {c \in progress.pool : Rarity[c] = r
                                   /\ (BoxSize[c] = 0 \/ progress.boxes > 0)}
  IN IF rolled = {} THEN progress.pool ELSE rolled

\* Fault: an exhausted rarity ends the draw.
PotionGroupStrict(r) ==
  {c \in progress.pool : Rarity[c] = r /\ (BoxSize[c] = 0 \/ progress.boxes > 0)}

\* The potions that a roll of a rarity may yield: any rarity once none of that
\* one is left, and a box only within the limit.
PotionGroup(r) ==
  LET eligible == {c \in progress.pool : BoxSize[c] = 0 \/ progress.boxes > 0}
      rolled == {c \in eligible : Rarity[c] = r}
  IN IF rolled = {} THEN eligible ELSE rolled

\* drawPotionCards: one roll for the rarity, one for the card.
DrawPotion ==
  /\ Drawing("POTION")
  /\ \E r \in Rarities :
       IF PotionGroup(r) = {} THEN Reject
       ELSE \E c \in PotionGroup(r) : Take(c)

\* Fault: the weights ignore how many tools share them.
OpeningWeightsPerCard(pool, f) ==
  [t \in pool |-> IF CoreFamily[t] = f THEN 11 ELSE 9]

\* openingToolWeights: the family of the preparation shares 55 parts of a
\* hundred, the others 45; equal weights once either group is empty.
OpeningWeights(pool, f) ==
  LET matching == {t \in pool : CoreFamily[t] = f}
      other == pool \ matching
  IN [t \in pool |->
        IF matching = {} \/ other = {} THEN 1
        ELSE IF t \in matching THEN 11 * Cardinality(other)
        ELSE 9 * Cardinality(matching)]

\* A tool offer belongs to the opening while no base question has been asked.
OpeningDraw == draw.kind = "TOOL" /\ ~draw.reward /\ ~draw.after.begun

\* toolIndexAt finds a tool for every roll; later tools are drawn evenly.
DrawTool ==
  /\ Drawing("TOOL")
  /\ \E t \in progress.pool :
       /\ OpeningDraw => OpeningWeights(progress.pool, draw.after.family)[t] > 0
       /\ Take(t)

\* The command is accepted and its offer put on the table.
Present ==
  /\ draw # NoDraw /\ progress.taken = draw.count
  /\ offer' = [kind |-> draw.kind, source |-> draw.source,
               reward |-> draw.reward, cards |-> progress.cards,
               size |-> progress.taken]
  /\ board' = draw.after.board /\ family' = draw.after.family
  /\ begun' = draw.after.begun /\ owned' = draw.after.owned
  /\ draw' = NoDraw /\ progress' = NoProgress
  /\ UNCHANGED rejected

-----------------------------------------------------------------------------
(***************************************************************************)
(* Commands                                                                *)
(***************************************************************************)

OnTable(kind) == draw = NoDraw /\ offer.kind = kind

\* New: one of the preparation cards; an empty board.
Init ==
  /\ board = EmptyBoard /\ family = NoFamily
  /\ begun = FALSE /\ owned = {}
  /\ \E u \in Unknowns :
       offer = [kind |-> "UNKNOWN", source |-> "preparation", reward |-> FALSE,
                cards |-> {u}, size |-> 1]
  /\ draw = NoDraw /\ progress = NoProgress
  /\ rejected = FALSE

\* skip_unknown, or choosing the preparation card.
Prepare ==
  /\ OnTable("UNKNOWN")
  /\ \E h \in offer.cards \cup {Skip} : \E b \in Prepared(h) :
       \E f \in InitialFamily(b) :
         MakeOffer("TOOL", "opening", FALSE,
                   TableOf(b, f, begun, owned))

\* refresh: the same question again.
Refresh ==
  /\ OnTable("POTION") \/ OnTable("TOOL")
  /\ MakeOffer(offer.kind, "refresh", offer.reward, Table)

\* The opening tool starts the base flow and leaves the board alone; a reward
\* tool ends a turn.
ChooseTool ==
  /\ OnTable("TOOL") /\ Cardinality(owned) < MaxOwned
  /\ \E t \in offer.cards :
       IF ~begun /\ ~offer.reward
       THEN MakeOffer("POTION", "base", FALSE,
                      TableOf(board, family, TRUE, owned \cup {t}))
       ELSE \E b \in Boards :
              NextOffer(TableOf(b, family, begun, owned \cup {t}))

\* A potion that is no box, or a scheme, ends a turn.
PlayCard ==
  /\ \/ OnTable("SCHEME")
     \/ /\ OnTable("POTION")
        /\ \E c \in offer.cards : BoxSize[c] = 0 /\ Playable(c, board)
  /\ \E b \in Boards : NextOffer(TableOf(b, family, begun, owned))

\* openPotionBox: a box is replaced by as many potions, none of them a box.
OpenBox ==
  /\ OnTable("POTION")
  /\ \E c \in offer.cards :
       /\ BoxSize[c] > 0 /\ Playable(c, board)
       /\ Draw("POTION", "box", FALSE, BoxSize[c], 0,
               {p \in Potions : Playable(p, board)}, Table)

Next ==
  \/ Prepare \/ Refresh \/ ChooseTool \/ PlayCard \/ OpenBox
  \/ DrawPotion \/ DrawTool \/ Present

Spec == Init /\ [][Next]_vars

-----------------------------------------------------------------------------
(***************************************************************************)
(* Properties                                                              *)
(***************************************************************************)

Kinds == {"UNKNOWN", "TOOL", "POTION", "SCHEME"}

Cards == Potions \cup Tools \cup Unknowns \cup Schemes
Sources == {"preparation", "opening", "base", "threshold", "refresh", "box"}

CandidatesOfKind ==
  /\ offer.kind = "UNKNOWN" => offer.cards \subseteq Unknowns
  /\ offer.kind = "TOOL" => offer.cards \subseteq Tools
  /\ offer.kind = "POTION" => offer.cards \subseteq Potions

Tables == [board : [Families -> Nat], family : Families \cup {NoFamily},
           begun : BOOLEAN, owned : SUBSET Tools]

TypeOK ==
  /\ Table \in Tables
  /\ offer \in [kind : Kinds, source : Sources, reward : BOOLEAN,
               cards : SUBSET Cards, size : 1..5]
  /\ CandidatesOfKind
  /\ draw = NoDraw \/
       draw \in [kind : {"POTION", "TOOL"}, source : Sources, reward : BOOLEAN,
                 count : {3, 5}, after : Tables]
  /\ progress \in [pool : SUBSET Cards, cards : SUBSET Cards, taken : 0..5,
                   boxes : 0..1]
  /\ rejected \in BOOLEAN

\* Whatever the board and however often a rarity is rolled again, a draw finds
\* its cards: no legal command ends in INVALID_CONTENT, which would leave the
\* player in front of a table he cannot change.
NeverRejected == ~rejected

\* Candidates of one offer differ, although a rarity may be exhausted by the
\* candidates before: what was drawn leaves the pool (docs/architecture.md, 70,
\* says that a card may come twice).
CandidatesDiffer == Cardinality(offer.cards) = offer.size

\* At most one box among drawn candidates and none in a box, also when the
\* draw falls back on the whole pool: what GameFlow's bound on commands needs.
BoxesLimited ==
  offer.kind = "POTION" =>
    Cardinality(Boxes(offer.cards)) <= IF offer.source = "box" THEN 0 ELSE 1

\* The candidates fit the board that the turn left, not the one it found:
\* each of them can be played, so no offer is a dead end.
CandidatesPlayable ==
  offer.kind = "POTION" => \A c \in offer.cards : Playable(c, board)

\* What a draw keeps up until its last card: enough staples, or tools, for the
\* cards that are still missing, and a box only where the limit leaves one.
PotionDrawSound ==
  draw.kind = "POTION" =>
    /\ progress.cards \cup progress.pool \subseteq
         {c \in Potions : Playable(c, draw.after.board)}
    /\ Cardinality(progress.pool \cap Staples) + progress.taken >= 5
    /\ Cardinality(Boxes(progress.cards)) + progress.boxes
         <= IF draw.source = "box" THEN 0 ELSE 1

ToolDrawSound ==
  draw.kind = "TOOL" =>
    /\ progress.cards \cup progress.pool \subseteq Tools
    /\ draw.count = 3

DrawSound ==
  draw # NoDraw =>
    /\ progress.taken <= draw.count
    /\ IsFiniteSet(progress.cards) /\ Cardinality(progress.cards) = progress.taken
    /\ progress.cards \cap progress.pool = {}
    /\ PotionDrawSound
    /\ ToolDrawSound

\* The invariant that every command and every draw preserves.
IInv ==
  /\ TypeOK
  /\ NeverRejected
  /\ CandidatesDiffer
  /\ BoxesLimited
  /\ CandidatesPlayable
  /\ DrawSound

\* Whatever has been drawn before, the leading family has 11 chances to the 9
\* of the others, shared evenly within each.
OpeningOdds ==
  Drawing("TOOL") /\ OpeningDraw =>
    LET weight == OpeningWeights(progress.pool, draw.after.family)
        leading == {t \in progress.pool : CoreFamily[t] = draw.after.family}
    IN \A t, u \in progress.pool :
         /\ (t \in leading <=> u \in leading) => weight[t] = weight[u]
         /\ t \in leading /\ u \notin leading =>
              9 * weight[t] * Cardinality(leading)
                = 11 * weight[u] * Cardinality(progress.pool \ leading)

-----------------------------------------------------------------------------
(***************************************************************************)
(* What the documents say                                                  *)
(***************************************************************************)

Monsters(b) == b["BONE"] + b["FIEND"] + b["AWAKENER"] + b["INSECT"]

\* rules.go, 39: the card of the bone crucible promises two bone guards and
\* two other monsters (skipping the card leaves three monsters instead).
BonesAsDescribed ==
  draw # NoDraw /\ offer.cards = {"initial_bones"}
    /\ Monsters(draw.after.board) = 4
  => draw.after.board["BONE"] = 2
=============================================================================
