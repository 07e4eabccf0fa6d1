----------------------------- MODULE OffersProofs -----------------------------
(***************************************************************************)
(* Proofs about Offers for every catalogue that meets CatalogueAssumption, *)
(* every board and every number of commands: a draw is never refused, and  *)
(* what it puts on the table is distinct, playable and within the limit of *)
(* boxes.  The argument counts the staples, cards that any board can use,  *)
(* which are left in the pool against the cards that are still missing.    *)
(***************************************************************************)
EXTENDS Offers, FiniteSetTheorems, TLAPS

-----------------------------------------------------------------------------
(* Lemmas about the catalogue and the boards.                              *)

\* The pool of a potion draw is finite and holds every staple, whatever the
\* board (potionTargetsValid).
LEMMA PoolHoldsStaples ==
  ASSUME NEW b \in [Families -> Nat]
  PROVE  LET pool == {c \in Potions : Playable(c, b)}
         IN /\ IsFiniteSet(pool)
            /\ Cardinality(pool) >= 5
            /\ Cardinality(pool \cap Staples) >= 5
            /\ Cardinality(pool \cap Staples) \in Nat
<1> DEFINE pool == {c \in Potions : Playable(c, b)}
<1>1. IsFiniteSet(pool)
  BY CatalogueAssumption, FS_Subset
<1>2. Staples \subseteq pool
  BY DEF Staples, Playable
<1>3. pool \cap Staples = Staples
  BY <1>2
<1>4. /\ Cardinality(Staples) <= Cardinality(pool)
      /\ IsFiniteSet(Staples)
  BY <1>1, <1>2, FS_Subset
<1>5. Cardinality(Staples) \in Nat /\ Cardinality(pool) \in Nat
  BY <1>1, <1>4, FS_CardinalityType
<1> QED BY <1>1, <1>3, <1>4, <1>5, CatalogueAssumption

\* The tools make an offer of three in the opening and later (Validate).
LEMMA ToolsSuffice ==
  /\ Cardinality(CoreTools) >= 3
  /\ Cardinality(Tools) >= 3
<1>1. CoreTools \subseteq Tools
  BY DEF CoreTools
<1>2. Cardinality(CoreTools) <= Cardinality(Tools) /\ IsFiniteSet(CoreTools)
  BY <1>1, CatalogueAssumption, FS_Subset
<1>3. Cardinality(CoreTools) \in Nat /\ Cardinality(Tools) \in Nat
  BY <1>2, CatalogueAssumption, FS_CardinalityType
<1> QED BY <1>2, <1>3, CatalogueAssumption

\* Counting drawn families makes a board.
LEMMA CountType ==
  ASSUME NEW n \in Nat, NEW d, DOMAIN d = 1..n
  PROVE  Count(d) \in [Families -> Nat]
<1>1. \A f \in Families : Cardinality({i \in DOMAIN d : d[i] = f}) \in Nat
  <2> TAKE f \in Families
  <2>1. IsFiniteSet(1..n)
    BY FS_Interval
  <2>2. IsFiniteSet({i \in DOMAIN d : d[i] = f})
    BY <2>1, FS_Subset
  <2> QED BY <2>2, FS_CardinalityType
<1> QED BY <1>1 DEF Count

\* The preparation leaves a board (initialize, initializeRares).
LEMMA PreparedType ==
  ASSUME NEW h \in Unknowns \cup {Skip}, NEW b \in Prepared(h)
  PROVE  b \in [Families -> Nat]
<1>1. CASE h = Skip
  <2>1. PICK d \in [1..3 -> FamilyDraws] : b = Count(d)
    BY <1>1 DEF Prepared
  <2> QED BY <2>1, CountType
<1>2. CASE h = "initial_six"
  <2>1. PICK d \in [1..6 -> FamilyDraws] : b = Count(d)
    BY <1>2 DEF Prepared, Skip
  <2> QED BY <2>1, CountType
<1>3. CASE h = "initial_insects"
  <2>1. b = Count([i \in 1..4 |-> "INSECT"])
    BY <1>3 DEF Prepared, Skip
  <2> QED BY <2>1, CountType
<1>4. CASE h = "initial_bones"
  <2>1. PICK f \in FamilyDraws : b = Count([i \in 1..4 |-> IF i = 3 THEN f ELSE "BONE"])
    BY <1>4 DEF Prepared, Skip
  <2> QED BY <2>1, CountType
<1>5. CASE h = "initial_rares"
  <2>1. b = [f \in Families |-> 1]
    BY <1>5 DEF Prepared, Skip
  <2> QED BY <2>1
<1> QED BY <1>1, <1>2, <1>3, <1>4, <1>5 DEF Unknowns

LEMMA InitialFamilyType ==
  ASSUME NEW b, NEW f \in InitialFamily(b)
  PROVE  f \in Families \cup {NoFamily}
BY DEF InitialFamily, Leaders, Families

-----------------------------------------------------------------------------
(* What a draw does to the invariant.                                      *)

\* Starting a draw with a pool that suffices.
LEMMA DrawStart ==
  ASSUME IInv,
         NEW kind \in {"POTION", "TOOL"}, NEW source \in Sources,
         NEW reward \in BOOLEAN, NEW count \in {3, 5}, NEW pool \in SUBSET Cards,
         NEW after \in Tables, NEW boxes \in 0..1,
         Draw(kind, source, reward, count, boxes, pool, after),
         kind = "POTION" =>
           /\ pool = {c \in Potions : Playable(c, after.board)}
           /\ boxes = IF source = "box" THEN 0 ELSE 1,
         kind = "TOOL" => pool \subseteq Tools /\ count = 3
  PROVE  IInv'
<1>1. TypeOK'
  <2>1. draw' \in [kind : {"POTION", "TOOL"}, source : Sources, reward : BOOLEAN,
                   count : {3, 5}, after : Tables]
    BY DEF Draw, DrawOf
  <2>2. progress' \in [pool : SUBSET Cards, cards : SUBSET Cards, taken : 0..5,
                       boxes : 0..1]
    <3>1. {} \in SUBSET Cards /\ 0 \in 0..5
      OBVIOUS
    <3>2. progress' = [pool |-> pool, cards |-> {}, taken |-> 0, boxes |-> boxes]
      BY DEF Draw, ProgressOf
    <3> QED BY <3>1, <3>2
  <2>3. Table' = Table /\ offer' = offer /\ rejected' = FALSE
    BY DEF Draw, Table, TableOf, checkpoint
  <2>4. CandidatesOfKind'
    BY <2>3 DEF CandidatesOfKind, IInv, TypeOK
  <2> QED BY <2>1, <2>2, <2>3, <2>4 DEF IInv, TypeOK
<1>2. NeverRejected' /\ CandidatesDiffer' /\ BoxesLimited' /\ CandidatesPlayable'
  BY DEF IInv, Draw, checkpoint, NeverRejected, CandidatesDiffer, BoxesLimited,
         CandidatesPlayable
<1>3. DrawSound'
  <2>1. /\ draw'.kind = kind /\ progress'.pool = pool /\ progress'.cards = {}
        /\ progress'.taken = 0 /\ draw'.count = count /\ draw'.source = source
        /\ progress'.boxes = boxes /\ draw'.after = after
    BY DEF Draw, DrawOf, ProgressOf
  <2>2. IsFiniteSet({}) /\ Cardinality({}) = 0
    BY FS_EmptySet
  <2>3. PotionDrawSound'
    <3> SUFFICES ASSUME kind = "POTION"
                 PROVE  /\ pool \subseteq {c \in Potions : Playable(c, after.board)}
                        /\ Cardinality(pool \cap Staples) + 0 >= 5
                        /\ Cardinality(Boxes({})) + boxes
                             <= IF source = "box" THEN 0 ELSE 1
      BY <2>1 DEF PotionDrawSound
    <3>1. after.board \in [Families -> Nat]
      BY DEF Tables
    <3>2. /\ Cardinality(pool \cap Staples) >= 5
          /\ Cardinality(pool \cap Staples) \in Nat
      BY <3>1, PoolHoldsStaples
    <3>3. Boxes({}) = {}
      BY DEF Boxes
    <3> QED BY <2>2, <3>2, <3>3
  <2>4. ToolDrawSound'
    BY <2>1 DEF ToolDrawSound
  <2> QED BY <2>1, <2>2, <2>3, <2>4 DEF DrawSound
<1> QED BY <1>1, <1>2, <1>3 DEF IInv

\* Starting an offer of three.
LEMMA OfferStart ==
  ASSUME IInv,
         NEW kind \in {"POTION", "TOOL"}, NEW source \in Sources \ {"box"},
         NEW reward \in BOOLEAN, NEW after \in Tables,
         MakeOffer(kind, source, reward, after)
  PROVE  IInv'
<1> DEFINE pool == IF kind = "POTION"
                   THEN {c \in Potions : Playable(c, after.board)}
                   ELSE IF reward \/ after.begun THEN Tools ELSE CoreTools
<1>1. Cardinality(pool) >= 3
  <2>1. CASE kind = "POTION"
    <3>1. after.board \in [Families -> Nat]
      BY DEF Tables
    <3>2. IsFiniteSet(pool) /\ Cardinality(pool) >= 5
      BY <2>1, <3>1, PoolHoldsStaples
    <3>3. Cardinality(pool) \in Nat
      BY <3>2, FS_CardinalityType
    <3> QED BY <3>2, <3>3
  <2>2. CASE kind = "TOOL"
    BY <2>2, ToolsSuffice
  <2> QED BY <2>1, <2>2
<1>2. ~(Cardinality(pool) < 3)
  <2>1. IsFiniteSet(pool)
    BY CatalogueAssumption, FS_Subset DEF CoreTools
  <2>2. Cardinality(pool) \in Nat
    BY <2>1, FS_CardinalityType
  <2> QED BY <1>1, <2>2
<1>3. Draw(kind, source, reward, 3, IF kind = "POTION" THEN 1 ELSE 0, pool, after)
  BY <1>2 DEF MakeOffer
<1>4. pool \in SUBSET Cards /\ (kind = "TOOL" => pool \subseteq Tools)
  BY DEF Cards, CoreTools
<1>5. (IF kind = "POTION" THEN 1 ELSE 0) \in 0..1
  OBVIOUS
<1> HIDE DEF pool
<1>6. kind = "POTION" => pool = {c \in Potions : Playable(c, after.board)}
  BY DEF pool
<1> QED BY <1>3, <1>4, <1>5, <1>6, DrawStart

\* Drawing one card that the limits allow.
LEMMA TakeEffect ==
  ASSUME IInv, draw # NoDraw, progress.taken < draw.count,
         NEW c \in progress.pool,
         draw.kind = "POTION" => BoxSize[c] = 0 \/ progress.boxes > 0,
         Take(c)
  PROVE  IInv'
<1> USE DEF IInv
<1>1. /\ draw.kind \in {"POTION", "TOOL"} /\ draw.source \in Sources
      /\ draw.count \in {3, 5} /\ draw.after \in Tables
      /\ progress.boxes \in 0..1 /\ progress.pool \subseteq Cards
      /\ progress.cards \subseteq Cards /\ progress.taken \in 0..5
  BY DEF TypeOK
<1>2. /\ draw' = draw
      /\ progress'.cards = progress.cards \cup {c}
      /\ progress'.taken = progress.taken + 1
      /\ progress'.pool = progress.pool \ {c}
      /\ progress'.boxes = IF c \in Potions /\ BoxSize[c] > 0
                           THEN progress.boxes - 1 ELSE progress.boxes
      /\ progress' = ProgressOf(progress'.pool, progress'.cards,
                                progress'.taken, progress'.boxes)
  BY DEF Take, ProgressOf
<1>3. progress'.boxes \in 0..1
  <2>1. CASE draw.kind = "POTION"
    <3>1. c \in Potions
      BY <2>1 DEF DrawSound, PotionDrawSound
    <3>2. BoxSize[c] \in {0, 3, 5}
      BY <3>1, CatalogueAssumption
    <3> QED BY <1>1, <1>2, <2>1, <3>2
  <2>2. CASE draw.kind = "TOOL"
    <3>1. c \notin Potions
      BY <2>2, CatalogueAssumption DEF DrawSound, ToolDrawSound
    <3> QED BY <1>1, <1>2, <3>1
  <2> QED BY <1>1, <2>1, <2>2
<1>4. progress'.taken \in 0..5 /\ progress'.taken <= draw.count
  BY <1>1, <1>2
<1>5. TypeOK'
  <2>1. progress' \in [pool : SUBSET Cards, cards : SUBSET Cards, taken : 0..5,
                       boxes : 0..1]
    BY <1>1, <1>2, <1>3, <1>4 DEF ProgressOf
  <2> QED BY <1>2, <2>1 DEF TypeOK, Take, Table, TableOf, CandidatesOfKind, checkpoint
<1>6. NeverRejected' /\ CandidatesDiffer' /\ BoxesLimited' /\ CandidatesPlayable'
  BY DEF Take, checkpoint, NeverRejected, CandidatesDiffer, BoxesLimited, CandidatesPlayable
<1>7. /\ IsFiniteSet(progress'.cards) /\ Cardinality(progress'.cards) = progress'.taken
      /\ progress'.cards \cap progress'.pool = {}
  <2>1. c \notin progress.cards
    BY DEF DrawSound
  <2>2. IsFiniteSet(progress.cards) /\ Cardinality(progress.cards) = progress.taken
    BY DEF DrawSound
  <2>3. /\ IsFiniteSet(progress.cards \cup {c})
        /\ Cardinality(progress.cards \cup {c}) = progress.taken + 1
    BY <2>1, <2>2, FS_AddElement
  <2>4. progress.cards \cap progress.pool = {}
    BY DEF DrawSound
  <2> QED BY <1>2, <2>3, <2>4
<1>8. PotionDrawSound'
  <2> SUFFICES ASSUME draw.kind = "POTION"
               PROVE  /\ (progress.cards \cup {c}) \cup (progress.pool \ {c}) \subseteq
                           {p \in Potions : Playable(p, draw.after.board)}
                      /\ Cardinality((progress.pool \ {c}) \cap Staples)
                           + (progress.taken + 1) >= 5
                      /\ Cardinality(Boxes(progress.cards \cup {c})) + progress'.boxes
                           <= IF draw.source = "box" THEN 0 ELSE 1
    BY <1>2 DEF PotionDrawSound
  <2>1. /\ progress.cards \cup progress.pool \subseteq
             {p \in Potions : Playable(p, draw.after.board)}
        /\ Cardinality(progress.pool \cap Staples) + progress.taken >= 5
        /\ Cardinality(Boxes(progress.cards)) + progress.boxes
             <= IF draw.source = "box" THEN 0 ELSE 1
    BY DEF DrawSound, PotionDrawSound
  <2>2. c \in Potions /\ BoxSize[c] \in {0, 3, 5}
    BY <2>1, CatalogueAssumption
  <2>3. Cardinality((progress.pool \ {c}) \cap Staples) + (progress.taken + 1) >= 5
    <3> DEFINE left == progress.pool \cap Staples
    <3>1. IsFiniteSet(left)
      BY <2>1, CatalogueAssumption, FS_Subset
    <3>2. Cardinality(left) \in Nat
      BY <3>1, FS_CardinalityType
    <3>3. CASE c \in Staples
      <4>1. Cardinality(left \ {c}) = Cardinality(left) - 1
        BY <3>1, <3>3, FS_RemoveElement
      <4>2. (progress.pool \ {c}) \cap Staples = left \ {c}
        OBVIOUS
      <4>3. Cardinality((progress.pool \ {c}) \cap Staples) = Cardinality(left) - 1
        BY <4>1, <4>2
      <4>4. Cardinality(left) + progress.taken >= 5
        BY <2>1
      <4> HIDE DEF left
      <4> QED BY <1>1, <3>2, <4>3, <4>4
    <3>4. CASE c \notin Staples
      <4>1. (progress.pool \ {c}) \cap Staples = left
        BY <3>4
      <4> QED BY <1>1, <2>1, <3>2, <4>1, SMTT(60)
    <3> QED BY <3>3, <3>4
  <2>4. Cardinality(Boxes(progress.cards \cup {c})) + progress'.boxes
          <= IF draw.source = "box" THEN 0 ELSE 1
    <3>1. IsFiniteSet(Boxes(progress.cards))
      <4>1. IsFiniteSet(progress.cards) /\ Boxes(progress.cards) \subseteq progress.cards
        BY DEF DrawSound, Boxes
      <4> QED BY <4>1, FS_Subset
    <3>2. Cardinality(Boxes(progress.cards)) \in Nat
      BY <3>1, FS_CardinalityType
    <3>3. CASE BoxSize[c] > 0
      <4>1. Boxes(progress.cards \cup {c}) = Boxes(progress.cards) \cup {c}
        BY <2>2, <3>3 DEF Boxes
      <4>2. c \notin Boxes(progress.cards)
        BY DEF DrawSound, Boxes
      <4>3. Cardinality(Boxes(progress.cards) \cup {c}) = Cardinality(Boxes(progress.cards)) + 1
        BY <3>1, <4>2, FS_AddElement
      <4>4. progress'.boxes = progress.boxes - 1
        BY <1>2, <2>2, <3>3
      <4> DEFINE limit == IF draw.source = "box" THEN 0 ELSE 1
                 held == Cardinality(Boxes(progress.cards))
      <4>5. limit \in Nat /\ held \in Nat /\ held + progress.boxes <= limit
        BY <2>1, <3>2
      <4>6. Cardinality(Boxes(progress.cards \cup {c})) = held + 1
        BY <4>1, <4>3
      <4>8. progress.boxes \in Int
        BY <1>1
      <4> HIDE DEF limit, held
      <4>7. Cardinality(Boxes(progress.cards \cup {c})) + progress'.boxes <= limit
        BY <4>4, <4>5, <4>6, <4>8
      <4> QED BY <4>7 DEF limit
    <3>4. CASE ~(BoxSize[c] > 0)
      <4>1. Boxes(progress.cards \cup {c}) = Boxes(progress.cards)
        BY <3>4 DEF Boxes
      <4>2. progress'.boxes = progress.boxes
        BY <1>2, <3>4
      <4> QED BY <2>1, <4>1, <4>2
    <3> QED BY <3>3, <3>4
  <2> QED BY <2>1, <2>2, <2>3, <2>4
<1>9. ToolDrawSound'
  BY <1>2 DEF DrawSound, ToolDrawSound
<1>10. DrawSound'
  BY <1>2, <1>4, <1>7, <1>8, <1>9 DEF DrawSound
<1> QED BY <1>5, <1>6, <1>10

\* A roll always finds a card: a staple is left for each card still missing
\* (drawCardsOf).
LEMMA RollFinds ==
  ASSUME IInv, Drawing("POTION"), NEW r \in Rarities
  PROVE  PotionGroup(r) # {}
<1>1. draw # NoDraw /\ progress.taken \in 0..5 /\ draw.count \in {3, 5}
  BY DEF IInv, TypeOK, Drawing, NoDraw, DrawOf
<1>2. /\ Cardinality(progress.pool \cap Staples) + progress.taken >= 5
      /\ progress.pool \subseteq Potions
  BY <1>1 DEF IInv, DrawSound, PotionDrawSound, Drawing
<1>3. progress.pool \cap Staples # {}
  <2>1. SUFFICES ASSUME progress.pool \cap Staples = {} PROVE FALSE
    OBVIOUS
  <2>2. Cardinality(progress.pool \cap Staples) = 0
    BY <2>1, FS_EmptySet
  <2> QED BY <1>1, <1>2, <2>2 DEF Drawing
<1>4. PICK c \in progress.pool : BoxSize[c] = 0
  BY <1>3 DEF Staples
<1> QED BY <1>4 DEF PotionGroup

-----------------------------------------------------------------------------
(* The invariant.                                                          *)

\* The parts of a table make a table.
LEMMA TableOfType ==
  ASSUME NEW b \in [Families -> Nat], NEW f \in Families \cup {NoFamily},
         NEW started \in BOOLEAN, NEW tools \in SUBSET Tools
  PROVE  TableOf(b, f, started, tools) \in Tables
BY DEF TableOf, Tables

\* The table of every state that meets the invariant is one.
LEMMA TableType ==
  ASSUME IInv
  PROVE  /\ Table \in Tables
         /\ board \in [Families -> Nat] /\ begun \in BOOLEAN
         /\ owned \in SUBSET Tools /\ family \in Families \cup {NoFamily}
BY DEF IInv, TypeOK, Table, TableOf, Tables

\* The offer of the preparation is sound.
LEMMA InitInvariant == Init => IInv
<1> SUFFICES ASSUME Init PROVE IInv
  OBVIOUS
<1>1. PICK u \in Unknowns :
        offer = [kind |-> "UNKNOWN", source |-> "preparation", reward |-> FALSE,
                 cards |-> {u}, size |-> 1]
  BY DEF Init
<1>2. TypeOK
  <2>1. Table \in Tables
    BY DEF Init, Table, Tables, TableOf, EmptyBoard
  <2>2. offer \in [kind : Kinds, source : Sources, reward : BOOLEAN,
                  cards : SUBSET Cards, size : 1..5]
    BY <1>1 DEF Kinds, Sources, Cards
  <2>3. CandidatesOfKind
    BY <1>1 DEF CandidatesOfKind
  <2>4. progress \in [pool : SUBSET Cards, cards : SUBSET Cards, taken : 0..5,
                      boxes : 0..1]
    <3>1. progress = [pool |-> {}, cards |-> {}, taken |-> 0, boxes |-> 0]
      BY DEF Init, NoProgress, ProgressOf
    <3>2. {} \in SUBSET Cards /\ 0 \in 0..5 /\ 0 \in 0..1
      OBVIOUS
    <3> QED BY <3>1, <3>2
  <2> QED BY <2>1, <2>2, <2>3, <2>4 DEF Init, TypeOK
<1>3. CandidatesDiffer
  <2>1. Cardinality({u}) = 1
    BY FS_Singleton
  <2> QED BY <1>1, <2>1 DEF CandidatesDiffer
<1>4. NeverRejected /\ BoxesLimited /\ CandidatesPlayable /\ DrawSound
  BY <1>1 DEF Init, NeverRejected, BoxesLimited, CandidatesPlayable, DrawSound
<1> QED BY <1>2, <1>3, <1>4 DEF IInv

\* The offer after a turn is sound.
LEMMA NextOfferEffect ==
  ASSUME IInv, NEW after \in Tables, NextOffer(after)
  PROVE  IInv'
<1>1. CASE MakeOffer("POTION", "base", FALSE, after)
  BY <1>1, OfferStart DEF Sources
<1>2. CASE MakeOffer("TOOL", "threshold", TRUE, after)
  BY <1>2, OfferStart DEF Sources
<1>3. CASE /\ offer' = [kind |-> "SCHEME", source |-> "base", reward |-> FALSE,
                        cards |-> Schemes, size |-> 3]
           /\ board' = after.board /\ family' = after.family
           /\ begun' = after.begun /\ owned' = after.owned
           /\ rejected' = FALSE /\ UNCHANGED <<draw, progress>>
  <2>1. Table' = after
    BY <1>3 DEF Table, TableOf, Tables
  <2>2. TypeOK'
    <3>1. offer' \in [kind : Kinds, source : Sources, reward : BOOLEAN,
                     cards : SUBSET Cards, size : 1..5]
      BY <1>3 DEF Kinds, Sources, Cards
    <3>2. CandidatesOfKind'
      BY <1>3 DEF CandidatesOfKind
    <3>3. rejected' \in BOOLEAN
      BY <1>3
    <3>4. draw' = draw /\ progress' = progress
      BY <1>3
    <3>5. Table' \in Tables
      BY <2>1
    <3> HIDE <1>3
    <3> QED BY <3>1, <3>2, <3>3, <3>4, <3>5 DEF TypeOK, IInv
  <2>3. CandidatesDiffer'
    BY <1>3, CatalogueAssumption DEF CandidatesDiffer
  <2>4. DrawSound'
    BY <1>3 DEF IInv, DrawSound, PotionDrawSound, ToolDrawSound
  <2>5. NeverRejected' /\ BoxesLimited' /\ CandidatesPlayable'
    BY <1>3 DEF NeverRejected, BoxesLimited, CandidatesPlayable
  <2> QED BY <2>2, <2>3, <2>4, <2>5 DEF IInv
<1> QED BY <1>1, <1>2, <1>3 DEF NextOffer

\* Every command and every draw preserves the invariant.
LEMMA NextInvariant == IInv /\ [Next]_vars => IInv'
<1> SUFFICES ASSUME IInv, [Next]_vars PROVE IInv'
  OBVIOUS
<1>1. CASE Prepare
  <2>1. PICK h \in offer.cards \cup {Skip} : \E b \in Prepared(h) :
               \E f \in InitialFamily(b) :
                 MakeOffer("TOOL", "opening", FALSE,
                           TableOf(b, f, begun, owned))
    BY <1>1 DEF Prepare
  <2>6. PICK b \in Prepared(h) : \E f \in InitialFamily(b) :
          MakeOffer("TOOL", "opening", FALSE,
                    TableOf(b, f, begun, owned))
    BY <2>1
  <2>2. PICK f \in InitialFamily(b) :
          MakeOffer("TOOL", "opening", FALSE,
                    TableOf(b, f, begun, owned))
    BY <2>6
  <2>3. h \in Unknowns \cup {Skip}
    BY <1>1 DEF IInv, TypeOK, Prepare, OnTable, CandidatesOfKind
  <2>4. b \in [Families -> Nat] /\ f \in Families \cup {NoFamily}
    BY <2>3, PreparedType, InitialFamilyType
  <2>5. TableOf(b, f, begun, owned) \in Tables
    BY <2>4, TableType DEF Tables, TableOf
  <2> QED BY <2>2, <2>5, OfferStart DEF Sources
<1>2. CASE Refresh
  <2>1. offer.kind \in {"POTION", "TOOL"} /\ offer.reward \in BOOLEAN
    BY <1>2 DEF Refresh, OnTable, IInv, TypeOK
  <2>2. MakeOffer(offer.kind, "refresh", offer.reward, Table)
    BY <1>2 DEF Refresh
  <2> QED BY <2>1, <2>2, TableType, OfferStart DEF Sources
<1>3. CASE ChooseTool
  <2>1. PICK t \in offer.cards :
          \/ MakeOffer("POTION", "base", FALSE,
                       TableOf(board, family, TRUE, owned \cup {t}))
          \/ \E b \in Boards :
               NextOffer(TableOf(b, family, begun, owned \cup {t}))
    BY <1>3 DEF ChooseTool
  <2>2. t \in Tools
    BY <1>3 DEF ChooseTool, OnTable, IInv, TypeOK, CandidatesOfKind
  <2>3. TableOf(board, family, TRUE, owned \cup {t}) \in Tables
    BY <2>2, TableType, TableOfType
  <2>4. \A b \in Boards :
          TableOf(b, family, begun, owned \cup {t}) \in Tables
    BY <2>2, TableType, TableOfType, CatalogueAssumption
  <2>5. CASE MakeOffer("POTION", "base", FALSE,
                       TableOf(board, family, TRUE, owned \cup {t}))
    BY <2>3, <2>5, OfferStart DEF Sources
  <2>6. CASE \E b \in Boards :
               NextOffer(TableOf(b, family, begun, owned \cup {t}))
    BY <2>4, <2>6, NextOfferEffect
  <2> QED BY <2>1, <2>5, <2>6
<1>4. CASE PlayCard
  <2>1. PICK b \in Boards : NextOffer(TableOf(b, family, begun, owned))
    BY <1>4 DEF PlayCard
  <2>2. TableOf(b, family, begun, owned) \in Tables
    BY TableType, TableOfType, CatalogueAssumption
  <2> QED BY <2>1, <2>2, NextOfferEffect
<1>5. CASE OpenBox
  <2>1. PICK c \in offer.cards :
          /\ BoxSize[c] > 0
          /\ Draw("POTION", "box", FALSE, BoxSize[c], 0,
                  {p \in Potions : Playable(p, board)}, Table)
    BY <1>5 DEF OpenBox
  <2>2. c \in Potions
    BY <1>5 DEF OpenBox, OnTable, IInv, TypeOK, CandidatesOfKind
  <2>3. BoxSize[c] \in {3, 5}
    BY <2>1, <2>2, CatalogueAssumption
  <2>4. {p \in Potions : Playable(p, board)} \in SUBSET Cards
    BY DEF Cards
  <2>5. {p \in Potions : Playable(p, board)}
          = {p \in Potions : Playable(p, Table.board)}
    BY DEF Table, TableOf
  <2>6. Draw("POTION", "box", FALSE, BoxSize[c], 0,
             {p \in Potions : Playable(p, board)}, Table)
    BY <2>1
  <2>7. "box" \in Sources /\ 0 \in 0..1 /\ Table \in Tables
    BY TableType DEF Sources
  <2> QED BY <2>3, <2>4, <2>5, <2>6, <2>7, DrawStart
<1>6. CASE DrawPotion
  <2>1. PICK r \in Rarities : IF PotionGroup(r) = {} THEN Reject
                              ELSE \E c \in PotionGroup(r) : Take(c)
    BY <1>6 DEF DrawPotion
  <2>2. PotionGroup(r) # {}
    BY <1>6, RollFinds DEF DrawPotion
  <2>3. PICK c \in PotionGroup(r) : Take(c)
    BY <2>1, <2>2
  <2>4. c \in progress.pool /\ (BoxSize[c] = 0 \/ progress.boxes > 0)
    BY DEF PotionGroup
  <2>5. draw # NoDraw /\ progress.taken < draw.count
    BY <1>6 DEF DrawPotion, Drawing, NoDraw, DrawOf
  <2> QED BY <2>3, <2>4, <2>5, TakeEffect
<1>7. CASE DrawTool
  <2>1. PICK t \in progress.pool : Take(t)
    BY <1>7 DEF DrawTool
  <2>2. draw # NoDraw /\ progress.taken < draw.count /\ draw.kind = "TOOL"
    BY <1>7 DEF DrawTool, Drawing, NoDraw, DrawOf
  <2> QED BY <2>1, <2>2, TakeEffect
<1>8. CASE Present
  <2> USE <1>8 DEF IInv
  <2>1. draw # NoDraw /\ progress.taken = draw.count
    BY DEF Present
  <2>2. /\ draw.kind \in {"POTION", "TOOL"} /\ draw.source \in Sources
        /\ draw.reward \in BOOLEAN /\ draw.count \in {3, 5}
        /\ progress.cards \subseteq Cards /\ draw.after \in Tables
    BY <2>1 DEF TypeOK
  <2>3. /\ offer' = [kind |-> draw.kind, source |-> draw.source,
                     reward |-> draw.reward, cards |-> progress.cards,
                     size |-> progress.taken]
        /\ board' = draw.after.board /\ draw' = NoDraw /\ progress' = NoProgress /\ rejected' = rejected
    BY DEF Present
  <2>4. Table' = draw.after
    BY <2>2 DEF Present, Table, TableOf, Tables
  <2>9. CandidatesOfKind'
    BY <2>1, <2>2, <2>3 DEF CandidatesOfKind, DrawSound, PotionDrawSound,
       ToolDrawSound
  <2>5. TypeOK'
    BY <2>1, <2>2, <2>3, <2>4, <2>9 DEF TypeOK, Kinds,
       NoProgress, ProgressOf
  <2>6. CandidatesDiffer'
    BY <2>1, <2>3 DEF DrawSound, CandidatesDiffer
  <2>7. BoxesLimited'
    <3> SUFFICES ASSUME draw.kind = "POTION"
                 PROVE  Cardinality(Boxes(progress.cards))
                          <= IF draw.source = "box" THEN 0 ELSE 1
      BY <2>3 DEF BoxesLimited
    <3>1. IsFiniteSet(Boxes(progress.cards))
      <4>1. IsFiniteSet(progress.cards) /\ Boxes(progress.cards) \subseteq progress.cards
        BY <2>1 DEF DrawSound, Boxes
      <4> QED BY <4>1, FS_Subset
    <3>2. Cardinality(Boxes(progress.cards)) \in Nat
      BY <3>1, FS_CardinalityType
    <3>3. /\ progress.boxes \in 0..1
          /\ Cardinality(Boxes(progress.cards)) + progress.boxes
               <= IF draw.source = "box" THEN 0 ELSE 1
      BY <2>1 DEF TypeOK, DrawSound, PotionDrawSound
    <3> DEFINE limit == IF draw.source = "box" THEN 0 ELSE 1
               held == Cardinality(Boxes(progress.cards))
    <3>4. limit \in Nat /\ held \in Nat /\ held + progress.boxes <= limit
      BY <3>2, <3>3
    <3> HIDE DEF limit, held
    <3>5. held <= limit
      BY <3>3, <3>4
    <3> QED BY <3>5 DEF held, limit
  <2>8. CandidatesPlayable'
    BY <2>1, <2>3 DEF CandidatesPlayable, DrawSound, PotionDrawSound, Playable
  <2> QED BY <2>3, <2>5, <2>6, <2>7, <2>8 DEF NeverRejected, DrawSound
<1>9. CASE UNCHANGED vars
  BY <1>9 DEF vars, IInv, TypeOK, NeverRejected, CandidatesDiffer, BoxesLimited,
     CandidatesPlayable, DrawSound, PotionDrawSound, ToolDrawSound, Table, TableOf,
     CandidatesOfKind
<1> QED BY <1>1, <1>2, <1>3, <1>4, <1>5, <1>6, <1>7, <1>8, <1>9 DEF Next

\* Every offer, and every draw on its way, meets the invariant.
THEOREM Invariance == Spec => []IInv
<1>1. Init => IInv
  BY InitInvariant
<1>2. IInv /\ [Next]_vars => IInv'
  BY NextInvariant
<1> QED BY <1>1, <1>2, PTL DEF Spec

\* Drawing never fails, for any catalogue with five staples.
THEOREM DrawsSucceed == Spec => []NeverRejected
<1>1. IInv => NeverRejected
  BY DEF IInv
<1> QED BY <1>1, Invariance, PTL

\* Candidates of one offer differ.
THEOREM NoDuplicates == Spec => []CandidatesDiffer
<1>1. IInv => CandidatesDiffer
  BY DEF IInv
<1> QED BY <1>1, Invariance, PTL

\* At most one box is drawn, and none from a box.
THEOREM BoxLimit == Spec => []BoxesLimited
<1>1. IInv => BoxesLimited
  BY DEF IInv
<1> QED BY <1>1, Invariance, PTL

\* Every candidate can be played on the board it is shown with.
THEOREM NoDeadEnds == Spec => []CandidatesPlayable
<1>1. IInv => CandidatesPlayable
  BY DEF IInv
<1> QED BY <1>1, Invariance, PTL

\* The types of the offers, the draws and the tables.
THEOREM OffersTypeCorrect == Spec => []TypeOK
<1>1. IInv => TypeOK
  BY DEF IInv
<1> QED BY <1>1, Invariance, PTL

-----------------------------------------------------------------------------
(* The odds of the opening tools.                                          *)

\* Sharing out 11 and 9 parts crosswise gives the leading family 11 to 9.
LEMMA SharesAgree ==
  ASSUME NEW m \in Nat, NEW n \in Nat
  PROVE  9 * (11 * n) * m = 11 * (9 * m) * n
OBVIOUS

\* openingToolWeights, at every draw of the opening offer and for any tools
\* left in the pool: the leading family has 11 chances to the 9 of the others.
THEOREM LeadersAreFavoured == Spec => []OpeningOdds
<1>1. IInv => OpeningOdds
  <2> DEFINE pool == progress.pool
             leading == {t \in pool : CoreFamily[t] = draw.after.family}
             others == pool \ leading
             weight == OpeningWeights(pool, draw.after.family)
  <2>1. SUFFICES ASSUME IInv, Drawing("TOOL"), OpeningDraw,
                        NEW t \in pool, NEW u \in pool
                 PROVE  /\ (t \in leading <=> u \in leading) => weight[t] = weight[u]
                        /\ t \in leading /\ u \notin leading =>
                             9 * weight[t] * Cardinality(leading)
                               = 11 * weight[u] * Cardinality(others)
    BY DEF OpeningOdds
  <2>2. Cardinality(leading) \in Nat /\ Cardinality(others) \in Nat
    <3>1. draw # NoDraw /\ draw.kind = "TOOL"
      BY <2>1 DEF Drawing, NoDraw, DrawOf
    <3>2. pool \subseteq Tools
      BY <2>1, <3>1 DEF IInv, DrawSound, ToolDrawSound
    <3>3. leading \subseteq Tools /\ others \subseteq Tools /\ IsFiniteSet(Tools)
      BY <3>2, CatalogueAssumption
    <3>4. IsFiniteSet(leading) /\ IsFiniteSet(others)
      BY <3>3, FS_Subset
    <3> QED BY <3>4, FS_CardinalityType
  <2>3. \A v \in pool :
          weight[v] = IF leading = {} \/ others = {} THEN 1
                      ELSE IF v \in leading THEN 11 * Cardinality(others)
                      ELSE 9 * Cardinality(leading)
    BY DEF OpeningWeights
  <2> HIDE DEF weight
  <2>4. ASSUME t \in leading <=> u \in leading
        PROVE  weight[t] = weight[u]
    <3> HIDE DEF leading, others, pool
    <3> QED BY <2>1, <2>3, <2>4
  <2>5. ASSUME t \in leading, u \notin leading
        PROVE  9 * weight[t] * Cardinality(leading)
                 = 11 * weight[u] * Cardinality(others)
    <3>1. u \in others
      BY <2>5
    <3> HIDE DEF leading, others
    <3>2. weight[t] = 11 * Cardinality(others) /\ weight[u] = 9 * Cardinality(leading)
      BY <2>3, <2>5, <3>1
    <3> QED BY <2>2, <3>2, SharesAgree
  <2> QED BY <2>4, <2>5
<1> QED BY <1>1, Invariance, PTL
=============================================================================
