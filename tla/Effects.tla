-------------------------------- MODULE Effects -------------------------------
(***************************************************************************)
(* How one card resolves: the effects of a card, the events they emit, the *)
(* tools those events trigger and the end of the turn, as engine.Apply     *)
(* runs them on a copy of the checkpoint (src/internal/engine: effects.go, *)
(* tools.go, potions.go, engine.go).                                       *)
(*                                                                         *)
(* The engine's nested calls are an agenda of tasks.  The head is executed *)
(* and replaced by the tasks it calls, so that whatever an effect triggers *)
(* is finished before the next effect starts; a task that picks monsters   *)
(* picks them when it is executed.  Random draws are any outcome.  Names   *)
(* of monsters within a family and rarity are left out.                    *)
(***************************************************************************)
EXTENDS Integers, Sequences, FiniteSets, SequencesExt

CONSTANTS
  SlotCount,    \* culture slots (6 in the code)
  Cards,        \* potions and schemes a player may play
  Handlers,     \* tools a player may gain
  MaxTools,     \* tools held at the end of a game (3 in the code)
  Checkpoints,  \* the checkpoints that commands start from
  MaxInt,       \* largest representable number (2^63 - 1 in the code)
  StepLimit,    \* effect steps of one command (512 in the code)
  FamilyDraws,  \* bound: the families that draws explore
  RarityDraws,  \* bound: the rarities that draws explore
  MaxCommands   \* bound: commands of one behaviour

ASSUME EffectsAssumption ==
  /\ SlotCount \in Nat \ {0} /\ MaxTools \in Nat
  /\ FamilyDraws \subseteq {"BONE", "FIEND", "AWAKENER", "INSECT"}
  /\ RarityDraws \subseteq 1..4
  /\ MaxInt \in Nat /\ StepLimit \in Nat /\ MaxCommands \in Nat

VARIABLES
  slots,      \* working copy: the culture slots
  tools,      \* working copy: tools in the order they were gained
  turns,      \* working copy: completed turns
  nextId,     \* working copy: id of the next monster
  saved,      \* the checkpoint of the caller
  agenda,     \* tasks still to execute; empty between commands
  removed,    \* c.removedMonster
  steps,      \* c.steps
  outcome,    \* how the last command ended: "done", "limit", "overflow"
  commands

vars == <<slots, tools, turns, nextId, saved, agenda, removed, steps, outcome,
          commands>>

\* The cards and tools of the catalogue; schemes only end the turn.
Schemes == {"scheme_0", "scheme_1", "scheme_2"}
AllCards == Schemes \cup {
  "bone_ointment", "alien_hormone", "targeted_alien_hormone", "will_powder",
  "awakening", "cleansing_ointment", "mixed_leech", "sticky_bile", "mutation",
  "awaker_anesthetic", "digestive", "fusion", "petrified_marrow",
  "gray_marrow", "hollow_marrow", "strong_will_powder", "pia_mater",
  "awaker_fluid", "mutagen_powder", "holy_water", "peat_dressing",
  "waking_salts", "fresh_marrow_powder", "fiend_anesthetic", "insect_powder",
  "bone_powder", "brood_hormone", "proliferation_powder", "eggshell_powder",
  "pure_leech", "insect_boost", "lure", "brain_fog", "bone_growth_powder",
  "fiend_fluid", "bone_twin_hormone", "insect_twin_hormone"}
AllTools == {
  "claw", "cortex", "goat_suture", "marrow", "saw", "scraper", "eye",
  "metatarsal", "sinew", "tanned_restraint", "pituitary", "fang",
  "frontal_lobe", "rawhide_restraint", "growth", "nettle", "liver", "pupa",
  "statue", "cluster_eggs", "nail", "mouth", "hatching_egg",
  "brooding_butterfly"}

Families == {"BONE", "FIEND", "AWAKENER", "INSECT"}
Wild == "WILD"     \* a family to be drawn
Drawn == 0          \* a rarity to be drawn
Normal == 1
Magic == 2
Rare == 3
Boss == 4
Rarities == Normal..Boss

\* A family or a rarity that a card names, or any that may be drawn.
FamilyOf(f) == IF f = Wild THEN FamilyDraws ELSE {f}
RarityOf(r) == IF r = Drawn THEN RarityDraws ELSE {r}

Monster(id, f, r, a, q) ==
  [id |-> id, family |-> f, rarity |-> r, activity |-> a, quantity |-> q]
Empty == Monster(0, Wild, Drawn, 0, 0)

\* base: what a rarity brings.
BaseActivity == <<1, 5, 15, 300>>
BaseQuantity == <<36, 24, 12, 1>>

Occupied(board) == {i \in 1..SlotCount : board[i] # Empty}

\* What every accepted command leaves, from the preparation on: tools of the
\* catalogue, some monsters, and ids that are different and used up.
Sound(board, held, next) ==
  /\ DOMAIN board = 1..SlotCount /\ next \in Nat \ {0}
  /\ \A i \in 1..SlotCount :
       board[i] = Monster(board[i].id, board[i].family, board[i].rarity,
                          board[i].activity, board[i].quantity)
  /\ \A i \in Occupied(board) : board[i].id \in 1..(next - 1)
  /\ \A i, j \in Occupied(board) : board[i].id = board[j].id => i = j
  /\ held \in Seq(AllTools)

IsCheckpoint(c) ==
  /\ c = [slots |-> c.slots, tools |-> c.tools, turns |-> c.turns,
          nextId |-> c.nextId]
  /\ Sound(c.slots, c.tools, c.nextId) /\ Occupied(c.slots) # {}

ASSUME CatalogueAssumption ==
  /\ Cards \subseteq AllCards /\ Handlers \subseteq AllTools
  /\ \A c \in Checkpoints : IsCheckpoint(c)

\* The numbers of the rules: 512 steps are enough for six slots and three
\* tools, and the checkpoints hold monsters of a rarity with their values.
ASSUME RulesAssumption ==
  /\ SlotCount <= 6 /\ MaxTools <= 3 /\ StepLimit >= 512
  /\ \A c \in Checkpoints :
       /\ Len(c.tools) <= MaxTools
       /\ \A i \in 1..SlotCount : c.slots[i].activity \in Nat
                                /\ c.slots[i].quantity \in Nat
       /\ \A i \in Occupied(c.slots) : c.slots[i].rarity \in Rarities

-----------------------------------------------------------------------------
(***************************************************************************)
(* Reading the board                                                       *)
(***************************************************************************)

Board == Occupied(slots)
Ids == {slots[i].id : i \in Board}
At(id) == CHOOSE i \in Board : slots[i].id = id
M(id) == slots[At(id)]
Score == SumFunction([i \in 1..SlotCount |-> slots[i].activity * slots[i].quantity])

\* The members of a sequence at these places, in order.
Nth(places, k) ==
  CHOOSE i \in places : Cardinality({j \in places : j < i}) = k - 1
Keep(seq, places) == [k \in 1..Cardinality(places) |-> seq[Nth(places, k)]]

\* toolFilter, family, toolRarity, monsterIDs: ids in slot order.
Group(P(_)) ==
  LET found == Keep(slots, {i \in Board : P(slots[i])})
  IN [i \in DOMAIN found |-> found[i].id]
All == Group(LAMBDA m : TRUE)
OfFamily(f) == Group(LAMBDA m : m.family = f)
Others(f) == Group(LAMBDA m : m.family # f)
OfRarity(r) == Group(LAMBDA m : m.rarity = r)
Pool(p) == IF p = Wild THEN All ELSE OfFamily(p)

\* extreme: ties go to the left; an empty sequence when nobody qualifies.
Best(ids, Better(_, _)) ==
  Keep(ids, {i \in DOMAIN ids :
               /\ \A j \in DOMAIN ids : ~Better(M(ids[j]), M(ids[i]))
               /\ \A j \in 1..(i - 1) : Better(M(ids[i]), M(ids[j]))})
HighestActivity(ids) == Best(ids, LAMBDA m, n : m.activity > n.activity)
LowestActivity(ids) == Best(ids, LAMBDA m, n : m.activity < n.activity)
LowestProduct(ids) ==
  Best(ids, LAMBDA m, n : m.activity * m.quantity < n.activity * n.quantity)

Without(ids, id) == Keep(ids, {i \in DOMAIN ids : ids[i] # id})

\* Fault: a monster may be drawn twice.
SamplesAgain(ids, n) == [1..(IF n < Len(ids) THEN n ELSE Len(ids)) -> ToSet(ids)]

\* toolSample, potionRandom: any n of the ids, or all when there are fewer.
Size(ids, n) == IF n < Len(ids) THEN n ELSE Len(ids)
Samples(ids, n) ==
  {[i \in 1..Size(ids, n) |-> ids[p[i]]] : p \in Injection(1..Size(ids, n), DOMAIN ids)}

\* The same in slot order, where the order of the draw makes no difference.
Picks(ids, n) ==
  {Keep(ids, places) :
     places \in {s \in SUBSET DOMAIN ids : Cardinality(s) = Size(ids, n)}}

\* One monster of each of these rarities, where there is one: the groups are
\* read before any of the chosen monsters changes.
OnePerRarity(rarities) ==
  LET Draws(r) == Picks(OfRarity(r), 1)
  IN {f[1] \o f[2] \o f[3] \o f[4] :
        f \in {g \in [Rarities -> UNION {Draws(r) : r \in Rarities} \cup {<< >>}] :
                 \A r \in Rarities :
                   g[r] \in IF r \in rarities THEN Draws(r) ELSE {<< >>}}}

-----------------------------------------------------------------------------
(***************************************************************************)
(* Tasks                                                                   *)
(***************************************************************************)

Buff(id, a, q) == [op |-> "buff", id |-> id, a |-> a, q |-> q]
Remove1(id) == [op |-> "remove", id |-> id]
Mutate(id, f, r) == [op |-> "mutate", id |-> id, f |-> f, r |-> r]
Awaken(id, r, levels) == [op |-> "awaken", id |-> id, r |-> r, levels |-> levels]
Fuse(ids, f, r) == [op |-> "fuse", ids |-> ids, f |-> f, r |-> r]
Devour(id, prey) == [op |-> "devour", id |-> id, prey |-> prey]
Tool(h, id) == [op |-> "tool", handler |-> h, id |-> id]

\* spill: what follows if the board is full.
Add(f, r, a, q) == [op |-> "add", f |-> f, r |-> r, a |-> a, q |-> q,
                    spill |-> << >>]

\* Picks that are made when the task is executed.
BuffAll(p, a, q) == [op |-> "buffAll", pool |-> p, a |-> a, q |-> q]
BuffSome(p, n, a, q) == [op |-> "buffSome", pool |-> p, n |-> n, a |-> a, q |-> q]
AddTwin(id) == [op |-> "addTwin", id |-> id]

Tick == [op |-> "tick"]                       \* one effect of a card
Restore(m) == [op |-> "restore", was |-> m]   \* end of a removal
EndTurn == [op |-> "endTurn"]
Settle == [op |-> "settle"]
Overflow == [op |-> "overflow"]

Each(ids, Task(_)) == [i \in DOMAIN ids |-> Task(ids[i])]
BuffEach(ids, a, q) == Each(ids, LAMBDA id : Buff(id, a, q))
Repeat(n, task) == [i \in 1..n |-> task]

\* A task for each id, each time followed by another one.
EachThen(ids, Task(_), after) ==
  [k \in 1..(2 * Len(ids)) |->
     IF k % 2 = 1 THEN Task(ids[(k + 1) \div 2]) ELSE after]

-----------------------------------------------------------------------------
(***************************************************************************)
(* Tools (tools.go): what a tool does when an event triggers it, as the    *)
(* set of the task sequences its draws may lead to.                        *)
(***************************************************************************)

\* Fault: the sac reacts to every change, also to its own.
TriggerOnChange(h) ==
  CASE h \in {"claw", "eye", "metatarsal"} -> "removed"
    [] h = "marrow" -> "added"
    [] h = "hatching_egg" -> "stats_changed"
    [] h \in {"growth", "liver"} -> "mutated"
    [] h = "nail" -> "overflow"
    [] OTHER -> "turn_end"

Trigger(h) ==
  CASE h \in {"claw", "eye", "metatarsal"} -> "removed"
    [] h \in {"marrow", "hatching_egg"} -> "added"
    [] h \in {"growth", "liver"} -> "mutated"
    [] h = "nail" -> "overflow"
    [] OTHER -> "turn_end"

\* emit: the tools an event triggers, in the order they were gained.
Emit(kind, id) ==
  Each(Keep(tools, {i \in DOMAIN tools : Trigger(tools[i]) = kind}),
       LAMBDA h : Tool(h, id))

When(condition, programs) == IF condition THEN programs ELSE {<< >>}
BuffOne(ids, a, q) == {BuffEach(chosen, a, q) : chosen \in Picks(ids, 1)}

\* goat_suture: the groups of three, read before the first fusion.
Triples(r) ==
  LET ids == OfRarity(r)
  IN [k \in 1..(Len(ids) \div 3) |->
        Fuse(SubSeq(ids, 3 * k - 2, 3 * k), Wild, r + 1)]

ToolProgram(h, id) ==
  CASE h = "claw" -> When(removed # Empty /\ removed.family # "BONE",
                          BuffOne(All, 0, 150))
    [] h = "cortex" -> When(Len(OfRarity(Magic)) >= 2,
         {<<Fuse(two, "AWAKENER", Rare)>> : two \in Picks(OfRarity(Magic), 2)})
    [] h = "goat_suture" -> {Triples(Normal) \o Triples(Magic) \o Triples(Rare)}
    [] h = "marrow" -> When(id \in Ids,
         {<< >>, <<Mutate(id, "FIEND", Drawn), Buff(id, 80, 0)>>})
    [] h = "saw" -> {BuffEach(
         Group(LAMBDA m : m.activity > 150 /\ m.quantity > 150), 15, 15)}
    [] h = "scraper" -> {BuffEach(Group(LAMBDA m : m.quantity > 275), 20, 0)}
    [] h = "eye" -> {BuffEach(HighestActivity(All), 20, 20)}
    [] h = "metatarsal" -> When(Len(OfFamily("BONE")) >= 2,
                                BuffOne(All, 0, 180))
    [] h = "sinew" -> When(Len(OfFamily("BONE")) >= 2,
         {Each(LowestActivity(Others("BONE")), LAMBDA low : Remove1(low))
            \o Each(LowestActivity(Others("BONE")),
                    LAMBDA low : BuffSome("BONE", 1, M(low).activity, 0))})
    [] h = "tanned_restraint" -> When(
         \A r \in {Normal, Magic, Boss} : OfRarity(r) # << >>,
         {BuffEach(All, 20, 0)})
    [] h = "pituitary" -> When(
         \E i \in Board : slots[i].family = "AWAKENER" /\ slots[i].rarity >= Rare,
         BuffOne(All, 80, 0))
    [] h = "fang" -> {BuffEach(Group(LAMBDA m : m.activity > 255), 0, 30)}
    [] h = "frontal_lobe" -> When(Len(OfFamily("AWAKENER")) >= 2,
         BuffOne(Group(LAMBDA m : m.rarity >= Rare), 80, 0))
    [] h = "rawhide_restraint" -> When(Len(OfRarity(Magic)) >= 3,
         {BuffEach(HighestActivity(All), 0, 100)})
    [] h = "growth" -> When(id \in Ids /\ M(id).family = "FIEND",
                            {BuffEach(All, 35, 0)})
    [] h = "nettle" -> When(Len(OfRarity(Normal)) >= 3, {BuffEach(All, 0, 30)})
    [] h = "liver" -> When(Len(OfFamily("FIEND")) >= 2, {BuffEach(All, 20, 0)})
    [] h = "pupa" -> {Repeat(Len(OfFamily("INSECT")),
                             BuffSome(Wild, Len(OfFamily("INSECT")), 0, 8))}
    [] h = "statue" -> When(turns > 0 /\ turns % 2 = 0,
         {Each(one, LAMBDA i : Awaken(i, Drawn, 1)) :
            one \in OnePerRarity({Normal, Magic, Rare})})
    [] h = "cluster_eggs" -> When(Len(OfFamily("INSECT")) >= 3,
                                  {<<Add("INSECT", Drawn, 0, 100)>>})
    [] h = "nail" -> {BuffEach(LowestActivity(All), 25, 25)}
    [] h = "mouth" ->
         IF Len(All) = 2 THEN {<<Add(Wild, Drawn, 0, 0)>>}
         ELSE IF Len(All) # 6 THEN {<< >>}
         ELSE UNION {
           IF \E i \in Ids \ {eater} : M(i).activity * M(i).quantity > MaxInt
           THEN {<<Overflow>>}
           ELSE {<<Devour(eater, prey)>> :
                   prey \in ToSet(LowestProduct(Without(All, eater)))} :
           eater \in ToSet(HighestActivity(All))}
    [] h = "hatching_egg" -> When(Len(OfFamily("INSECT")) >= 2,
                                  {BuffEach(All, 0, 45)})
    [] h = "brooding_butterfly" ->
         When(turns > 0 /\ turns % 3 = 0 /\ Len(OfFamily("INSECT")) >= 2,
              {<<Fuse(two, "INSECT", r)>> :
                 two \in Picks(OfFamily("INSECT"), 2), r \in RarityOf(Drawn)})

-----------------------------------------------------------------------------
(***************************************************************************)
(* Cards (potions.go, effects.go): the tasks of a card for its targets.    *)
(***************************************************************************)

\* MinTargets and MaxTargets.
Targets(c) ==
  IF c \in {"alien_hormone", "mutation", "fusion", "mutagen_powder"} THEN 1..2
  ELSE IF c \in {"targeted_alien_hormone", "will_powder", "awakening",
       "cleansing_ointment", "mixed_leech", "sticky_bile", "awaker_anesthetic",
       "digestive", "petrified_marrow", "hollow_marrow", "strong_will_powder",
       "pia_mater", "fiend_anesthetic", "pure_leech", "bone_twin_hormone",
       "insect_twin_hormone"} THEN {1}
  ELSE {0}

\* validTargets, potionTargetsValid, LegalTargets.
LegalTargets(c) ==
  IF \/ c \in {"bone_ointment", "peat_dressing"} /\ OfFamily("BONE") = << >>
     \/ c \in {"gray_marrow", "brain_fog", "bone_growth_powder",
               "eggshell_powder", "waking_salts"} /\ Board = {}
  THEN {}
  ELSE UNION {{t \in [1..n -> Ids] : IsInjective(t)} : n \in Targets(c)}

\* potionRight, remove_left: the nearest monster on that side.
RightOf(id) ==
  LET right == {i \in Board : i > At(id)}
  IN IF right = {} THEN << >> ELSE <<slots[Min(right)].id>>

\* Fault: the search to the left starts at the monster itself.
LeftOrSelf(id) ==
  LET left == {i \in Board : i <= At(id)}
  IN IF left = {} THEN << >> ELSE <<slots[Max(left)].id>>

LeftOf(id) ==
  LET left == {i \in Board : i < At(id)}
  IN IF left = {} THEN << >> ELSE <<slots[Max(left)].id>>

RemoveEach(ids) == Each(ids, LAMBDA id : Remove1(id))

CardProgram(c, t) ==
  CASE c \in Schemes -> {<< >>}
    [] c = "bone_ointment" ->
         {EachThen(out, LAMBDA id : Remove1(id), BuffAll(Wild, 28, 28)) :
            out \in Samples(Others("BONE"), 3)}
    [] c = "alien_hormone" ->
         {RemoveEach(t) \o Repeat(4, Add(Wild, Drawn, 5, 0))}
    [] c = "targeted_alien_hormone" ->
         {RemoveEach(t) \o Repeat(2, Add(Wild, Magic, 0, 25))}
    [] c \in {"will_powder", "strong_will_powder"} ->
         {<<Buff(t[1], 0, IF c = "will_powder" THEN 127 ELSE 154)>> \o RemoveEach(out) :
            out \in Samples(Others(M(t[1]).family),
                            IF c = "will_powder" THEN 1 ELSE 2)}
    [] c = "awakening" -> {<<Tick, Awaken(t[1], Drawn, 1)>>}
    [] c = "cleansing_ointment" ->
         {<<Buff(t[1], 20, 0)>> \o
            (IF M(t[1]).family = "BONE"
             THEN <<Buff(t[1], 0, 41)>> \o RemoveEach(RightOf(t[1]))
             ELSE << >>)}
    [] c = "mixed_leech" ->
         {BuffEach(t \o one, 31, 0) :
            one \in Picks(Without(OfRarity(M(t[1]).rarity), t[1]), 1)}
    [] c = "pure_leech" ->
         {BuffEach(t \o one, 31, 0) :
            one \in Picks(Without(OfFamily(M(t[1]).family), t[1]), 1)}
    [] c = "sticky_bile" ->
         {Each(RightOf(t[1]),
               LAMBDA id : Mutate(id, M(t[1]).family, M(t[1]).rarity))
            \o BuffEach(t \o RightOf(t[1]), 31, 0)}
    [] c = "mutation" ->
         {<<Tick>> \o Each(t, LAMBDA id : Mutate(id, Wild, Magic))
            \o <<Tick>> \o BuffEach(t, 31, 0)}
    [] c = "mutagen_powder" ->
         {<<Tick>> \o BuffEach(t, 0, 52)
            \o <<Tick>> \o Each(t, LAMBDA id : Mutate(id, Wild, Rare))}
    [] c = "bone_twin_hormone" ->
         {<<Tick, Mutate(t[1], "BONE", Drawn), Tick, Buff(t[1], 0, 62)>>}
    [] c = "insect_twin_hormone" ->
         {<<Mutate(t[1], "INSECT", Drawn), AddTwin(t[1])>>}
    [] c = "awaker_anesthetic" ->
         {<<Mutate(t[1], "AWAKENER", Drawn), Awaken(t[1], Magic, 0)>>}
    [] c = "digestive" ->
         {<<Tick, Buff(t[1], 61, 0), Tick>> \o RemoveEach(LeftOf(t[1]))}
    [] c = "fusion" -> {<<Fuse(t, "INSECT", Drawn)>>}
    [] c = "petrified_marrow" ->
         {<<Buff(t[1], 20, 0)>> \o
            (IF M(t[1]).family = "FIEND" THEN << >>
             ELSE <<Mutate(t[1], "FIEND", Drawn), Buff(t[1], 30, 0)>>)}
    [] c = "gray_marrow" ->
         {<<Buff(one[1], 41, 0), Mutate(one[1], Wild, Drawn)>> : one \in Picks(All, 1)}
         \cup
         {<<Buff(one[1], 41, 0), Mutate(one[1], Wild, Drawn),
            Mutate(one[1], "FIEND", Drawn), Buff(one[1], 30, 0)>> :
            one \in Picks(All, 1)}
    [] c = "hollow_marrow" ->
         {<<Buff(t[1], 41, 0)>>,
          <<Buff(t[1], 41, 0), Mutate(t[1], "FIEND", Drawn)>>}
    [] c = "pia_mater" ->
         {Repeat(IF M(t[1]).family # "AWAKENER" \/ M(t[1]).rarity = Normal THEN 1
                 ELSE IF M(t[1]).rarity = Magic THEN 2 ELSE 3,
                 Buff(t[1], 30, 0))}
    [] c = "awaker_fluid" -> {<<Tick, Add("AWAKENER", Drawn, 31, 0)>>}
    [] c = "fiend_fluid" -> {<<Tick, Add("FIEND", Drawn, 31, 0)>>}
    [] c = "insect_powder" -> {<<Tick, Add("INSECT", Drawn, 0, 73)>>}
    [] c = "bone_powder" -> {<<Tick, Add("BONE", Drawn, 0, 73)>>}
    [] c = "holy_water" ->
         {Each(OfFamily("AWAKENER"), LAMBDA id :
                 IF M(id).rarity = Boss THEN Awaken(id, Boss, 0)
                 ELSE Awaken(id, Drawn, 2))}
    [] c = "peat_dressing" ->
         {EachThen(Others("BONE"), LAMBDA id : Remove1(id), BuffAll("BONE", 20, 20))}
    [] c = "waking_salts" -> BuffOne(All, 111, 111)
    [] c = "fresh_marrow_powder" ->
         {EachThen(new, LAMBDA id : Mutate(id, "FIEND", Drawn),
                   BuffSome("FIEND", 3, 0, 42)) :
            new \in Samples(Others("FIEND"), 3)}
    [] c = "fiend_anesthetic" ->
         {<<Mutate(t[1], "FIEND", Drawn)>> \o
            Each(more, LAMBDA id : Mutate(id, "FIEND", Drawn)) :
            more \in {<< >>} \cup Picks(All, 1)}
    [] c = "brood_hormone" ->
         {Repeat(n, Add("INSECT", Drawn, 0, 0)) : n \in {1, 3}}
    [] c = "proliferation_powder" ->
         {BuffEach(chosen, 0, 32) : chosen \in OnePerRarity(Rarities)}
    [] c = "eggshell_powder" ->
         {<<Buff(one[1], 0, 25)>> \o
            (IF M(one[1]).family # "INSECT" THEN << >>
             ELSE <<Add("INSECT", M(one[1]).rarity, 0, 25)>>) :
            one \in Picks(All, 1)}
    [] c = "brain_fog" ->
         {<<Buff(one[1], 41, 0)>> \o
            (IF M(one[1]).family # "AWAKENER" THEN << >>
             ELSE <<Awaken(one[1], Rare, 0)>>) : one \in Picks(All, 1)}
    [] c = "bone_growth_powder" ->
         UNION {IF M(one[1]).family # "BONE" THEN {<<Buff(one[1], 0, 40)>>}
                ELSE {<<Buff(one[1], 0, 40), Buff(one[1], 0, 127)>> \o RemoveEach(out) :
                        out \in Samples(Others("BONE"), 1)} :
                one \in Picks(All, 1)}
    [] c = "insect_boost" ->
         {BuffEach(OfFamily("INSECT"), 11 * Len(OfFamily("INSECT")), 0)}
    [] c = "lure" ->
         {Repeat(4, [Add("INSECT", Drawn, 0, 0) EXCEPT
                       !.spill = <<BuffAll("INSECT", 10, 10)>>])}

-----------------------------------------------------------------------------
(***************************************************************************)
(* Executing the agenda (effects.go)                                       *)
(***************************************************************************)

Working == [slots |-> slots, tools |-> tools, turns |-> turns, nextId |-> nextId]
Representable(board) ==
  \A i \in 1..SlotCount : board[i].activity <= MaxInt /\ board[i].quantity <= MaxInt

\* An error drops the working copy: the caller keeps the checkpoint it had.
Abort(why) ==
  /\ slots' = saved.slots /\ tools' = saved.tools
  /\ turns' = saved.turns /\ nextId' = saved.nextId
  /\ agenda' = << >> /\ removed' = Empty /\ steps' = 0
  /\ outcome' = why
  /\ UNCHANGED <<saved, commands>>

\* One task is done: the board it leaves, the tasks it calls, the steps it
\* counts, the next id and the monster being removed.
Perform(board, called, cost, next, gone) ==
  IF steps + cost > StepLimit THEN Abort("limit")
  ELSE IF ~Representable(board) THEN Abort("overflow")
  ELSE /\ slots' = board /\ nextId' = next /\ removed' = gone
       /\ agenda' = called \o Tail(agenda)
       /\ steps' = steps + cost
       /\ UNCHANGED <<tools, turns, saved, outcome, commands>>

\* A task that only calls others.
Call(called, cost) == Perform(slots, called, cost, nextId, removed)

Task == Head(agenda)
IsNext(op) == agenda # << >> /\ Task.op = op

DoBuff ==
  /\ IsNext("buff")
  /\ IF Task.id \in Ids
     THEN Perform([slots EXCEPT ![At(Task.id)].activity = @ + Task.a,
                                ![At(Task.id)].quantity = @ + Task.q],
                  Emit("stats_changed", Task.id), 2, nextId, removed)
     ELSE Call(<< >>, 1)

\* addMonster: the leftmost free slot, or an overflow that adds nothing.
DoAdd ==
  /\ IsNext("add")
  /\ LET free == (1..SlotCount) \ Board
     IN IF free = {} THEN Call(Emit("overflow", 0) \o Task.spill, 2)
        ELSE \E f \in FamilyOf(Task.f), r \in RarityOf(Task.r) :
               Perform([slots EXCEPT ![Min(free)] =
                          Monster(nextId, f, r, BaseActivity[r] + Task.a,
                                  BaseQuantity[r] + Task.q)],
                       Emit("added", nextId), 2, nextId + 1, removed)

\* The tools that react to a removal see the monster that is gone.
DoRemove ==
  /\ IsNext("remove")
  /\ IF Task.id \in Ids
     THEN Perform([slots EXCEPT ![At(Task.id)] = Empty],
                  Emit("removed", Task.id) \o <<Restore(removed)>>,
                  2, nextId, M(Task.id))
     ELSE Call(<< >>, 1)

\* Fault: the removed monster is remembered after its tools have run.
DoRestoreNothing == IsNext("restore") /\ Call(<< >>, 0)

DoRestore == IsNext("restore") /\ Perform(slots, << >>, 0, nextId, Task.was)

\* transformTo: the values are kept and the base of the new rarity is added.
Become(id, f, r, kind) ==
  Perform([slots EXCEPT ![At(id)] =
             Monster(id, f, r, @.activity + BaseActivity[r],
                     @.quantity + BaseQuantity[r])],
          Emit(kind, id), 2, nextId, removed)

DoMutate ==
  /\ IsNext("mutate")
  /\ IF Task.id \notin Ids THEN Call(<< >>, 0)
     ELSE \E f \in FamilyOf(Task.f), r \in RarityOf(Task.r) :
            Become(Task.id, f, r, "mutated")

\* A boss is not awakened by levels; a named rarity is taken as it is.
DoAwaken ==
  /\ IsNext("awaken")
  /\ IF Task.id \notin Ids \/ (Task.r = Drawn /\ M(Task.id).rarity = Boss)
     THEN Call(<< >>, 0)
     ELSE Become(Task.id, M(Task.id).family,
                 IF Task.r # Drawn THEN Task.r
                 ELSE Min({M(Task.id).rarity + Task.levels, Boss}), "awakened")

\* Fault: the id given to the result is not used up.
DoFuseKeepsCounter ==
  /\ IsNext("fuse")
  /\ LET fused == {At(id) : id \in ToSet(Task.ids)}
     IN IF ~(ToSet(Task.ids) \subseteq Ids) THEN Call(<< >>, 1)
        ELSE \E f \in FamilyOf(Task.f) :
               Perform([i \in 1..SlotCount |->
                          IF i = Min(fused) THEN [M(Task.ids[1]) EXCEPT !.id = nextId]
                          ELSE IF i \in fused THEN Empty ELSE slots[i]],
                       Emit("fused", nextId), 2, nextId, removed)

\* fuse: the values are summed, no base is added, in the leftmost slot.
DoFuse ==
  /\ IsNext("fuse")
  /\ LET fused == {At(id) : id \in ToSet(Task.ids)}
         highest == Max({slots[i].rarity : i \in fused})
         rarity == IF Task.r # Drawn THEN Task.r ELSE Min({highest + 1, Boss})
     IN IF ~(ToSet(Task.ids) \subseteq Ids) THEN Call(<< >>, 1)
        ELSE \E f \in FamilyOf(Task.f) :
               Perform([i \in 1..SlotCount |->
                          IF i = Min(fused)
                          THEN Monster(nextId, f, rarity,
                                 SumFunction([j \in fused |-> slots[j].activity]),
                                 SumFunction([j \in fused |-> slots[j].quantity]))
                          ELSE IF i \in fused THEN Empty ELSE slots[i]],
                       Emit("fused", nextId), 2, nextId + 1, removed)

\* Fault: the prey stays on the board.
DoDevourLeavesPrey ==
  /\ IsNext("devour")
  /\ Perform([slots EXCEPT
                ![At(Task.id)].activity = @ + M(Task.prey).activity,
                ![At(Task.id)].quantity = @ + M(Task.prey).quantity],
             Emit("devoured", Task.id), 2, nextId, removed)

DoDevour ==
  /\ IsNext("devour")
  /\ IF {Task.id, Task.prey} \subseteq Ids /\ Task.id # Task.prey
     THEN Perform([slots EXCEPT
                     ![At(Task.id)].activity = @ + M(Task.prey).activity,
                     ![At(Task.id)].quantity = @ + M(Task.prey).quantity,
                     ![At(Task.prey)] = Empty],
                  Emit("devoured", Task.id), 2, nextId, removed)
     ELSE Call(<< >>, 1)

DoTool ==
  /\ IsNext("tool")
  /\ \E program \in ToolProgram(Task.handler, Task.id) : Call(program, 1)

\* Tasks that pick their monsters now.
DoPick ==
  \/ IsNext("buffAll") /\ Call(BuffEach(Pool(Task.pool), Task.a, Task.q), 0)
  \/ /\ IsNext("buffSome")
     /\ \E chosen \in Picks(Pool(Task.pool), Task.n) :
          Call(BuffEach(chosen, Task.a, Task.q), 0)
  \/ /\ IsNext("addTwin")
     /\ Call(<<Add(M(Task.id).family, M(Task.id).rarity, 0, 0)>>, 0)
  \/ IsNext("tick") /\ Call(<< >>, 1)

DoOverflow == IsNext("overflow") /\ Abort("overflow")

\* The clock ticks before the tools of the end of the turn look at it.
DoEndTurn ==
  /\ IsNext("endTurn")
  /\ IF steps + 1 > StepLimit THEN Abort("limit")
     ELSE /\ turns' = turns + 1
          /\ agenda' = Emit("turn_end", 0) \o Tail(agenda)
          /\ steps' = steps + 1
          /\ UNCHANGED <<slots, tools, nextId, saved, removed, outcome, commands>>

\* updateRewards and the scored event: the command is accepted.
DoSettle ==
  /\ IsNext("settle")
  /\ IF \/ \E i \in Board : slots[i].activity * slots[i].quantity > MaxInt
        \/ Score > MaxInt
     THEN Abort("overflow")
     ELSE IF steps + 1 > StepLimit THEN Abort("limit")
     ELSE /\ saved' = Working
          /\ agenda' = << >> /\ steps' = 0 /\ outcome' = "done"
          /\ UNCHANGED <<slots, tools, turns, nextId, removed, commands>>

Step ==
  \/ DoBuff \/ DoAdd \/ DoRemove \/ DoRestore \/ DoMutate \/ DoAwaken
  \/ DoFuse \/ DoDevour \/ DoTool \/ DoPick \/ DoOverflow
  \/ DoEndTurn \/ DoSettle

-----------------------------------------------------------------------------
(***************************************************************************)
(* Commands                                                                *)
(***************************************************************************)

\* choose: a potion or a scheme.  The opening tool comes before any of them.
Play(c, t) ==
  /\ agenda = << >> /\ commands < MaxCommands
  /\ tools # << >>
  /\ \E program \in CardProgram(c, t) : agenda' = program \o <<EndTurn, Settle>>
  /\ commands' = commands + 1
  /\ outcome' = "running"
  /\ UNCHANGED <<slots, tools, turns, nextId, saved, removed, steps>>

\* choose: a tool.  The opening tool completes no turn.
GainTool(h) ==
  /\ agenda = << >> /\ commands < MaxCommands
  /\ Len(tools) < MaxTools
  /\ tools' = Append(tools, h)
  /\ agenda' = IF tools = << >> THEN <<Settle>> ELSE <<EndTurn, Settle>>
  /\ steps' = 1
  /\ commands' = commands + 1
  /\ outcome' = "running"
  /\ UNCHANGED <<slots, turns, nextId, saved, removed>>

Init ==
  /\ saved \in Checkpoints
  /\ slots = saved.slots /\ tools = saved.tools
  /\ turns = saved.turns /\ nextId = saved.nextId
  /\ agenda = << >> /\ removed = Empty
  /\ steps = 0 /\ outcome = "done" /\ commands = 0

Next ==
  \/ Step
  \/ \E c \in Cards : \E t \in LegalTargets(c) : Play(c, t)
  \/ \E h \in Handlers : GainTool(h)

Spec == Init /\ [][Next]_vars

-----------------------------------------------------------------------------
(***************************************************************************)
(* Properties                                                              *)
(***************************************************************************)

\* Two monsters never share an id, whatever is added, fused or devoured in
\* the middle of a chain: effects find their monster by its id alone.
IdsUnique ==
  \A i, j \in Board : slots[i].id = slots[j].id => i = j

\* The monsters that a task has chosen and needs.
Names(t) ==
  IF t.op \in {"buff", "remove", "mutate", "awaken", "addTwin"} THEN {t.id}
  ELSE IF t.op = "fuse" THEN ToSet(t.ids)
  ELSE IF t.op = "devour" THEN {t.id, t.prey}
  ELSE {}

\* The guards that skip a monster which is no longer there never act: an
\* effect that has chosen its monsters, the parts of a fusion and the prey of a
\* meal among them, still finds them all when its turn comes, so no effect of a
\* card or a tool is silently lost.
NothingMissed == agenda # << >> => Names(Task) \subseteq Ids

\* A tool reacting to a removal reads the monster of that very removal, and
\* nothing is remembered once the chain is over.  (No tool of the catalogue that
\* reacts to a removal removes in turn, so two removals never nest.)
ReactsToOwnRemoval ==
  /\ IsNext("tool") /\ Trigger(Task.handler) = "removed" =>
       removed.id = Task.id /\ Task.id \notin Ids
  /\ agenda = << >> => removed = Empty

\* No card empties the board, whatever its tools do along the way: the AI
\* refuses a running game without monsters (ai/env.go, 131: ValidateState finds
\* no family for the rebuilt state), and a potion would find no targets.
NeverEmptied == agenda = << >> => Board # {}

\* docs/architecture.md, 57: at most 512 steps.  No legal play of the cards
\* runs into the limit, which would leave a card that cannot be played.
NeverLimited == outcome # "limit"

Total(field) ==
  SumFunction([i \in 1..SlotCount |-> slots[i][field]])

\* While a command runs, a monster that stays loses nothing, and the board as
\* a whole loses only what an ordinary removal takes: fusing and devouring
\* move the values, none is dropped and none is counted twice.  A step that
\* aborts the command (an overflow, the limit) is not meant: it leaves the
\* checkpoint.
ValuesKept ==
  [][agenda # << >> /\ agenda' # << >> =>
       /\ \A i \in Board, j \in Board' : slots[i].id = slots'[j].id =>
            /\ slots'[j].activity >= slots[i].activity
            /\ slots'[j].quantity >= slots[i].quantity
       /\ Task.op # "remove" =>
            Total("activity")' >= Total("activity")
            /\ Total("quantity")' >= Total("quantity")
       /\ Task.op \in {"fuse", "devour"} =>
            Total("activity")' = Total("activity")
            /\ Total("quantity")' = Total("quantity")]_vars
=============================================================================
