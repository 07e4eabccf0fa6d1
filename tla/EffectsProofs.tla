----------------------------- MODULE EffectsProofs -----------------------------
(***************************************************************************)
(* Proofs about Effects for every number of slots, every board, every set  *)
(* of tools and every draw: identities stay unique, no announced effect    *)
(* loses its monster, reactions to a removal concern that removal, and no  *)
(* command empties the board.                                              *)
(*                                                                         *)
(* All of it is about the agenda.  A task names monsters that were chosen  *)
(* when the card or the tool was resolved; some tasks make the monsters    *)
(* they name disappear.  Ready says that no task is preceded by one that   *)
(* takes a monster it names, that some monster outlives the agenda, and    *)
(* how the tools that react to a removal lie before its end.               *)
(***************************************************************************)
EXTENDS Effects, TLAPS, WellFoundedInduction, FiniteSetTheorems, SequenceTheorems

-----------------------------------------------------------------------------
(* The invariant.                                                          *)

\* Those of the monsters it names that are gone when a task is done.
Kills(t) ==
  IF t.op = "remove" THEN {t.id}
  ELSE IF t.op = "fuse" THEN ToSet(t.ids)
  ELSE IF t.op = "devour" THEN {t.prey}
  ELSE {}

\* A task that leaves a new monster, or finds no room for one.
Brings(t) == t.op \in {"add", "fuse"}

\* The end of the turn and its tools, which choose their monsters themselves.
Late(t) ==
  t.op = "endTurn" \/ (t.op = "tool" /\ Trigger(t.handler) = "turn_end")

\* A reaction to a removal.
Reacts(t) == t.op = "tool" /\ Trigger(t.handler) = "removed"

\* Tasks that take no monster, call no tool by themselves and end nothing.
Plain == {"buff", "mutate", "awaken", "add", "addTwin", "buffAll", "buffSome",
          "tick", "overflow"}
Taking == {"remove", "fuse", "devour"}

\* The fields a task has.
Shaped(t) ==
  /\ t.op \in Plain \cup Taking \cup {"tool", "restore", "endTurn", "settle"}
  /\ t.op = "buff" => t = Buff(t.id, t.a, t.q)
  /\ t.op = "remove" => t = Remove1(t.id)
  /\ t.op = "mutate" => t = Mutate(t.id, t.f, t.r)
  /\ t.op = "awaken" => t = Awaken(t.id, t.r, t.levels)
  /\ t.op = "fuse" =>
       t = Fuse(t.ids, t.f, t.r) /\ t.ids \in Seq(ToSet(t.ids)) /\ t.ids # << >>
  /\ t.op = "devour" => t = Devour(t.id, t.prey) /\ t.id # t.prey
  /\ t.op = "tool" => t = Tool(t.handler, t.id) /\ t.handler \in AllTools
  /\ t.op = "add" =>
       /\ t = [op |-> "add", f |-> t.f, r |-> t.r, a |-> t.a, q |-> t.q,
               spill |-> t.spill]
       /\ t.spill \in {<< >>, <<BuffAll("INSECT", 10, 10)>>}
  /\ t.op = "buffAll" => t = BuffAll(t.pool, t.a, t.q)
  /\ t.op = "buffSome" => t = BuffSome(t.pool, t.n, t.a, t.q)
  /\ t.op = "addTwin" => t = AddTwin(t.id)
  /\ t.op = "restore" => t = Restore(t.was)
  /\ t.op = "tick" => t = Tick
  /\ t.op = "endTurn" => t = EndTurn
  /\ t.op = "settle" => t = Settle
  /\ t.op = "overflow" => t = Overflow

\* Each task finds the monsters it names, whatever the tasks before it take.
Found(s, ids) ==
  /\ \A i \in DOMAIN s : Names(s[i]) \subseteq ids
  /\ \A i, j \in DOMAIN s : i < j => Kills(s[i]) \cap Names(s[j]) = {}

\* Somebody is still there when all is done.
Survived(s, ids) ==
  \/ \E id \in ids : \A i \in DOMAIN s : id \notin Kills(s[i])
  \/ \E k \in DOMAIN s :
       /\ Brings(s[k])
       /\ \A j \in DOMAIN s : j > k => s[j].op \notin Taking

\* The turn ends when the card is done, and the command after that.
InTurn(s) ==
  \A i, j \in DOMAIN s : i < j =>
    /\ s[i].op # "settle"
    /\ Late(s[i]) => Late(s[j]) \/ s[j].op = "settle"

\* One removal is on its way at a time: what reacts to it comes before its
\* end, and nothing is taken in between.
Removing(s, ids, next, gone) ==
  /\ \A k \in DOMAIN s : s[k].op = "restore" =>
       /\ s[k].was = Empty
       /\ \A j \in 1..(k - 1) :
            s[j].op \notin Taking \cup {"restore"} /\ ~Late(s[j])
  /\ \A k \in DOMAIN s : Reacts(s[k]) =>
       /\ gone.id = s[k].id /\ s[k].id \in 1..(next - 1) /\ s[k].id \notin ids
       /\ \E j \in DOMAIN s : j > k /\ s[j].op = "restore"
  /\ (\A k \in DOMAIN s : s[k].op # "restore") => gone = Empty

Ready(s, ids, next, gone) ==
  /\ s \in Seq(ToSet(s)) /\ \A i \in DOMAIN s : Shaped(s[i])
  /\ Found(s, ids)
  /\ Survived(s, ids)
  /\ InTurn(s)
  /\ Removing(s, ids, next, gone)

EffectsInv ==
  /\ Sound(slots, tools, nextId)
  /\ IsCheckpoint(saved)
  /\ Ready(agenda, Ids, nextId, removed)

-----------------------------------------------------------------------------
(* Lists.                                                                  *)

\* The least element of a set of numbers.
LEMMA LeastIs ==
  ASSUME NEW S \in SUBSET Nat, S # {}
  PROVE  Min(S) \in S /\ \A x \in S : Min(S) <= x
<1>1. PICK k \in S : \A x \in S : ~(<<x, k>> \in OpToRel(<, Nat))
  BY NatLessThanWellFounded, WFMin
<1>2. \A x \in S : k <= x
  <2> SUFFICES ASSUME NEW x \in S, x < k PROVE FALSE
    OBVIOUS
  <2>1. <<x, k>> \in OpToRel(<, Nat)
    BY DEF OpToRel
  <2> QED BY <1>1, <2>1
<1> QED BY <1>2 DEF Min

\* The greatest, if the set is bounded.
LEMMA GreatestIs ==
  ASSUME NEW n \in Nat, NEW S \in SUBSET (1..n), S # {}
  PROVE  Max(S) \in S /\ \A x \in S : x <= Max(S)
<1> DEFINE T == {d \in Nat : n - d \in S}
<1>1. PICK x \in S : TRUE
  OBVIOUS
<1>2. n - x \in T
  OBVIOUS
<1>3. T \in SUBSET Nat /\ T # {}
  BY <1>2
<1>4. \A d \in T : n - d \in S
  OBVIOUS
<1>5. \A y \in S : n - y \in T
  OBVIOUS
<1> HIDE DEF T
<1>6. Min(T) \in T /\ \A d \in T : Min(T) <= d
  BY <1>3, LeastIs
<1> DEFINE m == Min(T)
<1>7. m \in Nat /\ n - m \in S
  BY <1>3, <1>4, <1>6
<1>8. \A y \in S : y \in Nat /\ m <= n - y
  BY <1>5, <1>6
<1> HIDE DEF m
<1>9. \A y \in S : y <= n - m
  BY <1>7, <1>8
<1> DEFINE g == n - m
<1>10. g \in S /\ \A y \in S : y <= g
  BY <1>7, <1>9
<1>11. \A y \in S : y \in Nat
  OBVIOUS
<1> HIDE DEF g
<1>12. \E x_1 \in S : \A y \in S : x_1 >= y
  BY <1>10, <1>11
<1>13. Max(S) \in S /\ \A y \in S : Max(S) >= y
  BY <1>12 DEF Max
<1> QED BY <1>11, <1>13

\* A set of places is finite.
LEMMA FinitePlaces ==
  ASSUME NEW n \in Nat, NEW places \in SUBSET (1..n)
  PROVE  IsFiniteSet(places) /\ Cardinality(places) \in Nat
<1>1. 1 \in Int /\ n \in Int
  OBVIOUS
<1>2. IsFiniteSet(1..n)
  BY <1>1, FS_Interval
<1>3. IsFiniteSet(places)
  BY <1>2, FS_Subset
<1> QED BY <1>3, FS_CardinalityType

\* A finite set of places has a first place, a second, and so on.
LEMMA NthIs ==
  ASSUME NEW n \in Nat, NEW places \in SUBSET (1..n),
         NEW k \in 1..Cardinality(places)
  PROVE  /\ Nth(places, k) \in places
         /\ Cardinality({j \in places : j < Nth(places, k)}) = k - 1
<1> DEFINE Below(i) == {j \in places : j < i}
           size == Cardinality(places)
           Is(m) == \E i \in places : Cardinality(Below(i)) = m - 1
           Bad == {m \in Nat : m \in 1..size /\ ~Is(m)}
<1>0. \A x \in places : x \in Nat
  OBVIOUS
<1>1. IsFiniteSet(places) /\ size \in Nat
  BY FinitePlaces
<1>2. \A i : IsFiniteSet(Below(i)) /\ Cardinality(Below(i)) \in Nat
  BY <1>1, FS_Subset, FS_CardinalityType
<1>3. Is(1) \/ size = 0
  <2> SUFFICES ASSUME size # 0 PROVE Is(1)
    OBVIOUS
  <2>1. places # {}
    BY FS_EmptySet
  <2>2. Min(places) \in places /\ \A x \in places : Min(places) <= x
    BY <2>1, LeastIs
  <2> DEFINE m == Min(places)
  <2> HIDE DEF m
  <2>3. m \in places /\ \A x \in places : m <= x
    BY <2>2 DEF m
  <2>4. \A j \in places : ~(j < m)
    BY <1>0, <2>3
  <2>4a. Below(m) = {}
    BY <2>4
  <2>5. Cardinality(Below(m)) = 0
    BY <2>4a, FS_EmptySet
  <2> QED BY <2>3, <2>5
<1>4. ASSUME NEW m \in Nat, m + 1 <= size, m >= 1, Is(m) PROVE Is(m + 1)
  <2>1. PICK i \in places : Cardinality(Below(i)) = m - 1
    BY <1>4
  <2> DEFINE After == {j \in places : i < j}
  <2>2. After # {}
    <3> SUFFICES ASSUME After = {} PROVE FALSE
      OBVIOUS
    <3>1. \A j \in places : j < i \/ j = i
      BY <1>0
    <3>2. places = Below(i) \cup {i} /\ i \notin Below(i)
      BY <1>0, <3>1
    <3>3. IsFiniteSet(Below(i))
      BY <1>2
    <3> HIDE DEF Below
    <3>4. Cardinality(Below(i) \cup {i}) = Cardinality(Below(i)) + 1
      BY <3>2, <3>3, FS_AddElement
    <3>5. size = m
      BY <2>1, <3>2, <3>4
    <3> QED BY <1>1, <1>4, <3>5
  <2>3. Min(After) \in After /\ \A x \in After : Min(After) <= x
    <3>1. After \in SUBSET Nat
      BY <1>0
    <3> QED BY <2>2, <3>1, LeastIs
  <2> DEFINE next == Min(After)
  <2> HIDE DEF next
  <2>4. /\ next \in places /\ i < next
        /\ \A x \in places : i < x => next <= x
    BY <2>3 DEF next
  <2>5. Below(next) = Below(i) \cup {i} /\ i \notin Below(i)
    <3>1. \A j \in places : j < next <=> j < i \/ j = i
      BY <1>0, <2>4
    <3>2. ~(i < i)
      BY <1>0
    <3> QED BY <2>4, <3>1, <3>2
  <2>6. IsFiniteSet(Below(i))
    BY <1>2
  <2> HIDE DEF Below
  <2>7. Cardinality(Below(i) \cup {i}) = Cardinality(Below(i)) + 1
    BY <2>5, <2>6, FS_AddElement
  <2>8. Cardinality(Below(next)) = (m + 1) - 1
    BY <1>4, <2>1, <2>5, <2>7
  <2> QED BY <2>4, <2>8
<1>5. Bad = {}
  <2> SUFFICES ASSUME Bad # {} PROVE FALSE
    OBVIOUS
  <2> DEFINE m == Min(Bad)
  <2>1. m \in Bad /\ \A x \in Bad : m <= x
    <3>1. Bad \in SUBSET Nat
      OBVIOUS
    <3> HIDE DEF Bad
    <3> QED BY <3>1, LeastIs
  <2>2. m \in 1..size /\ ~Is(m) /\ m \in Nat
    BY <2>1
  <2> HIDE DEF Is, m
  <2>3. \A x \in Nat : x \in 1..size /\ x < m => Is(x)
    BY <2>1, <2>2
  <2> HIDE DEF Bad
  <2>4. CASE m = 1
    BY <1>1, <1>3, <2>2, <2>4
  <2>5. CASE m # 1
    <3> DEFINE p == m - 1
    <3>1. p \in Nat /\ p >= 1 /\ p + 1 <= size /\ p + 1 = m /\ p < m /\ p \in 1..size
      BY <1>1, <2>2, <2>5
    <3>2. Is(p)
      BY <2>3, <3>1
    <3>3. Is(p + 1)
      BY <1>4, <3>1, <3>2
    <3> QED BY <2>2, <3>1, <3>3
  <2> QED BY <2>4, <2>5
<1>6. Is(k)
  <2> HIDE DEF Is
  <2>1. k \in 1..size
    OBVIOUS
  <2> HIDE DEF size
  <2> QED BY <1>1, <1>5, <2>1
<1> QED BY <1>6 DEF Nth

\* What Keep keeps: members at the given places, each place once.
LEMMA KeepIs ==
  ASSUME NEW s, NEW n \in Nat, NEW places \in SUBSET (1..n)
  PROVE  /\ Cardinality(places) \in Nat
         /\ DOMAIN Keep(s, places) = 1..Cardinality(places)
         /\ \A k \in 1..Cardinality(places) :
              Nth(places, k) \in places /\ Keep(s, places)[k] = s[Nth(places, k)]
         /\ places # {} => Cardinality(places) # 0
<1>1. IsFiniteSet(places) /\ Cardinality(places) \in Nat
  BY FinitePlaces
<1>2. \A k \in 1..Cardinality(places) : Nth(places, k) \in places
  BY NthIs
<1>3. places # {} => Cardinality(places) # 0
  BY <1>1, FS_EmptySet
<1> QED BY <1>1, <1>2, <1>3 DEF Keep

\* Different positions of a kept list hold different places.
LEMMA KeptOnce ==
  ASSUME NEW n \in Nat, NEW places \in SUBSET (1..n),
         NEW k \in 1..Cardinality(places), NEW l \in 1..Cardinality(places),
         Nth(places, k) = Nth(places, l)
  PROVE  k = l
<1>1. Cardinality({j \in places : j < Nth(places, k)}) = k - 1
  BY NthIs
<1>2. Cardinality({j \in places : j < Nth(places, l)}) = l - 1
  BY NthIs
<1>3. k - 1 = l - 1
  BY <1>1, <1>2
<1>4. Cardinality(places) \in Nat
  BY FinitePlaces
<1>5. k \in Int /\ l \in Int
  BY <1>4
<1> QED BY <1>3, <1>5

\* Lists of different members of a set.
Lists(S) == {s \in Seq(S) : \A i, j \in DOMAIN s : s[i] = s[j] => i = j}

\* Keeping places of a list gives a list.
LEMMA KeepList ==
  ASSUME NEW S, NEW s \in Lists(S), NEW places \in SUBSET DOMAIN s
  PROVE  /\ Keep(s, places) \in Lists(S)
         /\ \A k \in DOMAIN Keep(s, places) :
              \E i \in places : Keep(s, places)[k] = s[i]
         /\ Len(Keep(s, places)) = Cardinality(places)
         /\ Cardinality(places) \in Nat
<1> DEFINE n == Len(s)
           size == Cardinality(places)
           kept == Keep(s, places)
<1>1. n \in Nat /\ DOMAIN s = 1..n /\ s \in Seq(S)
  BY DEF Lists
<1> HIDE DEF n
<1>2. places \in SUBSET (1..n)
  BY <1>1
<1>3. size \in Nat /\ DOMAIN kept = 1..size
  BY <1>1, <1>2, KeepIs
<1>4. \A k \in 1..size : Nth(places, k) \in places /\ kept[k] = s[Nth(places, k)]
  BY <1>1, <1>2, KeepIs
<1>5. \A k, l \in 1..size : Nth(places, k) = Nth(places, l) => k = l
  BY <1>1, <1>2, KeptOnce
<1>6. kept = [k \in 1..size |-> kept[k]]
  BY DEF Keep
<1> HIDE DEF kept, size
<1>7. \A k \in 1..size : kept[k] \in S
  BY <1>1, <1>2, <1>4
<1>8. kept \in Seq(S) /\ Len(kept) = size
  BY <1>3, <1>6, <1>7
<1>9. \A k, l \in DOMAIN kept : kept[k] = kept[l] => k = l
  <2> SUFFICES ASSUME NEW k \in 1..size, NEW l \in 1..size, kept[k] = kept[l]
               PROVE  k = l
    BY <1>3
  <2>1. s[Nth(places, k)] = s[Nth(places, l)]
    BY <1>4
  <2>2. Nth(places, k) \in DOMAIN s /\ Nth(places, l) \in DOMAIN s
    BY <1>4
  <2>3. Nth(places, k) = Nth(places, l)
    BY <2>1, <2>2 DEF Lists
  <2> QED BY <1>5, <2>3
<1>10. \A k \in DOMAIN kept : \E i \in places : kept[k] = s[i]
  BY <1>3, <1>4
<1> QED BY <1>3, <1>8, <1>9, <1>10 DEF Lists, kept, size

\* A part of a list is a list of some of its members.
LEMMA KeepPart ==
  ASSUME NEW S, NEW s \in Lists(S), NEW places \in SUBSET DOMAIN s
  PROVE  Keep(s, places) \in Lists(S) /\ ToSet(Keep(s, places)) \subseteq ToSet(s)
<1>1. Keep(s, places) \in Lists(S)
  BY KeepList
<1>2. \A k \in DOMAIN Keep(s, places) : \E i \in places : Keep(s, places)[k] = s[i]
  BY KeepList
<1> QED BY <1>1, <1>2 DEF ToSet

\* The members of a list.
LEMMA ListIs ==
  ASSUME NEW S, NEW s \in Lists(S)
  PROVE  /\ s \in Seq(S) /\ Len(s) \in Nat /\ DOMAIN s = 1..Len(s)
         /\ ToSet(s) \subseteq S
         /\ s = << >> <=> Len(s) = 0
         /\ \A i, j \in DOMAIN s : s[i] = s[j] => i = j
         /\ \A i \in DOMAIN s : s[i] \in S /\ s[i] \in ToSet(s)
BY DEF Lists, ToSet

\* The best of a list, and a list without somebody, are parts of it.
LEMMA ChosenPart ==
  ASSUME NEW S, NEW s \in Lists(S), NEW id
  PROVE  /\ HighestActivity(s) \in Lists(S)
         /\ ToSet(HighestActivity(s)) \subseteq ToSet(s)
         /\ LowestActivity(s) \in Lists(S)
         /\ ToSet(LowestActivity(s)) \subseteq ToSet(s)
         /\ LowestProduct(s) \in Lists(S)
         /\ ToSet(LowestProduct(s)) \subseteq ToSet(s)
         /\ Without(s, id) \in Lists(S)
         /\ ToSet(Without(s, id)) \subseteq ToSet(s) \ {id}
<1>1. HighestActivity(s) \in Lists(S)
      /\ ToSet(HighestActivity(s)) \subseteq ToSet(s)
  BY KeepPart DEF HighestActivity, Best
<1>2. LowestActivity(s) \in Lists(S)
      /\ ToSet(LowestActivity(s)) \subseteq ToSet(s)
  BY KeepPart DEF LowestActivity, Best
<1>3. LowestProduct(s) \in Lists(S)
      /\ ToSet(LowestProduct(s)) \subseteq ToSet(s)
  BY KeepPart DEF LowestProduct, Best
<1>4. Without(s, id) \in Lists(S) /\ ToSet(Without(s, id)) \subseteq ToSet(s)
  BY KeepPart DEF Without
<1>5. id \notin ToSet(Without(s, id))
  <2> DEFINE places == {i \in DOMAIN s : s[i] # id}
  <2>1. places \in SUBSET DOMAIN s /\ \A i \in places : s[i] # id
    OBVIOUS
  <2>2. Without(s, id) = Keep(s, places)
    BY DEF Without
  <2> HIDE DEF places
  <2>3. \A k \in DOMAIN Keep(s, places) :
          \E i \in places : Keep(s, places)[k] = s[i]
    BY <2>1, KeepList
  <2> QED BY <2>1, <2>2, <2>3 DEF ToSet
<1> QED BY <1>1, <1>2, <1>3, <1>4, <1>5

\* A draw from a list is a part of it, and takes nobody twice.
LEMMA PicksPart ==
  ASSUME NEW S, NEW s \in Lists(S), NEW n, NEW c \in Picks(s, n)
  PROVE  c \in Lists(S) /\ ToSet(c) \subseteq ToSet(s) /\ Len(c) = Size(s, n)
<1>1. PICK places \in SUBSET DOMAIN s :
        Cardinality(places) = Size(s, n) /\ c = Keep(s, places)
  BY DEF Picks
<1>2. Len(c) = Size(s, n)
  BY <1>1, KeepList
<1> QED BY <1>1, <1>2, KeepPart

\* toolSample, potionRandom: what is drawn is a list of different members.
LEMMA SamplesPart ==
  ASSUME NEW S, NEW s \in Lists(S), NEW n \in Nat, NEW c \in Samples(s, n)
  PROVE  c \in Lists(S) /\ ToSet(c) \subseteq ToSet(s) /\ Len(c) = Size(s, n)
<1> DEFINE size == Size(s, n)
<1>1. PICK p \in Injection(1..size, DOMAIN s) : c = [i \in 1..size |-> s[p[i]]]
  BY DEF Samples
<1>2. size \in Nat
  BY DEF Size, Lists
<1>3. p \in [1..size -> DOMAIN s]
      /\ \A a, b \in 1..size : p[a] = p[b] => a = b
  BY DEF Injection, IsInjective
<1>4. s \in Seq(S) /\ \A i, j \in DOMAIN s : s[i] = s[j] => i = j
  BY DEF Lists
<1> HIDE DEF size
<1>5. c \in Seq(S) /\ DOMAIN c = 1..size /\ Len(c) = size
  <2>1. \A i \in 1..size : s[p[i]] \in S
    BY <1>3, <1>4
  <2> QED BY <1>1, <1>2, <2>1
<1>6. \A i, j \in DOMAIN c : c[i] = c[j] => i = j
  BY <1>1, <1>3, <1>4, <1>5
<1>7. ToSet(c) \subseteq ToSet(s)
  BY <1>1, <1>3, <1>5 DEF ToSet
<1> QED BY <1>5, <1>6, <1>7 DEF Lists, size

-----------------------------------------------------------------------------
(* The board.                                                              *)

\* Every id on the board belongs to one slot.
LEMMA AtIs ==
  ASSUME Sound(slots, tools, nextId)
  PROVE  /\ \A i \in Board : /\ i \in 1..SlotCount /\ slots[i].id \in Ids
                             /\ At(slots[i].id) = i /\ M(slots[i].id) = slots[i]
         /\ \A id \in Ids : At(id) \in Board /\ M(id).id = id
                            /\ At(id) \in 1..SlotCount
<1>1. \A i \in Board : i \in 1..SlotCount /\ slots[i].id \in Ids
  BY DEF Board, Occupied, Ids
<1>2. \A i, j \in Board : slots[i].id = slots[j].id => i = j
  BY DEF Board, Sound
<1>3. \A id \in Ids : At(id) \in Board /\ slots[At(id)].id = id
  BY DEF At, Ids
<1>4. \A i \in Board : At(slots[i].id) = i
  BY <1>1, <1>2, <1>3
<1> QED BY <1>1, <1>3, <1>4 DEF M

\* The ids at some places.
IdsAt(places) ==
  LET found == Keep(slots, places) IN [i \in DOMAIN found |-> found[i].id]

\* The ids at some occupied slots, in slot order, are a list.
LEMMA IdsAtList ==
  ASSUME Sound(slots, tools, nextId), SlotCount \in Nat,
         NEW places \in SUBSET Board
  PROVE  /\ IdsAt(places) \in Lists(Ids)
         /\ \A id \in ToSet(IdsAt(places)) :
              \E i \in places : id = slots[i].id /\ M(id) = slots[i]
         /\ Len(IdsAt(places)) = Cardinality(places)
         /\ IdsAt(places) = << >> => places = {}
<1> DEFINE size == Cardinality(places)
           g == IdsAt(places)
<1>1. places \in SUBSET (1..SlotCount)
  BY DEF Board, Occupied
<1>2. size \in Nat /\ DOMAIN Keep(slots, places) = 1..size
      /\ (places # {} => size # 0)
  BY <1>1, KeepIs
<1>3. \A k \in 1..size :
        Nth(places, k) \in places /\ Keep(slots, places)[k] = slots[Nth(places, k)]
  BY <1>1, KeepIs
<1>4. \A k, l \in 1..size : Nth(places, k) = Nth(places, l) => k = l
  BY <1>1, KeptOnce
<1>5. g = [k \in 1..size |-> g[k]]
      /\ \A k \in 1..size : g[k] = slots[Nth(places, k)].id
  BY <1>2, <1>3 DEF IdsAt
<1> HIDE DEF g, size
<1>6. \A k \in 1..size : g[k] \in Ids
  BY <1>3, <1>5 DEF Ids
<1>7. g \in Seq(Ids) /\ Len(g) = size /\ DOMAIN g = 1..size
  BY <1>2, <1>5, <1>6
<1>8. \A k, l \in DOMAIN g : g[k] = g[l] => k = l
  <2> SUFFICES ASSUME NEW k \in 1..size, NEW l \in 1..size, g[k] = g[l]
               PROVE  k = l
    BY <1>7
  <2>1. Nth(places, k) \in Board /\ Nth(places, l) \in Board
    BY <1>3
  <2>2. Nth(places, k) = Nth(places, l)
    BY <1>5, <2>1, AtIs
  <2> QED BY <1>4, <2>2
<1>9. \A id \in ToSet(g) : \E i \in places : id = slots[i].id /\ M(id) = slots[i]
  <2> SUFFICES ASSUME NEW k \in 1..size
               PROVE  \E i \in places : g[k] = slots[i].id /\ M(g[k]) = slots[i]
    BY <1>7 DEF ToSet
  <2>1. Nth(places, k) \in Board /\ Nth(places, k) \in places
    BY <1>3
  <2> QED BY <1>5, <2>1, AtIs
<1>10. g = << >> => places = {}
  BY <1>2, <1>7
<1> QED BY <1>7, <1>8, <1>9, <1>10 DEF Lists, g, size

\* The groups that cards and tools choose from.
LEMMA GroupLists ==
  ASSUME Sound(slots, tools, nextId), SlotCount \in Nat
  PROVE  /\ All \in Lists(Ids) /\ (All = << >> => Ids = {})
         /\ \A f : /\ OfFamily(f) \in Lists(Ids)
                   /\ \A id \in ToSet(OfFamily(f)) : M(id).family = f
         /\ \A f : /\ Others(f) \in Lists(Ids)
                   /\ \A id \in ToSet(Others(f)) : M(id).family # f
         /\ \A r : /\ OfRarity(r) \in Lists(Ids)
                   /\ \A id \in ToSet(OfRarity(r)) : M(id).rarity = r
         /\ \A p : Pool(p) \in Lists(Ids)
<1>1. All = IdsAt(Board)
  BY DEF All, Group, IdsAt
<1>2. \A f : OfFamily(f) = IdsAt({i \in Board : slots[i].family = f})
  BY DEF OfFamily, Group, IdsAt
<1>3. \A f : Others(f) = IdsAt({i \in Board : slots[i].family # f})
  BY DEF Others, Group, IdsAt
<1>4. \A r : OfRarity(r) = IdsAt({i \in Board : slots[i].rarity = r})
  BY DEF OfRarity, Group, IdsAt
<1>5. All \in Lists(Ids) /\ (All = << >> => Ids = {})
  BY <1>1, IdsAtList DEF Ids
<1>6. ASSUME NEW f
      PROVE  /\ OfFamily(f) \in Lists(Ids)
             /\ \A id \in ToSet(OfFamily(f)) : M(id).family = f
  <2> DEFINE places == {i \in Board : slots[i].family = f}
  <2>1. places \in SUBSET Board /\ \A i \in places : slots[i].family = f
    OBVIOUS
  <2>2. OfFamily(f) = IdsAt(places)
    BY <1>2
  <2> HIDE DEF places
  <2> QED BY <2>1, <2>2, IdsAtList
<1>7. ASSUME NEW f
      PROVE  /\ Others(f) \in Lists(Ids)
             /\ \A id \in ToSet(Others(f)) : M(id).family # f
  <2> DEFINE places == {i \in Board : slots[i].family # f}
  <2>1. places \in SUBSET Board /\ \A i \in places : slots[i].family # f
    OBVIOUS
  <2>2. Others(f) = IdsAt(places)
    BY <1>3
  <2> HIDE DEF places
  <2> QED BY <2>1, <2>2, IdsAtList
<1>8. ASSUME NEW r
      PROVE  /\ OfRarity(r) \in Lists(Ids)
             /\ \A id \in ToSet(OfRarity(r)) : M(id).rarity = r
  <2> DEFINE places == {i \in Board : slots[i].rarity = r}
  <2>1. places \in SUBSET Board /\ \A i \in places : slots[i].rarity = r
    OBVIOUS
  <2>2. OfRarity(r) = IdsAt(places)
    BY <1>4
  <2> HIDE DEF places
  <2> QED BY <2>1, <2>2, IdsAtList
<1> QED BY <1>5, <1>6, <1>7, <1>8 DEF Pool

-----------------------------------------------------------------------------
(* Programs: the tasks of a card or a tool.                                *)

\* A task that takes nobody and has been given members of a set only.
QuietTask(t, ids) == Shaped(t) /\ t.op \in Plain /\ Names(t) \subseteq ids

Quiet(p, ids) ==
  p \in Seq(ToSet(p)) /\ \A i \in DOMAIN p : QuietTask(p[i], ids)

\* A program that may be put before the end of the turn.
Fit(p, ids) ==
  /\ p \in Seq(ToSet(p))
  /\ \A i \in DOMAIN p : Shaped(p[i]) /\ p[i].op \in Plain \cup Taking
  /\ Found(p, ids)
  /\ Survived(p, ids)

\* A sequence is one over its own members.
LEMMA SeqOfOwn ==
  ASSUME NEW S, NEW s \in Seq(S)
  PROVE  s \in Seq(ToSet(s)) /\ Len(s) \in Nat /\ DOMAIN s = 1..Len(s)
<1>1. Len(s) \in Nat /\ DOMAIN s = 1..Len(s) /\ s = [i \in 1..Len(s) |-> s[i]]
  OBVIOUS
<1>2. \A i \in 1..Len(s) : s[i] \in ToSet(s)
  BY <1>1 DEF ToSet
<1> QED BY <1>1, <1>2

\* The members of a joint sequence.
LEMMA JoinIs ==
  ASSUME NEW S, NEW T, NEW p \in Seq(S), NEW q \in Seq(T)
  PROVE  /\ p \o q \in Seq(ToSet(p \o q))
         /\ Len(p \o q) = Len(p) + Len(q)
         /\ DOMAIN (p \o q) = 1..(Len(p) + Len(q))
         /\ \A i \in 1..Len(p) : (p \o q)[i] = p[i]
         /\ \A i \in 1..Len(q) : (p \o q)[Len(p) + i] = q[i]
         /\ \A i \in 1..(Len(p) + Len(q)) :
              i \in 1..Len(p) \/ (i > Len(p) /\ i - Len(p) \in 1..Len(q)
                                   /\ (p \o q)[i] = q[i - Len(p)])
<1>1. p \in Seq(S \cup T) /\ q \in Seq(S \cup T)
  OBVIOUS
<1>2. p \o q \in Seq(S \cup T)
  BY <1>1
<1>3. p \o q \in Seq(ToSet(p \o q))
  BY <1>2, SeqOfOwn
<1>4. Len(p \o q) = Len(p) + Len(q) /\ DOMAIN (p \o q) = 1..(Len(p) + Len(q))
  BY <1>1
<1>5. \A i \in 1..Len(p) : (p \o q)[i] = p[i]
  BY <1>1
<1>6. \A i \in 1..(Len(p) + Len(q)) :
        i \in 1..Len(p) \/ (i > Len(p) /\ i - Len(p) \in 1..Len(q)
                             /\ (p \o q)[i] = q[i - Len(p)])
  BY <1>1
<1>7. \A i \in 1..Len(q) : (p \o q)[Len(p) + i] = q[i]
  BY <1>1
<1> QED BY <1>3, <1>4, <1>5, <1>6, <1>7

\* Tasks by their kind.
LEMMA Tasks ==
  ASSUME NEW ids, NEW id \in ids, NEW a, NEW q, NEW f, NEW r, NEW n
  PROVE  /\ QuietTask(Buff(id, a, q), ids)
         /\ QuietTask(Mutate(id, f, r), ids)
         /\ QuietTask(Awaken(id, r, n), ids)
         /\ QuietTask(AddTwin(id), ids)
BY DEF QuietTask, Shaped, Names, Plain, Taking, Buff, Mutate, Awaken, AddTwin

\* Tasks that name nobody are quiet whoever is on the board.
LEMMA TasksForAll ==
  ASSUME NEW ids, NEW p, NEW n, NEW a, NEW q, NEW f, NEW r
  PROVE  /\ QuietTask(BuffAll(p, a, q), ids)
         /\ QuietTask(BuffSome(p, n, a, q), ids)
         /\ QuietTask(Add(f, r, a, q), ids)
         /\ QuietTask([Add(f, r, a, q) EXCEPT !.spill = <<BuffAll("INSECT", 10, 10)>>], ids)
         /\ QuietTask(Tick, ids)
         /\ QuietTask(Overflow, ids)
<1>1. QuietTask(BuffAll(p, a, q), ids) /\ QuietTask(BuffSome(p, n, a, q), ids)
  BY DEF QuietTask, Shaped, Names, Plain, Taking, BuffAll, BuffSome
<1>2. QuietTask(Add(f, r, a, q), ids)
  BY DEF QuietTask, Shaped, Names, Plain, Taking, Add
<1>3. QuietTask([Add(f, r, a, q) EXCEPT !.spill = <<BuffAll("INSECT", 10, 10)>>], ids)
  BY DEF QuietTask, Shaped, Names, Plain, Taking, Add
<1>4. QuietTask(Tick, ids) /\ QuietTask(Overflow, ids)
  BY DEF QuietTask, Shaped, Names, Plain, Taking, Tick, Overflow
<1> QED BY <1>1, <1>2, <1>3, <1>4

\* A sequence of n tasks.
LEMMA QuietIs ==
  ASSUME NEW ids, NEW n \in Nat, NEW p, p = [i \in 1..n |-> p[i]],
         \A i \in 1..n : QuietTask(p[i], ids)
  PROVE  Quiet(p, ids) /\ Len(p) = n
<1>1. \A i \in 1..n : p[i] \in ToSet(p)
  BY DEF ToSet
<1>2. p \in Seq(ToSet(p)) /\ DOMAIN p = 1..n /\ Len(p) = n
  BY <1>1
<1> QED BY <1>2 DEF Quiet

\* Quiet programs one after the other are quiet.
LEMMA QuietJoin ==
  ASSUME NEW ids, NEW p, NEW q, Quiet(p, ids), Quiet(q, ids)
  PROVE  Quiet(p \o q, ids)
<1>1. p \in Seq(ToSet(p)) /\ q \in Seq(ToSet(q))
      /\ (\A i \in DOMAIN p : QuietTask(p[i], ids))
      /\ (\A i \in DOMAIN q : QuietTask(q[i], ids))
  BY DEF Quiet
<1>2. p \o q \in Seq(ToSet(p \o q)) /\ DOMAIN (p \o q) = 1..(Len(p) + Len(q))
      /\ Len(p) \in Nat /\ Len(q) \in Nat
      /\ DOMAIN p = 1..Len(p) /\ DOMAIN q = 1..Len(q)
  BY <1>1, JoinIs
<1>3. \A i \in 1..Len(p) : (p \o q)[i] = p[i]
  BY <1>1, JoinIs
<1>4. \A i \in 1..(Len(p) + Len(q)) :
        i \in 1..Len(p) \/ (i - Len(p) \in 1..Len(q) /\ (p \o q)[i] = q[i - Len(p)])
  BY <1>1, JoinIs
<1>5. \A i \in 1..(Len(p) + Len(q)) : QuietTask((p \o q)[i], ids)
  BY <1>1, <1>2, <1>3, <1>4
<1> QED BY <1>2, <1>5 DEF Quiet

\* Short programs.
LEMMA QuietShort ==
  ASSUME NEW ids
  PROVE  /\ Quiet(<< >>, ids)
         /\ \A t : QuietTask(t, ids) => Quiet(<<t>>, ids)
         /\ \A t, u : QuietTask(t, ids) /\ QuietTask(u, ids) => Quiet(<<t, u>>, ids)
         /\ \A t, u, v :
              QuietTask(t, ids) /\ QuietTask(u, ids) /\ QuietTask(v, ids)
                => Quiet(<<t, u, v>>, ids)
         /\ \A t, u, v, w :
              QuietTask(t, ids) /\ QuietTask(u, ids) /\ QuietTask(v, ids)
                /\ QuietTask(w, ids)
                => Quiet(<<t, u, v, w>>, ids)
BY DEF Quiet, ToSet

\* The tasks for a list of monsters.
LEMMA QuietBuffs ==
  ASSUME NEW ids, NEW s \in Seq(ids), NEW a, NEW q
  PROVE  Quiet(BuffEach(s, a, q), ids) /\ Len(BuffEach(s, a, q)) = Len(s)
<1>1. Len(s) \in Nat /\ DOMAIN s = 1..Len(s) /\ \A i \in 1..Len(s) : s[i] \in ids
  OBVIOUS
<1> DEFINE p == BuffEach(s, a, q)
<1>2. /\ p = [i \in 1..Len(s) |-> p[i]]
      /\ \A i \in 1..Len(s) : p[i] = Buff(s[i], a, q)
  BY <1>1 DEF BuffEach, Each
<1> HIDE DEF p
<1>3. \A i \in 1..Len(s) : QuietTask(p[i], ids)
  BY <1>1, <1>2, Tasks
<1>4. Quiet(p, ids) /\ Len(p) = Len(s)
  BY <1>1, <1>2, <1>3, QuietIs
<1> QED BY <1>4 DEF p

\* The same task several times.
LEMMA QuietRepeat ==
  ASSUME NEW ids, NEW n \in Nat, NEW t, QuietTask(t, ids)
  PROVE  Quiet(Repeat(n, t), ids) /\ Len(Repeat(n, t)) = n
<1>1. Repeat(n, t) = [i \in 1..n |-> Repeat(n, t)[i]]
      /\ \A i \in 1..n : Repeat(n, t)[i] = t
  BY DEF Repeat
<1> QED BY <1>1, QuietIs

\* A quiet program fits wherever there is somebody.
LEMMA QuietFits ==
  ASSUME NEW ids, ids # {}, NEW p, Quiet(p, ids)
  PROVE  Fit(p, ids)
<1>1. \A i \in DOMAIN p : Shaped(p[i]) /\ p[i].op \in Plain /\ Names(p[i]) \subseteq ids
  BY DEF Quiet, QuietTask
<1>2. \A i \in DOMAIN p : Kills(p[i]) = {}
  BY <1>1 DEF Kills, Plain
<1>3. Found(p, ids)
  BY <1>1, <1>2 DEF Found
<1>4. Survived(p, ids)
  BY <1>2 DEF Survived
<1> QED BY <1>1, <1>3, <1>4 DEF Fit, Quiet

\* Removals for a list of monsters, each of which is named once.
LEMMA RemovalsAre ==
  ASSUME NEW ids, NEW r \in Lists(ids)
  PROVE  /\ RemoveEach(r) \in Seq(ToSet(RemoveEach(r)))
         /\ Len(RemoveEach(r)) = Len(r) /\ DOMAIN RemoveEach(r) = 1..Len(r)
         /\ Len(r) \in Nat
         /\ \A i \in 1..Len(r) :
              LET t == RemoveEach(r)[i]
              IN /\ Shaped(t) /\ t.op = "remove"
                 /\ Names(t) = {r[i]} /\ Kills(t) = {r[i]} /\ r[i] \in ids
                 /\ r[i] \in ToSet(r)
         /\ \A i, j \in 1..Len(r) : r[i] = r[j] => i = j
<1>1. /\ Len(r) \in Nat /\ DOMAIN r = 1..Len(r)
      /\ \A i, j \in DOMAIN r : r[i] = r[j] => i = j
      /\ \A i \in DOMAIN r : r[i] \in ids /\ r[i] \in ToSet(r)
  BY ListIs
<1> DEFINE p == RemoveEach(r)
<1>2. /\ p = [i \in 1..Len(r) |-> p[i]]
      /\ \A i \in 1..Len(r) : p[i] = Remove1(r[i])
  BY <1>1 DEF RemoveEach, Each
<1>3. \A id : Shaped(Remove1(id)) /\ Remove1(id).op = "remove"
              /\ Names(Remove1(id)) = {id} /\ Kills(Remove1(id)) = {id}
  BY DEF Shaped, Remove1, Names, Kills, Plain, Taking
<1>4. p \in Seq(ToSet(p)) /\ Len(p) = Len(r) /\ DOMAIN p = 1..Len(r)
  <2> HIDE DEF p
  <2>1. \A i \in 1..Len(r) : p[i] \in ToSet(p)
    BY <1>2 DEF ToSet
  <2> QED BY <1>1, <1>2, <2>1
<1> HIDE DEF p
<1>5. \A i \in 1..Len(r) :
        LET t == p[i]
        IN /\ Shaped(t) /\ t.op = "remove"
           /\ Names(t) = {r[i]} /\ Kills(t) = {r[i]} /\ r[i] \in ids
           /\ r[i] \in ToSet(r)
  BY <1>1, <1>2, <1>3
<1> QED BY <1>1, <1>4, <1>5 DEF p

\* What quiet tasks are.
LEMMA QuietAre ==
  ASSUME NEW ids, NEW p, Quiet(p, ids)
  PROVE  /\ p \in Seq(ToSet(p)) /\ Len(p) \in Nat /\ DOMAIN p = 1..Len(p)
         /\ \A i \in 1..Len(p) : /\ Shaped(p[i]) /\ p[i].op \in Plain
                                 /\ Names(p[i]) \subseteq ids /\ Kills(p[i]) = {}
BY DEF Quiet, QuietTask, Kills, Plain

\* First something quiet, then removals that leave somebody.
LEMMA ThenRemove ==
  ASSUME NEW ids, NEW p, Quiet(p, ids), NEW r \in Lists(ids),
         NEW keeper \in ids \ ToSet(r)
  PROVE  Fit(p \o RemoveEach(r), ids)
<1> DEFINE q == RemoveEach(r)
           s == p \o q
           m == Len(p)
           n == Len(r)
<1>1. /\ p \in Seq(ToSet(p)) /\ m \in Nat
      /\ \A i \in 1..m : /\ Shaped(p[i]) /\ p[i].op \in Plain
                         /\ Names(p[i]) \subseteq ids /\ Kills(p[i]) = {}
  BY QuietAre
<1>2. /\ q \in Seq(ToSet(q)) /\ Len(q) = n /\ n \in Nat
      /\ \A i \in 1..n : /\ Shaped(q[i]) /\ q[i].op = "remove"
                         /\ Names(q[i]) = {r[i]} /\ Kills(q[i]) = {r[i]}
                         /\ r[i] \in ids /\ r[i] \in ToSet(r)
      /\ \A i, j \in 1..n : r[i] = r[j] => i = j
  BY RemovalsAre
<1> HIDE DEF q, n
<1>2a. p \in Seq(ToSet(p)) /\ q \in Seq(ToSet(q))
  BY <1>1, <1>2
<1>3. /\ s \in Seq(ToSet(s)) /\ DOMAIN s = 1..(m + n)
      /\ \A i \in 1..m : s[i] = p[i]
      /\ \A i \in 1..(m + n) :
           i \in 1..m \/ (i > m /\ i - m \in 1..n /\ s[i] = q[i - m])
  <2>1. s \in Seq(ToSet(s)) /\ DOMAIN s = 1..(m + Len(q))
    BY <1>2a, JoinIs
  <2>2. \A i \in 1..m : s[i] = p[i]
    BY <1>2a, JoinIs
  <2>3. \A i \in 1..(m + Len(q)) :
          i \in 1..m \/ (i > m /\ i - m \in 1..Len(q) /\ s[i] = q[i - m])
    BY <1>2a, JoinIs
  <2> QED BY <1>2, <2>1, <2>2, <2>3
<1> HIDE DEF s, m
<1>4. \A i \in 1..(m + n) :
        \/ /\ i \in 1..m /\ Shaped(s[i]) /\ s[i].op \in Plain
           /\ Names(s[i]) \subseteq ids /\ Kills(s[i]) = {}
        \/ /\ i > m /\ i - m \in 1..n /\ Shaped(s[i]) /\ s[i].op = "remove"
           /\ Names(s[i]) = {r[i - m]} /\ Kills(s[i]) = {r[i - m]}
           /\ r[i - m] \in ids /\ r[i - m] \in ToSet(r)
  <2> SUFFICES ASSUME NEW i \in 1..(m + n), ~(i \in 1..m)
               PROVE  /\ i > m /\ i - m \in 1..n /\ Shaped(s[i])
                      /\ s[i].op = "remove"
                      /\ Names(s[i]) = {r[i - m]} /\ Kills(s[i]) = {r[i - m]}
                      /\ r[i - m] \in ids /\ r[i - m] \in ToSet(r)
    BY <1>1, <1>3
  <2>1. i > m /\ i - m \in 1..n /\ s[i] = q[i - m]
    BY <1>3
  <2> QED BY <1>2, <2>1
<1>5. \A i \in DOMAIN s : Names(s[i]) \subseteq ids
  BY <1>3, <1>4
<1>6. \A i, j \in DOMAIN s : i < j => Kills(s[i]) \cap Names(s[j]) = {}
  <2> SUFFICES ASSUME NEW i \in 1..(m + n), NEW j \in 1..(m + n), i < j
               PROVE  Kills(s[i]) \cap Names(s[j]) = {}
    BY <1>3
  <2>1. CASE i \in 1..m
    <3>1. ~(i > m)
      BY <1>1, <2>1
    <3> QED BY <1>4, <3>1
  <2>2. CASE i > m
    <3>1. j > m /\ i - m # j - m
      BY <1>1, <1>2, <2>2
    <3>2. ~(i \in 1..m) /\ ~(j \in 1..m)
      BY <1>1, <1>2, <2>2, <3>1
    <3>3. Kills(s[i]) = {r[i - m]} /\ Names(s[j]) = {r[j - m]}
          /\ i - m \in 1..n /\ j - m \in 1..n
      BY <1>4, <3>2
    <3>4. r[i - m] # r[j - m]
      BY <1>2, <3>1, <3>3
    <3> QED BY <3>3, <3>4
  <2> QED BY <1>1, <1>2, <2>1, <2>2
<1>7. \A i \in DOMAIN s : keeper \notin Kills(s[i])
  BY <1>3, <1>4
<1>8. \A i \in DOMAIN s : Shaped(s[i]) /\ s[i].op \in Plain \cup Taking
  BY <1>3, <1>4 DEF Taking
<1>9. Fit(s, ids)
  BY <1>3, <1>5, <1>6, <1>7, <1>8 DEF Fit, Found, Survived
<1> QED BY <1>9 DEF s, q

\* First removals, then something that names nobody and brings somebody, or
\* removals that leave somebody.
LEMMA RemoveThen ==
  ASSUME NEW ids, NEW r \in Lists(ids), NEW q, Quiet(q, {}),
         \/ \E keeper \in ids : keeper \notin ToSet(r)
         \/ \E k \in DOMAIN q : Brings(q[k])
  PROVE  Fit(RemoveEach(r) \o q, ids)
<1> DEFINE p == RemoveEach(r)
           s == p \o q
           m == Len(r)
           n == Len(q)
<1>1. /\ q \in Seq(ToSet(q)) /\ n \in Nat /\ DOMAIN q = 1..n
      /\ \A i \in 1..n : /\ Shaped(q[i]) /\ q[i].op \in Plain
                         /\ Names(q[i]) \subseteq {} /\ Kills(q[i]) = {}
  BY QuietAre
<1>2. /\ p \in Seq(ToSet(p)) /\ Len(p) = m /\ m \in Nat
      /\ \A i \in 1..m : /\ Shaped(p[i]) /\ p[i].op = "remove"
                         /\ Names(p[i]) = {r[i]} /\ Kills(p[i]) = {r[i]}
                         /\ r[i] \in ids /\ r[i] \in ToSet(r)
      /\ \A i, j \in 1..m : r[i] = r[j] => i = j
  BY RemovalsAre
<1> HIDE DEF p, m
<1>2a. p \in Seq(ToSet(p)) /\ q \in Seq(ToSet(q))
  BY <1>1, <1>2
<1>3. /\ s \in Seq(ToSet(s)) /\ DOMAIN s = 1..(m + n)
      /\ \A i \in 1..m : s[i] = p[i]
      /\ \A i \in 1..n : s[m + i] = q[i]
      /\ \A i \in 1..(m + n) :
           i \in 1..m \/ (i > m /\ i - m \in 1..n /\ s[i] = q[i - m])
  <2>1. s \in Seq(ToSet(s)) /\ DOMAIN s = 1..(Len(p) + n)
    BY <1>2a, JoinIs
  <2>2. \A i \in 1..Len(p) : s[i] = p[i]
    BY <1>2a, JoinIs
  <2>3. \A i \in 1..n : s[Len(p) + i] = q[i]
    BY <1>2a, JoinIs
  <2>4. \A i \in 1..(Len(p) + n) :
          i \in 1..Len(p) \/ (i > Len(p) /\ i - Len(p) \in 1..n
                                /\ s[i] = q[i - Len(p)])
    BY <1>2a, JoinIs
  <2> QED BY <1>2, <2>1, <2>2, <2>3, <2>4
<1> HIDE DEF s, n
<1>4. \A i \in 1..(m + n) :
        \/ /\ i \in 1..m /\ Shaped(s[i]) /\ s[i].op = "remove"
           /\ Names(s[i]) = {r[i]} /\ Kills(s[i]) = {r[i]}
           /\ r[i] \in ids /\ r[i] \in ToSet(r)
        \/ /\ i > m /\ Shaped(s[i]) /\ s[i].op \in Plain
           /\ Names(s[i]) = {} /\ Kills(s[i]) = {}
  <2> SUFFICES ASSUME NEW i \in 1..(m + n), ~(i \in 1..m)
               PROVE  /\ i > m /\ Shaped(s[i]) /\ s[i].op \in Plain
                      /\ Names(s[i]) = {} /\ Kills(s[i]) = {}
    BY <1>2, <1>3
  <2>1. i > m /\ i - m \in 1..n /\ s[i] = q[i - m]
    BY <1>3
  <2> QED BY <1>1, <2>1
<1>5. \A i \in DOMAIN s : Names(s[i]) \subseteq ids
  BY <1>3, <1>4
<1>6. \A i, j \in DOMAIN s : i < j => Kills(s[i]) \cap Names(s[j]) = {}
  <2> SUFFICES ASSUME NEW i \in 1..(m + n), NEW j \in 1..(m + n), i < j
               PROVE  Kills(s[i]) \cap Names(s[j]) = {}
    BY <1>3
  <2>1. i # j
    BY <1>1, <1>2
  <2>2. CASE i \in 1..m /\ j \in 1..m
    <3>1. ~(i > m) /\ ~(j > m)
      BY <1>2, <2>2
    <3>2. Kills(s[i]) = {r[i]} /\ Names(s[j]) = {r[j]}
      BY <1>4, <3>1
    <3> QED BY <1>2, <2>1, <2>2, <3>2
  <2>3. CASE ~(i \in 1..m /\ j \in 1..m)
    BY <1>4, <2>3
  <2> QED BY <2>2, <2>3
<1>7. Survived(s, ids)
  <2>1. CASE \E keeper \in ids : keeper \notin ToSet(r)
    <3>1. PICK keeper \in ids : keeper \notin ToSet(r)
      BY <2>1
    <3>2. \A i \in DOMAIN s : keeper \notin Kills(s[i])
      BY <1>3, <1>4, <3>1
    <3> QED BY <3>2 DEF Survived
  <2>2. CASE \E k \in DOMAIN q : Brings(q[k])
    <3>1. PICK k \in 1..n : Brings(q[k])
      BY <1>1, <2>2
    <3>2. m + k \in DOMAIN s /\ s[m + k] = q[k]
      BY <1>1, <1>2, <1>3
    <3>3. \A j \in DOMAIN s : j > m + k => s[j].op \notin Taking
      <4> SUFFICES ASSUME NEW j \in 1..(m + n), j > m + k
                   PROVE  s[j].op \notin Taking
        BY <1>3
      <4>1. ~(j \in 1..m)
        BY <1>1, <1>2
      <4> QED BY <1>4, <4>1 DEF Plain, Taking
    <3> QED BY <3>1, <3>2, <3>3 DEF Survived
  <2> QED BY <2>1, <2>2
<1>8. \A i \in DOMAIN s : Shaped(s[i]) /\ s[i].op \in Plain \cup Taking
  BY <1>3, <1>4 DEF Taking
<1>9. Fit(s, ids)
  BY <1>3, <1>5, <1>6, <1>7, <1>8 DEF Fit, Found
<1> QED BY <1>9 DEF s, p

\* Every second place.
LEMMA Halves ==
  ASSUME NEW n \in Nat
  PROVE  /\ \A k \in 1..(2 * n) : k % 2 = 1 => (k + 1) \div 2 \in 1..n
         /\ \A k, l \in 1..(2 * n) :
              k % 2 = 1 /\ l % 2 = 1 /\ (k + 1) \div 2 = (l + 1) \div 2 => k = l
OBVIOUS

\* Removals, each followed by something that names nobody.
LEMMA RemoveAndThen ==
  ASSUME NEW ids, NEW r \in Lists(ids), NEW keeper \in ids \ ToSet(r),
         NEW after, QuietTask(after, {})
  PROVE  Fit(EachThen(r, LAMBDA id : Remove1(id), after), ids)
<1> DEFINE s == EachThen(r, LAMBDA id : Remove1(id), after)
           n == Len(r)
           h(k) == (k + 1) \div 2
<1>1. /\ n \in Nat /\ DOMAIN r = 1..n
      /\ \A i, j \in DOMAIN r : r[i] = r[j] => i = j
      /\ \A i \in DOMAIN r : r[i] \in ids /\ r[i] \in ToSet(r)
  BY ListIs
<1>2. /\ s = [k \in 1..(2 * n) |-> s[k]] /\ DOMAIN s = 1..(2 * n)
      /\ \A k \in 1..(2 * n) :
           IF k % 2 = 1 THEN s[k] = Remove1(r[h(k)]) ELSE s[k] = after
  BY DEF EachThen
<1>3. /\ \A k \in 1..(2 * n) : k % 2 = 1 => h(k) \in 1..n
      /\ \A k, l \in 1..(2 * n) :
           k % 2 = 1 /\ l % 2 = 1 /\ h(k) = h(l) => k = l
  BY <1>1, Halves
<1>4. \A id : Shaped(Remove1(id)) /\ Remove1(id).op = "remove"
              /\ Names(Remove1(id)) = {id} /\ Kills(Remove1(id)) = {id}
  BY DEF Shaped, Remove1, Names, Kills, Plain, Taking
<1>5. Shaped(after) /\ after.op \in Plain /\ Names(after) = {} /\ Kills(after) = {}
  BY DEF QuietTask, Kills, Plain
<1> HIDE DEF s, n, h
<1>6. s \in Seq(ToSet(s))
  <2>1. \A k \in 1..(2 * n) : s[k] \in ToSet(s)
    BY <1>2 DEF ToSet
  <2>2. 2 * n \in Nat
    BY <1>1
  <2> QED BY <1>2, <2>1, <2>2
<1>7. \A k \in 1..(2 * n) :
        \/ /\ k % 2 = 1 /\ h(k) \in DOMAIN r
           /\ Shaped(s[k]) /\ s[k].op = "remove"
           /\ Names(s[k]) = {r[h(k)]} /\ Kills(s[k]) = {r[h(k)]}
           /\ r[h(k)] \in ids /\ r[h(k)] \in ToSet(r)
        \/ /\ Shaped(s[k]) /\ s[k].op \in Plain
           /\ Names(s[k]) = {} /\ Kills(s[k]) = {}
  <2> SUFFICES ASSUME NEW k \in 1..(2 * n)
               PROVE  \/ /\ k % 2 = 1 /\ h(k) \in DOMAIN r
                         /\ Shaped(s[k]) /\ s[k].op = "remove"
                         /\ Names(s[k]) = {r[h(k)]} /\ Kills(s[k]) = {r[h(k)]}
                         /\ r[h(k)] \in ids /\ r[h(k)] \in ToSet(r)
                      \/ /\ Shaped(s[k]) /\ s[k].op \in Plain
                         /\ Names(s[k]) = {} /\ Kills(s[k]) = {}
    OBVIOUS
  <2>1. CASE k % 2 = 1
    <3>1. s[k] = Remove1(r[h(k)]) /\ h(k) \in DOMAIN r
      BY <1>1, <1>2, <1>3, <2>1
    <3> QED BY <1>1, <1>4, <2>1, <3>1
  <2>2. CASE ~(k % 2 = 1)
    BY <1>2, <1>5, <2>2
  <2> QED BY <2>1, <2>2
<1>8. \A i, j \in DOMAIN s : i < j => Kills(s[i]) \cap Names(s[j]) = {}
  <2> SUFFICES ASSUME NEW i \in 1..(2 * n), NEW j \in 1..(2 * n), i < j
               PROVE  Kills(s[i]) \cap Names(s[j]) = {}
    BY <1>2
  <2>1. i # j
    BY <1>1
  <2>2. CASE i % 2 = 1 /\ j % 2 = 1
    <3>1. h(i) # h(j)
      BY <1>3, <2>1, <2>2
    <3>2. r[h(i)] # r[h(j)] \/ ~(h(i) \in DOMAIN r /\ h(j) \in DOMAIN r)
      BY <1>1, <3>1
    <3> QED BY <1>7, <3>2
  <2>3. CASE ~(i % 2 = 1 /\ j % 2 = 1)
    BY <1>7, <2>3
  <2> QED BY <2>2, <2>3
<1>9. \A i \in DOMAIN s :
        /\ Shaped(s[i]) /\ s[i].op \in Plain \cup Taking
        /\ Names(s[i]) \subseteq ids /\ keeper \notin Kills(s[i])
  BY <1>2, <1>7 DEF Taking
<1>10. Fit(s, ids)
  BY <1>6, <1>8, <1>9 DEF Fit, Found, Survived
<1> QED BY <1>10 DEF s

\* Fusions of different members of a set, none of which is fused twice.
Fusing(p, members) ==
  /\ p \in Seq(ToSet(p))
  /\ \A i \in DOMAIN p :
       Shaped(p[i]) /\ p[i].op = "fuse" /\ ToSet(p[i].ids) \subseteq members
  /\ \A i, j \in DOMAIN p : i < j => ToSet(p[i].ids) \cap ToSet(p[j].ids) = {}

\* A program of fusions of different groups fits: each leaves a new monster.
LEMMA FusingFits ==
  ASSUME NEW ids, ids # {}, NEW p, Fusing(p, ids)
  PROVE  Fit(p, ids)
<1>1. \A i \in DOMAIN p : Names(p[i]) = ToSet(p[i].ids)
                          /\ Kills(p[i]) = ToSet(p[i].ids)
                          /\ Shaped(p[i]) /\ p[i].op = "fuse"
                          /\ ToSet(p[i].ids) \subseteq ids
  BY DEF Fusing, Names, Kills
<1>2. Found(p, ids)
  BY <1>1 DEF Found, Fusing
<1>3. p \in Seq(ToSet(p)) /\ Len(p) \in Nat /\ DOMAIN p = 1..Len(p)
  BY DEF Fusing
<1>4. Survived(p, ids)
  <2>1. CASE Len(p) = 0
    BY <1>3, <2>1 DEF Survived
  <2>2. CASE Len(p) # 0
    <3>1. Len(p) \in DOMAIN p /\ \A j \in DOMAIN p : ~(j > Len(p))
      BY <1>3, <2>2
    <3>2. Brings(p[Len(p)])
      BY <1>1, <3>1 DEF Brings
    <3> QED BY <3>1, <3>2 DEF Survived
  <2> QED BY <2>1, <2>2
<1> QED BY <1>1, <1>2, <1>3, <1>4 DEF Fit, Taking

\* One fusion of a list of monsters.
LEMMA FuseOne ==
  ASSUME NEW ids, NEW s \in Lists(ids), s # << >>, NEW f, NEW r
  PROVE  Fusing(<<Fuse(s, f, r)>>, ids)
<1>1. s \in Seq(ToSet(s)) /\ ToSet(s) \subseteq ids
  BY SeqOfOwn, ListIs DEF Lists
<1>2. Shaped(Fuse(s, f, r)) /\ Fuse(s, f, r).op = "fuse" /\ Fuse(s, f, r).ids = s
  BY <1>1 DEF Shaped, Fuse, Plain, Taking
<1> DEFINE p == <<Fuse(s, f, r)>>
<1>3. p \in Seq(ToSet(p)) /\ DOMAIN p = {1} /\ p[1] = Fuse(s, f, r)
  BY DEF ToSet
<1> HIDE DEF p
<1>4. Fusing(p, ids)
  BY <1>1, <1>2, <1>3 DEF Fusing
<1> QED BY <1>4 DEF p

\* Fusions of groups that have no monster in common.
LEMMA FuseJoin ==
  ASSUME NEW S, NEW T, NEW p, NEW q, Fusing(p, S), Fusing(q, T), S \cap T = {}
  PROVE  Fusing(p \o q, S \cup T)
<1> DEFINE s == p \o q
           m == Len(p)
           n == Len(q)
<1>1. /\ p \in Seq(ToSet(p)) /\ m \in Nat /\ DOMAIN p = 1..m
      /\ q \in Seq(ToSet(q)) /\ n \in Nat /\ DOMAIN q = 1..n
  BY DEF Fusing
<1>2. s \in Seq(ToSet(s)) /\ DOMAIN s = 1..(m + n)
  BY <1>1, JoinIs
<1>3. \A i \in 1..m : s[i] = p[i]
  BY <1>1, JoinIs
<1>4. \A i \in 1..(m + n) :
        i \in 1..m \/ (i > m /\ i - m \in 1..n /\ s[i] = q[i - m])
  BY <1>1, JoinIs
<1> HIDE DEF s, m, n
<1>5. \A i \in 1..(m + n) :
        \/ i \in DOMAIN p /\ s[i] = p[i]
        \/ i > m /\ i - m \in DOMAIN q /\ s[i] = q[i - m]
  BY <1>1, <1>3, <1>4
<1>6. \A i \in DOMAIN s :
        Shaped(s[i]) /\ s[i].op = "fuse" /\ ToSet(s[i].ids) \subseteq S \cup T
  BY <1>2, <1>5 DEF Fusing
<1>7. \A i, j \in DOMAIN s : i < j => ToSet(s[i].ids) \cap ToSet(s[j].ids) = {}
  <2> SUFFICES ASSUME NEW i \in 1..(m + n), NEW j \in 1..(m + n), i < j
               PROVE  ToSet(s[i].ids) \cap ToSet(s[j].ids) = {}
    BY <1>2
  <2>1. CASE i \in DOMAIN p /\ s[i] = p[i] /\ j \in DOMAIN p /\ s[j] = p[j]
    BY <2>1 DEF Fusing
  <2>2. CASE i \in DOMAIN p /\ s[i] = p[i] /\ j - m \in DOMAIN q /\ s[j] = q[j - m]
    <3>1. ToSet(p[i].ids) \subseteq S /\ ToSet(q[j - m].ids) \subseteq T
      BY <2>2 DEF Fusing
    <3> QED BY <2>2, <3>1
  <2>3. CASE /\ i > m /\ i - m \in DOMAIN q /\ s[i] = q[i - m]
             /\ j \in DOMAIN p /\ s[j] = p[j]
    BY <1>1, <2>3
  <2>4. CASE /\ i > m /\ i - m \in DOMAIN q /\ s[i] = q[i - m]
             /\ j > m /\ j - m \in DOMAIN q /\ s[j] = q[j - m]
    <3>1. i - m < j - m
      BY <1>1, <2>4
    <3>2. ToSet(q[i - m].ids) \cap ToSet(q[j - m].ids) = {}
      BY <2>4, <3>1 DEF Fusing
    <3> QED BY <2>4, <3>2
  <2> QED BY <1>5, <2>1, <2>2, <2>3, <2>4
<1>8. Fusing(s, S \cup T)
  BY <1>2, <1>6, <1>7 DEF Fusing
<1> QED BY <1>8 DEF s

\* The groups of three of a rarity.
LEMMA TriplesFuse ==
  ASSUME NEW ids, NEW r, OfRarity(r) \in Lists(ids)
  PROVE  Fusing(Triples(r), ToSet(OfRarity(r)))
<1> DEFINE g == OfRarity(r)
           n == Len(g)
           three(k) == SubSeq(g, 3 * k - 2, 3 * k)
           s == Triples(r)
<1>1. /\ g \in Seq(ids) /\ n \in Nat /\ DOMAIN g = 1..n
      /\ \A i, j \in DOMAIN g : g[i] = g[j] => i = j
      /\ \A i \in DOMAIN g : g[i] \in ToSet(g)
  BY ListIs
<1> DEFINE size == n \div 3
<1>2. size \in Nat /\ \A k \in 1..size : 3 * k - 2 \in 1..n /\ 3 * k \in 1..n
                                         /\ k \in Nat
  BY <1>1
<1>3. /\ s = [k \in 1..size |-> s[k]] /\ DOMAIN s = 1..size
      /\ \A k \in 1..size : s[k] = Fuse(three(k), Wild, r + 1)
  BY DEF Triples
<1> HIDE DEF g, n, size, s
<1>4. \A k \in 1..size :
        /\ three(k) \in Seq(ids) /\ Len(three(k)) = 3
        /\ \A i \in 1..3 : 3 * k - 3 + i \in DOMAIN g
                           /\ three(k)[i] = g[3 * k - 3 + i]
  BY <1>1, <1>2
<1> HIDE DEF three
<1>5. \A k \in 1..size :
        /\ three(k) \in Seq(ToSet(three(k))) /\ three(k) # << >>
        /\ \A id \in ToSet(three(k)) :
             \E j \in DOMAIN g : id = g[j] /\ 3 * k - 3 < j /\ j <= 3 * k
  <2> SUFFICES ASSUME NEW k \in 1..size
               PROVE  /\ three(k) \in Seq(ToSet(three(k))) /\ three(k) # << >>
                      /\ \A id \in ToSet(three(k)) :
                           \E j \in DOMAIN g :
                             id = g[j] /\ 3 * k - 3 < j /\ j <= 3 * k
    OBVIOUS
  <2>1. three(k) \in Seq(ids) /\ Len(three(k)) = 3 /\ DOMAIN three(k) = 1..3
    BY <1>4
  <2>2. three(k) \in Seq(ToSet(three(k)))
    BY <2>1, SeqOfOwn
  <2>3. ASSUME NEW i \in 1..3
        PROVE  \E j \in DOMAIN g :
                 three(k)[i] = g[j] /\ 3 * k - 3 < j /\ j <= 3 * k
    <3>1. 3 * k - 3 + i \in DOMAIN g /\ three(k)[i] = g[3 * k - 3 + i]
      BY <1>4
    <3>2. 3 * k - 3 < 3 * k - 3 + i /\ 3 * k - 3 + i <= 3 * k
      BY <1>2
    <3> QED BY <3>1, <3>2
  <2>4. \A id \in ToSet(three(k)) : \E i \in 1..3 : id = three(k)[i]
    BY <2>1 DEF ToSet
  <2>5. three(k) # << >>
    BY <2>1
  <2> QED BY <2>2, <2>3, <2>4, <2>5
<1>6. \A k, l \in 1..size : k < l => ToSet(three(k)) \cap ToSet(three(l)) = {}
  <2> SUFFICES ASSUME NEW k \in 1..size, NEW l \in 1..size, k < l,
                      NEW id \in ToSet(three(k)), id \in ToSet(three(l))
               PROVE  FALSE
    OBVIOUS
  <2>1. PICK i \in DOMAIN g : id = g[i] /\ 3 * k - 3 < i /\ i <= 3 * k
    BY <1>5
  <2>2. PICK j \in DOMAIN g : id = g[j] /\ 3 * l - 3 < j /\ j <= 3 * l
    BY <1>5
  <2>3. i = j
    BY <1>1, <2>1, <2>2
  <2> QED BY <1>1, <1>2, <2>1, <2>2, <2>3
<1>7. \A k \in 1..size : /\ Shaped(s[k]) /\ s[k].op = "fuse"
                         /\ s[k].ids = three(k)
                         /\ ToSet(three(k)) \subseteq ToSet(g)
  <2>1. \A t : t \in Seq(ToSet(t)) /\ t # << >> =>
          LET u == Fuse(t, Wild, r + 1)
          IN Shaped(u) /\ u.op = "fuse" /\ u.ids = t
    BY DEF Shaped, Fuse, Plain, Taking
  <2> QED BY <1>1, <1>3, <1>5, <2>1
<1>8. s \in Seq(ToSet(s))
  <2>1. \A k \in 1..size : s[k] \in ToSet(s)
    BY <1>3 DEF ToSet
  <2> QED BY <1>2, <1>3, <2>1
<1>9. Fusing(s, ToSet(g))
  BY <1>3, <1>6, <1>7, <1>8 DEF Fusing
<1> QED BY <1>9 DEF s, g

\* One monster devours another.
LEMMA DevourFits ==
  ASSUME NEW ids, NEW id \in ids, NEW prey \in ids \ {id}
  PROVE  Fit(<<Devour(id, prey)>>, ids)
<1> DEFINE t == Devour(id, prey)
           p == <<t>>
<1>1. /\ Shaped(t) /\ t.op = "devour" /\ Names(t) = {id, prey}
      /\ Kills(t) = {prey}
  BY DEF Shaped, Devour, Names, Kills, Plain, Taking
<1>2. p \in Seq(ToSet(p)) /\ DOMAIN p = {1} /\ p[1] = t
  BY DEF ToSet
<1> HIDE DEF p, t
<1>3. Found(p, ids) /\ Survived(p, ids)
  BY <1>1, <1>2 DEF Found, Survived
<1>4. Fit(p, ids)
  BY <1>1, <1>2, <1>3 DEF Fit, Taking
<1> QED BY <1>4 DEF p, t

\* Strengthening one or all of a list.
LEMMA BuffsQuiet ==
  ASSUME NEW ids, NEW s \in Lists(ids), NEW a, NEW q
  PROVE  /\ Quiet(BuffEach(s, a, q), ids)
         /\ Quiet(BuffEach(HighestActivity(s), a, q), ids)
         /\ Quiet(BuffEach(LowestActivity(s), a, q), ids)
         /\ \A p \in BuffOne(s, a, q) : Quiet(p, ids)
<1>1. \A g \in Lists(ids) : Quiet(BuffEach(g, a, q), ids)
  BY QuietBuffs DEF Lists
<1>2. HighestActivity(s) \in Lists(ids) /\ LowestActivity(s) \in Lists(ids)
  BY ChosenPart
<1>3. \A c \in Picks(s, 1) : c \in Lists(ids)
  BY PicksPart
<1> QED BY <1>1, <1>2, <1>3 DEF BuffOne

\* What is done on a condition is done or not.
LEMMA WhenIs ==
  ASSUME NEW c, NEW programs, NEW p \in When(c, programs)
  PROVE  p = << >> \/ (c /\ p \in programs)
BY DEF When

\* Tools that react to an event take nobody.
LEMMA ReactionsQuiet ==
  ASSUME Sound(slots, tools, nextId), SlotCount \in Nat,
         NEW h \in AllTools, Trigger(h) # "turn_end", NEW id,
         NEW p \in ToolProgram(h, id)
  PROVE  Quiet(p, Ids)
<1>1. h \in {"claw", "eye", "metatarsal", "marrow", "hatching_egg", "growth",
             "liver", "nail"}
  BY DEF Trigger, AllTools
<1>2. All \in Lists(Ids) /\ Quiet(<< >>, Ids)
  BY GroupLists, QuietShort
<1>3. \A a, q : /\ Quiet(BuffEach(All, a, q), Ids)
                /\ Quiet(BuffEach(HighestActivity(All), a, q), Ids)
                /\ Quiet(BuffEach(LowestActivity(All), a, q), Ids)
                /\ \A o \in BuffOne(All, a, q) : Quiet(o, Ids)
  BY <1>2, BuffsQuiet
<1>4. CASE h = "claw"
  <2>1. p \in When(removed # Empty /\ removed.family # "BONE", BuffOne(All, 0, 150))
    BY <1>4 DEF ToolProgram
  <2> QED BY <1>2, <1>3, <2>1, WhenIs
<1>5. CASE h = "eye"
  <2>1. p = BuffEach(HighestActivity(All), 20, 20)
    BY <1>5 DEF ToolProgram
  <2> QED BY <1>3, <2>1
<1>6. CASE h = "metatarsal"
  <2>1. p \in When(Len(OfFamily("BONE")) >= 2, BuffOne(All, 0, 180))
    BY <1>6 DEF ToolProgram
  <2> QED BY <1>2, <1>3, <2>1, WhenIs
<1>7. CASE h = "marrow"
  <2>1. p \in When(id \in Ids,
                   {<< >>, <<Mutate(id, "FIEND", Drawn), Buff(id, 80, 0)>>})
    BY <1>7 DEF ToolProgram
  <2>2. p = << >> \/ (id \in Ids
                        /\ p = <<Mutate(id, "FIEND", Drawn), Buff(id, 80, 0)>>)
    BY <2>1 DEF When
  <2>3. id \in Ids => QuietTask(Mutate(id, "FIEND", Drawn), Ids)
                      /\ QuietTask(Buff(id, 80, 0), Ids)
    BY Tasks
  <2> QED BY <1>2, <2>2, <2>3, QuietShort
<1>8. CASE h = "hatching_egg"
  <2>1. p \in When(Len(OfFamily("INSECT")) >= 2, {BuffEach(All, 0, 45)})
    BY <1>8 DEF ToolProgram
  <2> QED BY <1>2, <1>3, <2>1, WhenIs
<1>9. CASE h = "growth"
  <2>1. p \in When(id \in Ids /\ M(id).family = "FIEND", {BuffEach(All, 35, 0)})
    BY <1>9 DEF ToolProgram
  <2> QED BY <1>2, <1>3, <2>1, WhenIs
<1>10. CASE h = "liver"
  <2>1. p \in When(Len(OfFamily("FIEND")) >= 2, {BuffEach(All, 20, 0)})
    BY <1>10 DEF ToolProgram
  <2> QED BY <1>2, <1>3, <2>1, WhenIs
<1>11. CASE h = "nail"
  <2>1. p = BuffEach(LowestActivity(All), 25, 25)
    BY <1>11 DEF ToolProgram
  <2> QED BY <1>3, <2>1
<1> QED BY <1>1, <1>4, <1>5, <1>6, <1>7, <1>8, <1>9, <1>10, <1>11

\* One monster of each of some rarities.
LEMMA OneOfEachIs ==
  ASSUME Sound(slots, tools, nextId), SlotCount \in Nat,
         NEW rarities, NEW c \in OnePerRarity(rarities)
  PROVE  c \in Seq(Ids)
<1>1. \A r : \A d \in Picks(OfRarity(r), 1) : d \in Seq(Ids)
  BY GroupLists, PicksPart DEF Lists
<1>2. PICK g : /\ \A r \in Rarities :
                    g[r] \in IF r \in rarities THEN Picks(OfRarity(r), 1) ELSE {<< >>}
               /\ c = g[1] \o g[2] \o g[3] \o g[4]
  BY DEF OnePerRarity
<1>3. \A r \in Rarities : g[r] \in Seq(Ids)
  <2> SUFFICES ASSUME NEW r \in Rarities PROVE g[r] \in Seq(Ids)
    OBVIOUS
  <2>1. << >> \in Seq(Ids)
    OBVIOUS
  <2>2. g[r] \in Picks(OfRarity(r), 1) \/ g[r] = << >>
    BY <1>2
  <2> QED BY <1>1, <2>1, <2>2
<1>4. g[1] \in Seq(Ids) /\ g[2] \in Seq(Ids) /\ g[3] \in Seq(Ids) /\ g[4] \in Seq(Ids)
  BY <1>3 DEF Rarities, Normal, Boss
<1> QED BY <1>2, <1>4

\* Awakening some monsters.
LEMMA AwakenEach ==
  ASSUME NEW ids, NEW s \in Seq(ids)
  PROVE  Quiet(Each(s, LAMBDA i : Awaken(i, Drawn, 1)), ids)
<1> DEFINE p == Each(s, LAMBDA i : Awaken(i, Drawn, 1))
<1>1. Len(s) \in Nat /\ DOMAIN s = 1..Len(s) /\ \A i \in 1..Len(s) : s[i] \in ids
  OBVIOUS
<1>2. /\ p = [i \in 1..Len(s) |-> p[i]]
      /\ \A i \in 1..Len(s) : p[i] = Awaken(s[i], Drawn, 1)
  BY <1>1 DEF Each
<1> HIDE DEF p
<1>3. \A i \in 1..Len(s) : QuietTask(p[i], ids)
  BY <1>1, <1>2, Tasks
<1>4. Quiet(p, ids)
  BY <1>1, <1>2, <1>3, QuietIs
<1> QED BY <1>4 DEF p

\* The sinew takes the weakest of the others, and a bone guard stays.
LEMMA SinewFits ==
  ASSUME Sound(slots, tools, nextId), SlotCount \in Nat, Len(OfFamily("BONE")) >= 2,
         NEW p, p = Each(LowestActivity(Others("BONE")), LAMBDA low : Remove1(low))
                      \o Each(LowestActivity(Others("BONE")),
                              LAMBDA low : BuffSome("BONE", 1, M(low).activity, 0))
  PROVE  Fit(p, Ids)
<1> DEFINE low == LowestActivity(Others("BONE"))
           q == Each(low, LAMBDA l : BuffSome("BONE", 1, M(l).activity, 0))
<1>1. low \in Lists(Ids) /\ ToSet(low) \subseteq ToSet(Others("BONE"))
  BY GroupLists, ChosenPart
<1>2. p = RemoveEach(low) \o q
  BY DEF RemoveEach
<1> HIDE DEF low
<1>3. Len(low) \in Nat /\ DOMAIN low = 1..Len(low)
  BY <1>1, ListIs
<1>4. /\ q = [i \in 1..Len(low) |-> q[i]]
      /\ \A i \in 1..Len(low) : q[i] = BuffSome("BONE", 1, M(low[i]).activity, 0)
  BY <1>3 DEF Each
<1> HIDE DEF q
<1>5. \A i \in 1..Len(low) : QuietTask(q[i], {})
  <2>1. \A a : QuietTask(BuffSome("BONE", 1, a, 0), {})
    BY TasksForAll
  <2> QED BY <1>4, <2>1
<1>6. Quiet(q, {})
  BY <1>3, <1>4, <1>5, QuietIs
<1>7. OfFamily("BONE") \in Lists(Ids)
  BY GroupLists
<1> DEFINE keeper == OfFamily("BONE")[1]
<1>8. keeper \in ToSet(OfFamily("BONE")) /\ keeper \in Ids
  BY <1>7, ListIs
<1>9. M(keeper).family = "BONE"
  BY <1>8, GroupLists
<1>10. keeper \notin ToSet(Others("BONE"))
  BY <1>9, GroupLists
<1>11. \E k \in Ids : k \notin ToSet(low)
  BY <1>1, <1>8, <1>10
<1>12. Fit(RemoveEach(low) \o q, Ids)
  BY <1>1, <1>6, <1>11, RemoveThen
<1> QED BY <1>2, <1>12

\* The groups of three of the three rarities have nobody in common.
LEMMA SutureFits ==
  ASSUME Sound(slots, tools, nextId), SlotCount \in Nat, Ids # {}
  PROVE  Fit(Triples(Normal) \o Triples(Magic) \o Triples(Rare), Ids)
<1> DEFINE G(r) == ToSet(OfRarity(r))
<1>1. \A r : OfRarity(r) \in Lists(Ids) /\ \A id \in G(r) : M(id).rarity = r
  BY GroupLists
<1>2. \A r : Fusing(Triples(r), G(r)) /\ G(r) \subseteq Ids
  BY <1>1, TriplesFuse, ListIs
<1>3. \A r, u : r # u => G(r) \cap G(u) = {}
  BY <1>1
<1>4. Normal # Magic /\ Normal # Rare /\ Magic # Rare
  BY DEF Normal, Magic, Rare
<1> HIDE DEF G
<1>5. Fusing(Triples(Normal) \o Triples(Magic), G(Normal) \cup G(Magic))
  BY <1>2, <1>3, <1>4, FuseJoin
<1>6. (G(Normal) \cup G(Magic)) \cap G(Rare) = {}
  BY <1>3, <1>4
<1> DEFINE p == Triples(Normal) \o Triples(Magic)
           S == G(Normal) \cup G(Magic)
<1> HIDE DEF p, S
<1>7. Fusing(p, S) /\ S \cap G(Rare) = {} /\ S \subseteq Ids
  BY <1>2, <1>5, <1>6 DEF p, S
<1>8. Fusing(p \o Triples(Rare), S \cup G(Rare))
  BY <1>2, <1>7, FuseJoin
<1>9. Fusing(p \o Triples(Rare), Ids)
  BY <1>2, <1>7, <1>8 DEF Fusing
<1> QED BY <1>9, FusingFits DEF p

\* The mouth adds, or lets one monster devour another.
LEMMA MouthFits ==
  ASSUME Sound(slots, tools, nextId), SlotCount \in Nat, Ids # {},
         NEW id, NEW p \in ToolProgram("mouth", id)
  PROVE  Fit(p, Ids)
<1>1. \/ p = <<Add(Wild, Drawn, 0, 0)>>
      \/ p = << >>
      \/ p = <<Overflow>>
      \/ \E eater \in ToSet(HighestActivity(All)) :
           \E prey \in ToSet(LowestProduct(Without(All, eater))) :
             p = <<Devour(eater, prey)>>
  BY DEF ToolProgram
<1>2. Quiet(<<Add(Wild, Drawn, 0, 0)>>, Ids) /\ Quiet(<< >>, Ids)
      /\ Quiet(<<Overflow>>, Ids)
  BY TasksForAll, QuietShort
<1>3. ASSUME NEW eater \in ToSet(HighestActivity(All)),
             NEW prey \in ToSet(LowestProduct(Without(All, eater)))
      PROVE  eater \in Ids /\ prey \in Ids \ {eater}
  <2>1. All \in Lists(Ids) /\ ToSet(All) \subseteq Ids
    BY GroupLists, ListIs
  <2>2. eater \in Ids
    BY <2>1, ChosenPart
  <2>3. Without(All, eater) \in Lists(Ids)
        /\ ToSet(Without(All, eater)) \subseteq ToSet(All) \ {eater}
    BY <2>1, ChosenPart
  <2>4. ToSet(LowestProduct(Without(All, eater))) \subseteq ToSet(Without(All, eater))
    BY <2>3, ChosenPart
  <2> QED BY <2>1, <2>2, <2>3, <2>4
<1> QED BY <1>1, <1>2, <1>3, QuietFits, DevourFits

\* Two of a list, to be fused.
LEMMA FuseTwoFits ==
  ASSUME NEW ids, ids # {}, NEW s \in Lists(ids), Len(s) >= 2,
         NEW two \in Picks(s, 2), NEW f, NEW r
  PROVE  Fit(<<Fuse(two, f, r)>>, ids)
<1>1. two \in Lists(ids) /\ Len(two) = Size(s, 2)
  BY PicksPart
<1>2. Len(s) \in Nat
  BY ListIs
<1>3. Size(s, 2) = 2
  <2> DEFINE n == Len(s)
  <2>1. n \in Nat /\ n >= 2
    BY <1>2
  <2>2. Size(s, 2) = IF 2 < n THEN 2 ELSE n
    BY DEF Size
  <2> HIDE DEF n
  <2> QED BY <2>1, <2>2
<1>4. two # << >>
  <2>1. two = << >> <=> Len(two) = 0
    BY <1>1, ListIs
  <2> QED BY <1>1, <1>3, <2>1
<1> QED BY <1>1, <1>4, FuseOne, FusingFits

\* Tools at the end of a turn.
LEMMA LateToolsFit ==
  ASSUME Sound(slots, tools, nextId), SlotCount \in Nat, Ids # {},
         NEW h \in AllTools, Trigger(h) = "turn_end", NEW id,
         NEW p \in ToolProgram(h, id)
  PROVE  Fit(p, Ids)
<1>1. h \in {"cortex", "goat_suture", "saw", "scraper", "sinew",
             "tanned_restraint", "pituitary", "fang", "frontal_lobe",
             "rawhide_restraint", "nettle", "pupa", "statue", "cluster_eggs",
             "mouth", "brooding_butterfly"}
  BY DEF Trigger, AllTools
<1>2. All \in Lists(Ids) /\ Quiet(<< >>, Ids)
  BY GroupLists, QuietShort
<1>3. \A a, q : /\ Quiet(BuffEach(All, a, q), Ids)
                /\ Quiet(BuffEach(HighestActivity(All), a, q), Ids)
                /\ \A o \in BuffOne(All, a, q) : Quiet(o, Ids)
  BY <1>2, BuffsQuiet
<1>4. ASSUME NEW places \in SUBSET Board, NEW a, NEW q
      PROVE  /\ Quiet(BuffEach(IdsAt(places), a, q), Ids)
             /\ \A o \in BuffOne(IdsAt(places), a, q) : Quiet(o, Ids)
  <2>1. IdsAt(places) \in Lists(Ids)
    BY IdsAtList
  <2> QED BY <2>1, BuffsQuiet
<1>6. \A c, S : p \in When(c, S) /\ (\A o \in S : Quiet(o, Ids)) => Fit(p, Ids)
  BY <1>2, WhenIs, QuietFits
<1>10. CASE h = "cortex"
  <2>1. p \in When(Len(OfRarity(Magic)) >= 2,
          {<<Fuse(two, "AWAKENER", Rare)>> : two \in Picks(OfRarity(Magic), 2)})
    BY <1>10 DEF ToolProgram
  <2>2. p = << >> \/ (Len(OfRarity(Magic)) >= 2 /\
          \E two \in Picks(OfRarity(Magic), 2) : p = <<Fuse(two, "AWAKENER", Rare)>>)
    BY <2>1 DEF When
  <2>3. OfRarity(Magic) \in Lists(Ids)
    BY GroupLists
  <2> QED BY <1>2, <2>2, <2>3, FuseTwoFits, QuietFits
<1>11. CASE h = "goat_suture"
  <2>1. p = Triples(Normal) \o Triples(Magic) \o Triples(Rare)
    BY <1>11 DEF ToolProgram
  <2> QED BY <2>1, SutureFits
<1>12. CASE h = "saw"
  <2> DEFINE places == {i \in Board : slots[i].activity > 150 /\ slots[i].quantity > 150}
  <2>1. p = BuffEach(IdsAt(places), 15, 15)
    BY <1>12 DEF ToolProgram, Group, IdsAt
  <2> QED BY <1>4, <2>1, QuietFits
<1>13. CASE h = "scraper"
  <2> DEFINE places == {i \in Board : slots[i].quantity > 275}
  <2>1. p = BuffEach(IdsAt(places), 20, 0)
    BY <1>13 DEF ToolProgram, Group, IdsAt
  <2> QED BY <1>4, <2>1, QuietFits
<1>14. CASE h = "sinew"
  <2>1. p \in When(Len(OfFamily("BONE")) >= 2,
          {Each(LowestActivity(Others("BONE")), LAMBDA low : Remove1(low))
             \o Each(LowestActivity(Others("BONE")),
                     LAMBDA low : BuffSome("BONE", 1, M(low).activity, 0))})
    BY <1>14 DEF ToolProgram
  <2>2. p = << >> \/ (Len(OfFamily("BONE")) >= 2 /\
          p = Each(LowestActivity(Others("BONE")), LAMBDA low : Remove1(low))
             \o Each(LowestActivity(Others("BONE")),
                     LAMBDA low : BuffSome("BONE", 1, M(low).activity, 0)))
    BY <2>1 DEF When
  <2>3. CASE p = << >>
    BY <1>2, <2>3, QuietFits
  <2>4. CASE p # << >>
    BY <2>2, <2>4, SinewFits
  <2> QED BY <2>3, <2>4
<1>15. CASE h = "tanned_restraint"
  <2>1. p = << >> \/ p = BuffEach(All, 20, 0)
    BY <1>15 DEF ToolProgram, When
  <2> QED BY <1>2, <1>3, <2>1, QuietFits
<1>16. CASE h = "pituitary"
  <2>1. p = << >> \/ p \in BuffOne(All, 80, 0)
    BY <1>16 DEF ToolProgram, When
  <2> QED BY <1>2, <1>3, <2>1, QuietFits
<1>17. CASE h = "fang"
  <2> DEFINE places == {i \in Board : slots[i].activity > 255}
  <2>1. p = BuffEach(IdsAt(places), 0, 30)
    BY <1>17 DEF ToolProgram, Group, IdsAt
  <2> QED BY <1>4, <2>1, QuietFits
<1>18. CASE h = "frontal_lobe"
  <2> DEFINE places == {i \in Board : slots[i].rarity >= Rare}
  <2>1. p \in When(Len(OfFamily("AWAKENER")) >= 2, BuffOne(IdsAt(places), 80, 0))
    BY <1>18 DEF ToolProgram, Group, IdsAt
  <2>2. \A o \in BuffOne(IdsAt(places), 80, 0) : Quiet(o, Ids)
    BY <1>4
  <2> QED BY <1>6, <2>1, <2>2
<1>19. CASE h = "rawhide_restraint"
  <2>1. p \in When(Len(OfRarity(Magic)) >= 3, {BuffEach(HighestActivity(All), 0, 100)})
    BY <1>19 DEF ToolProgram
  <2> QED BY <1>3, <1>6, <2>1
<1>20. CASE h = "nettle"
  <2>1. p \in When(Len(OfRarity(Normal)) >= 3, {BuffEach(All, 0, 30)})
    BY <1>20 DEF ToolProgram
  <2> QED BY <1>3, <1>6, <2>1
<1>21. CASE h = "pupa"
  <2> DEFINE n == Len(OfFamily("INSECT"))
             t == BuffSome(Wild, n, 0, 8)
  <2>1. p = Repeat(n, t)
    BY <1>21 DEF ToolProgram
  <2>2. n \in Nat
    BY GroupLists, ListIs
  <2>3. QuietTask(t, Ids)
    BY TasksForAll
  <2> HIDE DEF n, t
  <2>4. Quiet(p, Ids)
    BY <2>1, <2>2, <2>3, QuietRepeat
  <2> QED BY <2>4, QuietFits
<1>22. CASE h = "statue"
  <2>1. p \in When(turns > 0 /\ turns % 2 = 0,
          {Each(one, LAMBDA i : Awaken(i, Drawn, 1)) :
             one \in OnePerRarity({Normal, Magic, Rare})})
    BY <1>22 DEF ToolProgram
  <2>2. \A one \in OnePerRarity({Normal, Magic, Rare}) :
          Quiet(Each(one, LAMBDA i : Awaken(i, Drawn, 1)), Ids)
    BY OneOfEachIs, AwakenEach
  <2>3. p = << >> \/ \E one \in OnePerRarity({Normal, Magic, Rare}) :
          p = Each(one, LAMBDA i : Awaken(i, Drawn, 1))
    BY <2>1 DEF When
  <2> QED BY <1>2, <2>2, <2>3, QuietFits
<1>23. CASE h = "cluster_eggs"
  <2>1. p \in When(Len(OfFamily("INSECT")) >= 3, {<<Add("INSECT", Drawn, 0, 100)>>})
    BY <1>23 DEF ToolProgram
  <2>2. Quiet(<<Add("INSECT", Drawn, 0, 100)>>, Ids)
    BY TasksForAll, QuietShort
  <2> QED BY <1>6, <2>1, <2>2
<1>24. CASE h = "mouth"
  BY <1>24, MouthFits
<1>25. CASE h = "brooding_butterfly"
  <2>1. p \in When(turns > 0 /\ turns % 3 = 0 /\ Len(OfFamily("INSECT")) >= 2,
          {<<Fuse(two, "INSECT", r)>> :
             two \in Picks(OfFamily("INSECT"), 2), r \in RarityOf(Drawn)})
    BY <1>25 DEF ToolProgram
  <2>2. p = << >> \/ (Len(OfFamily("INSECT")) >= 2 /\
          \E two \in Picks(OfFamily("INSECT"), 2), r \in RarityOf(Drawn) :
            p = <<Fuse(two, "INSECT", r)>>)
    BY <2>1 DEF When
  <2>3. OfFamily("INSECT") \in Lists(Ids)
    BY GroupLists
  <2> QED BY <1>2, <2>2, <2>3, FuseTwoFits, QuietFits
<1> QED BY <1>1, <1>10, <1>11, <1>12, <1>13, <1>14, <1>15, <1>16, <1>17, <1>18,
           <1>19, <1>20, <1>21, <1>22, <1>23, <1>24, <1>25

-----------------------------------------------------------------------------
(* Cards.                                                                  *)

\* The monsters of a card's targets are there, and different.
LEMMA TargetsAre ==
  ASSUME NEW c, NEW t \in LegalTargets(c)
  PROVE  /\ t \in Lists(Ids)
         /\ Targets(c) # {0} => t # << >> /\ 1 \in DOMAIN t /\ t[1] \in Ids
<1>1. PICK n \in Targets(c) : t \in [1..n -> Ids] /\ IsInjective(t)
  BY DEF LegalTargets
<1>2. n \in Nat /\ (Targets(c) # {0} => n # 0)
  <2>1. Targets(c) \in {1..2, {1}, {0}}
    BY DEF Targets
  <2> QED BY <1>1, <2>1
<1>3. t \in Seq(Ids) /\ DOMAIN t = 1..n /\ Len(t) = n
  BY <1>1, <1>2
<1>4. \A i, j \in DOMAIN t : t[i] = t[j] => i = j
  BY <1>1 DEF IsInjective
<1>5. n # 0 => t # << >> /\ 1 \in DOMAIN t
  BY <1>2, <1>3
<1> QED BY <1>2, <1>3, <1>4, <1>5 DEF Lists

\* A neighbour is on the board, and is not the monster itself.
LEMMA Neighbours ==
  ASSUME Sound(slots, tools, nextId), SlotCount \in Nat, NEW id \in Ids
  PROVE  /\ RightOf(id) \in Lists(Ids) /\ id \notin ToSet(RightOf(id))
         /\ LeftOf(id) \in Lists(Ids) /\ id \notin ToSet(LeftOf(id))
<1>1. At(id) \in Board /\ Board \subseteq 1..SlotCount
      /\ \A i \in Board : slots[i].id \in Ids /\ At(slots[i].id) = i
  BY AtIs
<1>2. ~(At(id) > At(id)) /\ ~(At(id) < At(id)) /\ Board \subseteq Nat
  <2>1. At(id) \in 1..SlotCount
    BY <1>1
  <2> DEFINE a == At(id)
  <2> HIDE DEF a
  <2>2. a \in 1..SlotCount
    BY <2>1 DEF a
  <2>3. ~(a > a) /\ ~(a < a)
    BY <2>2
  <2>4. Board \subseteq Nat
    BY <1>1
  <2> QED BY <2>3, <2>4 DEF a
<1>3. \A i \in Board : i # At(id) => <<slots[i].id>> \in Lists(Ids)
                                     /\ id \notin ToSet(<<slots[i].id>>)
  <2> SUFFICES ASSUME NEW i \in Board, i # At(id)
               PROVE  <<slots[i].id>> \in Lists(Ids)
                      /\ id \notin ToSet(<<slots[i].id>>)
    OBVIOUS
  <2>1. slots[i].id \in Ids /\ slots[i].id # id
    BY <1>1
  <2> DEFINE x == slots[i].id
  <2> HIDE DEF x
  <2>2. x \in Ids /\ x # id
    BY <2>1 DEF x
  <2>3. <<x>> \in Seq(Ids) /\ DOMAIN <<x>> = {1} /\ <<x>>[1] = x
    BY <2>2
  <2>4. <<x>> \in Lists(Ids) /\ id \notin ToSet(<<x>>)
    BY <2>2, <2>3 DEF Lists, ToSet
  <2> QED BY <2>4 DEF x
<1>4. << >> \in Lists(Ids) /\ id \notin ToSet(<< >>)
  BY DEF Lists, ToSet
<1>5. RightOf(id) \in Lists(Ids) /\ id \notin ToSet(RightOf(id))
  <2> DEFINE right == {i \in Board : i > At(id)}
  <2>0. right \subseteq Board /\ At(id) \notin right
    BY <1>2
  <2>2. RightOf(id) = IF right = {} THEN << >> ELSE <<slots[Min(right)].id>>
    BY DEF RightOf
  <2> HIDE DEF right
  <2>1. right \in SUBSET Nat /\ \A i \in right : i \in Board /\ i # At(id)
    BY <1>2, <2>0
  <2>3. right # {} => Min(right) \in right
    BY <2>1, LeastIs
  <2> QED BY <1>3, <1>4, <2>1, <2>2, <2>3
<1>6. LeftOf(id) \in Lists(Ids) /\ id \notin ToSet(LeftOf(id))
  <2> DEFINE left == {i \in Board : i < At(id)}
  <2>0. left \subseteq Board /\ At(id) \notin left
    BY <1>2
  <2>2. LeftOf(id) = IF left = {} THEN << >> ELSE <<slots[Max(left)].id>>
    BY DEF LeftOf
  <2> HIDE DEF left
  <2>1. left \in SUBSET (1..SlotCount) /\ \A i \in left : i \in Board /\ i # At(id)
    BY <1>1, <2>0
  <2>3. left # {} => Max(left) \in left
    BY <2>1, GreatestIs
  <2> QED BY <1>3, <1>4, <2>1, <2>2, <2>3
<1> QED BY <1>5, <1>6

\* A change of each of a list.
LEMMA MutateEach ==
  ASSUME NEW ids, NEW s \in Seq(ids), NEW f, NEW r
  PROVE  Quiet([i \in DOMAIN s |-> Mutate(s[i], f, r)], ids)
<1> DEFINE p == [i \in DOMAIN s |-> Mutate(s[i], f, r)]
<1>1. Len(s) \in Nat /\ DOMAIN s = 1..Len(s) /\ \A i \in 1..Len(s) : s[i] \in ids
  OBVIOUS
<1>2. /\ p = [i \in 1..Len(s) |-> p[i]]
      /\ \A i \in 1..Len(s) : p[i] = Mutate(s[i], f, r)
  BY <1>1
<1> HIDE DEF p
<1>3. \A i \in 1..Len(s) : QuietTask(p[i], ids)
  BY <1>1, <1>2, Tasks
<1>4. Quiet(p, ids)
  BY <1>1, <1>2, <1>3, QuietIs
<1> QED BY <1>4 DEF p

\* Holy water: an awakening of each of a list.
LEMMA HolyWaterQuiet ==
  ASSUME NEW ids, NEW s \in Seq(ids)
  PROVE  Quiet([i \in DOMAIN s |-> IF M(s[i]).rarity = Boss
                                   THEN Awaken(s[i], Boss, 0)
                                   ELSE Awaken(s[i], Drawn, 2)], ids)
<1> DEFINE p == [i \in DOMAIN s |-> IF M(s[i]).rarity = Boss
                                    THEN Awaken(s[i], Boss, 0)
                                    ELSE Awaken(s[i], Drawn, 2)]
<1>1. Len(s) \in Nat /\ DOMAIN s = 1..Len(s) /\ \A i \in 1..Len(s) : s[i] \in ids
  OBVIOUS
<1>2. /\ p = [i \in 1..Len(s) |-> p[i]]
      /\ \A i \in 1..Len(s) : p[i] = Awaken(s[i], Boss, 0)
                              \/ p[i] = Awaken(s[i], Drawn, 2)
  BY <1>1
<1> HIDE DEF p
<1>3. \A i \in 1..Len(s) : QuietTask(p[i], ids)
  BY <1>1, <1>2, Tasks
<1>4. Quiet(p, ids)
  BY <1>1, <1>2, <1>3, QuietIs
<1> QED BY <1>4 DEF p

\* Changes, each followed by something that names nobody.
LEMMA MutateAndThen ==
  ASSUME NEW ids, NEW s \in Seq(ids), NEW after, QuietTask(after, ids), NEW f, NEW r
  PROVE  Quiet([k \in 1..(2 * Len(s)) |->
                  IF k % 2 = 1 THEN Mutate(s[(k + 1) \div 2], f, r)
                  ELSE after], ids)
<1> DEFINE n == Len(s)
           p == [k \in 1..(2 * n) |->
                   IF k % 2 = 1 THEN Mutate(s[(k + 1) \div 2], f, r) ELSE after]
<1>1. n \in Nat /\ \A i \in 1..n : s[i] \in ids
  OBVIOUS
<1>2. /\ p = [k \in 1..(2 * n) |-> p[k]]
      /\ \A k \in 1..(2 * n) :
           IF k % 2 = 1 THEN p[k] = Mutate(s[(k + 1) \div 2], f, r)
           ELSE p[k] = after
  OBVIOUS
<1>3. \A k \in 1..(2 * n) : k % 2 = 1 => (k + 1) \div 2 \in 1..n
  BY <1>1, Halves
<1> HIDE DEF p, n
<1>4. \A id \in ids : QuietTask(Mutate(id, f, r), ids)
  BY Tasks
<1>5. \A k \in 1..(2 * n) : QuietTask(p[k], ids)
  <2> SUFFICES ASSUME NEW k \in 1..(2 * n) PROVE QuietTask(p[k], ids)
    OBVIOUS
  <2>1. CASE k % 2 = 1
    <3>1. s[(k + 1) \div 2] \in ids /\ p[k] = Mutate(s[(k + 1) \div 2], f, r)
      BY <1>1, <1>2, <1>3, <2>1
    <3> QED BY <1>4, <3>1
  <2>2. CASE ~(k % 2 = 1)
    BY <1>2, <2>2
  <2> QED BY <2>1, <2>2
<1>6. 2 * n \in Nat
  BY <1>1
<1>7. Quiet(p, ids)
  BY <1>2, <1>5, <1>6, QuietIs
<1> QED BY <1>7 DEF p, n

\* Cards on a target that take nobody.
LEMMA TargetCardsQuiet ==
  ASSUME Sound(slots, tools, nextId), SlotCount \in Nat,
         NEW c \in {"awakening", "mixed_leech", "pure_leech", "sticky_bile",
                    "mutation", "mutagen_powder", "bone_twin_hormone",
                    "insect_twin_hormone", "awaker_anesthetic",
                    "petrified_marrow", "hollow_marrow", "pia_mater",
                    "fiend_anesthetic"},
         NEW t \in LegalTargets(c), NEW p \in CardProgram(c, t)
  PROVE  Quiet(p, Ids)
<1> DEFINE x == t[1]
<1>1. t \in Lists(Ids) /\ x \in Ids /\ t \in Seq(Ids)
  <2>1. Targets(c) # {0}
    BY DEF Targets
  <2>2. t \in Lists(Ids) /\ x \in Ids
    BY <2>1, TargetsAre
  <2> QED BY <2>2, ListIs
<1> HIDE DEF x
<1>2. \A a, q : QuietTask(Buff(x, a, q), Ids)
  BY <1>1, Tasks
<1>3. \A f, r : QuietTask(Mutate(x, f, r), Ids)
  BY <1>1, Tasks
<1>4. \A r, n : QuietTask(Awaken(x, r, n), Ids)
  BY <1>1, Tasks
<1>5. QuietTask(AddTwin(x), Ids) /\ QuietTask(Tick, Ids)
  BY <1>1, Tasks, TasksForAll
<1>6. \A s \in Seq(Ids) : \A a, q : Quiet(BuffEach(s, a, q), Ids)
  BY QuietBuffs
<1>7. \A u \in Seq(Ids) : t \o u \in Seq(Ids)
  BY <1>1
<1>8. \A f, r : Quiet([i \in DOMAIN t |-> Mutate(t[i], f, r)], Ids)
  BY <1>1, MutateEach
<1>9. Quiet(<<Tick>>, Ids)
  BY <1>5, QuietShort
<1>10. CASE c = "awakening"
  <2>1. p = <<Tick, Awaken(x, Drawn, 1)>>
    BY <1>10 DEF CardProgram, Schemes, x
  <2> QED BY <1>4, <1>5, <2>1, QuietShort
<1>11. CASE c = "mixed_leech"
  <2> DEFINE group == Without(OfRarity(M(x).rarity), x)
  <2>1. PICK one \in Picks(group, 1) : p = BuffEach(t \o one, 31, 0)
    BY <1>11 DEF CardProgram, Schemes, x
  <2>2. group \in Lists(Ids)
    BY GroupLists, ChosenPart
  <2>3. one \in Seq(Ids)
    BY <2>1, <2>2, PicksPart, ListIs
  <2> QED BY <1>6, <1>7, <2>1, <2>3
<1>12. CASE c = "pure_leech"
  <2> DEFINE group == Without(OfFamily(M(x).family), x)
  <2>1. PICK one \in Picks(group, 1) : p = BuffEach(t \o one, 31, 0)
    BY <1>12 DEF CardProgram, Schemes, x
  <2>2. group \in Lists(Ids)
    BY GroupLists, ChosenPart
  <2>3. one \in Seq(Ids)
    BY <2>1, <2>2, PicksPart, ListIs
  <2> QED BY <1>6, <1>7, <2>1, <2>3
<1>13. CASE c = "sticky_bile"
  <2> DEFINE right == RightOf(x)
             changes == [i \in DOMAIN right |->
                           Mutate(right[i], M(x).family, M(x).rarity)]
  <2>1. p = changes \o BuffEach(t \o right, 31, 0)
    BY <1>13 DEF CardProgram, Schemes, Each, x
  <2>2. right \in Seq(Ids)
    BY <1>1, Neighbours, ListIs
  <2>3. Quiet(changes, Ids)
    BY <2>2, MutateEach
  <2>4. Quiet(BuffEach(t \o right, 31, 0), Ids)
    BY <1>6, <1>7, <2>2
  <2> HIDE DEF changes
  <2> QED BY <2>1, <2>3, <2>4, QuietJoin
<1>14. CASE c = "mutation"
  <2> DEFINE changes == [i \in DOMAIN t |-> Mutate(t[i], Wild, Magic)]
  <2>1. p = <<Tick>> \o changes \o <<Tick>> \o BuffEach(t, 31, 0)
    BY <1>14 DEF CardProgram, Schemes, Each
  <2>2. Quiet(changes, Ids) /\ Quiet(BuffEach(t, 31, 0), Ids)
    BY <1>1, <1>6, <1>8
  <2> HIDE DEF changes
  <2>3. Quiet(<<Tick>> \o changes, Ids)
    BY <1>9, <2>2, QuietJoin
  <2>4. Quiet(<<Tick>> \o changes \o <<Tick>>, Ids)
    BY <1>9, <2>3, QuietJoin
  <2> QED BY <2>1, <2>2, <2>4, QuietJoin
<1>15. CASE c = "mutagen_powder"
  <2> DEFINE changes == [i \in DOMAIN t |-> Mutate(t[i], Wild, Rare)]
             buffs == BuffEach(t, 0, 52)
  <2>1. p = <<Tick>> \o buffs \o <<Tick>> \o changes
    BY <1>15 DEF CardProgram, Schemes, Each
  <2>2. Quiet(changes, Ids) /\ Quiet(buffs, Ids)
    BY <1>1, <1>6, <1>8
  <2> HIDE DEF changes, buffs
  <2>3. Quiet(<<Tick>> \o buffs, Ids)
    BY <1>9, <2>2, QuietJoin
  <2>4. Quiet(<<Tick>> \o buffs \o <<Tick>>, Ids)
    BY <1>9, <2>3, QuietJoin
  <2> QED BY <2>1, <2>2, <2>4, QuietJoin
<1>16. CASE c = "bone_twin_hormone"
  <2>1. p = <<Tick, Mutate(x, "BONE", Drawn), Tick, Buff(x, 0, 62)>>
    BY <1>16 DEF CardProgram, Schemes, x
  <2> QED BY <1>2, <1>3, <1>5, <2>1, QuietShort
<1>17. CASE c = "insect_twin_hormone"
  <2>1. p = <<Mutate(x, "INSECT", Drawn), AddTwin(x)>>
    BY <1>17 DEF CardProgram, Schemes, x
  <2> QED BY <1>3, <1>5, <2>1, QuietShort
<1>18. CASE c = "awaker_anesthetic"
  <2>1. p = <<Mutate(x, "AWAKENER", Drawn), Awaken(x, Magic, 0)>>
    BY <1>18 DEF CardProgram, Schemes, x
  <2> QED BY <1>3, <1>4, <2>1, QuietShort
<1>19. CASE c = "petrified_marrow"
  <2> DEFINE rest == IF M(x).family = "FIEND" THEN << >>
                     ELSE <<Mutate(x, "FIEND", Drawn), Buff(x, 30, 0)>>
  <2>1. p = <<Buff(x, 20, 0)>> \o rest
    BY <1>19 DEF CardProgram, Schemes, x
  <2>2. Quiet(rest, Ids)
    BY <1>2, <1>3, QuietShort
  <2>3. Quiet(<<Buff(x, 20, 0)>>, Ids)
    BY <1>2, QuietShort
  <2> HIDE DEF rest
  <2> QED BY <2>1, <2>2, <2>3, QuietJoin
<1>20. CASE c = "hollow_marrow"
  <2>1. p = <<Buff(x, 41, 0)>> \/ p = <<Buff(x, 41, 0), Mutate(x, "FIEND", Drawn)>>
    BY <1>20 DEF CardProgram, Schemes, x
  <2> QED BY <1>2, <1>3, <2>1, QuietShort
<1>21. CASE c = "pia_mater"
  <2> DEFINE n == IF M(x).family # "AWAKENER" \/ M(x).rarity = Normal THEN 1
                  ELSE IF M(x).rarity = Magic THEN 2 ELSE 3
  <2>1. p = Repeat(n, Buff(x, 30, 0))
    BY <1>21 DEF CardProgram, Schemes, x
  <2>2. n \in Nat
    OBVIOUS
  <2> HIDE DEF n
  <2> QED BY <1>2, <2>1, <2>2, QuietRepeat
<1>22. CASE c = "fiend_anesthetic"
  <2>1. PICK more \in {<< >>} \cup Picks(All, 1) :
          p = <<Mutate(x, "FIEND", Drawn)>>
                \o [i \in DOMAIN more |-> Mutate(more[i], "FIEND", Drawn)]
    BY <1>22 DEF CardProgram, Schemes, Each, x
  <2>2. more \in Seq(Ids)
    <3>1. << >> \in Seq(Ids) /\ All \in Lists(Ids)
      BY GroupLists
    <3>2. \A m \in Picks(All, 1) : m \in Seq(Ids)
      BY <3>1, PicksPart, ListIs
    <3> QED BY <2>1, <3>1, <3>2
  <2> DEFINE rest == [i \in DOMAIN more |-> Mutate(more[i], "FIEND", Drawn)]
  <2>3. Quiet(rest, Ids)
    BY <2>2, MutateEach
  <2>4. Quiet(<<Mutate(x, "FIEND", Drawn)>>, Ids)
    BY <1>3, QuietShort
  <2>5. p = <<Mutate(x, "FIEND", Drawn)>> \o rest
    BY <2>1
  <2> HIDE DEF rest
  <2> QED BY <2>3, <2>4, <2>5, QuietJoin
<1> QED BY <1>10, <1>11, <1>12, <1>13, <1>14, <1>15, <1>16, <1>17, <1>18, <1>19,
           <1>20, <1>21, <1>22

\* The one monster of a draw, which is there unless the board is empty.
LEMMA OneOfAll ==
  ASSUME Sound(slots, tools, nextId), SlotCount \in Nat, Ids # {},
         NEW one \in Picks(All, 1)
  PROVE  one[1] \in Ids /\ one \in Seq(Ids)
<1>1. All \in Lists(Ids) /\ All # << >>
  BY GroupLists
<1>2. one \in Lists(Ids) /\ Len(one) = Size(All, 1)
  BY <1>1, PicksPart
<1>3. Size(All, 1) # 0
  <2> DEFINE n == Len(All)
  <2>1. n \in Nat /\ n # 0
    BY <1>1, ListIs
  <2>2. Size(All, 1) = IF 1 < n THEN 1 ELSE n
    BY DEF Size
  <2> HIDE DEF n
  <2> QED BY <2>1, <2>2
<1>4. one \in Seq(Ids) /\ Len(one) # 0
  BY <1>2, <1>3, ListIs
<1>5. 1 \in 1..Len(one)
  BY <1>4
<1> QED BY <1>4, <1>5

\* Cards without a target that take nobody.
LEMMA DrawCardsQuiet ==
  ASSUME Sound(slots, tools, nextId), SlotCount \in Nat, Ids # {},
         NEW c \in Schemes \cup {
               "gray_marrow", "awaker_fluid", "fiend_fluid", "insect_powder",
               "bone_powder", "holy_water", "waking_salts",
               "fresh_marrow_powder", "brood_hormone", "proliferation_powder",
               "eggshell_powder", "brain_fog", "insect_boost", "lure"},
         NEW t \in LegalTargets(c), NEW p \in CardProgram(c, t)
  PROVE  Quiet(p, Ids)
<1>1. All \in Lists(Ids) /\ OfFamily("AWAKENER") \in Lists(Ids)
      /\ OfFamily("INSECT") \in Lists(Ids) /\ Others("FIEND") \in Lists(Ids)
  BY GroupLists
<1>2. QuietTask(Tick, Ids) /\ Quiet(<< >>, Ids)
  BY TasksForAll, QuietShort
<1>3. \A f, r, a, q : QuietTask(Add(f, r, a, q), Ids)
  BY TasksForAll
<1>4. \A one \in Picks(All, 1) :
        /\ \A a, q : QuietTask(Buff(one[1], a, q), Ids)
        /\ \A f, r : QuietTask(Mutate(one[1], f, r), Ids)
        /\ \A r, n : QuietTask(Awaken(one[1], r, n), Ids)
  BY OneOfAll, Tasks
<1>10. CASE c \in Schemes
  <2>1. p = << >>
    BY <1>10 DEF CardProgram, Schemes
  <2> QED BY <1>2, <2>1
<1>11. CASE c = "gray_marrow"
  <2>1. \E one \in Picks(All, 1) :
          \/ p = <<Buff(one[1], 41, 0), Mutate(one[1], Wild, Drawn)>>
          \/ p = <<Buff(one[1], 41, 0), Mutate(one[1], Wild, Drawn),
                   Mutate(one[1], "FIEND", Drawn), Buff(one[1], 30, 0)>>
    BY <1>11 DEF CardProgram, Schemes
  <2> QED BY <1>4, <2>1, QuietShort
<1>12. CASE c \in {"awaker_fluid", "fiend_fluid", "insect_powder", "bone_powder"}
  <2>1. \E f, a, q : p = <<Tick, Add(f, Drawn, a, q)>>
    <3>1. \/ p = <<Tick, Add("AWAKENER", Drawn, 31, 0)>>
          \/ p = <<Tick, Add("FIEND", Drawn, 31, 0)>>
          \/ p = <<Tick, Add("INSECT", Drawn, 0, 73)>>
          \/ p = <<Tick, Add("BONE", Drawn, 0, 73)>>
      BY <1>12 DEF CardProgram, Schemes
    <3> QED BY <3>1
  <2> QED BY <1>2, <1>3, <2>1, QuietShort
<1>13. CASE c = "holy_water"
  <2> DEFINE s == OfFamily("AWAKENER")
  <2>1. p = [i \in DOMAIN s |-> IF M(s[i]).rarity = Boss
                                THEN Awaken(s[i], Boss, 0)
                                ELSE Awaken(s[i], Drawn, 2)]
    BY <1>13 DEF CardProgram, Schemes, Each
  <2>2. s \in Seq(Ids)
    BY <1>1, ListIs
  <2> HIDE DEF s
  <2> QED BY <2>1, <2>2, HolyWaterQuiet
<1>14. CASE c = "waking_salts"
  <2>1. p \in BuffOne(All, 111, 111)
    BY <1>14 DEF CardProgram, Schemes
  <2> QED BY <1>1, <2>1, BuffsQuiet
<1>15. CASE c = "fresh_marrow_powder"
  <2>1. PICK new \in Samples(Others("FIEND"), 3) :
          p = [k \in 1..(2 * Len(new)) |->
                 IF k % 2 = 1 THEN Mutate(new[(k + 1) \div 2], "FIEND", Drawn)
                 ELSE BuffSome("FIEND", 3, 0, 42)]
    BY <1>15 DEF CardProgram, Schemes, EachThen
  <2>2. new \in Seq(Ids)
    BY <1>1, <2>1, SamplesPart, ListIs
  <2>3. QuietTask(BuffSome("FIEND", 3, 0, 42), Ids)
    BY TasksForAll
  <2> QED BY <2>1, <2>2, <2>3, MutateAndThen
<1>16. CASE c = "brood_hormone"
  <2>1. \E n \in {1, 3} : p = Repeat(n, Add("INSECT", Drawn, 0, 0))
    BY <1>16 DEF CardProgram, Schemes
  <2> QED BY <1>3, <2>1, QuietRepeat
<1>17. CASE c = "proliferation_powder"
  <2>1. \E chosen \in OnePerRarity(Rarities) : p = BuffEach(chosen, 0, 32)
    BY <1>17 DEF CardProgram, Schemes
  <2> QED BY <2>1, OneOfEachIs, QuietBuffs
<1>18. CASE c = "eggshell_powder"
  <2>1. PICK one \in Picks(All, 1) :
          p = <<Buff(one[1], 0, 25)>> \o
                (IF M(one[1]).family # "INSECT" THEN << >>
                 ELSE <<Add("INSECT", M(one[1]).rarity, 0, 25)>>)
    BY <1>18 DEF CardProgram, Schemes
  <2> DEFINE rest == IF M(one[1]).family # "INSECT" THEN << >>
                     ELSE <<Add("INSECT", M(one[1]).rarity, 0, 25)>>
             first == <<Buff(one[1], 0, 25)>>
  <2>2. Quiet(rest, Ids) /\ Quiet(first, Ids)
    BY <1>2, <1>3, <1>4, QuietShort
  <2>3. p = first \o rest
    BY <2>1
  <2> HIDE DEF rest, first
  <2> QED BY <2>2, <2>3, QuietJoin
<1>19. CASE c = "brain_fog"
  <2>1. PICK one \in Picks(All, 1) :
          p = <<Buff(one[1], 41, 0)>> \o
                (IF M(one[1]).family # "AWAKENER" THEN << >>
                 ELSE <<Awaken(one[1], Rare, 0)>>)
    BY <1>19 DEF CardProgram, Schemes
  <2> DEFINE rest == IF M(one[1]).family # "AWAKENER" THEN << >>
                     ELSE <<Awaken(one[1], Rare, 0)>>
             first == <<Buff(one[1], 41, 0)>>
  <2>2. Quiet(rest, Ids) /\ Quiet(first, Ids)
    BY <1>2, <1>4, QuietShort
  <2>3. p = first \o rest
    BY <2>1
  <2> HIDE DEF rest, first
  <2> QED BY <2>2, <2>3, QuietJoin
<1>20. CASE c = "insect_boost"
  <2>1. p = BuffEach(OfFamily("INSECT"), 11 * Len(OfFamily("INSECT")), 0)
    BY <1>20 DEF CardProgram, Schemes
  <2> QED BY <1>1, <2>1, BuffsQuiet
<1>21. CASE c = "lure"
  <2> DEFINE task == [Add("INSECT", Drawn, 0, 0) EXCEPT
                        !.spill = <<BuffAll("INSECT", 10, 10)>>]
  <2>1. p = Repeat(4, task)
    BY <1>21 DEF CardProgram, Schemes
  <2>2. QuietTask(task, Ids)
    BY TasksForAll
  <2> HIDE DEF task
  <2> QED BY <2>1, <2>2, QuietRepeat
<1> QED BY <1>10, <1>11, <1>12, <1>13, <1>14, <1>15, <1>16, <1>17, <1>18, <1>19,
           <1>20, <1>21

\* Removals of a few of a group leave whoever is not in the group.
LEMMA ThenRemoveSome ==
  ASSUME Sound(slots, tools, nextId), SlotCount \in Nat,
         NEW p, Quiet(p, Ids), NEW f, NEW n \in Nat,
         NEW out \in Samples(Others(f), n),
         NEW keeper \in Ids, M(keeper).family = f
  PROVE  Fit(p \o RemoveEach(out), Ids)
<1>1. Others(f) \in Lists(Ids) /\ keeper \notin ToSet(Others(f))
  BY GroupLists
<1>2. out \in Lists(Ids) /\ keeper \in Ids \ ToSet(out)
  BY <1>1, SamplesPart
<1> QED BY <1>2, ThenRemove

\* Cards that take monsters: they leave a bone guard, a target or a new one.
LEMMA TakingCardsFit ==
  ASSUME Sound(slots, tools, nextId), SlotCount \in Nat, Ids # {},
         NEW c \in {"bone_ointment", "peat_dressing", "alien_hormone",
                    "targeted_alien_hormone", "will_powder",
                    "strong_will_powder", "cleansing_ointment", "digestive",
                    "fusion", "bone_growth_powder"},
         NEW t \in LegalTargets(c), NEW p \in CardProgram(c, t)
  PROVE  Fit(p, Ids)
<1> DEFINE x == t[1]
<1>1. t \in Lists(Ids)
  BY TargetsAre
<1>2. c \notin {"bone_ointment", "peat_dressing", "bone_growth_powder"}
        => x \in Ids /\ t # << >>
  <2>1. c \notin {"bone_ointment", "peat_dressing", "bone_growth_powder"}
          => Targets(c) # {0}
    BY DEF Targets
  <2> QED BY <2>1, TargetsAre
<1> HIDE DEF x
<1>3. \A a, q : x \in Ids => QuietTask(Buff(x, a, q), Ids)
  BY Tasks
<1>4. c \in {"bone_ointment", "peat_dressing"} =>
        \E k \in Ids : k \notin ToSet(Others("BONE"))
  <2> SUFFICES ASSUME c \in {"bone_ointment", "peat_dressing"}
               PROVE  \E k \in Ids : k \notin ToSet(Others("BONE"))
    OBVIOUS
  <2>1. OfFamily("BONE") # << >> /\ OfFamily("BONE") \in Lists(Ids)
    BY GroupLists DEF LegalTargets
  <2>2. 1 \in DOMAIN OfFamily("BONE")
    <3> DEFINE s == OfFamily("BONE")
    <3>1. Len(s) \in Nat /\ DOMAIN s = 1..Len(s) /\ Len(s) # 0
      BY <2>1, ListIs
    <3> HIDE DEF s
    <3>2. 1 \in DOMAIN s
      BY <3>1
    <3> QED BY <3>2 DEF s
  <2>3. OfFamily("BONE")[1] \in ToSet(OfFamily("BONE")) /\ OfFamily("BONE")[1] \in Ids
    BY <2>1, <2>2, ListIs
  <2>4. M(OfFamily("BONE")[1]).family = "BONE"
    BY <2>3, GroupLists
  <2> QED BY <2>3, <2>4, GroupLists
<1>5. Others("BONE") \in Lists(Ids)
  BY GroupLists
<1>6. \A q, f, a, b, r : QuietTask(BuffAll(q, a, b), {}) /\ QuietTask(Add(f, r, a, b), {})
  BY TasksForAll
<1>10. CASE c = "bone_ointment"
  <2>1. PICK out \in Samples(Others("BONE"), 3) :
          p = EachThen(out, LAMBDA id : Remove1(id), BuffAll(Wild, 28, 28))
    BY <1>10 DEF CardProgram, Schemes
  <2>2. out \in Lists(Ids) /\ \E k \in Ids : k \notin ToSet(out)
    BY <1>4, <1>5, <1>10, SamplesPart
  <2>3. QuietTask(BuffAll(Wild, 28, 28), {})
    BY <1>6
  <2> QED BY <2>1, <2>2, <2>3, RemoveAndThen
<1>11. CASE c = "peat_dressing"
  <2>1. p = EachThen(Others("BONE"), LAMBDA id : Remove1(id), BuffAll("BONE", 20, 20))
    BY <1>11 DEF CardProgram, Schemes
  <2>2. \E k \in Ids : k \notin ToSet(Others("BONE"))
    BY <1>4, <1>11
  <2>3. QuietTask(BuffAll("BONE", 20, 20), {})
    BY <1>6
  <2> QED BY <1>5, <2>1, <2>2, <2>3, RemoveAndThen
<1>12. CASE c \in {"alien_hormone", "targeted_alien_hormone"}
  <2> DEFINE task == IF c = "alien_hormone" THEN Add(Wild, Drawn, 5, 0)
                     ELSE Add(Wild, Magic, 0, 25)
             n == IF c = "alien_hormone" THEN 4 ELSE 2
             q == Repeat(n, task)
  <2>1. p = RemoveEach(t) \o q
    BY <1>12 DEF CardProgram, Schemes
  <2>2. QuietTask(task, {}) /\ Brings(task)
    BY <1>6 DEF Brings, Add
  <2>3. n \in Nat /\ n # 0
    OBVIOUS
  <2>4. 1 \in DOMAIN q /\ q[1] = task
    BY DEF Repeat
  <2> HIDE DEF n, task
  <2>5. Quiet(q, {})
    BY <2>2, <2>3, QuietRepeat
  <2> HIDE DEF q
  <2> QED BY <1>1, <2>1, <2>2, <2>4, <2>5, RemoveThen, SMTT(60)
<1>13. CASE c \in {"will_powder", "strong_will_powder"}
  <2> DEFINE a == IF c = "will_powder" THEN 127 ELSE 154
             n == IF c = "will_powder" THEN 1 ELSE 2
  <2>1. PICK out \in Samples(Others(M(x).family), n) :
          p = <<Buff(x, 0, a)>> \o RemoveEach(out)
    BY <1>13 DEF CardProgram, Schemes, x
  <2>2. n \in Nat
    OBVIOUS
  <2>3. x \in Ids /\ Quiet(<<Buff(x, 0, a)>>, Ids)
    BY <1>2, <1>3, <1>13, QuietShort
  <2> HIDE DEF a, n
  <2> QED BY <2>1, <2>2, <2>3, ThenRemoveSome
<1>14. CASE c = "cleansing_ointment"
  <2> DEFINE right == RightOf(x)
             one == <<Buff(x, 20, 0)>>
             two == <<Buff(x, 0, 41)>>
  <2>1. p = one \o (IF M(x).family = "BONE" THEN two \o RemoveEach(right) ELSE << >>)
    BY <1>14 DEF CardProgram, Schemes, x
  <2>2. x \in Ids /\ Quiet(one, Ids) /\ Quiet(two, Ids) /\ Quiet(<< >>, Ids)
    BY <1>2, <1>3, <1>14, QuietShort
  <2>3. right \in Lists(Ids) /\ x \in Ids \ ToSet(right)
    BY <2>2, Neighbours
  <2>4. one \o (two \o RemoveEach(right)) = (one \o two) \o RemoveEach(right)
    <3> DEFINE q == RemoveEach(right)
    <3>1. q \in Seq(ToSet(q))
      BY <2>3, RemovalsAre
    <3> HIDE DEF q, one, two
    <3>2. one \in Seq(ToSet(one)) /\ two \in Seq(ToSet(two))
      BY <2>2, QuietAre
    <3>3. LET S == ToSet(one) \cup ToSet(two) \cup ToSet(q)
          IN one \in Seq(S) /\ two \in Seq(S) /\ q \in Seq(S)
      BY <3>1, <3>2
    <3>4. one \o (two \o q) = (one \o two) \o q
      BY <3>3, ConcatAssociative, SMTT(60)
    <3> QED BY <3>4 DEF q
  <2> HIDE DEF one, two, right
  <2>5. Quiet(one \o two, Ids)
    BY <2>2, QuietJoin
  <2>6. Fit((one \o two) \o RemoveEach(right), Ids)
    BY <2>3, <2>5, ThenRemove
  <2>7. Fit(one \o << >>, Ids)
    BY <2>2, QuietJoin, QuietFits
  <2> QED BY <2>1, <2>4, <2>6, <2>7
<1>15. CASE c = "digestive"
  <2> DEFINE first == <<Tick, Buff(x, 61, 0), Tick>>
             left == LeftOf(x)
  <2>1. p = first \o RemoveEach(left)
    BY <1>15 DEF CardProgram, Schemes, x
  <2>2. QuietTask(Tick, Ids)
    BY TasksForAll
  <2>3. x \in Ids /\ Quiet(first, Ids)
    BY <1>2, <1>3, <1>15, <2>2, QuietShort
  <2>4. left \in Lists(Ids) /\ x \in Ids \ ToSet(left)
    BY <2>3, Neighbours
  <2> HIDE DEF first, left
  <2> QED BY <2>1, <2>3, <2>4, ThenRemove
<1>16. CASE c = "fusion"
  <2>1. p = <<Fuse(t, "INSECT", Drawn)>>
    BY <1>16 DEF CardProgram, Schemes
  <2>2. t # << >>
    BY <1>2, <1>16
  <2> QED BY <1>1, <2>1, <2>2, FuseOne, FusingFits
<1>17. CASE c = "bone_growth_powder"
  <2>1. PICK one \in Picks(All, 1) :
          IF M(one[1]).family # "BONE" THEN p = <<Buff(one[1], 0, 40)>>
          ELSE \E out \in Samples(Others("BONE"), 1) :
                 p = <<Buff(one[1], 0, 40), Buff(one[1], 0, 127)>> \o RemoveEach(out)
    BY <1>17 DEF CardProgram, Schemes
  <2>2. one[1] \in Ids
    BY OneOfAll
  <2>3. Quiet(<<Buff(one[1], 0, 40)>>, Ids)
        /\ Quiet(<<Buff(one[1], 0, 40), Buff(one[1], 0, 127)>>, Ids)
    BY <2>2, Tasks, QuietShort
  <2> QED BY <2>1, <2>2, <2>3, QuietFits, ThenRemoveSome, ZenonT(60)
<1> QED BY <1>10, <1>11, <1>12, <1>13, <1>14, <1>15, <1>16, <1>17

\* Every card.
LEMMA CardsFit ==
  ASSUME Sound(slots, tools, nextId), SlotCount \in Nat, Ids # {},
         NEW c \in AllCards, NEW t \in LegalTargets(c), NEW p \in CardProgram(c, t)
  PROVE  Fit(p, Ids)
<1>1. CASE c \in {"awakening", "mixed_leech", "pure_leech", "sticky_bile",
                  "mutation", "mutagen_powder", "bone_twin_hormone",
                  "insect_twin_hormone", "awaker_anesthetic",
                  "petrified_marrow", "hollow_marrow", "pia_mater",
                  "fiend_anesthetic"}
  BY <1>1, TargetCardsQuiet, QuietFits
<1>2. CASE c \in Schemes \cup {
             "gray_marrow", "awaker_fluid", "fiend_fluid", "insect_powder",
             "bone_powder", "holy_water", "waking_salts",
             "fresh_marrow_powder", "brood_hormone", "proliferation_powder",
             "eggshell_powder", "brain_fog", "insect_boost", "lure"}
  BY <1>2, DrawCardsQuiet, QuietFits
<1>3. CASE c \in {"bone_ointment", "peat_dressing", "alien_hormone",
                  "targeted_alien_hormone", "will_powder",
                  "strong_will_powder", "cleansing_ointment", "digestive",
                  "fusion", "bone_growth_powder"}
  BY <1>3, TakingCardsFit
<1> QED BY <1>1, <1>2, <1>3 DEF AllCards

-----------------------------------------------------------------------------
(* One step of the agenda: the head is replaced by the tasks it calls.     *)

\* A task that takes somebody is one of three.
LEMMA TakersTake ==
  ASSUME NEW t, t.op \notin Taking
  PROVE  Kills(t) = {}
BY DEF Kills, Taking

\* Tasks at the end of a turn name nobody, take nobody and bring nobody.
LEMMA LateAre ==
  ASSUME NEW t, Late(t) \/ t.op = "settle"
  PROVE  /\ Names(t) = {} /\ Kills(t) = {} /\ ~Brings(t) /\ ~Reacts(t)
         /\ t.op \notin Taking \cup {"restore"}
BY DEF Late, Names, Kills, Brings, Reacts, Taking

\* The agenda when its head has called q.
After(q, s) == q \o Tail(s)

\* Where the tasks of the new agenda come from.
LEMMA ReplaceHead ==
  ASSUME NEW s, s \in Seq(ToSet(s)), s # << >>, NEW q, q \in Seq(ToSet(q))
  PROVE  /\ Len(q) \in Nat /\ DOMAIN q = 1..Len(q)
         /\ Len(s) \in Nat /\ DOMAIN s = 1..Len(s) /\ 1 \in DOMAIN s
         /\ Head(s) = s[1]
         /\ DOMAIN After(q, s) = 1..(Len(q) + Len(s) - 1)
         /\ \A i \in DOMAIN After(q, s) :
              \/ i \in DOMAIN q /\ After(q, s)[i] = q[i]
              \/ /\ i > Len(q) /\ i - Len(q) + 1 \in DOMAIN s
                 /\ i - Len(q) + 1 > 1
                 /\ After(q, s)[i] = s[i - Len(q) + 1]
         /\ \A j \in DOMAIN s : j > 1 =>
              /\ j + Len(q) - 1 \in DOMAIN After(q, s)
              /\ After(q, s)[j + Len(q) - 1] = s[j]
<1> DEFINE S == ToSet(s)
           T == ToSet(q)
           r == Tail(s)
           u == q \o r
           m == Len(q)
           n == Len(s)
<1>0. s \in Seq(S) /\ q \in Seq(T)
  OBVIOUS
<1> HIDE DEF S, T
<1>1. /\ n \in Nat /\ n >= 1 /\ DOMAIN s = 1..n /\ 1 \in DOMAIN s
      /\ Head(s) = s[1]
      /\ m \in Nat /\ DOMAIN q = 1..m
      /\ r \in Seq(S) /\ Len(r) = n - 1
      /\ \A i \in 1..(n - 1) : r[i] = s[i + 1]
  BY <1>0
<1>2. DOMAIN u = 1..(m + (n - 1))
  <2>0. q \in Seq(T) /\ r \in Seq(S)
    BY <1>0, <1>1
  <2> HIDE DEF r
  <2>1. DOMAIN u = 1..(m + Len(r))
    BY <2>0, JoinIs
  <2> QED BY <1>1, <2>1
<1>3. \A i \in 1..m : u[i] = q[i]
  BY <1>0, <1>1, JoinIs
<1>4. \A i \in 1..(n - 1) : u[m + i] = s[i + 1]
  <2>1. \A i \in 1..Len(r) : u[m + i] = r[i]
    BY <1>0, <1>1, JoinIs
  <2> QED BY <1>1, <2>1
<1> HIDE DEF u, m, n, r
<1>5. \A i \in DOMAIN u :
        \/ i \in DOMAIN q /\ u[i] = q[i]
        \/ i > m /\ i - m + 1 \in DOMAIN s /\ i - m + 1 > 1 /\ u[i] = s[i - m + 1]
  <2> SUFFICES ASSUME NEW i \in 1..(m + (n - 1)), ~(i \in 1..m)
               PROVE  i > m /\ i - m + 1 \in DOMAIN s /\ i - m + 1 > 1
                      /\ u[i] = s[i - m + 1]
    BY <1>1, <1>2, <1>3
  <2>1. i > m /\ i - m \in 1..(n - 1) /\ m + (i - m) = i
        /\ i - m + 1 \in 1..n /\ i - m + 1 > 1
    BY <1>1
  <2>2. u[i] = s[i - m + 1]
    BY <1>4, <2>1
  <2> QED BY <1>1, <2>1, <2>2
<1>6. \A j \in DOMAIN s : j > 1 => j + m - 1 \in DOMAIN u /\ u[j + m - 1] = s[j]
  <2> SUFFICES ASSUME NEW j \in 1..n, j > 1
               PROVE  j + m - 1 \in DOMAIN u /\ u[j + m - 1] = s[j]
    BY <1>1
  <2>1. j - 1 \in 1..(n - 1) /\ m + (j - 1) = j + m - 1 /\ (j - 1) + 1 = j
        /\ j + m - 1 \in 1..(m + (n - 1))
    BY <1>1
  <2> QED BY <1>2, <1>4, <2>1
<1>7. m + (n - 1) = m + n - 1
  BY <1>1
<1> QED BY <1>1, <1>2, <1>5, <1>6, <1>7 DEF After, u, m, n, r

\* A task of the new agenda is a called one or a later one.
LEMMA ReplaceFrom ==
  ASSUME NEW s, s \in Seq(ToSet(s)), s # << >>, NEW q, q \in Seq(ToSet(q)),
         NEW i \in DOMAIN After(q, s)
  PROVE  \/ i \in DOMAIN q /\ After(q, s)[i] = q[i]
         \/ /\ i > Len(q) /\ i - Len(q) + 1 \in DOMAIN s
            /\ i - Len(q) + 1 > 1
            /\ After(q, s)[i] = s[i - Len(q) + 1]
BY ReplaceHead

\* The new agenda is a sequence.
LEMMA ReplaceSeq ==
  ASSUME NEW s, s \in Seq(ToSet(s)), s # << >>, NEW q, q \in Seq(ToSet(q))
  PROVE  After(q, s) \in Seq(ToSet(After(q, s)))
<1> DEFINE S == ToSet(s)
           T == ToSet(q)
           r == Tail(s)
<1>1. s \in Seq(S) /\ q \in Seq(T)
  OBVIOUS
<1> HIDE DEF S, T
<1>2. r \in Seq(S)
  BY <1>1
<1>3. After(q, s) = q \o r
  BY DEF After
<1> HIDE DEF r
<1> QED BY <1>1, <1>2, <1>3, JoinIs

\* Calls that take nobody, end nothing and do not react to a removal.
Calm(q, ids) ==
  /\ q \in Seq(ToSet(q))
  /\ \A i \in DOMAIN q : /\ Shaped(q[i]) /\ q[i].op \in Plain \cup {"tool"}
                         /\ ~Late(q[i]) /\ ~Reacts(q[i])
                         /\ Names(q[i]) \subseteq ids

\* A step whose calls are calm leaves the agenda in order.
LEMMA CalmStep ==
  ASSUME NEW s, s # << >>, NEW ids, NEW next \in Nat, NEW gone,
         Ready(s, ids, next, gone),
         s[1].op \notin {"remove", "restore", "settle"},
         NEW ids2, NEW next2 \in Nat, next <= next2,
         \A id \in ids : id \notin Kills(s[1]) => id \in ids2,
         \A id \in ids2 : id \in ids \/ id \notin 1..(next - 1),
         Brings(s[1]) => ids2 # {},
         NEW q, Calm(q, ids2)
  PROVE  Ready(After(q, s), ids2, next2, gone)
<1> DEFINE u == After(q, s)
           m == Len(q)
<1>1. s \in Seq(ToSet(s)) /\ q \in Seq(ToSet(q))
  BY DEF Ready, Calm
<1>2. /\ u \in Seq(ToSet(u)) /\ m \in Nat /\ DOMAIN q = 1..m
      /\ Len(s) \in Nat /\ DOMAIN s = 1..Len(s) /\ 1 \in DOMAIN s
      /\ DOMAIN u = 1..(m + Len(s) - 1)
  <2>1. u \in Seq(ToSet(u))
    BY <1>1, ReplaceSeq
  <2> QED BY <1>1, <2>1, ReplaceHead
<1>3. \A i \in DOMAIN u :
        \/ i \in DOMAIN q /\ u[i] = q[i]
        \/ i > m /\ i - m + 1 \in DOMAIN s /\ i - m + 1 > 1 /\ u[i] = s[i - m + 1]
  BY <1>1, ReplaceFrom
<1>4. \A j \in DOMAIN s : j > 1 => j + m - 1 \in DOMAIN u /\ u[j + m - 1] = s[j]
  BY <1>1, ReplaceHead
<1> HIDE DEF u, m
<1>5. \A i \in DOMAIN q : /\ Shaped(q[i]) /\ q[i].op \in Plain \cup {"tool"}
                          /\ ~Late(q[i]) /\ ~Reacts(q[i])
                          /\ Names(q[i]) \subseteq ids2 /\ Kills(q[i]) = {}
  <2>1. \A i \in DOMAIN q : q[i].op \notin Taking
    BY DEF Calm, Plain, Taking
  <2> QED BY <2>1, TakersTake DEF Calm
<1>6. \A j \in DOMAIN s :
        /\ Shaped(s[j]) /\ Names(s[j]) \subseteq ids
        /\ j > 1 => Kills(s[1]) \cap Names(s[j]) = {}
  BY <1>2 DEF Ready, Found
<1>7. \A i \in DOMAIN u : Shaped(u[i]) /\ Names(u[i]) \subseteq ids2
  BY <1>3, <1>5, <1>6
<1>8. Found(u, ids2)
  <2>1. ASSUME NEW i \in DOMAIN u, NEW j \in DOMAIN u, i < j
        PROVE  Kills(u[i]) \cap Names(u[j]) = {}
    <3>1. CASE i \in DOMAIN q /\ u[i] = q[i]
      BY <1>5, <3>1
    <3>2. CASE i > m /\ i - m + 1 \in DOMAIN s /\ u[i] = s[i - m + 1]
      <4>1. ~(j \in DOMAIN q)
        BY <1>2, <2>1, <3>2
      <4>2. j - m + 1 \in DOMAIN s /\ u[j] = s[j - m + 1]
        BY <1>3, <4>1
      <4>3. i - m + 1 < j - m + 1
        BY <1>2, <2>1
      <4> QED BY <3>2, <4>2, <4>3 DEF Ready, Found
    <3> QED BY <1>3, <3>1, <3>2
  <2> QED BY <1>7, <2>1 DEF Found
<1>9. Survived(u, ids2)
  <2>1. CASE \E id \in ids : \A i \in DOMAIN s : id \notin Kills(s[i])
    <3>1. PICK id \in ids : \A i \in DOMAIN s : id \notin Kills(s[i])
      BY <2>1
    <3>2. id \in ids2
      BY <1>2, <3>1
    <3>3. \A i \in DOMAIN u : id \notin Kills(u[i])
      BY <1>3, <1>5, <3>1
    <3> QED BY <3>2, <3>3 DEF Survived
  <2>2. CASE \E k \in DOMAIN s :
               /\ Brings(s[k])
               /\ \A j \in DOMAIN s : j > k => s[j].op \notin Taking
    <3>1. PICK k \in DOMAIN s :
            /\ Brings(s[k])
            /\ \A j \in DOMAIN s : j > k => s[j].op \notin Taking
      BY <2>2
    <3>2. CASE k = 1
      <4>1. PICK id \in ids2 : TRUE
        BY <3>1, <3>2
      <4>2. \A i \in DOMAIN u : Kills(u[i]) = {}
        BY <1>3, <1>5, <3>1, <3>2, TakersTake
      <4> QED BY <4>1, <4>2 DEF Survived
    <3>3. CASE k > 1
      <4>1. k + m - 1 \in DOMAIN u /\ Brings(u[k + m - 1])
        BY <1>4, <3>1, <3>3
      <4>2. \A j \in DOMAIN u : j > k + m - 1 => u[j].op \notin Taking
        <5> SUFFICES ASSUME NEW j \in DOMAIN u, j > k + m - 1
                     PROVE  u[j].op \notin Taking
          OBVIOUS
        <5>1. ~(j \in DOMAIN q) /\ j - m + 1 > k
          BY <1>2, <3>3
        <5> QED BY <1>3, <3>1, <5>1
      <4> QED BY <4>1, <4>2 DEF Survived
    <3> QED BY <1>2, <3>2, <3>3
  <2> QED BY <2>1, <2>2 DEF Ready, Survived
<1>10. InTurn(u)
  <2> SUFFICES ASSUME NEW i \in DOMAIN u, NEW j \in DOMAIN u, i < j
               PROVE  /\ u[i].op # "settle"
                      /\ Late(u[i]) => Late(u[j]) \/ u[j].op = "settle"
    BY DEF InTurn
  <2>1. CASE i \in DOMAIN q /\ u[i] = q[i]
    BY <1>5, <2>1 DEF Plain
  <2>2. CASE i > m /\ i - m + 1 \in DOMAIN s /\ u[i] = s[i - m + 1]
    <3>1. ~(j \in DOMAIN q)
      BY <1>2, <2>2
    <3>2. j - m + 1 \in DOMAIN s /\ u[j] = s[j - m + 1]
      BY <1>3, <3>1
    <3>3. i - m + 1 < j - m + 1
      BY <1>2
    <3> QED BY <2>2, <3>2, <3>3 DEF Ready, InTurn
  <2> QED BY <1>3, <2>1, <2>2
<1>11. Removing(u, ids2, next2, gone)
  <2>0. Removing(s, ids, next, gone)
    BY DEF Ready
  <2>1. ASSUME NEW k \in DOMAIN u, u[k].op = "restore"
        PROVE  /\ u[k].was = Empty
               /\ \A j \in 1..(k - 1) :
                    u[j].op \notin Taking \cup {"restore"} /\ ~Late(u[j])
    <3>1. ~(k \in DOMAIN q /\ u[k] = q[k])
      BY <1>5, <2>1 DEF Plain
    <3> DEFINE l == k - m + 1
    <3>2. k > m /\ l \in DOMAIN s /\ l > 1 /\ u[k] = s[l]
      BY <1>3, <3>1
    <3>3. /\ s[l].was = Empty
          /\ \A j \in 1..(l - 1) :
               s[j].op \notin Taking \cup {"restore"} /\ ~Late(s[j])
      BY <2>0, <2>1, <3>2 DEF Removing
    <3>4. ASSUME NEW j \in 1..(k - 1)
          PROVE  u[j].op \notin Taking \cup {"restore"} /\ ~Late(u[j])
      <4>1. j \in DOMAIN u
        BY <1>2
      <4>2. CASE j \in DOMAIN q /\ u[j] = q[j]
        BY <1>5, <4>2 DEF Plain, Taking
      <4>3. CASE /\ j - m + 1 \in DOMAIN s
                 /\ u[j] = s[j - m + 1]
        <5>1. j - m + 1 \in 1..(l - 1)
          BY <1>2, <4>3
        <5> QED BY <3>3, <4>3, <5>1
      <4> QED BY <1>3, <4>1, <4>2, <4>3
    <3> QED BY <3>2, <3>3, <3>4
  <2>2. ASSUME NEW k \in DOMAIN u, Reacts(u[k])
        PROVE  /\ gone.id = u[k].id /\ u[k].id \in 1..(next2 - 1)
               /\ u[k].id \notin ids2
               /\ \E j \in DOMAIN u : j > k /\ u[j].op = "restore"
    <3>1. ~(k \in DOMAIN q /\ u[k] = q[k])
      BY <1>5, <2>2
    <3> DEFINE l == k - m + 1
    <3>2. k > m /\ l \in DOMAIN s /\ l > 1 /\ u[k] = s[l]
      BY <1>3, <3>1
    <3>3. /\ gone.id = s[l].id /\ s[l].id \in 1..(next - 1) /\ s[l].id \notin ids
          /\ \E j \in DOMAIN s : j > l /\ s[j].op = "restore"
      BY <2>0, <2>2, <3>2 DEF Removing
    <3>4. PICK j \in DOMAIN s : j > l /\ s[j].op = "restore"
      BY <3>3
    <3>5. j + m - 1 \in DOMAIN u /\ u[j + m - 1] = s[j] /\ j + m - 1 > k
      <4>1. j > 1 /\ j + m - 1 > k
        BY <1>2, <3>2, <3>4
      <4> QED BY <1>4, <4>1
    <3>6. s[l].id \in 1..(next2 - 1) /\ s[l].id \notin ids2
      BY <3>3
    <3> QED BY <3>2, <3>3, <3>4, <3>5, <3>6
  <2>3. ASSUME \A k \in DOMAIN u : u[k].op # "restore"
        PROVE  gone = Empty
    <3>1. \A k \in DOMAIN s : s[k].op # "restore"
      BY <1>2, <1>4, <2>3
    <3> QED BY <2>0, <3>1 DEF Removing
  <2> QED BY <2>1, <2>2, <2>3 DEF Removing
<1>12. Ready(u, ids2, next2, gone)
  BY <1>2, <1>7, <1>8, <1>9, <1>10, <1>11 DEF Ready
<1> QED BY <1>12 DEF u

\* Where an agenda has a restore or a reaction, its head takes nobody and the
\* turn goes on.
LEMMA NoRestore ==
  ASSUME NEW s, s # << >>, NEW ids, NEW next, NEW gone, Ready(s, ids, next, gone),
         s[1].op \in Taking \cup {"settle"} \/ Late(s[1])
  PROVE  /\ \A k \in DOMAIN s : s[k].op # "restore" /\ ~Reacts(s[k])
         /\ gone = Empty
<1>1. Len(s) \in Nat /\ DOMAIN s = 1..Len(s) /\ 1 \in DOMAIN s
  <2>1. s \in Seq(ToSet(s))
    BY DEF Ready
  <2> QED BY <2>1, ReplaceHead
<1>2. s[1].op # "restore"
  BY LateAre DEF Taking
<1>3. ASSUME NEW k \in DOMAIN s PROVE s[k].op # "restore"
  <2> SUFFICES ASSUME s[k].op = "restore", k # 1 PROVE FALSE
    BY <1>2
  <2>1. 1 \in 1..(k - 1)
    BY <1>1
  <2>2. s[1].op \notin Taking \cup {"restore"} /\ ~Late(s[1])
    BY <2>1 DEF Ready, Removing
  <2>3. s[1].op = "settle"
    BY <2>2
  <2>4. s[1].op # "settle"
    <3>1. 1 < k
      BY <1>1
    <3> QED BY <1>1, <3>1 DEF Ready, InTurn
  <2> QED BY <2>3, <2>4
<1> QED BY <1>3 DEF Ready, Removing

\* A restore ends the removal.
LEMMA RestoreStep ==
  ASSUME NEW s, s # << >>, NEW ids, NEW next \in Nat, NEW gone,
         Ready(s, ids, next, gone), s[1].op = "restore"
  PROVE  /\ s[1].was = Empty
         /\ Ready(After(<< >>, s), ids, next, Empty)
<1> DEFINE u == After(<< >>, s)
<1>0. s \in Seq(ToSet(s)) /\ << >> \in Seq(ToSet(<< >>)) /\ Len(<< >>) = 0
  BY DEF Ready
<1>1. /\ Len(s) \in Nat /\ DOMAIN s = 1..Len(s) /\ 1 \in DOMAIN s
      /\ DOMAIN u = 1..(Len(s) - 1)
  <2>1. /\ Len(s) \in Nat /\ DOMAIN s = 1..Len(s) /\ 1 \in DOMAIN s
        /\ DOMAIN u = 1..(Len(<< >>) + Len(s) - 1)
    BY <1>0, ReplaceHead
  <2> QED BY <1>0, <2>1
<1>2. u \in Seq(ToSet(u))
  BY <1>0, ReplaceSeq
<1>3. \A i \in DOMAIN u : i + 1 \in DOMAIN s /\ i + 1 > 1 /\ u[i] = s[i + 1]
  <2> SUFFICES ASSUME NEW i \in DOMAIN u
               PROVE  i + 1 \in DOMAIN s /\ i + 1 > 1 /\ u[i] = s[i + 1]
    OBVIOUS
  <2>1. DOMAIN << >> = {}
    OBVIOUS
  <2>2. /\ i - Len(<< >>) + 1 \in DOMAIN s
        /\ i - Len(<< >>) + 1 > 1
        /\ u[i] = s[i - Len(<< >>) + 1]
    BY <1>0, <2>1, ReplaceFrom
  <2>3. i - Len(<< >>) + 1 = i + 1
    BY <1>0, <1>1
  <2> QED BY <2>2, <2>3
<1>4. \A j \in DOMAIN s : j > 1 => j - 1 \in DOMAIN u /\ u[j - 1] = s[j]
  BY <1>1, <1>3
<1> HIDE DEF u
<1>5. s[1].was = Empty
  BY <1>1 DEF Ready, Removing
<1>6. \A k \in DOMAIN s : k > 1 => s[k].op # "restore"
  <2> SUFFICES ASSUME NEW k \in DOMAIN s, k > 1, s[k].op = "restore" PROVE FALSE
    OBVIOUS
  <2>1. 1 \in 1..(k - 1)
    BY <1>1
  <2> QED BY <2>1 DEF Ready, Removing
<1>7. \A i \in DOMAIN u : u[i].op # "restore" /\ ~Reacts(u[i])
  <2> SUFFICES ASSUME NEW i \in DOMAIN u, u[i].op = "restore" \/ Reacts(u[i])
               PROVE  FALSE
    OBVIOUS
  <2>1. i + 1 \in DOMAIN s /\ i + 1 > 1 /\ u[i] = s[i + 1]
    BY <1>3
  <2>2. Reacts(s[i + 1])
    BY <1>6, <2>1
  <2>3. \E j \in DOMAIN s : j > i + 1 /\ s[j].op = "restore"
    BY <2>1, <2>2 DEF Ready, Removing
  <2>4. PICK j \in DOMAIN s : j > i + 1 /\ s[j].op = "restore"
    BY <2>3
  <2>5. j > 1
    BY <1>1, <2>4
  <2> QED BY <1>6, <2>4, <2>5
<1>8. Found(u, ids)
  <2>1. \A i \in DOMAIN u : Names(u[i]) \subseteq ids
    BY <1>3 DEF Ready, Found
  <2>2. ASSUME NEW i \in DOMAIN u, NEW j \in DOMAIN u, i < j
        PROVE  Kills(u[i]) \cap Names(u[j]) = {}
    <3>1. i + 1 < j + 1
      BY <1>1, <2>2
    <3> QED BY <1>3, <3>1 DEF Ready, Found
  <2> QED BY <2>1, <2>2 DEF Found
<1>9. Survived(u, ids)
  <2>1. CASE \E id \in ids : \A i \in DOMAIN s : id \notin Kills(s[i])
    BY <1>3, <2>1 DEF Survived
  <2>2. CASE \E k \in DOMAIN s :
               /\ Brings(s[k])
               /\ \A j \in DOMAIN s : j > k => s[j].op \notin Taking
    <3>1. PICK k \in DOMAIN s :
            /\ Brings(s[k])
            /\ \A j \in DOMAIN s : j > k => s[j].op \notin Taking
      BY <2>2
    <3>2. k # 1
      BY <3>1 DEF Brings
    <3>3. k > 1
      BY <1>1, <3>2
    <3>4. k - 1 \in DOMAIN u /\ Brings(u[k - 1])
      BY <1>4, <3>1, <3>3
    <3>5. \A j \in DOMAIN u : j > k - 1 => u[j].op \notin Taking
      <4> SUFFICES ASSUME NEW j \in DOMAIN u, j > k - 1 PROVE u[j].op \notin Taking
        OBVIOUS
      <4>1. j + 1 > k
        BY <1>1
      <4> QED BY <1>3, <3>1, <4>1
    <3> QED BY <3>4, <3>5 DEF Survived
  <2> QED BY <2>1, <2>2 DEF Ready, Survived
<1>10. InTurn(u)
  <2> SUFFICES ASSUME NEW i \in DOMAIN u, NEW j \in DOMAIN u, i < j
               PROVE  /\ u[i].op # "settle"
                      /\ Late(u[i]) => Late(u[j]) \/ u[j].op = "settle"
    BY DEF InTurn
  <2>1. i + 1 < j + 1
    BY <1>1
  <2> QED BY <1>3, <2>1 DEF Ready, InTurn
<1>11. Removing(u, ids, next, Empty)
  BY <1>7 DEF Removing
<1>12. \A i \in DOMAIN u : Shaped(u[i])
  BY <1>3 DEF Ready
<1>13. Ready(u, ids, next, Empty)
  BY <1>2, <1>8, <1>9, <1>10, <1>11, <1>12 DEF Ready
<1> QED BY <1>5, <1>13 DEF u

\* The tools that an event triggers.
Triggered(q, kind, id) ==
  /\ q \in Seq(ToSet(q))
  /\ \A i \in DOMAIN q : /\ q[i] = Tool(q[i].handler, id)
                         /\ q[i].handler \in AllTools
                         /\ Trigger(q[i].handler) = kind

\* emit: only the tools that listen to an event are called, with its id.
LEMMA EmitIs ==
  ASSUME tools \in Seq(AllTools), NEW kind, NEW id
  PROVE  Triggered(Emit(kind, id), kind, id)
<1> DEFINE n == Len(tools)
           places == {i \in DOMAIN tools : Trigger(tools[i]) = kind}
           size == Cardinality(places)
           kept == Keep(tools, places)
           q == Emit(kind, id)
<1>1. n \in Nat /\ places \in SUBSET (1..n)
      /\ \A i \in places : tools[i] \in AllTools /\ Trigger(tools[i]) = kind
  OBVIOUS
<1>2. q = [k \in DOMAIN kept |-> Tool(kept[k], id)]
  BY DEF Emit, Each
<1> HIDE DEF n, places
<1>3. /\ size \in Nat /\ DOMAIN kept = 1..size
      /\ \A k \in 1..size : Nth(places, k) \in places
                            /\ kept[k] = tools[Nth(places, k)]
  BY <1>1, KeepIs
<1> HIDE DEF size, kept, q
<1>4. \A k \in 1..size : /\ q[k] = Tool(kept[k], id)
                         /\ kept[k] \in AllTools /\ Trigger(kept[k]) = kind
  BY <1>1, <1>2, <1>3
<1>5. \A k \in 1..size : q[k].handler = kept[k]
  <2>1. \A h : Tool(h, id).handler = h
    BY DEF Tool
  <2> QED BY <1>4, <2>1
<1>6. DOMAIN q = 1..size /\ q \in Seq(ToSet(q))
  <2>1. DOMAIN q = 1..size /\ q = [k \in 1..size |-> q[k]]
    BY <1>2, <1>3
  <2>2. \A k \in 1..size : q[k] \in ToSet(q)
    BY <2>1 DEF ToSet
  <2> QED BY <1>3, <2>1, <2>2
<1>7. Triggered(q, kind, id)
  BY <1>4, <1>5, <1>6 DEF Triggered
<1> QED BY <1>7 DEF q

\* What a triggered tool is.
LEMMA TriggeredAre ==
  ASSUME NEW q, NEW kind, NEW id, Triggered(q, kind, id), NEW i \in DOMAIN q
  PROVE  /\ Shaped(q[i]) /\ q[i].op = "tool" /\ q[i].id = id
         /\ Names(q[i]) = {} /\ Kills(q[i]) = {}
         /\ Late(q[i]) <=> kind = "turn_end"
         /\ Reacts(q[i]) <=> kind = "removed"
         /\ q[i].op \notin Taking \cup {"restore", "settle"}
<1> DEFINE h == q[i].handler
<1>1. q[i] = Tool(h, id) /\ h \in AllTools /\ Trigger(h) = kind
  BY DEF Triggered
<1> HIDE DEF h
<1>2. \A t : t = Tool(h, id) =>
        /\ t.op = "tool" /\ t.id = id /\ t.handler = h
  BY DEF Tool
<1>3. Tool(h, id).op = "tool" /\ Tool(h, id).id = id /\ Tool(h, id).handler = h
  BY DEF Tool
<1>4. Shaped(Tool(h, id))
  BY <1>1, <1>3 DEF Shaped, Plain, Taking
<1>5. Names(Tool(h, id)) = {} /\ Kills(Tool(h, id)) = {}
  BY <1>3 DEF Names, Kills
<1> QED BY <1>1, <1>3, <1>4, <1>5 DEF Late, Reacts, Taking

\* The tools of an event that is neither a removal nor the end of the turn.
LEMMA CalmEmit ==
  ASSUME NEW q, NEW kind, kind \notin {"removed", "turn_end"}, NEW id,
         Triggered(q, kind, id), NEW ids
  PROVE  Calm(q, ids)
<1>1. \A i \in DOMAIN q : /\ Shaped(q[i]) /\ q[i].op = "tool" /\ ~Late(q[i])
                          /\ ~Reacts(q[i]) /\ Names(q[i]) = {}
  BY TriggeredAre
<1> QED BY <1>1 DEF Calm, Triggered

\* Quiet tasks are calm.
LEMMA CalmQuiet ==
  ASSUME NEW q, NEW ids, Quiet(q, ids)
  PROVE  Calm(q, ids)
<1>1. \A i \in DOMAIN q : /\ Shaped(q[i]) /\ q[i].op \in Plain
                          /\ Names(q[i]) \subseteq ids
  BY DEF Quiet, QuietTask
<1>2. \A i \in DOMAIN q : q[i].op \in Plain => ~Late(q[i]) /\ ~Reacts(q[i])
  BY DEF Plain, Late, Reacts
<1> QED BY <1>1, <1>2 DEF Calm, Quiet

\* Calm calls in a row.
LEMMA CalmJoin ==
  ASSUME NEW p, NEW q, NEW ids, Calm(p, ids), Calm(q, ids)
  PROVE  Calm(p \o q, ids)
<1>1. p \in Seq(ToSet(p)) /\ q \in Seq(ToSet(q))
  BY DEF Calm
<1> DEFINE u == p \o q
<1>2. u \in Seq(ToSet(u)) /\ DOMAIN u = 1..(Len(p) + Len(q))
  BY <1>1, JoinIs
<1>3. \A i \in 1..Len(p) : u[i] = p[i]
  BY <1>1, JoinIs
<1>4. \A i \in 1..(Len(p) + Len(q)) :
        i \in 1..Len(p) \/ (i > Len(p) /\ i - Len(p) \in 1..Len(q)
                             /\ u[i] = q[i - Len(p)])
  BY <1>1, JoinIs
<1>5. DOMAIN p = 1..Len(p) /\ DOMAIN q = 1..Len(q)
  BY <1>1
<1> HIDE DEF u
<1>6. \A i \in DOMAIN u : (i \in DOMAIN p /\ u[i] = p[i])
                          \/ (i - Len(p) \in DOMAIN q /\ u[i] = q[i - Len(p)])
  BY <1>2, <1>3, <1>4, <1>5
<1>7. Calm(u, ids)
  BY <1>2, <1>6 DEF Calm
<1> QED BY <1>7 DEF u

\* A removal puts the tools that react to it on the agenda, and its end.
LEMMA RemoveStep ==
  ASSUME NEW s, s # << >>, NEW ids, NEW next \in Nat, NEW gone,
         Ready(s, ids, next, gone), s[1].op = "remove",
         NEW id, id = s[1].id, id \in 1..(next - 1),
         NEW e, Triggered(e, "removed", id),
         NEW gone2, gone2.id = id
  PROVE  Ready(After(e \o <<Restore(gone)>>, s), ids \ {id}, next, gone2)
<1> DEFINE q == e \o <<Restore(gone)>>
           u == After(q, s)
           m == Len(q)
<1>0. s \in Seq(ToSet(s)) /\ Kills(s[1]) = {id}
  BY DEF Ready, Kills
<1>1. /\ gone = Empty
      /\ \A k \in DOMAIN s : s[k].op # "restore" /\ ~Reacts(s[k])
  BY NoRestore DEF Taking
<1>2. /\ q \in Seq(ToSet(q)) /\ m \in Nat /\ DOMAIN q = 1..m /\ m >= 1
      /\ q[m] = Restore(Empty)
      /\ \A i \in 1..(m - 1) : i \in DOMAIN e /\ q[i] = e[i]
  <2> DEFINE l == <<Restore(gone)>>
  <2>1. e \in Seq(ToSet(e)) /\ l \in Seq(ToSet(l)) /\ Len(l) = 1
        /\ l[1] = Restore(Empty)
    BY <1>1 DEF Triggered, ToSet
  <2> HIDE DEF l
  <2>2. e \in Seq(ToSet(e)) /\ l \in Seq(ToSet(l))
    BY <2>1
  <2>3. Len(e) \in Nat /\ DOMAIN e = 1..Len(e)
    BY <2>1
  <2>4. e \o l \in Seq(ToSet(e \o l)) /\ Len(e \o l) = Len(e) + Len(l)
        /\ DOMAIN (e \o l) = 1..(Len(e) + Len(l))
    BY <2>2, JoinIs
  <2>5. \A i \in 1..Len(e) : (e \o l)[i] = e[i]
    BY <2>2, JoinIs
  <2>6. \A i \in 1..Len(l) : (e \o l)[Len(e) + i] = l[i]
    BY <2>2, JoinIs
  <2>7. (e \o l)[Len(e) + 1] = Restore(Empty)
    <3>1. 1 \in 1..Len(l)
      BY <2>1
    <3>2. (e \o l)[Len(e) + 1] = l[1]
      BY <2>6, <3>1
    <3> QED BY <2>1, <3>2
  <2> DEFINE n == Len(e)
             w == e \o l
  <2>8. /\ n \in Nat /\ DOMAIN e = 1..n /\ w \in Seq(ToSet(w)) /\ Len(w) = n + 1
        /\ DOMAIN w = 1..(n + 1) /\ w[n + 1] = Restore(Empty)
        /\ \A i \in 1..n : w[i] = e[i]
    BY <2>1, <2>3, <2>4, <2>5, <2>7
  <2> HIDE DEF n, w
  <2>9. /\ w \in Seq(ToSet(w)) /\ Len(w) \in Nat /\ DOMAIN w = 1..Len(w)
        /\ Len(w) >= 1 /\ w[Len(w)] = Restore(Empty)
        /\ \A i \in 1..(Len(w) - 1) : i \in DOMAIN e /\ w[i] = e[i]
    BY <2>8
  <2> QED BY <2>9 DEF w, l
<1> HIDE DEF q
<1>3. /\ Len(s) \in Nat /\ DOMAIN s = 1..Len(s) /\ 1 \in DOMAIN s
      /\ DOMAIN u = 1..(m + Len(s) - 1) /\ u \in Seq(ToSet(u))
  <2>1. u \in Seq(ToSet(u))
    BY <1>0, <1>2, ReplaceSeq
  <2> QED BY <1>0, <1>2, <2>1, ReplaceHead
<1>4. \A i \in DOMAIN u :
        \/ i \in DOMAIN q /\ u[i] = q[i]
        \/ i > m /\ i - m + 1 \in DOMAIN s /\ i - m + 1 > 1 /\ u[i] = s[i - m + 1]
  BY <1>0, <1>2, ReplaceFrom
<1>5. \A j \in DOMAIN s : j > 1 => j + m - 1 \in DOMAIN u /\ u[j + m - 1] = s[j]
  BY <1>0, <1>2, ReplaceHead
<1>6. m \in DOMAIN u /\ u[m] = Restore(Empty)
  <2>1. m \in DOMAIN u
    BY <1>2, <1>3
  <2>2. ~(m > m)
    BY <1>2
  <2> QED BY <1>2, <1>4, <2>1, <2>2
<1> HIDE DEF u, m
<1>7. Restore(Empty).op = "restore" /\ Restore(Empty).was = Empty
  BY DEF Restore
<1>8. Shaped(Restore(Empty)) /\ Names(Restore(Empty)) = {} /\ Kills(Restore(Empty)) = {}
      /\ ~Late(Restore(Empty)) /\ ~Reacts(Restore(Empty))
  BY <1>7 DEF Shaped, Plain, Taking, Names, Kills, Late, Reacts
<1>9. \A i \in DOMAIN e :
        /\ Shaped(e[i]) /\ e[i].op = "tool" /\ e[i].id = id
        /\ Names(e[i]) = {} /\ Kills(e[i]) = {} /\ ~Late(e[i]) /\ Reacts(e[i])
  BY TriggeredAre
<1>10. \A i \in DOMAIN q :
         \/ i = m /\ q[i] = Restore(Empty)
         \/ i < m /\ i \in DOMAIN e /\ q[i] = e[i]
  <2> SUFFICES ASSUME NEW i \in 1..m, i # m
               PROVE  i < m /\ i \in DOMAIN e /\ q[i] = e[i]
    BY <1>2
  <2>1. i < m /\ i \in 1..(m - 1)
    BY <1>2
  <2> QED BY <1>2, <2>1
<1>11. \A i \in DOMAIN q : Shaped(q[i]) /\ Names(q[i]) = {} /\ Kills(q[i]) = {}
                           /\ ~Late(q[i]) /\ q[i].op \in {"tool", "restore"}
  BY <1>7, <1>8, <1>9, <1>10
<1>12. \A j \in DOMAIN s :
         /\ Shaped(s[j]) /\ Names(s[j]) \subseteq ids
         /\ j > 1 => Kills(s[1]) \cap Names(s[j]) = {}
  BY <1>3 DEF Ready, Found
<1>13. \A i \in DOMAIN u : Shaped(u[i]) /\ Names(u[i]) \subseteq ids \ {id}
  BY <1>0, <1>4, <1>11, <1>12
<1>14. Found(u, ids \ {id})
  <2>1. ASSUME NEW i \in DOMAIN u, NEW j \in DOMAIN u, i < j
        PROVE  Kills(u[i]) \cap Names(u[j]) = {}
    <3>1. CASE i \in DOMAIN q /\ u[i] = q[i]
      BY <1>11, <3>1
    <3>2. CASE i > m /\ i - m + 1 \in DOMAIN s /\ u[i] = s[i - m + 1]
      <4>1. ~(j \in DOMAIN q)
        BY <1>2, <1>3, <2>1, <3>2
      <4>2. j - m + 1 \in DOMAIN s /\ u[j] = s[j - m + 1]
        BY <1>4, <4>1
      <4>3. i - m + 1 < j - m + 1
        BY <1>2, <1>3, <2>1
      <4> QED BY <3>2, <4>2, <4>3 DEF Ready, Found
    <3> QED BY <1>4, <3>1, <3>2
  <2> QED BY <1>13, <2>1 DEF Found
<1>15. Survived(u, ids \ {id})
  <2>1. CASE \E x \in ids : \A i \in DOMAIN s : x \notin Kills(s[i])
    <3>1. PICK x \in ids : \A i \in DOMAIN s : x \notin Kills(s[i])
      BY <2>1
    <3>2. x \in ids \ {id}
      BY <1>0, <1>3, <3>1
    <3>3. \A i \in DOMAIN u : x \notin Kills(u[i])
      BY <1>4, <1>11, <3>1
    <3> QED BY <3>2, <3>3 DEF Survived
  <2>2. CASE \E k \in DOMAIN s :
               /\ Brings(s[k])
               /\ \A j \in DOMAIN s : j > k => s[j].op \notin Taking
    <3>1. PICK k \in DOMAIN s :
            /\ Brings(s[k])
            /\ \A j \in DOMAIN s : j > k => s[j].op \notin Taking
      BY <2>2
    <3>2. k # 1
      BY <3>1 DEF Brings
    <3>3. k > 1
      BY <1>3, <3>2
    <3>4. k + m - 1 \in DOMAIN u /\ Brings(u[k + m - 1])
      BY <1>5, <3>1, <3>3
    <3>5. \A j \in DOMAIN u : j > k + m - 1 => u[j].op \notin Taking
      <4> SUFFICES ASSUME NEW j \in DOMAIN u, j > k + m - 1
                   PROVE  u[j].op \notin Taking
        OBVIOUS
      <4>1. ~(j \in DOMAIN q) /\ j - m + 1 > k
        BY <1>2, <1>3, <3>3
      <4> QED BY <1>4, <3>1, <4>1
    <3> QED BY <3>4, <3>5 DEF Survived
  <2> QED BY <2>1, <2>2 DEF Ready, Survived
<1>16. InTurn(u)
  <2> SUFFICES ASSUME NEW i \in DOMAIN u, NEW j \in DOMAIN u, i < j
               PROVE  /\ u[i].op # "settle"
                      /\ Late(u[i]) => Late(u[j]) \/ u[j].op = "settle"
    BY DEF InTurn
  <2>1. CASE i \in DOMAIN q /\ u[i] = q[i]
    BY <1>11, <2>1
  <2>2. CASE i > m /\ i - m + 1 \in DOMAIN s /\ u[i] = s[i - m + 1]
    <3>1. ~(j \in DOMAIN q)
      BY <1>2, <1>3, <2>2
    <3>2. j - m + 1 \in DOMAIN s /\ u[j] = s[j - m + 1]
      BY <1>4, <3>1
    <3>3. i - m + 1 < j - m + 1
      BY <1>2, <1>3
    <3> QED BY <2>2, <3>2, <3>3 DEF Ready, InTurn
  <2> QED BY <1>4, <2>1, <2>2
<1>17. Removing(u, ids \ {id}, next, gone2)
  <2>1. ASSUME NEW k \in DOMAIN u, u[k].op = "restore"
        PROVE  /\ u[k].was = Empty
               /\ \A j \in 1..(k - 1) :
                    u[j].op \notin Taking \cup {"restore"} /\ ~Late(u[j])
    <3>1. k \in DOMAIN q /\ u[k] = q[k]
      BY <1>1, <1>4, <2>1
    <3>2. k = m /\ u[k] = Restore(Empty)
      BY <1>9, <1>10, <2>1, <3>1
    <3>3. ASSUME NEW j \in 1..(k - 1)
          PROVE  u[j].op \notin Taking \cup {"restore"} /\ ~Late(u[j])
      <4>1. j \in DOMAIN q /\ j # m /\ ~(j > m) /\ j \in DOMAIN u
        BY <1>2, <1>3, <3>2
      <4>2. u[j] = e[j] /\ j \in DOMAIN e
        BY <1>4, <1>10, <4>1
      <4> QED BY <1>9, <4>2 DEF Taking
    <3> QED BY <1>7, <3>2, <3>3
  <2>2. ASSUME NEW k \in DOMAIN u, Reacts(u[k])
        PROVE  /\ gone2.id = u[k].id /\ u[k].id \in 1..(next - 1)
               /\ u[k].id \notin ids \ {id}
               /\ \E j \in DOMAIN u : j > k /\ u[j].op = "restore"
    <3>1. k \in DOMAIN q /\ u[k] = q[k]
      BY <1>1, <1>4, <2>2
    <3>2. k < m /\ k \in DOMAIN e /\ u[k] = e[k]
      BY <1>8, <1>10, <2>2, <3>1
    <3>3. u[k].id = id
      BY <1>9, <3>2
    <3>4. m > k
      BY <1>2, <1>3, <3>2
    <3> QED BY <1>6, <1>7, <3>3, <3>4
  <2>3. ~(\A k \in DOMAIN u : u[k].op # "restore")
    BY <1>6, <1>7
  <2> QED BY <2>1, <2>2, <2>3 DEF Removing
<1>18. Ready(u, ids \ {id}, next, gone2)
  BY <1>3, <1>13, <1>14, <1>15, <1>16, <1>17 DEF Ready
<1> QED BY <1>18 DEF u, q

\* Someone is there when a tool of the end of the turn looks.
LEMMA LateNotAlone ==
  ASSUME NEW s, s # << >>, NEW ids, NEW next, NEW gone, Ready(s, ids, next, gone),
         Late(s[1]) \/ s[1].op = "settle"
  PROVE  ids # {}
<1>1. Len(s) \in Nat /\ DOMAIN s = 1..Len(s) /\ 1 \in DOMAIN s
  <2>1. s \in Seq(ToSet(s))
    BY DEF Ready
  <2> QED BY <2>1, ReplaceHead
<1>2. \A k \in DOMAIN s : k > 1 => Late(s[k]) \/ s[k].op = "settle"
  <2> SUFFICES ASSUME NEW k \in DOMAIN s, k > 1
               PROVE  Late(s[k]) \/ s[k].op = "settle"
    OBVIOUS
  <2>1. 1 < k
    BY <1>1
  <2> QED BY <1>1, <2>1 DEF Ready, InTurn
<1>3. \A k \in DOMAIN s : Late(s[k]) \/ s[k].op = "settle"
  <2> SUFFICES ASSUME NEW k \in DOMAIN s, ~(k > 1)
               PROVE  Late(s[k]) \/ s[k].op = "settle"
    BY <1>2
  <2>1. k = 1
    BY <1>1
  <2> QED BY <2>1
<1>4. \A k \in DOMAIN s : ~Brings(s[k])
  BY <1>3, LateAre
<1> QED BY <1>4 DEF Ready, Survived

\* A tool of the end of the turn calls a program; what follows ends the turn.
LEMMA LateStep ==
  ASSUME NEW s, s # << >>, NEW ids, NEW next \in Nat, NEW gone,
         Ready(s, ids, next, gone), Late(s[1]),
         NEW q, Fit(q, ids)
  PROVE  Ready(After(q, s), ids, next, gone)
<1> DEFINE u == After(q, s)
           m == Len(q)
<1>0. s \in Seq(ToSet(s)) /\ q \in Seq(ToSet(q))
  BY DEF Ready, Fit
<1>1. /\ gone = Empty
      /\ \A k \in DOMAIN s : s[k].op # "restore" /\ ~Reacts(s[k])
  BY NoRestore
<1>2. /\ Len(s) \in Nat /\ DOMAIN s = 1..Len(s) /\ 1 \in DOMAIN s
      /\ m \in Nat /\ DOMAIN q = 1..m
      /\ DOMAIN u = 1..(m + Len(s) - 1) /\ u \in Seq(ToSet(u))
  <2>1. u \in Seq(ToSet(u))
    BY <1>0, ReplaceSeq
  <2> QED BY <1>0, <2>1, ReplaceHead
<1>3. \A i \in DOMAIN u :
        \/ i \in DOMAIN q /\ u[i] = q[i]
        \/ i > m /\ i - m + 1 \in DOMAIN s /\ i - m + 1 > 1 /\ u[i] = s[i - m + 1]
  BY <1>0, ReplaceFrom
<1>4. \A i \in DOMAIN q : i \in DOMAIN u /\ u[i] = q[i]
  <2> HIDE DEF u, m
  <2> SUFFICES ASSUME NEW i \in DOMAIN q PROVE i \in DOMAIN u /\ u[i] = q[i]
    OBVIOUS
  <2>1. i \in DOMAIN u /\ ~(i > m)
    BY <1>2
  <2> QED BY <1>3, <2>1
<1> HIDE DEF u, m
<1>5. \A k \in DOMAIN s : k > 1 => Late(s[k]) \/ s[k].op = "settle"
  <2> SUFFICES ASSUME NEW k \in DOMAIN s, k > 1
               PROVE  Late(s[k]) \/ s[k].op = "settle"
    OBVIOUS
  <2>1. 1 < k
    BY <1>2
  <2> QED BY <1>2, <2>1 DEF Ready, InTurn
<1>6. \A k \in DOMAIN s : k > 1 =>
        /\ Names(s[k]) = {} /\ Kills(s[k]) = {} /\ Shaped(s[k])
        /\ s[k].op \notin Taking
  BY <1>5, LateAre DEF Ready
<1>7. \A i \in DOMAIN q : /\ Shaped(q[i]) /\ Names(q[i]) \subseteq ids
                          /\ ~Late(q[i]) /\ ~Reacts(q[i])
                          /\ q[i].op \notin {"restore", "settle"}
  <2>1. \A i \in DOMAIN q : /\ Shaped(q[i]) /\ q[i].op \in Plain \cup Taking
                            /\ Names(q[i]) \subseteq ids
    BY DEF Fit, Found
  <2>2. \A i \in DOMAIN q : q[i].op \in Plain \cup Taking =>
          ~Late(q[i]) /\ ~Reacts(q[i]) /\ q[i].op \notin {"restore", "settle"}
    BY DEF Plain, Taking, Late, Reacts
  <2> QED BY <2>1, <2>2
<1>8. Found(u, ids)
  <2>1. \A i \in DOMAIN u : Names(u[i]) \subseteq ids
    BY <1>3, <1>6, <1>7
  <2>2. ASSUME NEW i \in DOMAIN u, NEW j \in DOMAIN u, i < j
        PROVE  Kills(u[i]) \cap Names(u[j]) = {}
    <3>1. CASE i \in DOMAIN q /\ u[i] = q[i] /\ j \in DOMAIN q /\ u[j] = q[j]
      BY <2>2, <3>1 DEF Fit, Found
    <3>2. CASE ~(i \in DOMAIN q /\ u[i] = q[i])
      BY <1>3, <1>6, <3>2
    <3>3. CASE ~(j \in DOMAIN q /\ u[j] = q[j])
      BY <1>3, <1>6, <3>3
    <3> QED BY <3>1, <3>2, <3>3
  <2> QED BY <2>1, <2>2 DEF Found
<1>9. Survived(u, ids)
  <2>1. CASE \E x \in ids : \A i \in DOMAIN q : x \notin Kills(q[i])
    <3>1. PICK x \in ids : \A i \in DOMAIN q : x \notin Kills(q[i])
      BY <2>1
    <3>2. \A i \in DOMAIN u : x \notin Kills(u[i])
      BY <1>3, <1>6, <3>1
    <3> QED BY <3>2 DEF Survived
  <2>2. CASE \E k \in DOMAIN q :
               /\ Brings(q[k])
               /\ \A j \in DOMAIN q : j > k => q[j].op \notin Taking
    <3>1. PICK k \in DOMAIN q :
            /\ Brings(q[k])
            /\ \A j \in DOMAIN q : j > k => q[j].op \notin Taking
      BY <2>2
    <3>2. k \in DOMAIN u /\ Brings(u[k])
      BY <1>4, <3>1
    <3>3. \A j \in DOMAIN u : j > k => u[j].op \notin Taking
      BY <1>3, <1>6, <3>1
    <3> QED BY <3>2, <3>3 DEF Survived
  <2> QED BY <2>1, <2>2 DEF Fit, Survived
<1>10. InTurn(u)
  <2> SUFFICES ASSUME NEW i \in DOMAIN u, NEW j \in DOMAIN u, i < j
               PROVE  /\ u[i].op # "settle"
                      /\ Late(u[i]) => Late(u[j]) \/ u[j].op = "settle"
    BY DEF InTurn
  <2>1. CASE i \in DOMAIN q /\ u[i] = q[i]
    BY <1>7, <2>1
  <2>2. CASE i > m /\ i - m + 1 \in DOMAIN s /\ u[i] = s[i - m + 1]
    <3>1. ~(j \in DOMAIN q)
      BY <1>2, <2>2
    <3>2. j - m + 1 \in DOMAIN s /\ u[j] = s[j - m + 1]
      BY <1>3, <3>1
    <3>3. i - m + 1 < j - m + 1
      BY <1>2
    <3> QED BY <2>2, <3>2, <3>3 DEF Ready, InTurn
  <2> QED BY <1>3, <2>1, <2>2
<1>11. Removing(u, ids, next, gone)
  <2>1. \A i \in DOMAIN u : u[i].op # "restore" /\ ~Reacts(u[i])
    BY <1>1, <1>3, <1>7
  <2> QED BY <1>1, <2>1 DEF Removing
<1>12. \A i \in DOMAIN u : Shaped(u[i])
  BY <1>3, <1>6, <1>7
<1>13. Ready(u, ids, next, gone)
  BY <1>2, <1>8, <1>9, <1>10, <1>11, <1>12 DEF Ready
<1> QED BY <1>13 DEF u

\* The end of the turn calls its tools.
LEMMA EndTurnStep ==
  ASSUME NEW s, s # << >>, NEW ids, NEW next \in Nat, NEW gone,
         Ready(s, ids, next, gone), s[1].op = "endTurn",
         NEW q, Triggered(q, "turn_end", 0)
  PROVE  Ready(After(q, s), ids, next, gone)
<1> DEFINE u == After(q, s)
           m == Len(q)
<1>0. s \in Seq(ToSet(s)) /\ q \in Seq(ToSet(q)) /\ Late(s[1])
  BY DEF Ready, Triggered, Late
<1>1. /\ gone = Empty /\ ids # {}
      /\ \A k \in DOMAIN s : s[k].op # "restore" /\ ~Reacts(s[k])
  BY <1>0, NoRestore, LateNotAlone
<1>2. /\ Len(s) \in Nat /\ DOMAIN s = 1..Len(s) /\ 1 \in DOMAIN s
      /\ m \in Nat /\ DOMAIN q = 1..m
      /\ DOMAIN u = 1..(m + Len(s) - 1) /\ u \in Seq(ToSet(u))
  <2>1. u \in Seq(ToSet(u))
    BY <1>0, ReplaceSeq
  <2> QED BY <1>0, <2>1, ReplaceHead
<1>3. \A i \in DOMAIN u :
        \/ i \in DOMAIN q /\ u[i] = q[i]
        \/ i > m /\ i - m + 1 \in DOMAIN s /\ i - m + 1 > 1 /\ u[i] = s[i - m + 1]
  BY <1>0, ReplaceFrom
<1> HIDE DEF u, m
<1>4. \A k \in DOMAIN s : k > 1 => Late(s[k]) \/ s[k].op = "settle"
  <2> SUFFICES ASSUME NEW k \in DOMAIN s, k > 1
               PROVE  Late(s[k]) \/ s[k].op = "settle"
    OBVIOUS
  <2>1. 1 < k
    BY <1>2
  <2> QED BY <1>0, <1>2, <2>1 DEF Ready, InTurn
<1>5. \A i \in DOMAIN q : Shaped(q[i]) /\ Late(q[i]) /\ q[i].op = "tool"
  BY TriggeredAre
<1>6. \A i \in DOMAIN u : Shaped(u[i]) /\ (Late(u[i]) \/ u[i].op = "settle")
  BY <1>3, <1>4, <1>5 DEF Ready
<1>7. \A i \in DOMAIN u : Names(u[i]) = {} /\ Kills(u[i]) = {} /\ ~Reacts(u[i])
                          /\ u[i].op # "restore"
  BY <1>6, LateAre
<1>8. Found(u, ids) /\ Survived(u, ids) /\ Removing(u, ids, next, gone)
  BY <1>1, <1>7 DEF Found, Survived, Removing
<1>9. InTurn(u)
  <2> SUFFICES ASSUME NEW i \in DOMAIN u, NEW j \in DOMAIN u, i < j
               PROVE  u[i].op # "settle"
    BY <1>6 DEF InTurn
  <2>1. CASE i \in DOMAIN q /\ u[i] = q[i]
    BY <1>5, <2>1
  <2>2. CASE i > m /\ i - m + 1 \in DOMAIN s /\ u[i] = s[i - m + 1]
    <3>1. ~(j \in DOMAIN q)
      BY <1>2, <2>2
    <3>2. j - m + 1 \in DOMAIN s /\ u[j] = s[j - m + 1]
      BY <1>3, <3>1
    <3>3. i - m + 1 < j - m + 1
      BY <1>2
    <3> QED BY <2>2, <3>2, <3>3 DEF Ready, InTurn
  <2> QED BY <1>3, <2>1, <2>2
<1>10. Ready(u, ids, next, gone)
  BY <1>2, <1>6, <1>8, <1>9 DEF Ready
<1> QED BY <1>10 DEF u

\* Nothing is left to do.
LEMMA NothingLeft ==
  ASSUME NEW ids, ids # {}, NEW next
  PROVE  Ready(<< >>, ids, next, Empty)
<1>1. << >> \in Seq(ToSet(<< >>)) /\ DOMAIN << >> = {}
  OBVIOUS
<1> QED BY <1>1 DEF Ready, Found, Survived, InTurn, Removing

\* A program is put before the end of its command, as if an end of the turn
\* had called it.
LEMMA CommandReady ==
  ASSUME NEW ids, ids # {}, NEW next \in Nat, NEW p, Fit(p, ids)
  PROVE  Ready(p \o <<EndTurn, Settle>>, ids, next, Empty)
<1> DEFINE s == <<EndTurn, EndTurn, Settle>>
<1>1. /\ EndTurn.op = "endTurn" /\ Settle.op = "settle"
      /\ Shaped(EndTurn) /\ Shaped(Settle) /\ Late(EndTurn)
  BY DEF EndTurn, Settle, Shaped, Plain, Taking, Late
<1>2. s \in Seq(ToSet(s)) /\ DOMAIN s = {1, 2, 3} /\ s # << >>
      /\ s[1] = EndTurn /\ s[2] = EndTurn /\ s[3] = Settle
  BY DEF ToSet
<1>3. After(p, s) = p \o <<EndTurn, Settle>>
  BY DEF After
<1> HIDE DEF s
<1>4. \A i \in DOMAIN s : Shaped(s[i]) /\ (Late(s[i]) \/ s[i].op = "settle")
  BY <1>1, <1>2
<1>5. \A i \in DOMAIN s : /\ Names(s[i]) = {} /\ Kills(s[i]) = {}
                          /\ ~Reacts(s[i]) /\ s[i].op # "restore"
  BY <1>4, LateAre
<1>6. \A i, j \in DOMAIN s : i < j => s[i].op # "settle"
  <2> SUFFICES ASSUME NEW i \in {1, 2, 3}, NEW j \in {1, 2, 3}, i < j
               PROVE  s[i].op # "settle"
    BY <1>2
  <2>1. i = 1 \/ i = 2
    OBVIOUS
  <2> QED BY <1>1, <1>2, <2>1
<1>7. Ready(s, ids, next, Empty)
  <2>1. Found(s, ids) /\ Survived(s, ids) /\ Removing(s, ids, next, Empty)
    BY <1>5 DEF Found, Survived, Removing
  <2>2. InTurn(s)
    BY <1>4, <1>6 DEF InTurn
  <2> QED BY <1>2, <1>4, <2>1, <2>2 DEF Ready
<1>8. Late(s[1])
  BY <1>1, <1>2
<1>9. Ready(After(p, s), ids, next, Empty)
  BY <1>2, <1>7, <1>8, LateStep
<1> QED BY <1>3, <1>9

\* The opening tool ends no turn.
LEMMA OpeningReady ==
  ASSUME NEW ids, ids # {}, NEW next
  PROVE  Ready(<<Settle>>, ids, next, Empty)
<1> DEFINE s == <<Settle>>
<1>1. Settle.op = "settle" /\ Shaped(Settle)
  BY DEF Settle, Shaped, Plain, Taking
<1>2. s \in Seq(ToSet(s)) /\ DOMAIN s = {1} /\ s[1] = Settle
  BY DEF ToSet
<1> HIDE DEF s
<1>3. Names(Settle) = {} /\ Kills(Settle) = {} /\ ~Reacts(Settle)
  BY <1>1, LateAre
<1>4. Found(s, ids) /\ Survived(s, ids) /\ InTurn(s) /\ Removing(s, ids, next, Empty)
  BY <1>1, <1>2, <1>3 DEF Found, Survived, InTurn, Removing
<1>5. Ready(s, ids, next, Empty)
  BY <1>1, <1>2, <1>4 DEF Ready
<1> QED BY <1>5 DEF s

-----------------------------------------------------------------------------
(* The board after a step.                                                 *)

IdsOf(b) == {b[i].id : i \in Occupied(b)}
Shape(m) == m = Monster(m.id, m.family, m.rarity, m.activity, m.quantity)

\* The fields of a monster.
LEMMA MonsterIs ==
  ASSUME NEW id, NEW f, NEW r, NEW a, NEW q
  PROVE  /\ Shape(Monster(id, f, r, a, q))
         /\ Monster(id, f, r, a, q).id = id
         /\ Monster(id, f, r, a, q).family = f
         /\ Monster(id, f, r, a, q).rarity = r
         /\ Monster(id, f, r, a, q).activity = a
         /\ Monster(id, f, r, a, q).quantity = q
         /\ id # 0 => Monster(id, f, r, a, q) # Empty
<1>1. Monster(id, f, r, a, q).id = id /\ Monster(id, f, r, a, q).family = f
      /\ Monster(id, f, r, a, q).rarity = r /\ Monster(id, f, r, a, q).activity = a
      /\ Monster(id, f, r, a, q).quantity = q
  BY DEF Monster
<1>2. Empty.id = 0
  BY DEF Monster, Empty
<1> QED BY <1>1, <1>2 DEF Shape

\* A board is sound if each slot is cleared, left alone, changed without
\* changing the id, or holds the one new monster.
LEMMA BoardSound ==
  ASSUME Sound(slots, tools, nextId), NEW b, DOMAIN b = 1..SlotCount,
         NEW next \in Nat, nextId <= next, NEW spot,
         \A i \in 1..SlotCount :
           \/ b[i] = Empty
           \/ b[i] = slots[i]
           \/ i \in Board /\ Shape(b[i]) /\ b[i].id = slots[i].id
           \/ i = spot /\ Shape(b[i]) /\ b[i].id = nextId /\ nextId < next
  PROVE  Sound(b, tools, next)
<1>1. /\ DOMAIN slots = 1..SlotCount /\ nextId \in Nat \ {0}
      /\ \A i \in 1..SlotCount : Shape(slots[i])
      /\ \A i \in Board : i \in 1..SlotCount /\ slots[i].id \in 1..(nextId - 1)
      /\ \A i, j \in Board : slots[i].id = slots[j].id => i = j
      /\ tools \in Seq(AllTools)
  BY DEF Sound, Board, Occupied, Shape
<1>2. Shape(Empty)
  BY MonsterIs DEF Empty
<1>3. \A i \in 1..SlotCount : Shape(b[i])
  BY <1>1, <1>2
<1>4. \A i \in Occupied(b) :
        /\ i \in 1..SlotCount
        /\ \/ i \in Board /\ b[i].id = slots[i].id
           \/ i = spot /\ b[i].id = nextId /\ nextId < next
  BY DEF Occupied, Board
<1>5. next \in Nat \ {0}
  BY <1>1
<1>6. \A i \in Occupied(b) : b[i].id \in 1..(next - 1)
  <2> SUFFICES ASSUME NEW i \in Occupied(b) PROVE b[i].id \in 1..(next - 1)
    OBVIOUS
  <2>1. CASE i \in Board /\ b[i].id = slots[i].id
    <3>1. slots[i].id \in 1..(nextId - 1)
      BY <1>1, <2>1
    <3> QED BY <1>1, <2>1, <3>1
  <2>2. CASE b[i].id = nextId /\ nextId < next
    BY <1>1, <2>2
  <2> QED BY <1>4, <2>1, <2>2
<1>7. nextId \notin 1..(nextId - 1)
  BY <1>1
<1>8. \A i, j \in Occupied(b) : b[i].id = b[j].id => i = j
  BY <1>1, <1>4, <1>7
<1> QED BY <1>1, <1>3, <1>5, <1>6, <1>8 DEF Sound, Shape

\* The ids of the board.
LEMMA IdsAre ==
  ASSUME Sound(slots, tools, nextId)
  PROVE  /\ nextId \in Nat \ {0}
         /\ \A id \in Ids : id \in 1..(nextId - 1) /\ id # 0
         /\ nextId \notin Ids
         /\ Ids = IdsOf(slots)
<1>1. nextId \in Nat \ {0} /\ \A i \in Board : slots[i].id \in 1..(nextId - 1)
  BY DEF Sound, Board
<1>2. \A id \in Ids : id \in 1..(nextId - 1)
  BY <1>1 DEF Ids
<1> QED BY <1>1, <1>2 DEF Ids, Board, IdsOf

\* One monster is changed.
LEMMA ChangeOne ==
  ASSUME Sound(slots, tools, nextId), NEW id \in Ids,
         NEW b, DOMAIN b = 1..SlotCount,
         Shape(b[At(id)]), b[At(id)].id = id,
         \A i \in 1..SlotCount : i # At(id) => b[i] = slots[i]
  PROVE  Sound(b, tools, nextId) /\ IdsOf(b) = Ids
<1>1. At(id) \in Board /\ slots[At(id)].id = id /\ At(id) \in 1..SlotCount
  BY AtIs DEF M
<1>2. nextId \in Nat /\ nextId <= nextId /\ id # 0
  BY IdsAre
<1>3. Sound(b, tools, nextId)
  BY <1>1, <1>2, BoardSound
<1>4. b[At(id)] # Empty
  <2>1. Empty.id = 0
    BY MonsterIs DEF Empty
  <2> QED BY <1>2, <2>1
<1>5. Occupied(b) = Board
  BY <1>1, <1>4 DEF Occupied, Board
<1>6. \A i \in Board : b[i].id = slots[i].id
  BY <1>1 DEF Board, Occupied
<1>7. IdsOf(b) = Ids
  BY <1>5, <1>6 DEF IdsOf, Ids
<1> QED BY <1>3, <1>7

\* A new monster is put in a free slot.
LEMMA PutOne ==
  ASSUME Sound(slots, tools, nextId),
         NEW free \in (1..SlotCount) \ Board, NEW f, NEW r, NEW a, NEW q
  PROVE  LET b == [slots EXCEPT ![free] = Monster(nextId, f, r, a, q)]
         IN Sound(b, tools, nextId + 1) /\ IdsOf(b) = Ids \cup {nextId}
<1> DEFINE m == Monster(nextId, f, r, a, q)
           b == [slots EXCEPT ![free] = m]
<1>1. /\ nextId \in Nat \ {0} /\ nextId + 1 \in Nat /\ nextId <= nextId + 1
      /\ nextId < nextId + 1 /\ nextId # 0
  BY IdsAre
<1>2. Shape(m) /\ m.id = nextId /\ m # Empty
  BY <1>1, MonsterIs
<1> HIDE DEF m
<1>3. /\ DOMAIN b = 1..SlotCount /\ b[free] = m
      /\ \A i \in 1..SlotCount : i # free => b[i] = slots[i]
  BY DEF Sound
<1> HIDE DEF b
<1>4. Sound(b, tools, nextId + 1)
  <2>1. \A i \in 1..SlotCount :
          \/ b[i] = slots[i]
          \/ i = free /\ Shape(b[i]) /\ b[i].id = nextId /\ nextId < nextId + 1
    BY <1>1, <1>2, <1>3
  <2> DEFINE next == nextId + 1
  <2>2. next \in Nat /\ nextId <= next
    BY <1>1
  <2>3. \A i \in 1..SlotCount :
          \/ b[i] = slots[i]
          \/ i = free /\ Shape(b[i]) /\ b[i].id = nextId /\ nextId < next
    BY <2>1
  <2> HIDE DEF next
  <2>4. Sound(b, tools, next)
    BY <1>3, <2>2, <2>3, BoardSound
  <2> QED BY <2>4 DEF next
<1>5. Occupied(b) = Board \cup {free}
  BY <1>2, <1>3 DEF Occupied, Board
<1>6. IdsOf(b) = Ids \cup {nextId}
  <2>1. \A i \in Board : b[i].id = slots[i].id
    BY <1>3 DEF Board, Occupied
  <2>2. b[free].id = nextId
    BY <1>2, <1>3
  <2> QED BY <1>5, <2>1, <2>2 DEF IdsOf, Ids
<1> QED BY <1>4, <1>6 DEF b, m

\* One monster is taken, and others may be changed.
LEMMA TakeOne ==
  ASSUME Sound(slots, tools, nextId), NEW id \in Ids,
         NEW b, DOMAIN b = 1..SlotCount, b[At(id)] = Empty,
         \A i \in 1..SlotCount : i # At(id) =>
           \/ b[i] = slots[i]
           \/ i \in Board /\ Shape(b[i]) /\ b[i].id = slots[i].id
  PROVE  Sound(b, tools, nextId) /\ IdsOf(b) = Ids \ {id}
<1>1. At(id) \in Board /\ slots[At(id)].id = id /\ At(id) \in 1..SlotCount
  BY AtIs DEF M
<1>2. nextId \in Nat /\ nextId <= nextId
  BY IdsAre
<1>3. Sound(b, tools, nextId)
  BY <1>1, <1>2, BoardSound
<1>4. \A i \in 1..SlotCount : i # At(id) =>
        /\ b[i] # Empty <=> slots[i] # Empty
        /\ i \in Board => b[i].id = slots[i].id
  <2>1. Empty.id = 0
    BY MonsterIs DEF Empty
  <2>2. \A i \in Board : slots[i].id \in Ids /\ slots[i].id # 0
    BY AtIs, IdsAre
  <2> QED BY <2>1, <2>2 DEF Board, Occupied
<1>5. Occupied(b) = Board \ {At(id)}
  BY <1>1, <1>4 DEF Occupied, Board
<1>6. \A i \in Board \ {At(id)} : b[i].id = slots[i].id /\ slots[i].id # id
  <2>1. \A i \in Board : At(slots[i].id) = i /\ i \in 1..SlotCount
    BY AtIs
  <2> QED BY <1>4, <2>1
<1>7. IdsOf(b) = Ids \ {id}
  BY <1>1, <1>5, <1>6 DEF IdsOf, Ids
<1> QED BY <1>3, <1>7

\* Some monsters are fused into a new one in the first of their slots.
LEMMA FuseSome ==
  ASSUME Sound(slots, tools, nextId), NEW taken \in SUBSET Ids,
         NEW spot, spot \in {At(id) : id \in taken},
         NEW b, DOMAIN b = 1..SlotCount, Shape(b[spot]), b[spot].id = nextId,
         \A i \in 1..SlotCount : i # spot =>
           b[i] = IF i \in {At(id) : id \in taken} THEN Empty ELSE slots[i]
  PROVE  /\ Sound(b, tools, nextId + 1)
         /\ IdsOf(b) = (Ids \ taken) \cup {nextId}
<1> DEFINE fused == {At(id) : id \in taken}
           next == nextId + 1
<1>1. /\ nextId \in Nat \ {0} /\ next \in Nat /\ nextId <= next
      /\ nextId < next /\ nextId # 0
  BY IdsAre
<1>2. \A id \in Ids : At(id) \in Board /\ slots[At(id)].id = id
                      /\ At(id) \in 1..SlotCount
  BY AtIs DEF M
<1>3. /\ spot \in 1..SlotCount /\ spot \in fused
      /\ \A i \in 1..SlotCount : i # spot =>
           b[i] = IF i \in fused THEN Empty ELSE slots[i]
  BY <1>2
<1>4. \A i \in Board : i \in fused <=> slots[i].id \in taken
  <2>1. \A i \in Board : At(slots[i].id) = i
    BY AtIs
  <2> QED BY <1>2, <2>1
<1> HIDE DEF fused, next
<1>5. Sound(b, tools, next)
  BY <1>1, <1>3, BoardSound
<1>6. b[spot] # Empty
  <2>1. Empty.id = 0
    BY MonsterIs DEF Empty
  <2> QED BY <1>1, <2>1
<1>7. Occupied(b) = (Board \ fused) \cup {spot}
  BY <1>3, <1>6 DEF Occupied, Board
<1>8. \A i \in Board \ fused : b[i].id = slots[i].id /\ slots[i].id \notin taken
  BY <1>3, <1>4 DEF Board, Occupied
<1>9. \A i \in Board : slots[i].id \notin taken => i \in Board \ fused
  BY <1>4
<1>10. IdsOf(b) = (Ids \ taken) \cup {nextId}
  BY <1>7, <1>8, <1>9 DEF IdsOf, Ids
<1> QED BY <1>5, <1>10 DEF next

-----------------------------------------------------------------------------
(* The steps.                                                              *)

\* An aborted command leaves the checkpoint of the caller.
LEMMA AbortKeeps ==
  ASSUME EffectsInv, NEW why, Abort(why)
  PROVE  EffectsInv'
<1>1. /\ slots' = saved.slots /\ tools' = saved.tools /\ nextId' = saved.nextId
      /\ agenda' = << >> /\ removed' = Empty /\ saved' = saved
  BY DEF Abort
<1>2. /\ IsCheckpoint(saved) /\ Sound(saved.slots, saved.tools, saved.nextId)
      /\ Occupied(saved.slots) # {}
  BY DEF EffectsInv, IsCheckpoint
<1>3. Ids' = IdsOf(saved.slots)
  BY <1>1 DEF Ids, Board, IdsOf
<1>4. IdsOf(saved.slots) # {}
  BY <1>2 DEF IdsOf
<1>5. Ready(<< >>, IdsOf(saved.slots), saved.nextId, Empty)
  BY <1>4, NothingLeft
<1> QED BY <1>1, <1>2, <1>3, <1>5 DEF EffectsInv

\* A task that is performed, or fails.
LEMMA PerformKeeps ==
  ASSUME EffectsInv, NEW board, NEW called, NEW cost, NEW next, NEW gone,
         Perform(board, called, cost, next, gone),
         Sound(board, tools, next),
         Ready(After(called, agenda), IdsOf(board), next, gone)
  PROVE  EffectsInv'
<1>1. CASE Abort("limit") \/ Abort("overflow")
  BY <1>1, AbortKeeps
<1>2. CASE ~(Abort("limit") \/ Abort("overflow"))
  <2>1. /\ slots' = board /\ nextId' = next /\ removed' = gone
        /\ agenda' = After(called, agenda) /\ tools' = tools /\ saved' = saved
    BY <1>2 DEF Perform, After
  <2>2. Ids' = IdsOf(board)
    BY <2>1 DEF Ids, Board, IdsOf
  <2>3. IsCheckpoint(saved)
    BY DEF EffectsInv
  <2> QED BY <2>1, <2>2, <2>3 DEF EffectsInv
<1> QED BY <1>1, <1>2

\* What the invariant says of the task that is next.
LEMMA HeadIs ==
  ASSUME EffectsInv, agenda # << >>
  PROVE  /\ Task = agenda[1] /\ Shaped(Task) /\ Names(Task) \subseteq Ids
         /\ Ready(agenda, Ids, nextId, removed)
         /\ Sound(slots, tools, nextId) /\ tools \in Seq(AllTools)
         /\ SlotCount \in Nat \ {0} /\ nextId \in Nat
<1>1. Ready(agenda, Ids, nextId, removed) /\ Sound(slots, tools, nextId)
  BY DEF EffectsInv
<1>2. agenda \in Seq(ToSet(agenda))
  BY <1>1 DEF Ready
<1>3. Task = agenda[1] /\ 1 \in DOMAIN agenda
  BY <1>2, ReplaceHead DEF Task
<1>4. Shaped(Task) /\ Names(Task) \subseteq Ids
  BY <1>1, <1>3 DEF Ready, Found
<1>5. tools \in Seq(AllTools) /\ SlotCount \in Nat \ {0} /\ nextId \in Nat
  BY <1>1, EffectsAssumption DEF Sound
<1> QED BY <1>1, <1>3, <1>4, <1>5

\* A performed task whose calls are calm.
LEMMA CalmKeeps ==
  ASSUME EffectsInv, agenda # << >>,
         Task.op \notin {"remove", "restore", "settle"},
         NEW board, NEW called, NEW cost, NEW next \in Nat,
         Perform(board, called, cost, next, removed),
         Sound(board, tools, next), nextId <= next,
         \A id \in Ids : id \notin Kills(Task) => id \in IdsOf(board),
         \A id \in IdsOf(board) : id \in Ids \/ id \notin 1..(nextId - 1),
         Brings(Task) => IdsOf(board) # {},
         Calm(called, IdsOf(board))
  PROVE  EffectsInv'
<1>1. Ready(agenda, Ids, nextId, removed) /\ Task = agenda[1] /\ nextId \in Nat
  BY HeadIs
<1>2. Ready(After(called, agenda), IdsOf(board), next, removed)
  BY <1>1, CalmStep
<1> QED BY <1>2, PerformKeeps

\* A task that only calls others, which are calm.
LEMMA CallKeeps ==
  ASSUME EffectsInv, agenda # << >>,
         Task.op \notin {"remove", "restore", "settle"},
         NEW called, NEW cost, Call(called, cost), Calm(called, Ids),
         Brings(Task) => Ids # {}
  PROVE  EffectsInv'
<1>1. Ids = IdsOf(slots) /\ Sound(slots, tools, nextId) /\ nextId \in Nat
  BY HeadIs, IdsAre
<1>2. Perform(slots, called, cost, nextId, removed)
  BY DEF Call
<1>3. nextId <= nextId
  BY <1>1
<1> QED BY <1>1, <1>2, <1>3, CalmKeeps

\* addActivity, addQuantity: the monster keeps its place and its id.
LEMMA BuffStep ==
  ASSUME EffectsInv, DoBuff
  PROVE  EffectsInv'
<1>1. agenda # << >> /\ Task.op = "buff"
  BY DEF DoBuff, IsNext
<1> DEFINE id == Task.id
           m == M(id)
           b == [slots EXCEPT ![At(id)].activity = @ + Task.a,
                              ![At(id)].quantity = @ + Task.q]
           e == Emit("stats_changed", id)
<1>2. /\ Names(Task) \subseteq Ids /\ Sound(slots, tools, nextId)
      /\ tools \in Seq(AllTools) /\ SlotCount \in Nat /\ nextId \in Nat
  BY <1>1, HeadIs
<1>3. id \in Ids
  BY <1>1, <1>2 DEF Names
<1>4. Perform(b, e, 2, nextId, removed)
  BY <1>3 DEF DoBuff
<1>5. At(id) \in 1..SlotCount /\ Shape(slots[At(id)]) /\ slots[At(id)].id = id
  BY <1>2, <1>3, AtIs DEF M, Sound, Shape
<1>6. DOMAIN slots = 1..SlotCount
  BY <1>2 DEF Sound
<1>7. /\ DOMAIN b = 1..SlotCount
      /\ b[At(id)] = Monster(id, slots[At(id)].family, slots[At(id)].rarity,
                             slots[At(id)].activity + Task.a,
                             slots[At(id)].quantity + Task.q)
      /\ \A i \in 1..SlotCount : i # At(id) => b[i] = slots[i]
  BY <1>5, <1>6 DEF Shape, Monster
<1>8. Triggered(e, "stats_changed", id)
  BY <1>2, EmitIs
<1> HIDE DEF b, e, id
<1>9. Shape(b[At(id)]) /\ b[At(id)].id = id
  BY <1>7, MonsterIs
<1>10. Sound(b, tools, nextId) /\ IdsOf(b) = Ids
  BY <1>2, <1>3, <1>7, <1>9, ChangeOne
<1>11. Calm(e, IdsOf(b)) /\ ~Brings(Task) /\ nextId <= nextId
  BY <1>1, <1>2, <1>8, CalmEmit DEF Brings
<1> QED BY <1>1, <1>2, <1>4, <1>10, <1>11, CalmKeeps

\* addMonster: the new monster takes an id nobody has, or nothing is added.
LEMMA AddStep ==
  ASSUME EffectsInv, DoAdd
  PROVE  EffectsInv'
<1>1. agenda # << >> /\ Task.op = "add"
  BY DEF DoAdd, IsNext
<1> DEFINE free == (1..SlotCount) \ Board
<1>2. /\ Shaped(Task) /\ Sound(slots, tools, nextId)
      /\ tools \in Seq(AllTools) /\ SlotCount \in Nat \ {0} /\ nextId \in Nat
  BY <1>1, HeadIs
<1>3. Kills(Task) = {}
  BY <1>1 DEF Kills
<1>4. CASE free = {}
  <2> DEFINE e == Emit("overflow", 0)
  <2>1. Call(e \o Task.spill, 2)
    BY <1>4 DEF DoAdd
  <2>2. Triggered(e, "overflow", 0)
    BY <1>2, EmitIs
  <2> HIDE DEF e
  <2>3. Calm(e, Ids)
    BY <2>2, CalmEmit
  <2>4. Calm(Task.spill, Ids)
    <3>1. Task.spill \in {<< >>, <<BuffAll("INSECT", 10, 10)>>}
      BY <1>1, <1>2 DEF Shaped
    <3>2. QuietTask(BuffAll("INSECT", 10, 10), Ids)
      BY TasksForAll
    <3>3. Quiet(Task.spill, Ids)
      BY <3>1, <3>2, QuietShort
    <3> QED BY <3>3, CalmQuiet
  <2>5. Calm(e \o Task.spill, Ids)
    BY <2>3, <2>4, CalmJoin
  <2>6. Ids # {}
    <3>1. 1 \in 1..SlotCount
      BY <1>2
    <3>2. 1 \in Board
      BY <1>4, <3>1
    <3> QED BY <3>2 DEF Ids
  <2> QED BY <1>1, <2>1, <2>5, <2>6, CallKeeps
<1>5. CASE free # {}
  <2> DEFINE spot == Min(free)
             e == Emit("added", nextId)
             next == nextId + 1
  <2>1. PICK f \in FamilyOf(Task.f), r \in RarityOf(Task.r) :
          Perform([slots EXCEPT ![spot] =
                     Monster(nextId, f, r, BaseActivity[r] + Task.a,
                             BaseQuantity[r] + Task.q)],
                  e, 2, next, removed)
    BY <1>5 DEF DoAdd
  <2>2. spot \in free
    <3>1. free \in SUBSET Nat
      OBVIOUS
    <3> QED BY <1>5, <3>1, LeastIs
  <2>3. Triggered(e, "added", nextId)
    BY <1>2, EmitIs
  <2> DEFINE a == BaseActivity[r] + Task.a
             q == BaseQuantity[r] + Task.q
             b == [slots EXCEPT ![spot] = Monster(nextId, f, r, a, q)]
  <2>4. Perform(b, e, 2, next, removed)
    BY <2>1
  <2> HIDE DEF spot, a, q
  <2>5. Sound(b, tools, nextId + 1) /\ IdsOf(b) = Ids \cup {nextId}
    BY <1>2, <2>2, PutOne
  <2>6. next \in Nat /\ nextId <= next /\ nextId \notin 1..(nextId - 1)
    BY <1>2
  <2>7. Sound(b, tools, next)
    BY <2>5
  <2> HIDE DEF e, b, next
  <2>8. Calm(e, IdsOf(b))
    BY <2>3, CalmEmit
  <2>9. /\ \A id \in Ids : id \in IdsOf(b)
        /\ \A id \in IdsOf(b) : id \in Ids \/ id \notin 1..(nextId - 1)
        /\ IdsOf(b) # {}
    BY <2>5, <2>6
  <2> QED BY <1>1, <2>4, <2>6, <2>7, <2>8, <2>9, CalmKeeps
<1> QED BY <1>4, <1>5

\* removeMonster: nobody who is named later goes, and the reactions that are
\* called concern the monster that goes.
LEMMA RemovalStep ==
  ASSUME EffectsInv, DoRemove
  PROVE  EffectsInv'
<1>1. agenda # << >> /\ Task.op = "remove"
  BY DEF DoRemove, IsNext
<1> DEFINE id == Task.id
           b == [slots EXCEPT ![At(id)] = Empty]
           e == Emit("removed", id)
<1>2. /\ Names(Task) \subseteq Ids /\ Sound(slots, tools, nextId)
      /\ tools \in Seq(AllTools) /\ nextId \in Nat
      /\ Ready(agenda, Ids, nextId, removed) /\ Task = agenda[1]
  BY <1>1, HeadIs
<1>3. id \in Ids
  BY <1>1, <1>2 DEF Names
<1>4. Perform(b, e \o <<Restore(removed)>>, 2, nextId, M(id))
  BY <1>3 DEF DoRemove
<1>5. At(id) \in 1..SlotCount /\ M(id).id = id
  BY <1>2, <1>3, AtIs
<1>6. DOMAIN b = 1..SlotCount /\ b[At(id)] = Empty
      /\ \A i \in 1..SlotCount : i # At(id) => b[i] = slots[i]
  BY <1>2, <1>5 DEF Sound
<1>7. Triggered(e, "removed", id)
  BY <1>2, EmitIs
<1>8. id = agenda[1].id
  BY <1>2
<1> HIDE DEF b, e, id
<1>9. Sound(b, tools, nextId) /\ IdsOf(b) = Ids \ {id}
  BY <1>2, <1>3, <1>6, TakeOne
<1>10. id \in 1..(nextId - 1)
  BY <1>2, <1>3, IdsAre
<1>11. Ready(After(e \o <<Restore(removed)>>, agenda), Ids \ {id}, nextId, M(id))
  BY <1>1, <1>2, <1>5, <1>7, <1>8, <1>10, RemoveStep
<1> QED BY <1>4, <1>9, <1>11, PerformKeeps

\* c.removedMonster is given back what it was before the removal.
LEMMA EndOfRemovalStep ==
  ASSUME EffectsInv, DoRestore
  PROVE  EffectsInv'
<1>1. agenda # << >> /\ Task.op = "restore"
  BY DEF DoRestore, IsNext
<1>2. /\ Sound(slots, tools, nextId) /\ nextId \in Nat /\ Ids = IdsOf(slots)
      /\ Ready(agenda, Ids, nextId, removed) /\ Task = agenda[1]
  BY <1>1, HeadIs, IdsAre
<1>3. Task.was = Empty /\ Ready(After(<< >>, agenda), Ids, nextId, Empty)
  BY <1>1, <1>2, RestoreStep
<1>4. Perform(slots, << >>, 0, nextId, Empty)
  BY <1>3 DEF DoRestore
<1> QED BY <1>2, <1>3, <1>4, PerformKeeps

\* A monster becomes another one, and keeps its id.
LEMMA BecomeKeeps ==
  ASSUME EffectsInv, agenda # << >>, Task.op \in {"mutate", "awaken"},
         NEW id \in Ids, NEW f, NEW r, NEW kind, kind \notin {"removed", "turn_end"},
         Become(id, f, r, kind)
  PROVE  EffectsInv'
<1> DEFINE m == Monster(id, f, r, slots[At(id)].activity + BaseActivity[r],
                        slots[At(id)].quantity + BaseQuantity[r])
           b == [slots EXCEPT ![At(id)] = m]
           e == Emit(kind, id)
<1>2. /\ Sound(slots, tools, nextId)
      /\ tools \in Seq(AllTools) /\ SlotCount \in Nat /\ nextId \in Nat
  BY HeadIs
<1>3. At(id) \in 1..SlotCount /\ DOMAIN slots = 1..SlotCount
  BY <1>2, AtIs DEF Sound
<1>4. Perform(b, e, 2, nextId, removed)
  BY <1>3 DEF Become
<1>5. Shape(m) /\ m.id = id
  BY MonsterIs
<1> HIDE DEF m
<1>6. DOMAIN b = 1..SlotCount /\ b[At(id)] = m
      /\ \A i \in 1..SlotCount : i # At(id) => b[i] = slots[i]
  BY <1>3
<1>7. Triggered(e, kind, id)
  BY <1>2, EmitIs
<1> HIDE DEF b, e
<1>8. Sound(b, tools, nextId) /\ IdsOf(b) = Ids
  BY <1>2, <1>5, <1>6, ChangeOne
<1>9. Calm(e, IdsOf(b)) /\ ~Brings(Task) /\ nextId <= nextId
      /\ Task.op \notin {"remove", "restore", "settle"}
  BY <1>2, <1>7, CalmEmit DEF Brings
<1> QED BY <1>2, <1>4, <1>8, <1>9, CalmKeeps

\* transformTo: a mutated or an awakened monster keeps its place and its id.
LEMMA MutateAwakenStep ==
  ASSUME EffectsInv, DoMutate \/ DoAwaken
  PROVE  EffectsInv'
<1>1. agenda # << >> /\ Task.op \in {"mutate", "awaken"}
  BY DEF DoMutate, DoAwaken, IsNext
<1>2. Names(Task) \subseteq Ids
  BY <1>1, HeadIs
<1>3. Task.id \in Ids
  BY <1>1, <1>2 DEF Names
<1>4. \/ Call(<< >>, 0)
      \/ \E f, r, kind : kind \in {"mutated", "awakened"} /\ Become(Task.id, f, r, kind)
  BY <1>3 DEF DoMutate, DoAwaken
<1>5. CASE Call(<< >>, 0)
  <2>1. Calm(<< >>, Ids)
    BY QuietShort, CalmQuiet
  <2>2. ~Brings(Task) /\ Task.op \notin {"remove", "restore", "settle"}
    BY <1>1 DEF Brings
  <2> QED BY <1>1, <1>5, <2>1, <2>2, CallKeeps
<1>6. CASE \E f, r, kind : kind \in {"mutated", "awakened"}
                           /\ Become(Task.id, f, r, kind)
  BY <1>1, <1>3, <1>6, BecomeKeeps
<1> QED BY <1>4, <1>5, <1>6

\* fuse: the fused monsters go and the result takes an id nobody has.
LEMMA FusionStep ==
  ASSUME EffectsInv, DoFuse
  PROVE  EffectsInv'
<1>1. agenda # << >> /\ Task.op = "fuse"
  BY DEF DoFuse, IsNext
<1> DEFINE taken == ToSet(Task.ids)
           fused == {At(id) : id \in taken}
           spot == Min(fused)
           highest == Max({slots[i].rarity : i \in fused})
           rarity == IF Task.r # Drawn THEN Task.r ELSE Min({highest + 1, Boss})
           a == SumFunction([j \in fused |-> slots[j].activity])
           q == SumFunction([j \in fused |-> slots[j].quantity])
           e == Emit("fused", nextId)
           next == nextId + 1
           b(f) == [i \in 1..SlotCount |->
                      IF i = spot THEN Monster(nextId, f, rarity, a, q)
                      ELSE IF i \in fused THEN Empty ELSE slots[i]]
<1>2. /\ Shaped(Task) /\ Names(Task) \subseteq Ids /\ Sound(slots, tools, nextId)
      /\ tools \in Seq(AllTools) /\ SlotCount \in Nat /\ nextId \in Nat
  BY <1>1, HeadIs
<1>3. /\ taken \in SUBSET Ids /\ taken = Kills(Task) /\ Brings(Task)
  BY <1>1, <1>2 DEF Names, Kills, Brings
<1>4. taken # {}
  <2>1. Task.ids \in Seq(ToSet(Task.ids)) /\ Task.ids # << >>
    BY <1>1, <1>2 DEF Shaped
  <2>2. 1 \in DOMAIN Task.ids
    BY <2>1
  <2> QED BY <2>2 DEF ToSet
<1>5. PICK f \in FamilyOf(Task.f) : Perform(b(f), e, 2, next, removed)
  BY <1>3 DEF DoFuse
<1> DEFINE m == Monster(nextId, f, rarity, a, q)
           c == b(f)
<1>6. Shape(m) /\ m.id = nextId
  BY MonsterIs
<1>7. Triggered(e, "fused", nextId)
  BY <1>2, EmitIs
<1>8. spot \in fused /\ fused \subseteq 1..SlotCount
  <2>1. \A id \in Ids : At(id) \in 1..SlotCount
    BY <1>2, AtIs
  <2>2. fused \in SUBSET Nat /\ fused # {} /\ fused \subseteq 1..SlotCount
    BY <1>3, <1>4, <2>1
  <2> HIDE DEF fused
  <2>3. Min(fused) \in fused
    BY <2>2, LeastIs
  <2> QED BY <2>2, <2>3
<1> HIDE DEF m
<1>9. /\ DOMAIN c = 1..SlotCount /\ c[spot] = m
      /\ \A i \in 1..SlotCount : i # spot =>
           c[i] = IF i \in fused THEN Empty ELSE slots[i]
  BY <1>8 DEF m
<1>10. Perform(c, e, 2, next, removed)
  BY <1>5
<1> HIDE DEF b, c, e, spot
<1>11. Sound(c, tools, nextId + 1) /\ IdsOf(c) = (Ids \ taken) \cup {nextId}
  <2>1. Shape(c[spot]) /\ c[spot].id = nextId
    BY <1>6, <1>9
  <2>2. spot \in {At(id) : id \in taken}
    BY <1>8
  <2>3. \A i \in 1..SlotCount : i # spot =>
          c[i] = IF i \in {At(id) : id \in taken} THEN Empty ELSE slots[i]
    BY <1>9
  <2> HIDE DEF taken
  <2> QED BY <1>2, <1>3, <1>9, <2>1, <2>2, <2>3, FuseSome
<1>12. next \in Nat /\ nextId <= next /\ nextId \notin 1..(nextId - 1)
  BY <1>2
<1>13. Sound(c, tools, next)
  BY <1>11
<1> HIDE DEF next, taken, fused
<1>14. /\ \A id \in Ids : id \notin Kills(Task) => id \in IdsOf(c)
       /\ \A id \in IdsOf(c) : id \in Ids \/ id \notin 1..(nextId - 1)
       /\ IdsOf(c) # {}
  BY <1>3, <1>11, <1>12
<1>15. Calm(e, IdsOf(c))
  BY <1>7, CalmEmit
<1> QED BY <1>1, <1>10, <1>12, <1>13, <1>14, <1>15, CalmKeeps

\* devour: the prey goes, the one that devours it stays.
LEMMA DevourStep ==
  ASSUME EffectsInv, DoDevour
  PROVE  EffectsInv'
<1>1. agenda # << >> /\ Task.op = "devour"
  BY DEF DoDevour, IsNext
<1> DEFINE id == Task.id
           prey == Task.prey
           b == [slots EXCEPT ![At(id)].activity = @ + M(prey).activity,
                              ![At(id)].quantity = @ + M(prey).quantity,
                              ![At(prey)] = Empty]
           e == Emit("devoured", id)
<1>2. /\ Shaped(Task) /\ Names(Task) \subseteq Ids /\ Sound(slots, tools, nextId)
      /\ tools \in Seq(AllTools) /\ SlotCount \in Nat /\ nextId \in Nat
  BY <1>1, HeadIs
<1>3. id \in Ids /\ prey \in Ids /\ id # prey /\ Kills(Task) = {prey}
  BY <1>1, <1>2 DEF Names, Shaped, Kills
<1>4. Perform(b, e, 2, nextId, removed)
  BY <1>3 DEF DoDevour
<1>5. /\ At(id) \in 1..SlotCount /\ slots[At(id)].id = id /\ At(id) \in Board
      /\ At(prey) \in 1..SlotCount /\ slots[At(prey)].id = prey
      /\ At(id) # At(prey)
  <2>1. \A x \in Ids : At(x) \in 1..SlotCount /\ slots[At(x)].id = x
                       /\ At(x) \in Board
    BY <1>2, AtIs DEF M
  <2> QED BY <1>3, <2>1
<1>6. DOMAIN slots = 1..SlotCount /\ Shape(slots[At(id)])
  BY <1>2, <1>5 DEF Sound, Shape
<1>7. /\ DOMAIN b = 1..SlotCount /\ b[At(prey)] = Empty
      /\ b[At(id)] = Monster(id, slots[At(id)].family, slots[At(id)].rarity,
                             slots[At(id)].activity + M(prey).activity,
                             slots[At(id)].quantity + M(prey).quantity)
      /\ \A i \in 1..SlotCount : i # At(id) /\ i # At(prey) => b[i] = slots[i]
  BY <1>5, <1>6 DEF Shape, Monster
<1>8. Triggered(e, "devoured", id)
  BY <1>2, EmitIs
<1> HIDE DEF b, e, id, prey
<1>9. Shape(b[At(id)]) /\ b[At(id)].id = slots[At(id)].id
  BY <1>5, <1>7, MonsterIs
<1>10. \A i \in 1..SlotCount : i # At(prey) =>
         \/ b[i] = slots[i]
         \/ i \in Board /\ Shape(b[i]) /\ b[i].id = slots[i].id
  BY <1>5, <1>7, <1>9
<1>11. Sound(b, tools, nextId) /\ IdsOf(b) = Ids \ {prey}
  BY <1>2, <1>3, <1>7, <1>10, TakeOne
<1>12. Calm(e, IdsOf(b)) /\ ~Brings(Task) /\ nextId <= nextId
       /\ Task.op \notin {"remove", "restore", "settle"}
  BY <1>1, <1>2, <1>8, CalmEmit DEF Brings
<1>13. /\ \A x \in Ids : x \notin Kills(Task) => x \in IdsOf(b)
       /\ \A x \in IdsOf(b) : x \in Ids \/ x \notin 1..(nextId - 1)
  BY <1>3, <1>11
<1> QED BY <1>1, <1>2, <1>4, <1>11, <1>12, <1>13, CalmKeeps

\* A tool calls tasks for monsters that are there when it is resolved.
LEMMA ToolStep ==
  ASSUME EffectsInv, DoTool
  PROVE  EffectsInv'
<1>1. agenda # << >> /\ Task.op = "tool"
  BY DEF DoTool, IsNext
<1>2. /\ Shaped(Task) /\ Sound(slots, tools, nextId) /\ Ids = IdsOf(slots)
      /\ SlotCount \in Nat /\ nextId \in Nat
      /\ Ready(agenda, Ids, nextId, removed) /\ Task = agenda[1]
  BY <1>1, HeadIs, IdsAre
<1>3. Task.handler \in AllTools
  BY <1>1, <1>2 DEF Shaped
<1>4. PICK p \in ToolProgram(Task.handler, Task.id) : Call(p, 1)
  BY DEF DoTool
<1>5. CASE Trigger(Task.handler) = "turn_end"
  <2>1. Late(agenda[1])
    BY <1>1, <1>2, <1>5 DEF Late
  <2>2. Ids # {}
    BY <1>1, <1>2, <2>1, LateNotAlone
  <2>3. Fit(p, Ids)
    BY <1>2, <1>3, <1>4, <1>5, <2>2, LateToolsFit
  <2>4. Ready(After(p, agenda), Ids, nextId, removed)
    BY <1>1, <1>2, <2>1, <2>3, LateStep
  <2>5. Perform(slots, p, 1, nextId, removed)
    BY <1>4 DEF Call
  <2> QED BY <1>2, <2>4, <2>5, PerformKeeps
<1>6. CASE Trigger(Task.handler) # "turn_end"
  <2>1. Quiet(p, Ids)
    BY <1>2, <1>3, <1>4, <1>6, ReactionsQuiet
  <2>2. Calm(p, Ids)
    BY <2>1, CalmQuiet
  <2>3. ~Brings(Task) /\ Task.op \notin {"remove", "restore", "settle"}
    BY <1>1 DEF Brings
  <2> QED BY <1>1, <1>4, <2>2, <2>3, CallKeeps
<1> QED BY <1>5, <1>6

\* Monsters picked when the task is executed are there.
LEMMA PickStep ==
  ASSUME EffectsInv, DoPick
  PROVE  EffectsInv'
<1>1. agenda # << >> /\ Task.op \in {"buffAll", "buffSome", "addTwin", "tick"}
  BY DEF DoPick, IsNext
<1>2. Sound(slots, tools, nextId) /\ SlotCount \in Nat
  BY <1>1, HeadIs
<1>3. \A g : Pool(g) \in Lists(Ids)
  BY <1>2, GroupLists
<1>4. \A s \in Lists(Ids) : \A a, q : Quiet(BuffEach(s, a, q), Ids)
  BY BuffsQuiet
<1>5. \E p : Quiet(p, Ids) /\ (Call(p, 0) \/ Call(p, 1))
  <2>1. CASE IsNext("buffAll") /\ Call(BuffEach(Pool(Task.pool), Task.a, Task.q), 0)
    BY <1>3, <1>4, <2>1
  <2>2. CASE /\ IsNext("buffSome")
             /\ \E chosen \in Picks(Pool(Task.pool), Task.n) :
                  Call(BuffEach(chosen, Task.a, Task.q), 0)
    <3>1. PICK chosen \in Picks(Pool(Task.pool), Task.n) :
            Call(BuffEach(chosen, Task.a, Task.q), 0)
      BY <2>2
    <3>2. chosen \in Lists(Ids)
      BY <1>3, <3>1, PicksPart
    <3> QED BY <1>4, <3>1, <3>2
  <2>3. CASE /\ IsNext("addTwin")
             /\ Call(<<Add(M(Task.id).family, M(Task.id).rarity, 0, 0)>>, 0)
    <3>1. \A f, r : QuietTask(Add(f, r, 0, 0), Ids)
      BY TasksForAll
    <3> QED BY <2>3, <3>1, QuietShort
  <2>4. CASE IsNext("tick") /\ Call(<< >>, 1)
    BY <2>4, QuietShort
  <2> QED BY <2>1, <2>2, <2>3, <2>4 DEF DoPick
<1>6. PICK p : Quiet(p, Ids) /\ (Call(p, 0) \/ Call(p, 1))
  BY <1>5
<1>7. Calm(p, Ids)
  BY <1>6, CalmQuiet
<1>8. ~Brings(Task) /\ Task.op \notin {"remove", "restore", "settle"}
  BY <1>1 DEF Brings
<1> QED BY <1>1, <1>6, <1>7, <1>8, CallKeeps

\* The tools of the end of the turn are called when the card is done.
LEMMA EndOfTurnStep ==
  ASSUME EffectsInv, DoEndTurn
  PROVE  EffectsInv'
<1>1. agenda # << >> /\ Task.op = "endTurn"
  BY DEF DoEndTurn, IsNext
<1>2. /\ Sound(slots, tools, nextId) /\ tools \in Seq(AllTools) /\ nextId \in Nat
      /\ Ready(agenda, Ids, nextId, removed) /\ Task = agenda[1]
  BY <1>1, HeadIs
<1>3. CASE Abort("limit")
  BY <1>3, AbortKeeps
<1>4. CASE ~Abort("limit")
  <2> DEFINE e == Emit("turn_end", 0)
  <2>1. /\ agenda' = After(e, agenda) /\ slots' = slots /\ tools' = tools
        /\ nextId' = nextId /\ saved' = saved /\ removed' = removed
    BY <1>4 DEF DoEndTurn, After
  <2>2. Triggered(e, "turn_end", 0)
    BY <1>2, EmitIs
  <2> HIDE DEF e
  <2>3. Ready(After(e, agenda), Ids, nextId, removed)
    BY <1>1, <1>2, <2>2, EndTurnStep
  <2>4. Ids' = Ids
    BY <2>1 DEF Ids, Board
  <2>5. IsCheckpoint(saved)
    BY DEF EffectsInv
  <2> QED BY <1>2, <2>1, <2>3, <2>4, <2>5 DEF EffectsInv
<1> QED BY <1>3, <1>4

\* The accepted command: the working copy becomes the checkpoint.
LEMMA SettleStep ==
  ASSUME EffectsInv, DoSettle
  PROVE  EffectsInv'
<1>1. agenda # << >> /\ Task.op = "settle"
  BY DEF DoSettle, IsNext
<1>2. /\ Sound(slots, tools, nextId)
      /\ Ready(agenda, Ids, nextId, removed) /\ Task = agenda[1]
  BY <1>1, HeadIs
<1>3. CASE Abort("limit") \/ Abort("overflow")
  BY <1>3, AbortKeeps
<1>4. CASE ~(Abort("limit") \/ Abort("overflow"))
  <2>1. /\ agenda' = << >> /\ slots' = slots /\ tools' = tools
        /\ nextId' = nextId /\ saved' = Working /\ removed' = removed
    BY <1>4 DEF DoSettle
  <2>2. Ids # {} /\ removed = Empty
    BY <1>1, <1>2, LateNotAlone, NoRestore
  <2>3. Ready(<< >>, Ids, nextId, removed)
    BY <2>2, NothingLeft
  <2>4. Ids' = Ids
    BY <2>1 DEF Ids, Board
  <2>5. IsCheckpoint(Working)
    <3>1. /\ Working.slots = slots /\ Working.tools = tools
          /\ Working.nextId = nextId /\ Working.turns = turns
          /\ Working = [slots |-> Working.slots, tools |-> Working.tools,
                        turns |-> Working.turns, nextId |-> Working.nextId]
      BY DEF Working
    <3>2. Occupied(slots) # {}
      BY <2>2 DEF Ids, Board
    <3> HIDE DEF Working
    <3> QED BY <1>2, <3>1, <3>2 DEF IsCheckpoint
  <2> QED BY <1>2, <2>1, <2>3, <2>4, <2>5 DEF EffectsInv
<1> QED BY <1>3, <1>4

\* A potion or a scheme is played between two commands.
LEMMA PlayStep ==
  ASSUME EffectsInv, NEW c \in Cards, NEW t \in LegalTargets(c), Play(c, t)
  PROVE  EffectsInv'
<1>1. /\ agenda = << >> /\ slots' = slots /\ tools' = tools
      /\ nextId' = nextId /\ saved' = saved /\ removed' = removed
  BY DEF Play
<1>2. PICK p \in CardProgram(c, t) : agenda' = p \o <<EndTurn, Settle>>
  BY DEF Play
<1>3. /\ Sound(slots, tools, nextId) /\ IsCheckpoint(saved) /\ nextId \in Nat
      /\ Ready(<< >>, Ids, nextId, removed)
  BY <1>1 DEF EffectsInv, Sound
<1>4. Ids # {} /\ removed = Empty
  BY <1>3 DEF Ready, Survived, Removing
<1>5. c \in AllCards /\ SlotCount \in Nat
  BY CatalogueAssumption, EffectsAssumption
<1>6. Fit(p, Ids)
  BY <1>2, <1>3, <1>4, <1>5, CardsFit
<1>7. Ready(p \o <<EndTurn, Settle>>, Ids, nextId, removed)
  BY <1>3, <1>4, <1>6, CommandReady
<1>8. Ids' = Ids
  BY <1>1 DEF Ids, Board
<1> QED BY <1>1, <1>2, <1>3, <1>7, <1>8 DEF EffectsInv

\* A tool is gained between two commands.
LEMMA GainStep ==
  ASSUME EffectsInv, NEW h \in Handlers, GainTool(h)
  PROVE  EffectsInv'
<1>1. /\ agenda = << >> /\ slots' = slots /\ tools' = Append(tools, h)
      /\ nextId' = nextId /\ saved' = saved /\ removed' = removed
      /\ agenda' \in {<<Settle>>, <<EndTurn, Settle>>}
  BY DEF GainTool
<1>2. /\ Sound(slots, tools, nextId) /\ IsCheckpoint(saved) /\ nextId \in Nat
      /\ Ready(<< >>, Ids, nextId, removed)
  BY <1>1 DEF EffectsInv, Sound
<1>3. Ids # {} /\ removed = Empty
  BY <1>2 DEF Ready, Survived, Removing
<1>4. Append(tools, h) \in Seq(AllTools)
  BY <1>2, CatalogueAssumption DEF Sound
<1>5. Sound(slots, Append(tools, h), nextId)
  BY <1>2, <1>4 DEF Sound
<1>6. Ready(<<Settle>>, Ids, nextId, removed)
  BY <1>3, OpeningReady
<1>7. Ready(<<EndTurn, Settle>>, Ids, nextId, removed)
  <2>1. Fit(<< >>, Ids)
    BY <1>3, QuietShort, QuietFits
  <2>2. Ready(<< >> \o <<EndTurn, Settle>>, Ids, nextId, removed)
    BY <1>2, <1>3, <2>1, CommandReady
  <2>3. << >> \o <<EndTurn, Settle>> = <<EndTurn, Settle>>
    OBVIOUS
  <2> QED BY <2>2, <2>3
<1>8. Ids' = Ids
  BY <1>1 DEF Ids, Board
<1> QED BY <1>1, <1>2, <1>5, <1>6, <1>7, <1>8 DEF EffectsInv

-----------------------------------------------------------------------------
(* The theorems.                                                           *)

\* A step of a command keeps the invariant.
LEMMA StepKeeps ==
  ASSUME EffectsInv, Step
  PROVE  EffectsInv'
<1>1. CASE DoBuff      BY <1>1, BuffStep
<1>2. CASE DoAdd       BY <1>2, AddStep
<1>3. CASE DoRemove    BY <1>3, RemovalStep
<1>4. CASE DoRestore   BY <1>4, EndOfRemovalStep
<1>5. CASE DoMutate \/ DoAwaken
  BY <1>5, MutateAwakenStep
<1>6. CASE DoFuse      BY <1>6, FusionStep
<1>7. CASE DoDevour    BY <1>7, DevourStep
<1>8. CASE DoTool      BY <1>8, ToolStep
<1>9. CASE DoPick      BY <1>9, PickStep
<1>10. CASE DoOverflow
  BY <1>10, AbortKeeps DEF DoOverflow
<1>11. CASE DoEndTurn  BY <1>11, EndOfTurnStep
<1>12. CASE DoSettle   BY <1>12, SettleStep
<1> QED BY <1>1, <1>2, <1>3, <1>4, <1>5, <1>6, <1>7, <1>8, <1>9, <1>10, <1>11,
           <1>12 DEF Step

\* A server that starts from a checkpoint satisfies the invariant.
LEMMA InitIsReady == Init => EffectsInv
<1> SUFFICES ASSUME Init PROVE EffectsInv
  OBVIOUS
<1>1. IsCheckpoint(saved)
  BY CatalogueAssumption DEF Init
<1>2. /\ slots = saved.slots /\ tools = saved.tools /\ nextId = saved.nextId
      /\ agenda = << >> /\ removed = Empty
  BY DEF Init
<1>3. Sound(slots, tools, nextId) /\ Occupied(slots) # {}
  BY <1>1, <1>2 DEF IsCheckpoint
<1>4. Ids # {}
  BY <1>3 DEF Ids, Board
<1>5. Ready(<< >>, Ids, nextId, Empty)
  BY <1>4, NothingLeft
<1> QED BY <1>1, <1>2, <1>3, <1>5 DEF EffectsInv

\* Whatever the cards, the tools and the draws, the checkpoint of the caller
\* and the working copy stay well formed, and every agenda that
\* engine.Apply's nested calls lead to is ready: each task finds its monsters,
\* somebody survives it, and the reactions to a removal lie before its end.
THEOREM EffectsInvariance == Spec => []EffectsInv
<1>1. Init => EffectsInv
  BY InitIsReady
<1>2. EffectsInv /\ [Next]_vars => EffectsInv'
  <2> SUFFICES ASSUME EffectsInv, [Next]_vars PROVE EffectsInv'
    OBVIOUS
  <2>1. CASE Step
    BY <2>1, StepKeeps
  <2>2. CASE \E c \in Cards : \E t \in LegalTargets(c) : Play(c, t)
    BY <2>2, PlayStep
  <2>3. CASE \E h \in Handlers : GainTool(h)
    BY <2>3, GainStep
  <2>4. CASE UNCHANGED vars
    <3>1. /\ slots' = slots /\ tools' = tools /\ nextId' = nextId
          /\ saved' = saved /\ agenda' = agenda /\ removed' = removed
      BY <2>4 DEF vars
    <3>2. Ids' = Ids
      BY <3>1 DEF Ids, Board
    <3> QED BY <3>1, <3>2 DEF EffectsInv
  <2> QED BY <2>1, <2>2, <2>3, <2>4 DEF Next
<1> QED BY <1>1, <1>2, PTL DEF Spec

\* Two monsters never share an id: additions and fusions in the middle of a
\* chain use ids up (effects.go: addMonster, fuse), nothing else gives one.
THEOREM UniqueIds == Spec => []IdsUnique
<1>1. EffectsInv => IdsUnique
  BY DEF EffectsInv, Sound, IdsUnique, Board
<1> QED BY <1>1, EffectsInvariance, PTL

\* The early returns of effects.go for a monster that is gone are never
\* taken: no task loses its monster to a task executed before it.
THEOREM NoEffectIsLost == Spec => []NothingMissed
<1>1. EffectsInv => NothingMissed
  BY HeadIs DEF NothingMissed
<1> QED BY <1>1, EffectsInvariance, PTL

\* c.removedMonster, read by claw, eye and metatarsal, is the monster of the
\* removal that triggered them, and is forgotten with the command.
THEOREM ReactionsAreOwn == Spec => []ReactsToOwnRemoval
<1>1. EffectsInv => ReactsToOwnRemoval
  <2> SUFFICES ASSUME EffectsInv PROVE ReactsToOwnRemoval
    OBVIOUS
  <2>1. ASSUME IsNext("tool"), Trigger(Task.handler) = "removed"
        PROVE  removed.id = Task.id /\ Task.id \notin Ids
    <3>1. agenda # << >> /\ Task.op = "tool"
      BY <2>1 DEF IsNext
    <3>2. Task = agenda[1] /\ Ready(agenda, Ids, nextId, removed)
      BY <3>1, HeadIs
    <3>3. 1 \in DOMAIN agenda
      BY <3>1, <3>2 DEF Ready
    <3>4. Reacts(agenda[1])
      BY <2>1, <3>1, <3>2 DEF Reacts
    <3> QED BY <3>2, <3>3, <3>4 DEF Ready, Removing
  <2>2. ASSUME agenda = << >>
        PROVE  removed = Empty
    <3>1. DOMAIN agenda = {}
      BY <2>2
    <3>2. Removing(agenda, Ids, nextId, removed)
      BY DEF EffectsInv, Ready
    <3> QED BY <3>1, <3>2 DEF Removing
  <2> QED BY <2>1, <2>2 DEF ReactsToOwnRemoval
<1> QED BY <1>1, EffectsInvariance, PTL

\* No command empties the board, the ones that are aborted included.
THEOREM BoardIsNeverEmptied == Spec => []NeverEmptied
<1>1. EffectsInv => NeverEmptied
  <2> SUFFICES ASSUME EffectsInv, agenda = << >> PROVE Board # {}
    BY DEF NeverEmptied
  <2>1. DOMAIN agenda = {} /\ Survived(agenda, Ids)
    BY DEF EffectsInv, Ready
  <2>2. Ids # {}
    BY <2>1 DEF Survived
  <2> QED BY <2>2 DEF Ids
<1> QED BY <1>1, EffectsInvariance, PTL
=============================================================================
