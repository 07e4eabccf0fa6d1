------------------------- MODULE EffectsMeasureProofs -------------------------
(***************************************************************************)
(* The numbers in Effects: the steps a command takes and the values of the *)
(* monsters, for any cards, tools, draws and numbers of commands.          *)
(*                                                                         *)
(* The argument: every task has a price, which pays for its own steps and  *)
(* for all that it calls, and the steps that are left pay for the agenda.  *)
(* A card costs at most 290, the end of the turn 220 and the last step 1.  *)
(* The values are sums over the board, of which each task changes a part.  *)
(***************************************************************************)
EXTENDS EffectsProofs

-----------------------------------------------------------------------------
(* Sums.  SumFunction adds up the values of a function in an order that    *)
(* nobody knows; these lemmas show that the order does not matter.         *)

Some(s) == CHOOSE x \in s : TRUE

\* What SumFunction computes for each subset of a set.
Adds(G, f, S) ==
  G = [s \in SUBSET S |-> IF s = {} THEN 0 ELSE f[Some(s)] + G[s \ {Some(s)}]]

\* Some set has no smaller one among some subsets of a finite set.
LEMMA SmallestIs ==
  ASSUME NEW S, IsFiniteSet(S), NEW B \in SUBSET (SUBSET S), B # {}
  PROVE  \E s \in B : \A u \in SUBSET s : u # s => u \notin B
<1> DEFINE sizes == {Cardinality(s) : s \in B}
<1>1. \A s \in B : IsFiniteSet(s) /\ Cardinality(s) \in Nat
  BY FS_Subset, FS_CardinalityType
<1>2. sizes \in SUBSET Nat /\ sizes # {}
  BY <1>1
<1>3. Min(sizes) \in sizes /\ \A n \in sizes : Min(sizes) <= n
  BY <1>2, LeastIs
<1>4. PICK s \in B : Cardinality(s) = Min(sizes)
  BY <1>3
<1>5. \A u \in B : Cardinality(s) <= Cardinality(u)
  BY <1>3, <1>4
<1> HIDE DEF sizes
<1>6. ASSUME NEW u \in SUBSET s, u # s, u \in B
      PROVE  FALSE
  <2>1. Cardinality(u) < Cardinality(s)
    BY <1>1, <1>6, FS_Subset
  <2> QED BY <1>1, <1>5, <1>6, <2>1
<1> QED BY <1>6

\* There is such a function.
LEMMA AddsExists ==
  ASSUME NEW S, IsFiniteSet(S), NEW f
  PROVE  \E G : Adds(G, f, S)
<1> DEFINE Small(k) == {s \in SUBSET S : Cardinality(s) <= k}
           Part(G, k) == G = [s \in Small(k) |->
             IF s = {} THEN 0 ELSE f[Some(s)] + G[s \ {Some(s)}]]
           missing == {k \in Nat : \A G : ~Part(G, k)}
<1>1. \A s \in SUBSET S : IsFiniteSet(s) /\ Cardinality(s) \in Nat
                          /\ Cardinality(s) <= Cardinality(S)
  BY FS_Subset, FS_CardinalityType
<1>2. \A s \in SUBSET S : s # {} =>
        Some(s) \in s /\ s \ {Some(s)} \in SUBSET S
        /\ Cardinality(s \ {Some(s)}) = Cardinality(s) - 1
  BY <1>1, FS_RemoveElement DEF Some
<1>3. \A s \in SUBSET S : Cardinality(s) <= 0 => s = {}
  BY <1>1, FS_EmptySet
<1>9. /\ missing \in SUBSET Nat
      /\ \A n \in Nat : n \notin missing <=> \E G : Part(G, n)
  OBVIOUS
<1> HIDE DEF missing
<1>4. missing = {}
  <2> SUFFICES ASSUME missing # {} PROVE FALSE
    OBVIOUS
  <2> DEFINE k == Min(missing)
  <2>1. k \in missing /\ \A n \in missing : k <= n
    BY <1>9, LeastIs
  <2>2. k \in Nat
    BY <1>9, <2>1
  <2> HIDE DEF k
  <2>3. CASE k = 0
    <3> DEFINE G == [s \in Small(0) |-> 0]
    <3>1. \A s \in Small(0) : s = {}
      BY <1>3
    <3>2. Part(G, 0)
      BY <3>1
    <3> QED BY <1>9, <2>1, <2>2, <2>3, <3>2
  <2>4. CASE k # 0
    <3>1. k - 1 \in Nat /\ ~(k <= k - 1)
      BY <2>2, <2>4
    <3>10. k - 1 \notin missing
      BY <2>1, <3>1
    <3>2. PICK G : Part(G, k - 1)
      BY <1>9, <3>1, <3>10
    <3> DEFINE H == [s \in Small(k) |->
                       IF s = {} THEN 0 ELSE f[Some(s)] + G[s \ {Some(s)}]]
    <3>3. ASSUME NEW s \in Small(k), s # {}
          PROVE  s \ {Some(s)} \in Small(k - 1)
      <4>1. /\ s \in SUBSET S /\ Cardinality(s) \in Nat /\ Cardinality(s) <= k
            /\ s \ {Some(s)} \in SUBSET S
            /\ Cardinality(s \ {Some(s)}) = Cardinality(s) - 1
        BY <1>1, <1>2, <3>3
      <4>2. Cardinality(s) - 1 <= k - 1
        BY <2>2, <4>1
      <4> QED BY <4>1, <4>2
    <3>4. \A u \in Small(k - 1) : u \in Small(k)
      BY <1>1, <2>2
    <3>5. \A u \in Small(k - 1) :
            G[u] = IF u = {} THEN 0 ELSE f[Some(u)] + G[u \ {Some(u)}]
      BY <3>2
    <3>6. \A u \in Small(k) :
            H[u] = IF u = {} THEN 0 ELSE f[Some(u)] + G[u \ {Some(u)}]
      OBVIOUS
    <3> HIDE DEF Small
    <3>7. \A u \in Small(k - 1) : H[u] = G[u]
      BY <3>4, <3>5, <3>6
    <3>8. \A s \in Small(k) :
            H[s] = IF s = {} THEN 0 ELSE f[Some(s)] + H[s \ {Some(s)}]
      BY <3>3, <3>6, <3>7
    <3>9. Part(H, k)
      BY <3>8
    <3> QED BY <1>9, <2>1, <2>2, <3>9
  <2> QED BY <2>3, <2>4
<1>5. Cardinality(S) \in Nat
  BY FS_CardinalityType
<1>6. PICK G : Part(G, Cardinality(S))
  BY <1>4, <1>5, <1>9
<1>7. Small(Cardinality(S)) = SUBSET S
  BY <1>1
<1> QED BY <1>6, <1>7 DEF Adds

\* SumFunction is its value for the whole domain.
LEMMA SumIs ==
  ASSUME NEW f, IsFiniteSet(DOMAIN f)
  PROVE  \E G : Adds(G, f, DOMAIN f) /\ SumFunction(f) = G[DOMAIN f]
<1> DEFINE S == DOMAIN f
           iter == CHOOSE G : Adds(G, f, S)
<1>1. Adds(iter, f, S)
  BY AddsExists
<1>2. SumFunction(f) = iter[S]
  BY DEF SumFunction, SumFunctionOnSet, FoldFunctionOnSet, MapThenFoldSet, Adds,
         Some
<1> QED BY <1>1, <1>2

\* Whichever member is taken first.
LEMMA AddsAny ==
  ASSUME NEW S, IsFiniteSet(S), NEW f, \A x \in S : f[x] \in Nat,
         NEW G, Adds(G, f, S)
  PROVE  \A s \in SUBSET S : G[s] \in Nat /\ \A x \in s : G[s] = f[x] + G[s \ {x}]
<1>1. \A s \in SUBSET S :
        G[s] = IF s = {} THEN 0 ELSE f[Some(s)] + G[s \ {Some(s)}]
  BY DEF Adds
<1>2. \A s \in SUBSET S : s # {} => Some(s) \in s
  BY DEF Some
<1> DEFINE wild == {s \in SUBSET S : G[s] \notin Nat}
           off == {s \in SUBSET S : \E x \in s : G[s] # f[x] + G[s \ {x}]}
<1>6. /\ wild \in SUBSET (SUBSET S)
      /\ \A s \in SUBSET S : s \in wild <=> G[s] \notin Nat
  OBVIOUS
<1>7. /\ off \in SUBSET (SUBSET S)
      /\ \A s \in SUBSET S : s \in off <=> \E x \in s : G[s] # f[x] + G[s \ {x}]
  OBVIOUS
<1> HIDE DEF wild, off
<1>3. wild = {}
  <2> SUFFICES ASSUME wild # {} PROVE FALSE
    OBVIOUS
  <2>1. PICK s \in wild : \A u \in SUBSET s : u # s => u \notin wild
    BY <1>6, SmallestIs
  <2>2. s \in SUBSET S /\ G[s] \notin Nat
    BY <1>6
  <2>3. s # {} /\ Some(s) \in s /\ G[s] = f[Some(s)] + G[s \ {Some(s)}]
    BY <1>1, <1>2, <2>2
  <2>4. s \ {Some(s)} \notin wild /\ s \ {Some(s)} \in SUBSET S
    BY <2>1, <2>2, <2>3
  <2>5. G[s \ {Some(s)}] \in Nat /\ f[Some(s)] \in Nat
    BY <1>6, <2>2, <2>3, <2>4
  <2> QED BY <2>2, <2>3, <2>5
<1>4. \A s \in SUBSET S : G[s] \in Nat
  BY <1>3, <1>6
<1>5. off = {}
  <2> SUFFICES ASSUME off # {} PROVE FALSE
    OBVIOUS
  <2>1. PICK s \in off : \A u \in SUBSET s : u # s => u \notin off
    BY <1>7, SmallestIs
  <2>2. s \in SUBSET S
    BY <1>7
  <2>3. PICK x \in s : G[s] # f[x] + G[s \ {x}]
    BY <1>7, <2>2
  <2> DEFINE c == Some(s)
  <2>4. c \in s /\ G[s] = f[c] + G[s \ {c}]
    BY <1>1, <1>2, <2>2, <2>3
  <2> HIDE DEF c
  <2>5. c # x
    BY <2>3, <2>4
  <2>6. \A u \in SUBSET S : u \subseteq s /\ u # s =>
          \A y \in u : G[u] = f[y] + G[u \ {y}]
    BY <1>7, <2>1
  <2>7. G[s \ {c}] = f[x] + G[(s \ {c}) \ {x}]
    BY <2>2, <2>3, <2>4, <2>5, <2>6
  <2>8. G[s \ {x}] = f[c] + G[(s \ {x}) \ {c}]
    BY <2>2, <2>3, <2>4, <2>5, <2>6
  <2>9. (s \ {c}) \ {x} = (s \ {x}) \ {c} /\ (s \ {x}) \ {c} \in SUBSET S
    BY <2>2
  <2>10. f[x] \in Nat /\ f[c] \in Nat /\ G[(s \ {x}) \ {c}] \in Nat
    BY <1>4, <2>2, <2>3, <2>4, <2>9
  <2> QED BY <2>3, <2>4, <2>7, <2>8, <2>9, <2>10
<1> QED BY <1>4, <1>5, <1>7

\* The sum of a function, whichever member is taken first.
LEMMA SumAny ==
  ASSUME NEW f, IsFiniteSet(DOMAIN f), \A x \in DOMAIN f : f[x] \in Nat
  PROVE  \E G : /\ Adds(G, f, DOMAIN f) /\ SumFunction(f) = G[DOMAIN f]
               /\ \A s \in SUBSET DOMAIN f :
                    G[s] \in Nat /\ \A x \in s : G[s] = f[x] + G[s \ {x}]
<1>1. PICK G : Adds(G, f, DOMAIN f) /\ SumFunction(f) = G[DOMAIN f]
  BY SumIs
<1> DEFINE S == DOMAIN f
<1>3. IsFiniteSet(S) /\ (\A x \in S : f[x] \in Nat) /\ Adds(G, f, S)
  BY <1>1
<1> HIDE DEF S
<1>4. \A s \in SUBSET S : G[s] \in Nat /\ \A x \in s : G[s] = f[x] + G[s \ {x}]
  BY <1>3, AddsAny
<1>2. \A s \in SUBSET DOMAIN f :
        G[s] \in Nat /\ \A x \in s : G[s] = f[x] + G[s \ {x}]
  BY <1>4 DEF S
<1> QED BY <1>1, <1>2

\* The same values add up to the same.
LEMMA AddsSame ==
  ASSUME NEW S, NEW T \in SUBSET S, IsFiniteSet(T), NEW f, NEW g,
         NEW G, Adds(G, f, S), NEW H, Adds(H, g, T), \A x \in T : f[x] = g[x]
  PROVE  \A s \in SUBSET T : G[s] = H[s]
<1>1. \A s \in SUBSET T :
        /\ G[s] = IF s = {} THEN 0 ELSE f[Some(s)] + G[s \ {Some(s)}]
        /\ H[s] = IF s = {} THEN 0 ELSE g[Some(s)] + H[s \ {Some(s)}]
        /\ s # {} => Some(s) \in s
  BY DEF Adds, Some
<1> DEFINE off == {s \in SUBSET T : G[s] # H[s]}
<1>3. /\ off \in SUBSET (SUBSET T)
      /\ \A s \in SUBSET T : s \in off <=> G[s] # H[s]
  OBVIOUS
<1> HIDE DEF off
<1>2. off = {}
  <2> SUFFICES ASSUME off # {} PROVE FALSE
    OBVIOUS
  <2>1. PICK s \in off : \A u \in SUBSET s : u # s => u \notin off
    BY <1>3, SmallestIs
  <2>2. s \in SUBSET T /\ G[s] # H[s]
    BY <1>3
  <2>3. s # {} /\ Some(s) \in T /\ s \ {Some(s)} \in SUBSET s
        /\ s \ {Some(s)} # s /\ s \ {Some(s)} \in SUBSET T
    BY <1>1, <2>2
  <2>4. G[s \ {Some(s)}] = H[s \ {Some(s)}]
    BY <1>3, <2>1, <2>3
  <2> QED BY <1>1, <2>2, <2>3, <2>4
<1> QED BY <1>2, <1>3

\* A sum of numbers is one; a sum is the one of two parts of it.
LEMMA SumSplit ==
  ASSUME NEW f, IsFiniteSet(DOMAIN f), \A x \in DOMAIN f : f[x] \in Nat,
         NEW T \in SUBSET DOMAIN f
  PROVE  /\ SumFunction(f) \in Nat
         /\ SumFunction([x \in T |-> f[x]]) \in Nat
         /\ SumFunction([x \in DOMAIN f \ T |-> f[x]]) \in Nat
         /\ SumFunction(f) = SumFunction([x \in T |-> f[x]])
                             + SumFunction([x \in DOMAIN f \ T |-> f[x]])
<1> DEFINE S == DOMAIN f
<1>1. PICK G : Adds(G, f, S) /\ SumFunction(f) = G[S]
  BY SumIs
<1>2. \A s \in SUBSET S : G[s] \in Nat /\ \A x \in s : G[s] = f[x] + G[s \ {x}]
  BY <1>1, AddsAny
<1>3. ASSUME NEW U \in SUBSET S
      PROVE  SumFunction([x \in U |-> f[x]]) = G[U]
  <2> DEFINE g == [x \in U |-> f[x]]
  <2>1. DOMAIN g = U /\ IsFiniteSet(U) /\ \A x \in U : f[x] = g[x]
    BY FS_Subset
  <2> HIDE DEF g
  <2>2. PICK H : Adds(H, g, U) /\ SumFunction(g) = H[U]
    BY <2>1, SumIs
  <2>3. G[U] = H[U]
    BY <1>1, <2>1, <2>2, AddsSame
  <2> QED BY <2>2, <2>3 DEF g
<1> DEFINE off == {U \in SUBSET S : G[S] # G[U] + G[S \ U]}
<1>4. off = {}
  <2> SUFFICES ASSUME off # {} PROVE FALSE
    OBVIOUS
  <2>1. PICK U \in off : \A u \in SUBSET U : u # U => u \notin off
    BY SmallestIs, ZenonT(60)
  <2>2. U \in SUBSET S /\ G[S] # G[U] + G[S \ U]
    OBVIOUS
  <2>3. U # {}
    <3>1. G[{}] = 0
      BY <1>1 DEF Adds
    <3>2. S \ {} = S /\ G[S] \in Nat
      BY <1>2
    <3>3. G[S] = G[{}] + G[S \ {}]
      BY <3>1, <3>2
    <3> QED BY <2>2, <3>3
  <2>4. PICK x \in U : TRUE
    BY <2>3
  <2>5. U \ {x} \notin off /\ U \ {x} \in SUBSET S
    BY <2>1, <2>2
  <2>6. G[S] = G[U \ {x}] + G[S \ (U \ {x})]
    BY <2>5
  <2> HIDE DEF off
  <2>7. G[U] = f[x] + G[U \ {x}]
    BY <1>2, <2>2
  <2>8. /\ (S \ (U \ {x})) \ {x} = S \ U /\ x \in S \ (U \ {x})
        /\ S \ (U \ {x}) \in SUBSET S /\ S \ U \in SUBSET S
    BY <2>2
  <2>9. G[S \ (U \ {x})] = f[x] + G[S \ U]
    BY <1>2, <2>8
  <2>10. G[U \ {x}] \in Nat /\ G[S \ U] \in Nat /\ f[x] \in Nat
    BY <1>2, <2>2, <2>5, <2>8
  <2> QED BY <2>2, <2>6, <2>7, <2>9, <2>10
<1>5. S \ T \in SUBSET S /\ S \in SUBSET S
  OBVIOUS
<1>6. G[S] = G[T] + G[S \ T] /\ G[S] \in Nat /\ G[T] \in Nat /\ G[S \ T] \in Nat
  BY <1>2, <1>4, <1>5
<1> QED BY <1>1, <1>3, <1>5, <1>6

\* A sum over nobody.
LEMMA SumNone ==
  ASSUME NEW f, DOMAIN f = {}
  PROVE  SumFunction(f) = 0
<1>1. PICK G : Adds(G, f, {}) /\ SumFunction(f) = G[{}]
  BY SumIs, FS_EmptySet
<1> QED BY <1>1 DEF Adds

\* A sum in which one value is set apart.
LEMMA SumTake ==
  ASSUME NEW f, IsFiniteSet(DOMAIN f), \A x \in DOMAIN f : f[x] \in Nat,
         NEW x \in DOMAIN f
  PROVE  /\ SumFunction([y \in DOMAIN f \ {x} |-> f[y]]) \in Nat
         /\ SumFunction(f) = f[x] + SumFunction([y \in DOMAIN f \ {x} |-> f[y]])
<1> DEFINE S == DOMAIN f
           rest == [y \in S \ {x} |-> f[y]]
<1>1. PICK G : Adds(G, f, S) /\ SumFunction(f) = G[S]
  BY SumIs
<1>2. G[S] = f[x] + G[S \ {x}] /\ G[S \ {x}] \in Nat
  BY <1>1, AddsAny
<1>3. DOMAIN rest = S \ {x} /\ IsFiniteSet(S \ {x})
      /\ \A y \in S \ {x} : f[y] = rest[y]
  BY FS_Subset
<1> HIDE DEF rest
<1>4. PICK H : Adds(H, rest, S \ {x}) /\ SumFunction(rest) = H[S \ {x}]
  BY <1>3, SumIs
<1>7. S \ {x} \in SUBSET S
  OBVIOUS
<1> HIDE DEF S
<1>5. G[S \ {x}] = H[S \ {x}]
  BY <1>1, <1>3, <1>4, <1>7, AddsSame
<1>6. SumFunction(f) = f[x] + SumFunction(rest) /\ SumFunction(rest) \in Nat
  BY <1>1, <1>2, <1>4, <1>5
<1> QED BY <1>6 DEF rest, S

\* Greater values have a greater sum, and the same values the same.
LEMMA SumGrows ==
  ASSUME NEW S, IsFiniteSet(S), NEW f, NEW g, DOMAIN f = S, DOMAIN g = S,
         \A x \in S : f[x] \in Nat /\ g[x] \in Nat /\ f[x] <= g[x]
  PROVE  SumFunction(f) <= SumFunction(g)
<1>9. (\A x \in DOMAIN f : f[x] \in Nat) /\ (\A x \in DOMAIN g : g[x] \in Nat)
      /\ IsFiniteSet(DOMAIN f) /\ IsFiniteSet(DOMAIN g)
  OBVIOUS
<1>10. PICK G : /\ Adds(G, f, DOMAIN f) /\ SumFunction(f) = G[DOMAIN f]
                /\ \A s \in SUBSET DOMAIN f :
                     G[s] \in Nat /\ \A x \in s : G[s] = f[x] + G[s \ {x}]
  BY <1>9, SumAny
<1>11. PICK H : /\ Adds(H, g, DOMAIN g) /\ SumFunction(g) = H[DOMAIN g]
                /\ \A s \in SUBSET DOMAIN g :
                     H[s] \in Nat /\ \A x \in s : H[s] = g[x] + H[s \ {x}]
  BY <1>9, SumAny
<1>1. Adds(G, f, S) /\ SumFunction(f) = G[S]
  BY <1>10
<1>2. Adds(H, g, S) /\ SumFunction(g) = H[S]
  BY <1>11
<1>3. \A s \in SUBSET S : G[s] \in Nat /\ \A x \in s : G[s] = f[x] + G[s \ {x}]
  BY <1>10
<1>4. \A s \in SUBSET S : H[s] \in Nat /\ \A x \in s : H[s] = g[x] + H[s \ {x}]
  BY <1>11
<1>5. G[{}] = 0 /\ H[{}] = 0
  BY <1>1, <1>2 DEF Adds
<1> DEFINE off == {s \in SUBSET S : ~(G[s] <= H[s])}
<1>8. /\ off \in SUBSET (SUBSET S)
      /\ \A s \in SUBSET S : s \in off <=> ~(G[s] <= H[s])
  OBVIOUS
<1> HIDE DEF off
<1>6. off = {}
  <2> SUFFICES ASSUME off # {} PROVE FALSE
    OBVIOUS
  <2>1. PICK s \in off : \A u \in SUBSET s : u # s => u \notin off
    BY <1>8, SmallestIs
  <2>2. s \in SUBSET S /\ ~(G[s] <= H[s])
    BY <1>8
  <2>3. s # {}
    BY <1>5, <2>2
  <2>4. PICK x \in s : TRUE
    BY <2>3
  <2>5. s \ {x} \notin off /\ s \ {x} \in SUBSET S
    BY <2>1, <2>2
  <2>6. G[s \ {x}] <= H[s \ {x}]
    BY <1>8, <2>5
  <2>7. G[s] = f[x] + G[s \ {x}] /\ H[s] = g[x] + H[s \ {x}]
    BY <1>3, <1>4, <2>2
  <2>8. /\ G[s \ {x}] \in Nat /\ H[s \ {x}] \in Nat
        /\ f[x] \in Nat /\ g[x] \in Nat /\ f[x] <= g[x]
    BY <1>3, <1>4, <2>2, <2>5
  <2> QED BY <2>2, <2>6, <2>7, <2>8
<1> QED BY <1>1, <1>2, <1>6, <1>8

-----------------------------------------------------------------------------
(* The price of a task: steps that cover it and all that it calls, for     *)
(* boards of six slots and players of three tools.  A mutation triggers    *)
(* the m tools that wait for one, an addition those that wait for it,      *)
(* which may mutate; with at most three tools the two cannot both be many. *)

Reaction(kind, m) ==
  CASE kind \in {"removed", "overflow"} -> 3
    [] kind = "mutated" -> 13
    [] kind = "added" -> 13 + 13 * m
    [] OTHER -> 73

Price(t, m) ==
  CASE t.op \in {"buff", "awaken", "fuse", "devour"} -> 2
    [] t.op = "mutate" -> 2 + 13 * m
    [] t.op = "remove" -> 11
    [] t.op \in {"add", "addTwin"} -> 54
    [] t.op \in {"buffAll", "buffSome"} -> 12
    [] t.op \in {"tick", "settle"} -> 1
    [] t.op = "endTurn" -> 220
    [] t.op = "tool" -> Reaction(Trigger(t.handler), m)
    [] OTHER -> 0

\* The numbers that a task carries.
Sized(t) ==
  /\ t.op \in {"buff", "add", "buffAll", "buffSome"} => t.a \in Nat /\ t.q \in Nat
  /\ t.op \in {"add", "mutate", "awaken", "fuse"} => t.r \in {Drawn} \cup Rarities
  /\ t.op = "awaken" => t.levels \in Nat

\* An account of what is left after each task, starting from n.
Account(g, s, n, m) ==
  /\ g \in [0..Len(s) -> Nat] /\ g[0] <= n
  /\ \A i \in 1..Len(s) : Price(s[i], m) + g[i] <= g[i - 1]

\* n steps pay for the tasks.
Paid(s, n, m) ==
  /\ s \in Seq(ToSet(s)) /\ \A i \in DOMAIN s : Sized(s[i])
  /\ \E g : Account(g, s, n, m)

\* At most k tasks of a price of at most w.
Cheap(t, w, m) == Sized(t) /\ Price(t, m) <= w
Brief(p, k, w, m) ==
  /\ p \in Seq(ToSet(p)) /\ Len(p) <= k
  /\ \A i \in DOMAIN p : Cheap(p[i], w, m)

\* Prices are numbers.
LEMMA PriceIs ==
  ASSUME NEW t, NEW m \in Nat
  PROVE  Price(t, m) \in Nat
<1>1. \A kind : Reaction(kind, m) \in Nat
  BY DEF Reaction
<1> QED BY <1>1 DEF Price

\* Few cheap tasks are paid for.
LEMMA BriefPaid ==
  ASSUME NEW p, NEW k \in Nat, NEW w \in Nat, NEW m \in Nat, Brief(p, k, w, m),
         NEW n \in Nat, k * w <= n
  PROVE  Paid(p, n, m)
<1>1. /\ p \in Seq(ToSet(p)) /\ Len(p) \in Nat /\ DOMAIN p = 1..Len(p)
      /\ Len(p) <= k /\ \A i \in DOMAIN p : Sized(p[i]) /\ Price(p[i], m) <= w
  BY DEF Brief, Cheap
<1> DEFINE l == Len(p)
           g == [i \in 0..l |-> (l - i) * w]
<1>2. l \in Nat
  BY <1>1
<1>3. \A i \in 0..l : (l - i) * w \in Nat
  BY <1>2
<1>4. l * w <= k * w
  <2>1. k - l \in Nat
    BY <1>1, <1>2
  <2>2. (k - l) * w \in Nat
    BY <2>1
  <2>3. (k - l) * w = k * w - l * w
    BY <1>2
  <2> QED BY <1>2, <2>2, <2>3
<1>5. g \in [0..l -> Nat] /\ g[0] <= n
  BY <1>2, <1>3, <1>4
<1>6. ASSUME NEW i \in 1..l
      PROVE  Price(p[i], m) + g[i] <= g[i - 1]
  <2>1. g[i] = (l - i) * w /\ g[i - 1] = (l - i + 1) * w
    BY <1>2
  <2>2. (l - i + 1) * w = (l - i) * w + w /\ (l - i) * w \in Nat
    BY <1>2, <1>3
  <2>3. Price(p[i], m) <= w /\ Price(p[i], m) \in Nat
    BY <1>1, PriceIs
  <2> QED BY <2>1, <2>2, <2>3
<1> HIDE DEF g
<1>7. Account(g, p, n, m)
  BY <1>5, <1>6 DEF Account
<1> QED BY <1>1, <1>7 DEF Paid

\* One after the other costs what both cost.
LEMMA PaidJoin ==
  ASSUME NEW p, NEW q, NEW a \in Nat, NEW b \in Nat, NEW m \in Nat,
         Paid(p, a, m), Paid(q, b, m), NEW n \in Nat, a + b <= n
  PROVE  Paid(p \o q, n, m)
<1>1. /\ p \in Seq(ToSet(p)) /\ q \in Seq(ToSet(q))
      /\ \A i \in DOMAIN p : Sized(p[i])
      /\ \A i \in DOMAIN q : Sized(q[i])
  BY DEF Paid
<1> DEFINE k == Len(p)
           l == Len(q)
           s == p \o q
<1>2. k \in Nat /\ l \in Nat /\ DOMAIN p = 1..k /\ DOMAIN q = 1..l
  BY <1>1
<1>3. s \in Seq(ToSet(s)) /\ Len(s) = k + l /\ DOMAIN s = 1..(k + l)
  BY <1>1, JoinIs
<1>4. \A i \in 1..k : s[i] = p[i]
  BY <1>1, JoinIs
<1>5. \A i \in 1..(k + l) : i \in 1..k \/ (i > k /\ i - k \in 1..l /\ s[i] = q[i - k])
  BY <1>1, JoinIs
<1>6. PICK g : Account(g, p, a, m)
  BY DEF Paid
<1>7. PICK h : Account(h, q, b, m)
  BY DEF Paid
<1>8. /\ g \in [0..k -> Nat] /\ g[0] <= a
      /\ \A i \in 1..k : Price(p[i], m) + g[i] <= g[i - 1]
  BY <1>6 DEF Account
<1>9. /\ h \in [0..l -> Nat] /\ h[0] <= b
      /\ \A i \in 1..l : Price(q[i], m) + h[i] <= h[i - 1]
  BY <1>7 DEF Account
<1> HIDE DEF s, k, l
<1> DEFINE e == [i \in 0..(k + l) |-> IF i <= k THEN g[i] + b ELSE h[i - k]]
<1>10. \A i \in 0..k : e[i] = g[i] + b
  BY <1>2
<1>11. \A i \in 0..(k + l) : i > k => e[i] = h[i - k] /\ i - k \in 1..l
  BY <1>2
<1>12. e \in [0..(k + l) -> Nat]
  <2>1. \A i \in 0..(k + l) : i <= k => i \in 0..k
    BY <1>2
  <2>2. \A i \in 0..k : g[i] \in Nat /\ g[i] + b \in Nat
    BY <1>8
  <2>3. \A i \in 1..l : i \in 0..l /\ h[i] \in Nat
    BY <1>2, <1>9
  <2> DEFINE d == 0..(k + l)
             f == [i \in d |-> IF i <= k THEN g[i] + b ELSE h[i - k]]
  <2>4. e = f
    OBVIOUS
  <2> HIDE DEF e
  <2>5. \A i \in d : e[i] \in Nat
    <3> SUFFICES ASSUME NEW i \in d PROVE e[i] \in Nat
      OBVIOUS
    <3>1. CASE i <= k
      BY <1>10, <2>1, <2>2, <3>1
    <3>2. CASE ~(i <= k)
      <4>1. e[i] = h[i - k] /\ i - k \in 1..l
        BY <1>2, <1>11, <3>2
      <4> DEFINE j == i - k
      <4>2. h[j] \in Nat
        BY <2>3, <4>1
      <4> QED BY <4>1, <4>2
    <3> QED BY <3>1, <3>2
  <2> HIDE DEF d
  <2> QED BY <2>4, <2>5 DEF d
<1> HIDE DEF e
<1>13. e[0] <= n
  BY <1>2, <1>8, <1>10
<1>14. ASSUME NEW i \in 1..(k + l)
       PROVE  Price(s[i], m) + e[i] <= e[i - 1]
  <2>1. CASE i \in 1..k
    <3>1. i \in 0..k /\ i - 1 \in 0..k /\ s[i] = p[i]
      BY <1>2, <1>4, <2>1
    <3>2. e[i] = g[i] + b /\ e[i - 1] = g[i - 1] + b
      BY <1>10, <3>1
    <3>3. Price(p[i], m) + g[i] <= g[i - 1] /\ g[i] \in Nat /\ g[i - 1] \in Nat
      BY <1>8, <2>1, <3>1
    <3>4. Price(p[i], m) \in Nat
      BY PriceIs
    <3> QED BY <3>1, <3>2, <3>3, <3>4
  <2>2. CASE i \notin 1..k
    <3>1. i > k /\ i - k \in 1..l /\ s[i] = q[i - k]
      BY <1>5, <2>2
    <3>2. e[i] = h[i - k]
      BY <1>2, <1>11, <3>1
    <3>3. Price(q[i - k], m) + h[i - k] <= h[(i - k) - 1]
          /\ h[i - k] \in Nat /\ h[(i - k) - 1] \in Nat
      BY <1>2, <1>9, <3>1
    <3>4. h[(i - k) - 1] <= e[i - 1]
      <4>1. CASE i - 1 > k
        <5>1. e[i - 1] = h[i - 1 - k] /\ i - 1 - k = i - k - 1
          BY <1>2, <1>11, <4>1
        <5> QED BY <3>3, <5>1
      <4>2. CASE i - 1 = k
        <5>1. e[i - 1] = g[k] + b /\ g[k] \in Nat /\ i - k - 1 = 0
          BY <1>2, <1>8, <1>10, <4>2
        <5> QED BY <1>9, <3>3, <5>1
      <4> QED BY <1>2, <3>1, <4>1, <4>2
    <3>5. Price(q[i - k], m) \in Nat /\ e[i - 1] \in Nat
      BY <1>2, <1>12, PriceIs
    <3> QED BY <3>1, <3>2, <3>3, <3>4, <3>5
  <2> QED BY <2>1, <2>2
<1>15. Account(e, s, n, m)
  BY <1>3, <1>12, <1>13, <1>14 DEF Account
<1>16. \A i \in DOMAIN s : Sized(s[i])
  BY <1>1, <1>2, <1>3, <1>4, <1>5
<1>17. Paid(s, n, m)
  BY <1>3, <1>15, <1>16 DEF Paid
<1> QED BY <1>17 DEF s

\* The head costs its price, and the rest what is left.
LEMMA PaidHead ==
  ASSUME NEW s, s # << >>, NEW n \in Nat, NEW m \in Nat, Paid(s, n, m)
  PROVE  /\ Sized(Head(s)) /\ Price(Head(s), m) <= n /\ Price(Head(s), m) \in Nat
         /\ Paid(Tail(s), n - Price(Head(s), m), m)
<1> DEFINE S == ToSet(s)
           k == Len(s)
           r == Tail(s)
           c == Price(s[1], m)
<1>1. s \in Seq(S) /\ \A i \in DOMAIN s : Sized(s[i])
  BY DEF Paid
<1>2. PICK g : Account(g, s, n, m)
  BY DEF Paid
<1>3. /\ g \in [0..k -> Nat] /\ g[0] <= n
      /\ \A i \in 1..k : Price(s[i], m) + g[i] <= g[i - 1]
  BY <1>2 DEF Account
<1> HIDE DEF S
<1>4. /\ k \in Nat /\ k >= 1 /\ DOMAIN s = 1..k /\ Head(s) = s[1]
      /\ r \in Seq(S) /\ Len(r) = k - 1 /\ DOMAIN r = 1..(k - 1)
      /\ \A i \in 1..(k - 1) : r[i] = s[i + 1]
  BY <1>1
<1>5. c \in Nat
  BY PriceIs
<1> HIDE DEF r, k, c
<1>6. c + g[1] <= g[0] /\ g[1] \in Nat /\ g[0] \in Nat
  BY <1>3, <1>4 DEF c
<1>7. c <= n /\ n - c \in Nat /\ g[1] <= n - c
  BY <1>3, <1>5, <1>6
<1> DEFINE h == [i \in 0..(k - 1) |-> g[i + 1]]
<1>8. h \in [0..(k - 1) -> Nat] /\ h[0] = g[1]
  BY <1>3, <1>4
<1>9. \A i \in 1..(k - 1) : Price(r[i], m) + h[i] <= h[i - 1]
  <2> SUFFICES ASSUME NEW i \in 1..(k - 1)
               PROVE  Price(r[i], m) + h[i] <= h[i - 1]
    OBVIOUS
  <2>1. i + 1 \in 1..k /\ r[i] = s[i + 1] /\ (i + 1) - 1 = i
        /\ i \in 0..(k - 1) /\ i - 1 \in 0..(k - 1) /\ (i - 1) + 1 = i
    BY <1>4
  <2>2. h[i] = g[i + 1] /\ h[i - 1] = g[i]
    BY <2>1
  <2>3. Price(s[i + 1], m) + g[i + 1] <= g[i]
    BY <1>3, <2>1
  <2> QED BY <2>1, <2>2, <2>3
<1> HIDE DEF h
<1>10. Account(h, r, n - c, m)
  BY <1>4, <1>7, <1>8, <1>9 DEF Account
<1>11. r \in Seq(ToSet(r))
  BY <1>4, SeqOfOwn
<1>12. \A i \in DOMAIN r : Sized(r[i])
  <2>1. \A i \in 1..(k - 1) : i + 1 \in 1..k /\ r[i] = s[i + 1]
    BY <1>4
  <2> QED BY <1>1, <1>4, <2>1
<1>13. Paid(r, n - c, m)
  BY <1>10, <1>11, <1>12 DEF Paid
<1>14. Sized(s[1])
  BY <1>1, <1>4
<1>15. c = Price(Head(s), m) /\ r = Tail(s)
  BY <1>4 DEF r, c
<1> QED BY <1>4, <1>5, <1>7, <1>13, <1>14, <1>15

\* A pair is two sequences of one.
LEMMA PairIs ==
  ASSUME NEW t, NEW u
  PROVE  <<t>> \o <<u>> = <<t, u>>
<1>1. <<t>> \in Seq({t, u}) /\ <<u>> \in Seq({t, u}) /\ <<t, u>> \in Seq({t, u})
  OBVIOUS
<1>2. /\ <<t>> \o <<u>> \in Seq({t, u}) /\ Len(<<t>> \o <<u>>) = 2
      /\ (<<t>> \o <<u>>)[1] = t /\ (<<t>> \o <<u>>)[2] = u
  BY <1>1
<1> DEFINE p == <<t>> \o <<u>>
           q == <<t, u>>
           S == {t, u}
<1>3. p \in Seq(S) /\ q \in Seq(S) /\ Len(p) = 2 /\ Len(q) = 2
      /\ p[1] = q[1] /\ p[2] = q[2]
  BY <1>1, <1>2
<1> HIDE DEF p, q, S
<1>4. \A i \in 1..Len(p) : p[i] = q[i]
  BY <1>3
<1>5. p = q
  BY <1>3, <1>4, SeqEqual
<1> QED BY <1>5 DEF p, q

\* Two tasks.
LEMMA PaidTwo ==
  ASSUME NEW t, NEW u, NEW m \in Nat, Sized(t), Sized(u), NEW n \in Nat,
         Price(t, m) + Price(u, m) <= n
  PROVE  Paid(<<t, u>>, n, m)
<1>1. Price(t, m) \in Nat /\ Price(u, m) \in Nat
  BY PriceIs
<1>2. \A v : Sized(v) => Brief(<<v>>, 1, Price(v, m), m)
  <2> SUFFICES ASSUME NEW v, Sized(v) PROVE Brief(<<v>>, 1, Price(v, m), m)
    OBVIOUS
  <2>1. Price(v, m) \in Nat
    BY PriceIs
  <2>2. Cheap(v, Price(v, m), m)
    BY <2>1 DEF Cheap
  <2> QED BY <2>2 DEF Brief, ToSet
<1>3. Paid(<<t>>, Price(t, m), m) /\ Paid(<<u>>, Price(u, m), m)
  BY <1>1, <1>2, BriefPaid
<1>4. Paid(<<t>> \o <<u>>, n, m)
  BY <1>1, <1>3, PaidJoin
<1> QED BY <1>4, PairIs

\* A sequence of n tasks.
LEMMA BriefIs ==
  ASSUME NEW n \in Nat, NEW k \in Nat, n <= k, NEW w, NEW m, NEW p,
         p = [i \in 1..n |-> p[i]], \A i \in 1..n : Cheap(p[i], w, m)
  PROVE  Brief(p, k, w, m)
<1>1. \A i \in 1..n : p[i] \in ToSet(p)
  BY DEF ToSet
<1>2. p \in Seq(ToSet(p)) /\ DOMAIN p = 1..n /\ Len(p) = n
  BY <1>1
<1> QED BY <1>2 DEF Brief

\* One brief program after another.
LEMMA BriefJoin ==
  ASSUME NEW p, NEW q, NEW k \in Nat, NEW l \in Nat, NEW w, NEW m,
         Brief(p, k, w, m), Brief(q, l, w, m)
  PROVE  Brief(p \o q, k + l, w, m)
<1>1. /\ p \in Seq(ToSet(p)) /\ q \in Seq(ToSet(q))
      /\ Len(p) <= k /\ Len(q) <= l
      /\ \A i \in DOMAIN p : Cheap(p[i], w, m)
      /\ \A i \in DOMAIN q : Cheap(q[i], w, m)
  BY DEF Brief
<1>2. p \o q \in Seq(ToSet(p \o q)) /\ DOMAIN (p \o q) = 1..(Len(p) + Len(q))
      /\ Len(p \o q) = Len(p) + Len(q)
      /\ Len(p) \in Nat /\ Len(q) \in Nat
      /\ DOMAIN p = 1..Len(p) /\ DOMAIN q = 1..Len(q)
  BY <1>1, JoinIs
<1>3. \A i \in 1..Len(p) : (p \o q)[i] = p[i]
  BY <1>1, JoinIs
<1>4. \A i \in 1..(Len(p) + Len(q)) :
        i \in 1..Len(p) \/ (i - Len(p) \in 1..Len(q) /\ (p \o q)[i] = q[i - Len(p)])
  BY <1>1, JoinIs
<1>5. \A i \in 1..(Len(p) + Len(q)) : Cheap((p \o q)[i], w, m)
  BY <1>1, <1>2, <1>3, <1>4
<1>6. Len(p) + Len(q) <= k + l
  BY <1>1, <1>2
<1> QED BY <1>2, <1>5, <1>6 DEF Brief

\* A shorter program is brief.
LEMMA BriefMore ==
  ASSUME NEW p, NEW k \in Nat, NEW l \in Nat, k <= l, NEW w, NEW m,
         Brief(p, k, w, m)
  PROVE  Brief(p, l, w, m)
<1>1. Len(p) \in Nat /\ Len(p) <= k
  BY DEF Brief
<1>2. Len(p) <= l
  BY <1>1
<1> QED BY <1>2 DEF Brief

\* Short programs.
LEMMA BriefShort ==
  ASSUME NEW w, NEW m
  PROVE  /\ Brief(<< >>, 0, w, m)
         /\ \A t : Cheap(t, w, m) => Brief(<<t>>, 1, w, m)
         /\ \A t, u : Cheap(t, w, m) /\ Cheap(u, w, m) => Brief(<<t, u>>, 2, w, m)
         /\ \A t, u, v : Cheap(t, w, m) /\ Cheap(u, w, m) /\ Cheap(v, w, m)
              => Brief(<<t, u, v>>, 3, w, m)
         /\ \A t, u, v, x :
              Cheap(t, w, m) /\ Cheap(u, w, m) /\ Cheap(v, w, m) /\ Cheap(x, w, m)
                => Brief(<<t, u, v, x>>, 4, w, m)
BY DEF Brief, ToSet

\* The price of the tasks of a card or a tool, by their kind.
LEMMA TaskCosts ==
  ASSUME NEW m \in 0..3, NEW id, NEW f, NEW p, NEW n, NEW a \in Nat, NEW q \in Nat,
         NEW r \in {Drawn} \cup Rarities
  PROVE  /\ Cheap(Buff(id, a, q), 2, m)
         /\ Cheap(Mutate(id, f, r), 41, m)
         /\ Cheap(Remove1(id), 11, m)
         /\ \A l \in Nat : Cheap(Awaken(id, r, l), 2, m)
         /\ \A s : Cheap(Fuse(s, f, r), 2, m)
         /\ Cheap(Devour(id, p), 2, m)
         /\ Cheap(Add(f, r, a, q), 54, m)
         /\ \A s : Cheap([Add(f, r, a, q) EXCEPT !.spill = s], 54, m)
         /\ Cheap(AddTwin(id), 54, m)
         /\ Cheap(BuffAll(p, a, q), 12, m)
         /\ Cheap(BuffSome(p, n, a, q), 12, m)
         /\ Cheap(Tick, 1, m)
         /\ Cheap(Overflow, 0, m)
<1>1. Cheap(Buff(id, a, q), 2, m) /\ Cheap(Remove1(id), 11, m)
  BY DEF Cheap, Sized, Price, Buff, Remove1
<1>2. Cheap(Mutate(id, f, r), 41, m)
  BY DEF Cheap, Sized, Price, Mutate
<1>3. \A l \in Nat : Cheap(Awaken(id, r, l), 2, m)
  BY DEF Cheap, Sized, Price, Awaken
<1>4. \A s : Cheap(Fuse(s, f, r), 2, m)
  BY DEF Cheap, Sized, Price, Fuse
<1>5. Cheap(Devour(id, p), 2, m)
  BY DEF Cheap, Sized, Price, Devour
<1>6. Cheap(Add(f, r, a, q), 54, m)
  BY DEF Cheap, Sized, Price, Add
<1>7. \A s : Cheap([Add(f, r, a, q) EXCEPT !.spill = s], 54, m)
  BY DEF Cheap, Sized, Price, Add
<1>8. Cheap(AddTwin(id), 54, m) /\ Cheap(Tick, 1, m) /\ Cheap(Overflow, 0, m)
  BY DEF Cheap, Sized, Price, AddTwin, Tick, Overflow
<1>9. Cheap(BuffAll(p, a, q), 12, m) /\ Cheap(BuffSome(p, n, a, q), 12, m)
  BY DEF Cheap, Sized, Price, BuffAll, BuffSome
<1> QED BY <1>1, <1>2, <1>3, <1>4, <1>5, <1>6, <1>7, <1>8, <1>9

\* What is cheap at a price is cheap at a higher one.
LEMMA CheapMore ==
  ASSUME NEW t, NEW v \in Nat, NEW w \in Nat, v <= w, NEW m \in Nat, Cheap(t, v, m)
  PROVE  Cheap(t, w, m)
<1>1. Price(t, m) \in Nat
  BY PriceIs
<1> QED BY <1>1 DEF Cheap

\* A list of monsters is no longer than the board.
LEMMA ListsAreShort ==
  ASSUME Sound(slots, tools, nextId), SlotCount \in Nat, NEW s \in Lists(Ids)
  PROVE  Len(s) \in Nat /\ Len(s) <= SlotCount
<1> DEFINE k == Len(s)
           f == [i \in 1..k |-> At(s[i])]
<1>1. /\ k \in Nat /\ DOMAIN s = 1..k
      /\ \A i, j \in DOMAIN s : s[i] = s[j] => i = j
      /\ \A i \in DOMAIN s : s[i] \in Ids
  BY ListIs
<1>2. \A id \in Ids : M(id).id = id /\ At(id) \in 1..SlotCount
  BY AtIs
<1>3. \A i, j \in 1..k : At(s[i]) = At(s[j]) => i = j
  BY <1>1, <1>2 DEF M
<1>4. f \in Injection(1..k, 1..SlotCount)
  BY <1>1, <1>2, <1>3 DEF Injection, IsInjective
<1> HIDE DEF f, k
<1>5. IsFiniteSet(1..k) /\ Cardinality(1..k) = k
      /\ IsFiniteSet(1..SlotCount) /\ Cardinality(1..SlotCount) = SlotCount
  <2>1. \A n \in Nat : IsFiniteSet(1..n) /\ Cardinality(1..n) = n
    BY FS_Interval
  <2> QED BY <1>1, <2>1
<1>6. Cardinality(1..k) <= Cardinality(1..SlotCount)
  BY <1>4, <1>5, FS_Injection
<1> QED BY <1>1, <1>5, <1>6 DEF k

\* At most one.
LEMMA OneAtMost ==
  ASSUME NEW S, IsFiniteSet(S), \A i, j \in S : i = j
  PROVE  Cardinality(S) <= 1
<1>1. CASE S = {}
  BY <1>1, FS_EmptySet
<1>2. CASE S # {}
  <2>1. PICK x \in S : S = {x}
    BY <1>2
  <2>2. Cardinality(S) = 1
    BY <2>1, FS_Singleton
  <2> QED BY <2>2
<1> QED BY <1>1, <1>2

\* The extremes are at most one monster each, and a draw no more than asked.
LEMMA ChosenFew ==
  ASSUME NEW S, NEW s \in Lists(S)
  PROVE  /\ Len(HighestActivity(s)) <= 1
         /\ Len(LowestActivity(s)) <= 1
         /\ \A n \in Nat : Size(s, n) \in Nat /\ Size(s, n) <= n
<1>1. Len(s) \in Nat /\ DOMAIN s = 1..Len(s)
  BY ListIs
<1>2. ASSUME NEW places \in SUBSET DOMAIN s,
             \A i, j \in places : i < j => FALSE
      PROVE  Len(Keep(s, places)) <= 1
  <2>1. IsFiniteSet(places)
    BY <1>1, FinitePlaces
  <2>2. \A i, j \in places : i = j
    BY <1>1, <1>2
  <2> QED BY <2>1, <2>2, OneAtMost, KeepList
<1>3. Len(HighestActivity(s)) <= 1
  <2> DEFINE places == {i \in DOMAIN s :
               /\ \A j \in DOMAIN s : ~(M(s[j]).activity > M(s[i]).activity)
               /\ \A j \in 1..(i - 1) : M(s[i]).activity > M(s[j]).activity}
  <2>1. HighestActivity(s) = Keep(s, places)
    BY DEF HighestActivity, Best
  <2>2. ASSUME NEW i \in places, NEW j \in places, i < j
        PROVE  FALSE
    <3>1. i \in DOMAIN s /\ j \in DOMAIN s /\ i \in 1..(j - 1)
      BY <1>1, <2>2
    <3> QED BY <3>1
  <2>3. places \in SUBSET DOMAIN s
    OBVIOUS
  <2> HIDE DEF places
  <2> QED BY <1>2, <2>1, <2>2, <2>3
<1>4. Len(LowestActivity(s)) <= 1
  <2> DEFINE places == {i \in DOMAIN s :
               /\ \A j \in DOMAIN s : ~(M(s[j]).activity < M(s[i]).activity)
               /\ \A j \in 1..(i - 1) : M(s[i]).activity < M(s[j]).activity}
  <2>1. LowestActivity(s) = Keep(s, places)
    BY DEF LowestActivity, Best
  <2>2. ASSUME NEW i \in places, NEW j \in places, i < j
        PROVE  FALSE
    <3>1. i \in DOMAIN s /\ j \in DOMAIN s /\ i \in 1..(j - 1)
      BY <1>1, <2>2
    <3> QED BY <3>1
  <2>3. places \in SUBSET DOMAIN s
    OBVIOUS
  <2> HIDE DEF places
  <2> QED BY <1>2, <2>1, <2>2, <2>3
<1>5. ASSUME NEW n \in Nat
      PROVE  Size(s, n) \in Nat /\ Size(s, n) <= n
  <2> DEFINE k == Len(s)
  <2>1. Size(s, n) = IF n < k THEN n ELSE k
    BY DEF Size
  <2>2. k \in Nat
    BY <1>1
  <2> HIDE DEF k
  <2> QED BY <2>1, <2>2
<1> QED BY <1>3, <1>4, <1>5

\* Strengthening the monsters of a list.
LEMMA BriefBuffs ==
  ASSUME NEW ids, NEW s \in Seq(ids), NEW k \in Nat, Len(s) <= k,
         NEW m \in 0..3, NEW a \in Nat, NEW q \in Nat, NEW w \in Nat, 2 <= w
  PROVE  Brief(BuffEach(s, a, q), k, w, m)
<1>1. Len(s) \in Nat /\ DOMAIN s = 1..Len(s)
  OBVIOUS
<1> DEFINE p == BuffEach(s, a, q)
<1>2. /\ p = [i \in 1..Len(s) |-> p[i]]
      /\ \A i \in 1..Len(s) : p[i] = Buff(s[i], a, q)
  BY <1>1 DEF BuffEach, Each
<1> HIDE DEF p
<1>3. \A id : Cheap(Buff(id, a, q), w, m)
  <2> SUFFICES ASSUME NEW id PROVE Cheap(Buff(id, a, q), w, m)
    OBVIOUS
  <2>1. 0 \in {Drawn} \cup Rarities
    BY DEF Drawn
  <2>2. Cheap(Buff(id, a, q), 2, m)
    BY <2>1, TaskCosts
  <2>3. m \in Nat
    OBVIOUS
  <2> QED BY <2>2, <2>3, CheapMore
<1>4. \A i \in 1..Len(s) : Cheap(p[i], w, m)
  BY <1>2, <1>3
<1>5. Brief(p, k, w, m)
  BY <1>1, <1>2, <1>4, BriefIs
<1> QED BY <1>5 DEF p

\* Strengthening a list, its extremes or one of it.
LEMMA BuffsBrief ==
  ASSUME NEW ids, NEW s \in Lists(ids), NEW m \in 0..3,
         NEW a \in Nat, NEW q \in Nat
  PROVE  /\ \A k \in Nat : Len(s) <= k => Brief(BuffEach(s, a, q), k, 2, m)
         /\ Brief(BuffEach(HighestActivity(s), a, q), 1, 2, m)
         /\ Brief(BuffEach(LowestActivity(s), a, q), 1, 2, m)
         /\ \A p \in BuffOne(s, a, q) : Brief(p, 1, 2, m)
<1>1. \A g \in Lists(ids) : \A k \in Nat :
        Len(g) <= k => Brief(BuffEach(g, a, q), k, 2, m)
  BY BriefBuffs DEF Lists
<1>2. HighestActivity(s) \in Lists(ids) /\ LowestActivity(s) \in Lists(ids)
  BY ChosenPart
<1>3. \A c \in Picks(s, 1) : c \in Lists(ids) /\ Len(c) <= 1
  BY PicksPart, ChosenFew
<1>4. Len(HighestActivity(s)) <= 1 /\ Len(LowestActivity(s)) <= 1
  BY ChosenFew
<1> QED BY <1>1, <1>2, <1>3, <1>4 DEF BuffOne

\* Every task at its own price: what a reaction to an event costs.
LEMMA ReactionsPaid ==
  ASSUME Sound(slots, tools, nextId), SlotCount \in Nat, SlotCount <= 6,
         NEW m \in 0..3, NEW h \in AllTools, Trigger(h) # "turn_end", NEW id,
         NEW p \in ToolProgram(h, id)
  PROVE  Paid(p, Reaction(Trigger(h), m) - 1, m)
<1>1. \/ h \in {"claw", "eye", "metatarsal"} /\ Trigger(h) = "removed"
      \/ h \in {"marrow", "hatching_egg"} /\ Trigger(h) = "added"
      \/ h \in {"growth", "liver"} /\ Trigger(h) = "mutated"
      \/ h = "nail" /\ Trigger(h) = "overflow"
  BY DEF Trigger, AllTools
<1>2. /\ Reaction("removed", m) - 1 = 2
      /\ Reaction("overflow", m) - 1 = 2
      /\ Reaction("mutated", m) - 1 = 12
      /\ Reaction("added", m) - 1 = 12 + 13 * m
  BY DEF Reaction
<1>3. All \in Lists(Ids) /\ Len(All) <= 6 /\ m \in Nat
  <2>1. All \in Lists(Ids)
    BY GroupLists
  <2> QED BY <2>1, ListsAreShort
<1>4. \A k \in Nat : Brief(<< >>, k, 2, m)
  <2>1. Brief(<< >>, 0, 2, m)
    BY BriefShort
  <2> QED BY <2>1, BriefMore
<1>5. \A a, q \in Nat :
        /\ Brief(BuffEach(All, a, q), 6, 2, m)
        /\ Brief(BuffEach(HighestActivity(All), a, q), 1, 2, m)
        /\ Brief(BuffEach(LowestActivity(All), a, q), 1, 2, m)
        /\ \A o \in BuffOne(All, a, q) : Brief(o, 1, 2, m)
  BY <1>3, BuffsBrief
<1>6. Brief(p, 1, 2, m) => Paid(p, 2, m)
  BY <1>3, BriefPaid
<1>7. Brief(p, 6, 2, m) => Paid(p, 12, m) /\ Paid(p, 12 + 13 * m, m)
  BY <1>3, BriefPaid
<1>8. CASE h = "claw"
  <2>1. p \in When(removed # Empty /\ removed.family # "BONE", BuffOne(All, 0, 150))
    BY <1>8 DEF ToolProgram
  <2>2. Brief(p, 1, 2, m)
    BY <1>4, <1>5, <2>1, WhenIs
  <2> QED BY <1>1, <1>2, <1>6, <1>8, <2>2
<1>9. CASE h = "eye"
  <2>1. p = BuffEach(HighestActivity(All), 20, 20)
    BY <1>9 DEF ToolProgram
  <2> QED BY <1>1, <1>2, <1>5, <1>6, <1>9, <2>1
<1>10. CASE h = "metatarsal"
  <2>1. p \in When(Len(OfFamily("BONE")) >= 2, BuffOne(All, 0, 180))
    BY <1>10 DEF ToolProgram
  <2>2. Brief(p, 1, 2, m)
    BY <1>4, <1>5, <2>1, WhenIs
  <2> QED BY <1>1, <1>2, <1>6, <1>10, <2>2
<1>11. CASE h = "marrow"
  <2>1. p \in When(id \in Ids,
                   {<< >>, <<Mutate(id, "FIEND", Drawn), Buff(id, 80, 0)>>})
    BY <1>11 DEF ToolProgram
  <2>2. p = << >> \/ p = <<Mutate(id, "FIEND", Drawn), Buff(id, 80, 0)>>
    BY <2>1 DEF When
  <2>3. Paid(<< >>, 12 + 13 * m, m)
    BY <1>3, <1>4, BriefPaid
  <2>4. /\ Sized(Mutate(id, "FIEND", Drawn)) /\ Sized(Buff(id, 80, 0))
        /\ Price(Mutate(id, "FIEND", Drawn), m) = 2 + 13 * m
        /\ Price(Buff(id, 80, 0), m) = 2
    BY DEF Sized, Price, Mutate, Buff
  <2>5. Paid(<<Mutate(id, "FIEND", Drawn), Buff(id, 80, 0)>>, 12 + 13 * m, m)
    BY <1>3, <2>4, PaidTwo
  <2> QED BY <1>1, <1>2, <1>11, <2>2, <2>3, <2>5
<1>12. CASE h = "hatching_egg"
  <2>1. p \in When(Len(OfFamily("INSECT")) >= 2, {BuffEach(All, 0, 45)})
    BY <1>12 DEF ToolProgram
  <2>2. Brief(p, 6, 2, m)
    BY <1>4, <1>5, <2>1, WhenIs
  <2> QED BY <1>1, <1>2, <1>7, <1>12, <2>2
<1>13. CASE h = "growth"
  <2>1. p \in When(id \in Ids /\ M(id).family = "FIEND", {BuffEach(All, 35, 0)})
    BY <1>13 DEF ToolProgram
  <2>2. Brief(p, 6, 2, m)
    BY <1>4, <1>5, <2>1, WhenIs
  <2> QED BY <1>1, <1>2, <1>7, <1>13, <2>2
<1>14. CASE h = "liver"
  <2>1. p \in When(Len(OfFamily("FIEND")) >= 2, {BuffEach(All, 20, 0)})
    BY <1>14 DEF ToolProgram
  <2>2. Brief(p, 6, 2, m)
    BY <1>4, <1>5, <2>1, WhenIs
  <2> QED BY <1>1, <1>2, <1>7, <1>14, <2>2
<1>15. CASE h = "nail"
  <2>1. p = BuffEach(LowestActivity(All), 25, 25)
    BY <1>15 DEF ToolProgram
  <2> QED BY <1>1, <1>2, <1>5, <1>6, <1>15, <2>1
<1> QED BY <1>1, <1>8, <1>9, <1>10, <1>11, <1>12, <1>13, <1>14, <1>15

\* The values of a board: numbers, and a rarity for each monster.
Measured(board) ==
  \A i \in 1..SlotCount :
    /\ board[i].activity \in Nat /\ board[i].quantity \in Nat
    /\ board[i] # Empty => board[i].rarity \in Rarities

\* The values of the monsters that tasks name.
LEMMA MeasuredIds ==
  ASSUME Sound(slots, tools, nextId), Measured(slots), NEW id \in Ids
  PROVE  /\ M(id).activity \in Nat /\ M(id).quantity \in Nat
         /\ M(id).rarity \in Rarities /\ M(id).rarity \in {Drawn} \cup Rarities
         /\ M(id) = slots[At(id)] /\ At(id) \in 1..SlotCount /\ At(id) \in Board
<1>1. At(id) \in Board /\ At(id) \in 1..SlotCount
  BY AtIs
<1>2. slots[At(id)] # Empty
  BY <1>1 DEF Board, Occupied
<1> QED BY <1>1, <1>2 DEF Measured, M

\* Tasks for the members of a list, all of them cheap.
LEMMA BriefEach ==
  ASSUME NEW ids, NEW s \in Seq(ids), NEW k \in Nat, Len(s) <= k, NEW w, NEW m,
         NEW p, p = [i \in DOMAIN s |-> p[i]],
         \A i \in DOMAIN s : Cheap(p[i], w, m)
  PROVE  Brief(p, k, w, m)
<1>1. Len(s) \in Nat /\ DOMAIN s = 1..Len(s)
  OBVIOUS
<1>2. p = [i \in 1..Len(s) |-> p[i]] /\ \A i \in 1..Len(s) : Cheap(p[i], w, m)
  BY <1>1
<1> QED BY <1>1, <1>2, BriefIs

\* The same task several times.
LEMMA BriefRepeat ==
  ASSUME NEW n \in Nat, NEW k \in Nat, n <= k, NEW w, NEW m,
         NEW t, Cheap(t, w, m)
  PROVE  Brief(Repeat(n, t), k, w, m)
<1>1. Repeat(n, t) = [i \in 1..n |-> Repeat(n, t)[i]]
      /\ \A i \in 1..n : Repeat(n, t)[i] = t
  BY DEF Repeat
<1> QED BY <1>1, BriefIs

\* Short sequences one after the other are short.
LEMMA JoinShort ==
  ASSUME NEW S, NEW p \in Seq(S), NEW q \in Seq(S), NEW k \in Nat, NEW l \in Nat,
         Len(p) <= k, Len(q) <= l
  PROVE  p \o q \in Seq(S) /\ Len(p \o q) <= k + l
<1>1. p \o q \in Seq(S) /\ Len(p \o q) = Len(p) + Len(q)
      /\ Len(p) \in Nat /\ Len(q) \in Nat
  OBVIOUS
<1> QED BY <1>1

\* One of each rarity is at most four.
LEMMA OneOfEachFew ==
  ASSUME Sound(slots, tools, nextId), SlotCount \in Nat,
         NEW rarities, NEW c \in OnePerRarity(rarities)
  PROVE  c \in Seq(Ids) /\ Len(c) <= 4
<1>1. \A r : \A d \in Picks(OfRarity(r), 1) :
        d \in Seq(Ids) /\ Len(d) <= 1
  <2> SUFFICES ASSUME NEW r, NEW d \in Picks(OfRarity(r), 1)
               PROVE  d \in Seq(Ids) /\ Len(d) <= 1
    OBVIOUS
  <2>1. OfRarity(r) \in Lists(Ids)
    BY GroupLists
  <2>2. d \in Lists(Ids) /\ Len(d) = Size(OfRarity(r), 1)
    BY <2>1, PicksPart
  <2>3. Size(OfRarity(r), 1) <= 1
    BY <2>1, ChosenFew
  <2> QED BY <2>2, <2>3 DEF Lists
<1>2. PICK g : /\ \A r \in Rarities :
                    g[r] \in IF r \in rarities THEN Picks(OfRarity(r), 1) ELSE {<< >>}
               /\ c = g[1] \o g[2] \o g[3] \o g[4]
  BY DEF OnePerRarity
<1>3. \A r \in Rarities : g[r] \in Seq(Ids) /\ Len(g[r]) <= 1
  <2> SUFFICES ASSUME NEW r \in Rarities PROVE g[r] \in Seq(Ids) /\ Len(g[r]) <= 1
    OBVIOUS
  <2>1. << >> \in Seq(Ids) /\ Len(<< >>) = 0
    OBVIOUS
  <2>2. g[r] \in Picks(OfRarity(r), 1) \/ g[r] = << >>
    BY <1>2
  <2>3. CASE g[r] = << >>
    BY <2>1, <2>3
  <2>4. CASE g[r] \in Picks(OfRarity(r), 1)
    BY <1>1, <2>4
  <2> QED BY <2>2, <2>3, <2>4
<1>4. /\ g[1] \in Seq(Ids) /\ g[2] \in Seq(Ids) /\ g[3] \in Seq(Ids) /\ g[4] \in Seq(Ids)
      /\ Len(g[1]) <= 1 /\ Len(g[2]) <= 1 /\ Len(g[3]) <= 1 /\ Len(g[4]) <= 1
  BY <1>3 DEF Rarities, Normal, Boss
<1> DEFINE S == Ids
           a == g[1]
           b == g[2]
           d == g[3]
           e == g[4]
<1>5. /\ a \in Seq(S) /\ b \in Seq(S) /\ d \in Seq(S) /\ e \in Seq(S)
      /\ Len(a) <= 1 /\ Len(b) <= 1 /\ Len(d) <= 1 /\ Len(e) <= 1
      /\ c = a \o b \o d \o e
  BY <1>2, <1>4
<1> HIDE DEF S, a, b, d, e
<1>6. a \o b \in Seq(S) /\ Len(a \o b) <= 1 + 1
  BY <1>5, JoinShort
<1>7. a \o b \o d \in Seq(S) /\ Len(a \o b \o d) <= (1 + 1) + 1
  BY <1>5, <1>6, JoinShort
<1>8. a \o b \o d \o e \in Seq(S) /\ Len(a \o b \o d \o e) <= ((1 + 1) + 1) + 1
  BY <1>5, <1>7, JoinShort
<1>9. c \in Seq(S) /\ Len(c) <= 4
  BY <1>5, <1>8
<1> QED BY <1>9 DEF S

\* The sinew: a removal and a strengthening.
LEMMA SinewBrief ==
  ASSUME Sound(slots, tools, nextId), SlotCount \in Nat, Measured(slots),
         NEW m \in 0..3,
         NEW p, p = Each(LowestActivity(Others("BONE")), LAMBDA low : Remove1(low))
                      \o Each(LowestActivity(Others("BONE")),
                              LAMBDA low : BuffSome("BONE", 1, M(low).activity, 0))
  PROVE  Brief(p, 2, 12, m)
<1> DEFINE low == LowestActivity(Others("BONE"))
           q == Each(low, LAMBDA l : BuffSome("BONE", 1, M(l).activity, 0))
           r == Each(low, LAMBDA l : Remove1(l))
<1>1. low \in Lists(Ids) /\ Len(low) <= 1
  BY GroupLists, ChosenPart, ChosenFew
<1>2. p = r \o q
  OBVIOUS
<1> HIDE DEF low
<1>3. Len(low) \in Nat /\ DOMAIN low = 1..Len(low) /\ low \in Seq(Ids)
      /\ \A i \in DOMAIN low : low[i] \in Ids
  BY <1>1, ListIs
<1>4. /\ q = [i \in DOMAIN low |-> q[i]]
      /\ \A i \in DOMAIN low : q[i] = BuffSome("BONE", 1, M(low[i]).activity, 0)
      /\ r = [i \in DOMAIN low |-> r[i]]
      /\ \A i \in DOMAIN low : r[i] = Remove1(low[i])
  BY DEF Each
<1> HIDE DEF q, r
<1>5. \A id \in Ids : M(id).activity \in Nat
  BY MeasuredIds
<1>6. 0 \in {Drawn} \cup Rarities
  BY DEF Drawn
<1>11. \A a \in Nat : Cheap(BuffSome("BONE", 1, a, 0), 12, m)
  BY <1>6, TaskCosts
<1>7. ASSUME NEW i \in DOMAIN low
      PROVE  Cheap(q[i], 12, m) /\ Cheap(r[i], 12, m)
  <2>1. M(low[i]).activity \in Nat
    BY <1>3, <1>5
  <2>2. Cheap(q[i], 12, m)
    BY <1>4, <1>11, <2>1
  <2>3. Cheap(r[i], 11, m)
    BY <1>4, <1>6, TaskCosts
  <2>4. m \in Nat
    OBVIOUS
  <2> QED BY <2>2, <2>3, <2>4, CheapMore
<1>8. Brief(q, 1, 12, m)
  BY <1>1, <1>3, <1>4, <1>7, BriefEach
<1>9. Brief(r, 1, 12, m)
  BY <1>1, <1>3, <1>4, <1>7, BriefEach
<1>10. Brief(r \o q, 2, 12, m)
  <2>1. Brief(r \o q, 1 + 1, 12, m)
    BY <1>8, <1>9, BriefJoin
  <2>2. 1 + 1 = 2
    OBVIOUS
  <2> QED BY <2>1, <2>2
<1> QED BY <1>2, <1>10

\* The groups of three of a rarity are at most two.
LEMMA TriplesBrief ==
  ASSUME Sound(slots, tools, nextId), SlotCount \in Nat, SlotCount <= 6,
         NEW m \in 0..3, NEW r \in 1..3
  PROVE  Brief(Triples(r), 2, 2, m)
<1> DEFINE n == Len(OfRarity(r))
           s == Triples(r)
<1>1. OfRarity(r) \in Lists(Ids)
  BY GroupLists
<1>2. n \in Nat /\ n <= 6
  BY <1>1, ListsAreShort
<1>3. /\ s = [k \in 1..(n \div 3) |-> s[k]]
      /\ \A k \in 1..(n \div 3) : s[k] = Fuse(SubSeq(OfRarity(r), 3 * k - 2, 3 * k),
                                              Wild, r + 1)
  BY DEF Triples
<1> HIDE DEF n, s
<1>4. n \div 3 \in Nat /\ n \div 3 <= 2
  BY <1>2
<1>5. r + 1 \in {Drawn} \cup Rarities /\ 0 \in Nat
  BY DEF Rarities, Normal, Boss
<1>6. \A u : Cheap(Fuse(u, Wild, r + 1), 2, m)
  BY <1>5, TaskCosts
<1>7. \A k \in 1..(n \div 3) : Cheap(s[k], 2, m)
  BY <1>3, <1>6
<1>8. Brief(s, 2, 2, m)
  BY <1>3, <1>4, <1>7, BriefIs
<1> QED BY <1>8 DEF s

\* What a tool at the end of a turn costs.
LEMMA LateToolsPaid ==
  ASSUME Sound(slots, tools, nextId), SlotCount \in Nat, SlotCount <= 6,
         Measured(slots), NEW m \in 0..3,
         NEW h \in AllTools, Trigger(h) = "turn_end", NEW id,
         NEW p \in ToolProgram(h, id)
  PROVE  Paid(p, 72, m)
<1>1. h \in {"cortex", "goat_suture", "saw", "scraper", "sinew",
             "tanned_restraint", "pituitary", "fang", "frontal_lobe",
             "rawhide_restraint", "nettle", "pupa", "statue", "cluster_eggs",
             "mouth", "brooding_butterfly"}
  BY DEF Trigger, AllTools
<1>2. m \in Nat /\ 0 \in {Drawn} \cup Rarities /\ 0 \in Nat
  BY DEF Drawn
<1>3. \A o : /\ Brief(o, 6, 2, m) => Paid(o, 72, m)
             /\ Brief(o, 6, 12, m) => Paid(o, 72, m)
             /\ Brief(o, 1, 2, m) => Paid(o, 72, m)
             /\ Brief(o, 4, 2, m) => Paid(o, 72, m)
             /\ Brief(o, 2, 12, m) => Paid(o, 72, m)
             /\ Brief(o, 1, 54, m) => Paid(o, 72, m)
             /\ Brief(o, 1, 0, m) => Paid(o, 72, m)
             /\ Brief(o, 0, 0, m) => Paid(o, 72, m)
  BY <1>2, BriefPaid
<1>4. Paid(<< >>, 72, m)
  BY <1>3, BriefShort
<1>5. \A s \in Lists(Ids) : Len(s) <= 6
  BY ListsAreShort
<1>6. \A s \in Lists(Ids) : \A a, q \in Nat :
        /\ Paid(BuffEach(s, a, q), 72, m)
        /\ Paid(BuffEach(HighestActivity(s), a, q), 72, m)
        /\ \A o \in BuffOne(s, a, q) : Paid(o, 72, m)
  BY <1>3, <1>5, BuffsBrief, SMTT(60)
<1>7. All \in Lists(Ids)
  BY GroupLists
<1>8. \A places \in SUBSET Board : IdsAt(places) \in Lists(Ids)
  BY IdsAtList
<1>9. \A c, S : p \in When(c, S) /\ (\A o \in S : Paid(o, 72, m)) => Paid(p, 72, m)
  BY <1>4, WhenIs
<1>30. \A s : \A r \in {Drawn} \cup Rarities : \A f : Paid(<<Fuse(s, f, r)>>, 72, m)
  BY <1>2, <1>3, TaskCosts, BriefShort
<1>31. \A a, q \in Nat : \A f : Paid(<<Add(f, Drawn, a, q)>>, 72, m)
  BY <1>2, <1>3, TaskCosts, BriefShort
<1>10. CASE h = "cortex"
  <2>1. p \in When(Len(OfRarity(Magic)) >= 2,
          {<<Fuse(two, "AWAKENER", Rare)>> : two \in Picks(OfRarity(Magic), 2)})
    BY <1>10 DEF ToolProgram
  <2>2. Rare \in {Drawn} \cup Rarities
    BY DEF Rare, Rarities, Normal, Boss
  <2> QED BY <1>9, <1>30, <2>1, <2>2
<1>11. CASE h = "goat_suture"
  <2>1. p = Triples(Normal) \o Triples(Magic) \o Triples(Rare)
    BY <1>11 DEF ToolProgram
  <2>2. /\ Brief(Triples(Normal), 2, 2, m) /\ Brief(Triples(Magic), 2, 2, m)
        /\ Brief(Triples(Rare), 2, 2, m)
    BY TriplesBrief DEF Normal, Magic, Rare
  <2>3. Brief(Triples(Normal) \o Triples(Magic), 2 + 2, 2, m)
    BY <2>2, BriefJoin
  <2>4. Brief(Triples(Normal) \o Triples(Magic) \o Triples(Rare), (2 + 2) + 2, 2, m)
    BY <2>2, <2>3, BriefJoin
  <2>5. (2 + 2) + 2 = 6
    OBVIOUS
  <2> QED BY <1>3, <2>1, <2>4, <2>5
<1>12. CASE h = "saw"
  <2> DEFINE places == {i \in Board : slots[i].activity > 150 /\ slots[i].quantity > 150}
  <2>1. p = BuffEach(IdsAt(places), 15, 15)
    BY <1>12 DEF ToolProgram, Group, IdsAt
  <2> QED BY <1>6, <1>8, <2>1
<1>13. CASE h = "scraper"
  <2> DEFINE places == {i \in Board : slots[i].quantity > 275}
  <2>1. p = BuffEach(IdsAt(places), 20, 0)
    BY <1>13 DEF ToolProgram, Group, IdsAt
  <2> QED BY <1>6, <1>8, <2>1
<1>14. CASE h = "sinew"
  <2>1. p \in When(Len(OfFamily("BONE")) >= 2,
          {Each(LowestActivity(Others("BONE")), LAMBDA low : Remove1(low))
             \o Each(LowestActivity(Others("BONE")),
                     LAMBDA low : BuffSome("BONE", 1, M(low).activity, 0))})
    BY <1>14 DEF ToolProgram
  <2>2. p = << >> \/
          p = Each(LowestActivity(Others("BONE")), LAMBDA low : Remove1(low))
             \o Each(LowestActivity(Others("BONE")),
                     LAMBDA low : BuffSome("BONE", 1, M(low).activity, 0))
    BY <2>1 DEF When
  <2>3. CASE p = << >>
    BY <1>4, <2>3
  <2>4. CASE p # << >>
    BY <1>3, <2>2, <2>4, SinewBrief
  <2> QED BY <2>3, <2>4
<1>15. CASE h = "tanned_restraint"
  <2>1. p = << >> \/ p = BuffEach(All, 20, 0)
    BY <1>15 DEF ToolProgram, When
  <2> QED BY <1>4, <1>6, <1>7, <2>1
<1>16. CASE h = "pituitary"
  <2>1. p = << >> \/ p \in BuffOne(All, 80, 0)
    BY <1>16 DEF ToolProgram, When
  <2> QED BY <1>4, <1>6, <1>7, <2>1
<1>17. CASE h = "fang"
  <2> DEFINE places == {i \in Board : slots[i].activity > 255}
  <2>1. p = BuffEach(IdsAt(places), 0, 30)
    BY <1>17 DEF ToolProgram, Group, IdsAt
  <2> QED BY <1>6, <1>8, <2>1
<1>18. CASE h = "frontal_lobe"
  <2> DEFINE places == {i \in Board : slots[i].rarity >= Rare}
  <2>1. p \in When(Len(OfFamily("AWAKENER")) >= 2, BuffOne(IdsAt(places), 80, 0))
    BY <1>18 DEF ToolProgram, Group, IdsAt
  <2>2. \A o \in BuffOne(IdsAt(places), 80, 0) : Paid(o, 72, m)
    BY <1>6, <1>8
  <2> QED BY <1>9, <2>1, <2>2
<1>19. CASE h = "rawhide_restraint"
  <2>1. p \in When(Len(OfRarity(Magic)) >= 3, {BuffEach(HighestActivity(All), 0, 100)})
    BY <1>19 DEF ToolProgram
  <2> QED BY <1>6, <1>7, <1>9, <2>1
<1>20. CASE h = "nettle"
  <2>1. p \in When(Len(OfRarity(Normal)) >= 3, {BuffEach(All, 0, 30)})
    BY <1>20 DEF ToolProgram
  <2> QED BY <1>6, <1>7, <1>9, <2>1
<1>21. CASE h = "pupa"
  <2> DEFINE n == Len(OfFamily("INSECT"))
             t == BuffSome(Wild, n, 0, 8)
  <2>1. p = Repeat(n, t)
    BY <1>21 DEF ToolProgram
  <2>2. n \in Nat /\ n <= 6
    BY GroupLists, ListsAreShort
  <2>3. Cheap(t, 12, m)
    BY <1>2, TaskCosts
  <2> HIDE DEF n, t
  <2>4. Brief(p, 6, 12, m)
    BY <2>1, <2>2, <2>3, BriefRepeat
  <2> QED BY <1>3, <2>4
<1>22. CASE h = "statue"
  <2>1. p \in When(turns > 0 /\ turns % 2 = 0,
          {Each(one, LAMBDA i : Awaken(i, Drawn, 1)) :
             one \in OnePerRarity({Normal, Magic, Rare})})
    BY <1>22 DEF ToolProgram
  <2>2. p = << >> \/ \E one \in OnePerRarity({Normal, Magic, Rare}) :
          p = Each(one, LAMBDA i : Awaken(i, Drawn, 1))
    BY <2>1 DEF When
  <2>3. ASSUME NEW one \in OnePerRarity({Normal, Magic, Rare}),
               p = Each(one, LAMBDA i : Awaken(i, Drawn, 1))
        PROVE  Paid(p, 72, m)
    <3>1. one \in Seq(Ids) /\ Len(one) <= 4
      BY OneOfEachFew
    <3>2. p = [i \in DOMAIN one |-> Awaken(one[i], Drawn, 1)]
      BY <2>3 DEF Each
    <3>3. \A i : Cheap(Awaken(i, Drawn, 1), 2, m)
      <4>1. Drawn \in {Drawn} \cup Rarities /\ 1 \in Nat
        OBVIOUS
      <4> QED BY <1>2, <4>1, TaskCosts
    <3>4. p = [i \in DOMAIN one |-> p[i]] /\ \A i \in DOMAIN one : Cheap(p[i], 2, m)
      BY <3>2, <3>3
    <3>5. Brief(p, 4, 2, m)
      BY <3>1, <3>4, BriefEach
    <3> QED BY <1>3, <3>5
  <2> QED BY <1>4, <2>2, <2>3
<1>23. CASE h = "cluster_eggs"
  <2>1. p \in When(Len(OfFamily("INSECT")) >= 3, {<<Add("INSECT", Drawn, 0, 100)>>})
    BY <1>23 DEF ToolProgram
  <2> QED BY <1>9, <1>31, <2>1
<1>24. CASE h = "mouth"
  <2>1. \/ p = <<Add(Wild, Drawn, 0, 0)>>
        \/ p = << >>
        \/ p = <<Overflow>>
        \/ \E eater, prey : p = <<Devour(eater, prey)>>
    BY <1>24 DEF ToolProgram
  <2>2. \A eater, prey : Brief(<<Devour(eater, prey)>>, 1, 2, m)
    BY <1>2, TaskCosts, BriefShort
  <2>3. Brief(<<Overflow>>, 1, 0, m)
    BY <1>2, TaskCosts, BriefShort
  <2> QED BY <1>3, <1>4, <1>31, <2>1, <2>2, <2>3
<1>25. CASE h = "brooding_butterfly"
  <2>1. p \in When(turns > 0 /\ turns % 3 = 0 /\ Len(OfFamily("INSECT")) >= 2,
          {<<Fuse(two, "INSECT", r)>> :
             two \in Picks(OfFamily("INSECT"), 2), r \in RarityOf(Drawn)})
    BY <1>25 DEF ToolProgram
  <2>2. RarityOf(Drawn) \subseteq {Drawn} \cup Rarities
    BY EffectsAssumption DEF RarityOf, Rarities, Normal, Boss
  <2> QED BY <1>9, <1>30, <2>1, <2>2
<1> QED BY <1>1, <1>10, <1>11, <1>12, <1>13, <1>14, <1>15, <1>16, <1>17, <1>18,
           <1>19, <1>20, <1>21, <1>22, <1>23, <1>24, <1>25

\* The rarities that cards and tools name.
LEMMA NamedRarities ==
  /\ Drawn \in {Drawn} \cup Rarities /\ Normal \in {Drawn} \cup Rarities
  /\ Magic \in {Drawn} \cup Rarities /\ Rare \in {Drawn} \cup Rarities
  /\ Boss \in {Drawn} \cup Rarities
BY DEF Drawn, Normal, Magic, Rare, Boss, Rarities

\* The tasks of a card that adds nobody, at any price from that of a mutation.
LEMMA CardCosts ==
  ASSUME NEW m \in 0..3, NEW w \in Nat, 41 <= w
  PROVE  /\ \A id : \A a, q \in Nat : Cheap(Buff(id, a, q), w, m)
         /\ \A id, f : \A r \in {Drawn} \cup Rarities : Cheap(Mutate(id, f, r), w, m)
         /\ \A id : Cheap(Remove1(id), w, m)
         /\ \A id : \A r \in {Drawn} \cup Rarities : \A l \in Nat :
              Cheap(Awaken(id, r, l), w, m)
         /\ \A s, f : \A r \in {Drawn} \cup Rarities : Cheap(Fuse(s, f, r), w, m)
         /\ \A p : \A a, q \in Nat : Cheap(BuffAll(p, a, q), w, m)
         /\ \A p, n : \A a, q \in Nat : Cheap(BuffSome(p, n, a, q), w, m)
         /\ Cheap(Tick, w, m)
<1>1. m \in Nat /\ 0 \in Nat /\ Drawn \in {Drawn} \cup Rarities
      /\ 1 <= w /\ 2 <= w /\ 11 <= w /\ 12 <= w
  OBVIOUS
<1>2. /\ \A id : \A a, q \in Nat : Cheap(Buff(id, a, q), 2, m)
      /\ \A id, f : \A r \in {Drawn} \cup Rarities : Cheap(Mutate(id, f, r), 41, m)
      /\ \A id : Cheap(Remove1(id), 11, m)
  BY <1>1, TaskCosts
<1>3. /\ \A id : \A r \in {Drawn} \cup Rarities : \A l \in Nat :
           Cheap(Awaken(id, r, l), 2, m)
      /\ \A s, f : \A r \in {Drawn} \cup Rarities : Cheap(Fuse(s, f, r), 2, m)
  BY <1>1, TaskCosts
<1>4. /\ \A p : \A a, q \in Nat : Cheap(BuffAll(p, a, q), 12, m)
      /\ \A p, n : \A a, q \in Nat : Cheap(BuffSome(p, n, a, q), 12, m)
      /\ Cheap(Tick, 1, m)
  BY <1>1, TaskCosts
<1>5. \A t : /\ Cheap(t, 1, m) => Cheap(t, w, m)
             /\ Cheap(t, 2, m) => Cheap(t, w, m)
             /\ Cheap(t, 11, m) => Cheap(t, w, m)
             /\ Cheap(t, 12, m) => Cheap(t, w, m)
             /\ Cheap(t, 41, m) => Cheap(t, w, m)
  BY <1>1, CheapMore
<1> QED BY <1>2, <1>3, <1>4, <1>5

\* Changing or removing the monsters of a list.
LEMMA BriefChanges ==
  ASSUME NEW ids, NEW s \in Seq(ids), NEW k \in Nat, Len(s) <= k,
         NEW m \in 0..3, NEW w \in Nat, 41 <= w,
         NEW f, NEW r \in {Drawn} \cup Rarities
  PROVE  /\ Brief([i \in DOMAIN s |-> Mutate(s[i], f, r)], k, w, m)
         /\ Brief(RemoveEach(s), k, w, m)
<1> DEFINE p == [i \in DOMAIN s |-> Mutate(s[i], f, r)]
           q == RemoveEach(s)
<1>1. \A id : Cheap(Mutate(id, f, r), w, m) /\ Cheap(Remove1(id), w, m)
  BY CardCosts
<1>2. p = [i \in DOMAIN s |-> p[i]] /\ \A i \in DOMAIN s : p[i] = Mutate(s[i], f, r)
  OBVIOUS
<1>3. q = [i \in DOMAIN s |-> q[i]] /\ \A i \in DOMAIN s : q[i] = Remove1(s[i])
  BY DEF RemoveEach, Each
<1> HIDE DEF p, q
<1>4. \A i \in DOMAIN s : Cheap(p[i], w, m) /\ Cheap(q[i], w, m)
  BY <1>1, <1>2, <1>3
<1>5. Brief(p, k, w, m)
  BY <1>2, <1>4, BriefEach
<1>6. Brief(q, k, w, m)
  BY <1>3, <1>4, BriefEach
<1> QED BY <1>5, <1>6 DEF p, q

\* Twice as many tasks.
LEMMA BriefTwice ==
  ASSUME NEW n \in Nat, NEW k \in Nat, n <= k, NEW w, NEW m, NEW p,
         p = [i \in 1..(2 * n) |-> p[i]], \A i \in 1..(2 * n) : Cheap(p[i], w, m)
  PROVE  Brief(p, 2 * k, w, m)
<1> DEFINE l == 2 * n
           h == 2 * k
<1>1. l \in Nat /\ h \in Nat /\ l <= h
  OBVIOUS
<1>2. p = [i \in 1..l |-> p[i]] /\ \A i \in 1..l : Cheap(p[i], w, m)
  OBVIOUS
<1> HIDE DEF l, h
<1>3. Brief(p, h, w, m)
  BY <1>1, <1>2, BriefIs
<1> QED BY <1>3 DEF h

\* What a card on a target costs if it takes nobody.
LEMMA TargetCardsPaid ==
  ASSUME Sound(slots, tools, nextId), SlotCount \in Nat, Measured(slots),
         NEW m \in 0..3,
         NEW c \in {"awakening", "mixed_leech", "pure_leech", "sticky_bile",
                    "mutation", "mutagen_powder", "bone_twin_hormone",
                    "insect_twin_hormone", "awaker_anesthetic",
                    "petrified_marrow", "hollow_marrow", "pia_mater",
                    "fiend_anesthetic"},
         NEW t \in LegalTargets(c), NEW p \in CardProgram(c, t)
  PROVE  Paid(p, 290, m)
<1> DEFINE x == t[1]
<1>1. t \in Lists(Ids) /\ x \in Ids /\ t \in Seq(Ids)
  <2>1. Targets(c) # {0}
    BY DEF Targets
  <2>2. t \in Lists(Ids) /\ x \in Ids
    BY <2>1, TargetsAre
  <2> QED BY <2>2, ListIs
<1>2. Len(t) <= 2 /\ (c \notin {"mutation", "mutagen_powder"} => Len(t) <= 1)
  <2>1. PICK n \in Targets(c) : t \in [1..n -> Ids]
    BY DEF LegalTargets
  <2>2. n \in 1..2 /\ (c \notin {"mutation", "mutagen_powder"} => n = 1)
    BY <2>1 DEF Targets
  <2>3. Len(t) = n
    BY <1>1, <2>1, <2>2
  <2> QED BY <2>2, <2>3
<1> HIDE DEF x
<1>3. m \in Nat /\ 54 \in Nat /\ 41 \in Nat /\ 41 <= 54 /\ 41 <= 41 /\ 2 <= 54 /\ 2 <= 41
      /\ 1 \in Nat /\ 2 \in Nat
  OBVIOUS
<1>4. \A o : /\ Brief(o, 6, 41, m) => Paid(o, 290, m)
             /\ Brief(o, 1, 54, m) => Paid(o, 290, m)
             /\ Brief(o, 2, 54, m) => Paid(o, 290, m)
             /\ Brief(o, 3, 54, m) => Paid(o, 290, m)
             /\ Brief(o, 4, 54, m) => Paid(o, 290, m)
  BY <1>3, BriefPaid
<1>5. /\ \A id : \A a, q \in Nat : Cheap(Buff(id, a, q), 54, m)
      /\ \A id, f : \A r \in {Drawn} \cup Rarities : Cheap(Mutate(id, f, r), 54, m)
      /\ \A id : \A r \in {Drawn} \cup Rarities : \A l \in Nat :
           Cheap(Awaken(id, r, l), 54, m)
      /\ Cheap(Tick, 54, m) /\ Cheap(Tick, 41, m)
  BY <1>3, CardCosts
<1>6. Cheap(AddTwin(x), 54, m)
  BY <1>3, NamedRarities, TaskCosts
<1>7. \A s \in Seq(Ids) : \A k \in Nat : Len(s) <= k => \A a, q \in Nat :
        Brief(BuffEach(s, a, q), k, 54, m) /\ Brief(BuffEach(s, a, q), k, 41, m)
  BY <1>3, BriefBuffs
<1>8. \A s \in Seq(Ids) : \A k \in Nat : Len(s) <= k =>
        \A f : \A r \in {Drawn} \cup Rarities :
          /\ Brief([i \in DOMAIN s |-> Mutate(s[i], f, r)], k, 54, m)
          /\ Brief([i \in DOMAIN s |-> Mutate(s[i], f, r)], k, 41, m)
  BY <1>3, BriefChanges, ZenonT(60)
<1>9. Brief(<<Tick>>, 1, 41, m)
  BY <1>5, BriefShort
<1>10. CASE c = "awakening"
  <2>1. p = <<Tick, Awaken(x, Drawn, 1)>>
    BY <1>10 DEF CardProgram, Schemes, x
  <2>2. Cheap(Awaken(x, Drawn, 1), 54, m)
    BY <1>3, <1>5, NamedRarities
  <2>3. Brief(p, 2, 54, m)
    BY <1>5, <2>1, <2>2, BriefShort
  <2> QED BY <1>4, <2>3
<1>30. ASSUME NEW group \in Lists(Ids), NEW one \in Picks(group, 1),
              p = BuffEach(t \o one, 31, 0), Len(t) <= 1
       PROVE  Paid(p, 290, m)
  <2>1. one \in Seq(Ids) /\ Len(one) <= 1
    BY PicksPart, ChosenFew, ListIs
  <2>2. t \o one \in Seq(Ids) /\ Len(t \o one) <= 1 + 1
    BY <1>1, <1>3, <1>30, <2>1, JoinShort
  <2>3. 1 + 1 = 2 /\ 31 \in Nat /\ 0 \in Nat
    OBVIOUS
  <2>4. Brief(BuffEach(t \o one, 31, 0), 2, 54, m)
    BY <1>3, <1>7, <2>2, <2>3
  <2> QED BY <1>4, <1>30, <2>4
<1>11. CASE c = "mixed_leech"
  <2> DEFINE group == Without(OfRarity(M(x).rarity), x)
  <2>1. PICK one \in Picks(group, 1) : p = BuffEach(t \o one, 31, 0)
    BY <1>11 DEF CardProgram, Schemes, x
  <2>2. group \in Lists(Ids)
    BY GroupLists, ChosenPart
  <2> HIDE DEF group
  <2> QED BY <1>2, <1>11, <1>30, <2>1, <2>2
<1>12. CASE c = "pure_leech"
  <2> DEFINE group == Without(OfFamily(M(x).family), x)
  <2>1. PICK one \in Picks(group, 1) : p = BuffEach(t \o one, 31, 0)
    BY <1>12 DEF CardProgram, Schemes, x
  <2>2. group \in Lists(Ids)
    BY GroupLists, ChosenPart
  <2> HIDE DEF group
  <2> QED BY <1>2, <1>12, <1>30, <2>1, <2>2
<1>13. CASE c = "sticky_bile"
  <2> DEFINE right == RightOf(x)
             changes == [i \in DOMAIN right |->
                           Mutate(right[i], M(x).family, M(x).rarity)]
  <2>1. p = changes \o BuffEach(t \o right, 31, 0)
    BY <1>13 DEF CardProgram, Schemes, Each, x
  <2>2. right \in Seq(Ids) /\ Len(right) <= 1
    <3>1. right \in Seq(Ids)
      BY <1>1, Neighbours, ListIs
    <3>2. Len(right) <= 1
      BY DEF RightOf
    <3> QED BY <3>1, <3>2
  <2>3. M(x).rarity \in {Drawn} \cup Rarities
    BY <1>1, MeasuredIds
  <2>4. Brief(changes, 1, 54, m)
    BY <1>3, <1>8, <2>2, <2>3
  <2> HIDE DEF changes, right
  <2>5. t \o right \in Seq(Ids) /\ Len(t \o right) <= 1 + 1
    BY <1>1, <1>2, <1>3, <1>13, <2>2, JoinShort
  <2>6. 1 + 1 = 2 /\ 31 \in Nat /\ 0 \in Nat /\ 1 + 2 = 3
    OBVIOUS
  <2>7. Brief(BuffEach(t \o right, 31, 0), 2, 54, m)
    BY <1>3, <1>7, <2>5, <2>6
  <2>8. Brief(p, 1 + 2, 54, m)
    BY <1>3, <2>1, <2>4, <2>7, BriefJoin
  <2> QED BY <1>4, <2>6, <2>8
<1>31. ASSUME NEW u, NEW v, Brief(u, 2, 41, m), Brief(v, 2, 41, m),
              p = <<Tick>> \o u \o <<Tick>> \o v
       PROVE  Paid(p, 290, m)
  <2>1. Brief(<<Tick>> \o u, 1 + 2, 41, m)
    BY <1>3, <1>9, <1>31, BriefJoin
  <2>2. Brief(<<Tick>> \o u \o <<Tick>>, (1 + 2) + 1, 41, m)
    BY <1>3, <1>9, <2>1, BriefJoin
  <2>3. Brief(<<Tick>> \o u \o <<Tick>> \o v, ((1 + 2) + 1) + 2, 41, m)
    BY <1>3, <1>31, <2>2, BriefJoin
  <2>4. ((1 + 2) + 1) + 2 = 6
    OBVIOUS
  <2> QED BY <1>4, <1>31, <2>3, <2>4
<1>14. CASE c = "mutation"
  <2> DEFINE changes == [i \in DOMAIN t |-> Mutate(t[i], Wild, Magic)]
  <2>1. p = <<Tick>> \o changes \o <<Tick>> \o BuffEach(t, 31, 0)
    BY <1>14 DEF CardProgram, Schemes, Each
  <2>2. Brief(changes, 2, 41, m) /\ Brief(BuffEach(t, 31, 0), 2, 41, m)
    BY <1>1, <1>2, <1>3, <1>7, <1>8, NamedRarities, ZenonT(60)
  <2> HIDE DEF changes
  <2> QED BY <1>31, <2>1, <2>2
<1>15. CASE c = "mutagen_powder"
  <2> DEFINE changes == [i \in DOMAIN t |-> Mutate(t[i], Wild, Rare)]
             buffs == BuffEach(t, 0, 52)
  <2>1. p = <<Tick>> \o buffs \o <<Tick>> \o changes
    BY <1>15 DEF CardProgram, Schemes, Each
  <2>2. Brief(changes, 2, 41, m) /\ Brief(buffs, 2, 41, m)
    BY <1>1, <1>2, <1>3, <1>7, <1>8, NamedRarities, ZenonT(60)
  <2> HIDE DEF changes, buffs
  <2> QED BY <1>31, <2>1, <2>2
<1>16. CASE c = "bone_twin_hormone"
  <2>1. p = <<Tick, Mutate(x, "BONE", Drawn), Tick, Buff(x, 0, 62)>>
    BY <1>16 DEF CardProgram, Schemes, x
  <2>2. Cheap(Mutate(x, "BONE", Drawn), 54, m) /\ Cheap(Buff(x, 0, 62), 54, m)
    BY <1>5, NamedRarities
  <2>3. Brief(p, 4, 54, m)
    BY <1>5, <2>1, <2>2, BriefShort
  <2> QED BY <1>4, <2>3
<1>17. CASE c = "insect_twin_hormone"
  <2>1. p = <<Mutate(x, "INSECT", Drawn), AddTwin(x)>>
    BY <1>17 DEF CardProgram, Schemes, x
  <2>2. Cheap(Mutate(x, "INSECT", Drawn), 54, m)
    BY <1>5, NamedRarities
  <2>3. Brief(p, 2, 54, m)
    BY <1>6, <2>1, <2>2, BriefShort
  <2> QED BY <1>4, <2>3
<1>18. CASE c = "awaker_anesthetic"
  <2>1. p = <<Mutate(x, "AWAKENER", Drawn), Awaken(x, Magic, 0)>>
    BY <1>18 DEF CardProgram, Schemes, x
  <2>2. Cheap(Mutate(x, "AWAKENER", Drawn), 54, m) /\ Cheap(Awaken(x, Magic, 0), 54, m)
    BY <1>5, NamedRarities
  <2>3. Brief(p, 2, 54, m)
    BY <2>1, <2>2, BriefShort
  <2> QED BY <1>4, <2>3
<1>32. ASSUME NEW a \in Nat, NEW rest, Brief(rest, 2, 54, m),
              p = <<Buff(x, a, 0)>> \o rest
       PROVE  Paid(p, 290, m)
  <2>1. Cheap(Buff(x, a, 0), 54, m)
    BY <1>5
  <2>2. Brief(<<Buff(x, a, 0)>>, 1, 54, m)
    BY <2>1, BriefShort
  <2>3. Brief(p, 1 + 2, 54, m)
    BY <1>3, <1>32, <2>2, BriefJoin
  <2>4. 1 + 2 = 3
    OBVIOUS
  <2> QED BY <1>4, <2>3, <2>4
<1>19. CASE c = "petrified_marrow"
  <2> DEFINE rest == IF M(x).family = "FIEND" THEN << >>
                     ELSE <<Mutate(x, "FIEND", Drawn), Buff(x, 30, 0)>>
  <2>1. p = <<Buff(x, 20, 0)>> \o rest
    BY <1>19 DEF CardProgram, Schemes, x
  <2>2. Cheap(Mutate(x, "FIEND", Drawn), 54, m) /\ Cheap(Buff(x, 30, 0), 54, m)
    BY <1>5, NamedRarities
  <2>3. Brief(<<Mutate(x, "FIEND", Drawn), Buff(x, 30, 0)>>, 2, 54, m)
    BY <2>2, BriefShort
  <2>4. Brief(<< >>, 0, 54, m)
    BY BriefShort
  <2>5. Brief(<< >>, 2, 54, m)
    BY <2>4, BriefMore
  <2>6. Brief(rest, 2, 54, m)
    BY <2>3, <2>5
  <2> HIDE DEF rest
  <2> QED BY <1>32, <2>1, <2>6
<1>20. CASE c = "hollow_marrow"
  <2>1. p = <<Buff(x, 41, 0)>> \/ p = <<Buff(x, 41, 0), Mutate(x, "FIEND", Drawn)>>
    BY <1>20 DEF CardProgram, Schemes, x
  <2>2. Cheap(Mutate(x, "FIEND", Drawn), 54, m) /\ Cheap(Buff(x, 41, 0), 54, m)
    BY <1>5, NamedRarities
  <2>3. Brief(p, 1, 54, m) \/ Brief(p, 2, 54, m)
    BY <2>1, <2>2, BriefShort
  <2> QED BY <1>4, <2>3
<1>21. CASE c = "pia_mater"
  <2> DEFINE n == IF M(x).family # "AWAKENER" \/ M(x).rarity = Normal THEN 1
                  ELSE IF M(x).rarity = Magic THEN 2 ELSE 3
  <2>1. p = Repeat(n, Buff(x, 30, 0))
    BY <1>21 DEF CardProgram, Schemes, x
  <2>2. n \in Nat /\ n <= 3
    OBVIOUS
  <2> HIDE DEF n
  <2>3. Cheap(Buff(x, 30, 0), 54, m)
    BY <1>5
  <2>4. Brief(p, 3, 54, m)
    BY <2>1, <2>2, <2>3, BriefRepeat
  <2> QED BY <1>4, <2>4
<1>22. CASE c = "fiend_anesthetic"
  <2>1. PICK more \in {<< >>} \cup Picks(All, 1) :
          p = <<Mutate(x, "FIEND", Drawn)>>
                \o [i \in DOMAIN more |-> Mutate(more[i], "FIEND", Drawn)]
    BY <1>22 DEF CardProgram, Schemes, Each, x
  <2>2. more \in Seq(Ids) /\ Len(more) <= 1
    <3>1. << >> \in Seq(Ids) /\ Len(<< >>) <= 1 /\ All \in Lists(Ids)
      BY GroupLists
    <3>2. \A o \in Picks(All, 1) : o \in Seq(Ids) /\ Len(o) <= 1
      BY <3>1, PicksPart, ChosenFew, ListIs
    <3>3. CASE more = << >>
      BY <3>1, <3>3
    <3>4. CASE more \in Picks(All, 1)
      BY <3>2, <3>4
    <3> QED BY <2>1, <3>3, <3>4
  <2> DEFINE rest == [i \in DOMAIN more |-> Mutate(more[i], "FIEND", Drawn)]
  <2>3. Brief(rest, 1, 54, m)
    BY <1>3, <1>8, <2>2, NamedRarities
  <2>4. Cheap(Mutate(x, "FIEND", Drawn), 54, m)
    BY <1>5, NamedRarities
  <2>5. Brief(<<Mutate(x, "FIEND", Drawn)>>, 1, 54, m)
    BY <2>4, BriefShort
  <2>6. p = <<Mutate(x, "FIEND", Drawn)>> \o rest
    BY <2>1
  <2> HIDE DEF rest
  <2>7. Brief(p, 1 + 1, 54, m)
    BY <1>3, <2>3, <2>5, <2>6, BriefJoin
  <2>8. 1 + 1 = 2
    OBVIOUS
  <2> QED BY <1>4, <2>7, <2>8
<1> QED BY <1>10, <1>11, <1>12, <1>13, <1>14, <1>15, <1>16, <1>17, <1>18, <1>19,
           <1>20, <1>21, <1>22

\* A task for each monster of a list, each followed by another task.
LEMMA BriefAndThen ==
  ASSUME NEW ids, NEW s \in Seq(ids), NEW k \in Nat, Len(s) <= k, NEW w, NEW m,
         NEW p, NEW after, Cheap(after, w, m),
         p = [i \in 1..(2 * Len(s)) |-> p[i]],
         \A i \in 1..(2 * Len(s)) : p[i] = after \/ Cheap(p[i], w, m)
  PROVE  Brief(p, 2 * k, w, m)
<1> DEFINE n == Len(s)
<1>1. n \in Nat /\ n <= k
  OBVIOUS
<1>2. p = [i \in 1..(2 * n) |-> p[i]] /\ \A i \in 1..(2 * n) : Cheap(p[i], w, m)
  OBVIOUS
<1> HIDE DEF n
<1> QED BY <1>1, <1>2, BriefTwice

\* What a card without a target costs if it takes nobody.
LEMMA DrawCardsPaid ==
  ASSUME Sound(slots, tools, nextId), SlotCount \in Nat, SlotCount <= 6,
         Ids # {}, Measured(slots), NEW m \in 0..3,
         NEW c \in Schemes \cup {
               "gray_marrow", "awaker_fluid", "fiend_fluid", "insect_powder",
               "bone_powder", "holy_water", "waking_salts",
               "fresh_marrow_powder", "brood_hormone", "proliferation_powder",
               "eggshell_powder", "brain_fog", "insect_boost", "lure"},
         NEW t \in LegalTargets(c), NEW p \in CardProgram(c, t)
  PROVE  Paid(p, 290, m)
<1>1. All \in Lists(Ids) /\ OfFamily("AWAKENER") \in Lists(Ids)
      /\ OfFamily("INSECT") \in Lists(Ids) /\ Others("FIEND") \in Lists(Ids)
  BY GroupLists
<1>2. \A s \in Lists(Ids) : s \in Seq(Ids) /\ Len(s) \in Nat /\ Len(s) <= 6
  BY ListsAreShort, ListIs
<1>3. m \in Nat /\ 54 \in Nat /\ 41 \in Nat /\ 41 <= 54 /\ 41 <= 41 /\ 2 <= 54 /\ 2 <= 41
      /\ 1 \in Nat /\ 2 \in Nat /\ 0 \in Nat
  OBVIOUS
<1>4. \A o : /\ Brief(o, 6, 41, m) => Paid(o, 290, m)
             /\ Brief(o, 0, 54, m) => Paid(o, 290, m)
             /\ Brief(o, 1, 54, m) => Paid(o, 290, m)
             /\ Brief(o, 2, 54, m) => Paid(o, 290, m)
             /\ Brief(o, 3, 54, m) => Paid(o, 290, m)
             /\ Brief(o, 4, 54, m) => Paid(o, 290, m)
             /\ Brief(o, 1, 2, m) => Paid(o, 290, m)
  BY <1>3, BriefPaid
<1>5. /\ \A id : \A a, q \in Nat : Cheap(Buff(id, a, q), 54, m)
      /\ \A id, f : \A r \in {Drawn} \cup Rarities :
           Cheap(Mutate(id, f, r), 54, m) /\ Cheap(Mutate(id, f, r), 41, m)
      /\ \A id : \A r \in {Drawn} \cup Rarities : \A l \in Nat :
           Cheap(Awaken(id, r, l), 54, m) /\ Cheap(Awaken(id, r, l), 41, m)
      /\ Cheap(Tick, 54, m) /\ Cheap(Tick, 41, m)
  BY <1>3, CardCosts
<1>6. \A f : \A r \in {Drawn} \cup Rarities : \A a, q \in Nat :
        Cheap(Add(f, r, a, q), 54, m)
  BY <1>3, TaskCosts
<1>7. \A s \in Seq(Ids) : \A k \in Nat : Len(s) <= k => \A a, q \in Nat :
        Brief(BuffEach(s, a, q), k, 54, m) /\ Brief(BuffEach(s, a, q), k, 41, m)
  BY <1>3, BriefBuffs
<1>8. Brief(<< >>, 0, 54, m) /\ Brief(<< >>, 1, 54, m)
  <2>1. Brief(<< >>, 0, 54, m)
    BY BriefShort
  <2> QED BY <1>3, <2>1, BriefMore
<1>10. CASE c \in Schemes
  <2>1. p = << >>
    BY <1>10 DEF CardProgram, Schemes
  <2> QED BY <1>4, <1>8, <2>1, SMTT(60)
<1>11. CASE c = "gray_marrow"
  <2>1. PICK one \in Picks(All, 1) :
          \/ p = <<Buff(one[1], 41, 0), Mutate(one[1], Wild, Drawn)>>
          \/ p = <<Buff(one[1], 41, 0), Mutate(one[1], Wild, Drawn),
                   Mutate(one[1], "FIEND", Drawn), Buff(one[1], 30, 0)>>
    BY <1>11 DEF CardProgram, Schemes
  <2>2. /\ Cheap(Buff(one[1], 41, 0), 54, m) /\ Cheap(Buff(one[1], 30, 0), 54, m)
        /\ Cheap(Mutate(one[1], Wild, Drawn), 54, m)
        /\ Cheap(Mutate(one[1], "FIEND", Drawn), 54, m)
    BY <1>5, NamedRarities
  <2>3. Brief(p, 2, 54, m) \/ Brief(p, 4, 54, m)
    BY <2>1, <2>2, BriefShort
  <2> QED BY <1>4, <2>3
<1>12. CASE c \in {"awaker_fluid", "fiend_fluid", "insect_powder", "bone_powder"}
  <2>1. \E f : \E a, q \in Nat : p = <<Tick, Add(f, Drawn, a, q)>>
    <3>1. \/ p = <<Tick, Add("AWAKENER", Drawn, 31, 0)>>
          \/ p = <<Tick, Add("FIEND", Drawn, 31, 0)>>
          \/ p = <<Tick, Add("INSECT", Drawn, 0, 73)>>
          \/ p = <<Tick, Add("BONE", Drawn, 0, 73)>>
      BY <1>12 DEF CardProgram, Schemes
    <3>2. 31 \in Nat /\ 73 \in Nat
      OBVIOUS
    <3> QED BY <1>3, <3>1, <3>2
  <2>2. PICK f : \E a, q \in Nat : p = <<Tick, Add(f, Drawn, a, q)>>
    BY <2>1
  <2>3. PICK a \in Nat, q \in Nat : p = <<Tick, Add(f, Drawn, a, q)>>
    BY <2>2
  <2>4. Cheap(Add(f, Drawn, a, q), 54, m)
    BY <1>6, NamedRarities
  <2>5. Brief(p, 2, 54, m)
    BY <1>5, <2>3, <2>4, BriefShort
  <2> QED BY <1>4, <2>5
<1>13. CASE c = "holy_water"
  <2> DEFINE s == OfFamily("AWAKENER")
  <2>1. p = [i \in DOMAIN s |-> IF M(s[i]).rarity = Boss
                                THEN Awaken(s[i], Boss, 0)
                                ELSE Awaken(s[i], Drawn, 2)]
    BY <1>13 DEF CardProgram, Schemes, Each
  <2>2. s \in Seq(Ids) /\ Len(s) <= 6
    BY <1>1, <1>2
  <2> HIDE DEF s
  <2>3. \A id : Cheap(Awaken(id, Boss, 0), 41, m) /\ Cheap(Awaken(id, Drawn, 2), 41, m)
    BY <1>3, <1>5, NamedRarities
  <2>4. p = [i \in DOMAIN s |-> p[i]] /\ \A i \in DOMAIN s : Cheap(p[i], 41, m)
    BY <2>1, <2>3
  <2>5. Brief(p, 6, 41, m)
    BY <2>2, <2>4, BriefEach
  <2> QED BY <1>4, <2>5
<1>14. CASE c = "waking_salts"
  <2>1. p \in BuffOne(All, 111, 111)
    BY <1>14 DEF CardProgram, Schemes
  <2>2. 111 \in Nat
    OBVIOUS
  <2>3. Brief(p, 1, 2, m)
    BY <1>1, <2>1, <2>2, BuffsBrief
  <2> QED BY <1>4, <2>3
<1>15. CASE c = "fresh_marrow_powder"
  <2>1. PICK new \in Samples(Others("FIEND"), 3) :
          p = [k \in 1..(2 * Len(new)) |->
                 IF k % 2 = 1 THEN Mutate(new[(k + 1) \div 2], "FIEND", Drawn)
                 ELSE BuffSome("FIEND", 3, 0, 42)]
    BY <1>15 DEF CardProgram, Schemes, EachThen
  <2>2. new \in Seq(Ids) /\ Len(new) <= 3 /\ 3 \in Nat
    <3> DEFINE from == Others("FIEND")
    <3>1. 3 \in Nat /\ from \in Lists(Ids) /\ new \in Samples(from, 3)
      BY <1>1, <2>1
    <3> HIDE DEF from
    <3>2. new \in Lists(Ids) /\ Len(new) = Size(from, 3)
      BY <3>1, SamplesPart
    <3>3. Size(from, 3) <= 3
      BY <3>1, ChosenFew
    <3> QED BY <3>1, <3>2, <3>3, ListIs
  <2>3. Cheap(BuffSome("FIEND", 3, 0, 42), 41, m)
    <3>1. 42 \in Nat
      OBVIOUS
    <3> QED BY <1>3, <3>1, CardCosts
  <2>4. \A id : Cheap(Mutate(id, "FIEND", Drawn), 41, m)
    BY <1>5, NamedRarities
  <2>5. \A i \in 1..(2 * Len(new)) :
          p[i] = BuffSome("FIEND", 3, 0, 42) \/ Cheap(p[i], 41, m)
    BY <2>1, <2>4
  <2>6. p = [i \in 1..(2 * Len(new)) |-> p[i]]
    BY <2>1
  <2>7. Brief(p, 2 * 3, 41, m)
    BY <2>2, <2>3, <2>5, <2>6, BriefAndThen, ZenonT(60)
  <2>8. 2 * 3 = 6
    OBVIOUS
  <2> QED BY <1>4, <2>7, <2>8
<1>16. CASE c = "brood_hormone"
  <2>1. PICK n \in {1, 3} : p = Repeat(n, Add("INSECT", Drawn, 0, 0))
    BY <1>16 DEF CardProgram, Schemes
  <2>2. n \in Nat /\ n <= 3
    OBVIOUS
  <2>3. Cheap(Add("INSECT", Drawn, 0, 0), 54, m)
    BY <1>3, <1>6, NamedRarities
  <2>4. Brief(p, 3, 54, m)
    BY <2>1, <2>2, <2>3, BriefRepeat
  <2> QED BY <1>4, <2>4
<1>17. CASE c = "proliferation_powder"
  <2>1. PICK chosen \in OnePerRarity(Rarities) : p = BuffEach(chosen, 0, 32)
    BY <1>17 DEF CardProgram, Schemes
  <2>2. chosen \in Seq(Ids) /\ Len(chosen) <= 4
    BY OneOfEachFew
  <2>3. 4 \in Nat /\ 32 \in Nat
    OBVIOUS
  <2>4. Brief(p, 4, 54, m)
    BY <1>3, <1>7, <2>1, <2>2, <2>3
  <2> QED BY <1>4, <2>4
<1>30. ASSUME NEW first, NEW rest, Cheap(first, 54, m),
              rest = << >> \/ \E u : rest = <<u>> /\ Cheap(u, 54, m),
              p = <<first>> \o rest
       PROVE  Paid(p, 290, m)
  <2>1. Brief(<<first>>, 1, 54, m)
    BY <1>30, BriefShort
  <2>2. Brief(rest, 1, 54, m)
    BY <1>8, <1>30, BriefShort
  <2>3. Brief(<<first>> \o rest, 1 + 1, 54, m)
    BY <1>3, <2>1, <2>2, BriefJoin
  <2>4. 1 + 1 = 2
    OBVIOUS
  <2> QED BY <1>4, <1>30, <2>3, <2>4
<1>18. CASE c = "eggshell_powder"
  <2>1. PICK one \in Picks(All, 1) :
          p = <<Buff(one[1], 0, 25)>> \o
                (IF M(one[1]).family # "INSECT" THEN << >>
                 ELSE <<Add("INSECT", M(one[1]).rarity, 0, 25)>>)
    BY <1>18 DEF CardProgram, Schemes
  <2>2. 25 \in Nat /\ one[1] \in Ids
    BY OneOfAll
  <2>3. M(one[1]).rarity \in {Drawn} \cup Rarities
    BY <2>2, MeasuredIds
  <2> DEFINE rest == IF M(one[1]).family # "INSECT" THEN << >>
                     ELSE <<Add("INSECT", M(one[1]).rarity, 0, 25)>>
  <2>4. Cheap(Add("INSECT", M(one[1]).rarity, 0, 25), 54, m)
        /\ Cheap(Buff(one[1], 0, 25), 54, m)
    BY <1>3, <1>5, <1>6, <2>2, <2>3
  <2>5. rest = << >> \/ \E u : rest = <<u>> /\ Cheap(u, 54, m)
    BY <2>4
  <2>6. p = <<Buff(one[1], 0, 25)>> \o rest
    BY <2>1
  <2> HIDE DEF rest
  <2> QED BY <1>30, <2>4, <2>5, <2>6
<1>19. CASE c = "brain_fog"
  <2>1. PICK one \in Picks(All, 1) :
          p = <<Buff(one[1], 41, 0)>> \o
                (IF M(one[1]).family # "AWAKENER" THEN << >>
                 ELSE <<Awaken(one[1], Rare, 0)>>)
    BY <1>19 DEF CardProgram, Schemes
  <2> DEFINE rest == IF M(one[1]).family # "AWAKENER" THEN << >>
                     ELSE <<Awaken(one[1], Rare, 0)>>
  <2>4. Cheap(Awaken(one[1], Rare, 0), 54, m) /\ Cheap(Buff(one[1], 41, 0), 54, m)
    BY <1>3, <1>5, NamedRarities
  <2>5. rest = << >> \/ \E u : rest = <<u>> /\ Cheap(u, 54, m)
    BY <2>4
  <2>6. p = <<Buff(one[1], 41, 0)>> \o rest
    BY <2>1
  <2> HIDE DEF rest
  <2> QED BY <1>30, <2>4, <2>5, <2>6
<1>20. CASE c = "insect_boost"
  <2> DEFINE n == Len(OfFamily("INSECT"))
  <2>1. p = BuffEach(OfFamily("INSECT"), 11 * n, 0)
    BY <1>20 DEF CardProgram, Schemes
  <2>2. n \in Nat /\ n <= 6 /\ OfFamily("INSECT") \in Seq(Ids)
    BY <1>1, <1>2
  <2>3. 11 * n \in Nat /\ 6 \in Nat
    BY <2>2
  <2>4. Brief(p, 6, 41, m)
    BY <1>3, <1>7, <2>1, <2>2, <2>3
  <2> QED BY <1>4, <2>4
<1>21. CASE c = "lure"
  <2> DEFINE task == [Add("INSECT", Drawn, 0, 0) EXCEPT
                        !.spill = <<BuffAll("INSECT", 10, 10)>>]
  <2>1. p = Repeat(4, task)
    BY <1>21 DEF CardProgram, Schemes
  <2>2. Cheap(task, 54, m)
    BY <1>3, NamedRarities, TaskCosts
  <2> HIDE DEF task
  <2>3. Brief(p, 4, 54, m)
    BY <2>1, <2>2, BriefRepeat
  <2> QED BY <1>4, <2>3
<1> QED BY <1>10, <1>11, <1>12, <1>13, <1>14, <1>15, <1>16, <1>17, <1>18, <1>19,
           <1>20, <1>21

\* A card that takes monsters costs little more than its additions.
LEMMA TakingCardsPaid ==
  ASSUME Sound(slots, tools, nextId), SlotCount \in Nat, SlotCount <= 6,
         Measured(slots), NEW m \in 0..3,
         NEW c \in {"bone_ointment", "peat_dressing", "alien_hormone",
                    "targeted_alien_hormone", "will_powder",
                    "strong_will_powder", "cleansing_ointment", "digestive",
                    "fusion", "bone_growth_powder"},
         NEW t \in LegalTargets(c), NEW p \in CardProgram(c, t)
  PROVE  Paid(p, 290, m)
<1> DEFINE x == t[1]
<1>1. t \in Lists(Ids) /\ t \in Seq(Ids)
  BY TargetsAre, ListIs
<1>2. c \notin {"bone_ointment", "peat_dressing", "bone_growth_powder"} =>
        x \in Ids /\ Len(t) <= 2
  <2> SUFFICES ASSUME c \notin {"bone_ointment", "peat_dressing", "bone_growth_powder"}
               PROVE  x \in Ids /\ Len(t) <= 2
    OBVIOUS
  <2>1. Targets(c) # {0} /\ Targets(c) \subseteq 1..2
    BY DEF Targets
  <2>2. PICK n \in Targets(c) : t \in [1..n -> Ids]
    BY DEF LegalTargets
  <2>3. n \in 1..2 /\ Len(t) = n
    BY <1>1, <2>1, <2>2
  <2> QED BY <2>1, <2>3, TargetsAre
<1> HIDE DEF x
<1>3. m \in Nat /\ 0 \in Nat /\ 1 \in Nat /\ 2 \in Nat /\ 3 \in Nat /\ 4 \in Nat
      /\ 5 \in Nat /\ 6 \in Nat /\ 12 \in Nat /\ 11 \in Nat /\ 290 \in Nat
      /\ 11 <= 12 /\ 2 <= 12 /\ 1 <= 12 /\ Drawn \in {Drawn} \cup Rarities
  OBVIOUS
<1>4. \A o : /\ Brief(o, 12, 12, m) => Paid(o, 290, m)
             /\ Brief(o, 5, 12, m) => Paid(o, 290, m)
  BY <1>3, BriefPaid
<1>5. /\ \A id : \A a, q \in Nat : Cheap(Buff(id, a, q), 12, m)
      /\ \A id : Cheap(Remove1(id), 12, m)
      /\ Cheap(Tick, 12, m)
      /\ \A g : \A a, q \in Nat : Cheap(BuffAll(g, a, q), 12, m)
      /\ \A s, f : Cheap(Fuse(s, f, Drawn), 12, m)
  <2>1. /\ \A id : \A a, q \in Nat : Cheap(Buff(id, a, q), 2, m)
        /\ \A id : Cheap(Remove1(id), 11, m)
        /\ Cheap(Tick, 1, m)
        /\ \A g : \A a, q \in Nat : Cheap(BuffAll(g, a, q), 12, m)
        /\ \A s, f : Cheap(Fuse(s, f, Drawn), 2, m)
    BY <1>3, TaskCosts, ZenonT(60)
  <2>2. \A o : /\ Cheap(o, 1, m) => Cheap(o, 12, m)
               /\ Cheap(o, 2, m) => Cheap(o, 12, m)
               /\ Cheap(o, 11, m) => Cheap(o, 12, m)
    BY <1>3, CheapMore
  <2> QED BY <2>1, <2>2
<1>6. \A s \in Seq(Ids) : \A k \in Nat : Len(s) <= k =>
        Brief(RemoveEach(s), k, 12, m)
  <2> SUFFICES ASSUME NEW s \in Seq(Ids), NEW k \in Nat, Len(s) <= k
               PROVE  Brief(RemoveEach(s), k, 12, m)
    OBVIOUS
  <2> DEFINE r == RemoveEach(s)
  <2>1. r = [i \in DOMAIN s |-> r[i]] /\ \A i \in DOMAIN s : r[i] = Remove1(s[i])
    BY DEF RemoveEach, Each
  <2> HIDE DEF r
  <2>2. Brief(r, k, 12, m)
    BY <1>5, <2>1, BriefEach
  <2> QED BY <2>2 DEF r
<1>7. \A s \in Lists(Ids) : \A after : Cheap(after, 12, m)
        /\ p = EachThen(s, LAMBDA id : Remove1(id), after) => Paid(p, 290, m)
  <2> SUFFICES ASSUME NEW s \in Lists(Ids), NEW after, Cheap(after, 12, m),
                      p = EachThen(s, LAMBDA id : Remove1(id), after)
               PROVE  Paid(p, 290, m)
    OBVIOUS
  <2>1. s \in Seq(Ids) /\ Len(s) <= 6
    BY ListsAreShort, ListIs
  <2>2. /\ p = [i \in 1..(2 * Len(s)) |-> p[i]]
        /\ \A i \in 1..(2 * Len(s)) :
             p[i] = after \/ p[i] = Remove1(s[(i + 1) \div 2])
    BY DEF EachThen
  <2>3. \A i \in 1..(2 * Len(s)) : p[i] = after \/ Cheap(p[i], 12, m)
    BY <1>5, <2>2
  <2>4. Brief(p, 2 * 6, 12, m)
    BY <1>3, <2>1, <2>2, <2>3, BriefAndThen, ZenonT(60)
  <2>5. 2 * 6 = 12
    OBVIOUS
  <2> QED BY <1>4, <2>4, <2>5
<1>8. \A a, q \in Nat : \A s \in Seq(Ids) : Len(s) <= 2
        /\ p = <<Buff(x, a, q)>> \o RemoveEach(s) => Paid(p, 290, m)
  <2> SUFFICES ASSUME NEW a \in Nat, NEW q \in Nat, NEW s \in Seq(Ids),
                      Len(s) <= 2, p = <<Buff(x, a, q)>> \o RemoveEach(s)
               PROVE  Paid(p, 290, m)
    OBVIOUS
  <2> DEFINE o == <<Buff(x, a, q)>>
             r == RemoveEach(s)
  <2>1. Brief(o, 1, 12, m)
    BY <1>5, BriefShort
  <2>2. Brief(r, 4, 12, m)
    BY <1>3, <1>6
  <2>3. 1 + 4 = 5
    OBVIOUS
  <2>4. p = o \o r
    OBVIOUS
  <2> HIDE DEF o, r
  <2>5. Brief(o \o r, 1 + 4, 12, m)
    BY <1>3, <2>1, <2>2, BriefJoin
  <2> QED BY <1>4, <2>3, <2>4, <2>5
<1>9. \A f \in Families : Others(f) \in Lists(Ids)
  BY GroupLists
<1>10. CASE c = "bone_ointment"
  <2>1. PICK out \in Samples(Others("BONE"), 3) :
          p = EachThen(out, LAMBDA id : Remove1(id), BuffAll(Wild, 28, 28))
    BY <1>10 DEF CardProgram, Schemes
  <2>2. out \in Lists(Ids)
    BY <1>3, <2>1, GroupLists, SamplesPart
  <2>3. 28 \in Nat
    OBVIOUS
  <2>4. Cheap(BuffAll(Wild, 28, 28), 12, m)
    BY <1>5, <2>3
  <2> QED BY <1>7, <2>1, <2>2, <2>4
<1>11. CASE c = "peat_dressing"
  <2>1. p = EachThen(Others("BONE"), LAMBDA id : Remove1(id), BuffAll("BONE", 20, 20))
    BY <1>11 DEF CardProgram, Schemes
  <2>2. Others("BONE") \in Lists(Ids)
    BY GroupLists
  <2>3. 20 \in Nat
    OBVIOUS
  <2>4. Cheap(BuffAll("BONE", 20, 20), 12, m)
    BY <1>5, <2>3
  <2> QED BY <1>7, <2>1, <2>2, <2>4
<1>12. CASE c \in {"alien_hormone", "targeted_alien_hormone"}
  <2> DEFINE task == IF c = "alien_hormone" THEN Add(Wild, Drawn, 5, 0)
                     ELSE Add(Wild, Magic, 0, 25)
             n == IF c = "alien_hormone" THEN 4 ELSE 2
             q == Repeat(n, task)
             r == RemoveEach(t)
  <2>1. p = r \o q
    BY <1>12 DEF CardProgram, Schemes
  <2>2. 25 \in Nat /\ 54 \in Nat /\ 24 \in Nat /\ 216 \in Nat
        /\ 2 * 12 <= 24 /\ 4 * 54 <= 216 /\ 24 + 216 <= 290
    OBVIOUS
  <2>3. Cheap(Add(Wild, Drawn, 5, 0), 54, m)
    BY <1>3, NamedRarities, TaskCosts
  <2>4. Cheap(Add(Wild, Magic, 0, 25), 54, m)
    BY <1>3, <2>2, NamedRarities, TaskCosts
  <2>5. n \in Nat /\ n <= 4 /\ Cheap(task, 54, m)
    BY <2>3, <2>4
  <2>6. x \in Ids /\ Len(t) <= 2
    BY <1>2, <1>12
  <2> HIDE DEF n, task
  <2>7. Brief(q, 4, 54, m)
    BY <1>3, <2>5, BriefRepeat
  <2>8. Brief(r, 2, 12, m)
    BY <1>1, <1>3, <1>6, <2>6
  <2> HIDE DEF q, r
  <2>9. Paid(r, 24, m)
    BY <1>3, <2>2, <2>8, BriefPaid
  <2>10. Paid(q, 216, m)
    BY <1>3, <2>2, <2>7, BriefPaid
  <2> QED BY <1>3, <2>1, <2>2, <2>9, <2>10, PaidJoin, SMTT(60)
<1>13. CASE c \in {"will_powder", "strong_will_powder"}
  <2> DEFINE a == IF c = "will_powder" THEN 127 ELSE 154
             n == IF c = "will_powder" THEN 1 ELSE 2
             from == Others(M(x).family)
  <2>1. PICK out \in Samples(from, n) : p = <<Buff(x, 0, a)>> \o RemoveEach(out)
    BY <1>13 DEF CardProgram, Schemes, x
  <2>2. n \in Nat /\ n <= 2 /\ a \in Nat
    OBVIOUS
  <2>3. from \in Lists(Ids)
    BY GroupLists
  <2> HIDE DEF a, n, from
  <2>4. out \in Lists(Ids) /\ Len(out) = Size(from, n)
    BY <2>1, <2>2, <2>3, SamplesPart
  <2>5. Size(from, n) \in Nat /\ Size(from, n) <= n
    BY <2>2, <2>3, ChosenFew
  <2>6. out \in Seq(Ids) /\ Len(out) <= 2
    BY <2>2, <2>4, <2>5, ListIs
  <2> QED BY <1>3, <1>8, <2>1, <2>2, <2>6, SMTT(60)
<1>14. CASE c = "cleansing_ointment"
  <2> DEFINE right == RightOf(x)
             one == <<Buff(x, 20, 0)>>
             two == <<Buff(x, 0, 41)>>
             r == RemoveEach(right)
  <2>1. p = one \o (IF M(x).family = "BONE" THEN two \o r ELSE << >>)
    BY <1>14 DEF CardProgram, Schemes, x
  <2>2. 20 \in Nat /\ 41 \in Nat /\ 1 + 1 = 2 /\ 1 + 2 = 3 /\ 1 + 0 = 1 /\ 3 <= 5
        /\ 1 <= 5
    OBVIOUS
  <2>3. Brief(one, 1, 12, m) /\ Brief(two, 1, 12, m) /\ Brief(<< >>, 0, 12, m)
    BY <1>3, <1>5, <2>2, BriefShort
  <2>4. right \in Seq(Ids)
    BY <1>2, <1>14, Neighbours, ListIs
  <2>5. Len(right) <= 1
    <3>1. right = << >> \/ \E u : right = <<u>>
      BY DEF RightOf
    <3>2. \A s : s = << >> \/ (\E u : s = <<u>>) => Len(s) \in {0, 1}
      OBVIOUS
    <3>3. \A k \in {0, 1} : k <= 1
      OBVIOUS
    <3> HIDE DEF right
    <3> QED BY <3>1, <3>2, <3>3
  <2> HIDE DEF right
  <2>6. Brief(r, 1, 12, m)
    BY <1>3, <1>6, <2>4, <2>5
  <2> HIDE DEF one, two, r
  <2>7. Brief(two \o r, 1 + 1, 12, m)
    BY <1>3, <2>3, <2>6, BriefJoin
  <2>8. Brief(one \o (two \o r), 1 + 2, 12, m)
    BY <1>3, <2>2, <2>3, <2>7, BriefJoin
  <2>9. Brief(one \o << >>, 1 + 0, 12, m)
    BY <1>3, <2>3, BriefJoin
  <2>10. Brief(one \o (two \o r), 5, 12, m) /\ Brief(one \o << >>, 5, 12, m)
    BY <1>3, <2>2, <2>8, <2>9, BriefMore
  <2> QED BY <1>4, <2>1, <2>10
<1>15. CASE c = "digestive"
  <2> DEFINE first == <<Tick, Buff(x, 61, 0), Tick>>
             left == LeftOf(x)
             r == RemoveEach(left)
  <2>1. p = first \o r
    BY <1>15 DEF CardProgram, Schemes, x
  <2>2. 61 \in Nat /\ 3 + 2 = 5
    OBVIOUS
  <2>3. Brief(first, 3, 12, m)
    BY <1>3, <1>5, <2>2, BriefShort
  <2>4. left \in Seq(Ids)
    BY <1>2, <1>15, Neighbours, ListIs
  <2>5. Len(left) <= 2
    <3>1. left = << >> \/ \E u : left = <<u>>
      BY DEF LeftOf
    <3> HIDE DEF left
    <3>2. Len(left) = 0 \/ Len(left) = 1
      BY <3>1
    <3> QED BY <3>2
  <2> HIDE DEF left
  <2>6. Brief(r, 2, 12, m)
    BY <1>3, <1>6, <2>4, <2>5
  <2> HIDE DEF first, r
  <2>7. Brief(first \o r, 3 + 2, 12, m)
    BY <1>3, <2>3, <2>6, BriefJoin
  <2> QED BY <1>4, <2>1, <2>2, <2>7
<1>16. CASE c = "fusion"
  <2>1. p = <<Fuse(t, "INSECT", Drawn)>>
    BY <1>16 DEF CardProgram, Schemes
  <2>2. Cheap(Fuse(t, "INSECT", Drawn), 12, m)
    BY <1>5
  <2>3. Brief(p, 1, 12, m)
    BY <2>1, <2>2, BriefShort
  <2>4. Brief(p, 5, 12, m)
    BY <1>3, <2>3, BriefMore
  <2> QED BY <1>4, <2>4
<1>17. CASE c = "bone_growth_powder"
  <2> DEFINE from == Others("BONE")
  <2>1. PICK one \in Picks(All, 1) :
          \/ p = <<Buff(one[1], 0, 40)>>
          \/ \E out \in Samples(from, 1) :
               p = <<Buff(one[1], 0, 40), Buff(one[1], 0, 127)>> \o RemoveEach(out)
    BY <1>17 DEF CardProgram, Schemes
  <2>2. 40 \in Nat /\ 127 \in Nat /\ 2 + 1 = 3
    OBVIOUS
  <2>3. Cheap(Buff(one[1], 0, 40), 12, m) /\ Cheap(Buff(one[1], 0, 127), 12, m)
    BY <1>3, <1>5, <2>2
  <2> DEFINE o == <<Buff(one[1], 0, 40), Buff(one[1], 0, 127)>>
  <2>4. Brief(<<Buff(one[1], 0, 40)>>, 1, 12, m) /\ Brief(o, 2, 12, m)
    BY <2>3, BriefShort
  <2>5. CASE p = <<Buff(one[1], 0, 40)>>
    <3>1. Brief(p, 5, 12, m)
      BY <1>3, <2>4, <2>5, BriefMore
    <3> QED BY <1>4, <3>1
  <2>6. ASSUME NEW out \in Samples(from, 1), p = o \o RemoveEach(out)
        PROVE  Paid(p, 290, m)
    <3> DEFINE r == RemoveEach(out)
    <3>1. from \in Lists(Ids)
      BY GroupLists
    <3> HIDE DEF from
    <3>2. out \in Lists(Ids) /\ Len(out) = Size(from, 1)
      BY <1>3, <2>6, <3>1, SamplesPart
    <3>3. Size(from, 1) <= 1
      BY <1>3, <3>1, ChosenFew
    <3>4. out \in Seq(Ids) /\ Len(out) <= 1
      BY <3>2, <3>3, ListIs
    <3>5. Brief(r, 1, 12, m)
      BY <1>3, <1>6, <3>4
    <3> HIDE DEF o, r
    <3>6. Brief(o \o r, 2 + 1, 12, m)
      BY <1>3, <2>4, <3>5, BriefJoin
    <3>7. Brief(o \o r, 5, 12, m)
      BY <1>3, <2>2, <3>6, BriefMore
    <3> QED BY <1>4, <2>6, <3>7 DEF r
  <2> QED BY <2>1, <2>5, <2>6
<1> QED BY <1>10, <1>11, <1>12, <1>13, <1>14, <1>15, <1>16, <1>17

\* Every card.
LEMMA CardsPaid ==
  ASSUME Sound(slots, tools, nextId), SlotCount \in Nat, SlotCount <= 6,
         Ids # {}, Measured(slots), NEW m \in 0..3,
         NEW c \in AllCards, NEW t \in LegalTargets(c), NEW p \in CardProgram(c, t)
  PROVE  Paid(p, 290, m)
<1>1. CASE c \in {"awakening", "mixed_leech", "pure_leech", "sticky_bile",
                  "mutation", "mutagen_powder", "bone_twin_hormone",
                  "insect_twin_hormone", "awaker_anesthetic",
                  "petrified_marrow", "hollow_marrow", "pia_mater",
                  "fiend_anesthetic"}
  BY <1>1, TargetCardsPaid
<1>2. CASE c \in Schemes \cup {
             "gray_marrow", "awaker_fluid", "fiend_fluid", "insect_powder",
             "bone_powder", "holy_water", "waking_salts",
             "fresh_marrow_powder", "brood_hormone", "proliferation_powder",
             "eggshell_powder", "brain_fog", "insect_boost", "lure"}
  BY <1>2, DrawCardsPaid
<1>3. CASE c \in {"bone_ointment", "peat_dressing", "alien_hormone",
                  "targeted_alien_hormone", "will_powder",
                  "strong_will_powder", "cleansing_ointment", "digestive",
                  "fusion", "bone_growth_powder"}
  BY <1>3, TakingCardsPaid
<1> QED BY <1>1, <1>2, <1>3 DEF AllCards

-----------------------------------------------------------------------------
(* What an event costs.                                                    *)

\* The tools that wait for an event.
Count(held, kind) == Cardinality({i \in DOMAIN held : Trigger(held[i]) = kind})

\* Nobody has more tools than he holds, and no tool waits for two events.
LEMMA CountsAre ==
  ASSUME tools \in Seq(AllTools), Len(tools) <= 3
  PROVE  /\ \A kind : Count(tools, kind) \in 0..3
         /\ Count(tools, "added") + Count(tools, "mutated") <= 3
<1> DEFINE D == DOMAIN tools
           Of(kind) == {i \in DOMAIN tools : Trigger(tools[i]) = kind}
<1>1. Len(tools) \in 0..3 /\ D = 1..Len(tools)
  <2>1. Len(tools) \in Nat /\ DOMAIN tools = 1..Len(tools)
    OBVIOUS
  <2> QED BY <2>1
<1>2. IsFiniteSet(D) /\ Cardinality(D) \in 0..3
  <2> DEFINE n == Len(tools)
  <2>1. n \in 0..3 /\ D = 1..n /\ 1 \in Int
    BY <1>1
  <2> HIDE DEF n, D
  <2>2. IsFiniteSet(1..n) /\ Cardinality(1..n) = IF 1 > n THEN 0 ELSE n - 1 + 1
    <3>1. n \in Int
      BY <2>1
    <3> QED BY <2>1, <3>1, FS_Interval
  <2> QED BY <2>1, <2>2
<1>3. \A kind : Of(kind) \in SUBSET D
  OBVIOUS
<1>4. \A kind : Count(tools, kind) = Cardinality(Of(kind))
  BY DEF Count
<1>5. Of("added") \cap Of("mutated") = {}
  OBVIOUS
<1> HIDE DEF D, Of
<1>6. \A s \in SUBSET D : IsFiniteSet(s) /\ Cardinality(s) \in 0..3
  <2> SUFFICES ASSUME NEW s \in SUBSET D
               PROVE  IsFiniteSet(s) /\ Cardinality(s) \in 0..3
    OBVIOUS
  <2>1. IsFiniteSet(s) /\ Cardinality(s) <= Cardinality(D)
    BY <1>2, FS_Subset
  <2>2. Cardinality(s) \in Nat
    BY <2>1, FS_CardinalityType
  <2> QED BY <1>2, <2>1, <2>2
<1>7. Count(tools, "added") + Count(tools, "mutated") <= 3
  <2> DEFINE a == Of("added")
             b == Of("mutated")
  <2>1. a \in SUBSET D /\ b \in SUBSET D /\ (a \cup b) \in SUBSET D /\ a \cap b = {}
    BY <1>3, <1>5
  <2> HIDE DEF a, b
  <2>2. IsFiniteSet(a) /\ IsFiniteSet(b) /\ Cardinality(a) \in 0..3
        /\ Cardinality(b) \in 0..3 /\ Cardinality(a \cup b) \in 0..3
    BY <1>6, <2>1
  <2>3. Cardinality(a \cup b)
          = Cardinality(a) + Cardinality(b) - Cardinality(a \cap b)
    BY <2>2, FS_Union
  <2>4. Cardinality(a \cap b) = 0
    BY <2>1, FS_EmptySet
  <2>5. Cardinality(a) + Cardinality(b) <= 3
    BY <2>2, <2>3, <2>4
  <2> QED BY <1>4, <2>5 DEF a, b
<1> QED BY <1>3, <1>4, <1>6, <1>7

\* A triggered tool costs what its event makes it cost.
LEMMA EmitBrief ==
  ASSUME tools \in Seq(AllTools), Len(tools) <= 3, NEW kind, NEW id, NEW m \in Nat,
         NEW k \in Nat, Count(tools, kind) <= k
  PROVE  Brief(Emit(kind, id), k, Reaction(kind, m), m)
<1> DEFINE n == Len(tools)
           places == {i \in DOMAIN tools : Trigger(tools[i]) = kind}
           size == Cardinality(places)
           kept == Keep(tools, places)
           q == Emit(kind, id)
<1>1. n \in Nat /\ places \in SUBSET (1..n)
      /\ \A i \in places : Trigger(tools[i]) = kind
  OBVIOUS
<1>2. q = [i \in DOMAIN kept |-> Tool(kept[i], id)]
  BY DEF Emit, Each
<1>3. size = Count(tools, kind)
  BY DEF Count
<1> HIDE DEF n, places
<1>4. /\ size \in Nat /\ DOMAIN kept = 1..size
      /\ \A i \in 1..size : Nth(places, i) \in places
                            /\ kept[i] = tools[Nth(places, i)]
  BY <1>1, KeepIs
<1> HIDE DEF size, kept, q
<1>5. q = [i \in 1..size |-> q[i]]
      /\ \A i \in 1..size : q[i] = Tool(kept[i], id) /\ Trigger(kept[i]) = kind
  BY <1>1, <1>2, <1>4
<1>6. \A h : Trigger(h) = kind => Cheap(Tool(h, id), Reaction(kind, m), m)
  <2> SUFFICES ASSUME NEW h, Trigger(h) = kind
               PROVE  Cheap(Tool(h, id), Reaction(kind, m), m)
    OBVIOUS
  <2>1. Tool(h, id).op = "tool" /\ Tool(h, id).handler = h
    BY DEF Tool
  <2>2. Price(Tool(h, id), m) = Reaction(kind, m)
    BY <2>1 DEF Price
  <2>3. Sized(Tool(h, id))
    BY <2>1 DEF Sized
  <2>4. Reaction(kind, m) \in Nat
    BY DEF Reaction
  <2> QED BY <2>2, <2>3, <2>4 DEF Cheap
<1>7. \A i \in 1..size : Cheap(q[i], Reaction(kind, m), m)
  BY <1>5, <1>6
<1>8. Brief(q, k, Reaction(kind, m), m)
  BY <1>3, <1>4, <1>5, <1>7, BriefIs
<1> QED BY <1>8 DEF q

\* No tool waits for these.
Silent == {"stats_changed", "awakened", "fused", "devoured"}

\* What the tools that an event triggers cost, with all that they call.
LEMMA EmitPaid ==
  ASSUME tools \in Seq(AllTools), Len(tools) <= 3, NEW id,
         NEW m, m = Count(tools, "mutated")
  PROVE  /\ m \in 0..3
         /\ \A kind \in Silent : Paid(Emit(kind, id), 0, m)
         /\ \A kind \in {"removed", "overflow"} : Paid(Emit(kind, id), 9, m)
         /\ Paid(Emit("mutated", id), 13 * m, m)
         /\ Paid(Emit("added", id), 52, m)
         /\ Paid(Emit("turn_end", id), 219, m)
<1>1. \A kind : Count(tools, kind) \in 0..3
  BY CountsAre
<1>2. m \in 0..3 /\ m \in Nat /\ 0 \in Nat /\ 3 \in Nat /\ 9 \in Nat /\ 52 \in Nat
      /\ 219 \in Nat /\ 73 \in Nat
  BY <1>1
<1>3. ASSUME NEW kind \in Silent
      PROVE  Paid(Emit(kind, id), 0, m)
  <2>1. \A h : Trigger(h) # kind
    BY DEF Silent, Trigger
  <2>2. {i \in DOMAIN tools : Trigger(tools[i]) = kind} = {}
    BY <2>1
  <2>3. Count(tools, kind) = 0
    BY <2>2, FS_EmptySet DEF Count
  <2>4. Reaction(kind, m) = 73
    BY DEF Reaction, Silent
  <2>5. Brief(Emit(kind, id), 0, 73, m)
    BY <1>2, <2>3, <2>4, EmitBrief
  <2>6. 0 * 73 <= 0
    OBVIOUS
  <2> QED BY <1>2, <2>5, <2>6, BriefPaid
<1>4. ASSUME NEW kind \in {"removed", "overflow"}
      PROVE  Paid(Emit(kind, id), 9, m)
  <2>1. Reaction(kind, m) = 3 /\ Count(tools, kind) <= 3
    BY <1>1 DEF Reaction
  <2>2. Brief(Emit(kind, id), 3, 3, m)
    BY <1>2, <2>1, EmitBrief
  <2>3. 3 * 3 <= 9
    OBVIOUS
  <2> QED BY <1>2, <2>2, <2>3, BriefPaid
<1>5. Paid(Emit("mutated", id), 13 * m, m)
  <2>1. Reaction("mutated", m) = 13 /\ Count(tools, "mutated") <= m
        /\ m * 13 <= 13 * m /\ 13 * m \in Nat /\ 13 \in Nat
    BY <1>2 DEF Reaction
  <2>2. Brief(Emit("mutated", id), m, 13, m)
    BY <1>2, <2>1, EmitBrief
  <2> QED BY <1>2, <2>1, <2>2, BriefPaid
<1>6. Paid(Emit("added", id), 52, m)
  <2> DEFINE k == Count(tools, "added")
             w == 13 + 13 * m
  <2>1. k \in 0..3 /\ k + m <= 3
    BY <1>1, CountsAre
  <2>2. Reaction("added", m) = w
    BY DEF Reaction
  <2>3. k \in Nat /\ k <= k /\ w \in Nat
    BY <1>2, <2>1
  <2>4. k * w <= 52
    <3> HIDE DEF k
    <3>1. CASE m = 0
      BY <2>1, <3>1
    <3>2. CASE m = 1
      BY <2>1, <3>2
    <3>3. CASE m = 2
      BY <2>1, <3>3
    <3>4. CASE m = 3
      BY <2>1, <3>4
    <3> QED BY <1>2, <3>1, <3>2, <3>3, <3>4
  <2>5. Brief(Emit("added", id), k, w, m)
    BY <1>2, <2>2, <2>3, EmitBrief
  <2> HIDE DEF k, w
  <2> QED BY <1>2, <2>3, <2>4, <2>5, BriefPaid
<1>7. Paid(Emit("turn_end", id), 219, m)
  <2>1. Reaction("turn_end", m) = 73 /\ Count(tools, "turn_end") <= 3
    BY <1>1 DEF Reaction
  <2>2. Brief(Emit("turn_end", id), 3, 73, m)
    BY <1>2, <2>1, EmitBrief
  <2>3. 3 * 73 <= 219
    OBVIOUS
  <2> QED BY <1>2, <2>2, <2>3, BriefPaid
<1> QED BY <1>2, <1>3, <1>4, <1>5, <1>6, <1>7

-----------------------------------------------------------------------------
(* The invariant: the steps that are left pay for the agenda.              *)

\* The held tools that wait for a mutation.
Waiting == Count(tools, "mutated")

MeasuredInv ==
  /\ Measured(slots) /\ Measured(saved.slots)
  /\ Len(tools) <= MaxTools /\ Len(saved.tools) <= MaxTools
  /\ steps \in Nat /\ (agenda = << >> => steps = 0)
  /\ agenda # << >> => agenda[Len(agenda)].op = "settle"
  /\ outcome # "limit"
  /\ \E n \in Nat : steps + n <= StepLimit /\ Paid(agenda, n, Waiting)

\* What both invariants and the rules say of a state.
LEMMA RunningIs ==
  ASSUME EffectsInv, MeasuredInv
  PROVE  /\ Sound(slots, tools, nextId) /\ tools \in Seq(AllTools)
         /\ SlotCount \in Nat \ {0} /\ SlotCount <= 6
         /\ Len(tools) \in Nat /\ Len(tools) <= 3 /\ MaxTools \in Nat
         /\ StepLimit \in Nat /\ 512 <= StepLimit
         /\ Measured(slots) /\ Waiting \in 0..3 /\ Waiting \in Nat
         /\ nextId \in Nat /\ DOMAIN slots = 1..SlotCount
<1>1. /\ Sound(slots, tools, nextId) /\ tools \in Seq(AllTools)
      /\ nextId \in Nat /\ DOMAIN slots = 1..SlotCount
  BY DEF EffectsInv, Sound
<1>2. /\ SlotCount \in Nat \ {0} /\ SlotCount <= 6 /\ MaxTools \in Nat /\ MaxTools <= 3
      /\ StepLimit \in Nat /\ 512 <= StepLimit
  BY EffectsAssumption, RulesAssumption
<1>3. Measured(slots) /\ Len(tools) <= MaxTools
  BY DEF MeasuredInv
<1>4. Len(tools) \in Nat
  BY <1>1
<1>5. Len(tools) <= 3
  BY <1>2, <1>3, <1>4
<1>6. Waiting \in 0..3
  BY <1>1, <1>5, CountsAre DEF Waiting
<1>7. Waiting \in Nat
  BY <1>6
<1> QED BY <1>1, <1>2, <1>3, <1>4, <1>5, <1>6, <1>7

\* Nothing costs nothing.
LEMMA PaidNothing ==
  ASSUME NEW m \in Nat, NEW n \in Nat
  PROVE  Paid(<< >>, n, m)
<1>1. Brief(<< >>, 0, 0, m)
  BY BriefShort
<1>2. 0 * 0 <= n /\ 0 \in Nat
  OBVIOUS
<1> QED BY <1>1, <1>2, BriefPaid

\* An aborted command leaves the checkpoint, and nothing to pay for.
LEMMA AbortMeasured ==
  ASSUME EffectsInv, MeasuredInv, Abort("overflow")
  PROVE  MeasuredInv'
<1>1. /\ slots' = saved.slots /\ tools' = saved.tools /\ saved' = saved
      /\ agenda' = << >> /\ steps' = 0 /\ outcome' = "overflow"
  BY DEF Abort
<1>2. Measured(saved.slots) /\ Len(saved.tools) <= MaxTools
  BY DEF MeasuredInv
<1>3. saved.tools \in Seq(AllTools)
  BY DEF EffectsInv, IsCheckpoint, Sound
<1>4. Waiting' \in Nat
  <2> DEFINE held == saved.tools
             places == {i \in DOMAIN held : Trigger(held[i]) = "mutated"}
             n == Len(held)
  <2>1. n \in Nat /\ places \in SUBSET (1..n)
    BY <1>3
  <2>2. Waiting' = Cardinality(places)
    BY <1>1 DEF Waiting, Count
  <2> HIDE DEF places, n
  <2> QED BY <2>1, <2>2, FinitePlaces
<1>5. Paid(<< >>, 0, Waiting')
  BY <1>4, PaidNothing
<1>6. 0 + 0 <= StepLimit /\ 0 \in Nat
  BY EffectsAssumption
<1>7. \E n \in Nat : 0 + n <= StepLimit /\ Paid(<< >>, n, Waiting')
  BY <1>5, <1>6
<1> HIDE DEF Waiting
<1> QED BY <1>1, <1>2, <1>6, <1>7 DEF MeasuredInv

\* The last task stays the last.
LEMMA LastStays ==
  ASSUME NEW s, s \in Seq(ToSet(s)), s # << >>,
         s[Len(s)].op = "settle", s[1].op # "settle",
         NEW q, q \in Seq(ToSet(q))
  PROVE  After(q, s) # << >> /\ After(q, s)[Len(After(q, s))].op = "settle"
<1> DEFINE u == After(q, s)
           n == Len(s)
           l == Len(q)
<1>1. n \in Nat /\ n # 0 /\ l \in Nat /\ DOMAIN s = 1..n
  <2>1. s \in Seq(ToSet(s)) /\ q \in Seq(ToSet(q))
    OBVIOUS
  <2> QED BY <2>1
<1>2. n > 1 /\ n \in DOMAIN s
  <2>1. n # 1
    OBVIOUS
  <2> HIDE DEF n, l
  <2> QED BY <1>1, <2>1
<1>3. /\ DOMAIN u = 1..(l + n - 1)
      /\ \A j \in DOMAIN s : j > 1 => j + l - 1 \in DOMAIN u /\ u[j + l - 1] = s[j]
  BY ReplaceHead
<1>4. u \in Seq(ToSet(u))
  BY ReplaceSeq
<1> HIDE DEF u, n, l
<1>5. Len(u) = l + n - 1
  <2> DEFINE k == l + n - 1
  <2>1. k \in Nat /\ DOMAIN u = 1..k
    BY <1>1, <1>2, <1>3
  <2>2. Len(u) \in Nat /\ DOMAIN u = 1..Len(u)
    BY <1>4
  <2> HIDE DEF k
  <2>3. Len(u) = k
    BY <2>1, <2>2
  <2> QED BY <2>3 DEF k
<1>6. n + l - 1 = l + n - 1 /\ n + l - 1 \in DOMAIN u /\ u[n + l - 1] = s[n]
  BY <1>1, <1>2, <1>3
<1>7. u # << >>
  BY <1>6
<1>8. u[Len(u)].op = "settle"
  BY <1>5, <1>6 DEF n
<1> QED BY <1>7, <1>8 DEF u

\* The task that is next can be paid for.
LEMMA HeadPaid ==
  ASSUME EffectsInv, MeasuredInv, agenda # << >>
  PROVE  /\ Sized(Task) /\ Price(Task, Waiting) \in Nat
         /\ steps + Price(Task, Waiting) <= StepLimit
<1> DEFINE m == Waiting
<1>1. m \in Nat /\ StepLimit \in Nat /\ steps \in Nat
  BY RunningIs DEF MeasuredInv
<1>2. PICK n \in Nat : steps + n <= StepLimit /\ Paid(agenda, n, m)
  BY DEF MeasuredInv
<1> HIDE DEF m
<1>3. Sized(Task) /\ Price(Task, m) <= n /\ Price(Task, m) \in Nat
  BY <1>1, <1>2, PaidHead DEF Task
<1> DEFINE c == Price(Task, m)
<1>4. c <= n /\ c \in Nat
  BY <1>3
<1> HIDE DEF c
<1>5. steps + c <= StepLimit
  BY <1>1, <1>2, <1>4
<1> QED BY <1>3, <1>5 DEF c, m

\* A task that calls no more than its price covers leaves an agenda that is
\* paid for.
LEMMA AgendaPaid ==
  ASSUME EffectsInv, MeasuredInv, agenda # << >>, Task.op # "settle",
         NEW called, NEW cost \in Nat, cost <= Price(Task, Waiting),
         Paid(called, Price(Task, Waiting) - cost, Waiting)
  PROVE  /\ steps + cost <= StepLimit /\ steps + cost \in Nat
         /\ After(called, agenda) # << >>
         /\ After(called, agenda)[Len(After(called, agenda))].op = "settle"
         /\ \E k \in Nat : /\ steps + cost + k <= StepLimit
                          /\ Paid(After(called, agenda), k, Waiting)
<1> DEFINE m == Waiting
           c == Price(Task, m)
           u == After(called, agenda)
<1>1. /\ m \in Nat /\ StepLimit \in Nat /\ steps \in Nat
      /\ agenda \in Seq(ToSet(agenda)) /\ Task = agenda[1]
  BY RunningIs, HeadIs DEF MeasuredInv, Ready
<1>2. PICK n \in Nat : steps + n <= StepLimit /\ Paid(agenda, n, m)
  BY DEF MeasuredInv
<1>3. c <= n /\ c \in Nat /\ Paid(Tail(agenda), n - c, m)
  <2> HIDE DEF m
  <2> QED BY <1>1, <1>2, PaidHead DEF Task
<1>4. cost <= c /\ Paid(called, c - cost, m)
  OBVIOUS
<1> HIDE DEF c, m
<1>5. steps + cost <= StepLimit /\ n - cost \in Nat /\ c - cost \in Nat
      /\ n - c \in Nat /\ (c - cost) + (n - c) <= n - cost
      /\ (steps + cost) + (n - cost) <= StepLimit /\ steps + cost \in Nat
  BY <1>1, <1>2, <1>3, <1>4
<1>6. Paid(u, n - cost, m)
  <2>1. u = called \o Tail(agenda)
    BY DEF After
  <2> HIDE DEF u
  <2> QED BY <1>1, <1>3, <1>4, <1>5, <2>1, PaidJoin
<1>7. u # << >> /\ u[Len(u)].op = "settle"
  <2>1. called \in Seq(ToSet(called))
    BY <1>4 DEF Paid
  <2>2. agenda[Len(agenda)].op = "settle" /\ agenda[1].op # "settle"
    BY <1>1 DEF MeasuredInv
  <2> QED BY <1>1, <2>1, <2>2, LastStays
<1> HIDE DEF u
<1>8. \E k \in Nat : steps + cost + k <= StepLimit /\ Paid(u, k, m)
  BY <1>5, <1>6
<1> QED BY <1>5, <1>7, <1>8 DEF u, m

\* The state after a task that is not the end of the command.
LEMMA NextMeasured ==
  ASSUME EffectsInv, MeasuredInv, agenda # << >>, Task.op # "settle",
         NEW board, Measured(board), NEW called, NEW cost \in Nat,
         cost <= Price(Task, Waiting),
         Paid(called, Price(Task, Waiting) - cost, Waiting),
         slots' = board, agenda' = After(called, agenda), steps' = steps + cost,
         tools' = tools, saved' = saved, outcome' = outcome
  PROVE  MeasuredInv'
<1> DEFINE m == Waiting
           u == After(called, agenda)
<1>1. /\ steps + cost \in Nat /\ u # << >> /\ u[Len(u)].op = "settle"
      /\ \E k \in Nat : steps + cost + k <= StepLimit /\ Paid(u, k, m)
  BY AgendaPaid
<1>2. Waiting' = m /\ agenda' = u
  BY DEF Waiting
<1>3. /\ Measured(saved.slots) /\ Len(tools) <= MaxTools
      /\ Len(saved.tools) <= MaxTools /\ outcome # "limit"
  BY DEF MeasuredInv
<1> HIDE DEF u, m
<1> QED BY <1>1, <1>2, <1>3 DEF MeasuredInv

\* A performed task that calls no more than its price covers.
LEMMA PerformMeasured ==
  ASSUME EffectsInv, MeasuredInv, agenda # << >>, Task.op # "settle",
         NEW board, NEW called, NEW cost \in Nat, NEW next, NEW gone,
         Perform(board, called, cost, next, gone), Measured(board),
         cost <= Price(Task, Waiting),
         Paid(called, Price(Task, Waiting) - cost, Waiting)
  PROVE  MeasuredInv'
<1>1. CASE Abort("overflow")
  BY <1>1, AbortMeasured
<1>2. CASE ~Abort("overflow")
  <2>1. steps + cost <= StepLimit /\ steps + cost \in Nat /\ StepLimit \in Nat
    BY AgendaPaid, RunningIs
  <2>2. ~(steps + cost > StepLimit)
    BY <2>1
  <2>3. /\ slots' = board /\ agenda' = After(called, agenda)
        /\ steps' = steps + cost /\ tools' = tools /\ saved' = saved
        /\ outcome' = outcome
    BY <1>2, <2>2 DEF Perform, After
  <2> QED BY <2>3, NextMeasured
<1> QED BY <1>1, <1>2

\* A task that only calls others.
LEMMA CallMeasured ==
  ASSUME EffectsInv, MeasuredInv, agenda # << >>, Task.op # "settle",
         NEW called, NEW cost \in Nat, Call(called, cost),
         cost <= Price(Task, Waiting),
         Paid(called, Price(Task, Waiting) - cost, Waiting)
  PROVE  MeasuredInv'
<1>1. Perform(slots, called, cost, nextId, removed) /\ Measured(slots)
  BY RunningIs DEF Call
<1> QED BY <1>1, PerformMeasured

-----------------------------------------------------------------------------
(* The steps.                                                              *)

\* A board is measured if its new monsters are.
LEMMA BoardMeasured ==
  ASSUME Measured(slots), NEW b,
         \A i \in 1..SlotCount :
           \/ b[i] = slots[i]
           \/ b[i] = Empty
           \/ \E id, f : \E r \in Rarities : \E a, q \in Nat :
                b[i] = Monster(id, f, r, a, q)
  PROVE  Measured(b)
<1>1. Empty.activity = 0 /\ Empty.quantity = 0
  BY DEF Empty, Monster
<1>2. SUFFICES ASSUME NEW i \in 1..SlotCount
               PROVE  /\ b[i].activity \in Nat /\ b[i].quantity \in Nat
                      /\ b[i] # Empty => b[i].rarity \in Rarities
  BY DEF Measured
<1>3. CASE b[i] = slots[i]
  BY <1>3 DEF Measured
<1>4. CASE b[i] = Empty
  BY <1>1, <1>4
<1>5. CASE \E id, f : \E r \in Rarities : \E a, q \in Nat :
             b[i] = Monster(id, f, r, a, q)
  <2>1. PICK id, f : \E r \in Rarities : \E a, q \in Nat :
          b[i] = Monster(id, f, r, a, q)
    BY <1>5
  <2>2. PICK r \in Rarities, a \in Nat, q \in Nat : b[i] = Monster(id, f, r, a, q)
    BY <2>1
  <2> QED BY <2>2, MonsterIs
<1> QED BY <1>3, <1>4, <1>5

\* What a rarity brings is a number.
LEMMA BaseIs ==
  ASSUME NEW r \in Rarities
  PROVE  /\ BaseActivity[r] \in Nat /\ BaseQuantity[r] \in Nat
         /\ r \in {Drawn} \cup Rarities
<1>1. r \in {1, 2, 3, 4}
  BY DEF Rarities, Normal, Boss
<1>2. BaseActivity[r] \in Nat
  BY <1>1 DEF BaseActivity
<1>3. BaseQuantity[r] \in Nat
  BY <1>1 DEF BaseQuantity
<1> QED BY <1>2, <1>3

\* A rarity that is drawn or named is a rarity.
LEMMA DrawnRarity ==
  ASSUME NEW r \in {Drawn} \cup Rarities, NEW s \in RarityOf(r)
  PROVE  s \in Rarities
BY EffectsAssumption DEF RarityOf, Rarities, Normal, Boss

\* addActivity, addQuantity call nobody.
LEMMA BuffMeasured ==
  ASSUME EffectsInv, MeasuredInv, DoBuff
  PROVE  MeasuredInv'
<1>1. agenda # << >> /\ Task.op = "buff"
  BY DEF DoBuff, IsNext
<1> DEFINE id == Task.id
           b == [slots EXCEPT ![At(id)].activity = @ + Task.a,
                              ![At(id)].quantity = @ + Task.q]
           e == Emit("stats_changed", id)
<1>2. /\ Names(Task) \subseteq Ids /\ Sound(slots, tools, nextId)
      /\ tools \in Seq(AllTools) /\ Len(tools) <= 3 /\ Measured(slots)
      /\ DOMAIN slots = 1..SlotCount
  BY <1>1, HeadIs, RunningIs
<1>3. id \in Ids
  BY <1>1, <1>2 DEF Names
<1>4. Perform(b, e, 2, nextId, removed)
  BY <1>3 DEF DoBuff
<1>5. Sized(Task)
  BY <1>1, HeadPaid
<1>6. Task.a \in Nat /\ Task.q \in Nat
  BY <1>1, <1>5 DEF Sized
<1>7. Price(Task, Waiting) = 2
  BY <1>1 DEF Price
<1>8. Paid(e, 0, Waiting)
  BY <1>2, EmitPaid DEF Silent, Waiting
<1> DEFINE x == At(id)
<1>9. /\ x \in 1..SlotCount /\ slots[x].activity \in Nat /\ slots[x].quantity \in Nat
      /\ slots[x].rarity \in Rarities
  BY <1>2, <1>3, MeasuredIds
<1>10. Shape(slots[x])
  BY <1>2, <1>9 DEF Sound, Shape
<1>11. /\ b[x] = Monster(slots[x].id, slots[x].family, slots[x].rarity,
                         slots[x].activity + Task.a, slots[x].quantity + Task.q)
       /\ \A i \in 1..SlotCount : i # x => b[i] = slots[i]
  BY <1>2, <1>9, <1>10 DEF Shape, Monster
<1> HIDE DEF b, x, e, id
<1>12. slots[x].activity + Task.a \in Nat /\ slots[x].quantity + Task.q \in Nat
  BY <1>6, <1>9
<1>13. \E i, f : \E r \in Rarities : \E a, q \in Nat : b[x] = Monster(i, f, r, a, q)
  BY <1>9, <1>11, <1>12
<1>14. Measured(b)
  BY <1>2, <1>11, <1>13, BoardMeasured
<1>15. Price(Task, Waiting) - 2 = 0 /\ 2 <= Price(Task, Waiting) /\ 2 \in Nat
       /\ Task.op # "settle"
  BY <1>1, <1>7
<1> QED BY <1>1, <1>4, <1>8, <1>14, <1>15, PerformMeasured

\* addMonster: the tools that wait for an addition, or for an overflow.
LEMMA AddMeasured ==
  ASSUME EffectsInv, MeasuredInv, DoAdd
  PROVE  MeasuredInv'
<1>1. agenda # << >> /\ Task.op = "add"
  BY DEF DoAdd, IsNext
<1> DEFINE free == (1..SlotCount) \ Board
<1>2. /\ Shaped(Task) /\ Sound(slots, tools, nextId)
      /\ tools \in Seq(AllTools) /\ Len(tools) <= 3 /\ Measured(slots)
      /\ DOMAIN slots = 1..SlotCount /\ Waiting \in 0..3 /\ Waiting \in Nat
  BY <1>1, HeadIs, RunningIs
<1>3. Sized(Task)
  BY <1>1, HeadPaid
<1>4. Task.a \in Nat /\ Task.q \in Nat /\ Task.r \in {Drawn} \cup Rarities
  BY <1>1, <1>3 DEF Sized
<1>5. Price(Task, Waiting) = 54
  BY <1>1 DEF Price
<1>6. Price(Task, Waiting) - 2 = 52 /\ 2 <= Price(Task, Waiting) /\ 2 \in Nat
      /\ Task.op # "settle"
  BY <1>1, <1>5
<1>7. CASE free = {}
  <2> DEFINE e == Emit("overflow", 0)
  <2>1. Call(e \o Task.spill, 2)
    BY <1>7 DEF DoAdd
  <2>2. Paid(e, 9, Waiting)
    BY <1>2, EmitPaid DEF Waiting
  <2>3. Paid(Task.spill, 12, Waiting)
    <3>1. Task.spill \in {<< >>, <<BuffAll("INSECT", 10, 10)>>}
      BY <1>1, <1>2 DEF Shaped
    <3>2. 10 \in Nat /\ 12 \in Nat /\ 1 \in Nat /\ 1 * 12 <= 12
          /\ Drawn \in {Drawn} \cup Rarities
      OBVIOUS
    <3>3. Cheap(BuffAll("INSECT", 10, 10), 12, Waiting)
      BY <1>2, <3>2, TaskCosts
    <3>4. Brief(<<BuffAll("INSECT", 10, 10)>>, 1, 12, Waiting)
      BY <3>3, BriefShort
    <3>5. Paid(<<BuffAll("INSECT", 10, 10)>>, 12, Waiting)
      BY <1>2, <3>2, <3>4, BriefPaid
    <3>6. Paid(<< >>, 12, Waiting)
      BY <1>2, <3>2, PaidNothing
    <3> QED BY <3>1, <3>5, <3>6
  <2> HIDE DEF e
  <2>4. 9 \in Nat /\ 12 \in Nat /\ 52 \in Nat /\ 9 + 12 <= 52
    OBVIOUS
  <2>5. Paid(e \o Task.spill, 52, Waiting)
    BY <1>2, <2>2, <2>3, <2>4, PaidJoin
  <2> QED BY <1>1, <1>6, <2>1, <2>5, CallMeasured
<1>8. CASE free # {}
  <2> DEFINE spot == Min(free)
             e == Emit("added", nextId)
             next == nextId + 1
  <2>1. PICK f \in FamilyOf(Task.f), r \in RarityOf(Task.r) :
          Perform([slots EXCEPT ![spot] =
                     Monster(nextId, f, r, BaseActivity[r] + Task.a,
                             BaseQuantity[r] + Task.q)],
                  e, 2, next, removed)
    BY <1>8 DEF DoAdd
  <2>2. r \in Rarities /\ BaseActivity[r] \in Nat /\ BaseQuantity[r] \in Nat
    BY <1>4, <2>1, DrawnRarity, BaseIs
  <2> DEFINE a == BaseActivity[r] + Task.a
             q == BaseQuantity[r] + Task.q
             b == [slots EXCEPT ![spot] = Monster(nextId, f, r, a, q)]
  <2>3. a \in Nat /\ q \in Nat
    BY <1>4, <2>2
  <2>4. Perform(b, e, 2, next, removed)
    BY <2>1
  <2>5. Paid(e, 52, Waiting)
    BY <1>2, EmitPaid DEF Waiting
  <2> HIDE DEF spot, a, q, e, next
  <2>6. \A i \in 1..SlotCount : b[i] = slots[i] \/ b[i] = Monster(nextId, f, r, a, q)
    BY <1>2
  <2> HIDE DEF b
  <2>7. Measured(b)
    BY <1>2, <2>2, <2>3, <2>6, BoardMeasured
  <2> QED BY <1>1, <1>6, <2>4, <2>5, <2>7, PerformMeasured, ZenonT(60)
<1> QED BY <1>7, <1>8

\* removeMonster: the tools that wait for a removal, and its end.
LEMMA RemovalMeasured ==
  ASSUME EffectsInv, MeasuredInv, DoRemove
  PROVE  MeasuredInv'
<1>1. agenda # << >> /\ Task.op = "remove"
  BY DEF DoRemove, IsNext
<1> DEFINE id == Task.id
           b == [slots EXCEPT ![At(id)] = Empty]
           e == Emit("removed", id)
           o == <<Restore(removed)>>
<1>2. /\ Names(Task) \subseteq Ids /\ Sound(slots, tools, nextId)
      /\ tools \in Seq(AllTools) /\ Len(tools) <= 3 /\ Measured(slots)
      /\ DOMAIN slots = 1..SlotCount /\ Waiting \in 0..3 /\ Waiting \in Nat
  BY <1>1, HeadIs, RunningIs
<1>3. id \in Ids
  BY <1>1, <1>2 DEF Names
<1>4. Perform(b, e \o o, 2, nextId, M(id))
  BY <1>3 DEF DoRemove
<1>5. Price(Task, Waiting) = 11
  BY <1>1 DEF Price
<1>6. Price(Task, Waiting) - 2 = 9 /\ 2 <= Price(Task, Waiting) /\ 2 \in Nat
      /\ Task.op # "settle" /\ 9 \in Nat /\ 0 \in Nat /\ 9 + 0 <= 9 /\ 1 * 0 <= 0
      /\ 1 \in Nat
  BY <1>1, <1>5
<1>7. Paid(e, 9, Waiting)
  BY <1>2, EmitPaid DEF Waiting
<1>8. Paid(o, 0, Waiting)
  <2>1. Cheap(Restore(removed), 0, Waiting)
    BY DEF Cheap, Sized, Price, Restore
  <2>2. Brief(o, 1, 0, Waiting)
    BY <2>1, BriefShort
  <2> HIDE DEF o
  <2> QED BY <1>2, <1>6, <2>2, BriefPaid
<1>9. \A i \in 1..SlotCount : b[i] = slots[i] \/ b[i] = Empty
  BY <1>2
<1> HIDE DEF b, e, o, id
<1>10. Measured(b)
  BY <1>2, <1>9, BoardMeasured
<1>11. Paid(e \o o, 9, Waiting)
  BY <1>2, <1>6, <1>7, <1>8, PaidJoin
<1> QED BY <1>1, <1>4, <1>6, <1>10, <1>11, PerformMeasured

\* The end of a removal costs nothing.
LEMMA EndOfRemovalMeasured ==
  ASSUME EffectsInv, MeasuredInv, DoRestore
  PROVE  MeasuredInv'
<1>1. agenda # << >> /\ Task.op = "restore"
  BY DEF DoRestore, IsNext
<1>2. Perform(slots, << >>, 0, nextId, Task.was)
  BY DEF DoRestore
<1>3. Price(Task, Waiting) = 0
  BY <1>1 DEF Price
<1>4. Price(Task, Waiting) - 0 = 0 /\ 0 <= Price(Task, Waiting) /\ 0 \in Nat
      /\ Task.op # "settle"
  BY <1>1, <1>3
<1>5. Measured(slots) /\ Paid(<< >>, 0, Waiting)
  BY <1>4, RunningIs, PaidNothing
<1> QED BY <1>1, <1>2, <1>4, <1>5, PerformMeasured

\* transformTo: the tools that wait for the change.
LEMMA BecomeMeasured ==
  ASSUME EffectsInv, MeasuredInv, agenda # << >>, Task.op # "settle",
         NEW id \in Ids, NEW f, NEW r \in Rarities, NEW kind, Become(id, f, r, kind),
         2 <= Price(Task, Waiting),
         Paid(Emit(kind, id), Price(Task, Waiting) - 2, Waiting)
  PROVE  MeasuredInv'
<1> DEFINE x == At(id)
           a == slots[x].activity + BaseActivity[r]
           q == slots[x].quantity + BaseQuantity[r]
           b == [slots EXCEPT ![x] = Monster(id, f, r, a, q)]
           e == Emit(kind, id)
<1>1. /\ Sound(slots, tools, nextId) /\ Measured(slots) /\ DOMAIN slots = 1..SlotCount
  BY RunningIs
<1>2. /\ x \in 1..SlotCount /\ slots[x].activity \in Nat /\ slots[x].quantity \in Nat
  BY <1>1, MeasuredIds
<1>3. a \in Nat /\ q \in Nat
  BY <1>2, BaseIs, SMTT(60)
<1>4. Perform(b, e, 2, nextId, removed)
  BY <1>1, <1>2 DEF Become
<1> HIDE DEF a, q, x
<1>5. \A i \in 1..SlotCount : b[i] = slots[i] \/ b[i] = Monster(id, f, r, a, q)
  BY <1>1
<1> HIDE DEF b, e
<1>6. Measured(b)
  BY <1>1, <1>3, <1>5, BoardMeasured
<1>7. 2 \in Nat
  OBVIOUS
<1> QED BY <1>4, <1>6, <1>7, PerformMeasured DEF e

\* mutate, and no other change of a monster, is waited for by tools.
LEMMA MutateMeasured ==
  ASSUME EffectsInv, MeasuredInv, DoMutate
  PROVE  MeasuredInv'
<1>1. agenda # << >> /\ Task.op = "mutate"
  BY DEF DoMutate, IsNext
<1>2. /\ Names(Task) \subseteq Ids /\ tools \in Seq(AllTools) /\ Len(tools) <= 3
      /\ Waiting \in Nat
  BY <1>1, HeadIs, RunningIs
<1>3. Task.id \in Ids
  BY <1>1, <1>2 DEF Names
<1>4. PICK f \in FamilyOf(Task.f), r \in RarityOf(Task.r) :
        Become(Task.id, f, r, "mutated")
  BY <1>3 DEF DoMutate
<1>5. Sized(Task)
  BY <1>1, HeadPaid
<1>6. r \in Rarities
  <2>1. Task.r \in {Drawn} \cup Rarities
    BY <1>1, <1>5 DEF Sized
  <2> QED BY <1>4, <2>1, DrawnRarity
<1>7. Price(Task, Waiting) = 2 + 13 * Waiting
  BY <1>1 DEF Price
<1>8. Price(Task, Waiting) - 2 = 13 * Waiting /\ 2 <= Price(Task, Waiting)
      /\ Task.op # "settle"
  BY <1>1, <1>2, <1>7
<1>9. Paid(Emit("mutated", Task.id), 13 * Waiting, Waiting)
  BY <1>2, EmitPaid DEF Waiting
<1> QED BY <1>1, <1>3, <1>4, <1>6, <1>8, <1>9, BecomeMeasured

\* awaken: the rarity it leads to is a rarity, a boss at the most.
LEMMA AwakenedRarity ==
  ASSUME EffectsInv, MeasuredInv, agenda # << >>, Task.op = "awaken",
         Task.id \in Ids
  PROVE  (IF Task.r # Drawn THEN Task.r
          ELSE Min({M(Task.id).rarity + Task.levels, Boss})) \in Rarities
<1> DEFINE s == M(Task.id).rarity
           l == s + Task.levels
           S == {l, Boss}
<1>1. Sound(slots, tools, nextId) /\ Measured(slots)
  BY RunningIs
<1>2. Task.r \in {Drawn} \cup Rarities /\ Task.levels \in Nat
  BY HeadPaid DEF Sized
<1>3. s \in 1..4 /\ Rarities = 1..4 /\ Boss = 4
  BY <1>1, MeasuredIds DEF Rarities, Normal, Boss
<1> HIDE DEF s
<1>4. l \in Nat /\ l >= 1
  BY <1>2, <1>3
<1> HIDE DEF l
<1>5. S \in SUBSET Nat /\ S # {}
  BY <1>3, <1>4
<1> HIDE DEF S
<1>6. Min(S) \in S /\ \A x \in S : Min(S) <= x
  BY <1>5, LeastIs
<1>7. Min(S) \in {l, Boss} /\ Min(S) <= Boss
  BY <1>6 DEF S
<1>8. Min(S) \in 1..4
  BY <1>3, <1>4, <1>7
<1>9. (IF Task.r # Drawn THEN Task.r ELSE Min(S)) \in Rarities
  BY <1>2, <1>3, <1>8
<1> QED BY <1>9 DEF S, l, s

\* awaken: no tool waits for it, and a boss is the most it leads to.
LEMMA AwakenMeasured ==
  ASSUME EffectsInv, MeasuredInv, DoAwaken
  PROVE  MeasuredInv'
<1>1. agenda # << >> /\ Task.op = "awaken"
  BY DEF DoAwaken, IsNext
<1> DEFINE r == IF Task.r # Drawn THEN Task.r
                ELSE Min({M(Task.id).rarity + Task.levels, Boss})
<1>2. /\ Names(Task) \subseteq Ids /\ tools \in Seq(AllTools) /\ Len(tools) <= 3
      /\ Waiting \in Nat
  BY <1>1, HeadIs, RunningIs
<1>3. Task.id \in Ids
  BY <1>1, <1>2 DEF Names
<1>4. Call(<< >>, 0) \/ Become(Task.id, M(Task.id).family, r, "awakened")
  BY <1>3 DEF DoAwaken
<1>5. r \in Rarities
  BY <1>1, <1>3, AwakenedRarity
<1>6. Price(Task, Waiting) = 2
  BY <1>1 DEF Price
<1>7. Price(Task, Waiting) - 2 = 0 /\ Price(Task, Waiting) - 0 = 2
      /\ 0 <= Price(Task, Waiting) /\ 2 <= Price(Task, Waiting)
      /\ Task.op # "settle" /\ 0 \in Nat /\ 2 \in Nat
  BY <1>1, <1>6
<1>8. Paid(Emit("awakened", Task.id), 0, Waiting)
  BY <1>2, EmitPaid DEF Waiting, Silent
<1> HIDE DEF r
<1>9. CASE Call(<< >>, 0)
  <2>1. Paid(<< >>, 2, Waiting)
    BY <1>2, <1>7, PaidNothing
  <2> QED BY <1>1, <1>7, <1>9, <2>1, CallMeasured
<1>10. CASE Become(Task.id, M(Task.id).family, r, "awakened")
  BY <1>1, <1>3, <1>5, <1>7, <1>8, <1>10, BecomeMeasured
<1> QED BY <1>4, <1>9, <1>10

\* fuse: the values are summed and the rarity is one more, or the named one.
LEMMA FusionMeasured ==
  ASSUME EffectsInv, MeasuredInv, DoFuse
  PROVE  MeasuredInv'
<1>1. agenda # << >> /\ Task.op = "fuse"
  BY DEF DoFuse, IsNext
<1> DEFINE taken == ToSet(Task.ids)
           fused == {At(id) : id \in taken}
           spot == Min(fused)
           highest == Max({slots[i].rarity : i \in fused})
           rarity == IF Task.r # Drawn THEN Task.r ELSE Min({highest + 1, Boss})
           g == [j \in fused |-> slots[j].activity]
           h == [j \in fused |-> slots[j].quantity]
           a == SumFunction(g)
           q == SumFunction(h)
           e == Emit("fused", nextId)
           b(f) == [i \in 1..SlotCount |->
                      IF i = spot THEN Monster(nextId, f, rarity, a, q)
                      ELSE IF i \in fused THEN Empty ELSE slots[i]]
<1>2. /\ Shaped(Task) /\ Names(Task) \subseteq Ids /\ Sound(slots, tools, nextId)
      /\ tools \in Seq(AllTools) /\ Len(tools) <= 3 /\ SlotCount \in Nat
      /\ Measured(slots) /\ Waiting \in Nat
  BY <1>1, HeadIs, RunningIs
<1>3. taken \in SUBSET Ids
  BY <1>1, <1>2 DEF Names
<1>4. taken # {}
  <2>1. Task.ids \in Seq(ToSet(Task.ids)) /\ Task.ids # << >>
    BY <1>1, <1>2 DEF Shaped
  <2>2. 1 \in DOMAIN Task.ids
    BY <2>1
  <2> QED BY <2>2 DEF ToSet
<1>5. PICK f \in FamilyOf(Task.f) : Perform(b(f), e, 2, nextId + 1, removed)
  BY <1>3 DEF DoFuse
<1>6. /\ fused # {} /\ fused \in SUBSET (1..SlotCount) /\ IsFiniteSet(fused)
      /\ \A i \in fused : /\ slots[i].activity \in Nat /\ slots[i].quantity \in Nat
                          /\ slots[i].rarity \in Rarities
  <2>1. \A id \in Ids : /\ At(id) \in 1..SlotCount
                        /\ slots[At(id)].activity \in Nat
                        /\ slots[At(id)].quantity \in Nat
                        /\ slots[At(id)].rarity \in Rarities
    BY <1>2, MeasuredIds
  <2>2. fused # {} /\ fused \in SUBSET (1..SlotCount)
        /\ \A i \in fused : /\ slots[i].activity \in Nat /\ slots[i].quantity \in Nat
                            /\ slots[i].rarity \in Rarities
    BY <1>3, <1>4, <2>1
  <2> HIDE DEF fused
  <2>3. IsFiniteSet(fused)
    BY <1>2, <2>2, FinitePlaces
  <2> QED BY <2>2, <2>3
<1>7. Sized(Task)
  BY <1>1, HeadPaid
<1>8. Task.r \in {Drawn} \cup Rarities
  BY <1>1, <1>7 DEF Sized
<1> HIDE DEF taken, fused
<1>9. rarity \in Rarities
  <2> DEFINE R == {slots[i].rarity : i \in fused}
             S == {highest + 1, Boss}
  <2>1. Rarities = 1..4 /\ Boss = 4 /\ 4 \in Nat
    BY DEF Rarities, Normal, Boss
  <2>2. R \in SUBSET (1..4) /\ R # {}
    BY <1>6, <2>1
  <2>3. highest = Max(R)
    OBVIOUS
  <2> HIDE DEF R, highest
  <2>4. highest \in 1..4
    BY <2>1, <2>2, <2>3, GreatestIs
  <2>5. S \in SUBSET Nat /\ S # {}
    BY <2>1, <2>4
  <2>6. rarity = IF Task.r # Drawn THEN Task.r ELSE Min(S)
    OBVIOUS
  <2> HIDE DEF S, rarity
  <2>7. Min(S) \in S /\ \A x \in S : Min(S) <= x
    BY <2>5, LeastIs
  <2>8. Min(S) \in {highest + 1, Boss} /\ Min(S) <= Boss
    BY <2>7 DEF S
  <2>9. Min(S) \in 1..4
    BY <2>1, <2>4, <2>8
  <2> QED BY <1>8, <2>1, <2>6, <2>9
<1>10. a \in Nat /\ q \in Nat
  <2>1. /\ DOMAIN g = fused /\ DOMAIN h = fused
        /\ \A j \in fused : g[j] \in Nat /\ h[j] \in Nat
    BY <1>6
  <2>2. fused \in SUBSET fused
    OBVIOUS
  <2> HIDE DEF g, h
  <2>3. SumFunction(g) \in Nat
    BY <1>6, <2>1, <2>2, SumSplit
  <2>4. SumFunction(h) \in Nat
    BY <1>6, <2>1, <2>2, SumSplit
  <2> QED BY <2>3, <2>4
<1> DEFINE c == b(f)
<1> HIDE DEF spot, rarity, a, q
<1>11. \A i \in 1..SlotCount :
         \/ c[i] = slots[i] \/ c[i] = Empty
         \/ c[i] = Monster(nextId, f, rarity, a, q)
  OBVIOUS
<1>12. Perform(c, e, 2, nextId + 1, removed)
  BY <1>5
<1>13. Paid(e, 0, Waiting)
  BY <1>2, EmitPaid DEF Waiting, Silent
<1> HIDE DEF b, c, e
<1>14. Measured(c)
  BY <1>2, <1>9, <1>10, <1>11, BoardMeasured
<1>15. Price(Task, Waiting) = 2
  BY <1>1 DEF Price
<1>16. Price(Task, Waiting) - 2 = 0 /\ 2 <= Price(Task, Waiting) /\ 2 \in Nat
       /\ Task.op # "settle"
  BY <1>1, <1>15
<1> QED BY <1>1, <1>12, <1>13, <1>14, <1>16, PerformMeasured

\* devour calls nobody.
LEMMA DevourMeasured ==
  ASSUME EffectsInv, MeasuredInv, DoDevour
  PROVE  MeasuredInv'
<1>1. agenda # << >> /\ Task.op = "devour"
  BY DEF DoDevour, IsNext
<1> DEFINE id == Task.id
           prey == Task.prey
           b == [slots EXCEPT ![At(id)].activity = @ + M(prey).activity,
                              ![At(id)].quantity = @ + M(prey).quantity,
                              ![At(prey)] = Empty]
           e == Emit("devoured", id)
<1>2. /\ Shaped(Task) /\ Names(Task) \subseteq Ids /\ Sound(slots, tools, nextId)
      /\ tools \in Seq(AllTools) /\ Len(tools) <= 3 /\ Measured(slots)
      /\ DOMAIN slots = 1..SlotCount
  BY <1>1, HeadIs, RunningIs
<1>3. id \in Ids /\ prey \in Ids /\ id # prey
  BY <1>1, <1>2 DEF Names, Shaped
<1>4. Perform(b, e, 2, nextId, removed)
  BY <1>3 DEF DoDevour
<1> DEFINE x == At(id)
           y == At(prey)
           u == M(prey).activity
           v == M(prey).quantity
<1>5. /\ x \in 1..SlotCount /\ slots[x].activity \in Nat /\ slots[x].quantity \in Nat
      /\ slots[x].rarity \in Rarities
      /\ y \in 1..SlotCount /\ u \in Nat /\ v \in Nat
  BY <1>2, <1>3, MeasuredIds
<1>6. Shape(slots[x])
  BY <1>2, <1>5 DEF Sound, Shape
<1>7. b = [slots EXCEPT ![x].activity = @ + u, ![x].quantity = @ + v, ![y] = Empty]
  OBVIOUS
<1>8. x # y
  <2>1. M(id).id = id /\ M(prey).id = prey /\ M(id) = slots[x] /\ M(prey) = slots[y]
    BY <1>2, <1>3, AtIs DEF M
  <2> QED BY <1>3, <2>1
<1> HIDE DEF x, y, u, v, b, e, id, prey
<1>9. /\ b[x] = Monster(slots[x].id, slots[x].family, slots[x].rarity,
                        slots[x].activity + u, slots[x].quantity + v)
      /\ b[y] = Empty
      /\ \A i \in 1..SlotCount : i # x /\ i # y => b[i] = slots[i]
  BY <1>2, <1>5, <1>6, <1>7, <1>8 DEF Shape, Monster
<1>10. slots[x].activity + u \in Nat /\ slots[x].quantity + v \in Nat
  BY <1>5
<1>11. \E i, f : \E r \in Rarities : \E a, q \in Nat : b[x] = Monster(i, f, r, a, q)
  BY <1>5, <1>9, <1>10
<1>12. Measured(b)
  BY <1>2, <1>9, <1>11, BoardMeasured
<1>13. Paid(e, 0, Waiting)
  BY <1>2, EmitPaid DEF Waiting, Silent, e
<1>14. Price(Task, Waiting) = 2
  BY <1>1 DEF Price
<1>15. Price(Task, Waiting) - 2 = 0 /\ 2 <= Price(Task, Waiting) /\ 2 \in Nat
       /\ Task.op # "settle"
  BY <1>1, <1>14
<1> QED BY <1>1, <1>4, <1>12, <1>13, <1>15, PerformMeasured

\* A triggered tool calls what its event makes it cost.
LEMMA ToolMeasured ==
  ASSUME EffectsInv, MeasuredInv, DoTool
  PROVE  MeasuredInv'
<1>1. agenda # << >> /\ Task.op = "tool"
  BY DEF DoTool, IsNext
<1> DEFINE h == Task.handler
           c == Reaction(Trigger(h), Waiting)
<1>2. /\ Shaped(Task) /\ Sound(slots, tools, nextId) /\ SlotCount \in Nat
      /\ SlotCount <= 6 /\ Measured(slots) /\ Waiting \in 0..3 /\ Waiting \in Nat
  BY <1>1, HeadIs, RunningIs
<1>3. h \in AllTools
  BY <1>1, <1>2 DEF Shaped
<1>4. PICK p \in ToolProgram(h, Task.id) : Call(p, 1)
  BY DEF DoTool
<1>5. Price(Task, Waiting) = c
  BY <1>1 DEF Price
<1>6. c \in Nat /\ 1 <= c
  BY <1>2 DEF Reaction
<1>7. Paid(p, c - 1, Waiting)
  <2>1. CASE Trigger(h) = "turn_end"
    <3>1. Paid(p, 72, Waiting)
      BY <1>2, <1>3, <1>4, <2>1, LateToolsPaid
    <3>2. c - 1 = 72
      BY <2>1 DEF Reaction
    <3> QED BY <3>1, <3>2
  <2>2. CASE Trigger(h) # "turn_end"
    BY <1>2, <1>3, <1>4, <2>2, ReactionsPaid
  <2> QED BY <2>1, <2>2
<1> HIDE DEF c
<1>8. 1 <= Price(Task, Waiting) /\ Task.op # "settle" /\ 1 \in Nat
  BY <1>1, <1>5, <1>6
<1> QED BY <1>1, <1>4, <1>5, <1>7, <1>8, CallMeasured

\* Monsters picked when the task is executed are no more than the board holds.
LEMMA PickMeasured ==
  ASSUME EffectsInv, MeasuredInv, DoPick
  PROVE  MeasuredInv'
<1>1. agenda # << >> /\ Task.op \in {"buffAll", "buffSome", "addTwin", "tick"}
      /\ Task.op # "settle"
  BY DEF DoPick, IsNext
<1>2. /\ Sound(slots, tools, nextId) /\ SlotCount \in Nat /\ SlotCount <= 6
      /\ Names(Task) \subseteq Ids /\ Measured(slots) /\ Waiting \in 0..3
      /\ Waiting \in Nat
  BY <1>1, HeadIs, RunningIs
<1>3. Sized(Task)
  BY <1>1, HeadPaid
<1>4. 0 \in Nat /\ 1 \in Nat /\ 2 \in Nat /\ 6 \in Nat /\ 12 \in Nat /\ 54 \in Nat
      /\ 6 * 2 <= 12 /\ 1 * 54 <= 54 /\ 2 <= 2
  OBVIOUS
<1>5. \A s \in Lists(Ids) : \A a, q \in Nat : Paid(BuffEach(s, a, q), 12, Waiting)
  <2> SUFFICES ASSUME NEW s \in Lists(Ids), NEW a \in Nat, NEW q \in Nat
               PROVE  Paid(BuffEach(s, a, q), 12, Waiting)
    OBVIOUS
  <2>1. s \in Seq(Ids)
    BY ListIs
  <2>2. Len(s) \in Nat /\ Len(s) <= SlotCount
    BY <1>2, ListsAreShort
  <2>3. Len(s) <= 6
    BY <1>2, <2>2
  <2>4. Brief(BuffEach(s, a, q), 6, 2, Waiting)
    BY <1>2, <1>4, <2>1, <2>3, BriefBuffs
  <2> QED BY <1>2, <1>4, <2>4, BriefPaid
<1>6. \A g : Pool(g) \in Lists(Ids)
  BY <1>2, GroupLists
<1>7. CASE Task.op \in {"buffAll", "buffSome"}
  <2>1. Price(Task, Waiting) = 12
    BY <1>7 DEF Price
  <2>2. Task.a \in Nat /\ Task.q \in Nat
    BY <1>3, <1>7 DEF Sized
  <2>3. \E s \in Lists(Ids) : Call(BuffEach(s, Task.a, Task.q), 0)
    <3>1. CASE Task.op = "buffAll"
      <4>1. Call(BuffEach(Pool(Task.pool), Task.a, Task.q), 0)
        BY <3>1 DEF DoPick, IsNext
      <4> QED BY <1>6, <4>1
    <3>2. CASE Task.op = "buffSome"
      <4>1. PICK s \in Picks(Pool(Task.pool), Task.n) :
              Call(BuffEach(s, Task.a, Task.q), 0)
        BY <3>2 DEF DoPick, IsNext
      <4>2. s \in Lists(Ids)
        BY <1>6, <4>1, PicksPart
      <4> QED BY <4>1, <4>2
    <3> QED BY <1>7, <3>1, <3>2
  <2>4. PICK s \in Lists(Ids) : Call(BuffEach(s, Task.a, Task.q), 0)
    BY <2>3
  <2>5. Paid(BuffEach(s, Task.a, Task.q), 12, Waiting)
    BY <1>5, <2>2
  <2>6. Price(Task, Waiting) - 0 = 12 /\ 0 <= Price(Task, Waiting)
    BY <2>1
  <2> QED BY <1>1, <1>4, <2>4, <2>5, <2>6, CallMeasured
<1>8. CASE Task.op = "addTwin"
  <2> DEFINE r == M(Task.id).rarity
             f == M(Task.id).family
             o == <<Add(f, r, 0, 0)>>
  <2>1. Call(o, 0)
    BY <1>8 DEF DoPick, IsNext
  <2>2. Price(Task, Waiting) = 54
    BY <1>8 DEF Price
  <2>3. Task.id \in Ids
    BY <1>2, <1>8 DEF Names
  <2>4. r \in {Drawn} \cup Rarities
    BY <1>2, <2>3, MeasuredIds
  <2> HIDE DEF r, f
  <2>5. Cheap(Add(f, r, 0, 0), 54, Waiting)
    BY <1>2, <1>4, <2>4, TaskCosts
  <2>6. Brief(o, 1, 54, Waiting)
    BY <2>5, BriefShort
  <2> HIDE DEF o
  <2>7. Paid(o, 54, Waiting)
    BY <1>2, <1>4, <2>6, BriefPaid
  <2>8. Price(Task, Waiting) - 0 = 54 /\ 0 <= Price(Task, Waiting)
    BY <2>2
  <2> QED BY <1>1, <1>4, <2>1, <2>7, <2>8, CallMeasured
<1>9. CASE Task.op = "tick"
  <2>1. Call(<< >>, 1)
    BY <1>9 DEF DoPick, IsNext
  <2>2. Price(Task, Waiting) = 1
    BY <1>9 DEF Price
  <2>3. Price(Task, Waiting) - 1 = 0 /\ 1 <= Price(Task, Waiting)
    BY <2>2
  <2>4. Paid(<< >>, 0, Waiting)
    BY <1>2, <1>4, PaidNothing
  <2> QED BY <1>1, <1>4, <2>1, <2>3, <2>4, CallMeasured
<1> QED BY <1>1, <1>7, <1>8, <1>9

\* The end of the turn calls at most three tools.
LEMMA EndOfTurnMeasured ==
  ASSUME EffectsInv, MeasuredInv, DoEndTurn
  PROVE  MeasuredInv'
<1>1. agenda # << >> /\ Task.op = "endTurn"
  BY DEF DoEndTurn, IsNext
<1> DEFINE e == Emit("turn_end", 0)
<1>2. /\ tools \in Seq(AllTools) /\ Len(tools) <= 3 /\ StepLimit \in Nat
      /\ Measured(slots)
  BY RunningIs
<1>3. Price(Task, Waiting) = 220
  BY <1>1 DEF Price
<1>4. Price(Task, Waiting) - 1 = 219 /\ 1 <= Price(Task, Waiting) /\ 1 \in Nat
      /\ Task.op # "settle"
  BY <1>1, <1>3
<1>5. Paid(e, 219, Waiting)
  BY <1>2, EmitPaid DEF Waiting
<1> HIDE DEF e
<1>6. steps + 1 <= StepLimit /\ steps + 1 \in Nat
  <2>1. Paid(e, Price(Task, Waiting) - 1, Waiting)
    BY <1>4, <1>5
  <2>2. agenda # << >> /\ Task.op # "settle" /\ 1 \in Nat
        /\ 1 <= Price(Task, Waiting)
    BY <1>1, <1>4
  <2> QED BY <2>1, <2>2, AgendaPaid
<1>7. ~(steps + 1 > StepLimit)
  BY <1>2, <1>6
<1>8. /\ agenda' = After(e, agenda) /\ steps' = steps + 1 /\ slots' = slots
      /\ tools' = tools /\ saved' = saved /\ outcome' = outcome
  BY <1>7 DEF DoEndTurn, After, e
<1> QED BY <1>1, <1>2, <1>4, <1>5, <1>8, NextMeasured

\* The number of tools that wait for an event is a number.
LEMMA CountIs ==
  ASSUME NEW held \in Seq(AllTools), NEW kind
  PROVE  Count(held, kind) \in Nat
<1> DEFINE n == Len(held)
           places == {i \in DOMAIN held : Trigger(held[i]) = kind}
<1>1. n \in Nat /\ places \in SUBSET (1..n)
  OBVIOUS
<1>2. Count(held, kind) = Cardinality(places)
  BY DEF Count
<1> HIDE DEF n, places
<1> QED BY <1>1, <1>2, FinitePlaces

\* The accepted command leaves a checkpoint that the next one can start from.
LEMMA SettleMeasured ==
  ASSUME EffectsInv, MeasuredInv, DoSettle
  PROVE  MeasuredInv'
<1>1. agenda # << >> /\ Task.op = "settle"
  BY DEF DoSettle, IsNext
<1>2. Price(Task, Waiting) = 1 /\ StepLimit \in Nat /\ Waiting \in Nat
  BY <1>1, RunningIs DEF Price
<1>3. steps + 1 <= StepLimit /\ steps \in Nat
  BY <1>1, <1>2, HeadPaid DEF MeasuredInv
<1>4. ~(steps + 1 > StepLimit)
  BY <1>2, <1>3
<1>5. CASE Abort("overflow")
  BY <1>5, AbortMeasured
<1>6. CASE ~Abort("overflow")
  <2>1. /\ saved' = Working /\ agenda' = << >> /\ steps' = 0 /\ outcome' = "done"
        /\ slots' = slots /\ tools' = tools
    BY <1>4, <1>6 DEF DoSettle
  <2>2. Working.slots = slots /\ Working.tools = tools
    BY DEF Working
  <2>3. Waiting' = Waiting
    BY <2>1 DEF Waiting
  <2>4. Paid(<< >>, 0, Waiting) /\ 0 + 0 <= StepLimit /\ 0 \in Nat
    BY <1>2, PaidNothing
  <2>5. \E n \in Nat : 0 + n <= StepLimit /\ Paid(<< >>, n, Waiting)
    BY <2>4
  <2>6. Measured(slots) /\ Len(tools) <= MaxTools
    BY DEF MeasuredInv
  <2> QED BY <2>1, <2>2, <2>3, <2>4, <2>5, <2>6 DEF MeasuredInv
<1> QED BY <1>5, <1>6

\* The end of a command.
LEMMA EndPaid ==
  ASSUME NEW m \in Nat
  PROVE  Paid(<<EndTurn, Settle>>, 221, m) /\ Paid(<<Settle>>, 221, m)
<1>1. /\ Sized(EndTurn) /\ Price(EndTurn, m) = 220
      /\ Sized(Settle) /\ Price(Settle, m) = 1
  BY DEF Sized, Price, EndTurn, Settle
<1>2. 220 + 1 <= 221 /\ 221 \in Nat /\ 1 \in Nat /\ 1 * 1 <= 221
  OBVIOUS
<1>3. Price(EndTurn, m) + Price(Settle, m) <= 221
  BY <1>1, <1>2
<1>4. Cheap(Settle, 1, m)
  BY <1>1 DEF Cheap
<1>5. Brief(<<Settle>>, 1, 1, m)
  BY <1>4, BriefShort
<1>6. Paid(<<EndTurn, Settle>>, 221, m)
  BY <1>1, <1>2, <1>3, PaidTwo
<1>7. Paid(<<Settle>>, 221, m)
  BY <1>2, <1>5, BriefPaid
<1> QED BY <1>6, <1>7

\* 290 steps for a card and 221 for the end of its turn.
LEMMA PlayMeasured ==
  ASSUME EffectsInv, MeasuredInv, NEW c \in Cards, NEW t \in LegalTargets(c),
         Play(c, t)
  PROVE  MeasuredInv'
<1> DEFINE m == Waiting
           o == <<EndTurn, Settle>>
<1>1. /\ agenda = << >> /\ slots' = slots /\ tools' = tools
      /\ saved' = saved /\ steps' = steps /\ outcome' = "running"
  BY DEF Play
<1>2. PICK p \in CardProgram(c, t) : agenda' = p \o o
  BY DEF Play
<1>3. /\ Sound(slots, tools, nextId) /\ SlotCount \in Nat /\ SlotCount <= 6
      /\ Measured(slots) /\ m \in 0..3 /\ m \in Nat
      /\ StepLimit \in Nat /\ 512 <= StepLimit
  BY RunningIs
<1>4. Ids # {}
  BY <1>1 DEF EffectsInv, Ready, Survived
<1>5. c \in AllCards
  BY CatalogueAssumption
<1>6. Paid(p, 290, m)
  <2> HIDE DEF m
  <2> QED BY <1>2, <1>3, <1>4, <1>5, CardsPaid
<1>7. Paid(o, 221, m)
  BY <1>3, EndPaid
<1>8. /\ o \in Seq(ToSet(o)) /\ Len(o) = 2 /\ o[2].op = "settle"
  <2>1. o \in Seq(ToSet(o))
    BY <1>7 DEF Paid
  <2> QED BY <2>1 DEF Settle
<1> HIDE DEF o, m
<1>9. Paid(p \o o, 511, m)
  <2>1. 290 \in Nat /\ 221 \in Nat /\ 511 \in Nat /\ 290 + 221 <= 511
    OBVIOUS
  <2> QED BY <1>3, <1>6, <1>7, <2>1, PaidJoin
<1>10. steps = 0
  BY <1>1 DEF MeasuredInv
<1>11. \E n \in Nat : steps + n <= StepLimit /\ Paid(p \o o, n, m)
  <2>1. steps + 511 <= StepLimit /\ 511 \in Nat
    BY <1>3, <1>10
  <2> QED BY <1>9, <2>1
<1>12. p \o o # << >> /\ (p \o o)[Len(p \o o)].op = "settle"
  <2>1. p \in Seq(ToSet(p))
    BY <1>6 DEF Paid
  <2>2. /\ Len(p \o o) = Len(p) + Len(o) /\ Len(p) \in Nat
        /\ \A i \in 1..Len(o) : (p \o o)[Len(p) + i] = o[i]
    <3> DEFINE S == ToSet(p)
               T == ToSet(o)
    <3>1. p \in Seq(S) /\ o \in Seq(T)
      BY <1>8, <2>1
    <3> HIDE DEF S, T
    <3>2. Len(p) \in Nat
      BY <3>1
    <3> QED BY <3>1, <3>2, JoinIs
  <2>3. p \o o \in Seq(ToSet(p \o o))
    BY <1>8, <2>1, JoinIs
  <2> DEFINE u == p \o o
  <2>4. Len(u) = Len(p) + 2 /\ u[Len(p) + 2] = o[2] /\ Len(p) \in Nat
    BY <1>8, <2>2
  <2>5. u \in Seq(ToSet(u))
    BY <2>3
  <2> HIDE DEF u
  <2>6. u # << >>
    BY <2>4
  <2>7. u[Len(u)].op = "settle"
    BY <1>8, <2>4
  <2> QED BY <2>6, <2>7 DEF u
<1>13. Waiting' = m
  BY <1>1 DEF Waiting, m
<1>14. /\ Measured(saved.slots) /\ Len(tools) <= MaxTools
       /\ Len(saved.tools) <= MaxTools
  BY DEF MeasuredInv
<1> DEFINE u == p \o o
<1>15. /\ agenda' = u /\ u # << >> /\ u[Len(u)].op = "settle"
       /\ \E n \in Nat : steps + n <= StepLimit /\ Paid(u, n, m)
  BY <1>2, <1>11, <1>12
<1> HIDE DEF u
<1> QED BY <1>1, <1>3, <1>10, <1>13, <1>14, <1>15 DEF MeasuredInv

\* A tool is gained with one step spent, before the end of its turn.
LEMMA GainMeasured ==
  ASSUME EffectsInv, MeasuredInv, NEW h \in Handlers, GainTool(h)
  PROVE  MeasuredInv'
<1> DEFINE held == Append(tools, h)
           m == Count(held, "mutated")
<1>1. /\ agenda = << >> /\ slots' = slots /\ tools' = held
      /\ saved' = saved /\ steps' = 1 /\ outcome' = "running"
      /\ Len(tools) < MaxTools
      /\ agenda' \in {<<Settle>>, <<EndTurn, Settle>>}
  BY DEF GainTool
<1>2. /\ tools \in Seq(AllTools) /\ Measured(slots) /\ MaxTools \in Nat
      /\ StepLimit \in Nat /\ 512 <= StepLimit
  BY RunningIs
<1>3. held \in Seq(AllTools) /\ Len(held) = Len(tools) + 1 /\ Len(tools) \in Nat
  BY <1>2, CatalogueAssumption
<1> HIDE DEF held
<1>4. Len(held) <= MaxTools
  BY <1>1, <1>2, <1>3
<1>5. m \in Nat /\ Waiting' = m
  BY <1>1, <1>3, CountIs DEF Waiting
<1> HIDE DEF m
<1>6. Paid(agenda', 221, m)
  BY <1>1, <1>5, EndPaid
<1>7. 1 + 221 <= StepLimit /\ 221 \in Nat /\ 1 \in Nat /\ 1 # 0
  BY <1>2
<1>8. \E n \in Nat : 1 + n <= StepLimit /\ Paid(agenda', n, m)
  BY <1>6, <1>7
<1>9. agenda' # << >> /\ agenda'[Len(agenda')].op = "settle"
  BY <1>1 DEF Settle
<1>10. Measured(saved.slots) /\ Len(saved.tools) <= MaxTools
  BY DEF MeasuredInv
<1> QED BY <1>1, <1>2, <1>4, <1>5, <1>7, <1>8, <1>9, <1>10 DEF MeasuredInv

-----------------------------------------------------------------------------
(* The theorems.                                                           *)

\* A step of a command keeps the invariant.
LEMMA StepMeasured ==
  ASSUME EffectsInv, MeasuredInv, Step
  PROVE  MeasuredInv'
<1>1. CASE DoBuff      BY <1>1, BuffMeasured
<1>2. CASE DoAdd       BY <1>2, AddMeasured
<1>3. CASE DoRemove    BY <1>3, RemovalMeasured
<1>4. CASE DoRestore   BY <1>4, EndOfRemovalMeasured
<1>5. CASE DoMutate    BY <1>5, MutateMeasured
<1>6. CASE DoAwaken    BY <1>6, AwakenMeasured
<1>7. CASE DoFuse      BY <1>7, FusionMeasured
<1>8. CASE DoDevour    BY <1>8, DevourMeasured
<1>9. CASE DoTool      BY <1>9, ToolMeasured
<1>10. CASE DoPick     BY <1>10, PickMeasured
<1>11. CASE DoOverflow
  BY <1>11, AbortMeasured DEF DoOverflow
<1>12. CASE DoEndTurn  BY <1>12, EndOfTurnMeasured
<1>13. CASE DoSettle   BY <1>13, SettleMeasured
<1> QED BY <1>1, <1>2, <1>3, <1>4, <1>5, <1>6, <1>7, <1>8, <1>9, <1>10, <1>11,
           <1>12, <1>13 DEF Step

\* A checkpoint of the rules satisfies the invariant.
LEMMA InitIsMeasured == Init => MeasuredInv
<1> SUFFICES ASSUME Init PROVE MeasuredInv
  OBVIOUS
<1>1. /\ saved \in Checkpoints /\ slots = saved.slots /\ tools = saved.tools
      /\ agenda = << >> /\ steps = 0 /\ outcome = "done"
  BY DEF Init
<1>2. /\ Len(saved.tools) <= MaxTools
      /\ \A i \in 1..SlotCount : saved.slots[i].activity \in Nat
                               /\ saved.slots[i].quantity \in Nat
      /\ \A i \in Occupied(saved.slots) : saved.slots[i].rarity \in Rarities
  BY <1>1, RulesAssumption
<1>3. Measured(saved.slots)
  BY <1>2 DEF Measured, Occupied
<1>4. tools \in Seq(AllTools)
  BY <1>1, CatalogueAssumption DEF IsCheckpoint, Sound
<1>5. Waiting \in Nat
  BY <1>4, CountIs DEF Waiting
<1>6. Paid(<< >>, 0, Waiting) /\ 0 + 0 <= StepLimit /\ 0 \in Nat
  BY <1>5, PaidNothing, EffectsAssumption
<1>7. \E n \in Nat : 0 + n <= StepLimit /\ Paid(<< >>, n, Waiting)
  BY <1>6
<1> QED BY <1>1, <1>2, <1>3, <1>6, <1>7 DEF MeasuredInv

\* In every state of every command the steps that are left of the 512 pay for
\* all that engine.Apply's nested calls still have to do, whatever the cards,
\* the tools, their order and the draws.
THEOREM MeasuredInvariance == Spec => []MeasuredInv
<1>1. Init => MeasuredInv
  BY InitIsMeasured
<1>2. EffectsInv /\ MeasuredInv /\ [Next]_vars => MeasuredInv'
  <2> SUFFICES ASSUME EffectsInv, MeasuredInv, [Next]_vars PROVE MeasuredInv'
    OBVIOUS
  <2>1. CASE Step
    BY <2>1, StepMeasured
  <2>2. CASE \E c \in Cards : \E t \in LegalTargets(c) : Play(c, t)
    BY <2>2, PlayMeasured
  <2>3. CASE \E h \in Handlers : GainTool(h)
    BY <2>3, GainMeasured
  <2>4. CASE UNCHANGED vars
    <3>1. /\ slots' = slots /\ tools' = tools /\ saved' = saved
          /\ agenda' = agenda /\ steps' = steps /\ outcome' = outcome
      BY <2>4 DEF vars
    <3>2. Waiting' = Waiting
      BY <3>1 DEF Waiting
    <3> QED BY <3>1, <3>2 DEF MeasuredInv
  <2> QED BY <2>1, <2>2, <2>3, <2>4 DEF Next
<1> QED BY <1>1, <1>2, EffectsInvariance, PTL DEF Spec

\* docs/architecture.md, 57: at most 512 steps.  effects.go never refuses a
\* card because of them.
THEOREM NoCardIsTooLong == Spec => []NeverLimited
<1>1. MeasuredInv => NeverLimited
  BY DEF MeasuredInv, NeverLimited
<1> QED BY <1>1, MeasuredInvariance, PTL

-----------------------------------------------------------------------------
(* What the monsters are worth.                                            *)

\* The sums of two functions that differ in one part, whose sum is the same.
LEMMA SumParts ==
  ASSUME NEW S, IsFiniteSet(S), NEW f, NEW g, DOMAIN f = S, DOMAIN g = S,
         \A x \in S : f[x] \in Nat /\ g[x] \in Nat, NEW T \in SUBSET S,
         \A x \in S \ T : f[x] = g[x],
         SumFunction([x \in T |-> f[x]]) = SumFunction([x \in T |-> g[x]])
  PROVE  SumFunction(f) = SumFunction(g)
<1> DEFINE u == [x \in DOMAIN f \ T |-> f[x]]
           v == [x \in DOMAIN g \ T |-> g[x]]
           p == SumFunction([x \in T |-> f[x]])
           q == SumFunction([x \in T |-> g[x]])
<1>1. u = v
  OBVIOUS
<1>2. IsFiniteSet(DOMAIN f) /\ (\A x \in DOMAIN f : f[x] \in Nat)
      /\ IsFiniteSet(DOMAIN g) /\ (\A x \in DOMAIN g : g[x] \in Nat)
      /\ T \in SUBSET DOMAIN f /\ T \in SUBSET DOMAIN g
  OBVIOUS
<1>3. SumFunction(f) = p + SumFunction(u)
  BY <1>2, SumSplit
<1>4. SumFunction(g) = q + SumFunction(v)
  BY <1>2, SumSplit
<1>5. p = q
  OBVIOUS
<1> HIDE DEF u, v, p, q
<1> QED BY <1>1, <1>3, <1>4, <1>5

\* Nothing adds up to nothing.
LEMMA SumZero ==
  ASSUME NEW S, IsFiniteSet(S), NEW f, DOMAIN f = S, \A x \in S : f[x] = 0
  PROVE  SumFunction(f) = 0
<1>1. PICK G : /\ Adds(G, f, DOMAIN f) /\ SumFunction(f) = G[DOMAIN f]
               /\ \A s \in SUBSET DOMAIN f :
                    G[s] \in Nat /\ \A x \in s : G[s] = f[x] + G[s \ {x}]
  <2>1. IsFiniteSet(DOMAIN f) /\ \A x \in DOMAIN f : f[x] \in Nat
    OBVIOUS
  <2> QED BY <2>1, SumAny, ZenonT(60)
<1>2. /\ SumFunction(f) = G[S] /\ G[{}] = 0
      /\ \A s \in SUBSET S : G[s] \in Nat /\ \A x \in s : G[s] = f[x] + G[s \ {x}]
  BY <1>1 DEF Adds
<1> DEFINE off == {s \in SUBSET S : G[s] # 0}
<1>3. /\ off \in SUBSET (SUBSET S)
      /\ \A s \in SUBSET S : s \in off <=> G[s] # 0
  OBVIOUS
<1> HIDE DEF off
<1>4. off = {}
  <2> SUFFICES ASSUME off # {} PROVE FALSE
    OBVIOUS
  <2>1. PICK s \in off : \A u \in SUBSET s : u # s => u \notin off
    BY <1>3, SmallestIs
  <2>2. s \in SUBSET S /\ G[s] # 0
    BY <1>3
  <2>3. PICK x \in s : TRUE
    BY <1>2, <2>2
  <2>4. s \ {x} \in SUBSET S /\ s \ {x} \in SUBSET s /\ s \ {x} # s
    BY <2>2, <2>3
  <2>5. G[s \ {x}] = 0
    BY <1>3, <2>1, <2>4
  <2>6. G[s] = f[x] + G[s \ {x}] /\ f[x] = 0
    BY <1>2, <2>2, <2>3
  <2> QED BY <2>2, <2>5, <2>6
<1> QED BY <1>2, <1>3, <1>4

\* A sum that is all in one place.
LEMMA SumOne ==
  ASSUME NEW S, IsFiniteSet(S), NEW f, DOMAIN f = S, NEW x \in S, f[x] \in Nat,
         \A y \in S : y # x => f[y] = 0
  PROVE  SumFunction(f) = f[x]
<1> DEFINE rest == [y \in DOMAIN f \ {x} |-> f[y]]
<1>1. IsFiniteSet(DOMAIN f) /\ x \in DOMAIN f /\ \A y \in DOMAIN f : f[y] \in Nat
  OBVIOUS
<1>2. SumFunction(f) = f[x] + SumFunction(rest)
  BY <1>1, SumTake
<1>3. DOMAIN rest = S \ {x} /\ \A y \in S \ {x} : rest[y] = 0
  OBVIOUS
<1>4. IsFiniteSet(S \ {x})
  BY FS_RemoveElement
<1> HIDE DEF rest
<1>5. SumFunction(rest) = 0
  BY <1>3, <1>4, SumZero
<1> QED BY <1>2, <1>5

\* The sum of two.
LEMMA SumPair ==
  ASSUME NEW x, NEW y, x # y, NEW f, DOMAIN f = {x, y}, f[x] \in Nat, f[y] \in Nat
  PROVE  SumFunction(f) = f[x] + f[y]
<1> DEFINE rest == [z \in DOMAIN f \ {x} |-> f[z]]
<1>1. IsFiniteSet({x, y})
  <2>1. IsFiniteSet({x}) /\ {x, y} = {x} \cup {y}
    BY FS_Singleton
  <2> QED BY <2>1, FS_AddElement
<1>2. IsFiniteSet(DOMAIN f) /\ x \in DOMAIN f /\ \A z \in DOMAIN f : f[z] \in Nat
  BY <1>1
<1>3. SumFunction(f) = f[x] + SumFunction(rest)
  BY <1>2, SumTake
<1>4. DOMAIN rest = {y} /\ rest[y] = f[y]
  OBVIOUS
<1>5. IsFiniteSet({y}) /\ y \in {y}
  BY FS_Singleton
<1> HIDE DEF rest
<1>6. SumFunction(rest) = rest[y]
  <2>1. rest[y] \in Nat /\ \A z \in {y} : z # y => rest[z] = 0
    BY <1>4
  <2> QED BY <1>4, <1>5, <2>1, SumOne
<1> QED BY <1>3, <1>4, <1>6

\* Activity or quantity of the slots of a board.
Fields == {"activity", "quantity"}
Values(board, field) == [i \in 1..SlotCount |-> board[i][field]]

\* The values of a board are numbers.
LEMMA ValuesAre ==
  ASSUME SlotCount \in Nat, NEW board, Measured(board), NEW field \in Fields
  PROVE  /\ DOMAIN Values(board, field) = 1..SlotCount /\ IsFiniteSet(1..SlotCount)
         /\ \A i \in 1..SlotCount : Values(board, field)[i] \in Nat
                                    /\ Values(board, field)[i] = board[i][field]
<1>1. IsFiniteSet(1..SlotCount)
  BY FinitePlaces
<1>2. \A i \in 1..SlotCount : board[i][field] \in Nat
  BY DEF Measured, Fields
<1> QED BY <1>1, <1>2 DEF Values

\* What a step may do to the values of the board.
Kept(b, op) ==
  /\ \A i \in Board, j \in Occupied(b) : slots[i].id = b[j].id =>
       b[j].activity >= slots[i].activity /\ b[j].quantity >= slots[i].quantity
  /\ op # "remove" => \A field \in Fields :
       SumFunction(Values(b, field)) >= SumFunction(Values(slots, field))
  /\ op \in {"fuse", "devour"} => \A field \in Fields :
       SumFunction(Values(b, field)) = SumFunction(Values(slots, field))

\* A sum is a number.
LEMMA WorthIs ==
  ASSUME SlotCount \in Nat, NEW board, Measured(board), NEW field \in Fields
  PROVE  SumFunction(Values(board, field)) \in Nat
<1> DEFINE f == Values(board, field)
<1>1. IsFiniteSet(DOMAIN f) /\ \A i \in DOMAIN f : f[i] \in Nat
  BY ValuesAre
<1> HIDE DEF f
<1>2. {} \in SUBSET DOMAIN f
  OBVIOUS
<1>3. SumFunction(f) \in Nat
  BY <1>1, <1>2, SumSplit
<1> QED BY <1>3 DEF f

\* A step after which every slot is worth as much, and nobody has got the id of
\* another.
LEMMA GrowthKept ==
  ASSUME Sound(slots, tools, nextId), SlotCount \in Nat,
         Measured(slots), NEW b, Measured(b),
         \A i \in 1..SlotCount : /\ b[i].activity >= slots[i].activity
                                 /\ b[i].quantity >= slots[i].quantity,
         \A i \in Board : b[i].id = slots[i].id,
         \A i \in Occupied(b) : i \in Board \/ b[i].id = nextId,
         NEW op, op \notin {"fuse", "devour"}
  PROVE  Kept(b, op)
<1>1. \A i \in Board, j \in Occupied(b) : slots[i].id = b[j].id =>
        b[j].activity >= slots[i].activity /\ b[j].quantity >= slots[i].quantity
  <2> SUFFICES ASSUME NEW i \in Board, NEW j \in Occupied(b), slots[i].id = b[j].id
               PROVE  b[j].activity >= slots[i].activity
                      /\ b[j].quantity >= slots[i].quantity
    OBVIOUS
  <2>1. slots[i].id \in Ids /\ nextId \notin Ids
    BY IdsAre DEF Ids
  <2>2. j \in Board /\ slots[j].id = slots[i].id
    BY <2>1
  <2>3. i = j
    BY <2>2 DEF Sound, Board
  <2>4. i \in 1..SlotCount
    BY DEF Board, Occupied
  <2> QED BY <2>3, <2>4
<1>2. \A field \in Fields :
        SumFunction(Values(b, field)) >= SumFunction(Values(slots, field))
  <2> SUFFICES ASSUME NEW field \in Fields
               PROVE  SumFunction(Values(b, field)) >= SumFunction(Values(slots, field))
    OBVIOUS
  <2> DEFINE f == Values(slots, field)
             g == Values(b, field)
             S == 1..SlotCount
  <2>1. /\ IsFiniteSet(S) /\ DOMAIN f = S /\ DOMAIN g = S
        /\ \A i \in S : f[i] \in Nat /\ f[i] = slots[i][field]
        /\ \A i \in S : g[i] \in Nat /\ g[i] = b[i][field]
    BY ValuesAre
  <2>2. \A i \in S : b[i][field] >= slots[i][field]
    BY DEF Fields
  <2>3. SumFunction(f) \in Nat /\ SumFunction(g) \in Nat
    BY WorthIs
  <2> HIDE DEF f, g, S
  <2>4. \A i \in S : f[i] \in Nat /\ g[i] \in Nat /\ f[i] <= g[i]
    BY <2>1, <2>2
  <2>5. SumFunction(f) <= SumFunction(g)
    BY <2>1, <2>4, SumGrows
  <2>6. SumFunction(g) >= SumFunction(f)
    BY <2>3, <2>5
  <2> QED BY <2>6 DEF f, g
<1> QED BY <1>1, <1>2 DEF Kept

\* A task that is not the last of its command leaves the board it computes.
LEMMA PerformLeaves ==
  ASSUME NEW board, NEW called, NEW cost, NEW next, NEW gone,
         Perform(board, called, cost, next, gone), agenda' # << >>
  PROVE  slots' = board
BY DEF Perform, Abort

\* A board that stays as it is.
LEMMA SameKept ==
  ASSUME EffectsInv, MeasuredInv, NEW op, op \notin {"fuse", "devour"}
  PROVE  Kept(slots, op)
<1>1. Sound(slots, tools, nextId) /\ SlotCount \in Nat /\ Measured(slots)
  BY RunningIs
<1>2. \A i \in 1..SlotCount : /\ slots[i].activity >= slots[i].activity
                              /\ slots[i].quantity >= slots[i].quantity
  BY <1>1 DEF Measured
<1>3. \A i \in Occupied(slots) : i \in Board \/ slots[i].id = nextId
  BY DEF Board
<1> QED BY <1>1, <1>2, <1>3, GrowthKept

\* A board on which one monster has grown.
LEMMA OneKept ==
  ASSUME EffectsInv, MeasuredInv, NEW x \in Board, NEW b, Measured(b),
         \A i \in 1..SlotCount : i # x => b[i] = slots[i],
         b[x].id = slots[x].id,
         b[x].activity >= slots[x].activity, b[x].quantity >= slots[x].quantity,
         NEW op, op \notin {"fuse", "devour"}
  PROVE  Kept(b, op)
<1>1. Sound(slots, tools, nextId) /\ SlotCount \in Nat /\ Measured(slots)
  BY RunningIs
<1>2. \A i \in 1..SlotCount : /\ b[i].activity >= slots[i].activity
                              /\ b[i].quantity >= slots[i].quantity
  BY <1>1 DEF Measured
<1>3. \A i \in Board : b[i].id = slots[i].id
  BY DEF Board, Occupied
<1>4. \A i \in Occupied(b) : i \in Board \/ b[i].id = nextId
  BY DEF Board, Occupied
<1> QED BY <1>1, <1>2, <1>3, <1>4, GrowthKept

\* addActivity and addQuantity.
LEMMA BuffKept ==
  ASSUME EffectsInv, MeasuredInv, DoBuff, agenda' # << >>,
         NEW b, b = slots', Measured(b)
  PROVE  Kept(b, Task.op)
<1>1. agenda # << >> /\ Task.op = "buff"
  BY DEF DoBuff, IsNext
<1> DEFINE id == Task.id
           x == At(id)
<1>2. /\ Names(Task) \subseteq Ids /\ Sound(slots, tools, nextId)
      /\ Measured(slots) /\ DOMAIN slots = 1..SlotCount
  BY <1>1, HeadIs, RunningIs
<1>3. id \in Ids
  BY <1>1, <1>2 DEF Names
<1>4. Task.a \in Nat /\ Task.q \in Nat
  BY <1>1, HeadPaid DEF Sized
<1>5. b = [slots EXCEPT ![x].activity = @ + Task.a, ![x].quantity = @ + Task.q]
  BY <1>3, PerformLeaves DEF DoBuff
<1>6. /\ x \in Board /\ x \in 1..SlotCount
      /\ slots[x].activity \in Nat /\ slots[x].quantity \in Nat
  BY <1>2, <1>3, MeasuredIds
<1>7. Shape(slots[x])
  BY <1>2, <1>6 DEF Sound, Shape
<1> HIDE DEF x
<1>8. /\ b[x].id = slots[x].id
      /\ b[x].activity = slots[x].activity + Task.a
      /\ b[x].quantity = slots[x].quantity + Task.q
      /\ \A i \in 1..SlotCount : i # x => b[i] = slots[i]
  BY <1>2, <1>5, <1>6, <1>7 DEF Shape, Monster
<1>9. b[x].activity >= slots[x].activity /\ b[x].quantity >= slots[x].quantity
  BY <1>4, <1>6, <1>8
<1>10. Task.op \notin {"fuse", "devour"}
  BY <1>1
<1> QED BY <1>6, <1>8, <1>9, <1>10, OneKept

\* addMonster: the new monster has an id of its own.
LEMMA AddKept ==
  ASSUME EffectsInv, MeasuredInv, DoAdd, agenda' # << >>,
         NEW b, b = slots', Measured(b)
  PROVE  Kept(b, Task.op)
<1>1. agenda # << >> /\ Task.op = "add" /\ Task.op \notin {"fuse", "devour"}
  BY DEF DoAdd, IsNext
<1> DEFINE free == (1..SlotCount) \ Board
<1>2. /\ Sound(slots, tools, nextId) /\ SlotCount \in Nat
      /\ Measured(slots) /\ DOMAIN slots = 1..SlotCount
  BY <1>1, RunningIs
<1>3. CASE free = {}
  <2>1. b = slots
    BY <1>3, PerformLeaves DEF DoAdd, Call
  <2> QED BY <1>1, <2>1, SameKept
<1>4. CASE free # {}
  <2> DEFINE x == Min(free)
  <2>1. PICK f \in FamilyOf(Task.f), r \in RarityOf(Task.r) :
          b = [slots EXCEPT ![x] =
                 Monster(nextId, f, r, BaseActivity[r] + Task.a,
                         BaseQuantity[r] + Task.q)]
    BY <1>4, PerformLeaves DEF DoAdd
  <2>2. x \in 1..SlotCount /\ x \notin Board
    <3>1. free \in SUBSET Nat
      BY <1>2
    <3>2. x \in free
      BY <1>4, <3>1, LeastIs
    <3> QED BY <3>2
  <2> HIDE DEF x, free
  <2>3. slots[x].activity = 0 /\ slots[x].quantity = 0
    BY <2>2 DEF Board, Occupied, Empty, Monster
  <2>4. /\ b[x].id = nextId
        /\ \A i \in 1..SlotCount : i # x => b[i] = slots[i]
    BY <1>2, <2>1, <2>2, MonsterIs
  <2>5. b[x].activity \in Nat /\ b[x].quantity \in Nat
    BY <2>2 DEF Measured
  <2>6. \A i \in 1..SlotCount : /\ b[i].activity >= slots[i].activity
                                /\ b[i].quantity >= slots[i].quantity
    BY <1>2, <2>3, <2>4, <2>5 DEF Measured
  <2>7. \A i \in Board : b[i].id = slots[i].id
    BY <2>2, <2>4 DEF Board, Occupied
  <2>8. \A i \in Occupied(b) : i \in Board \/ b[i].id = nextId
    BY <2>4 DEF Board, Occupied
  <2> QED BY <1>1, <1>2, <2>6, <2>7, <2>8, GrowthKept
<1> QED BY <1>3, <1>4

\* transformTo: the values of the new rarity are added to the old ones.
LEMMA BecomeKept ==
  ASSUME EffectsInv, MeasuredInv, agenda' # << >>, NEW id \in Ids, NEW f,
         NEW r \in Rarities, NEW kind, Become(id, f, r, kind),
         NEW b, b = slots', Measured(b), NEW op, op \notin {"fuse", "devour"}
  PROVE  Kept(b, op)
<1> DEFINE x == At(id)
           a == slots[x].activity + BaseActivity[r]
           q == slots[x].quantity + BaseQuantity[r]
<1>1. /\ Sound(slots, tools, nextId) /\ Measured(slots) /\ DOMAIN slots = 1..SlotCount
  BY RunningIs
<1>2. /\ x \in Board /\ x \in 1..SlotCount /\ slots[x].id = id
      /\ slots[x].activity \in Nat /\ slots[x].quantity \in Nat
  BY <1>1, MeasuredIds, AtIs
<1>3. b = [slots EXCEPT ![x] = Monster(id, f, r, a, q)]
  BY <1>1, <1>2, PerformLeaves DEF Become
<1>4. a >= slots[x].activity /\ q >= slots[x].quantity
  BY <1>2, BaseIs
<1> HIDE DEF a, q, x
<1>5. /\ b[x] = Monster(id, f, r, a, q)
      /\ \A i \in 1..SlotCount : i # x => b[i] = slots[i]
  BY <1>1, <1>2, <1>3
<1>6. b[x].id = slots[x].id /\ b[x].activity = a /\ b[x].quantity = q
  BY <1>2, <1>5, MonsterIs
<1> QED BY <1>2, <1>4, <1>5, <1>6, OneKept

\* mutate.
LEMMA MutateKept ==
  ASSUME EffectsInv, MeasuredInv, DoMutate, agenda' # << >>,
         NEW b, b = slots', Measured(b)
  PROVE  Kept(b, Task.op)
<1>1. agenda # << >> /\ Task.op = "mutate" /\ Task.op \notin {"fuse", "devour"}
  BY DEF DoMutate, IsNext
<1>2. Names(Task) \subseteq Ids
  BY <1>1, HeadIs
<1>3. Task.id \in Ids
  BY <1>1, <1>2 DEF Names
<1>4. PICK f \in FamilyOf(Task.f), r \in RarityOf(Task.r) :
        Become(Task.id, f, r, "mutated")
  BY <1>3 DEF DoMutate
<1>5. r \in Rarities
  <2>1. Task.r \in {Drawn} \cup Rarities
    BY <1>1, HeadPaid DEF Sized
  <2> QED BY <1>4, <2>1, DrawnRarity
<1> QED BY <1>1, <1>3, <1>4, <1>5, BecomeKept

\* awaken.
LEMMA AwakenKept ==
  ASSUME EffectsInv, MeasuredInv, DoAwaken, agenda' # << >>,
         NEW b, b = slots', Measured(b)
  PROVE  Kept(b, Task.op)
<1> DEFINE r == IF Task.r # Drawn THEN Task.r
                ELSE Min({M(Task.id).rarity + Task.levels, Boss})
<1>1. agenda # << >> /\ Task.op = "awaken" /\ Task.op \notin {"fuse", "devour"}
  BY DEF DoAwaken, IsNext
<1>2. Names(Task) \subseteq Ids
  BY <1>1, HeadIs
<1>3. Task.id \in Ids
  BY <1>1, <1>2 DEF Names
<1>4. Call(<< >>, 0) \/ Become(Task.id, M(Task.id).family, r, "awakened")
  BY <1>3 DEF DoAwaken
<1>5. r \in Rarities
  BY <1>1, <1>3, AwakenedRarity
<1> HIDE DEF r
<1>6. CASE Call(<< >>, 0)
  <2>1. b = slots
    BY <1>6, PerformLeaves DEF Call
  <2> QED BY <1>1, <2>1, SameKept
<1>7. CASE Become(Task.id, M(Task.id).family, r, "awakened")
  BY <1>1, <1>3, <1>5, <1>7, BecomeKept
<1> QED BY <1>4, <1>6, <1>7

\* removeMonster: the others stay as they are.
LEMMA RemovalKept ==
  ASSUME EffectsInv, MeasuredInv, DoRemove, agenda' # << >>,
         NEW b, b = slots', Measured(b)
  PROVE  Kept(b, Task.op)
<1>1. agenda # << >> /\ Task.op = "remove"
  BY DEF DoRemove, IsNext
<1> DEFINE x == At(Task.id)
<1>2. /\ Names(Task) \subseteq Ids /\ Sound(slots, tools, nextId)
      /\ Measured(slots) /\ DOMAIN slots = 1..SlotCount
  BY <1>1, HeadIs, RunningIs
<1>3. Task.id \in Ids
  BY <1>1, <1>2 DEF Names
<1>4. b = [slots EXCEPT ![x] = Empty]
  BY <1>3, PerformLeaves DEF DoRemove
<1>5. x \in Board /\ x \in 1..SlotCount
  BY <1>2, <1>3, MeasuredIds
<1> HIDE DEF x
<1>6. b[x] = Empty /\ \A i \in 1..SlotCount : i # x => b[i] = slots[i]
  BY <1>2, <1>4, <1>5
<1>7. \A i \in Board, j \in Occupied(b) : slots[i].id = b[j].id =>
        b[j].activity >= slots[i].activity /\ b[j].quantity >= slots[i].quantity
  <2> SUFFICES ASSUME NEW i \in Board, NEW j \in Occupied(b), slots[i].id = b[j].id
               PROVE  b[j].activity >= slots[i].activity
                      /\ b[j].quantity >= slots[i].quantity
    OBVIOUS
  <2>1. j \in 1..SlotCount /\ j # x /\ b[j] = slots[j] /\ j \in Board
    BY <1>6 DEF Occupied, Board
  <2>2. i = j
    BY <1>2, <2>1 DEF Sound, Board
  <2>3. slots[j].activity \in Nat /\ slots[j].quantity \in Nat
    BY <1>2, <2>1 DEF Measured
  <2> QED BY <2>1, <2>2, <2>3
<1> QED BY <1>1, <1>7 DEF Kept

\* Tasks that change no monster.
LEMMA CallsKept ==
  ASSUME EffectsInv, MeasuredInv, DoTool \/ DoPick \/ DoRestore \/ DoEndTurn,
         agenda' # << >>, NEW b, b = slots'
  PROVE  Kept(b, Task.op)
<1>1. b = slots
  <2>1. CASE DoTool
    BY <2>1, PerformLeaves DEF DoTool, Call
  <2>2. CASE DoPick
    BY <2>2, PerformLeaves DEF DoPick, Call
  <2>3. CASE DoRestore
    BY <2>3, PerformLeaves DEF DoRestore
  <2>4. CASE DoEndTurn
    BY <2>4 DEF DoEndTurn, Abort
  <2> QED BY <2>1, <2>2, <2>3, <2>4
<1>2. Task.op \notin {"fuse", "devour"}
  BY DEF DoTool, DoPick, DoRestore, DoEndTurn, IsNext
<1> QED BY <1>1, <1>2, SameKept

\* A sum is the same when a part of it is put in one place.
LEMMA SumMoved ==
  ASSUME NEW S, IsFiniteSet(S), NEW f, NEW g, DOMAIN f = S, DOMAIN g = S,
         \A x \in S : f[x] \in Nat /\ g[x] \in Nat, NEW T \in SUBSET S, NEW spot \in T,
         \A x \in S \ T : f[x] = g[x], \A x \in T : x # spot => g[x] = 0,
         NEW u, u = [x \in T |-> f[x]], g[spot] = SumFunction(u)
  PROVE  SumFunction(f) = SumFunction(g)
<1> DEFINE v == [x \in T |-> g[x]]
<1>1. /\ IsFiniteSet(T) /\ DOMAIN v = T /\ v[spot] = g[spot] /\ v[spot] \in Nat
      /\ \A x \in T : x # spot => v[x] = 0
  BY FS_Subset
<1> HIDE DEF v
<1>3. SumFunction(v) = v[spot]
  BY <1>1, SumOne
<1>4. SumFunction(u) = SumFunction(v)
  BY <1>1, <1>3
<1> QED BY <1>4, SumParts DEF v

\* Both fields add up to the same.
LEMMA EvenKept ==
  ASSUME SlotCount \in Nat, Measured(slots), NEW b, Measured(b), NEW op,
         \A i \in Board, j \in Occupied(b) : slots[i].id = b[j].id =>
           b[j].activity >= slots[i].activity /\ b[j].quantity >= slots[i].quantity,
         \A field \in Fields :
           SumFunction(Values(b, field)) = SumFunction(Values(slots, field))
  PROVE  Kept(b, op)
<1>1. \A field \in Fields :
        SumFunction(Values(b, field)) >= SumFunction(Values(slots, field))
  <2> SUFFICES ASSUME NEW field \in Fields
               PROVE  SumFunction(Values(b, field)) >= SumFunction(Values(slots, field))
    OBVIOUS
  <2> DEFINE k == SumFunction(Values(b, field))
             n == SumFunction(Values(slots, field))
  <2>1. k = n /\ n \in Nat
    BY WorthIs
  <2> HIDE DEF k, n
  <2>2. k >= n
    BY <2>1
  <2> QED BY <2>2 DEF k, n
<1> QED BY <1>1 DEF Kept

\* fuse: the result is worth what was fused, under an id nobody had.
LEMMA FusionKept ==
  ASSUME EffectsInv, MeasuredInv, DoFuse, agenda' # << >>,
         NEW b, b = slots', Measured(b)
  PROVE  Kept(b, Task.op)
<1>1. agenda # << >> /\ Task.op = "fuse"
  BY DEF DoFuse, IsNext
<1> DEFINE taken == ToSet(Task.ids)
           fused == {At(id) : id \in taken}
           spot == Min(fused)
           highest == Max({slots[i].rarity : i \in fused})
           rarity == IF Task.r # Drawn THEN Task.r ELSE Min({highest + 1, Boss})
           a == SumFunction([j \in fused |-> slots[j].activity])
           q == SumFunction([j \in fused |-> slots[j].quantity])
<1>2. /\ Shaped(Task) /\ Names(Task) \subseteq Ids /\ Sound(slots, tools, nextId)
      /\ SlotCount \in Nat /\ Measured(slots)
  BY <1>1, HeadIs, RunningIs
<1>3. taken \in SUBSET Ids
  BY <1>1, <1>2 DEF Names
<1>4. taken # {}
  <2>1. Task.ids \in Seq(ToSet(Task.ids)) /\ Task.ids # << >>
    BY <1>1, <1>2 DEF Shaped
  <2>2. 1 \in DOMAIN Task.ids
    BY <2>1
  <2> QED BY <2>2 DEF ToSet
<1>5. PICK f \in FamilyOf(Task.f) :
        b = [i \in 1..SlotCount |->
               IF i = spot THEN Monster(nextId, f, rarity, a, q)
               ELSE IF i \in fused THEN Empty ELSE slots[i]]
  BY <1>3, PerformLeaves DEF DoFuse
<1>6. fused # {} /\ fused \in SUBSET (1..SlotCount) /\ spot \in fused
  <2>1. \A id \in Ids : At(id) \in 1..SlotCount
    BY <1>2, AtIs
  <2>2. fused # {} /\ fused \in SUBSET (1..SlotCount)
    BY <1>3, <1>4, <2>1
  <2> HIDE DEF fused
  <2>3. fused \in SUBSET Nat
    BY <2>2
  <2> QED BY <2>2, <2>3, LeastIs
<1> HIDE DEF taken, fused, spot, rarity
<1>7. /\ b[spot] = Monster(nextId, f, rarity, a, q)
      /\ \A i \in fused : i # spot => b[i] = Empty
      /\ \A i \in (1..SlotCount) \ fused : b[i] = slots[i]
  BY <1>5, <1>6
<1>8. b[spot].id = nextId /\ b[spot].activity = a /\ b[spot].quantity = q
  <2> HIDE DEF a, q
  <2> QED BY <1>7, MonsterIs
<1>9. \A field \in Fields :
        SumFunction(Values(b, field)) = SumFunction(Values(slots, field))
  <2> SUFFICES ASSUME NEW field \in Fields
               PROVE  SumFunction(Values(b, field)) = SumFunction(Values(slots, field))
    OBVIOUS
  <2>1. b[spot][field] = SumFunction([j \in fused |-> slots[j][field]])
    <3>1. CASE field = "activity"
      BY <1>8, <3>1
    <3>2. CASE field = "quantity"
      BY <1>8, <3>2
    <3> QED BY <3>1, <3>2 DEF Fields
  <2>2. Empty[field] = 0
    BY DEF Fields, Empty, Monster
  <2> DEFINE S == 1..SlotCount
             w == Values(slots, field)
             g == Values(b, field)
  <2>3. /\ IsFiniteSet(S) /\ DOMAIN w = S /\ DOMAIN g = S /\ fused \in SUBSET S
        /\ \A i \in S : w[i] \in Nat /\ w[i] = slots[i][field]
        /\ \A i \in S : g[i] \in Nat /\ g[i] = b[i][field]
    BY <1>2, <1>6, ValuesAre
  <2>4. \A i \in S \ fused : b[i] = slots[i]
    BY <1>7
  <2> HIDE DEF a, q, w, g, S
  <2> DEFINE u == [j \in fused |-> w[j]]
  <2>5. [j \in fused |-> slots[j][field]] = u
    BY <2>3
  <2>6. \A i \in S \ fused : w[i] = g[i]
    BY <2>3, <2>4
  <2>7. \A i \in fused : i # spot => g[i] = 0
    BY <1>7, <2>2, <2>3
  <2>8. g[spot] = SumFunction(u)
    BY <1>6, <2>1, <2>3, <2>5
  <2>9. \A i \in S : w[i] \in Nat /\ g[i] \in Nat
    BY <2>3
  <2>10. fused \in SUBSET S /\ spot \in fused
    BY <1>6, <2>3
  <2>11. /\ IsFiniteSet(S) /\ DOMAIN w = S /\ DOMAIN g = S
         /\ u = [j \in fused |-> w[j]]
    BY <2>3
  <2> HIDE DEF u
  <2>12. SumFunction(w) = SumFunction(g)
    BY <2>6, <2>7, <2>8, <2>9, <2>10, <2>11, SumMoved, SMTT(60)
  <2> QED BY <2>12 DEF w, g
<1>10. \A i \in Board, j \in Occupied(b) : slots[i].id = b[j].id =>
         b[j].activity >= slots[i].activity /\ b[j].quantity >= slots[i].quantity
  <2> SUFFICES ASSUME NEW i \in Board, NEW j \in Occupied(b), slots[i].id = b[j].id
               PROVE  b[j].activity >= slots[i].activity
                      /\ b[j].quantity >= slots[i].quantity
    OBVIOUS
  <2> HIDE DEF a, q
  <2>1. slots[i].id \in Ids /\ nextId \notin Ids
    BY <1>2, IdsAre DEF Ids
  <2>2. j \in 1..SlotCount /\ b[j] # Empty /\ j # spot
    BY <1>8, <2>1 DEF Occupied
  <2>3. b[j] = slots[j] /\ j \in Board
    BY <1>7, <2>2 DEF Board, Occupied
  <2>4. i = j
    BY <1>2, <2>3 DEF Sound, Board
  <2>5. slots[j].activity \in Nat /\ slots[j].quantity \in Nat
    BY <1>2, <2>2 DEF Measured
  <2> QED BY <2>3, <2>4, <2>5
<1> QED BY <1>2, <1>9, <1>10, EvenKept

\* devour: the eater gains what the prey was worth.
LEMMA DevourKept ==
  ASSUME EffectsInv, MeasuredInv, DoDevour, agenda' # << >>,
         NEW b, b = slots', Measured(b)
  PROVE  Kept(b, Task.op)
<1>1. agenda # << >> /\ Task.op = "devour"
  BY DEF DoDevour, IsNext
<1> DEFINE id == Task.id
           prey == Task.prey
           x == At(id)
           y == At(prey)
           u == M(prey).activity
           v == M(prey).quantity
<1>2. /\ Shaped(Task) /\ Names(Task) \subseteq Ids /\ Sound(slots, tools, nextId)
      /\ Measured(slots) /\ DOMAIN slots = 1..SlotCount /\ SlotCount \in Nat
  BY <1>1, HeadIs, RunningIs
<1>3. id \in Ids /\ prey \in Ids /\ id # prey
  BY <1>1, <1>2 DEF Names, Shaped
<1>4. b = [slots EXCEPT ![x].activity = @ + u, ![x].quantity = @ + v, ![y] = Empty]
  BY <1>3, PerformLeaves DEF DoDevour
<1>5. /\ x \in 1..SlotCount /\ slots[x].activity \in Nat /\ slots[x].quantity \in Nat
      /\ y \in 1..SlotCount /\ u \in Nat /\ v \in Nat /\ x \in Board
      /\ u = slots[y].activity /\ v = slots[y].quantity
  BY <1>2, <1>3, MeasuredIds
<1>6. Shape(slots[x])
  BY <1>2, <1>5 DEF Sound, Shape
<1>7. x # y
  <2>1. M(id).id = id /\ M(prey).id = prey /\ M(id) = slots[x] /\ M(prey) = slots[y]
    BY <1>2, <1>3, AtIs DEF M
  <2> QED BY <1>3, <2>1
<1> HIDE DEF x, y, u, v, id, prey
<1>8. /\ b[x].id = slots[x].id
      /\ b[x].activity = slots[x].activity + u
      /\ b[x].quantity = slots[x].quantity + v
      /\ b[y] = Empty
      /\ \A i \in 1..SlotCount : i # x /\ i # y => b[i] = slots[i]
  BY <1>2, <1>4, <1>5, <1>6, <1>7 DEF Shape, Monster
<1>9. \A field \in Fields :
        SumFunction(Values(b, field)) = SumFunction(Values(slots, field))
  <2> SUFFICES ASSUME NEW field \in Fields
               PROVE  SumFunction(Values(b, field)) = SumFunction(Values(slots, field))
    OBVIOUS
  <2> DEFINE T == {x, y}
             S == 1..SlotCount
  <2>1. b[x][field] = slots[x][field] + slots[y][field]
    BY <1>5, <1>8 DEF Fields
  <2>2. b[y][field] = 0
    BY <1>8 DEF Fields, Empty, Monster
  <2> DEFINE f == Values(slots, field)
             g == Values(b, field)
             s == [z \in T |-> f[z]]
             r == [z \in T |-> g[z]]
  <2>3. /\ IsFiniteSet(S) /\ DOMAIN f = S /\ DOMAIN g = S
        /\ \A i \in S : f[i] \in Nat /\ f[i] = slots[i][field]
        /\ \A i \in S : g[i] \in Nat /\ g[i] = b[i][field]
    BY <1>2, ValuesAre
  <2> HIDE DEF f, g
  <2>4. /\ DOMAIN s = {x, y} /\ s[x] = f[x] /\ s[y] = f[y]
        /\ DOMAIN r = {x, y} /\ r[x] = g[x] /\ r[y] = g[y]
    OBVIOUS
  <2>5. /\ f[x] \in Nat /\ f[y] \in Nat /\ g[x] \in Nat /\ g[y] \in Nat
        /\ g[x] + g[y] = f[x] + f[y]
    BY <1>5, <2>1, <2>2, <2>3, SMTT(60)
  <2> HIDE DEF s, r
  <2>6. SumFunction(s) = s[x] + s[y]
    BY <1>7, <2>4, <2>5, SumPair
  <2>7. SumFunction(r) = r[x] + r[y]
    BY <1>7, <2>4, <2>5, SumPair
  <2>8. SumFunction(s) = SumFunction(r)
    BY <2>4, <2>5, <2>6, <2>7
  <2>9. \A z \in S \ T : f[z] = g[z]
    BY <1>8, <2>3
  <2>10. T \in SUBSET S /\ \A z \in S : f[z] \in Nat /\ g[z] \in Nat
    BY <1>5, <2>3
  <2>11. SumFunction([z \in T |-> f[z]]) = SumFunction([z \in T |-> g[z]])
    BY <2>8 DEF s, r
  <2> HIDE DEF T, S
  <2>12. SumFunction(f) = SumFunction(g)
    BY <2>3, <2>9, <2>10, <2>11, SumParts
  <2> QED BY <2>12 DEF f, g
<1>10. \A i \in Board, j \in Occupied(b) : slots[i].id = b[j].id =>
         b[j].activity >= slots[i].activity /\ b[j].quantity >= slots[i].quantity
  <2> SUFFICES ASSUME NEW i \in Board, NEW j \in Occupied(b), slots[i].id = b[j].id
               PROVE  b[j].activity >= slots[i].activity
                      /\ b[j].quantity >= slots[i].quantity
    OBVIOUS
  <2>1. j \in 1..SlotCount /\ b[j] # Empty /\ j # y
    BY <1>8 DEF Occupied
  <2>2. b[j].id = slots[j].id /\ j \in Board
    BY <1>5, <1>8, <2>1 DEF Board, Occupied
  <2>3. i = j
    BY <1>2, <2>2 DEF Sound, Board
  <2>4. slots[j].activity \in Nat /\ slots[j].quantity \in Nat
    BY <1>2, <2>1 DEF Measured
  <2>5. CASE j = x
    <3>1. b[x].activity >= slots[x].activity /\ b[x].quantity >= slots[x].quantity
      BY <1>5, <1>8, SMTT(60)
    <3> QED BY <2>3, <2>5, <3>1
  <2>6. CASE j # x
    BY <1>8, <2>1, <2>3, <2>4, <2>6
  <2> QED BY <2>5, <2>6
<1> QED BY <1>2, <1>9, <1>10, EvenKept

\* Every step of a command that is not its last.
LEMMA StepKept ==
  ASSUME EffectsInv, MeasuredInv, Step, agenda' # << >>,
         NEW b, b = slots', Measured(b)
  PROVE  Kept(b, Task.op)
<1>1. CASE DoBuff      BY <1>1, BuffKept
<1>2. CASE DoAdd       BY <1>2, AddKept
<1>3. CASE DoRemove    BY <1>3, RemovalKept
<1>4. CASE DoMutate    BY <1>4, MutateKept
<1>5. CASE DoAwaken    BY <1>5, AwakenKept
<1>6. CASE DoFuse      BY <1>6, FusionKept
<1>7. CASE DoDevour    BY <1>7, DevourKept
<1>8. CASE DoTool \/ DoPick \/ DoRestore \/ DoEndTurn
  BY <1>8, CallsKept
<1>9. CASE DoOverflow
  BY <1>9 DEF DoOverflow, Abort
<1>10. CASE DoSettle
  BY <1>10 DEF DoSettle, Abort
<1> QED BY <1>1, <1>2, <1>3, <1>4, <1>5, <1>6, <1>7, <1>8, <1>9, <1>10 DEF Step

\* While a card resolves, a monster that stays loses nothing, only a removal
\* takes anything from the board, and fusing and devouring (effects.go, fuse
\* and devour) move the values: the sums over the board stay the same.
THEOREM NothingIsLost == Spec => ValuesKept
<1> DEFINE Keeps ==
      agenda # << >> /\ agenda' # << >> =>
        /\ \A i \in Board, j \in Board' : slots[i].id = slots'[j].id =>
             /\ slots'[j].activity >= slots[i].activity
             /\ slots'[j].quantity >= slots[i].quantity
        /\ Task.op # "remove" =>
             Total("activity")' >= Total("activity")
             /\ Total("quantity")' >= Total("quantity")
        /\ Task.op \in {"fuse", "devour"} =>
             Total("activity")' = Total("activity")
             /\ Total("quantity")' = Total("quantity")
<1>1. EffectsInv /\ MeasuredInv /\ MeasuredInv' /\ [Next]_vars => [Keeps]_vars
  <2> SUFFICES ASSUME EffectsInv, MeasuredInv, MeasuredInv', Next,
                      agenda # << >>, agenda' # << >>
               PROVE  Keeps
    OBVIOUS
  <2>1. Step
    BY DEF Next, Play, GainTool
  <2>2. PICK b : b = slots'
    OBVIOUS
  <2>3. Measured(b)
    <3>1. \A i \in 1..SlotCount :
            /\ slots'[i].activity \in Nat /\ slots'[i].quantity \in Nat
            /\ slots'[i] # Empty => slots'[i].rarity \in Rarities
      BY DEF MeasuredInv, Measured
    <3> QED BY <2>2, <3>1 DEF Measured
  <2>4. Kept(b, Task.op)
    BY <2>1, <2>2, <2>3, StepKept
  <2>5. Board' = Occupied(b)
    BY <2>2 DEF Board, Occupied
  <2>6. \A field \in Fields : /\ Total(field) = SumFunction(Values(slots, field))
                              /\ Total(field)' = SumFunction(Values(b, field))
    BY <2>2 DEF Total, Values
  <2>7. "activity" \in Fields /\ "quantity" \in Fields
    BY DEF Fields
  <2> HIDE DEF Keeps
  <2>8. /\ Total("activity") = SumFunction(Values(slots, "activity"))
        /\ Total("activity")' = SumFunction(Values(b, "activity"))
        /\ Total("quantity") = SumFunction(Values(slots, "quantity"))
        /\ Total("quantity")' = SumFunction(Values(b, "quantity"))
    BY <2>2 DEF Total, Values
  <2>9. \A i \in Board, j \in Board' : slots[i].id = slots'[j].id =>
          slots'[j].activity >= slots[i].activity
          /\ slots'[j].quantity >= slots[i].quantity
    BY <2>2, <2>4, <2>5 DEF Kept
  <2>10. Task.op # "remove" =>
           Total("activity")' >= Total("activity")
           /\ Total("quantity")' >= Total("quantity")
    BY <2>4, <2>7, <2>8 DEF Kept
  <2>11. Task.op \in {"fuse", "devour"} =>
           Total("activity")' = Total("activity")
           /\ Total("quantity")' = Total("quantity")
    BY <2>4, <2>7, <2>8 DEF Kept
  <2> QED BY <2>9, <2>10, <2>11 DEF Keeps
<1> QED BY <1>1, EffectsInvariance, MeasuredInvariance, PTL DEF Spec, ValuesKept
=============================================================================
