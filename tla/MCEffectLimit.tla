----------------------------- MODULE MCEffectLimit ----------------------------
(* Effects with six slots: the longest chains the catalogue can produce, the *)
(* tools that need a full board, and numbers near the limit.                 *)
EXTENDS Effects

LongCards == {"lure", "alien_hormone", "peat_dressing", "bone_ointment",
              "waking_salts", "brood_hormone", "scheme_2"}

Fresh(id, f, r) == Monster(id, f, r, BaseActivity[r], BaseQuantity[r])
Full(f) == [i \in 1..6 |-> Fresh(i, f, Normal)]

\* Six groups of insects, and four of which two are near the limit.
Swarms == {
  Full("INSECT"),
  [i \in 1..6 |-> IF i = 1 THEN Monster(1, "INSECT", Boss, 500, 1)
                  ELSE IF i = 2 THEN Monster(2, "INSECT", Boss, 300, 300)
                  ELSE IF i < 5 THEN Fresh(i, "INSECT", Normal) ELSE Empty]}

Mixed == {
  [i \in 1..6 |-> IF i = 1 THEN Fresh(1, "BONE", Normal)
                  ELSE IF i = 2 THEN Fresh(2, "FIEND", Magic)
                  ELSE Fresh(i, "INSECT", Normal)],
  [i \in 1..6 |-> IF i = 3 THEN Monster(3, "FIEND", Boss, 301, 310)
                  ELSE Fresh(i, "BONE", Magic)]}

SwarmTools == {
  <<"pupa", "pupa", "pupa">>, <<"hatching_egg", "hatching_egg", "pupa">>,
  <<"nail", "nail", "pupa">>, <<"nail", "nail", "nail">>}

MixedTools == {
  <<"marrow", "growth", "liver">>, <<"marrow", "marrow", "growth">>,
  <<"eye", "eye", "hatching_egg">>, <<"goat_suture", "mouth", "cluster_eggs">>,
  <<"mouth", "sinew", "brooding_butterfly">>}

MCCheckpoints ==
  {[slots |-> b, tools |-> t, turns |-> 5, nextId |-> 7] :
     b \in Swarms, t \in SwarmTools \cup MixedTools}
  \cup {[slots |-> b, tools |-> t, turns |-> 5, nextId |-> 7] :
           b \in Mixed, t \in MixedTools}
=============================================================================
