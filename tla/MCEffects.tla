------------------------------- MODULE MCEffects ------------------------------
(* Effects on boards of three slots, every card and every tool.              *)
EXTENDS Effects

EveryCard == AllCards \ {"scheme_1", "scheme_2"}

\* A monster as the preparation, or an earlier turn, may have left it.
Fresh(id, f, r) == Monster(id, f, r, BaseActivity[r], BaseQuantity[r])
Grown(id, f, r) == Monster(id, f, r, BaseActivity[r] + 300, BaseQuantity[r] + 300)

Boards == {
  <<Fresh(1, "BONE", Normal), Fresh(2, "BONE", Magic), Fresh(3, "FIEND", Normal)>>,
  <<Fresh(1, "INSECT", Normal), Fresh(2, "INSECT", Normal), Fresh(3, "INSECT", Normal)>>,
  <<Grown(1, "AWAKENER", Boss), Fresh(2, "AWAKENER", Normal), Empty>>,
  <<Fresh(1, "FIEND", Magic), Empty, Grown(3, "FIEND", Magic)>>,
  <<Empty, Fresh(2, "BONE", Rare), Empty>>}

Tools == {<<h>> : h \in AllTools}
  \cup {<<"marrow", "growth", "liver">>, <<"eye", "claw", "sinew">>,
        <<"statue", "statue", "cortex">>}

\* The sixth turn is due, so that every periodic tool acts.
MCCheckpoints ==
  {[slots |-> b, tools |-> t, turns |-> 5, nextId |-> 4] :
     b \in Boards, t \in Tools}
  \cup {[slots |-> b, tools |-> << >>, turns |-> 0, nextId |-> 4] : b \in Boards}
=============================================================================
