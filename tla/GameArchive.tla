----------------------------- MODULE GameArchive ------------------------------
(***************************************************************************)
(* What the player is promised of the saved games: every started game has  *)
(* one history that only grows at its end, only the game on the table      *)
(* grows, and any started game can be put back on the table.               *)
(***************************************************************************)
EXTENDS Naturals, Sequences

CONSTANTS Games, Commands, NoGame

VARIABLES
  started,    \* the games that have a history
  history,    \* the commands of each game, in order
  active      \* the game on the table, or NoGame

vars == <<started, history, active>>

Init ==
  /\ started = {}
  /\ history = [g \in Games |-> << >>]
  /\ active = NoGame

Begin(g) ==
  /\ g \notin started
  /\ started' = started \cup {g}
  /\ active' = g
  /\ UNCHANGED history

Play(c) ==
  /\ active \in started
  /\ history' = [history EXCEPT ![active] = Append(@, c)]
  /\ UNCHANGED <<started, active>>

Resume(g) ==
  /\ g \in started
  /\ active' = g
  /\ UNCHANGED <<started, history>>

Next ==
  \/ \E g \in Games : Begin(g) \/ Resume(g)
  \/ \E c \in Commands : Play(c)

Spec == Init /\ [][Next]_vars
=============================================================================
