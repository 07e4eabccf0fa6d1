--------------------------- MODULE CheckpointProofs ---------------------------
(***************************************************************************)
(* The checkpoint protocol keeps its promises for any number of tabs,      *)
(* commands, requests, faults and any length of a game.                    *)
(*                                                                         *)
(* The argument: one operation waits at a time, and while it waits the     *)
(* game on the table stands still (PendingIsCurrent).  Whoever saves a     *)
(* result holds the operation that waits (RequestsGenuine), which was made *)
(* from a prefix of that game as long as the game itself, that is, from    *)
(* the game itself: so histories only grow at their end.                   *)
(***************************************************************************)
EXTENDS Checkpoint, FiniteSetTheorems, TLAPS

-----------------------------------------------------------------------------
(***************************************************************************)
(* Prefixes                                                                *)
(***************************************************************************)

\* A history is an earlier state of itself, and the new game of any.
LEMMA PrefixOfItself ==
  ASSUME NEW S, NEW s \in Seq(S)
  PROVE  IsPrefix(s, s) /\ IsPrefix(<< >>, s)
<1>1. Len(s) \in Nat
  OBVIOUS
<1> QED BY <1>1 DEF IsPrefix

\* What was an earlier state stays one when commands are appended.
LEMMA PrefixOfLonger ==
  ASSUME NEW S, NEW s \in Seq(S), NEW t \in Seq(S), NEW u \in Seq(S),
         IsPrefix(s, t)
  PROVE  IsPrefix(s, t \o u)
<1>1. Len(s) <= Len(t) /\ SubSeq(s, 1, Len(s)) = SubSeq(t, 1, Len(s))
  BY DEF IsPrefix
<1>2. /\ Len(s) \in Nat /\ Len(t) \in Nat /\ Len(u) \in Nat
      /\ t \o u \in Seq(S) /\ Len(t \o u) = Len(t) + Len(u)
  OBVIOUS
<1>3. SubSeq(t, 1, Len(s)) = SubSeq(t \o u, 1, Len(s))
  BY <1>1, <1>2
<1> QED BY <1>1, <1>2, <1>3 DEF IsPrefix

\* Equal revisions: an earlier state as long as a state is that state.
LEMMA PrefixAsLong ==
  ASSUME NEW S, NEW s \in Seq(S), NEW t \in Seq(S), IsPrefix(s, t),
         Len(s) = Len(t)
  PROVE  s = t
<1>1. SubSeq(s, 1, Len(s)) = s /\ SubSeq(t, 1, Len(t)) = t
  OBVIOUS
<1> QED BY <1>1 DEF IsPrefix

\* One command appended: what was there before stays in place.
LEMMA OneMore ==
  ASSUME NEW S, NEW s \in Seq(S), NEW c \in S
  PROVE  /\ s \o <<c>> \in Seq(S) /\ s \o <<c>> = Append(s, c)
         /\ Len(s \o <<c>>) = Len(s) + 1
         /\ \A i \in 1..Len(s) : (s \o <<c>>)[i] = s[i]
         /\ (s \o <<c>>)[Len(s) + 1] = c
         /\ \A i \in 0..Len(s) : SubSeq(s \o <<c>>, 1, i) = SubSeq(s, 1, i)
         /\ SubSeq(s, 1, Len(s)) = s
  OBVIOUS
-----------------------------------------------------------------------------
(***************************************************************************)
(* Requests and stamps                                                     *)
(***************************************************************************)

\* What a creation and a decision are made of.
LEMMA StagedFields ==
  ASSUME NEW q \in Staged
  PROVE  /\ q.id \in Games /\ q.id # 0 /\ q # NoRequest
         /\ q.state \in Seq(Commands) /\ q.expected \in Stamps
         /\ \/ /\ q.kind = "create" /\ q.game = NoGame /\ q.state = << >>
               /\ q.command = << >>
            \/ /\ q.kind = "command" /\ q.game \in Games
               /\ \E c \in Commands : q.command = <<c>>
<1>1. q.id \in Games /\ q.expected \in Stamps
  BY DEF Staged, Creations, Decisions
<1>2. q.id # 0 /\ q # NoRequest
  BY <1>1, CheckpointAssumption DEF Games, NoRequest
<1>3. CASE q \in Creations
  <2>1. q.state = << >> /\ << >> \in Seq(Commands)
    BY <1>3 DEF Creations
  <2> QED BY <1>1, <1>2, <1>3, <2>1 DEF Creations
<1>4. CASE q \in Decisions
  BY <1>1, <1>2, <1>4 DEF Decisions
<1> QED BY <1>3, <1>4 DEF Staged

\* What a request makes of a game is a state of a game.
LEMMA ResultFields ==
  ASSUME NEW q \in Staged
  PROVE  Result(q).game \in Games /\ Result(q).state \in Seq(Commands)
<1>1. CASE q.kind = "create"
  BY <1>1, StagedFields DEF Result, Shown
<1>2. CASE q.kind = "command"
  <2>1. PICK c \in Commands : q.command = <<c>>
    BY <1>2, StagedFields
  <2>2. q.state \o q.command \in Seq(Commands)
    BY <2>1, StagedFields, OneMore
  <2> QED BY <1>2, <2>2, StagedFields DEF Result, Shown
<1> QED BY <1>1, <1>2, StagedFields

\* The stamp of a record, also of the empty table.
LEMMA StampType ==
  ASSUME NEW r, r.game \in {NoGame} \cup Games, r.state \in Seq(Commands)
  PROVE  Stamp(r) \in Stamps
<1>1. Len(r.state) + 1 \in Nat
  OBVIOUS
<1> QED BY <1>1 DEF Stamp, Stamps, Revision

\* The record on the table is that of a saved game.
LEMMA CurrentKnown ==
  ASSUME TypeOK, GamesStarted
  PROVE  /\ CurrentRecord \in [game : {NoGame} \cup Games, state : Seq(Commands)]
         /\ Known(CurrentRecord)
<1>1. CASE current = NoGame
  <2>1. CurrentRecord = Nothing /\ << >> \in Seq(Commands)
    BY <1>1 DEF CurrentRecord
  <2> QED BY <2>1 DEF Nothing, Shown, Known
<1>2. CASE current # NoGame
  <2>1. current \in Games /\ runs[current].present
    BY <1>2 DEF TypeOK, GamesStarted
  <2>2. runs[current].state \in Seq(Commands)
    BY <2>1 DEF TypeOK
  <2>3. CurrentRecord = [game |-> current, state |-> runs[current].state]
    BY <1>2 DEF CurrentRecord, Shown
  <2>4. IsPrefix(runs[current].state, runs[current].state)
    BY <2>2, PrefixOfItself
  <2> QED BY <2>1, <2>2, <2>3, <2>4 DEF Known
<1> QED BY <1>1, <1>2

-----------------------------------------------------------------------------
(***************************************************************************)
(* Steps of a tab that leave the store alone                               *)
(***************************************************************************)

\* A step that changes one tab and at most sends the operation that waits
\* keeps the invariant when the tab shows a known record, is busy with a
\* genuine request only, and holds a recorded answer only.
LEMMA TabsKeep ==
  ASSUME IInv, NEW t \in Tabs, UNCHANGED <<store, recorder, issued>>,
         cache' \in SUBSET cache,
         tabs' \in [Tabs -> TabStates],
         \A u \in Tabs \ {t} : tabs'[u] = tabs[u],
         calls' \in SUBSET [from : Tabs, request : Staged],
         \A call \in calls' : call \in calls \/ call.request = pending,
         Known(tabs'[t].record),
         Busy(t)' => Genuine(tabs'[t].request),
         tabs'[t].pc = "answered" => Recorded(tabs'[t].request)
  PROVE  IInv'
<1>1. UNCHANGED <<runs, current, pending, episodes, decisions, counts, issued>>
  BY DEF store, recorder
<1>2. TypeOK'
  BY <1>1 DEF IInv, TypeOK
<1>3. \A q : Genuine(q) => Genuine(q)'
  BY <1>1 DEF Genuine
<1>4. RequestsGenuine'
  <2>1. pending' # NoRequest => Genuine(pending)'
    BY <1>1, <1>3 DEF IInv, RequestsGenuine
  <2>2. ASSUME NEW u \in Tabs, Busy(u)' PROVE Genuine(tabs[u].request)'
    BY <1>1, <2>2 DEF IInv, RequestsGenuine, Busy, Genuine
  <2>3. ASSUME NEW call \in calls' PROVE Genuine(call.request)'
    <3>1. CASE call \in calls
      BY <1>3, <3>1 DEF IInv, RequestsGenuine
    <3>2. CASE call.request = pending
      <4>1. call.request \in Staged
        OBVIOUS
      <4>2. pending # NoRequest
        BY <3>2, <4>1, StagedFields
      <4> QED BY <1>3, <3>2, <4>2 DEF IInv, RequestsGenuine
    <3> QED BY <3>1, <3>2
  <2> QED BY <2>1, <2>2, <2>3 DEF RequestsGenuine
<1>5. GamesStarted' /\ PendingIsCurrent' /\ LogReplays'
  BY <1>1 DEF IInv, GamesStarted, PendingIsCurrent, CheckCurrent, Revision,
     LogReplays
<1>6. AnswersRecorded'
  <2>1. \A q : Recorded(q)' <=> Recorded(q)
    BY <1>1 DEF Recorded
  <2>2. \A u \in Tabs : tabs'[u].pc = "answered" => Recorded(tabs'[u].request)
    BY DEF IInv, AnswersRecorded
  <2> QED BY <2>1, <2>2 DEF IInv, AnswersRecorded
<1>7. NothingShownIsForeign'
  <2>1. \A r : Known(r)' <=> Known(r)
    BY <1>1 DEF Known
  <2>2. \A u \in Tabs : Known(tabs'[u].record)
    BY DEF IInv, NothingShownIsForeign
  <2>3. \A call \in calls' : Known(call.request)
    BY DEF IInv, NothingShownIsForeign
  <2> QED BY <1>1, <2>1, <2>2, <2>3 DEF IInv, NothingShownIsForeign
<1>8. SavedIsRecorded' /\ CountsAreExact'
  BY <1>1 DEF IInv, SavedIsRecorded, CountsAreExact
<1> QED BY <1>2, <1>4, <1>5, <1>6, <1>7, <1>8 DEF IInv
\* The memory of one tab, before a step.
LEMMA OneTab ==
  ASSUME IInv, NEW t \in Tabs
  PROVE  /\ tabs \in [Tabs -> TabStates] /\ tabs[t] \in TabStates
         /\ Known(tabs[t].record)
         /\ tabs[t].record.game \in {NoGame} \cup Games
         /\ tabs[t].record.state \in Seq(Commands)
         /\ tabs[t].request \in {NoRequest} \cup Staged
         /\ Busy(t) => Genuine(tabs[t].request)
         /\ calls \in SUBSET [from : Tabs, request : Staged]
         /\ pending \in {NoRequest} \cup Staged
<1>1. tabs \in [Tabs -> TabStates] /\ tabs[t] \in TabStates
  BY DEF IInv, TypeOK
<1>2. /\ tabs[t].record.game \in {NoGame} \cup Games
      /\ tabs[t].record.state \in Seq(Commands)
      /\ tabs[t].request \in {NoRequest} \cup Staged
  BY <1>1 DEF TabStates
<1>3. Known(tabs[t].record) /\ (Busy(t) => Genuine(tabs[t].request))
  BY DEF IInv, NothingShownIsForeign, RequestsGenuine
<1> QED BY <1>1, <1>2, <1>3 DEF IInv, TypeOK

\* One tab changes to m.
LEMMA TabChange ==
  ASSUME IInv, NEW t \in Tabs, NEW m \in TabStates, tabs' = [tabs EXCEPT ![t] = m]
  PROVE  /\ tabs' \in [Tabs -> TabStates] /\ tabs'[t] = m
         /\ \A u \in Tabs \ {t} : tabs'[u] = tabs[u]
  BY OneTab

\* A tab comes to rest, or closes, whatever it shows as long as that is known.
LEMMA RestKeeps ==
  ASSUME IInv, NEW t \in Tabs, UNCHANGED <<store, recorder, issued, cache, calls>>,
         tabs' \in [Tabs -> TabStates],
         \A u \in Tabs \ {t} : tabs'[u] = tabs[u],
         Known(tabs'[t].record), tabs'[t].pc \in {"idle", "closed"}
  PROVE  IInv'
<1>1. ~Busy(t)' /\ tabs'[t].pc # "answered"
  BY DEF Busy
<1>2. calls' \in SUBSET [from : Tabs, request : Staged]
  BY OneTab
<1> QED BY <1>1, <1>2, TabsKeep

\* Restoring shows the record of the store.
LEMMA RestoreKeeps ==
  ASSUME IInv, NEW t \in Tabs, RestoreCurrent(t)
  PROVE  IInv'
<1>1. PICK answered \in BOOLEAN :
        tabs' = [tabs EXCEPT
          ![t].record = CurrentRecord, ![t].held = pending # NoRequest,
          ![t].connected = answered /\ pending = NoRequest /\ current # NoGame]
  BY DEF RestoreCurrent
<1>2. CurrentRecord \in [game : {NoGame} \cup Games, state : Seq(Commands)]
      /\ Known(CurrentRecord)
  BY CurrentKnown DEF IInv
<1>3. (answered /\ pending = NoRequest /\ current # NoGame) \in BOOLEAN
      /\ (pending # NoRequest) \in BOOLEAN
  OBVIOUS
<1>4. /\ tabs' \in [Tabs -> TabStates] /\ tabs'[t].record = CurrentRecord
      /\ tabs'[t].pc = tabs[t].pc
      /\ \A u \in Tabs \ {t} : tabs'[u] = tabs[u]
  <2>1. PICK m : m = [tabs[t] EXCEPT
            !.record = CurrentRecord, !.held = pending # NoRequest,
            !.connected = answered /\ pending = NoRequest /\ current # NoGame]
    OBVIOUS
  <2>2. m \in TabStates /\ m.record = CurrentRecord /\ m.pc = tabs[t].pc
    BY <1>2, <1>3, <2>1, OneTab DEF TabStates
  <2>3. tabs' = [tabs EXCEPT ![t] = m]
    BY <1>1, <2>1, OneTab
  <2> QED BY <2>2, <2>3, TabChange
<1>5. tabs'[t].pc = "idle"
  BY <1>4 DEF RestoreCurrent, Idle
<1>6. UNCHANGED <<store, recorder, issued, cache, calls>>
  BY DEF RestoreCurrent
<1> QED BY <1>2, <1>4, <1>5, <1>6, RestKeeps

\* A retry sends the operation that waits, or shows what ended it.
LEMMA RetryKeeps ==
  ASSUME IInv, NEW t \in Tabs, RetryPending(t)
  PROVE  IInv'
<1>1. UNCHANGED <<store, recorder, issued, cache>>
  BY DEF RetryPending
<1>2. CASE pending # NoRequest
  <2>1. /\ tabs' = [tabs EXCEPT ![t].pc = "waiting", ![t].request = pending,
                                ![t].held = TRUE, ![t].retry = TRUE]
        /\ calls' = calls \cup {[from |-> t, request |-> pending]}
    BY <1>2 DEF RetryPending, Send
  <2>2. pending \in Staged /\ Genuine(pending)
    BY <1>2, OneTab DEF IInv, RequestsGenuine
  <2>3. /\ tabs' \in [Tabs -> TabStates] /\ tabs'[t].record = tabs[t].record
        /\ tabs'[t].pc = "waiting" /\ tabs'[t].request = pending
        /\ \A u \in Tabs \ {t} : tabs'[u] = tabs[u]
    <3>1. PICK m : m = [tabs[t] EXCEPT !.pc = "waiting", !.request = pending,
                                       !.held = TRUE, !.retry = TRUE]
      OBVIOUS
    <3>2. /\ m \in TabStates /\ m.record = tabs[t].record
          /\ m.pc = "waiting" /\ m.request = pending
      BY <2>2, <3>1, OneTab DEF TabStates
    <3>3. tabs' = [tabs EXCEPT ![t] = m]
      BY <2>1, <3>1, OneTab
    <3> QED BY <3>2, <3>3, TabChange
  <2>4. /\ calls' \in SUBSET [from : Tabs, request : Staged]
        /\ \A call \in calls' : call \in calls \/ call.request = pending
    BY <2>1, <2>2, OneTab
  <2>5. cache' \in SUBSET cache
    BY <1>1
  <2> QED BY <1>1, <2>2, <2>3, <2>4, <2>5, OneTab, TabsKeep
<1>3. CASE pending = NoRequest
  <2>1. /\ tabs' = [tabs EXCEPT ![t].record = CurrentRecord, ![t].held = FALSE,
                                ![t].connected = FALSE]
        /\ calls' = calls /\ tabs[t].pc = "idle"
    BY <1>3 DEF RetryPending, Idle
  <2>2. CurrentRecord \in [game : {NoGame} \cup Games, state : Seq(Commands)]
        /\ Known(CurrentRecord)
    BY CurrentKnown DEF IInv
  <2>3. /\ tabs' \in [Tabs -> TabStates] /\ tabs'[t].record = CurrentRecord
        /\ tabs'[t].pc = "idle"
        /\ \A u \in Tabs \ {t} : tabs'[u] = tabs[u]
    <3>1. PICK m : m = [tabs[t] EXCEPT !.record = CurrentRecord, !.held = FALSE,
                                       !.connected = FALSE]
      OBVIOUS
    <3>2. m \in TabStates /\ m.record = CurrentRecord /\ m.pc = "idle"
      BY <2>1, <2>2, <3>1, OneTab DEF TabStates
    <3>3. tabs' = [tabs EXCEPT ![t] = m]
      BY <2>1, <3>1, OneTab
    <3> QED BY <3>2, <3>3, TabChange
  <2> QED BY <1>1, <2>1, <2>2, <2>3, RestKeeps
<1> QED BY <1>2, <1>3

\* A tab that opens shows the record of the store.
LEMMA OpenTabKeeps ==
  ASSUME IInv, NEW t \in Tabs, OpenTab(t)
  PROVE  IInv'
<1>1. PICK m : m = [ClosedTab EXCEPT !.pc = "idle", !.record = CurrentRecord,
                                     !.held = pending # NoRequest]
  OBVIOUS
<1>2. CurrentRecord \in [game : {NoGame} \cup Games, state : Seq(Commands)]
      /\ Known(CurrentRecord)
  BY CurrentKnown DEF IInv
<1>3. (pending # NoRequest) \in BOOLEAN
  OBVIOUS
<1>4. m \in TabStates /\ m.pc = "idle" /\ m.record = CurrentRecord
  BY <1>1, <1>2, <1>3 DEF ClosedTab, TabStates
<1>5. tabs' = [tabs EXCEPT ![t] = m]
      /\ UNCHANGED <<store, recorder, issued, cache, calls>>
  BY <1>1 DEF OpenTab
<1>6. /\ tabs' \in [Tabs -> TabStates] /\ tabs'[t] = m
      /\ \A u \in Tabs \ {t} : tabs'[u] = tabs[u]
  BY <1>4, <1>5, OneTab
<1> QED BY <1>2, <1>4, <1>5, <1>6, RestKeeps

\* A tab may close at any point.
LEMMA CloseTabKeeps ==
  ASSUME IInv, NEW t \in Tabs, CloseTab(t)
  PROVE  IInv'
<1>1. << >> \in Seq(Commands)
  OBVIOUS
<1>2. ClosedTab \in TabStates /\ ClosedTab.pc = "closed" /\ Known(ClosedTab.record)
  BY <1>1 DEF ClosedTab, TabStates, Known, Nothing, Shown
<1>3. tabs' = [tabs EXCEPT ![t] = ClosedTab]
      /\ UNCHANGED <<store, recorder, issued, cache, calls>>
  BY DEF CloseTab
<1>4. /\ tabs' \in [Tabs -> TabStates] /\ tabs'[t] = ClosedTab
      /\ \A u \in Tabs \ {t} : tabs'[u] = tabs[u]
  BY <1>2, <1>3, OneTab
<1> QED BY <1>2, <1>3, <1>4, RestKeeps

\* An operation that ends without a result, whatever the tab thinks of its
\* connection.
LEMMA GiveUpKeeps ==
  ASSUME IInv, NEW t \in Tabs, NEW online \in BOOLEAN,
         tabs' = [tabs EXCEPT ![t].pc = "idle", ![t].request = NoRequest,
                              ![t].connected = online,
                              ![t].held = IF tabs[t].retry THEN TRUE
                                          ELSE pending # NoRequest],
         UNCHANGED <<store, recorder, issued, cache, calls>>
  PROVE  IInv'
<1>1. (IF tabs[t].retry THEN TRUE ELSE pending # NoRequest) \in BOOLEAN
  OBVIOUS
<1>2. /\ tabs' \in [Tabs -> TabStates] /\ tabs'[t].record = tabs[t].record
      /\ tabs'[t].pc = "idle"
      /\ \A u \in Tabs \ {t} : tabs'[u] = tabs[u]
  <2>1. PICK m : m = [tabs[t] EXCEPT !.pc = "idle", !.request = NoRequest,
                                     !.connected = online,
                                     !.held = IF tabs[t].retry THEN TRUE
                                              ELSE pending # NoRequest]
    OBVIOUS
  <2>2. m \in TabStates /\ m.record = tabs[t].record /\ m.pc = "idle"
    BY <1>1, <2>1, OneTab DEF TabStates
  <2>3. tabs' = [tabs EXCEPT ![t] = m]
    BY <2>1, OneTab
  <2> QED BY <2>2, <2>3, TabChange
<1> QED BY <1>2, OneTab, RestKeeps

\* A refused save, a failed save and a failed call change no store.
LEMMA EndsWithoutResult ==
  ASSUME IInv, NEW t \in Tabs, CommitRefused(t) \/ SaveFails(t) \/ CallFails(t)
  PROVE  IInv'
<1>1. UNCHANGED <<store, recorder, issued, cache, calls>>
  BY DEF CommitRefused, SaveFails, CallFails
<1>2. CASE GiveUp(t)
  <2>1. tabs' = [tabs EXCEPT ![t].pc = "idle", ![t].request = NoRequest,
                             ![t].held = IF tabs[t].retry THEN TRUE
                                         ELSE pending # NoRequest]
    BY <1>2 DEF GiveUp
  <2>2. tabs[t].connected \in BOOLEAN
    BY OneTab DEF TabStates
  <2>3. tabs' = [tabs EXCEPT ![t].pc = "idle", ![t].request = NoRequest,
                             ![t].connected = tabs[t].connected,
                             ![t].held = IF tabs[t].retry THEN TRUE
                                         ELSE pending # NoRequest]
    BY <2>1, OneTab DEF TabStates
  <2> QED BY <1>1, <2>2, <2>3, GiveUpKeeps
<1>3. CASE CallFails(t)
  <2>1. PICK broken \in BOOLEAN :
          tabs' = [tabs EXCEPT ![t].pc = "idle", ![t].request = NoRequest,
                               ![t].connected = @ /\ ~broken,
                               ![t].held = IF tabs[t].retry THEN TRUE
                                           ELSE pending # NoRequest]
    BY <1>3 DEF CallFails
  <2>2. (tabs[t].connected /\ ~broken) \in BOOLEAN
    OBVIOUS
  <2> QED BY <1>1, <2>1, <2>2, GiveUpKeeps
<1> QED BY <1>2, <1>3 DEF CommitRefused, SaveFails

\* News of other tabs, or of the adviser, change what a tab believes only.
LEMMA BeliefsKeep ==
  ASSUME IInv, NEW t \in Tabs, OnOtherTab(t) \/ AiRecommend(t)
  PROVE  IInv'
<1>1. UNCHANGED <<store, recorder, issued, cache, calls>>
  BY DEF OnOtherTab, AiRecommend
<1>2. PICK online \in BOOLEAN, waiting \in BOOLEAN :
        tabs' = [tabs EXCEPT ![t].held = waiting, ![t].connected = online]
  <2>1. CASE OnOtherTab(t)
    <3>1. tabs' = [tabs EXCEPT ![t].held = pending # NoRequest,
             ![t].connected = @ /\ Stamp(tabs[t].record) = Stamp(CurrentRecord)]
      BY <2>1 DEF OnOtherTab
    <3>2. /\ (pending # NoRequest) \in BOOLEAN
          /\ (tabs[t].connected /\ Stamp(tabs[t].record) = Stamp(CurrentRecord))
               \in BOOLEAN
      OBVIOUS
    <3> QED BY <3>1, <3>2
  <2>2. CASE AiRecommend(t)
    <3>1. PICK answered \in BOOLEAN : tabs' = [tabs EXCEPT ![t].connected = answered]
      BY <2>2 DEF AiRecommend
    <3>2. tabs[t].held \in BOOLEAN
      BY OneTab DEF TabStates
    <3>3. tabs' = [tabs EXCEPT ![t].held = tabs[t].held, ![t].connected = answered]
      BY <3>1, OneTab DEF TabStates
    <3> QED BY <3>2, <3>3
  <2> QED BY <2>1, <2>2
<1>3. /\ tabs' \in [Tabs -> TabStates] /\ tabs'[t].record = tabs[t].record
      /\ tabs'[t].pc = tabs[t].pc /\ tabs'[t].request = tabs[t].request
      /\ \A u \in Tabs \ {t} : tabs'[u] = tabs[u]
  BY <1>2, OneTab DEF TabStates
<1>4. (Busy(t)' => Genuine(tabs'[t].request))
      /\ (tabs'[t].pc = "answered" => Recorded(tabs'[t].request))
  BY <1>3, OneTab DEF Busy, IInv, AnswersRecorded
<1>5. calls' \in SUBSET [from : Tabs, request : Staged] /\ cache' \in SUBSET cache
  BY <1>1, OneTab
<1> QED BY <1>1, <1>3, <1>4, <1>5, OneTab, TabsKeep
-----------------------------------------------------------------------------
(***************************************************************************)
(* Staging, saving and clearing an operation                               *)
(***************************************************************************)

\* An operation is staged under a new id, from what the tab shows.
LEMMA StageKeeps ==
  ASSUME IInv, NEW t \in Tabs, NEW q \in Staged, tabs[t].pc = "idle",
         q.id = issued + 1, issued < MaxRequests, Known(q),
         q.kind = "command" => q.expected = Stamp(Shown(q.game, q.state)),
         Stage(t, q)
  PROVE  IInv'
<1>1. UNCHANGED <<runs, current, cache, episodes, decisions, counts, faults>>
  BY DEF Stage, recorder
<1>2. CASE ~(CheckCurrent(q.expected) /\ NothingPending)
  <2>1. tabs' = [tabs EXCEPT ![t].held = pending # NoRequest]
        /\ UNCHANGED <<pending, issued, calls>>
    BY <1>2 DEF Stage
  <2>2. (pending # NoRequest) \in BOOLEAN
    OBVIOUS
  <2>3. /\ tabs' \in [Tabs -> TabStates] /\ tabs'[t].record = tabs[t].record
        /\ tabs'[t].pc = "idle"
        /\ \A u \in Tabs \ {t} : tabs'[u] = tabs[u]
    <3>1. PICK m : m = [tabs[t] EXCEPT !.held = pending # NoRequest]
      OBVIOUS
    <3>2. m \in TabStates /\ m.record = tabs[t].record /\ m.pc = "idle"
      BY <2>2, <3>1, OneTab DEF TabStates
    <3>3. tabs' = [tabs EXCEPT ![t] = m]
      BY <2>1, <3>1, OneTab
    <3> QED BY <3>2, <3>3, TabChange
  <2> QED BY <1>1, <2>1, <2>3, OneTab, RestKeeps DEF store, recorder
<1>3. CASE CheckCurrent(q.expected) /\ NothingPending
  <2>1. /\ pending = NoRequest /\ pending' = q /\ issued' = issued + 1
        /\ calls' = calls \cup {[from |-> t, request |-> q]}
        /\ tabs' = [tabs EXCEPT ![t].pc = "waiting", ![t].request = q,
                                ![t].held = TRUE, ![t].retry = FALSE]
    BY <1>3 DEF Stage, Send, NothingPending
  <2>2. /\ tabs' \in [Tabs -> TabStates] /\ tabs'[t].record = tabs[t].record
        /\ tabs'[t].pc = "waiting" /\ tabs'[t].request = q
        /\ \A u \in Tabs \ {t} : tabs'[u] = tabs[u]
    <3>1. PICK m : m = [tabs[t] EXCEPT !.pc = "waiting", !.request = q,
                                       !.held = TRUE, !.retry = FALSE]
      OBVIOUS
    <3>2. /\ m \in TabStates /\ m.record = tabs[t].record
          /\ m.pc = "waiting" /\ m.request = q
      BY <3>1, OneTab DEF TabStates
    <3>3. tabs' = [tabs EXCEPT ![t] = m]
      BY <2>1, <3>1, OneTab
    <3> QED BY <3>2, <3>3, TabChange
  <2>3. issued \in 0..MaxRequests /\ MaxRequests \in Nat /\ q.id \in Games
    BY CheckpointAssumption, StagedFields DEF IInv, TypeOK
  <2>4. TypeOK'
    <3>1. issued' \in 0..MaxRequests
      BY <2>1, <2>3
    <3>2. calls' \in SUBSET [from : Tabs, request : Staged]
      BY <2>1, OneTab
    <3> QED BY <1>1, <2>1, <2>2, <3>1, <3>2 DEF IInv, TypeOK
  <2>5. Genuine(q)'
    BY <2>1, <2>3 DEF Genuine
  <2>6. ASSUME NEW r, Genuine(r) PROVE Genuine(r)'
    <3>1. r.id <= issued /\ r.id \in Games
      BY <2>6, StagedFields DEF Genuine
    <3>2. r.id <= issued' /\ r.id # q.id
      BY <2>1, <2>3, <3>1 DEF Games
    <3> QED BY <2>1, <2>6, <3>2 DEF Genuine
  <2>7. RequestsGenuine'
    <3>1. ASSUME NEW u \in Tabs, Busy(u)' PROVE Genuine(tabs[u].request)'
      <4>1. CASE u = t
        BY <2>2, <2>5, <4>1 DEF Genuine
      <4>2. CASE u # t
        <5>1. tabs'[u] = tabs[u]
          BY <2>2, <4>2
        <5>2. Genuine(tabs[u].request)
          BY <3>1, <5>1 DEF IInv, RequestsGenuine, Busy
        <5> QED BY <2>6, <5>1, <5>2 DEF Genuine
      <4> QED BY <4>1, <4>2
    <3>2. ASSUME NEW call \in calls' PROVE Genuine(call.request)'
      BY <2>1, <2>5, <2>6 DEF IInv, RequestsGenuine
    <3>3. Genuine(pending)'
      BY <2>1, <2>5 DEF Genuine
    <3> QED BY <3>1, <3>2, <3>3 DEF RequestsGenuine
  <2>8. GamesStarted'
    <3>1. \A g \in Games : IF runs[g].present THEN g <= issued
                           ELSE runs[g].state = << >>
      BY DEF IInv, GamesStarted
    <3>2. ~runs[q.id].present
      BY <2>3, <3>1 DEF Games
    <3>3. \A g \in Games : g <= issued => g <= issued + 1
      BY <2>3 DEF Games
    <3> QED BY <1>1, <2>1, <3>1, <3>2, <3>3 DEF IInv, GamesStarted
  <2>9. PendingIsCurrent'
    BY <1>1, <1>3, <2>1 DEF PendingIsCurrent, CheckCurrent, Revision
  <2>10. LogReplays' /\ SavedIsRecorded' /\ CountsAreExact'
    BY <1>1 DEF IInv, LogReplays, SavedIsRecorded, CountsAreExact
  <2>11. AnswersRecorded'
    <3>1. \A r : Recorded(r)' <=> Recorded(r)
      BY <1>1 DEF Recorded
    <3>2. \A u \in Tabs : tabs'[u].pc = "answered" =>
                            tabs[u].pc = "answered" /\ tabs'[u] = tabs[u]
      BY <2>2
    <3> QED BY <1>1, <3>1, <3>2 DEF IInv, AnswersRecorded
  <2>12. NothingShownIsForeign'
    <3>1. \A r : Known(r)' <=> Known(r)
      BY <1>1 DEF Known
    <3>2. \A u \in Tabs : Known(tabs'[u].record)
      BY <2>2, OneTab
    <3>3. \A call \in calls' : Known(call.request)
      BY <2>1 DEF IInv, NothingShownIsForeign
    <3> QED BY <2>1, <3>1, <3>2, <3>3 DEF NothingShownIsForeign
  <2> QED BY <2>4, <2>7, <2>8, <2>9, <2>10, <2>11, <2>12 DEF IInv
<1> QED BY <1>2, <1>3

\* A creation is staged from what the tab shows, known or empty.
LEMMA StartRunKeeps ==
  ASSUME IInv, NEW t \in Tabs, StartRun(t)
  PROVE  IInv'
<1>1. PICK q : q = [id |-> issued + 1, kind |-> "create", game |-> NoGame,
                    state |-> << >>, command |-> << >>,
                    expected |-> Stamp(tabs[t].record)]
  OBVIOUS
<1>2. Stage(t, q) /\ tabs[t].pc = "idle" /\ issued < MaxRequests
  BY <1>1 DEF StartRun, Idle
<1>3. issued + 1 \in Games
  BY <1>2, CheckpointAssumption DEF IInv, TypeOK, Games
<1>4. q \in Staged
  <2>1. Stamp(tabs[t].record) \in Stamps
    BY OneTab, StampType
  <2> QED BY <1>1, <1>3, <2>1 DEF Staged, Creations
<1>5. /\ q.id = issued + 1 /\ Known(q)
      /\ q.kind = "command" => q.expected = Stamp(Shown(q.game, q.state))
  BY <1>1 DEF Known
<1> QED BY <1>2, <1>4, <1>5, StageKeeps

\* A decision is staged with the stamp of the record it was made from.
LEMMA SendCommandKeeps ==
  ASSUME IInv, NEW t \in Tabs, NEW c \in Commands, SendCommand(t, c)
  PROVE  IInv'
<1>1. PICK q : q = [id |-> issued + 1, kind |-> "command",
                    game |-> tabs[t].record.game,
                    state |-> tabs[t].record.state, command |-> <<c>>,
                    expected |-> Stamp(tabs[t].record)]
  OBVIOUS
<1>2. /\ Stage(t, q) /\ tabs[t].pc = "idle" /\ issued < MaxRequests
      /\ tabs[t].record.game # NoGame
  BY <1>1 DEF SendCommand, Idle
<1>3. issued + 1 \in Games
  BY <1>2, CheckpointAssumption DEF IInv, TypeOK, Games
<1>4. q \in Staged
  <2>1. Stamp(tabs[t].record) \in Stamps
    BY OneTab, StampType
  <2>2. tabs[t].record.game \in Games /\ tabs[t].record.state \in Seq(Commands)
    BY <1>2, OneTab
  <2> QED BY <1>1, <1>3, <2>1, <2>2 DEF Staged, Decisions
<1>5. q.id = issued + 1 /\ Known(q)
  BY <1>1, OneTab DEF Known
<1>6. q.expected = Stamp(Shown(q.game, q.state))
  BY <1>1 DEF Stamp, Shown
<1> QED BY <1>2, <1>4, <1>5, <1>6, StageKeeps

\* Another game is put on the table while nothing waits.
LEMMA ResumeKeeps ==
  ASSUME IInv, NEW t \in Tabs, NEW g \in Games, ResumeRun(t, g)
  PROVE  IInv'
<1>1. /\ current' = g /\ pending = NoRequest /\ runs[g].present
      /\ tabs' = [tabs EXCEPT ![t].record = Shown(g, runs[g].state),
                              ![t].connected = FALSE]
      /\ tabs[t].pc = "idle"
      /\ UNCHANGED <<runs, pending, calls, cache, episodes, decisions, counts,
                     issued, faults>>
  BY DEF ResumeRun, NothingPending, Idle, recorder
<1>2. runs[g].state \in Seq(Commands)
  BY DEF IInv, TypeOK
<1>3. Shown(g, runs[g].state) \in [game : {NoGame} \cup Games, state : Seq(Commands)]
      /\ Known(Shown(g, runs[g].state))
  BY <1>1, <1>2, PrefixOfItself DEF Shown, Known
<1>4. /\ tabs' \in [Tabs -> TabStates] /\ tabs'[t].record = Shown(g, runs[g].state)
      /\ tabs'[t].pc = "idle"
      /\ \A u \in Tabs \ {t} : tabs'[u] = tabs[u]
  <2>1. PICK m : m = [tabs[t] EXCEPT !.record = Shown(g, runs[g].state),
                                     !.connected = FALSE]
    OBVIOUS
  <2>2. /\ m \in TabStates /\ m.record = Shown(g, runs[g].state)
        /\ m.pc = "idle"
    BY <1>1, <1>3, <2>1, OneTab DEF TabStates
  <2>3. tabs' = [tabs EXCEPT ![t] = m]
    BY <1>1, <2>1, OneTab
  <2> QED BY <2>2, <2>3, TabChange
<1>5. TypeOK'
  BY <1>1, <1>4 DEF IInv, TypeOK
<1>6. RequestsGenuine'
  <2>1. \A r : Genuine(r)' <=> Genuine(r)
    BY <1>1 DEF Genuine
  <2>2. ASSUME NEW u \in Tabs, Busy(u)' PROVE Genuine(tabs'[u].request)
    BY <1>4, <2>2 DEF IInv, RequestsGenuine, Busy
  <2> QED BY <1>1, <2>1, <2>2 DEF IInv, RequestsGenuine
<1>7. GamesStarted' /\ PendingIsCurrent'
  BY <1>1 DEF IInv, GamesStarted, PendingIsCurrent
<1>8. LogReplays' /\ SavedIsRecorded' /\ CountsAreExact'
  BY <1>1 DEF IInv, LogReplays, SavedIsRecorded, CountsAreExact
<1>9. AnswersRecorded'
  <2>1. \A r : Recorded(r)' <=> Recorded(r)
    BY <1>1 DEF Recorded
  <2>2. \A u \in Tabs : tabs'[u].pc = "answered" =>
                          tabs[u].pc = "answered" /\ tabs'[u] = tabs[u]
    BY <1>4
  <2> QED BY <1>1, <2>1, <2>2 DEF IInv, AnswersRecorded
<1>10. NothingShownIsForeign'
  <2>1. \A r : Known(r)' <=> Known(r)
    BY <1>1 DEF Known
  <2>2. \A u \in Tabs : Known(tabs'[u].record)
    BY <1>3, <1>4, OneTab
  <2> QED BY <1>1, <2>1, <2>2 DEF IInv, NothingShownIsForeign
<1> QED BY <1>5, <1>6, <1>7, <1>8, <1>9, <1>10 DEF IInv

\* A refusal drops the operation that was refused, and no other.
LEMMA ClearKeeps ==
  ASSUME IInv, NEW t \in Tabs, ClearRejected(t)
  PROVE  IInv'
<1>1. /\ tabs[t].pc = "refused" /\ pending' \in {NoRequest, pending}
      /\ tabs' = [tabs EXCEPT ![t].pc = "idle", ![t].request = NoRequest,
                              ![t].held = pending' # NoRequest]
      /\ UNCHANGED <<runs, current, calls, cache, episodes, decisions, counts,
                     issued, faults>>
  BY DEF ClearRejected, recorder
<1>2. /\ tabs' \in [Tabs -> TabStates] /\ tabs'[t].record = tabs[t].record
      /\ tabs'[t].pc = "idle"
      /\ \A u \in Tabs \ {t} : tabs'[u] = tabs[u]
  <2>1. PICK m : m = [tabs[t] EXCEPT !.pc = "idle", !.request = NoRequest,
                                     !.held = pending' # NoRequest]
    OBVIOUS
  <2>2. m \in TabStates /\ m.record = tabs[t].record /\ m.pc = "idle"
    BY <2>1, OneTab DEF TabStates
  <2>3. tabs' = [tabs EXCEPT ![t] = m]
    BY <1>1, <2>1, OneTab
  <2> QED BY <2>2, <2>3, TabChange
<1>3. CASE pending' = pending
  BY <1>1, <1>2, <1>3, OneTab, RestKeeps DEF store, recorder
<1>4. CASE pending' = NoRequest
  <2>1. TypeOK'
    BY <1>1, <1>2, <1>4 DEF IInv, TypeOK
  <2>2. RequestsGenuine'
    <3>1. ASSUME NEW r, Genuine(r) PROVE Genuine(r)'
      <4>1. r.id # 0
        BY <3>1, StagedFields DEF Genuine
      <4> QED BY <1>1, <1>4, <3>1, <4>1 DEF Genuine, NoRequest
    <3>2. ASSUME NEW u \in Tabs, Busy(u)' PROVE Genuine(tabs[u].request)'
      <4>1. u # t /\ tabs'[u] = tabs[u]
        BY <1>2, <3>2 DEF Busy
      <4>2. Genuine(tabs[u].request)
        BY <3>2, <4>1 DEF IInv, RequestsGenuine, Busy
      <4> QED BY <3>1, <4>1, <4>2 DEF Genuine
    <3>3. \A call \in calls' : Genuine(call.request)'
      BY <1>1, <3>1 DEF IInv, RequestsGenuine
    <3> QED BY <1>4, <3>2, <3>3 DEF RequestsGenuine
  <2>3. GamesStarted' /\ PendingIsCurrent'
    BY <1>1, <1>4 DEF IInv, GamesStarted, PendingIsCurrent, NoRequest
  <2>4. LogReplays' /\ SavedIsRecorded' /\ CountsAreExact'
    BY <1>1 DEF IInv, LogReplays, SavedIsRecorded, CountsAreExact
  <2>5. AnswersRecorded'
    <3>1. \A r : Recorded(r)' <=> Recorded(r)
      BY <1>1 DEF Recorded
    <3>2. \A u \in Tabs : tabs'[u].pc = "answered" =>
                            tabs[u].pc = "answered" /\ tabs'[u] = tabs[u]
      BY <1>2
    <3> QED BY <1>1, <3>1, <3>2 DEF IInv, AnswersRecorded
  <2>6. NothingShownIsForeign'
    <3>1. \A r : Known(r)' <=> Known(r)
      BY <1>1 DEF Known
    <3>2. \A u \in Tabs : Known(tabs'[u].record)
      BY <1>2, OneTab
    <3>3. Known(pending')
      BY <1>4 DEF Known, NoRequest
    <3> QED BY <1>1, <3>1, <3>2, <3>3 DEF IInv, NothingShownIsForeign
  <2> QED BY <2>1, <2>2, <2>3, <2>4, <2>5, <2>6 DEF IInv
<1> QED BY <1>1, <1>3, <1>4
-----------------------------------------------------------------------------
(***************************************************************************)
(* Saving a result                                                         *)
(***************************************************************************)

\* Whoever saves holds the operation that waits, which was made from the whole
\* of the game on the table: the save starts a game or appends one command.
LEMMA SaveEffect ==
  ASSUME IInv, NEW t \in Tabs, CommitPending(t),
         NEW g, g = Result(pending).game
  PROVE  /\ tabs[t].request = pending /\ pending \in Staged
         /\ Recorded(pending) /\ pending.id <= issued
         /\ g \in Games /\ Result(pending).state \in Seq(Commands)
         /\ runs' = [runs EXCEPT ![g] = [present |-> TRUE,
                                         state |-> Result(pending).state,
                                         commands |-> Result(pending).state]]
         /\ current' = g /\ pending' = NoRequest
         /\ pending.kind \in {"create", "command"}
         /\ pending.kind = "create" =>
              /\ g = pending.id /\ ~runs[g].present
              /\ runs[g].state = << >> /\ Result(pending).state = << >>
         /\ pending.kind = "command" =>
              /\ g = pending.game /\ g = current
              /\ runs[g].present /\ pending.state = runs[g].state
              /\ Result(pending).state = runs[g].state \o pending.command
<1>0. PICK q : q = tabs[t].request
  OBVIOUS
<1>1. /\ tabs[t].pc = "answered" /\ pending.id = q.id /\ CheckCurrent(q.expected)
      /\ Save(q)
  BY <1>0 DEF CommitPending, StillPending
<1>2. Genuine(q) /\ Recorded(q)
  BY <1>0, <1>1, OneTab DEF Busy, IInv, AnswersRecorded
<1>3. q \in Staged /\ q = pending /\ q.id <= issued
  BY <1>1, <1>2 DEF Genuine
<1>4. g = Result(q).game /\ g \in Games /\ Result(q).state \in Seq(Commands)
  BY <1>3, ResultFields
<1>5. /\ current' = g /\ pending' = NoRequest
      /\ runs' = [runs EXCEPT ![g] =
           [present |-> TRUE, state |-> Result(q).state,
            commands |-> IF q.kind = "command"
                         THEN runs[q.game].commands \o q.command ELSE << >>]]
  BY <1>1, <1>4 DEF Save
<1>6. CASE q.kind = "create"
  <2>1. Result(q).state = << >> /\ g = q.id
    BY <1>4, <1>6 DEF Result, Shown
  <2>2. ~runs[g].present /\ runs[g].state = << >>
    BY <1>3, <1>4, <1>6, <2>1, SMTT(60) DEF IInv, GamesStarted
  <2> QED BY <1>0, <1>2, <1>3, <1>4, <1>5, <1>6, <2>1, <2>2
<1>7. CASE q.kind = "command"
  <2>1. /\ q.game \in Games /\ q.game # NoGame /\ q.state \in Seq(Commands)
        /\ \E c \in Commands : q.command = <<c>>
    BY <1>3, <1>7, StagedFields, CheckpointAssumption DEF Games, NoGame
  <2>2. g = q.game /\ Result(q).state = q.state \o q.command
    BY <1>4, <1>7 DEF Result, Shown
  <2>3. q.expected = [id |-> q.game, revision |-> Len(q.state) + 1]
    BY <1>2, <1>7, <2>1 DEF Genuine, Stamp, Shown, Revision
  <2>4. current = g /\ Len(runs[g].state) + 1 = Len(q.state) + 1
    BY <1>1, <2>1, <2>2, <2>3 DEF CheckCurrent, Revision
  <2>5. runs[g].present /\ IsPrefix(q.state, runs[g].state)
    BY <1>3, <2>1, <2>2 DEF IInv, NothingShownIsForeign, Known
  <2>6. runs[g].state \in Seq(Commands)
    BY <1>4 DEF IInv, TypeOK
  <2>7. q.state = runs[g].state
    <3>1. Len(q.state) = Len(runs[g].state)
      BY <2>1, <2>4, <2>6
    <3> QED BY <2>1, <2>5, <2>6, <3>1, PrefixAsLong
  <2>8. Result(q).state = runs[g].state \o q.command
    BY <2>2, <2>7
  <2>9. runs[g].commands \o q.command = Result(q).state
    BY <1>4, <2>2, <2>5, <2>7 DEF IInv, LogReplays
  <2> QED BY <1>0, <1>2, <1>3, <1>4, <1>5, <1>7, <2>2, <2>4, <2>5, <2>7, <2>8, <2>9
<1> QED BY <1>3, <1>6, <1>7, StagedFields

\* A saved game grows at its end: what was known of it stays known.
LEMMA SaveGrows ==
  ASSUME IInv, NEW t \in Tabs, CommitPending(t),
         NEW r, Known(r), r.game \in {NoGame} \cup Games, r.state \in Seq(Commands)
  PROVE  Known(r)'
<1>1. PICK q, g : q = pending /\ g = Result(pending).game
  OBVIOUS
<1>2. /\ g \in Games /\ q \in Staged
      /\ runs' = [runs EXCEPT ![g] = [present |-> TRUE, state |-> Result(q).state,
                                      commands |-> Result(q).state]]
      /\ q.kind \in {"create", "command"}
      /\ q.kind = "create" => ~runs[g].present
      /\ q.kind = "command" => Result(q).state = runs[g].state \o q.command
  BY <1>1, SaveEffect
<1> SUFFICES ASSUME r.game # NoGame
             PROVE  runs'[r.game].present /\ IsPrefix(r.state, runs'[r.game].state)
  BY DEF Known
<1>3. /\ r.game \in Games /\ runs[r.game].present
      /\ IsPrefix(r.state, runs[r.game].state)
      /\ runs \in [Games -> [present : BOOLEAN, state : Seq(Commands),
                             commands : Seq(Commands)]]
  BY DEF Known, IInv, TypeOK
<1>4. CASE r.game # g
  BY <1>2, <1>3, <1>4
<1>5. CASE r.game = g
  <2>1. q.kind = "command" /\ Result(q).state = runs[g].state \o q.command
    BY <1>2, <1>3, <1>5
  <2>2. q.command \in Seq(Commands)
    <3>1. PICK c \in Commands : q.command = <<c>>
      BY <1>2, <2>1, StagedFields
    <3> QED BY <3>1
  <2>3. PICK s \in Seq(Commands) : s = runs[g].state
    BY <1>2, <1>3
  <2>4. IsPrefix(r.state, Result(q).state)
    <3>1. IsPrefix(r.state, s)
      BY <1>3, <1>5, <2>3
    <3>2. IsPrefix(r.state, s \o q.command)
      BY <2>2, <3>1, PrefixOfLonger
    <3> QED BY <2>1, <2>3, <3>2
  <2>5. runs'[g].present /\ runs'[g].state = Result(q).state
    BY <1>2, <1>3
  <2> QED BY <1>5, <2>4, <2>5
<1> QED BY <1>4, <1>5

\* The decisions of a saved game are recorded, the new one before it is saved.
LEMMA SaveRecorded ==
  ASSUME IInv, NEW t \in Tabs, CommitPending(t)
  PROVE  SavedIsRecorded'
<1>1. PICK q, g : q = pending /\ g = Result(pending).game
  OBVIOUS
<1>2. /\ g \in Games /\ q \in Staged /\ Recorded(q)
      /\ runs' = [runs EXCEPT ![g] = [present |-> TRUE, state |-> Result(q).state,
                                      commands |-> Result(q).state]]
  BY <1>1, SaveEffect
<1>3. /\ q.kind \in {"create", "command"}
      /\ q.kind = "create" => g = q.id /\ Result(q).state = << >>
      /\ q.kind = "command" =>
           /\ g = q.game /\ runs[g].present /\ q.state = runs[g].state
           /\ Result(q).state = runs[g].state \o q.command
  BY <1>1, SaveEffect
<1>4. /\ UNCHANGED <<episodes, decisions>>
      /\ runs \in [Games -> [present : BOOLEAN, state : Seq(Commands),
                             commands : Seq(Commands)]]
  BY DEF CommitPending, recorder, IInv, TypeOK
<1> DEFINE Has(h, s) ==
      /\ h \in episodes
      /\ \A i \in 1..Len(s) :
           [game |-> h, before |-> SubSeq(s, 1, i - 1), command |-> <<s[i]>>]
             \in decisions
<1>5. \A h \in Games : runs[h].present => Has(h, runs[h].state)
  BY DEF IInv, SavedIsRecorded
<1>6. Has(g, Result(q).state)
  <2>1. CASE q.kind = "create"
    BY <1>2, <1>3, <2>1 DEF Recorded
  <2>2. CASE q.kind = "command"
    <3>1. PICK c \in Commands : q.command = <<c>>
      BY <1>2, <2>2, StagedFields
    <3>2. /\ g \in episodes /\ Has(g, runs[g].state)
          /\ [game |-> g, before |-> runs[g].state, command |-> <<c>>] \in decisions
      BY <1>2, <1>5, <1>3, <2>2, <3>1 DEF Recorded, Fingerprint
    <3>3. PICK s \in Seq(Commands) : s = runs[g].state
      BY <1>2, <1>4
    <3>4. /\ Result(q).state = s \o <<c>> /\ Len(s \o <<c>>) = Len(s) + 1
          /\ \A i \in 1..Len(s) : (s \o <<c>>)[i] = s[i]
          /\ (s \o <<c>>)[Len(s) + 1] = c
          /\ \A i \in 0..Len(s) : SubSeq(s \o <<c>>, 1, i) = SubSeq(s, 1, i)
          /\ SubSeq(s, 1, Len(s)) = s
      BY <1>3, <2>2, <3>1, <3>3, OneMore, SMTT(60)
    <3>5. ASSUME NEW i \in 1..(Len(s) + 1)
          PROVE  [game |-> g, before |-> SubSeq(s \o <<c>>, 1, i - 1),
                  command |-> <<(s \o <<c>>)[i]>>] \in decisions
      <4>1. Len(s) \in Nat
        OBVIOUS
      <4>2. CASE i = Len(s) + 1
        <5>1. i - 1 = Len(s) /\ Len(s) \in 0..Len(s)
          BY <4>1, <4>2
        <5>2. SubSeq(s \o <<c>>, 1, i - 1) = s /\ (s \o <<c>>)[i] = c
          BY <3>4, <4>2, <5>1
        <5> QED BY <3>2, <3>3, <5>2
      <4>3. CASE i # Len(s) + 1
        <5>1. i \in 1..Len(s) /\ i - 1 \in 0..Len(s)
          BY <4>1, <4>3
        <5>2. /\ SubSeq(s \o <<c>>, 1, i - 1) = SubSeq(s, 1, i - 1)
              /\ (s \o <<c>>)[i] = s[i]
          BY <3>4, <5>1
        <5> QED BY <3>2, <3>3, <5>1, <5>2
      <4> QED BY <4>2, <4>3
    <3> QED BY <3>2, <3>4, <3>5
  <2> QED BY <1>3, <2>1, <2>2
<1>7. ASSUME NEW h \in Games, runs'[h].present PROVE Has(h, runs'[h].state)
  <2>1. CASE h = g
    <3>1. runs'[h].state = Result(q).state
      BY <1>2, <1>4, <2>1
    <3> QED BY <1>6, <2>1, <3>1
  <2>2. CASE h # g
    <3>1. runs'[h] = runs[h]
      BY <1>2, <1>4, <2>2
    <3> QED BY <1>5, <1>7, <3>1
  <2> QED BY <2>1, <2>2
<1> QED BY <1>4, <1>7 DEF SavedIsRecorded

\* Saving a result keeps every part of the invariant.
LEMMA CommitKeeps ==
  ASSUME IInv, NEW t \in Tabs, CommitPending(t)
  PROVE  IInv'
<1>1. PICK q, g : q = pending /\ g = Result(pending).game
  OBVIOUS
<1>2. /\ g \in Games /\ q \in Staged /\ q = pending /\ q.id <= issued
      /\ Result(q).state \in Seq(Commands)
      /\ runs' = [runs EXCEPT ![g] = [present |-> TRUE, state |-> Result(q).state,
                                      commands |-> Result(q).state]]
      /\ current' = g /\ pending' = NoRequest
      /\ q.kind \in {"create", "command"} /\ tabs[t].request = q
      /\ q.kind = "create" => g = q.id
      /\ q.kind = "command" => runs[g].present
  BY <1>1, SaveEffect
<1>3. /\ tabs' = [tabs EXCEPT ![t].pc = "idle", ![t].record = Result(q),
                              ![t].held = FALSE, ![t].request = NoRequest]
      /\ UNCHANGED <<calls, cache, episodes, decisions, counts, issued, faults>>
  BY <1>2 DEF CommitPending, recorder
<1>4. Result(q) \in [game : {NoGame} \cup Games, state : Seq(Commands)]
  BY <1>1, <1>2 DEF Result, Shown
<1>5. /\ tabs' \in [Tabs -> TabStates] /\ tabs'[t].record = Result(q)
      /\ tabs'[t].pc = "idle"
      /\ \A u \in Tabs \ {t} : tabs'[u] = tabs[u]
  <2>1. PICK m : m = [tabs[t] EXCEPT !.pc = "idle", !.record = Result(q),
                                     !.held = FALSE, !.request = NoRequest]
    OBVIOUS
  <2>2. m \in TabStates /\ m.record = Result(q) /\ m.pc = "idle"
    BY <1>4, <2>1, OneTab DEF TabStates
  <2>3. tabs' = [tabs EXCEPT ![t] = m]
    BY <1>3, <2>1, OneTab
  <2> QED BY <2>2, <2>3, TabChange
<1>6. runs \in [Games -> [present : BOOLEAN, state : Seq(Commands),
                          commands : Seq(Commands)]]
  BY DEF IInv, TypeOK
<1>7. runs' \in [Games -> [present : BOOLEAN, state : Seq(Commands),
                           commands : Seq(Commands)]]
  BY <1>2, <1>6
<1>8. TypeOK'
  BY <1>2, <1>3, <1>5, <1>7 DEF IInv, TypeOK
<1>9. RequestsGenuine'
  <2>1. ASSUME NEW r, Genuine(r) PROVE Genuine(r)'
    <3>1. r.id # 0
      BY <2>1, StagedFields DEF Genuine
    <3> QED BY <1>2, <1>3, <2>1, <3>1 DEF Genuine, NoRequest
  <2>2. ASSUME NEW u \in Tabs, Busy(u)' PROVE Genuine(tabs[u].request)'
    <3>1. u # t /\ tabs'[u] = tabs[u]
      BY <1>5, <2>2 DEF Busy
    <3>2. Genuine(tabs[u].request)
      BY <2>2, <3>1 DEF IInv, RequestsGenuine, Busy
    <3> QED BY <2>1, <3>1, <3>2 DEF Genuine
  <2>3. \A call \in calls' : Genuine(call.request)'
    BY <1>3, <2>1 DEF IInv, RequestsGenuine
  <2> QED BY <1>2, <2>2, <2>3 DEF RequestsGenuine
<1>10. GamesStarted'
  <2>1. runs'[g].present
    BY <1>2, <1>6
  <2>2. \A h \in Games : h # g => runs'[h] = runs[h]
    BY <1>2, <1>6
  <2>3. \A h \in Games : IF runs[h].present THEN h <= issued
                         ELSE runs[h].state = << >>
    BY DEF IInv, GamesStarted
  <2>4. g <= issued
    BY <1>2, <2>3
  <2>5. pending'.kind # "create"
    BY <1>2 DEF NoRequest
  <2> QED BY <1>2, <1>3, <2>1, <2>2, <2>3, <2>4, <2>5 DEF GamesStarted
<1>11. AnswersRecorded'
  <2>1. \A r : Recorded(r)' <=> Recorded(r)
    BY <1>3 DEF Recorded
  <2>2. \A u \in Tabs : tabs'[u].pc = "answered" =>
                          tabs[u].pc = "answered" /\ tabs'[u] = tabs[u]
    BY <1>5
  <2> QED BY <1>3, <2>1, <2>2 DEF IInv, AnswersRecorded
<1>12. PendingIsCurrent'
  BY <1>2 DEF PendingIsCurrent
<1>13. LogReplays'
  <2>1. \A h \in Games : h # g => runs'[h] = runs[h]
    BY <1>2, <1>6
  <2>2. runs'[g].commands = runs'[g].state
    BY <1>2, <1>6
  <2> QED BY <2>1, <2>2 DEF IInv, LogReplays
<1>14. NothingShownIsForeign'
  <2>1. ASSUME NEW u \in Tabs PROVE Known(tabs[u].record)'
    <3>1. CASE u = t
      <4>1. runs'[g].present /\ runs'[g].state = Result(q).state
        BY <1>2, <1>6
      <4>2. IsPrefix(Result(q).state, Result(q).state)
        BY <1>2, PrefixOfItself
      <4> QED BY <1>1, <1>5, <3>1, <4>1, <4>2 DEF Known
    <3>2. CASE u # t
      <4>1. tabs'[u] = tabs[u]
        BY <1>5, <3>2
      <4>2. Known(tabs[u].record) /\ tabs[u].record.game \in {NoGame} \cup Games
            /\ tabs[u].record.state \in Seq(Commands)
        BY OneTab
      <4>3. PICK r : r = tabs[u].record
        OBVIOUS
      <4>4. Known(r)'
        BY <4>2, <4>3, SaveGrows
      <4> QED BY <4>1, <4>3, <4>4 DEF Known
    <3> QED BY <3>1, <3>2
  <2>2. Known(pending)'
    BY <1>2 DEF Known, NoRequest
  <2>3. ASSUME NEW call \in calls' PROVE Known(call.request)'
    <3>1. call \in calls /\ call.request \in Staged
      BY <1>3, OneTab
    <3>2. Known(call.request)
      BY <3>1 DEF IInv, NothingShownIsForeign
    <3>3. call.request.game \in {NoGame} \cup Games
          /\ call.request.state \in Seq(Commands)
      BY <3>1, StagedFields
    <3> QED BY <3>2, <3>3, SaveGrows
  <2> QED BY <2>1, <2>2, <2>3 DEF NothingShownIsForeign
<1>15. SavedIsRecorded' /\ CountsAreExact'
  BY <1>3, SaveRecorded DEF IInv, CountsAreExact
<1> QED BY <1>8, <1>9, <1>10, <1>11, <1>12, <1>13, <1>14, <1>15 DEF IInv
-----------------------------------------------------------------------------
(***************************************************************************)
(* The server                                                              *)
(***************************************************************************)

\* An answer changes the tab that still waits for this call, and no other; a
\* tab that takes it as answered waited for this request.
LEMMA AnswerEffect ==
  ASSUME IInv, NEW call \in calls, NEW pc \in {"answered", "refused"},
         Answer(call, pc)
  PROVE  /\ call.from \in Tabs /\ call.request \in Staged
         /\ tabs' \in [Tabs -> TabStates]
         /\ \A u \in Tabs \ {call.from} : tabs'[u] = tabs[u]
         /\ tabs'[call.from].record = tabs[call.from].record
         /\ tabs'[call.from].request = tabs[call.from].request
         /\ Busy(call.from)' => Busy(call.from)
         /\ tabs'[call.from].pc = "answered" =>
              \/ tabs[call.from].pc = "answered"
              \/ pc = "answered" /\ tabs[call.from].request = call.request
<1>1. call.from \in Tabs /\ call.request \in Staged
  BY DEF IInv, TypeOK
<1>2. PICK t \in Tabs : t = call.from
  BY <1>1
<1>3. CASE tabs[t].pc = "waiting" /\ tabs[t].request = call.request
  <2>1. tabs' = [tabs EXCEPT ![t].pc = pc,
                             ![t].connected = (pc = "answered") \/ @]
    BY <1>2, <1>3 DEF Answer
  <2>2. ((pc = "answered") \/ tabs[t].connected) \in BOOLEAN
    OBVIOUS
  <2>3. PICK m : m = [tabs[t] EXCEPT !.pc = pc,
                        !.connected = (pc = "answered") \/ tabs[t].connected]
    OBVIOUS
  <2>4. /\ m \in TabStates /\ m.pc = pc /\ m.record = tabs[t].record
        /\ m.request = tabs[t].request
    BY <2>2, <2>3, OneTab DEF TabStates
  <2>5. tabs' = [tabs EXCEPT ![t] = m]
    BY <2>1, <2>3, OneTab
  <2>6. /\ tabs' \in [Tabs -> TabStates] /\ tabs'[t] = m
        /\ \A u \in Tabs \ {t} : tabs'[u] = tabs[u]
    BY <2>4, <2>5, TabChange
  <2> QED BY <1>1, <1>2, <1>3, <2>4, <2>6 DEF Busy
<1>4. CASE ~(tabs[t].pc = "waiting" /\ tabs[t].request = call.request)
  <2>1. tabs' = tabs
    BY <1>2, <1>4 DEF Answer
  <2> QED BY <1>1, <2>1, OneTab DEF Busy
<1> QED BY <1>3, <1>4

\* Recording inserts the rows of one request and counts those that are new.
LEMMA RecordEffect ==
  ASSUME IInv, NEW q \in Staged, Record(q)
  PROVE  /\ Recorded(q)'
         /\ episodes \subseteq episodes' /\ decisions \subseteq decisions'
         /\ decisions' \in SUBSET [game : Games, before : Seq(Commands),
                                    command : Seq(Commands)]
         /\ IsFiniteSet(decisions')
         /\ counts' \in [Games -> Nat]
         /\ CountsAreExact'
<1>1. /\ decisions \in SUBSET [game : Games, before : Seq(Commands),
                               command : Seq(Commands)]
      /\ IsFiniteSet(decisions) /\ counts \in [Games -> Nat]
      /\ \A g \in Games :
           counts[g] = Cardinality({d \in decisions : d.game = g})
  BY DEF IInv, TypeOK, CountsAreExact
<1>2. CASE q.kind = "create"
  BY <1>1, <1>2 DEF Record, Recorded, CountsAreExact
<1>3. CASE q.kind = "command"
  <2>1. PICK c \in Commands : q.command = <<c>>
    BY <1>3, StagedFields
  <2>2. q.game \in Games /\ q.state \in Seq(Commands) /\ <<c>> \in Seq(Commands)
    BY <1>3, StagedFields
  <2>3. PICK f : f = Fingerprint(q)
    OBVIOUS
  <2>4. f \in [game : Games, before : Seq(Commands), command : Seq(Commands)]
        /\ f.game = q.game
    BY <2>1, <2>2, <2>3 DEF Fingerprint
  <2>5. /\ episodes' = episodes \cup {q.game} /\ decisions' = decisions \cup {f}
        /\ counts' = IF f \in decisions THEN counts
                     ELSE [counts EXCEPT ![q.game] = @ + 1]
    BY <1>3, <2>3 DEF Record
  <2>6. Recorded(q)'
    BY <1>3, <2>3, <2>5 DEF Recorded, Fingerprint
  <2>7. IsFiniteSet(decisions')
    BY <1>1, <2>5, FS_AddElement
  <2>8. counts' \in [Games -> Nat]
    BY <1>1, <2>2, <2>5
  <2>9. ASSUME NEW g \in Games
        PROVE  counts'[g] = Cardinality({d \in decisions' : d.game = g})
    <3>1. CASE f \in decisions
      BY <1>1, <2>5, <3>1
    <3>2. CASE f \notin decisions /\ g # q.game
      <4>1. {d \in decisions' : d.game = g} = {d \in decisions : d.game = g}
        BY <2>4, <2>5, <3>2
      <4>2. counts'[g] = counts[g]
        BY <1>1, <2>5, <3>2
      <4> QED BY <1>1, <4>1, <4>2
    <3>3. CASE f \notin decisions /\ g = q.game
      <4> DEFINE Rows == {d \in decisions : d.game = g}
      <4>1. {d \in decisions' : d.game = g} = Rows \cup {f}
        BY <2>4, <2>5, <3>3
      <4>2. IsFiniteSet(Rows) /\ f \notin Rows
        BY <1>1, <3>3, FS_Subset
      <4>3. Cardinality(Rows \cup {f}) = Cardinality(Rows) + 1
        BY <4>2, FS_AddElement
      <4>4. counts'[g] = counts[g] + 1
        BY <1>1, <2>5, <3>3
      <4> QED BY <1>1, <4>1, <4>3, <4>4
    <3> QED BY <3>1, <3>2, <3>3
  <2> QED BY <1>1, <2>4, <2>5, <2>6, <2>7, <2>8, <2>9 DEF CountsAreExact
<1> QED BY <1>2, <1>3, StagedFields

\* A request is recorded before it is answered, or was when it was cached.
LEMMA ProcessKeeps ==
  ASSUME IInv, NEW call \in calls, Process(call)
  PROVE  IInv'
<1>1. /\ calls' = calls \ {call} /\ Answer(call, "answered")
      /\ UNCHANGED <<runs, current, pending, issued, faults>>
  BY DEF Process, store
<1>2. /\ call.from \in Tabs /\ call.request \in Staged
      /\ tabs' \in [Tabs -> TabStates]
      /\ \A u \in Tabs \ {call.from} : tabs'[u] = tabs[u]
      /\ tabs'[call.from].record = tabs[call.from].record
      /\ tabs'[call.from].request = tabs[call.from].request
      /\ Busy(call.from)' => Busy(call.from)
      /\ tabs'[call.from].pc = "answered" =>
           \/ tabs[call.from].pc = "answered"
           \/ tabs[call.from].request = call.request
  BY <1>1, AnswerEffect
<1>3. PICK t \in Tabs : t = call.from
  BY <1>2
<1>4. calls' \in SUBSET [from : Tabs, request : Staged]
  BY <1>1, <1>3, OneTab
<1>5. CASE call.request \in cache
  <2>1. UNCHANGED <<store, recorder, issued, cache>>
    BY <1>1, <1>5 DEF Process, store
  <2>2. tabs'[t].pc = "answered" => Recorded(tabs'[t].request)
    BY <1>2, <1>3, <1>5 DEF IInv, AnswersRecorded
  <2>3. Known(tabs'[t].record) /\ (Busy(t)' => Genuine(tabs'[t].request))
    BY <1>2, <1>3, OneTab
  <2> QED BY <1>1, <1>2, <1>3, <1>4, <2>1, <2>2, <2>3, TabsKeep
<1>6. CASE call.request \notin cache
  <2>1. Record(call.request) /\ cache' \in {cache, cache \cup {call.request}}
    BY <1>6 DEF Process
  <2>2. /\ Recorded(call.request)'
        /\ episodes \subseteq episodes' /\ decisions \subseteq decisions'
        /\ CountsAreExact'
    BY <1>2, <2>1, RecordEffect
  <2>3. TypeOK'
    <3>1. /\ decisions' \in SUBSET [game : Games, before : Seq(Commands),
                                    command : Seq(Commands)]
          /\ IsFiniteSet(decisions') /\ counts' \in [Games -> Nat]
      BY <1>2, <2>1, RecordEffect
    <3> QED BY <1>1, <1>2, <1>4, <2>1, <3>1 DEF IInv, TypeOK
  <2>4. \A r : Recorded(r) => Recorded(r)'
    BY <2>2 DEF Recorded, Fingerprint
  <2>5. RequestsGenuine'
    <3>1. \A r : Genuine(r)' <=> Genuine(r)
      BY <1>1 DEF Genuine
    <3>2. ASSUME NEW u \in Tabs, Busy(u)' PROVE Genuine(tabs'[u].request)
      <4>1. CASE u = t
        BY <1>2, <1>3, <3>2, <4>1, OneTab
      <4>2. CASE u # t
        BY <1>2, <1>3, <3>2, <4>2 DEF IInv, RequestsGenuine, Busy
      <4> QED BY <4>1, <4>2
    <3> QED BY <1>1, <3>1, <3>2 DEF IInv, RequestsGenuine
  <2>6. GamesStarted' /\ PendingIsCurrent' /\ LogReplays'
    BY <1>1 DEF IInv, GamesStarted, PendingIsCurrent, CheckCurrent, Revision,
       LogReplays
  <2>7. AnswersRecorded'
    <3>1. ASSUME NEW r \in cache' PROVE Recorded(r)'
      BY <2>1, <2>2, <2>4 DEF IInv, AnswersRecorded
    <3>2. ASSUME NEW u \in Tabs, tabs'[u].pc = "answered"
          PROVE  Recorded(tabs[u].request)'
      <4>1. CASE u = t
        <5>1. CASE tabs[t].pc = "answered"
          <6>1. Recorded(tabs[t].request)
            BY <5>1 DEF IInv, AnswersRecorded
          <6> QED BY <1>2, <1>3, <2>4, <4>1, <6>1 DEF Recorded, Fingerprint
        <5>2. CASE tabs[t].request = call.request
          BY <1>2, <1>3, <2>2, <4>1, <5>2 DEF Recorded, Fingerprint
        <5> QED BY <1>2, <1>3, <3>2, <4>1, <5>1, <5>2
      <4>2. CASE u # t
        <5>1. tabs'[u] = tabs[u] /\ Recorded(tabs[u].request)
          BY <1>2, <1>3, <3>2, <4>2 DEF IInv, AnswersRecorded
        <5> QED BY <2>4, <5>1 DEF Recorded, Fingerprint
      <4> QED BY <4>1, <4>2
    <3> QED BY <3>1, <3>2 DEF AnswersRecorded, Recorded, Fingerprint
  <2>8. NothingShownIsForeign'
    <3>1. \A r : Known(r)' <=> Known(r)
      BY <1>1 DEF Known
    <3>2. \A u \in Tabs : Known(tabs'[u].record)
      BY <1>2, OneTab
    <3> QED BY <1>1, <3>1, <3>2 DEF IInv, NothingShownIsForeign
  <2>9. SavedIsRecorded'
    BY <1>1, <2>2 DEF IInv, SavedIsRecorded
  <2> QED BY <2>2, <2>3, <2>5, <2>6, <2>7, <2>8, <2>9 DEF IInv
<1> QED BY <1>5, <1>6

\* A refusal reaches a tab without an answer to record.
LEMMA RefuseKeeps ==
  ASSUME IInv, NEW call \in calls, Refuse(call)
  PROVE  IInv'
<1>1. /\ calls' = calls \ {call} /\ Answer(call, "refused")
      /\ UNCHANGED <<store, recorder, issued, cache>>
  BY DEF Refuse
<1>2. /\ call.from \in Tabs
      /\ tabs' \in [Tabs -> TabStates]
      /\ \A u \in Tabs \ {call.from} : tabs'[u] = tabs[u]
      /\ tabs'[call.from].record = tabs[call.from].record
      /\ tabs'[call.from].request = tabs[call.from].request
      /\ Busy(call.from)' => Busy(call.from)
      /\ tabs'[call.from].pc = "answered" => tabs[call.from].pc = "answered"
  BY <1>1, AnswerEffect
<1>3. PICK t \in Tabs : t = call.from
  BY <1>2
<1>4. calls' \in SUBSET [from : Tabs, request : Staged] /\ cache' \in SUBSET cache
  BY <1>1, <1>3, OneTab
<1>5. /\ Known(tabs'[t].record) /\ (Busy(t)' => Genuine(tabs'[t].request))
      /\ tabs'[t].pc = "answered" => Recorded(tabs'[t].request)
  BY <1>2, <1>3, OneTab DEF IInv, AnswersRecorded
<1> QED BY <1>1, <1>2, <1>3, <1>4, <1>5, TabsKeep

\* A lost call, or a cache that forgets, leaves the tabs as they are.
LEMMA LossKeeps ==
  ASSUME IInv, UNCHANGED <<store, tabs, recorder, issued>>,
         calls' \subseteq calls, cache' \subseteq cache
  PROVE  IInv'
<1>1. PICK t \in Tabs : TRUE
  BY CheckpointAssumption
<1>2. /\ tabs' \in [Tabs -> TabStates]
      /\ calls' \in SUBSET [from : Tabs, request : Staged]
      /\ \A u \in Tabs \ {t} : tabs'[u] = tabs[u]
  BY <1>1, OneTab
<1>3. /\ Known(tabs'[t].record) /\ (Busy(t)' => Genuine(tabs'[t].request))
      /\ tabs'[t].pc = "answered" => Recorded(tabs'[t].request)
  BY <1>1, OneTab DEF Busy, IInv, AnswersRecorded
<1> QED BY <1>1, <1>2, <1>3, TabsKeep
-----------------------------------------------------------------------------
(***************************************************************************)
(* The theorems                                                            *)
(***************************************************************************)

\* Nothing is saved, shown, sent or recorded at first.
LEMMA Initially == Init => IInv
<1> SUFFICES ASSUME Init PROVE IInv
  OBVIOUS
<1>1. /\ << >> \in Seq(Commands) /\ 0 \in 0..MaxRequests
      /\ IsFiniteSet({})
  BY CheckpointAssumption, FS_EmptySet
<1>2. ClosedTab \in TabStates /\ ClosedTab.pc = "closed" /\ Known(ClosedTab.record)
  BY <1>1 DEF ClosedTab, TabStates, Known, Nothing, Shown
<1>3. /\ \A g \in Games : runs[g] = NoRecord
      /\ \A t \in Tabs : tabs[t] = ClosedTab
      /\ runs \in [Games -> {NoRecord}] /\ tabs \in [Tabs -> {ClosedTab}]
  BY DEF Init
<1>4. TypeOK
  <2>1. NoRecord \in [present : BOOLEAN, state : Seq(Commands),
                      commands : Seq(Commands)]
    BY <1>1 DEF NoRecord
  <2> QED BY <1>1, <1>2, <1>3, <2>1 DEF Init, TypeOK
<1>5. RequestsGenuine /\ AnswersRecorded
  BY <1>2, <1>3 DEF Init, RequestsGenuine, AnswersRecorded, Busy
<1>6. GamesStarted /\ PendingIsCurrent /\ LogReplays /\ SavedIsRecorded
  BY <1>3 DEF Init, GamesStarted, PendingIsCurrent, LogReplays, SavedIsRecorded,
     NoRecord, NoRequest
<1>7. NothingShownIsForeign
  BY <1>2, <1>3 DEF Init, NothingShownIsForeign, Known, NoRequest
<1>8. CountsAreExact
  <2>1. \A g \in Games : {d \in decisions : d.game = g} = {} /\ counts[g] = 0
    BY DEF Init
  <2> QED BY <2>1, FS_EmptySet DEF CountsAreExact
<1> QED BY <1>4, <1>5, <1>6, <1>7, <1>8 DEF IInv

\* Every step of a tab or of the server preserves the invariant.
LEMMA StepKeeps == IInv /\ [Next]_vars => IInv'
<1> SUFFICES ASSUME IInv, [Next]_vars PROVE IInv'
  OBVIOUS
<1>1. ASSUME NEW t \in Tabs, TabStep(t) PROVE IInv'
  BY <1>1, StartRunKeeps, SendCommandKeeps, RetryKeeps, RestoreKeeps,
     OpenTabKeeps, ResumeKeeps, BeliefsKeep, CommitKeeps, EndsWithoutResult,
     ClearKeeps, CloseTabKeeps DEF TabStep
<1>2. ASSUME NEW call \in calls, Process(call) \/ Refuse(call) \/ Lose(call)
      PROVE  IInv'
  <2>1. CASE Lose(call)
    BY <2>1, LossKeeps DEF Lose
  <2> QED BY <1>2, <2>1, ProcessKeeps, RefuseKeeps
<1>3. CASE CacheExpires
  BY <1>3, LossKeeps DEF CacheExpires
<1>4. CASE UNCHANGED vars
  BY <1>4, LossKeeps DEF vars, store, recorder
<1> QED BY <1>1, <1>2, <1>3, <1>4 DEF Next, ServerStep

\* The inductive invariant of the checkpoint protocol holds for any number of
\* tabs, whatever is retried, lost, refused or closed (app.mjs, storage.mjs,
\* service.go, recorder.go).
THEOREM Invariance == Spec => []IInv
<1> QED BY Initially, StepKeeps, PTL DEF Spec

\* An operation that waits was staged for the game as it is on the table now,
\* whatever other tabs did since (storage.mjs, stagePending).
THEOREM WaitingStaysCurrent == Spec => []PendingIsCurrent
<1>1. IInv => PendingIsCurrent
  BY DEF IInv
<1> QED BY <1>1, Invariance, PTL

\* The commands listed with a saved game lead to the state that is saved
\* (storage.mjs, commitPending).
THEOREM SavedGamesReplay == Spec => []LogReplays
<1>1. IInv => LogReplays
  BY DEF IInv
<1> QED BY <1>1, Invariance, PTL

\* What a tab shows, and what a request was made from, is a state the saved
\* game has been in (app.mjs, stamp).
THEOREM ShownIsHistory == Spec => []NothingShownIsForeign
<1>1. IInv => NothingShownIsForeign
  BY DEF IInv
<1> QED BY <1>1, Invariance, PTL

\* Whatever a browser saved, the recorder has stored (service.go, Command).
THEOREM NothingSavedUnrecorded == Spec => []SavedIsRecorded
<1>1. IInv => SavedIsRecorded
  BY DEF IInv
<1> QED BY <1>1, Invariance, PTL

\* Each transition of a game is counted once, however often it was sent
\* (recorder.go, RecordDecision).
THEOREM CountedOnce == Spec => []CountsAreExact
<1>1. IInv => CountsAreExact
  BY DEF IInv
<1> QED BY <1>1, Invariance, PTL

\* Only three steps touch the operation that waits: staging when there is
\* none, saving its result, and dropping it when it is refused.
LEMMA PendingStep ==
  ASSUME IInv, Next, pending # NoRequest, pending' # pending
  PROVE  \E t \in Tabs : CommitPending(t) \/ ClearRejected(t)
<1>1. ASSUME NEW t \in Tabs, NEW q, Stage(t, q) PROVE FALSE
  BY <1>1 DEF Stage, NothingPending
<1>2. PICK t \in Tabs : TabStep(t)
  <2>1. ~ServerStep
    BY DEF ServerStep, Process, Refuse, Lose, CacheExpires, store
  <2> QED BY <2>1 DEF Next
<1>3. ~StartRun(t) /\ ~(\E c \in Commands : SendCommand(t, c))
  BY <1>1 DEF StartRun, SendCommand
<1>4. /\ ~RetryPending(t) /\ ~RestoreCurrent(t) /\ ~OpenTab(t)
      /\ ~(\E g \in Games : ResumeRun(t, g)) /\ ~OnOtherTab(t)
      /\ ~AiRecommend(t) /\ ~CommitRefused(t) /\ ~SaveFails(t)
      /\ ~CallFails(t) /\ ~CloseTab(t)
  BY DEF RetryPending, RestoreCurrent, OpenTab, ResumeRun, OnOtherTab,
     AiRecommend, CommitRefused, SaveFails, CallFails, CloseTab, store
<1> QED BY <1>2, <1>3, <1>4 DEF TabStep

\* An operation that waits ends by its own result being saved, or by a tab that
\* was told that this operation is refused (storage.mjs, commitPending and
\* clearRejected).
THEOREM WaitingEndsByItself == Spec => PendingEndsByItself
<1> DEFINE Ends ==
      pending # NoRequest /\ pending' # pending =>
        /\ pending' = NoRequest
        /\ \/ /\ runs'[Result(pending).game].present
              /\ runs'[Result(pending).game].state = Result(pending).state
              /\ current' = Result(pending).game
           \/ \E t \in Tabs : tabs[t].pc = "refused"
                              /\ tabs[t].request = pending
<1>1. IInv /\ [Next]_vars => [Ends]_vars
  <2> SUFFICES ASSUME IInv, Next, pending # NoRequest, pending' # pending
               PROVE  Ends
    OBVIOUS
  <2>1. PICK t \in Tabs : CommitPending(t) \/ ClearRejected(t)
    BY PendingStep
  <2>2. CASE CommitPending(t)
    <3>1. PICK g : g = Result(pending).game
      OBVIOUS
    <3>2. /\ g \in Games /\ current' = g /\ pending' = NoRequest
          /\ runs' = [runs EXCEPT ![g] = [present |-> TRUE,
                                          state |-> Result(pending).state,
                                          commands |-> Result(pending).state]]
      BY <2>2, <3>1, SaveEffect
    <3>3. runs'[g].present /\ runs'[g].state = Result(pending).state
      BY <3>2 DEF IInv, TypeOK
    <3> QED BY <3>1, <3>2, <3>3
  <2>3. CASE ClearRejected(t)
    <3>1. /\ tabs[t].pc = "refused" /\ pending' = NoRequest
          /\ StillPending(tabs[t].request)
      BY <2>3 DEF ClearRejected
    <3>2. tabs[t].request = pending
      BY <3>1, OneTab DEF Busy, Genuine, StillPending
    <3> QED BY <3>1, <3>2
  <2> QED BY <2>1, <2>2, <2>3
<1> QED BY <1>1, Invariance, PTL DEF Spec, PendingEndsByItself
-----------------------------------------------------------------------------
(***************************************************************************)
(* The archive                                                             *)
(***************************************************************************)

\* A saved creation begins a game; a saved decision is played at the end of
\* the game on the table.
LEMMA CommitArchive ==
  ASSUME IInv, NEW t \in Tabs, CommitPending(t)
  PROVE  Archive!Next
<1>1. PICK q, g : q = pending /\ g = Result(pending).game
  OBVIOUS
<1>2. /\ g \in Games /\ q \in Staged /\ q.kind \in {"create", "command"}
      /\ runs' = [runs EXCEPT ![g] = [present |-> TRUE, state |-> Result(q).state,
                                      commands |-> Result(q).state]]
      /\ current' = g
  BY <1>1, SaveEffect
<1>3. runs \in [Games -> [present : BOOLEAN, state : Seq(Commands),
                          commands : Seq(Commands)]]
  BY DEF IInv, TypeOK
<1>4. /\ runs'[g].present /\ runs'[g].state = Result(q).state
      /\ \A h \in Games : h # g => runs'[h] = runs[h]
  BY <1>2, <1>3
<1>5. CASE q.kind = "create"
  <2>1. ~runs[g].present /\ runs[g].state = << >> /\ Result(q).state = << >>
    BY <1>1, <1>5, SaveEffect
  <2>2. {h \in Games : runs'[h].present} = {h \in Games : runs[h].present} \cup {g}
    BY <1>2, <1>4
  <2>3. [h \in Games |-> runs'[h].state] = [h \in Games |-> runs[h].state]
    BY <1>4, <2>1
  <2>4. g \notin {h \in Games : runs[h].present}
    BY <2>1
  <2> QED BY <1>2, <2>2, <2>3, <2>4 DEF Archive!Next, Archive!Begin
<1>6. CASE q.kind = "command"
  <2>1. g = current /\ runs[g].present
    BY <1>1, <1>6, SaveEffect
  <2>2. Result(q).state = runs[g].state \o q.command
    BY <1>1, <1>6, SaveEffect
  <2>3. PICK c \in Commands : q.command = <<c>>
    BY <1>2, <1>6, StagedFields
  <2>4. PICK s \in Seq(Commands) : s = runs[g].state
    BY <1>2, <1>3
  <2>5. runs'[g].state = Append(s, c)
    BY <1>4, <2>2, <2>3, <2>4, OneMore
  <2>6. {h \in Games : runs'[h].present} = {h \in Games : runs[h].present}
    BY <1>4, <2>1
  <2>7. [h \in Games |-> runs'[h].state] =
          [[h \in Games |-> runs[h].state] EXCEPT ![g] = Append(@, c)]
    <3>1. PICK before : before = [h \in Games |-> runs[h].state]
      OBVIOUS
    <3>2. \A h \in Games :
            runs'[h].state = IF h = g THEN Append(s, c) ELSE before[h]
      BY <1>4, <2>5, <3>1
    <3>3. before[g] = s
      BY <1>2, <2>4, <3>1
    <3>4. [h \in Games |-> runs'[h].state] = [before EXCEPT ![g] = Append(s, c)]
      BY <3>1, <3>2
    <3> QED BY <3>1, <3>3, <3>4
  <2>8. g \in {h \in Games : runs[h].present}
    BY <1>2, <2>1
  <2> QED BY <1>2, <2>1, <2>6, <2>7, <2>8 DEF Archive!Next, Archive!Play
<1> QED BY <1>2, <1>5, <1>6

\* Every step is a step of the archive, or leaves the archive as it is.
LEMMA StepArchive == IInv /\ [Next]_vars => [Archive!Next]_(Archive!vars)
<1> SUFFICES ASSUME IInv, [Next]_vars, ~(UNCHANGED Archive!vars)
             PROVE  Archive!Next
  OBVIOUS
<1>1. ~(runs' = runs /\ current' = current)
  BY DEF Archive!vars
<1>2. ASSUME NEW t \in Tabs, NEW q, Stage(t, q) PROVE FALSE
  BY <1>1, <1>2 DEF Stage
<1>3. PICK t \in Tabs : TabStep(t)
  <2>1. ~ServerStep /\ ~(UNCHANGED vars)
    BY <1>1 DEF ServerStep, Process, Refuse, Lose, CacheExpires, store, vars
  <2> QED BY <2>1 DEF Next
<1>4. ~StartRun(t) /\ ~(\E c \in Commands : SendCommand(t, c))
  BY <1>2 DEF StartRun, SendCommand
<1>5. /\ ~RetryPending(t) /\ ~RestoreCurrent(t) /\ ~OpenTab(t)
      /\ ~OnOtherTab(t) /\ ~AiRecommend(t) /\ ~CommitRefused(t)
      /\ ~SaveFails(t) /\ ~ClearRejected(t) /\ ~CallFails(t) /\ ~CloseTab(t)
  BY <1>1 DEF RetryPending, RestoreCurrent, OpenTab, OnOtherTab, AiRecommend,
     CommitRefused, SaveFails, ClearRejected, CallFails, CloseTab, store
<1>6. ASSUME NEW g \in Games, ResumeRun(t, g) PROVE Archive!Next
  <2>1. g \in {h \in Games : runs[h].present} /\ current' = g /\ runs' = runs
    BY <1>6 DEF ResumeRun
  <2> QED BY <2>1 DEF Archive!Next, Archive!Resume
<1> QED BY <1>3, <1>4, <1>5, <1>6, CommitArchive DEF TabStep

\* Tabs, retries, refusals and failures together behave as one archive of
\* games, each with one history that only grows at its end (storage.mjs).
THEOREM CheckpointsAreAnArchive == Spec => ImplementsArchive
<1>1. Init => Archive!Init
  BY DEF Init, Archive!Init, NoRecord
<1>2. IInv /\ [Next]_vars => [Archive!Next]_(Archive!vars)
  BY StepArchive
<1> QED BY <1>1, <1>2, Invariance, PTL DEF Spec, ImplementsArchive, Archive!Spec
=============================================================================
