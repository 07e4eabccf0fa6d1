------------------------------ MODULE Checkpoint ------------------------------
(***************************************************************************)
(* The checkpoint protocol between the browser tabs of one player          *)
(* (src/web/assets/app.mjs), their shared IndexedDB store                  *)
(* (src/web/assets/storage.mjs), and the stateless server with its         *)
(* response cache and its decision recorder (src/internal/application,     *)
(* transport, storage, telemetry).                                         *)
(*                                                                         *)
(* The engine is deterministic, so the state sealed in a token is named by *)
(* its game and the commands that led to it.  A run id is derived from the *)
(* request that creates the run, so it is that request's id.  Each         *)
(* IndexedDB transaction is one atomic step; network calls are not.        *)
(***************************************************************************)
EXTENDS Integers, Sequences, FiniteSets, SequencesExt

CONSTANTS
  Tabs,         \* browser tabs of the player
  Commands,     \* decisions a player may take
  MaxRequests,  \* bound: requests ever staged
  MaxLength,    \* bound: commands of one game
  MaxFaults     \* bound: lost calls, timeouts, failures and closed tabs

ASSUME CheckpointAssumption ==
  /\ Tabs # {} /\ Commands # {}
  /\ MaxRequests \in Nat \ {0} /\ MaxLength \in Nat /\ MaxFaults \in Nat

VARIABLES
  runs,       \* store 'runs': the saved record of each game
  current,    \* store 'meta', key 'current': the game on the table, or 0
  pending,    \* store 'pending', key 'active': the one unfinished operation
  tabs,       \* the memory of each tab
  calls,      \* requests on their way to, or inside, the server
  cache,      \* requests whose response is cached
  episodes,   \* recorder: games with an episode row
  decisions,  \* recorder: transition rows, identified by their fingerprint
  counts,     \* recorder: transition_count of each episode
  issued,     \* requests staged so far
  faults

vars == <<runs, current, pending, tabs, calls, cache, episodes, decisions,
          counts, issued, faults>>

store == <<runs, current, pending>>
recorder == <<episodes, decisions, counts>>

Games == 1..MaxRequests
NoGame == 0
Histories == BoundedSeq(Commands, MaxLength + 1)

\* A saved record: the state its token seals, and the commands listed with it.
NoRecord == [present |-> FALSE, state |-> << >>, commands |-> << >>]

\* The record a tab shows; game NoGame is an empty table.
Shown(game, state) == [game |-> game, state |-> state]
Nothing == Shown(NoGame, << >>)

Revision(state) == Len(state) + 1

\* stamp: what a tab believes to be current.
Stamp(record) ==
  [id |-> record.game,
   revision |-> IF record.game = NoGame THEN 0 ELSE Revision(record.state)]

NoRequest == [id |-> 0, kind |-> "none", game |-> NoGame, state |-> << >>,
              command |-> << >>, expected |-> [id |-> NoGame, revision |-> 0]]

\* The result of engine.New or engine.Apply that the server seals in a token.
Result(q) == IF q.kind = "create" THEN Shown(q.id, << >>)
             ELSE Shown(q.game, q.state \o q.command)

ClosedTab == [pc |-> "closed", record |-> Nothing, connected |-> FALSE,
              held |-> FALSE, request |-> NoRequest, retry |-> FALSE]

\* getCurrent: the record on the table, as a tab shows it.
CurrentRecord ==
  IF current = NoGame THEN Nothing ELSE Shown(current, runs[current].state)

-----------------------------------------------------------------------------
(***************************************************************************)
(* The store                                                               *)
(***************************************************************************)

\* Fault: the game is compared, its revision is not.
CheckCurrentGame(expected) == current = expected.id

\* checkCurrent: nothing moved since the stamp was taken.
CheckCurrent(expected) ==
  /\ current = expected.id
  /\ current # NoGame => Revision(runs[current].state) = expected.revision

\* Fault: an operation already waiting is overwritten.
StoreFree == TRUE

\* stagePending refuses while an operation waits.
NothingPending == pending = NoRequest

\* commitPending and clearRejected act only on the operation that was sent.
StillPending(q) == pending.id = q.id

\* Fault: the history is saved without the command that extends it.
SaveStateOnly(q) ==
  /\ runs' = [runs EXCEPT ![Result(q).game] =
       [present |-> TRUE, state |-> Result(q).state,
        commands |-> runs[Result(q).game].commands]]
  /\ current' = Result(q).game
  /\ pending' = NoRequest

\* The writes of commitPending: record, pointer and operation together.
Save(q) ==
  /\ runs' = [runs EXCEPT ![Result(q).game] =
       [present |-> TRUE, state |-> Result(q).state,
        commands |-> IF q.kind = "command"
                     THEN runs[q.game].commands \o q.command ELSE << >>]]
  /\ current' = Result(q).game
  /\ pending' = NoRequest

-----------------------------------------------------------------------------
(***************************************************************************)
(* A tab: one user operation at a time (busy)                              *)
(***************************************************************************)

Idle(t) == tabs[t].pc = "idle"
Fault == faults < MaxFaults /\ faults' = faults + 1

\* A call leaves a tab: applyPending calls api and awaits the answer.
Send(t, q, retry) ==
  /\ tabs' = [tabs EXCEPT ![t].pc = "waiting", ![t].request = q,
                          ![t].held = TRUE, ![t].retry = retry]
  /\ calls' = calls \cup {[from |-> t, request |-> q]}

\* execute: stage in one transaction; on refusal only the view is refreshed.
Stage(t, q) ==
  /\ IF CheckCurrent(q.expected) /\ NothingPending
     THEN /\ pending' = q
          /\ issued' = issued + 1
          /\ Send(t, q, FALSE)
     ELSE /\ tabs' = [tabs EXCEPT ![t].held = pending # NoRequest]
          /\ UNCHANGED <<pending, issued, calls>>
  /\ UNCHANGED <<runs, current, cache, recorder, faults>>

\* startRun needs no connection, only a free tab.
StartRun(t) ==
  /\ Idle(t) /\ ~tabs[t].held
  /\ issued < MaxRequests
  /\ Stage(t, [id |-> issued + 1, kind |-> "create", game |-> NoGame,
               state |-> << >>, command |-> << >>,
               expected |-> Stamp(tabs[t].record)])

\* sendCommand: the token and the revision are those of the shown record.
SendCommand(t, c) ==
  /\ Idle(t) /\ tabs[t].connected /\ ~tabs[t].held
  /\ tabs[t].record.game # NoGame
  /\ Len(tabs[t].record.state) < MaxLength
  /\ issued < MaxRequests
  /\ Stage(t, [id |-> issued + 1, kind |-> "command",
               game |-> tabs[t].record.game, state |-> tabs[t].record.state,
               command |-> <<c>>, expected |-> Stamp(tabs[t].record)])

\* retryPending: the stored operation is sent again as it is; when another tab
\* has finished it, the saved record is loaded.
RetryPending(t) ==
  /\ Idle(t)
  /\ IF pending # NoRequest
     THEN Send(t, pending, TRUE)
     ELSE /\ tabs' = [tabs EXCEPT ![t].record = CurrentRecord,
                                  ![t].held = FALSE, ![t].connected = FALSE]
          /\ UNCHANGED calls
  /\ UNCHANGED <<store, cache, recorder, issued, faults>>

\* restoreCurrent: the saved record is loaded; the restore call changes nothing
\* but tells whether the server answers.  It is skipped while an operation
\* waits.
RestoreCurrent(t) ==
  /\ Idle(t)
  /\ \E answered \in BOOLEAN :
       tabs' = [tabs EXCEPT
         ![t].record = CurrentRecord,
         ![t].held = pending # NoRequest,
         ![t].connected = answered /\ pending = NoRequest /\ current # NoGame]
  /\ UNCHANGED <<store, calls, cache, recorder, issued, faults>>

\* onMounted: a tab opened or reloaded knows only what the store holds.
OpenTab(t) ==
  /\ tabs[t].pc = "closed"
  /\ tabs' = [tabs EXCEPT ![t] =
       [ClosedTab EXCEPT !.pc = "idle", !.record = CurrentRecord,
                         !.held = pending # NoRequest]]
  /\ UNCHANGED <<store, calls, cache, recorder, issued, faults>>

\* resumeRun and switchCurrent; the restoreCurrent that follows is the action
\* above.  A refused transaction changes nothing.
ResumeRun(t, g) ==
  /\ Idle(t) /\ ~tabs[t].held
  /\ CheckCurrent(Stamp(tabs[t].record)) /\ NothingPending /\ runs[g].present
  /\ current' = g
  /\ tabs' = [tabs EXCEPT ![t].record = Shown(g, runs[g].state),
                          ![t].connected = FALSE]
  /\ UNCHANGED <<runs, pending, calls, cache, recorder, issued, faults>>

\* onOtherTab: a tab that notices newer progress asks to be reconnected.
OnOtherTab(t) ==
  /\ Idle(t)
  /\ tabs' = [tabs EXCEPT
       ![t].held = pending # NoRequest,
       ![t].connected = @ /\ Stamp(tabs[t].record) = Stamp(CurrentRecord)]
  /\ UNCHANGED <<store, calls, cache, recorder, issued, faults>>

\* aiRecommend shares api with the commands but not their lock: its answer, or
\* its failure, also decides whether the tab counts as connected.
AiRecommend(t) ==
  /\ tabs[t].pc # "closed" /\ tabs[t].record.game # NoGame
  /\ \E answered \in BOOLEAN :
       tabs' = [tabs EXCEPT ![t].connected = answered]
  /\ UNCHANGED <<store, calls, cache, recorder, issued, faults>>

\* commitPending, then the tab shows what was saved.
CommitPending(t) ==
  LET q == tabs[t].request IN
  /\ tabs[t].pc = "answered"
  /\ StillPending(q) /\ CheckCurrent(q.expected)
  /\ Save(q)
  /\ tabs' = [tabs EXCEPT ![t].pc = "idle", ![t].record = Result(q),
                          ![t].held = FALSE, ![t].request = NoRequest]
  /\ UNCHANGED <<calls, cache, recorder, issued, faults>>

\* An operation that ends without a result: execute refreshes what the tab
\* knows of the store, retryPending keeps showing the operation.
GiveUp(t) ==
  tabs' = [tabs EXCEPT ![t].pc = "idle", ![t].request = NoRequest,
                       ![t].held = IF tabs[t].retry THEN TRUE
                                   ELSE pending # NoRequest]

\* commitPending aborts: another tab has finished the operation.
CommitRefused(t) ==
  LET q == tabs[t].request IN
  /\ tabs[t].pc = "answered"
  /\ ~(StillPending(q) /\ CheckCurrent(q.expected))
  /\ GiveUp(t)
  /\ UNCHANGED <<store, calls, cache, recorder, issued, faults>>

\* commitPending fails in the browser (quota, abort): nothing is written.
SaveFails(t) ==
  /\ tabs[t].pc = "answered"
  /\ Fault
  /\ GiveUp(t)
  /\ UNCHANGED <<store, calls, cache, recorder, issued>>

\* Fault: a refusal drops whatever operation is stored.
ClearAny(t) ==
  /\ tabs[t].pc = "refused"
  /\ pending' = NoRequest
  /\ tabs' = [tabs EXCEPT ![t].pc = "idle", ![t].request = NoRequest,
                          ![t].held = FALSE]
  /\ UNCHANGED <<runs, current, calls, cache, recorder, issued, faults>>

\* clearRejected: the server will never accept this request.
ClearRejected(t) ==
  /\ tabs[t].pc = "refused"
  /\ pending' = IF StillPending(tabs[t].request) THEN NoRequest ELSE pending
  /\ tabs' = [tabs EXCEPT ![t].pc = "idle", ![t].request = NoRequest,
                          ![t].held = pending' # NoRequest]
  /\ UNCHANGED <<runs, current, calls, cache, recorder, issued, faults>>

\* The call times out or its connection breaks (and the tab knows), or it ends
\* in a 429 or a 500: the operation stays staged.  The server may still process
\* the request.
CallFails(t) ==
  /\ tabs[t].pc = "waiting"
  /\ Fault
  /\ \E broken \in BOOLEAN :
       tabs' = [tabs EXCEPT ![t].pc = "idle", ![t].request = NoRequest,
                            ![t].connected = @ /\ ~broken,
                            ![t].held = IF tabs[t].retry THEN TRUE
                                        ELSE pending # NoRequest]
  /\ UNCHANGED <<store, calls, cache, recorder, issued>>

\* A tab is closed or crashes at any point of an operation.
CloseTab(t) ==
  /\ tabs[t].pc # "closed"
  /\ Fault
  /\ tabs' = [tabs EXCEPT ![t] = ClosedTab]
  /\ UNCHANGED <<store, calls, cache, recorder, issued>>

-----------------------------------------------------------------------------
(***************************************************************************)
(* The server                                                              *)
(***************************************************************************)

\* The answer reaches the tab if it is still waiting for this call.
Answer(call, pc) ==
  LET t == call.from IN
  tabs' = IF tabs[t].pc = "waiting" /\ tabs[t].request = call.request
          THEN [tabs EXCEPT ![t].pc = pc, ![t].connected = (pc = "answered") \/ @]
          ELSE tabs

\* The fingerprint of a decision: state before, command, state after.
Fingerprint(q) == [game |-> q.game, before |-> q.state, command |-> q.command]

\* Fault: the counter is not tied to the row being new.
RecordAndCount(q) ==
  IF q.kind = "create"
  THEN episodes' = episodes \cup {q.id} /\ UNCHANGED <<decisions, counts>>
  ELSE /\ episodes' = episodes \cup {q.game}
       /\ decisions' = decisions \cup {Fingerprint(q)}
       /\ counts' = [counts EXCEPT ![q.game] = @ + 1]

\* Fault: a new game is recorded under the game of the request.
RecordUnderRequestGame(q) ==
  /\ episodes' = episodes \cup {q.game}
  /\ IF q.kind = "create" THEN UNCHANGED <<decisions, counts>>
     ELSE /\ decisions' = decisions \cup {Fingerprint(q)}
          /\ counts' = IF Fingerprint(q) \in decisions THEN counts
                       ELSE [counts EXCEPT ![q.game] = @ + 1]

\* RecordCreated and RecordDecision: rows are inserted once, and the counter
\* moves in the same transaction as a row that is new.
Record(q) ==
  IF q.kind = "create"
  THEN episodes' = episodes \cup {q.id} /\ UNCHANGED <<decisions, counts>>
  ELSE /\ episodes' = episodes \cup {q.game}
       /\ decisions' = decisions \cup {Fingerprint(q)}
       /\ counts' = IF Fingerprint(q) \in decisions THEN counts
                    ELSE [counts EXCEPT ![q.game] = @ + 1]

\* endpoint, Create and Command: a cached response is returned as it is; a
\* computed one is recorded before it is cached and sent.
Process(call) ==
  /\ call \in calls
  /\ calls' = calls \ {call}
  /\ IF call.request \in cache
     THEN UNCHANGED <<cache, recorder>>
     ELSE /\ Record(call.request)
          /\ cache' \in {cache, cache \cup {call.request}}
  /\ Answer(call, "answered")
  /\ UNCHANGED <<store, issued, faults>>

\* The request is refused for good: an illegal command, or a content version
\* or signing key the server no longer has (a cached response still serves).
Refuse(call) ==
  /\ call \in calls /\ call.request \notin cache
  /\ calls' = calls \ {call}
  /\ Answer(call, "refused")
  /\ UNCHANGED <<store, cache, recorder, issued, faults>>

\* The request never arrives, or the recorder fails and rolls back.
Lose(call) ==
  /\ call \in calls
  /\ Fault
  /\ calls' = calls \ {call}
  /\ UNCHANGED <<store, tabs, cache, recorder, issued>>

\* Cached responses expire; Redis may forget everything.
CacheExpires ==
  /\ cache # {} /\ cache' = {}
  /\ UNCHANGED <<store, tabs, calls, recorder, issued, faults>>

-----------------------------------------------------------------------------
Init ==
  /\ runs = [g \in Games |-> NoRecord]
  /\ current = NoGame
  /\ pending = NoRequest
  /\ tabs = [t \in Tabs |-> ClosedTab]
  /\ calls = {} /\ cache = {}
  /\ episodes = {} /\ decisions = {} /\ counts = [g \in Games |-> 0]
  /\ issued = 0 /\ faults = 0

TabStep(t) ==
  \/ StartRun(t)
  \/ \E c \in Commands : SendCommand(t, c)
  \/ RetryPending(t)
  \/ RestoreCurrent(t)
  \/ OpenTab(t)
  \/ \E g \in Games : ResumeRun(t, g)
  \/ OnOtherTab(t)
  \/ AiRecommend(t)
  \/ CommitPending(t)
  \/ CommitRefused(t)
  \/ SaveFails(t)
  \/ ClearRejected(t)
  \/ CallFails(t)
  \/ CloseTab(t)

ServerStep ==
  \/ \E call \in calls : Process(call) \/ Refuse(call) \/ Lose(call)
  \/ CacheExpires

Next == (\E t \in Tabs : TabStep(t)) \/ ServerStep

Spec == Init /\ [][Next]_vars

-----------------------------------------------------------------------------
(***************************************************************************)
(* Properties                                                              *)
(***************************************************************************)

\* A waiting operation never goes stale: whatever other tabs do meanwhile, the
\* stamp it was staged with is still that of the game on the table.
PendingIsCurrent ==
  pending # NoRequest => CheckCurrent(pending.expected)

\* Every saved game replays: the commands listed with it lead exactly to the
\* state its token seals, so verifyRun succeeds.
LogReplays ==
  \A g \in Games : runs[g].present => runs[g].commands = runs[g].state

\* The state of a record or a request belongs to the saved game it names.
Known(r) ==
  r.game # NoGame =>
    runs[r.game].present /\ IsPrefix(r.state, runs[r.game].state)

\* What any tab shows, and what any request on its way was made from, is an
\* earlier or the present state of the saved game: equal revisions are equal
\* states, which is what comparing stamps takes for granted.
NothingShownIsForeign ==
  /\ \A t \in Tabs : Known(tabs[t].record)
  /\ Known(pending)
  /\ \A call \in calls : Known(call.request)

\* No decision is shown to the player that the recorder has not stored: saved
\* games have their episode and every one of their decisions.
SavedIsRecorded ==
  \A g \in Games : runs[g].present =>
    /\ g \in episodes
    /\ \A i \in 1..Len(runs[g].state) :
         [game |-> g, before |-> SubSeq(runs[g].state, 1, i - 1),
          command |-> <<runs[g].state[i]>>] \in decisions

\* Retries are not counted twice, and no row goes uncounted.
CountsAreExact ==
  \A g \in Games :
    counts[g] = Cardinality({d \in decisions : d.game = g})

\* A staged operation ends only by its own result being saved, or by a tab
\* that was told its own request is refused: never by another operation.
PendingEndsByItself ==
  [][pending # NoRequest /\ pending' # pending =>
       /\ pending' = NoRequest
       /\ \/ /\ runs'[Result(pending).game].present
             /\ runs'[Result(pending).game].state = Result(pending).state
             /\ current' = Result(pending).game
          \/ \E t \in Tabs : tabs[t].pc = "refused"
                             /\ tabs[t].request = pending]_vars

Archive == INSTANCE GameArchive WITH
  started <- {g \in Games : runs[g].present},
  history <- [g \in Games |-> runs[g].state],
  active <- current

\* All tabs, retries and failures together behave as one archive of games.
ImplementsArchive == Archive!Spec
-----------------------------------------------------------------------------
(***************************************************************************)
(* The invariant that every step preserves                                 *)
(***************************************************************************)

Stamps == [id : {NoGame} \cup Games, revision : Nat]
Creations ==
  [id : Games, kind : {"create"}, game : {NoGame}, state : {<< >>},
   command : {<< >>}, expected : Stamps]
Decisions ==
  [id : Games, kind : {"command"}, game : Games, state : Seq(Commands),
   command : {<<c>> : c \in Commands}, expected : Stamps]
Staged == Creations \cup Decisions

TabStates ==
  [pc : {"closed", "idle", "waiting", "answered", "refused"},
   record : [game : {NoGame} \cup Games, state : Seq(Commands)],
   connected : BOOLEAN, held : BOOLEAN,
   request : {NoRequest} \cup Staged, retry : BOOLEAN]

TypeOK ==
  /\ runs \in [Games -> [present : BOOLEAN, state : Seq(Commands),
                        commands : Seq(Commands)]]
  /\ current \in {NoGame} \cup Games
  /\ pending \in {NoRequest} \cup Staged
  /\ tabs \in [Tabs -> TabStates]
  /\ calls \in SUBSET [from : Tabs, request : Staged]
  /\ cache \in SUBSET Staged
  /\ decisions \in SUBSET [game : Games, before : Seq(Commands),
                          command : Seq(Commands)]
  /\ IsFiniteSet(decisions)
  /\ counts \in [Games -> Nat]
  /\ issued \in 0..MaxRequests

\* A request was staged once, with the stamp of what it was made from; as long
\* as an operation waits under its id, it is that operation.
Genuine(q) ==
  /\ q \in Staged /\ q.id <= issued
  /\ q.kind = "command" => q.expected = Stamp(Shown(q.game, q.state))
  /\ q.id = pending.id => q = pending

Busy(t) == tabs[t].pc \in {"waiting", "answered", "refused"}

RequestsGenuine ==
  /\ pending # NoRequest => Genuine(pending)
  /\ \A t \in Tabs : Busy(t) => Genuine(tabs[t].request)
  /\ \A call \in calls : Genuine(call.request)

\* Only games that were staged are saved; one that waits to be created is not.
GamesStarted ==
  /\ current # NoGame => runs[current].present
  /\ \A g \in Games : IF runs[g].present THEN g <= issued
                       ELSE runs[g].state = << >>
  /\ pending.kind = "create" => ~runs[pending.id].present

\* An answer was recorded before it was given.
Recorded(q) ==
  IF q.kind = "create" THEN q.id \in episodes
  ELSE q.game \in episodes /\ Fingerprint(q) \in decisions

AnswersRecorded ==
  /\ \A q \in cache : Recorded(q)
  /\ \A t \in Tabs : tabs[t].pc = "answered" => Recorded(tabs[t].request)

IInv ==
  /\ TypeOK /\ RequestsGenuine /\ GamesStarted /\ AnswersRecorded
  /\ PendingIsCurrent /\ LogReplays /\ NothingShownIsForeign
  /\ SavedIsRecorded /\ CountsAreExact
=============================================================================
