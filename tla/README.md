# Vorax Simulator in TLA+

A verification project for the Vorax Simulator: a Go server that simulates the
"culture surgery" mini game, a browser client that keeps the saved games, and
the tools around them (a decision recorder, an AI adviser, a companion that
reads the game from the screen, a training service). The modules here are
translated from the code; `PROJECT.json` names, for every definition that
models code, the file and the lines it stands for.

Contents: [the system](#the-system) · [modules](#the-modules) ·
[runs](#the-runs) · [proofs](#the-proofs) · [findings](#findings) ·
[what is left out](#what-is-not-modelled) ·
[running it](#running-it)

## The system

A game starts with a preparation question. An opening tool follows, then eight
potion questions and three scheme questions. Whenever a turn ends with a score
of at least 8000 or 28000 for the first time, an extra tool question is owed and
comes before the next base question. The server keeps no game: `Create` returns
a signed token that seals the whole state, `Command` takes the token and a
command and returns the next one. The browser stores the token and the list of
commands in IndexedDB, which several tabs share.

| Part | State | Operations | Talks to |
|---|---|---|---|
| Game flow (`engine/engine.go`, `rewards.go`) | phase, base cursor, completed turns, offer with id and revision, refresh budgets, tools, claims, score, peak | `New`, `Apply` with choose, refresh, skip_unknown; `advance`, `updateRewards` | effects, offers; called by the service, the AI and the trainer |
| Card and tool effects (`effects.go`, `potions.go`, `tools.go`) | slots, next monster id, the monster just removed, the step counter, a working copy of the state | one per card and tool, the event chain, the end of the turn, rollback on error | called by the flow |
| Offers and draws (`boxes.go`, `tool_offers.go`, `makeOffer`) | pool, candidates drawn, box limit, family of the preparation | draw potions, draw tools, open a box | reads the board and the catalogue |
| Score rewards display (`rewards.go`) | jar ladder, next threshold | projections of the score | the view |
| Random streams (`random.go`) | named SplitMix64 streams | draw below a bound | every draw |
| Monster catalogue, rules and catalogue (`monsters.go`, `rules.go`, `storage/content.go`) | constant during a game | `Validate`, load | read by everything |
| Browser store (`web/assets/storage.mjs`) | `runs`, `meta.current`, `pending` | stage, commit, clear, switch, list | shared by the tabs |
| Browser application (`web/assets/app.mjs`) | the record shown, busy flag, connection flag | start, command, retry, restore, resume | the store, the server, other tabs through a broadcast channel |
| Animation player (`web/assets/animation.mjs`) | board being replayed, cancellation | play, cancel | the application |
| Application service (`application/service.go`) | none | `Create`, `Restore`, `Command`, `Replay`, `AIDecide` | engine, recorder |
| HTTP transport, response cache (`transport/http.go`, `storage/cache.go`) | responses by request | endpoint, Get, Put, rate limit | service |
| Decision recorder (`telemetry/recorder.go`) | episodes, transitions, a count per episode | `RecordCreated`, `RecordDecision` | called by the service before it answers |
| AI adviser (`ai/`) | none; the playbook follows from the view | observe, check a view read from the screen, rebuild a state from it, roll out, rank by playbook | engine |
| Companion (`app/src/vorax_assistant`) | session file: tools, turns and rewards inferred from screens | parse, prepare, accept, save | server, screen |
| Training service (`training/service.go`, `codec.go`, `spec.go`) | none; episodes are sealed tokens | `Reset`, `Step`, encode, mask | engine, signing keys |
| Training keys and quota (`training/access.go`, `transport/training.go`) | key records in memory and a file, or in PostgreSQL; token buckets in memory or in Redis | create, update, revoke, reset a bucket; authenticate, charge, run a batch | training service |
| Signing keys (`signer.go`, `cmd/server/main.go`) | the local key file; active and previous keys of the environment | load or create, seal, open | service, training service |
| Training environment, research tools, server wiring, wire protocol | - | - | - |

### What is hard about it

* **Order inside a command.** One card may start a chain of effects: a tool reacts
  to a removal by adding, fusing or removing again. Effects choose monsters at
  one time and act on them later; the "monster just removed" is a single field.
* **Two clocks.** Base questions and completed turns differ by the reward turns;
  the opening tool moves one and not the other. The AI and the companion later
  reconstruct one from the other.
* **Identity.** Commands name an offer id and a revision; refreshes and boxes
  replace the offer without completing a turn.
* **Several tabs, an unreliable network, a closing browser.** An operation is staged
  in the store, sent, perhaps lost or processed twice, answered from a cache, and
  saved by whichever tab gets there first.
* **Keys without a database.** Servers that share a volume may all find no signing
  key at once; a training key is edited by reading, changing and writing back; a
  file is replaced in four steps, each of which can fail or be the last.
* **Two readings of one game.** The AI gets a view, possibly from a screen that
  was misread, demands that it fits the rules and builds a state to play on
  from. Those demands restate the engine's bookkeeping in other words.
* **Limits.** 512 effect steps, 128 commands in a replay, 64-bit values, rarities
  that run out while candidates are drawn.

The list, each at its line and with the properties that look for it, is
`hazards` in `PROJECT.json`.

### What makes each part correct

* Flow: the two clocks, the tools and the claims agree; owed rewards are served
  once, lowest first, never forgotten; each accepted command changes both the
  revision and the offer id; the game ends.
* Effects: an effect always finds its monster; values are moved, not lost;
  reactions concern their own removal; no legal card runs into the step limit.
* Offers: a draw never fails, never repeats a card, respects the box limit and
  yields only cards that can be played on the board they are shown with.
* Signing keys: one version means one secret, so a token opens at every server that
  holds its version and a repeated creation is the same game.
* Training keys: the file is whole, so that a confirmed change survives
  a stop, except after a failed rename has [removed](#findings) it; a
  refused change is forgotten; a revocation is undone only by a write over a changed
  record.
* Quota: a bucket gives out what it held and what time brought, whatever records
  requests carry; a client that waits as told is admitted, unless it then asks a server
  whose clock is behind the one that told it; a batch is complete.
* AI: every real view is accepted, its futures follow the published flow, every
  legal action can be named, the playbook spends its refreshes.
* Store, tabs, service, recorder: all of it behaves like one list of games, each
  with one history; what is shown has been recorded, exactly once.

## The modules

| Module | Models | Kind |
|---|---|---|
| `GameFlow` | `Apply` without board and cards | state machine, one action per accepted command |
| `SurgeryPlan` | the course of a game as published | abstract specification, implemented by `GameFlow` |
| `GameFlowProofs` | | theorems about `GameFlow` |
| `Effects` | one command's effect chain | state machine over an agenda of tasks |
| `EffectsProofs` | | theorems about ids, agendas and the board of `Effects` |
| `EffectsMeasureProofs` | | theorems about the steps and values of `Effects` |
| `Offers` | drawing candidates and presenting them | state machine, one card per step |
| `OffersProofs` | | theorems about `Offers` |
| `Checkpoint` | tabs, store, network, cache, service, recorder | distributed state machine |
| `CheckpointProofs` | | theorems about `Checkpoint` |
| `GameArchive` | a list of games with growing histories | abstract specification, implemented by `Checkpoint` |
| `Advice` | the AI's view, checks, rebuilt state and playbooks, watching `GameFlow` | extends `GameFlow`; its rollouts implement `SurgeryPlan` too |
| `AdviceProofs` | | theorems about `Advice` |
| `Tokens` | signing keys of several servers and what they seal | state machine, one action per call on the key file |
| `TokensProofs` | | theorems about `Tokens` |
| `KeyStore` | training keys, both stores, their administration | actions without a specification of their own |
| `TrainingAccess` | training requests, buckets and batches over `KeyStore` | extends `KeyStore`, composes it with the requests |
| `TrainingAccessProofs` | | theorems about the file store, revocation, quota, waiting and batches |
| `MCGameFlow`, `MCEffects`, `MCEffectLimit`, `MCOffers`, `MCCheckpoint`, `MCAdvice`, `MCTokens`, `MCTrainingAccess` | | instances for TLC |

The three engine modules share an interface rather than variables. `GameFlow`
takes the score a turn ends with from any of `Scores` (that is `Effects`' part)
and whether an offer contains a box from `BoxCounts` (that is `Offers`' part:
`BoxesLimited`, proved there, is what `BoxCounts` assumes). `Offers` takes the
board after a turn from `Boards`. `Checkpoint` names a state by the game and the
commands that led to it, which is what a deterministic engine allows. `Advice`
shares `GameFlow`'s variables: each of its actions is an action of `GameFlow`
together with the board, the cards and what the reader of the screen made of
it. That a settled board holds a monster is its assumption and
`Effects`' `NeverEmptied`. `TrainingAccess` shares `KeyStore`'s variables in the
same way.

### GameFlow

The variables are the fields of the engine's `State`; a score stands for the
board. A command that the engine refuses returns before it touches the caller's
checkpoint and is a stuttering step. Each action is one whole branch of `Apply`,
including the settlement of the score, the unlocking of rewards and `advance`.
`Issue` stands for `makeOffer`: a fresh id, a kind, a source, the reward the
offer stands for, and at most one box if potions are drawn. Refused commands,
the cards of an offer and the board are left out.

### Effects

The engine runs an effect by nested calls. Here the calls are an agenda: the head
is executed and replaced by the tasks it calls, so what an effect triggers is
finished before the effect after it starts, as in the code. A task carries a
monster's id exactly where the code has already chosen the monster, and picks
one when it runs where the code does. `removed` is `c.removedMonster`: saved,
overwritten and restored (`DoRestore`) around the tools of a removal. `steps`
counts as `c.step` does; `StepLimit` and `MaxInt` abort, and `saved` is the
caller's checkpoint that an abort leaves alone. All potions except boxes, the
three schemes' effects and all 24 tools are there. A random choice is any
outcome. `FamilyDraws` and `RarityDraws` bound the families and rarities that
random draws explore, `MaxCommands` the commands. A checkpoint that commands start
from is any that `IsCheckpoint` allows: some monsters, ids that are different and
used up, tools of the catalogue. Groups of monsters are read off the slots by the
places that qualify (`Keep`, `Nth`), in slot order as the loops of the code do it.

### Offers

A command computes the table it will leave (board, family, progress, tools) and
starts a draw for it; each step takes one card; `Present` puts the offer on the
table. A failing draw (`INVALID_CONTENT`) drops the working copy and sets
`rejected`. Rarity weights matter only in being positive, so a rarity roll is
any rarity and the fallback to the other rarities is `PotionGroup`. The weights of
opening tools are kept, because their ratio is what the code computes. The board
is the number of monsters of each family. Since draws are of individual cards, a
set of candidates and the number drawn show whether a card came twice.

### Checkpoint

One IndexedDB transaction is one atomic step; whatever lies between two awaits is
another. A tab is closed, idle, waiting for a call, or holding an answer or a
refusal that it has not yet acted on. `held` is what the tab believes about the
waiting operation, `connected` its connection flag. A call is on its way until
the server processes, refuses or loses it, and outlives the tab that sent it or
its timeout; the same request may be on its way several times. `Process` is
`endpoint` with `Create` or `Command` below it: a cached response is returned
as it is, otherwise the decision is recorded, then perhaps cached, then sent.
`Refuse` is unconditional for requests without a cached response: it stands for
illegal commands as well as for contents and keys that a new server release no
longer has. The recorder's tables are sets with the unique keys of the code.

### Advice

A behaviour is a game of `GameFlow` that someone watches. `View` is what
`FromGameState` shows of it, or a client reads from the screen: there, a tool
that was gained may be missed, and is then among `UnknownTools`. `Accepted` is
`FromVisible` with the state validation it ends in. At any moment one `Imagine` may
happen: `RebuildState` turns the view into a state, whose rollouts are the rest of
the behaviour. The numbers that rollouts compare are left out, so a rollout may
take any legal action, except that a guided player takes the opening action his
playbook locks. The playbooks are there as the code has them: which is chosen
for which board, which cards and refreshes earn how many points, scaled to
integers (`Points`).

### Tokens

Servers start, stop and answer over one local key file or with keys from the
environment. Starting without a key is five steps, as in `LoadLocalSigner`: read,
draw, create exclusively, write, and, for whoever lost the race, read again.
A stop may come between any two of them. Secrets are opaque: a
token carries the secret it was sealed with and opens with that secret only. A game carries the
secret from which its seed and name derive. What is answered goes into `shown`,
from which any client may take any token at any later time.

### KeyStore and TrainingAccess

An administrator's request reads a record in one step and writes it in a later
one (`ReadForUpdate`, `ReadForRevoke`). A write to the file store takes the lock,
changes memory, writes the temporary file, renames it, on failure removes the old file and
renames again, and sets the permissions; each of these steps may fail, and
the process may stop between any two. With PostgreSQL a write is one step. The
history variables say what was acknowledged, which writes have begun or
been refused since, of which revocations an administrator was told, and which records
were written over a newer one.

A training request carries the record its authentication read until it is
charged. Buckets are kept in memory and lost with the process, or in Redis, where
servers with different clocks share them and an unused one expires. Time and
tokens are small integers; the bucket fills by whole tokens per tick. A batch is
shared by at most `Cores` workers, which take the next item and finish it in
separate steps.

## The runs

| Run | Instance | Question |
|---|---|---|
| `mcgameflow` | the real game: 8 potions, 3 schemes, 3 potion and up to 2 tool refreshes; scores below, between and above the thresholds; no symmetry, 80,481 states | do clock, offers and rewards agree in every course of a game, and does it end? |
| `mceffects` | 3 slots, 5 boards, every tool alone and three combinations, every card; 261,401 states | does any chain lose, confuse or repeat an effect? |
| `mceffectlimit` | 6 slots, full boards of insects and mixed boards, the tools that feed one another, values near the limit; 53,174 states | how long can a chain get, and does it keep all values? |
| `mcoffers` | 9 potions with one rarity that has a single staple and one that has only a box, 5 tools, 3 boards; symmetric cards; 2.3 million states | does every draw succeed and yield legal, distinct, playable candidates? |
| `mccheckpoint` | 2 tabs, 3 requests, games of up to 2 commands, 1 fault; symmetric tabs; 795,653 states | do tabs, retries and failures together behave like one archive? |
| `mctrainingaccess` | 1 key, 1 administrator, 1 client, two plans, in memory and in Redis with clocks apart by 1, 3 moments, 2 changes, 1 fault; 2.6 million states | does nobody get more than the quota, is waiting enough wherever the clock has reached the time, is a batch complete? |
| `mckeystore` | 2 keys, 2 administrators, both stores, 3 changes, 2 faults; 645,000 states | is the file whole or removed, do refused changes vanish, do revocations last, and is everybody answered? |
| `mcadvice` | 4 dishes, 2 potion questions and 1 scheme question, 4 potions with a box, 4 tools, 2 boards, 1 refresh of each kind; 982,892 states | is every view accepted and continued correctly, and are the playbooks coherent? |
| `mctokens` | 2 servers, 2 possible secrets, 2 rotated versions, 1 creation, 3 stops; symmetric servers and secrets; 366,000 states | does every token open and every repetition agree? |
| `mcoffersbones`, `mckeysrevoked`, `mckeyslost` | the instance of `mcoffers`; one key with two administrators and no failures; one key in use, its file, one administrator, 2 faults | three of the [findings](#findings) |

**Why the bounds are enough.** `mcgameflow` has no bound of its own: these are the
numbers of the code, and three scores are all the comparisons with two thresholds
can tell apart. In `mceffects` three slots already let a tool remove one monster,
fuse two and add another in the free slot within one chain; the sixth turn is
about to end so that every periodic tool acts. `mceffectlimit` was built by
looking for the longest chain: insects breeding into full boards with three pupae
or nails; the longest one found takes fewer than 280 of the 512 steps, where the
proof allows 511.
`mcoffers` has the smallest catalogue in which each branch of the draw is taken:
an exhausted rarity, a rarity that consists of a box, a box of five with exactly
five staples, tied families, cards that the board after the turn cannot use.
`mccheckpoint` needs two requests for a stale stamp and a third to
overwrite or drop what the second left; one fault of any kind at any place is
enough to separate a staged operation from its tab. More commands or faults
repeat these situations with longer histories.
`mctrainingaccess` has a plan that a full batch overflows and one that it empties,
so a request is refused, admitted at once and admitted after waiting; a second plan
for the record a request carries; one tick of disagreement between clocks, which is
what an interval counted twice takes. It leaves the file out, which `mckeystore` has;
there two administrators and three requests allow a read and a write to enclose
a complete change, and two faults allow a failing rename that is followed by a
second failure or by a stop. `mcadvice` keeps every position of the flow, both
rewards, boxes and an early and a late potion question; its boards are one that
calls for a playbook and one with a single monster, its cards one of each group
the playbooks tell apart. With two potion questions it does not reach the switch of points
at its real place (fifth question, four left); that case is in the theorem, which is
for any numbers. In `mctokens` two servers race, a third start repeats
what either did, and two rotations change the active key and take back a previous
one.

**Deadlock** is checked in `mcoffers`, where a table without a possible command
would be a dead end of the game. The other runs stop by design: a game is
over, or the bound on commands, requests, stops or time is used up.

**Fairness** is assumed in two places. `FairSpec` of `GameFlow` is weak fairness of
`Next`, that is, a player who goes on sending acceptable commands, whichever he
likes. It is weaker than fairness of any one command: he may refresh and open
boxes as long as the game lets him, and `GameEnds` says that it does not let him
forever. In `Checkpoint` nothing is fair: a player may leave an operation waiting
for ever, and nothing in the code retries it by itself. The specification of
`TrainingAccess` is fair to the handlers of administrators that have started: the
scheduler of Go runs a goroutine that is neither blocked nor stopped, and a
mutex is given to a waiter. Nobody is assumed to start a request, nothing is
assumed about failures, and the process may stop at any time; `AdminsAnswered`
counts a stop as an end of the request. In `Advice` and `Tokens`
nothing is fair.

**Symmetry** is used for tabs, for cards with equal attributes, and for the servers and
secrets of `mctokens`; all properties of those runs treat the permuted values
alike, and none is a liveness property.

Each module also contains operators marked `Fault:`. They are variants of a
definition with a plausible mistake: a guard that compares less, a counter not
tied to its row, a group read too late. `PROJECT.json` names for each checked
property the variant that must break it, so that no property holds merely
because the model leaves its subject out.

### What the runs show

`GameFlow`: `FlowAccounting` (turns, tools and claims tell one story; the AI
and the companion depend on it), `RevisionNamesOffer` (the two guards against
stale commands never contradict each other), `NoRewardLeftLocked`,
`GameLength` (31 commands at most, far below the 128 that `Replay` accepts; the
run reaches 31), `ClaimsOnlyAdvance`, `ImplementsPlan` (with it, that a refreshed
reward offer is still that reward's), `GameEnds`.

`Effects`: `IdsUnique`, `NothingMissed` (the many guards `if monster is gone` never
act, those for the parts of a fusion and the prey of a meal among them, so no announced
effect is lost), `ReactsToOwnRemoval` (no tool that reacts to a removal removes in turn, so
removals do not nest; what is tested is that each reaction reads its own removal and that the
field is cleared), `NeverEmptied` (no card leaves an empty board, which the AI could not
rebuild), `NeverLimited`, `ValuesKept` (of every step that does not abort the command).

`Offers`: `NeverRejected`, `CandidatesDiffer`, `BoxesLimited`,
`CandidatesPlayable`, `OpeningOdds` (11 to 9 between the leading
family and the others, shared evenly, whatever has been drawn before).

`Checkpoint`: `PendingIsCurrent` (a waiting operation cannot go stale),
`LogReplays` (the stored commands lead to the stored state), `NothingShownIsForeign`
(equal revisions are equal states, which comparing stamps takes for granted),
`SavedIsRecorded`, `CountsAreExact`, `PendingEndsByItself`, `ImplementsArchive`.

`KeyStore`: `FileWholeOrRemoved` (the file is at every moment what was
acknowledged or what a write since then would make it, never a mixture and never older;
or it is missing, from the removal that follows a failed rename until a write has put a
file in place, which may be long after the write that failed. In that time
the records are in memory only, and the finding `mckeyslost` is what a stop makes of it),
`RefusedLeavesNoTrace` (in the running process; if only setting the permissions failed,
the next start reads the refused record from the file), `RevocationHolds`,
`AdminsAnswered`.

`TrainingAccess`: `QuotaKept` (also across edits, resets and requests with an
outdated record; with a shared bucket the disagreement of clocks is paid once for
each time an earlier clock follows a later one), `RetryAfterSuffices` (in memory, and in Redis at
every server whose own clock shows the time that the refusal counted from the clock of
the server it came from: with equal clocks this is who waits as told, and a server that is behind
asks for the difference in addition), `BatchComplete`.

`Advice`: `ViewAccepted`, `FuturesFollowPlan` (the state rebuilt from a view is one from
which the flow of `SurgeryPlan` goes on), `MaskComplete`, `OpeningSought`,
`GuideRanks` (a wanted card on the table always beats a refresh, and a refresh
always beats the cards if none is wanted, before and after the switch in the middle of
the game).

`Tokens`: `TokensOpen`, `RetriesAgree`.

## The proofs

`GameFlowProofs` proves, for every number of questions and refreshes, every pair
of thresholds and every set of scores (`FlowAssumption`), that the invariant `IInv`
is inductive, and from it each safety invariant of `mcgameflow` and the four that
lead to them (`ClaimsInOrder`, `OfferFitsPosition`, `PeakCoversRewards`, `BoxBudget`), that a
claim never moves back (`ClaimsNeverReturn`), and that the engine implements the
published flow (`EngineFollowsPlan`).
`FlowAssumption` asks for what the constants of the code satisfy: at least one
question of each kind and two different positive thresholds in ascending order.

The invariants lean on each other. `OfferFitsPosition` is what tells a reward
turn that its threshold is the lowest owed one, which `ClaimsInOrder` and the
count of claims in `FlowAccounting` need; `RevisionNamesOffer` needs that the
offer on the table was the last one issued. Only `Beginning` is new: nothing is
spent in the preparation, nothing is unlocked before the first base question, and
only potion offers hold boxes. `BoxBudget` counts boxes from the other counters
(`BoxesOpened`), so the proof is arithmetic on what each command adds:
a box opened was on the table and had been paid for by the question or the refresh
that drew it. The proof has one step per command and, below it, one per conjunct.
`GameLength` then adds up the bounds of the counters. For the refinement each
command is mapped: preparing, taking the opening tool, a base card and a reward
tool are the four actions of the plan, refreshes and boxes are stutters; the
ordering that the plan demands of newly owed rewards is `ClaimsInOrder` after the step.
These lemmas need less than `IInv`: only `Resumable`, the types of what the plan
reads, `ClaimsInOrder` and `OfferFitsPosition`. It is an invariant of its own for
games that did not start at the beginning: a state that the AI has rebuilt from a
view has identities, a peak and spent refreshes that are made up, so `IInv` does
not hold of it, and its rollouts follow the plan all the same.

`OffersProofs` proves, for every catalogue allowed by `CatalogueAssumption`, every
set of boards and any number of tools, that draws succeed, that candidates
differ, keep the limit of boxes and can be played. What makes it inductive is
`DrawSound`, which speaks about the middle of a draw: the cards drawn and the
cards left are disjoint, all playable on the board the command will leave, and the
staples left plus the cards drawn are at least five, so that a pool never runs
out of cards that are no boxes before the draw is complete. The rest counts:
taking a card lowers one cardinality and raises another. `LeadersAreFavoured` proves
`OpeningOdds` at every draw of the opening, whatever tools are left: each group's weight
is the size of the other group times its share.

`CatalogueAssumption` is stronger than the code's `Validate` in one
point: it asks for five potions that need no target and are no boxes. The built-in
catalogue has ten of them. `Validate` is content with less, so a catalogue from
the database is covered only if it also has five.

`TokensProofs` proves `TokensOpen` and `RetriesAgree` for any number of servers,
stops, rotations and creations. Neither is inductive, since both compare a token with
keys loaded at another time. What carries them is that a version has one secret
for good: keys of the environment are named by their version, and the local
version has a secret only once the key file is complete, which then never
changes (`Genuine`). That rests on `OneWriter`: only the server that created the
file writes it, because creation is exclusive and a server stopped in between
leaves a torn file, which nobody overwrites. Each of `KeysGenuine` and
`ShownGenuine` follows from the other along a token's way from a key to a key.

`TrainingAccessProofs` begins with the store: it proves `FileWholeOrRemoved` and `RefusedLeavesNoTrace` for any number of
keys, administrators, failures and stops, over the steps of `TrainingAccess`, whose
training requests leave the store alone. The first says that the file holds the
acknowledged records whole, or with the one write under way, or has been removed; it does not
exclude a stop after the removal, which loses the keys (see the findings). The strengthening
is `WriterHolds`: whoever is between taking and releasing the lock is its holder and remembers
the acknowledged records, and what he is about to put in place is the whole memory, so the next
write that is acknowledged ends a removal too; nobody else changes memory or file.

`CheckpointProofs` proves every property of `mccheckpoint`, the refinement of
`GameArchive` included, for any number of tabs, commands, requests, faults and
any length of a game (`CheckpointAssumption`). One operation waits at a time, and
while it waits the game on the table stands still (`PendingIsCurrent`: staging and
switching games are refused meanwhile, and only its own result moves the game). What makes this
inductive is `RequestsGenuine`: every request a tab is busy with, or the network still
carries, was staged once under its own id, so that a tab whose request has the id of the
waiting operation holds that operation. Such a request was made from an earlier state
of its game (`NothingShownIsForeign`) that is as long as the game on the table, hence from the
whole of it, and its result is that game with one command appended. From this follow `LogReplays`, that
what any tab shows stays a state of the game, and the step of the archive.
`AnswersRecorded` carries `SavedIsRecorded` from the recorder over cache and tab to the
save; `GamesStarted` tells a creation that its game has no history yet. A save is the only
step on which all of this meets, in the lemma `SaveEffect`; most others change one tab, or
what a tab believes (`TabsKeep`).

`TrainingAccessProofs` goes on to prove the other four safety properties of training, for any number of
keys, administrators, clients and processes, any plans (finitely many, so that there is a fastest refill) and
any disagreement of clocks. *Revocation*: a record that was revoked may come back only where
it was written over a newer one, so the invariant follows it into every copy (the
memory, the acknowledged records, the file and the refused records that may still get
into it) and into what administrators have read and not yet written. `RevokedStayOut` adds
an action property: a request with such a key is not admitted. *Quota*: a bucket
is kept like an account; what it holds and what was charged never exceed what it held when it was opened
and what the time since then, with each step back of a clock, brings at the fastest refill, since a
charge may use any plan that a request still carries. `QuotaKept` with the account of a closed bucket is inductive.
*Waiting*: while nobody else draws on the bucket, its last filling is before the time that was
promised, and what is left of the time brings what is missing (`Enough`). This holds for the
process's own bucket and for a shared one, with any clocks, at every server whose clock shows
the promised time. *Batches*: an item is handed
out once, so items in the hands of workers, finished items and items nobody has taken yet
add up to the batch, and a batch is answered when nothing is left.

`AdviceProofs` proves every property of `mcadvice`, for every catalogue, playbook and number of
refreshes that `AdviceAssumption` and `GuideAssumption` allow. Until the AI rebuilds a state, the
game is `GameFlow`'s and `IInv` holds; from then on only `Resumable` does, which
is what `FuturesImplementPlan` needs. The demands that a view has to
meet (`Accepted`) restate the engine's bookkeeping, and `ViewsAreAccepted` derives each
of them from `FlowAccounting` and the budgets, for the engine's own views and for screens on
which tools were missed. `OpeningIsSought` needs what the adviser does at
several moments: a wanted tool that was shown is still on the table, since the guided player takes it before
he does anything else (`Seeking`). `GuideRanksRefreshes` is about numbers: the
points of the groups of cards against those of a refresh, before and after the switch
in the middle of the game. It holds because the numbers of the code keep within bounds that
`GuideAssumption` names: a pet brings at most eight refreshes (the code has two), at most four
potion questions follow the early ones (eight less four), and the lists of a playbook keep tools and potions apart.

`EffectsProofs` proves `IdsUnique`, `NothingMissed`, `ReactsToOwnRemoval` and `NeverEmptied`
for any number of slots, every board, every sequence of tools, every draw and every command,
for all cards and tools of the catalogue (`CatalogueAssumption`: cards and tools are those of
the code and commands start from checkpoints with a monster). Here `MaxInt` and `StepLimit` may be
any numbers, since an abort restores a checkpoint that satisfies the invariant.
None of the four is inductive: whether the next effect finds its monster is
decided by everything that was put on the agenda before it. `Ready` therefore speaks about the whole agenda:

* `Found`: each task names monsters that are there, and no task before it takes one of them;
* `Survived`: some monster is taken by no task, or some task leaves a new one and
  nothing after it takes any;
* `InTurn`: what the end of the turn calls comes after everything the card called, and the command ends last;
* `Removing`: the reactions to a removal lie before its end, nothing is taken in
  between, and the monster they react to is the one remembered.

Executing the head takes it away and puts what it calls in front of the rest. There are three
ways in which that is sound. Most tasks call only calm ones: buffs, changes and reactions that take
nobody and name only monsters of the board (`CalmStep`). A removal calls its
reactions and its end, and takes a monster that, by `Found`, nobody else names
(`RemoveStep`, `RestoreStep`). A tool of the end of the turn, and the card itself, may
take, fuse and devour, but nothing that names a monster is on the agenda behind them (`LateStep`);
for these the proof goes through all cards and tools and shows that their programs are
`Fit`: they name different monsters where it matters and leave one (`CardsFit`, `LateToolsFit`).
That the reactions to a removal, an addition, a change and an overflow take nobody is what keeps the
engine's single field for the removed monster right: an end-of-turn tool such as the sinew
removes, but by then no other removal is under way.

`EffectsMeasureProofs` proves `NeverLimited` and `ValuesKept`, for every card and tool of the
catalogue, all draws and any number of commands. Here the numbers of the rules
matter (`RulesAssumption`): at most six slots and three tools, at least 512 steps, and
checkpoints whose monsters have a rarity and values that are not negative.

*Steps.* `NeverLimited` is far from inductive: how many steps a command still takes depends
on everything on the agenda, and tools trigger tools. `MeasuredInv` says that the steps
left of the 512 pay for the agenda. Each task has a price (`Price`) that covers its own steps
and all that it calls, so that executing the head only spends. Prices
follow the way events lead to each other, and stop because they do not lead
back: a buff, an awakening, a fusion and a devouring trigger no tool (2); what a removal
triggers only buffs (11); a mutation triggers tools that buff (2 and 13 for each
tool that waits for one); an addition triggers tools that may mutate (54). An
overflow may make its card buff the insects, once. The price of a
mutation depends on how many of the three tools wait for it (`Waiting`), because a tool that
waits for additions does not wait for mutations: prices for the worst case of
both would add up to more than 512. Three tools at the end of the turn, each of at
most 73, come to 220 with the turn's own step, and the lemma about all cards
(`CardsPaid`) finds that none costs more than 290; with the last step this makes 511. That is
an upper bound, not a chain that exists.

*Values.* Of `ValuesKept` the part about one monster needs that ids stay apart
(`IdsUnique`, and that new ones are new) and that no task carries a negative number
(`Sized`). The rest is about sums over slots. `SumFunction` adds in an order that
nobody knows. That the order does not matter (`SumSplit`) is proved without an induction
rule: among the subsets of the finitely many slots for which a claim fails there
would be a least one (`SmallestIs`), and taking one slot away from it gives a
contradiction. Fusing puts the sum of a part of the board in one of its slots
(`SumMoved`), devouring moves one of two values to the other (`SumPair`).

What only TLC checks: `GameEnds` and `AdminsAnswered`, since liveness under fairness is
outside the prover's reach. Every other property of the passing runs is a theorem. Out
of reach of both is the content of the constants and tables: that the cards,
tools and numbers are those of the code is for the reader to compare.

## Findings

* **Candidates are not drawn independently.** `docs/architecture.md:70` says that
  each potion candidate is drawn independently and may come twice, to keep the
  rarity weights exact. `boxes.go` takes each drawn card out of the pool. It has no
  run of its own: `CandidatesDiffer`, checked and proved, says the contrary of the
  document, that no card comes twice.
* **The bone crucible.** The card promises two groups of bone guards and two other
  monsters (`rules.go:39`); `initialize(4, BONE, true)` in `effects.go` replaces
  only the third monster and leaves three bone guards and one other
  (`mcoffersbones`).
* **A revoked key comes back.** `Update` in `access.go` reads a record, changes a
  copy and writes the whole copy back. If a revocation was written in between,
  the key is in use again (`mckeysrevoked`), although the page asked whether to
  revoke it permanently (`web/admin.html:93`). `RevocationHolds` shows that this is
  the only way.
* **All keys are gone.** `docs/training-api.md:19` says that the hashes of the keys are kept
  in the file. If the rename that replaces it fails, `persistLocked` removes the file
  before it renames again (`access.go:143-148`). A process that stops
  in between, or after the second rename failed too and before another write
  succeeds, starts with an empty table: every acknowledged key is lost and every
  acknowledged revocation with it (`mckeyslost`). `FileWholeOrRemoved` shows that the file
  is never anything else that would lose them.

Seen while modelling, with no run of its own:

* Servers that share buckets in Redis compute with their own clocks (`access.go:415`). The
  wait that one of them answers counts from its clock; a client that waits as
  told and is then served by one that is behind is refused again.
  `RetryAfterSuffices` is therefore stated for the clock of the server asked.
* `derivedToolFamily` (`ai/env.go:168-197`) draws the opening family of a rebuilt
  state among all families that lead; the engine's `initialToolFamily` gives a tie to
  the awakeners (`tool_offers.go:23-52`). So the first tool offers of imagined
  futures are not distributed as those of the game (`docs/ai.md:20` relies on
  equal distributions).
* A repeated creation after a rotation of the active key starts a different game;
  `docs/architecture.md:97` promises the same one without mentioning rotation.
  `RetriesAgree` is therefore stated for one version.
* A first start that is stopped between creating and writing the local key file
  leaves a torn file, which every later start refuses. The code never
  regenerates a key, so this is by design; it takes an operator to remove the file.
* Without `TELEMETRY_HMAC_KEY_BASE64` the recorder's pseudonyms derive from the active
  signing key (`cmd/server/main.go:82`): a game that continues over a rotation is
  recorded as two episodes.
* `docs/architecture.md` says at line 51 that rewards offer only tools not yet
  owned and at line 70 the opposite; the code does what line 70 says.

## What is not modelled

* Random streams: every draw is any outcome of positive weight. Uniformity of the
  generator is a numeric question.
* Monster names and the texts of cards, events and errors.
* Cryptography: a token opens exactly with the secret it was sealed with.
  Encodings, names and digests of keys.
* Numbers compared by the AI's rollouts, its time budget, the features of the training
  service, the trainer's optimisation.
* The companion's inference from texts on the screen: it depends on their wording and on the
  player's answers to questions. `Advice` has only its result, a view with
  missed tools. Its session file has one writer.
* The display of rewards (ladder of jars, drop bonus, next threshold): formulas of one score that
  nothing reads back. The animation of events: frames and geometry.
* Screen recognition, terminal and web layout, generated protocol code, measurements
  under `research/`.
* The numeric width of products and sums: `Effects` aborts at `MaxInt` once per
  task, where the code checks each addition.
* Checks of `Validate` beyond those `CatalogueAssumption` names; loading a catalogue
  from PostgreSQL.

What a continuation would take up first: the companion's session composed with
`GameFlow`, and the width of products and sums in the settlement.

## Running it

`tlc -config MCGameFlow.cfg MCGameFlow`, and likewise for each `.cfg`; the configurations
`MCOffersBones` belongs to `MCOffers.tla`, `MCKeyStore`, `MCKeysRevoked` and
`MCKeysLost` to `MCTrainingAccess.tla`. `tlapm GameFlowProofs.tla`, and likewise
`OffersProofs`, `CheckpointProofs`, `TokensProofs`, `TrainingAccessProofs`,
`AdviceProofs`, `EffectsProofs` and `EffectsMeasureProofs`.
