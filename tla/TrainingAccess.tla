----------------------------- MODULE TrainingAccess ---------------------------
(***************************************************************************)
(* Who may train, and how much: the training requests and the              *)
(* administrators' requests of one server (src/internal/transport/         *)
(* training.go) over the key store and the token buckets                   *)
(* (src/internal/training/access.go).                                      *)
(*                                                                         *)
(* A training request is charged with the record its authentication read,  *)
(* which an administrator may have changed since; a batch is executed by   *)
(* several workers.  Buckets live in the process, or in a cache that       *)
(* several servers share, each with its own clock.                         *)
(***************************************************************************)
EXTENDS KeyStore, FiniteSetsExt

CONSTANTS
  Requests,   \* training requests that may run at the same time
  MaxBatch,   \* largest batch (256 in the code)
  Cores,      \* GOMAXPROCS
  Skews,      \* bound: how far a server's clock may be ahead
  MaxBack     \* bound: by how much a bucket's clock is set back in total

ASSUME AccessAssumption ==
  /\ MaxBatch \in Nat \ {0} /\ Cores \in Nat \ {0}
  /\ Skews \subseteq Nat /\ MaxBack \in Nat

VARIABLES
  shared,   \* the buckets are in the cache, fixed for a deployment
  buckets,  \* tokens and time of the last charge, of the keys charged so far
  req,      \* what each training request is doing
  hint,     \* history: when a refused request may come again, by the clock of
            \* the server that refused it
  spent,    \* history: tokens charged to a bucket since it was opened
  opened    \* history: when it was opened, with how many tokens, and by how
            \* much its clock was set back since

accessVars == <<shared, buckets, req, hint, spent, opened>>
vars == <<storeVars, accessVars>>

Waiting == [stage |-> "waiting"]
NoHint == [at |-> 0]

\* By how much the clocks that charge a bucket are ahead: that of the process,
\* or those of the servers that share the cache.
Offsets == IF shared THEN Skews ELSE {0}

Closed == [at |-> 0, tokens |-> 0, back |-> 0]

AccessInit ==
  /\ shared \in BOOLEAN
  /\ buckets = << >>
  /\ req = [r \in Requests |-> Waiting]
  /\ hint = [r \in Requests |-> NoHint]
  /\ spent = [k \in Keys |-> 0]
  /\ opened = [k \in Keys |-> Closed]

Init == StoreInit /\ AccessInit

-----------------------------------------------------------------------------
(***************************************************************************)
(* The token bucket                                                        *)
(***************************************************************************)

Least(x, y) == IF x < y THEN x ELSE y
Most(x, y) == IF x > y THEN x ELSE y

\* A key without a bucket has a full one; time fills it up to the capacity of
\* the plan the request carries.
Filled(k, plan, now) ==
  IF k \notin DOMAIN buckets THEN plan.capacity
  ELSE Least(plan.capacity,
             buckets[k].tokens + Most(0, now - buckets[k].last) * plan.refill)

\* Fault: the rest of the division is dropped.
RoundedDown(missing, refill) == Most(1, missing \div refill)

\* Whole time units until the missing tokens are there, at least one.
RetryAfter(missing, refill) == Most(1, (missing + refill - 1) \div refill)

\* Fault: the time of a refused charge is not kept, and counts again.
TimeKept(k, left, cost, now) ==
  IF left < 0 /\ k \in DOMAIN buckets THEN buckets[k].last ELSE now

\* MemoryBucketLimiter.Allow and the script of RedisBucketLimiter: the bucket
\* is filled, then charged if it holds enough, and its time is set to now.
BucketTime(k, left, cost, now) == now

\* The cache keeps a bucket for twice the time it takes to fill (and at least
\* a minute, which is left out), by its own clock.
Lifetime(plan) == (2 * plan.capacity + plan.refill - 1) \div plan.refill
SetBucket(k, left, cost, now, plan) ==
  LET charged == [tokens |-> IF left < 0 THEN left + cost ELSE left,
                  last |-> BucketTime(k, left, cost, now),
                  until |-> clock + Lifetime(plan)]
  IN buckets' = [x \in DOMAIN buckets \cup {k} |->
                   IF x = k THEN charged ELSE buckets[x]]

\* Reset, expiry in the cache, or the end of the process.
Drop(gone) == buckets' = [k \in DOMAIN buckets \ gone |-> buckets[k]]

-----------------------------------------------------------------------------
(***************************************************************************)
(* Training requests                                                       *)
(***************************************************************************)

\* The middleware reads the record and keeps it for the whole request.
Authenticate(r) ==
  /\ req[r].stage = "waiting" /\ MayRead
  /\ \E k \in DOMAIN table, size \in 1..MaxBatch :
       /\ Valid(table[k])
       /\ req' = [req EXCEPT ![r] = [stage |-> "admitted", key |-> k,
                                     plan |-> table[k].plan, size |-> size]]
  /\ UNCHANGED <<storeVars, shared, buckets, hint, spent, opened>>

\* A body that is no request, a batch too small or too large, or a cache that
\* cannot be reached: the request ends before it is charged.
TurnAway(r) ==
  /\ req[r].stage = "admitted"
  /\ req' = [req EXCEPT ![r] = Waiting]
  /\ UNCHANGED <<storeVars, shared, buckets, hint, spent, opened>>

\* A retry time stands while nobody else draws on the bucket.
KeepHints(r, k, new) ==
  hint' = [x \in Requests |->
             IF x = r THEN new
             ELSE IF hint[x].at > 0 /\ hint[x].key = k THEN NoHint ELSE hint[x]]

\* chargeTraining, one token for each item of a batch: the record of the
\* authentication decides, not today's.
Charge(r) ==
  /\ req[r].stage = "admitted"
  /\ \E skew \in Offsets :
       LET k == req[r].key
           plan == req[r].plan
           cost == req[r].size
           now == clock + skew
           tokens == Filled(k, plan, now)
           left == tokens - cost
       IN /\ SetBucket(k, left, cost, now, plan)
          /\ opened' =
               IF k \in DOMAIN buckets
               THEN [opened EXCEPT ![k].back = @ + Most(0, buckets[k].last - now)]
               ELSE [opened EXCEPT ![k] = [at |-> now, tokens |-> plan.capacity,
                                           back |-> 0]]
          /\ opened'[k].back <= MaxBack
          /\ \/ /\ left >= 0
                /\ req' = [req EXCEPT ![r] =
                             [stage |-> "running", key |-> k, size |-> req[r].size,
                              paid |-> cost, next |-> 1, work |-> {},
                              results |-> [i \in 1..req[r].size |-> 0]]]
                /\ spent' = [spent EXCEPT ![k] = @ + cost]
                /\ KeepHints(r, k, NoHint)
             \/ /\ left < 0
                /\ req' = [req EXCEPT ![r] = Waiting]
                /\ KeepHints(r, k, [at |-> now + RetryAfter(-left, plan.refill),
                                    key |-> k, plan |-> plan, cost |-> cost])
                /\ UNCHANGED spent
  /\ UNCHANGED <<storeVars, shared>>

\* parallelItems: an idle worker takes the next index, ...
TakeItem(r) ==
  /\ req[r].stage = "running" /\ req[r].next <= req[r].size
  /\ Cardinality(req[r].work) < Least(Cores, req[r].size)
  /\ req' = [req EXCEPT ![r].work = @ \cup {req[r].next}, ![r].next = @ + 1]
  /\ UNCHANGED <<storeVars, shared, buckets, hint, spent, opened>>

\* ... and puts its result, or its error, where the item was.
FinishItem(r) ==
  /\ req[r].stage = "running"
  /\ \E i \in req[r].work :
       req' = [req EXCEPT ![r].results[i] = @ + 1, ![r].work = @ \ {i}]
  /\ UNCHANGED <<storeVars, shared, buckets, hint, spent, opened>>

\* Fault: the response is written when the last item was handed out.
AllTaken(r) == req[r].next > req[r].size

\* Every index handed out, every worker done.
AllDone(r) == req[r].next > req[r].size /\ req[r].work = {}

\* wait.Wait and the response.
Collect(r) ==
  /\ req[r].stage = "running" /\ AllDone(r)
  /\ req' = [req EXCEPT ![r].stage = "answered"]
  /\ UNCHANGED <<storeVars, shared, buckets, hint, spent, opened>>

Respond(r) ==
  /\ req[r].stage = "answered"
  /\ req' = [req EXCEPT ![r] = Waiting]
  /\ UNCHANGED <<storeVars, shared, buckets, hint, spent, opened>>

-----------------------------------------------------------------------------
(***************************************************************************)
(* The rest of the server                                                  *)
(***************************************************************************)

\* History: a new bucket starts a new account.
CloseAccounts(gone) ==
  /\ spent' = [k \in Keys |-> IF k \in gone THEN 0 ELSE spent[k]]
  /\ opened' = [k \in Keys |-> IF k \in gone THEN Closed ELSE opened[k]]

\* PATCH and DELETE end with the reset of the bucket; if that fails the
\* administrator gets an error for a change that is in force.
ResetBucket(a) ==
  /\ \/ /\ Reply(a, TRUE)
        /\ Drop({op[a].key}) /\ CloseAccounts({op[a].key})
        /\ UNCHANGED faults
     \/ /\ shared /\ Reply(a, FALSE) /\ Fault
        /\ UNCHANGED <<buckets, spent, opened>>
  /\ UNCHANGED <<shared, req, hint>>

\* The cache forgets a bucket that nobody charges.
Expire ==
  /\ shared
  /\ \E k \in DOMAIN buckets :
       /\ clock >= buckets[k].until
       /\ Drop({k}) /\ CloseAccounts({k})
  /\ UNCHANGED <<storeVars, shared, req, hint>>

Crash ==
  /\ StoreCrash
  /\ IF shared THEN UNCHANGED <<buckets, spent, opened>>
     ELSE Drop(Keys) /\ CloseAccounts(Keys)
  /\ req' = [r \in Requests |-> Waiting]
  /\ hint' = [r \in Requests |-> NoHint]
  /\ UNCHANGED shared

Administer(a) == StoreStep(a) /\ UNCHANGED accessVars
Train(r) ==
  \/ Authenticate(r) \/ TurnAway(r) \/ Charge(r)
  \/ TakeItem(r) \/ FinishItem(r) \/ Collect(r) \/ Respond(r)

Next ==
  \/ \E a \in Admins : Administer(a) \/ ResetBucket(a)
  \/ \E r \in Requests : Train(r)
  \/ Expire
  \/ Crash
  \/ Tick /\ UNCHANGED accessVars

\* Handlers that were started run on; nobody has to start one.
GoesOn(a) ==
  \/ TakeLock(a) \/ WriteTmp(a) \/ Rename(a) \/ RemoveFile(a)
  \/ RenameAgain(a) \/ Chmod(a) \/ WriteRow(a)
Spec ==
  /\ Init /\ [][Next]_vars
  /\ \A a \in Admins :
       WF_vars((GoesOn(a) /\ UNCHANGED accessVars) \/ ResetBucket(a))

-----------------------------------------------------------------------------
(***************************************************************************)
(* Properties                                                              *)
(***************************************************************************)

TypeOK ==
  /\ table \in Records /\ acked \in Records
  /\ file \in Records \cup {Missing} /\ tmp \in Records \cup {Missing}
  /\ lock \in Admins \cup {Nobody}
  /\ \A a \in Admins : op[a].stage \in Stages
  /\ DOMAIN buckets \subseteq Keys
  /\ \A k \in DOMAIN buckets :
       buckets[k].tokens \in Nat /\ buckets[k].last \in Nat

\* A key whose revocation was confirmed stays revoked through edits, further
\* revocations, failing writes and restarts, unless some administrator wrote
\* over a record that had changed since he read it.
RevocationHolds ==
  \A k \in told \cap DOMAIN table : k \notin crossed => table[k].revoked

\* What the page promises of it, whoever else is at work.
RevocationIsPermanent == \A k \in told \cap DOMAIN table : table[k].revoked

FastestRefill == Max({p.refill : p \in Plans})

\* No course of charges, with whatever records they carry, gets more out of a
\* bucket than it held when it was opened and what the time since then brings;
\* a shared bucket loses in addition the time by which servers' clocks
\* disagree, each time an earlier clock follows a later one.
QuotaKept ==
  \A k \in DOMAIN buckets :
    buckets[k].tokens + spent[k]
      <= opened[k].tokens
           + (buckets[k].last - opened[k].at + opened[k].back) * FastestRefill

\* Retry-After is enough, in memory and in the cache: a batch that fits the
\* bucket at all is admitted, with nobody else on its key, by every server
\* whose clock shows the time that the refusal named.  The refusal counts from
\* the clock of the server it comes from; a client that waits as told and asks
\* a server whose clock is behind that one comes too early by the difference.
RetryAfterSuffices ==
  \A r \in Requests, skew \in Offsets :
    hint[r].at > 0 /\ clock + skew >= hint[r].at
      /\ hint[r].cost <= hint[r].plan.capacity
      => Filled(hint[r].key, hint[r].plan, clock + skew) >= hint[r].cost

\* A batch is answered when each of its items has been executed exactly once,
\* whatever worker took it, and every item handed out has been paid for.
BatchComplete ==
  \A r \in Requests :
    /\ req[r].stage = "answered" =>
         \A i \in 1..req[r].size : req[r].results[i] = 1
    /\ req[r].stage \in {"running", "answered"} => req[r].next - 1 <= req[r].paid

\* The lock of the store never stays taken: every administrator's request is
\* answered, whatever fails, as long as the process goes on.
AdminsAnswered == \A a \in Admins : op[a].stage # "idle" ~> op[a].stage = "idle"
=============================================================================
