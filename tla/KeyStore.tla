-------------------------------- MODULE KeyStore ------------------------------
(***************************************************************************)
(* The records of training keys and their administration                   *)
(* (src/internal/training/access.go): the local store, which keeps the     *)
(* records in memory and rewrites one file under a lock, the table that    *)
(* replaces it when a database is configured, and the key manager, whose   *)
(* operations read a record and write it back later.                       *)
(*                                                                         *)
(* A record keeps what its holders tell apart: the plan (bucket capacity   *)
(* and refill), the expiry and whether it is revoked.  Secrets, names and  *)
(* hashes never change after the creation and are left out.                *)
(***************************************************************************)
EXTENDS Integers, FiniteSets, Functions

CONSTANTS
  Keys,         \* identifiers a creation may draw
  Admins,       \* administrators' requests that may run at the same time
  Missing,      \* the content of a file that does not exist
  Nobody,       \* the holder of a lock that is free
  Plans,        \* bucket configurations, records of capacity and refill
  Backends,     \* bound: the stores that are deployed, of "file", "postgres"
  Found,        \* bound: the records that the first process may find
  Expiries,     \* bound: expiry times that requests name
  MaxClock,     \* bound: moments of a behaviour
  MaxChanges,   \* bound: administrators' requests of a behaviour
  MaxFaults     \* bound: failing calls and crashes of a behaviour

Nil == 0              \* no expiry
NoRecords == << >>     \* the empty map
Rec == [plan : Plans, expires : {Nil} \cup Expiries, revoked : BOOLEAN]
Records == UNION {[S -> Rec] : S \in SUBSET Keys}

ASSUME StoreAssumption ==
  /\ Plans \subseteq [capacity : Nat \ {0}, refill : Nat \ {0}]
  /\ IsFiniteSet(Plans)  \* validateKeyFields bounds both numbers
  /\ Backends \subseteq {"file", "postgres"}
  /\ Nobody \notin Admins
  /\ Missing \notin Records
  /\ MaxClock \in Nat \ {0}
  /\ Expiries \subseteq 1..MaxClock
  /\ Found \subseteq Records
  /\ MaxChanges \in Nat /\ MaxFaults \in Nat

VARIABLES
  table,    \* the records the process answers from: s.records, or the table
  file,     \* the records in the file, or Missing
  tmp,      \* the records in the temporary file, or Missing
  lock,     \* the administrator holding s.mu, or Nobody
  op,       \* what each administrator's request is doing
  backend,  \* "file" or "postgres", fixed for a deployment
  clock,
  changes,  \* administrators' requests started
  faults,   \* failing calls and crashes so far
  acked,    \* history: the records after the last acknowledged write
  refused,  \* history: the records of writes begun or refused since then
  dropped,  \* history: the file was removed and none put in its place since
  told,     \* history: keys whose revocation an administrator was told of
  crossed   \* history: keys written over a record that had changed since read

storeVars == <<table, file, tmp, lock, op, backend, clock, changes, faults,
               acked, refused, dropped, told, crossed>>

Stages == {"idle", "write", "persist", "rename", "remove", "retry", "chmod",
           "reset"}
NoOp == [stage |-> "idle"]

\* The map with one entry replaced or added.
Put(records, k, r) ==
  [x \in DOMAIN records \cup {k} |-> IF x = k THEN r ELSE records[x]]

\* OpenLocalKeyStore: no file is an empty store.
Load(content) == IF content = Missing THEN NoRecords ELSE content

\* validateKeyFields and Authenticate: an expiry counts while it lies ahead.
Ahead(expires) == expires = Nil \/ expires > clock
Valid(r) == ~r.revoked /\ Ahead(r.expires)

\* The lock admits one writer, and readers while nobody writes.
MayRead == lock = Nobody

MayFail == faults < MaxFaults
Fault == MayFail /\ faults' = faults + 1

\* The store is opened on whatever earlier processes left: no file or row, or
\* some records, revoked or expired ones among them.
StoreInit ==
  /\ backend \in Backends
  /\ table \in Found
  /\ file \in IF backend = "file" /\ table # NoRecords THEN {table} ELSE {Missing}
  /\ tmp = Missing
  /\ lock = Nobody
  /\ op = [a \in Admins |-> NoOp]
  /\ clock = 1 /\ changes = 0 /\ faults = 0
  /\ acked = table /\ refused = {} /\ dropped = FALSE
  /\ told = {} /\ crossed = {}

-----------------------------------------------------------------------------
(***************************************************************************)
(* The key manager                                                         *)
(***************************************************************************)

Begin(a, kind, k, record, stage) ==
  /\ op' = [op EXCEPT ![a] = [stage |-> stage, kind |-> kind, key |-> k,
                              record |-> record, before |-> table]]
  /\ changes' = changes + 1
  /\ UNCHANGED <<table, file, tmp, lock, backend, clock, faults, acked,
                 refused, dropped, told, crossed>>

MayBegin(a) == op[a].stage = "idle" /\ changes < MaxChanges

\* KeyManager.Create draws a random identifier, never one that was used before.
Unused(k) ==
  /\ k \notin DOMAIN table \cup DOMAIN Load(file) \cup DOMAIN acked \cup told
  /\ \A r \in refused : k \notin DOMAIN r
  /\ \A b \in Admins : op[b].stage # "idle" => op[b].key # k
Create(a) ==
  /\ MayBegin(a)
  /\ \E k \in Keys, plan \in Plans, expires \in {Nil} \cup Expiries :
       /\ Unused(k)
       /\ Ahead(expires)
       /\ Begin(a, "create", k,
                [plan |-> plan, expires |-> expires, revoked |-> FALSE],
                "write")

\* Fault: an edited key is written as a new record.
EditedAnew(r, plan, expires) ==
  [plan |-> plan, expires |-> expires, revoked |-> FALSE]

\* What an edit makes of the record it read.
Edited(r, plan, expires) == [r EXCEPT !.plan = plan, !.expires = expires]

\* KeyManager.Update up to the write: the record is read, changed and checked.
\* A request names a new expiry, clears it, or leaves it; an expiry that is
\* left and already past is refused, so an expired key cannot be edited alone.
ReadForUpdate(a) ==
  /\ MayBegin(a) /\ MayRead
  /\ \E k \in DOMAIN table, plan \in Plans :
       \E expires \in {table[k].expires, Nil} \cup Expiries :
         /\ Ahead(expires)
         /\ Begin(a, "update", k, Edited(table[k], plan, expires), "write")

\* KeyManager.Revoke up to the write; a revoked key is not written again.
ReadForRevoke(a) ==
  /\ MayBegin(a) /\ MayRead
  /\ \E k \in DOMAIN table :
       Begin(a, "revoke", k, [table[k] EXCEPT !.revoked = TRUE],
             IF table[k].revoked THEN "reset" ELSE "write")

-----------------------------------------------------------------------------
(***************************************************************************)
(* Writing                                                                 *)
(***************************************************************************)

At(a, stage) == op[a].stage = stage
GoTo(a, stage) == op' = [op EXCEPT ![a].stage = stage]
Done(a) == op' = [op EXCEPT ![a] = NoOp]

\* A creation is finished by the write, the others go on to the bucket.
AfterWrite(a) ==
  IF op[a].kind = "create" THEN Done(a) ELSE GoTo(a, "reset")

\* History: the write replaces another record than the one that was read.
Crosses(a) ==
  crossed' = IF /\ op[a].kind # "create"
                /\ table[op[a].key] # op[a].before[op[a].key]
             THEN crossed \cup {op[a].key} ELSE crossed

\* localKeyStore.Create and Update take the lock and change the memory first.
TakeLock(a) ==
  /\ backend = "file" /\ At(a, "write") /\ lock = Nobody
  /\ op[a].kind # "create" => op[a].key \in DOMAIN table
  /\ lock' = a
  /\ table' = Put(table, op[a].key, op[a].record)
  /\ op' = [op EXCEPT ![a].stage = "persist", ![a].before = table]
  /\ refused' = refused \cup {table'}
  /\ Crosses(a)
  /\ UNCHANGED <<file, tmp, backend, clock, changes, faults, acked, dropped,
                 told>>

\* Fault: a failed write is forgotten in the file but not in memory.
KeepAfterFailure(a) ==
  /\ table' = table
  /\ lock' = Nobody /\ Done(a) /\ Fault
  /\ UNCHANGED <<backend, clock, changes, acked, refused, told, crossed>>

\* Fault: the lock is released on success only.
RollBackLocked(a) ==
  /\ table' = op[a].before
  /\ lock' = lock /\ Done(a) /\ Fault
  /\ UNCHANGED <<backend, clock, changes, acked, refused, told, crossed>>

\* The entry goes back to what it was and the error to the administrator.
RollBack(a) ==
  /\ table' = op[a].before
  /\ lock' = Nobody /\ Done(a) /\ Fault
  /\ UNCHANGED <<backend, clock, changes, acked, refused, told, crossed>>

\* Fault: the file itself is rewritten; a failure leaves it without content.
WriteInPlace(a) ==
  /\ At(a, "persist")
  /\ \/ /\ tmp' = table /\ file' = Missing /\ GoTo(a, "rename")
        /\ UNCHANGED <<table, lock, backend, clock, changes, faults, acked,
                       refused, dropped, told, crossed>>
     \/ /\ RollBack(a) /\ tmp' \in {tmp, Missing}
        /\ UNCHANGED <<file, dropped>>

\* persistLocked writes the whole map beside the file, ...
WriteTmp(a) ==
  /\ At(a, "persist")
  /\ \/ /\ tmp' = table /\ GoTo(a, "rename")
        /\ UNCHANGED <<table, file, lock, backend, clock, changes, faults,
                       acked, refused, dropped, told, crossed>>
     \/ /\ RollBack(a) /\ tmp' \in {tmp, Missing}
        /\ UNCHANGED <<file, dropped>>

\* ... puts it in place of the file, ...
Replace(a, stage) ==
  /\ At(a, stage)
  /\ file' = tmp /\ tmp' = Missing /\ dropped' = FALSE
  /\ GoTo(a, "chmod")
  /\ UNCHANGED <<table, lock, backend, clock, changes, faults, acked, refused,
                 told, crossed>>
Rename(a) ==
  \/ Replace(a, "rename")
  \/ /\ At(a, "rename") /\ Fault /\ GoTo(a, "remove")
     /\ UNCHANGED <<table, file, tmp, lock, backend, clock, changes, acked,
                    refused, dropped, told, crossed>>

\* ... and when that fails removes the file (or fails to) and tries again.
RemoveFile(a) ==
  /\ At(a, "remove")
  /\ GoTo(a, "retry")
  /\ \/ file' = Missing /\ dropped' = TRUE
     \/ UNCHANGED <<file, dropped>>
  /\ UNCHANGED <<table, tmp, lock, backend, clock, changes, faults, acked,
                 refused, told, crossed>>
RenameAgain(a) ==
  \/ Replace(a, "retry")
  \/ /\ At(a, "retry") /\ RollBack(a)
     /\ tmp' = Missing
     /\ UNCHANGED <<file, dropped>>

\* The permissions come last; their failure refuses a write already in place.
Chmod(a) ==
  /\ At(a, "chmod")
  /\ \/ /\ AfterWrite(a) /\ lock' = Nobody
        /\ acked' = table /\ refused' = {}
        /\ UNCHANGED <<table, file, tmp, backend, clock, changes, faults,
                       dropped, told, crossed>>
     \/ /\ RollBack(a)
        /\ UNCHANGED <<file, tmp, dropped>>

\* postgresKeyStore writes all columns of the row in one statement; a failure
\* may leave the row written and only the answer lost.
WriteRow(a) ==
  /\ backend = "postgres" /\ At(a, "write")
  /\ \/ /\ table' = Put(table, op[a].key, op[a].record)
        /\ AfterWrite(a)
        /\ acked' = table'
        /\ UNCHANGED faults
     \/ /\ table' \in {table, Put(table, op[a].key, op[a].record)}
        /\ Done(a) /\ Fault
        /\ UNCHANGED acked
  /\ Crosses(a)
  /\ UNCHANGED <<file, tmp, lock, backend, clock, changes, refused, dropped,
                 told>>

\* The handler answers once the bucket is reset as well; the reset may fail.
Reply(a, done) ==
  /\ At(a, "reset")
  /\ Done(a)
  /\ told' = IF done /\ op[a].kind = "revoke" THEN told \cup {op[a].key}
             ELSE told
  /\ UNCHANGED <<table, file, tmp, lock, backend, clock, changes, acked,
                 refused, dropped, crossed>>

\* The process stops at any point and starts again from the file; the lock and
\* the requests are gone, the database is not.
StoreCrash ==
  /\ Fault
  /\ table' = IF backend = "file" THEN Load(file) ELSE table
  /\ acked' = table' /\ refused' = {} /\ dropped' = FALSE
  /\ lock' = Nobody
  /\ op' = [a \in Admins |-> NoOp]
  /\ UNCHANGED <<file, tmp, backend, clock, changes, told, crossed>>

Tick ==
  /\ clock < MaxClock
  /\ clock' = clock + 1
  /\ UNCHANGED <<table, file, tmp, lock, op, backend, changes, faults, acked,
                 refused, dropped, told, crossed>>

StoreStep(a) ==
  \/ Create(a) \/ ReadForUpdate(a) \/ ReadForRevoke(a)
  \/ TakeLock(a) \/ WriteTmp(a) \/ Rename(a) \/ RemoveFile(a)
  \/ RenameAgain(a) \/ Chmod(a) \/ WriteRow(a)

-----------------------------------------------------------------------------
(***************************************************************************)
(* What the durability of the local store rests on                         *)
(***************************************************************************)

OpRecords ==
  [stage : {"idle"}]
    \cup [stage : Stages \ {"idle"}, kind : {"create", "update", "revoke"},
          key : Keys, record : Rec, before : Records]

StoreTypes ==
  /\ table \in Records /\ acked \in Records /\ refused \in SUBSET Records
  /\ file \in Records \cup {Missing} /\ tmp \in Records \cup {Missing}
  /\ lock \in Admins \cup {Nobody}
  /\ op \in [Admins -> OpRecords]
  /\ backend \in {"file", "postgres"} /\ dropped \in BOOLEAN

\* Stages under the lock.
Writing == {"persist", "rename", "remove", "retry", "chmod"}

\* Under the lock, the memory is ahead of what was acknowledged by one write,
\* which is remembered; the whole memory goes into the temporary file and from
\* there into the file.
WriterHolds ==
  \A a \in Admins :
    /\ op[a].stage \in Writing =>
         /\ backend = "file" /\ lock = a
         /\ op[a].before = acked /\ table \in refused
    /\ op[a].stage \in {"rename", "remove", "retry"} => tmp = table
    /\ op[a].stage = "chmod" => file = table /\ ~dropped

\* What a restart would find (localKeyStore, access.go 93-149), at every moment:
\* the records as last acknowledged, or as some write since then, begun or
\* refused, would have them, whole and never older.  Or no file: once a rename
\* has failed and persistLocked has removed the file, there is none until a
\* write, this or a later one, puts a whole file in place.  Until then the
\* records are in the memory of the running process, and a stop loses them.
FileWholeOrRemoved ==
  backend = "file" =>
    IF dropped THEN file = Missing /\ table \in {acked} \cup refused
    ELSE Load(file) \in {acked} \cup refused

\* docs/training-api.md, 19: without a database the keys are kept in a file.  A
\* process that is stopped at any moment would then start again with the keys
\* as last acknowledged, or as a write since then would have them.
RestartKeepsAcked ==
  [][StoreCrash /\ backend = "file" => table' \in {acked} \cup refused]_storeVars

\* A write that was refused leaves no trace in the running process: between
\* writes the memory is what was last acknowledged, although the file may hold
\* the refused records already and bring them back with the next start.
RefusedLeavesNoTrace == backend = "file" /\ lock = Nobody => table = acked

\* The invariant that every step preserves.
StoreInv ==
  StoreTypes /\ WriterHolds /\ FileWholeOrRemoved /\ RefusedLeavesNoTrace
=============================================================================
