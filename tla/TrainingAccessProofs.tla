-------------------------- MODULE TrainingAccessProofs --------------------------
(***************************************************************************)
(* What clients and administrators of the training service can rely on,    *)
(* for any number of keys, administrators, requests, workers, servers'     *)
(* clocks, crashes and failing calls: the store of the keys, a confirmed   *)
(* revocation, the answers to a batch, the quota of a bucket and the retry *)
(* time of a refusal.                                                      *)
(***************************************************************************)
EXTENDS TrainingAccess, FiniteSetTheorems, WellFoundedInduction, TLAPS

-----------------------------------------------------------------------------
(***************************************************************************)
(* The store                                                               *)
(*                                                                         *)
(* Only the holder of the lock changes memory and files (WriterHolds).  It *)
(* remembers the acknowledged records, to which every failure returns, and *)
(* what it puts in place of the file is always the whole memory, which is  *)
(* remembered as a refused write until it is acknowledged.                 *)
(***************************************************************************)

LEMMA RecordsType ==
  ASSUME NEW f \in Records
  PROVE  /\ DOMAIN f \in SUBSET Keys
         /\ \A k \in DOMAIN f : f[k] \in Rec
  BY DEF Records

LEMMA PutType ==
  ASSUME NEW f \in Records, NEW k \in Keys, NEW r \in Rec
  PROVE  Put(f, k, r) \in Records
<1>1. DOMAIN f \in SUBSET Keys /\ \A x \in DOMAIN f : f[x] \in Rec
  BY RecordsType
<1>2. DOMAIN f \cup {k} \in SUBSET Keys
  BY <1>1
<1>3. Put(f, k, r) \in [DOMAIN f \cup {k} -> Rec]
  BY <1>1 DEF Put
<1> QED BY <1>2, <1>3 DEF Records

LEMMA NoRecordsType == NoRecords \in Records
<1>1. {} \in SUBSET Keys /\ NoRecords \in [{} -> Rec]
  BY DEF NoRecords
<1> QED BY <1>1 DEF Records

LEMMA LoadType ==
  ASSUME NEW content \in Records \cup {Missing}
  PROVE  Load(content) \in Records /\ (content \in Records => Load(content) = content)
  BY NoRecordsType, StoreAssumption DEF Load

LEMMA Initially == Init => StoreInv
<1> SUFFICES ASSUME StoreInit PROVE StoreInv
  BY DEF Init
<1>1. table \in Records
  BY StoreAssumption DEF StoreInit
<1>2. file \in Records \cup {Missing}
      /\ (backend = "file" => Load(file) = table)
  <2>1. CASE backend = "file" /\ table # NoRecords
    BY <1>1, <2>1, LoadType DEF StoreInit
  <2>2. CASE ~(backend = "file" /\ table # NoRecords)
    <3>1. file = Missing
      BY <2>2 DEF StoreInit
    <3> QED BY <2>2, <3>1 DEF Load
  <2> QED BY <2>1, <2>2
<1>3. NoOp \in OpRecords
  BY DEF NoOp, OpRecords
<1>4. StoreTypes
  BY <1>1, <1>2, <1>3, StoreAssumption DEF StoreInit, StoreTypes
<1>5. WriterHolds
  BY DEF StoreInit, WriterHolds, Writing, NoOp
<1>6. FileWholeOrRemoved /\ RefusedLeavesNoTrace
  BY <1>2 DEF StoreInit, FileWholeOrRemoved, RefusedLeavesNoTrace
<1> QED BY <1>4, <1>5, <1>6 DEF StoreInv

\* Steps that change only what one request is doing, outside the lock.
LEMMA QuietStep ==
  ASSUME StoreInv, NEW a \in Admins, NEW o \in OpRecords,
         o.stage \notin Writing, op' = [op EXCEPT ![a] = o],
         UNCHANGED <<table, file, tmp, lock, backend, acked, refused, dropped>>
  PROVE  StoreInv'
<1>1. StoreTypes'
  BY DEF StoreInv, StoreTypes
<1>2. WriterHolds'
  BY DEF StoreInv, StoreTypes, WriterHolds, Writing
<1>3. FileWholeOrRemoved' /\ RefusedLeavesNoTrace'
  BY DEF StoreInv, FileWholeOrRemoved, RefusedLeavesNoTrace
<1> QED BY <1>1, <1>2, <1>3 DEF StoreInv

LEMMA BeginKeeps ==
  ASSUME StoreInv, NEW a \in Admins, NEW k \in Keys, NEW record \in Rec,
         NEW kind \in {"create", "update", "revoke"},
         NEW stage \in {"write", "reset"}, Begin(a, kind, k, record, stage)
  PROVE  StoreInv'
<1> DEFINE o == [stage |-> stage, kind |-> kind, key |-> k,
                 record |-> record, before |-> table]
<1>1. table \in Records
  BY DEF StoreInv, StoreTypes
<1>2. o \in OpRecords /\ o.stage \notin Writing
  BY <1>1 DEF OpRecords, Stages, Writing
<1>3. op' = [op EXCEPT ![a] = o]
      /\ UNCHANGED <<table, file, tmp, lock, backend, acked, refused, dropped>>
  BY DEF Begin
<1>4. PICK new : new = o
  OBVIOUS
<1> QED BY <1>2, <1>3, <1>4, QuietStep

LEMMA BeginningKeeps ==
  ASSUME StoreInv, NEW a \in Admins,
         Create(a) \/ ReadForUpdate(a) \/ ReadForRevoke(a)
  PROVE  StoreInv'
<1>0. table \in Records
  BY DEF StoreInv, StoreTypes
<1>1. CASE Create(a)
  <2>1. PICK k \in Keys, plan \in Plans, expires \in {Nil} \cup Expiries :
          Begin(a, "create", k,
                [plan |-> plan, expires |-> expires, revoked |-> FALSE], "write")
    BY <1>1 DEF Create
  <2>2. [plan |-> plan, expires |-> expires, revoked |-> FALSE] \in Rec
    BY DEF Rec
  <2> QED BY <2>1, <2>2, BeginKeeps
<1>2. CASE ReadForUpdate(a)
  <2>1. PICK k \in DOMAIN table, plan \in Plans :
          \E expires \in {table[k].expires, Nil} \cup Expiries :
            Begin(a, "update", k, Edited(table[k], plan, expires), "write")
    BY <1>2 DEF ReadForUpdate
  <2>0. PICK expires \in {table[k].expires, Nil} \cup Expiries :
          Begin(a, "update", k, Edited(table[k], plan, expires), "write")
    BY <2>1
  <2>2. k \in Keys /\ table[k] \in Rec
    BY <1>0, RecordsType
  <2>3. Edited(table[k], plan, expires) \in Rec
    BY <2>2 DEF Edited, Rec
  <2> QED BY <2>0, <2>2, <2>3, BeginKeeps
<1>3. CASE ReadForRevoke(a)
  <2>1. PICK k \in DOMAIN table :
          Begin(a, "revoke", k, [table[k] EXCEPT !.revoked = TRUE],
                IF table[k].revoked THEN "reset" ELSE "write")
    BY <1>3 DEF ReadForRevoke
  <2>2. k \in Keys /\ table[k] \in Rec
    BY <1>0, RecordsType
  <2>3. [table[k] EXCEPT !.revoked = TRUE] \in Rec
    BY <2>2 DEF Rec
  <2> QED BY <2>1, <2>2, <2>3, BeginKeeps
<1> QED BY <1>1, <1>2, <1>3

-----------------------------------------------------------------------------
(* Steps under the lock                                                      *)

\* Who writes holds the lock, and nobody else does.
LEMMA OneWriter ==
  ASSUME StoreInv, NEW a \in Admins, op[a].stage \in Writing
  PROVE  /\ lock = a /\ backend = "file"
         /\ op[a].before = acked /\ acked \in Records /\ table \in refused
         /\ \A b \in Admins \ {a} : op[b].stage \notin Writing
  BY DEF StoreInv, StoreTypes, WriterHolds

\* A request that moves on to another stage keeps the rest of its record.
LEMMA Staged ==
  ASSUME StoreTypes, NEW a \in Admins, op[a].stage # "idle",
         NEW s \in Stages \ {"idle"}, GoTo(a, s)
  PROVE  /\ op' \in [Admins -> OpRecords]
         /\ op'[a].stage = s /\ op'[a].before = op[a].before
         /\ \A b \in Admins \ {a} : op'[b] = op[b]
<1>1. op \in [Admins -> OpRecords] /\ op[a] \in OpRecords
  BY DEF StoreTypes
<1>2. op[a] \in [stage : Stages \ {"idle"}, kind : {"create", "update", "revoke"},
                 key : Keys, record : Rec, before : Records]
  BY <1>1 DEF OpRecords
<1>3. [op[a] EXCEPT !.stage = s] \in OpRecords
  BY <1>2 DEF OpRecords
<1>4. op' = [op EXCEPT ![a] = [op[a] EXCEPT !.stage = s]]
  BY <1>1 DEF GoTo
<1>5. op'[a] = [op[a] EXCEPT !.stage = s]
  BY <1>1, <1>4
<1>6. op'[a].stage = s /\ op'[a].before = op[a].before
  BY <1>2, <1>5
<1> QED BY <1>1, <1>3, <1>4, <1>6

\* The writer goes on: what the next stage asks of the files has to be shown.
LEMMA WriterGoesOn ==
  ASSUME StoreInv, NEW a \in Admins, op[a].stage \in Writing,
         NEW s \in Writing, GoTo(a, s),
         UNCHANGED <<table, lock, backend, acked, refused>>,
         file' \in Records \cup {Missing}, tmp' \in Records \cup {Missing},
         dropped' \in BOOLEAN,
         s \in {"rename", "remove", "retry"} => tmp' = table,
         s = "chmod" => file' = table /\ ~dropped',
         \/ file' = file /\ dropped' = dropped
         \/ file' = table /\ ~dropped'
         \/ file' = Missing /\ dropped'
  PROVE  StoreInv'
<1>1. StoreTypes /\ table \in Records
  BY DEF StoreInv, StoreTypes
<1>2. /\ lock = a /\ backend = "file" /\ op[a].before = acked /\ table \in refused
      /\ \A b \in Admins \ {a} : op[b].stage \notin Writing
  BY OneWriter
<1>3. op[a].stage # "idle" /\ s \in Stages \ {"idle"}
  BY DEF Writing, Stages
<1>4. /\ op' \in [Admins -> OpRecords]
      /\ op'[a].stage = s /\ op'[a].before = op[a].before
      /\ \A b \in Admins \ {a} : op'[b] = op[b]
  BY <1>1, <1>3, Staged
<1>5. StoreTypes'
  BY <1>1, <1>4 DEF StoreTypes
<1>6. WriterHolds'
  <2> SUFFICES ASSUME NEW b \in Admins
               PROVE  (/\ op[b].stage \in Writing =>
                            /\ backend = "file" /\ lock = b
                            /\ op[b].before = acked /\ table \in refused
                       /\ op[b].stage \in {"rename", "remove", "retry"} =>
                            tmp = table
                       /\ op[b].stage = "chmod" => file = table /\ ~dropped)'
    BY DEF WriterHolds
  <2>1. CASE b = a
    BY <1>2, <1>4, <2>1
  <2>2. CASE b # a
    BY <1>2, <1>4, <2>2 DEF Writing
  <2> QED BY <2>1, <2>2
<1>7. FileWholeOrRemoved'
  <2>1. CASE file' = file /\ dropped' = dropped
    BY <2>1 DEF StoreInv, FileWholeOrRemoved
  <2>2. CASE file' = table /\ ~dropped'
    <3>1. Load(file') = table
      BY <1>1, <2>2, LoadType
    <3> QED BY <1>2, <2>2, <3>1 DEF FileWholeOrRemoved, Load
  <2>3. CASE file' = Missing /\ dropped'
    BY <1>2, <2>3 DEF FileWholeOrRemoved
  <2> QED BY <2>1, <2>2, <2>3
<1>8. RefusedLeavesNoTrace'
  BY <1>2, StoreAssumption DEF RefusedLeavesNoTrace
<1> QED BY <1>5, <1>6, <1>7, <1>8 DEF StoreInv

\* Every failure returns to the acknowledged records.
LEMMA RollBackKeeps ==
  ASSUME StoreInv, NEW a \in Admins, op[a].stage \in Writing, RollBack(a),
         UNCHANGED <<file, dropped>>, tmp' \in Records \cup {Missing}
  PROVE  StoreInv'
<1>1. /\ op[a].before = acked /\ acked \in Records /\ backend = "file"
      /\ \A b \in Admins \ {a} : op[b].stage \notin Writing
  BY OneWriter
<1>2. /\ table' = acked /\ lock' = Nobody /\ op' = [op EXCEPT ![a] = NoOp]
      /\ UNCHANGED <<backend, acked, refused>>
  BY <1>1 DEF RollBack, Done
<1>3. NoOp \in OpRecords /\ NoOp.stage \notin Writing
  BY DEF NoOp, OpRecords, Writing
<1>4. StoreTypes'
  BY <1>1, <1>2, <1>3 DEF StoreInv, StoreTypes
<1>5. \A b \in Admins : op'[b].stage \notin Writing
  BY <1>1, <1>2, <1>3 DEF StoreInv, StoreTypes
<1>6. WriterHolds'
  BY <1>5 DEF WriterHolds, Writing
<1>7. FileWholeOrRemoved' /\ RefusedLeavesNoTrace'
  BY <1>2 DEF StoreInv, FileWholeOrRemoved, RefusedLeavesNoTrace
<1> QED BY <1>4, <1>6, <1>7 DEF StoreInv

LEMMA WriteTmpKeeps ==
  ASSUME StoreInv, NEW a \in Admins, WriteTmp(a)
  PROVE  StoreInv'
<1>1. op[a].stage \in Writing /\ StoreTypes
  BY DEF WriteTmp, At, Writing, StoreInv
<1>2. CASE /\ tmp' = table /\ GoTo(a, "rename")
           /\ UNCHANGED <<table, file, lock, backend, acked, refused, dropped>>
  <2>1. "rename" \in Writing
    BY DEF Writing
  <2>2. /\ file' \in Records \cup {Missing} /\ tmp' \in Records \cup {Missing}
        /\ dropped' \in BOOLEAN
    BY <1>1, <1>2 DEF StoreTypes
  <2> QED BY <1>1, <1>2, <2>1, <2>2, WriterGoesOn
<1>3. CASE RollBack(a) /\ tmp' \in {tmp, Missing} /\ UNCHANGED <<file, dropped>>
  BY <1>1, <1>3, RollBackKeeps DEF StoreTypes
<1> QED BY <1>2, <1>3 DEF WriteTmp

LEMMA ReplaceKeeps ==
  ASSUME StoreInv, NEW a \in Admins, NEW s \in {"rename", "retry"}, Replace(a, s)
  PROVE  StoreInv'
<1>1. op[a].stage \in Writing /\ StoreTypes
  BY DEF Replace, At, Writing, StoreInv
<1>2. tmp = table /\ table \in Records
  BY <1>1 DEF StoreInv, StoreTypes, WriterHolds, Replace, At
<1>3. /\ file' = table /\ tmp' = Missing /\ dropped' = FALSE /\ GoTo(a, "chmod")
      /\ UNCHANGED <<table, lock, backend, acked, refused>>
  BY <1>2 DEF Replace
<1>4. "chmod" \in Writing
  BY DEF Writing
<1> QED BY <1>1, <1>2, <1>3, <1>4, WriterGoesOn

LEMMA RenameKeeps ==
  ASSUME StoreInv, NEW a \in Admins, Rename(a) \/ RemoveFile(a) \/ RenameAgain(a)
  PROVE  StoreInv'
<1>1. StoreTypes
  BY DEF StoreInv
<1>2. CASE Replace(a, "rename") \/ Replace(a, "retry")
  BY <1>2, ReplaceKeeps
<1>3. CASE /\ At(a, "rename") /\ GoTo(a, "remove")
           /\ UNCHANGED <<table, file, tmp, lock, backend, acked, refused, dropped>>
  <2>1. op[a].stage \in Writing /\ "remove" \in Writing /\ tmp = table
    BY <1>3 DEF At, Writing, StoreInv, WriterHolds
  <2> QED BY <1>1, <1>3, <2>1, WriterGoesOn DEF StoreTypes
<1>4. CASE RemoveFile(a)
  <2>1. op[a].stage \in Writing /\ "retry" \in Writing /\ tmp = table
    BY <1>4 DEF RemoveFile, At, Writing, StoreInv, WriterHolds
  <2>2. GoTo(a, "retry") /\ UNCHANGED <<table, tmp, lock, backend, acked, refused>>
    BY <1>4 DEF RemoveFile
  <2>3. \/ file' = Missing /\ dropped' = TRUE
        \/ file' = file /\ dropped' = dropped
    BY <1>4 DEF RemoveFile
  <2> QED BY <1>1, <2>1, <2>2, <2>3, WriterGoesOn DEF StoreTypes
<1>5. CASE /\ At(a, "retry") /\ RollBack(a)
           /\ tmp' = Missing /\ UNCHANGED <<file, dropped>>
  BY <1>5, RollBackKeeps DEF At, Writing
<1> QED BY <1>2, <1>3, <1>4, <1>5 DEF Rename, RenameAgain

\* Taking the lock: the acknowledged records are remembered, and the changed
\* ones count as refused until they are acknowledged.
LEMMA TakeLockKeeps ==
  ASSUME StoreInv, NEW a \in Admins, TakeLock(a)
  PROVE  StoreInv'
<1>1. StoreTypes /\ table \in Records
  BY DEF StoreInv, StoreTypes
<1>2. /\ backend = "file" /\ op[a].stage = "write" /\ lock = Nobody /\ lock' = a
      /\ table' = Put(table, op[a].key, op[a].record)
      /\ refused' = refused \cup {table'}
      /\ UNCHANGED <<file, tmp, backend, acked, dropped>>
  BY DEF TakeLock, At
<1>3. table = acked
  BY <1>2 DEF StoreInv, RefusedLeavesNoTrace
<1>4. op[a] \in [stage : Stages \ {"idle"}, kind : {"create", "update", "revoke"},
                 key : Keys, record : Rec, before : Records]
  BY <1>1, <1>2 DEF StoreTypes, OpRecords
<1>5. table' \in Records
  BY <1>1, <1>2, <1>4, PutType
<1>6. PICK o : o = [op[a] EXCEPT !.stage = "persist", !.before = table]
  OBVIOUS
<1>7. o \in OpRecords /\ o.stage = "persist" /\ o.before = table
  BY <1>1, <1>4, <1>6 DEF OpRecords, Stages
<1>8. op' = [op EXCEPT ![a] = o]
  BY <1>1, <1>6 DEF TakeLock, StoreTypes
<1>9. \A b \in Admins : op[b].stage \notin Writing
  BY <1>2, StoreAssumption DEF StoreInv, WriterHolds
<1>10. op'[a] = o /\ \A b \in Admins \ {a} : op'[b] = op[b]
  BY <1>1, <1>8 DEF StoreTypes
<1>11. StoreTypes'
  BY <1>1, <1>2, <1>5, <1>7, <1>8 DEF StoreTypes
<1>12. WriterHolds'
  <2> SUFFICES ASSUME NEW b \in Admins
               PROVE  (/\ op[b].stage \in Writing =>
                            /\ backend = "file" /\ lock = b
                            /\ op[b].before = acked /\ table \in refused
                       /\ op[b].stage \in {"rename", "remove", "retry"} =>
                            tmp = table
                       /\ op[b].stage = "chmod" => file = table /\ ~dropped)'
    BY DEF WriterHolds
  <2>1. CASE b = a
    BY <1>2, <1>3, <1>7, <1>10, <2>1
  <2>2. CASE b # a
    BY <1>9, <1>10, <2>2 DEF Writing
  <2> QED BY <2>1, <2>2
<1>13. FileWholeOrRemoved'
  BY <1>2 DEF StoreInv, FileWholeOrRemoved
<1>14. RefusedLeavesNoTrace'
  BY <1>2, StoreAssumption DEF RefusedLeavesNoTrace
<1> QED BY <1>11, <1>12, <1>13, <1>14 DEF StoreInv

LEMMA ChmodKeeps ==
  ASSUME StoreInv, NEW a \in Admins, Chmod(a)
  PROVE  StoreInv'
<1>1. op[a].stage \in Writing /\ op[a].stage = "chmod" /\ StoreTypes
  BY DEF Chmod, At, Writing, StoreInv
<1>2. CASE /\ AfterWrite(a) /\ lock' = Nobody
           /\ acked' = table /\ refused' = {}
           /\ UNCHANGED <<table, file, tmp, backend, dropped>>
  <2>1. PICK o \in OpRecords : op' = [op EXCEPT ![a] = o] /\ o.stage \notin Writing
    <3>1. CASE Done(a)
      <4>1. NoOp \in OpRecords /\ NoOp.stage \notin Writing
        BY DEF NoOp, OpRecords, Writing
      <4> QED BY <3>1, <4>1 DEF Done
    <3>2. CASE GoTo(a, "reset")
      <4>1. op[a] \in [stage : Stages \ {"idle"},
                       kind : {"create", "update", "revoke"},
                       key : Keys, record : Rec, before : Records]
        BY <1>1 DEF StoreTypes, OpRecords
      <4>2. [op[a] EXCEPT !.stage = "reset"] \in OpRecords
        BY <4>1 DEF OpRecords, Stages
      <4>3. [op[a] EXCEPT !.stage = "reset"].stage = "reset"
        BY <4>1
      <4>4. op' = [op EXCEPT ![a] = [op[a] EXCEPT !.stage = "reset"]]
        BY <1>1, <3>2 DEF GoTo, StoreTypes
      <4> QED BY <4>2, <4>3, <4>4 DEF Writing
    <3> QED BY <1>2, <3>1, <3>2 DEF AfterWrite
  <2>2. file = table /\ table \in Records /\ ~dropped
    BY <1>1 DEF StoreInv, StoreTypes, WriterHolds
  <2>3. \A b \in Admins : op'[b].stage \notin Writing
    BY <1>1, <2>1, OneWriter DEF StoreTypes
  <2>4. StoreTypes'
    BY <1>1, <1>2, <2>1 DEF StoreTypes
  <2>5. WriterHolds'
    BY <2>3 DEF WriterHolds, Writing
  <2>6. Load(file)' = table
    BY <1>2, <2>2, LoadType DEF Load
  <2>7. FileWholeOrRemoved' /\ RefusedLeavesNoTrace'
    BY <1>2, <2>2, <2>6 DEF FileWholeOrRemoved, RefusedLeavesNoTrace
  <2> QED BY <2>4, <2>5, <2>7 DEF StoreInv
<1>3. CASE RollBack(a) /\ UNCHANGED <<file, tmp, dropped>>
  BY <1>1, <1>3, RollBackKeeps DEF StoreTypes
<1> QED BY <1>2, <1>3 DEF Chmod

\* The table of the database: the file plays no part.
LEMMA WriteRowKeeps ==
  ASSUME StoreInv, NEW a \in Admins, WriteRow(a)
  PROVE  StoreInv'
<1>1. StoreTypes /\ table \in Records /\ acked \in Records
  BY DEF StoreInv, StoreTypes
<1>2. /\ backend = "postgres" /\ op[a].stage = "write"
      /\ UNCHANGED <<file, tmp, lock, backend, refused, dropped>>
  BY DEF WriteRow, At
<1>3. op[a] \in [stage : Stages \ {"idle"}, kind : {"create", "update", "revoke"},
                 key : Keys, record : Rec, before : Records]
  BY <1>1, <1>2 DEF StoreTypes, OpRecords
<1>4. Put(table, op[a].key, op[a].record) \in Records
  BY <1>1, <1>3, PutType
<1>5. table' \in Records /\ acked' \in Records
  BY <1>1, <1>4 DEF WriteRow
<1>6. PICK o \in OpRecords : op' = [op EXCEPT ![a] = o]
  <2>1. CASE Done(a)
    BY <2>1 DEF Done, NoOp, OpRecords
  <2>2. CASE GoTo(a, "reset")
    <3>1. [op[a] EXCEPT !.stage = "reset"] \in OpRecords
      BY <1>3 DEF OpRecords, Stages
    <3>2. op' = [op EXCEPT ![a] = [op[a] EXCEPT !.stage = "reset"]]
      BY <1>1, <2>2 DEF GoTo, StoreTypes
    <3> QED BY <3>1, <3>2
  <2> QED BY <2>1, <2>2 DEF WriteRow, AfterWrite
<1>7. op'[a].stage \notin Writing
  <2>1. CASE Done(a)
    BY <1>1, <2>1 DEF Done, NoOp, Writing, StoreTypes
  <2>2. CASE GoTo(a, "reset")
    BY <1>1, <1>2, <2>2, Staged DEF Stages, Writing
  <2> QED BY <2>1, <2>2 DEF WriteRow, AfterWrite
<1>8. \A b \in Admins : op'[b].stage \notin Writing
  BY <1>1, <1>2, <1>6, <1>7 DEF StoreInv, WriterHolds, StoreTypes
<1>9. StoreTypes'
  BY <1>1, <1>2, <1>5, <1>6 DEF StoreTypes
<1>10. WriterHolds'
  BY <1>8 DEF WriterHolds, Writing
<1>11. FileWholeOrRemoved' /\ RefusedLeavesNoTrace'
  BY <1>2 DEF FileWholeOrRemoved, RefusedLeavesNoTrace
<1> QED BY <1>9, <1>10, <1>11 DEF StoreInv

LEMMA StoreStepKeeps ==
  ASSUME StoreInv, NEW a \in Admins, StoreStep(a)
  PROVE  StoreInv'
BY BeginningKeeps, TakeLockKeeps, WriteTmpKeeps, RenameKeeps, ChmodKeeps,
   WriteRowKeeps DEF StoreStep

LEMMA ReplyKeeps ==
  ASSUME StoreInv, NEW a \in Admins, NEW done \in BOOLEAN, Reply(a, done)
  PROVE  StoreInv'
<1>1. NoOp \in OpRecords /\ NoOp.stage \notin Writing
  BY DEF NoOp, OpRecords, Writing
<1>2. /\ op' = [op EXCEPT ![a] = NoOp]
      /\ UNCHANGED <<table, file, tmp, lock, backend, acked, refused, dropped>>
  BY DEF Reply, Done
<1> QED BY <1>1, <1>2, QuietStep

\* The next process starts from whatever the file holds.
LEMMA StoreCrashKeeps ==
  ASSUME StoreInv, StoreCrash
  PROVE  StoreInv'
<1>1. StoreTypes
  BY DEF StoreInv
<1>2. /\ table' = (IF backend = "file" THEN Load(file) ELSE table)
      /\ acked' = table' /\ refused' = {} /\ dropped' = FALSE /\ lock' = Nobody
      /\ op' = [a \in Admins |-> NoOp] /\ UNCHANGED <<file, tmp, backend>>
  BY DEF StoreCrash
<1>3. NoOp \in OpRecords /\ NoOp.stage = "idle"
  BY DEF NoOp, OpRecords
<1>4. table' \in Records
  BY <1>1, <1>2, LoadType DEF StoreTypes
<1>5. StoreTypes'
  BY <1>1, <1>2, <1>3, <1>4 DEF StoreTypes
<1>6. WriterHolds'
  BY <1>2, <1>3 DEF WriterHolds, Writing
<1>7. FileWholeOrRemoved' /\ RefusedLeavesNoTrace'
  BY <1>2 DEF FileWholeOrRemoved, RefusedLeavesNoTrace, Load
<1> QED BY <1>5, <1>6, <1>7 DEF StoreInv

\* Steps that leave the store alone.
LEMMA StoreUntouched ==
  ASSUME StoreInv,
         UNCHANGED <<table, file, tmp, lock, op, backend, acked, refused, dropped>>
  PROVE  StoreInv'
BY DEF StoreInv, StoreTypes, WriterHolds, FileWholeOrRemoved,
   RefusedLeavesNoTrace, Load

LEMMA StepKeeps == StoreInv /\ [Next]_vars => StoreInv'
<1> SUFFICES ASSUME StoreInv, [Next]_vars PROVE StoreInv'
  OBVIOUS
<1>1. ASSUME NEW a \in Admins, Administer(a) PROVE StoreInv'
  BY <1>1, StoreStepKeeps DEF Administer
<1>2. ASSUME NEW a \in Admins, ResetBucket(a) PROVE StoreInv'
  BY <1>2, ReplyKeeps DEF ResetBucket
<1>3. ASSUME NEW r \in Requests, Train(r) PROVE StoreInv'
  <2>1. UNCHANGED storeVars
    BY <1>3 DEF Train, Authenticate, TurnAway, Charge, TakeItem, FinishItem,
       Collect, Respond
  <2> QED BY <2>1, StoreUntouched DEF storeVars
<1>4. CASE Expire
  BY <1>4, StoreUntouched DEF Expire, storeVars
<1>5. CASE Crash
  BY <1>5, StoreCrashKeeps DEF Crash
<1>6. CASE Tick
  BY <1>6, StoreUntouched DEF Tick
<1>7. CASE UNCHANGED vars
  BY <1>7, StoreUntouched DEF vars, storeVars
<1> QED BY <1>1, <1>2, <1>3, <1>4, <1>5, <1>6, <1>7 DEF Next

\* The invariant of the key store holds in every state of every server.
THEOREM StoreInvariance == Spec => []StoreInv
<1> QED BY Initially, StepKeeps, PTL DEF Spec

\* At every moment the file of keys is whole and holds every acknowledged change
\* (access.go, persistLocked), or it is gone because a rename failed and it was
\* removed, and the memory of the process holds what the file should.
THEOREM FileIsWhole == Spec => []FileWholeOrRemoved
<1>1. StoreInv => FileWholeOrRemoved
  BY DEF StoreInv
<1> QED BY <1>1, StoreInvariance, PTL

\* Between writes the memory is what was last acknowledged: a refused creation
\* or edit of a key has no effect in the process (access.go, 97 to 124).
THEOREM RefusalsForgotten == Spec => []RefusedLeavesNoTrace
<1>1. StoreInv => RefusedLeavesNoTrace
  BY DEF StoreInv
<1> QED BY <1>1, StoreInvariance, PTL

-----------------------------------------------------------------------------
(***************************************************************************)
(* Revocation                                                              *)
(*                                                                         *)
(* The process may come to answer from any of several copies of the        *)
(* records: the memory, the acknowledged records a failure returns to, the *)
(* file a restart reads, and the refused records that may yet get into     *)
(* the file.  A revocation is confirmed only when the copy that counts as  *)
(* settled has it; from then on no copy may have the key unrevoked.  What  *)
(* could bring it back is a pending write, so the argument remembers what  *)
(* the pending writes carry: an edit is revoked if what it read was, and a *)
(* creation concerns a key that is in no copy.                             *)
(***************************************************************************)

\* Revoked, and confirmed or about to be.
Dead(k) ==
  \/ k \in told
  \/ \E a \in Admins :
       op[a].stage = "reset" /\ op[a].kind = "revoke" /\ op[a].key = k

Copies ==
  IF backend = "file" THEN {table, acked, Load(file)} \cup refused ELSE {table}
Settled == IF backend = "file" THEN acked ELSE table

RevokedIn(T, k) == k \in DOMAIN T => T[k].revoked
Gone(k) == \A T \in Copies : RevokedIn(T, k)

\* What one administrator's request may write.
PendingWrite(a) ==
  /\ op[a].stage \in Writing =>
       op[a].key \in DOMAIN table /\ table[op[a].key] = op[a].record
  /\ op[a].stage # "idle" /\ op[a].kind = "revoke" => op[a].record.revoked
  /\ op[a].stage = "write" /\ op[a].kind # "create" =>
       /\ op[a].key \in DOMAIN op[a].before
       /\ op[a].before[op[a].key].revoked => op[a].record.revoked
       /\ backend = "postgres" => op[a].key \in DOMAIN table

\* A creation waiting to be written concerns a key that nobody else knows.
PendingCreation(a) ==
  op[a].stage = "write" /\ op[a].kind = "create" =>
    /\ op[a].key \notin told
    /\ \A T \in Copies : op[a].key \notin DOMAIN T
    /\ \A b \in Admins \ {a} : op[b].stage # "idle" => op[b].key # op[a].key

DeadStayDead ==
  \A k \in Keys \ crossed :
    Dead(k) \/ (k \in DOMAIN Settled /\ Settled[k].revoked) => Gone(k)

RevocationInv ==
  /\ \A a \in Admins : PendingWrite(a) /\ PendingCreation(a)
  /\ DeadStayDead

-----------------------------------------------------------------------------
(***************************************************************************)
(* Buckets and batches                                                     *)
(***************************************************************************)

Admitted == [stage : {"admitted"}, key : Keys, plan : Plans, size : 1..MaxBatch]
Results == UNION {[1..n -> Nat] : n \in 1..MaxBatch}
Batches ==
  [stage : {"running", "answered"}, key : Keys, size : 1..MaxBatch,
   paid : 1..MaxBatch, next : Nat, work : SUBSET Nat, results : Results]

AccessTypes ==
  /\ clock \in Nat
  /\ shared \in BOOLEAN
  /\ DOMAIN buckets \subseteq Keys
  /\ \A k \in DOMAIN buckets :
       buckets[k].tokens \in Nat /\ buckets[k].last \in Nat
  /\ req \in [Requests -> {Waiting} \cup Admitted \cup Batches]
  /\ spent \in [Keys -> Nat]
  /\ opened \in [Keys -> [at : Nat, tokens : Nat, back : Nat]]

\* The items of a batch that were taken and are not at work are finished, once.
BatchInv(b) ==
  /\ b.paid = b.size /\ b.next \in 1..(b.size + 1)
  /\ b.work \subseteq 1..(b.next - 1)
  /\ b.results \in [1..b.size -> Nat]
  /\ \A i \in 1..b.size :
       b.results[i] = IF i < b.next /\ i \notin b.work THEN 1 ELSE 0
  /\ b.stage = "answered" => b.next > b.size /\ b.work = {}

BatchesInv == \A r \in Requests : req[r] \in Batches => BatchInv(req[r])

\* A key that was never charged, or was reset, has an empty account.
QuotaInv == QuotaKept /\ \A k \in Keys \ DOMAIN buckets : spent[k] = 0

\* By the time it was told, the bucket will hold what the request costs.
Enough(h) ==
  h.key \in DOMAIN buckets =>
    LET b == buckets[h.key]
    IN b.last < h.at /\ b.tokens + (h.at - b.last) * h.plan.refill >= h.cost
Hints == [at : Nat \ {0}, key : Keys, plan : Plans, cost : 1..MaxBatch]
HintInv ==
  \A r \in Requests :
    hint[r] = NoHint \/ (hint[r] \in Hints /\ Enough(hint[r]))

AccessInv == AccessTypes /\ BatchesInv /\ QuotaInv /\ HintInv

-----------------------------------------------------------------------------
(* Revocation: the steps of the key store                                    *)

LEMMA OpShape ==
  ASSUME StoreTypes, NEW a \in Admins, op[a].stage # "idle"
  PROVE  op[a] \in [stage : Stages \ {"idle"}, kind : {"create", "update", "revoke"},
                    key : Keys, record : Rec, before : Records]
BY DEF StoreTypes, OpRecords

\* A request that only moves on keeps its key, its kind and its record.
LEMMA Moved ==
  ASSUME StoreTypes, NEW a \in Admins, op[a].stage # "idle",
         NEW s \in Stages \ {"idle"}, GoTo(a, s)
  PROVE  /\ op'[a] = [op[a] EXCEPT !.stage = s] /\ op'[a].stage = s
         /\ op'[a].kind = op[a].kind /\ op'[a].key = op[a].key
         /\ op'[a].record = op[a].record /\ op'[a].before = op[a].before
         /\ \A b \in Admins \ {a} : op'[b] = op[b]
<1>1. op'[a] = [op[a] EXCEPT !.stage = s]
      /\ \A b \in Admins \ {a} : op'[b] = op[b]
  BY DEF GoTo, StoreTypes
<1> QED BY <1>1, OpShape

\* A request that ends, whether or not it was answered.
LEMMA Ended ==
  ASSUME StoreTypes, NEW a \in Admins, Done(a)
  PROVE  /\ op'[a].stage = "idle" /\ op'[a] = NoOp
         /\ \A b \in Admins \ {a} : op'[b] = op[b]
BY DEF StoreTypes, Done, NoOp

\* What another request wants to write is untouched by a step of a writer.
LEMMA OthersPending ==
  ASSUME RevocationInv, NEW b \in Admins, op'[b] = op[b], backend' = backend,
         backend = "postgres" => DOMAIN table \subseteq DOMAIN table',
         op[b].stage \in Writing => table' = table
  PROVE  PendingWrite(b)'
<1>1. PendingWrite(b)
  BY DEF RevocationInv
<1> QED BY <1>1 DEF PendingWrite

\* A creation still concerns a key that nobody else knows, when the copies and
\* the confirmations got no other key than that of another request.
LEMMA OthersCreation ==
  ASSUME RevocationInv, NEW a \in Admins, NEW b \in Admins \ {a},
         \A c \in Admins \ {a} : op'[c] = op[c],
         op'[a].stage # "idle" => op[a].stage # "idle" /\ op'[a].key = op[a].key,
         \A k \in told' \ told : op[a].stage # "idle" /\ k = op[a].key,
         \A T \in Copies' : \A k \in DOMAIN T :
           \/ \E S \in Copies : k \in DOMAIN S
           \/ op[a].stage # "idle" /\ k = op[a].key
  PROVE  PendingCreation(b)'
<1>1. PendingCreation(b)
  BY DEF RevocationInv
<1> SUFFICES ASSUME op[b].stage = "write", op[b].kind = "create"
             PROVE  PendingCreation(b)'
  BY DEF PendingCreation
<1>2. op'[b] = op[b]
  OBVIOUS
<1>3. /\ op[b].key \notin told
      /\ \A T \in Copies : op[b].key \notin DOMAIN T
      /\ \A c \in Admins \ {b} : op[c].stage # "idle" => op[c].key # op[b].key
  BY <1>1 DEF PendingCreation
<1>4. op[b].key \notin told'
  BY <1>3
<1>5. \A T \in Copies' : op[b].key \notin DOMAIN T
  BY <1>3
<1>6. \A c \in Admins \ {b} : op'[c].stage # "idle" => op'[c].key # op[b].key
  BY <1>3
<1> QED BY <1>2, <1>4, <1>5, <1>6 DEF PendingCreation

\* A request that begins reads under a free lock; one that goes straight to the
\* reset found its key revoked.
LEMMA BeginRevocation ==
  ASSUME StoreInv, RevocationInv, NEW a \in Admins, op[a].stage = "idle",
         NEW kind \in {"create", "update", "revoke"}, NEW k \in Keys,
         NEW record \in Rec, NEW stage \in {"write", "reset"},
         Begin(a, kind, k, record, stage),
         kind = "revoke" => record.revoked,
         kind = "create" =>
           /\ k \notin told /\ stage = "write"
           /\ \A T \in Copies : k \notin DOMAIN T
           /\ \A b \in Admins : op[b].stage # "idle" => op[b].key # k,
         kind # "create" =>
           k \in DOMAIN table /\ (table[k].revoked => record.revoked),
         stage = "reset" => table[k].revoked /\ lock = Nobody
  PROVE  RevocationInv'
<1>1. /\ UNCHANGED <<table, file, backend, acked, refused, told, crossed>>
      /\ op'[a].stage = stage /\ op'[a].kind = kind /\ op'[a].key = k
      /\ op'[a].record = record /\ op'[a].before = table
      /\ \A b \in Admins \ {a} : op'[b] = op[b]
  BY DEF Begin, StoreInv, StoreTypes
<1>2. Copies' = Copies /\ Settled' = Settled /\ table \in Copies
  BY <1>1 DEF Copies, Settled, Load
<1>3. PendingWrite(a)'
  BY <1>1 DEF PendingWrite, Writing
<1>4. PendingCreation(a)'
  BY <1>1, <1>2 DEF PendingCreation
<1>5. ASSUME NEW b \in Admins \ {a}
      PROVE  PendingWrite(b)' /\ PendingCreation(b)'
  <2>1. PendingWrite(b)'
    BY <1>1, OthersPending
  <2>2. PendingCreation(b) /\ op'[b] = op[b]
    BY <1>1 DEF RevocationInv
  <2>3. op[b].stage = "write" /\ op[b].kind = "create" => op[b].key # k
    <3>1. CASE kind = "create"
      BY <3>1
    <3>2. CASE kind # "create"
      BY <1>2, <2>2, <3>2 DEF PendingCreation
    <3> QED BY <3>1, <3>2
  <2>4. PendingCreation(b)'
    BY <1>1, <1>2, <2>2, <2>3 DEF PendingCreation
  <2> QED BY <2>1, <2>4
<1>6. DeadStayDead'
  <2> SUFFICES ASSUME NEW x \in Keys \ crossed,
                      Dead(x)' \/ (x \in DOMAIN Settled /\ Settled[x].revoked)
               PROVE  Gone(x)
    BY <1>1, <1>2 DEF DeadStayDead, Gone
  <2>1. CASE Dead(x) \/ (x \in DOMAIN Settled /\ Settled[x].revoked)
    BY <2>1 DEF RevocationInv, DeadStayDead
  <2>2. CASE Dead(x)' /\ ~Dead(x)
    <3>1. stage = "reset" /\ kind = "revoke" /\ x = k
      BY <1>1, <2>2 DEF Dead
    <3>2. table = Settled
      BY <3>1 DEF StoreInv, StoreTypes, RefusedLeavesNoTrace, Settled
    <3>3. x \in DOMAIN Settled /\ Settled[x].revoked
      BY <3>1, <3>2
    <3> QED BY <3>3 DEF RevocationInv, DeadStayDead
  <2> QED BY <2>1, <2>2
<1> QED BY <1>3, <1>4, <1>5, <1>6 DEF RevocationInv

LEMMA BeginningKeepsRevocation ==
  ASSUME StoreInv, RevocationInv, NEW a \in Admins,
         Create(a) \/ ReadForUpdate(a) \/ ReadForRevoke(a)
  PROVE  RevocationInv'
<1>0. table \in Records
  BY DEF StoreInv, StoreTypes
<1>1. CASE Create(a)
  <2>1. PICK k \in Keys, plan \in Plans, expires \in {Nil} \cup Expiries :
          /\ Unused(k)
          /\ Begin(a, "create", k,
                [plan |-> plan, expires |-> expires, revoked |-> FALSE], "write")
    BY <1>1 DEF Create
  <2>2. [plan |-> plan, expires |-> expires, revoked |-> FALSE] \in Rec
    BY DEF Rec
  <2>3. /\ k \notin told
        /\ \A T \in Copies : k \notin DOMAIN T
        /\ \A b \in Admins : op[b].stage # "idle" => op[b].key # k
    BY <2>1 DEF Unused, Copies
  <2> QED BY <1>1, <2>1, <2>2, <2>3, BeginRevocation DEF Create, MayBegin
<1>2. CASE ReadForUpdate(a)
  <2>1. PICK k \in DOMAIN table, plan \in Plans :
          \E expires \in {table[k].expires, Nil} \cup Expiries :
            Begin(a, "update", k, Edited(table[k], plan, expires), "write")
    BY <1>2 DEF ReadForUpdate
  <2>2. PICK expires \in {table[k].expires, Nil} \cup Expiries :
          Begin(a, "update", k, Edited(table[k], plan, expires), "write")
    BY <2>1
  <2>3. k \in Keys /\ table[k] \in Rec
    BY <1>0, RecordsType
  <2>4. Edited(table[k], plan, expires) \in Rec
        /\ Edited(table[k], plan, expires).revoked = table[k].revoked
    BY <2>3 DEF Edited, Rec
  <2> QED BY <1>2, <2>2, <2>3, <2>4, BeginRevocation DEF ReadForUpdate, MayBegin
<1>3. CASE ReadForRevoke(a)
  <2>1. PICK k \in DOMAIN table :
          Begin(a, "revoke", k, [table[k] EXCEPT !.revoked = TRUE],
                IF table[k].revoked THEN "reset" ELSE "write")
    BY <1>3 DEF ReadForRevoke
  <2>2. k \in Keys /\ table[k] \in Rec
    BY <1>0, RecordsType
  <2>3. [table[k] EXCEPT !.revoked = TRUE] \in Rec
        /\ [table[k] EXCEPT !.revoked = TRUE].revoked
    BY <2>2 DEF Rec
  <2>4. CASE table[k].revoked
    BY <1>3, <2>1, <2>2, <2>3, <2>4, BeginRevocation
       DEF ReadForRevoke, MayBegin, MayRead
  <2>5. CASE ~table[k].revoked
    BY <1>3, <2>1, <2>2, <2>3, <2>5, BeginRevocation DEF ReadForRevoke, MayBegin
  <2> QED BY <2>4, <2>5
<1> QED BY <1>1, <1>2, <1>3

\* A writer that goes on or gives up brings no new copy about: the file gets
\* the memory or nothing, the memory what was acknowledged.
LEMMA NoNewCopy ==
  ASSUME StoreInv, RevocationInv, NEW a \in Admins, op[a].stage \in Writing,
         \A b \in Admins \ {a} : op'[b] = op[b],
         \/ op'[a].stage = "idle" /\ table' = acked
         \/ /\ op'[a].stage \in Writing /\ table' = table
            /\ op'[a].kind = op[a].kind /\ op'[a].key = op[a].key
            /\ op'[a].record = op[a].record,
         file' \in {file, table, Missing},
         UNCHANGED <<backend, acked, refused, told, crossed>>
  PROVE  RevocationInv'
<1>1. /\ backend = "file"
      /\ \A b \in Admins \ {a} : op[b].stage \notin Writing
      /\ StoreTypes /\ table \in Records /\ table # Missing
  BY OneWriter, StoreAssumption DEF StoreInv, StoreTypes
<1>2. /\ Settled' = acked /\ Settled = acked
      /\ {table, acked, Load(file)} \subseteq Copies
      /\ \A T \in Copies' : T \in Copies \/ T = NoRecords
  BY <1>1 DEF Copies, Settled, Load
<1>3. DOMAIN NoRecords = {}
  BY DEF NoRecords
<1>4. PendingWrite(a)'
  <2>1. PendingWrite(a)
    BY DEF RevocationInv
  <2> QED BY <2>1 DEF PendingWrite, Writing
<1>5. PendingCreation(a)'
  BY DEF PendingCreation, Writing
<1>6. ASSUME NEW b \in Admins \ {a}
      PROVE  PendingWrite(b)' /\ PendingCreation(b)'
  <2>1. PendingWrite(b)'
    BY <1>1, OthersPending
  <2>2. op'[a].stage # "idle" => op[a].stage # "idle" /\ op'[a].key = op[a].key
    BY DEF Writing
  <2>3. PendingCreation(b)'
    BY <1>2, <1>3, <2>2, OthersCreation
  <2> QED BY <2>1, <2>3
<1>7. DeadStayDead'
  <2> SUFFICES ASSUME NEW k \in Keys \ crossed,
                      (Dead(k) \/ (k \in DOMAIN Settled /\ Settled[k].revoked))'
               PROVE  Gone(k)'
    BY DEF DeadStayDead
  <2>1. Dead(k) \/ (k \in DOMAIN Settled /\ Settled[k].revoked)
    BY <1>2 DEF Dead, Writing
  <2>2. Gone(k)
    BY <2>1 DEF RevocationInv, DeadStayDead
  <2> QED BY <1>2, <1>3, <2>2 DEF Gone, RevokedIn
<1> QED BY <1>4, <1>5, <1>6, <1>7 DEF RevocationInv

LEMMA RollBackKeepsRevocation ==
  ASSUME StoreInv, RevocationInv, NEW a \in Admins, op[a].stage \in Writing,
         RollBack(a), file' = file
  PROVE  RevocationInv'
<1>1. StoreTypes /\ op[a].before = acked
  BY OneWriter DEF StoreInv
<1>2. Done(a) /\ table' = acked
      /\ UNCHANGED <<backend, acked, refused, told, crossed>>
  BY <1>1 DEF RollBack
<1> QED BY <1>1, <1>2, Ended, NoNewCopy

LEMMA WriterGoesOnKeepsRevocation ==
  ASSUME StoreInv, RevocationInv, NEW a \in Admins, op[a].stage \in Writing,
         NEW s \in Writing, GoTo(a, s), file' \in {file, table, Missing},
         UNCHANGED <<table, backend, acked, refused, told, crossed>>
  PROVE  RevocationInv'
<1>1. StoreTypes /\ op[a].stage # "idle" /\ s \in Stages \ {"idle"}
  BY DEF StoreInv, Writing, Stages
<1> QED BY <1>1, Moved, NoNewCopy

LEMMA FilesKeepRevocation ==
  ASSUME StoreInv, RevocationInv, NEW a \in Admins,
         WriteTmp(a) \/ Rename(a) \/ RemoveFile(a) \/ RenameAgain(a)
  PROVE  RevocationInv'
<1>1. op[a].stage \in Writing
  BY DEF WriteTmp, Rename, RemoveFile, RenameAgain, Replace, At, Writing
<1>2. \A s \in {"rename", "remove", "retry", "chmod"} : s \in Writing
  BY DEF Writing
<1>3. CASE WriteTmp(a)
  BY <1>1, <1>2, <1>3, RollBackKeepsRevocation, WriterGoesOnKeepsRevocation
     DEF WriteTmp
<1>4. CASE Replace(a, "rename") \/ Replace(a, "retry")
  <2>1. tmp = table
    BY <1>4 DEF StoreInv, WriterHolds, Replace, At
  <2>2. GoTo(a, "chmod") /\ file' = table
        /\ UNCHANGED <<table, backend, acked, refused, told, crossed>>
    BY <1>4, <2>1 DEF Replace
  <2> QED BY <1>1, <1>2, <2>2, WriterGoesOnKeepsRevocation
<1>5. CASE Rename(a) /\ ~Replace(a, "rename")
  BY <1>1, <1>2, <1>5, WriterGoesOnKeepsRevocation DEF Rename
<1>6. CASE RemoveFile(a)
  <2>1. GoTo(a, "retry") /\ file' \in {file, table, Missing}
        /\ UNCHANGED <<table, backend, acked, refused, told, crossed>>
    BY <1>6 DEF RemoveFile
  <2> QED BY <1>1, <1>2, <2>1, WriterGoesOnKeepsRevocation
<1>7. CASE RenameAgain(a) /\ ~Replace(a, "retry")
  BY <1>1, <1>7, RollBackKeepsRevocation DEF RenameAgain
<1> QED BY <1>3, <1>4, <1>5, <1>6, <1>7

\* An edit that was not overtaken leaves a revoked key revoked.
LEMMA WrittenRevoked ==
  ASSUME StoreInv, RevocationInv, NEW a \in Admins, op[a].stage = "write",
         NEW k \in Keys, k \notin crossed', Crosses(a),
         op[a].kind # "create" => op[a].key \in DOMAIN table,
         table \in Copies, Gone(k), k = op[a].key, op[a].kind # "create"
  PROVE  op[a].record.revoked
<1>1. table[k].revoked
  BY DEF Gone, RevokedIn
<1>2. table[k] = op[a].before[k]
  BY DEF Crosses
<1>3. PendingWrite(a)
  BY DEF RevocationInv
<1> QED BY <1>1, <1>2, <1>3 DEF PendingWrite

\* A write that is done without being overtaken: no key that is revoked for
\* good comes back with it.
LEMMA PutKeepsGone ==
  ASSUME StoreInv, RevocationInv, NEW a \in Admins, op[a].stage = "write",
         Crosses(a), op[a].kind # "create" => op[a].key \in DOMAIN table,
         NEW k \in Keys, k \notin crossed',
         Dead(k) \/ (k \in DOMAIN Settled /\ Settled[k].revoked)
  PROVE  Gone(k) /\ RevokedIn(Put(table, op[a].key, op[a].record), k)
<1>1. k \notin crossed
  BY DEF Crosses
<1>2. Gone(k)
  BY <1>1 DEF RevocationInv, DeadStayDead
<1>3. table \in Copies /\ Settled \in Copies
  BY DEF Copies, Settled
<1> DEFINE new == Put(table, op[a].key, op[a].record)
<1>4. CASE k # op[a].key
  <2>1. k \in DOMAIN new => k \in DOMAIN table /\ new[k] = table[k]
    BY <1>4 DEF Put
  <2>2. RevokedIn(table, k)
    BY <1>2, <1>3 DEF Gone
  <2> HIDE DEF new
  <2>3. RevokedIn(new, k)
    BY <2>1, <2>2 DEF RevokedIn
  <2> QED BY <1>2, <2>3 DEF new
<1>5. CASE k = op[a].key
  <2>1. op[a].kind # "create"
    <3> SUFFICES ASSUME op[a].kind = "create" PROVE FALSE
      OBVIOUS
    <3>1. PendingCreation(a)
      BY DEF RevocationInv
    <3>2. /\ k \notin told /\ k \notin DOMAIN Settled
          /\ \A b \in Admins \ {a} : op[b].stage # "idle" => op[b].key # k
      BY <1>3, <1>5, <3>1 DEF PendingCreation
    <3> QED BY <1>5, <3>2 DEF Dead
  <2>2. op[a].record.revoked
    BY <1>2, <1>3, <1>5, <2>1, WrittenRevoked
  <2>3. new[k] = op[a].record
    BY <1>5 DEF Put
  <2> HIDE DEF new
  <2>4. RevokedIn(new, k)
    BY <2>2, <2>3 DEF RevokedIn
  <2> QED BY <1>2, <2>4 DEF new
<1> QED BY <1>4, <1>5

LEMMA TakeLockKeepsRevocation ==
  ASSUME StoreInv, RevocationInv, NEW a \in Admins, TakeLock(a)
  PROVE  RevocationInv'
<1> DEFINE key == op[a].key
           new == Put(table, key, op[a].record)
<1>1. StoreTypes
  BY DEF StoreInv
<1>2. /\ backend = "file" /\ op[a].stage = "write" /\ lock = Nobody
      /\ op[a].kind # "create" => key \in DOMAIN table
      /\ table' = new /\ refused' = refused \cup {new} /\ Crosses(a)
      /\ UNCHANGED <<file, backend, acked, told>>
  BY DEF TakeLock, At
<1>3. op[a] \in [stage : Stages \ {"idle"}, kind : {"create", "update", "revoke"},
                 key : Keys, record : Rec, before : Records]
  BY <1>1, <1>2, OpShape
<1>4. PICK o : o = [op[a] EXCEPT !.stage = "persist", !.before = table]
  OBVIOUS
<1>5. /\ o.stage = "persist" /\ o.kind = op[a].kind /\ o.key = key
      /\ o.record = op[a].record
  BY <1>3, <1>4
<1>6. op' = [op EXCEPT ![a] = o]
  BY <1>1, <1>4 DEF TakeLock, StoreTypes
<1>7. op'[a] = o /\ \A b \in Admins \ {a} : op'[b] = op[b]
  BY <1>1, <1>6 DEF StoreTypes
<1>8. \A b \in Admins : op[b].stage \notin Writing
  BY <1>2, StoreAssumption DEF StoreInv, WriterHolds
<1>9. /\ Settled' = acked /\ Settled = acked
      /\ {table, acked, Load(file)} \subseteq Copies
      /\ Copies' = {new, acked, Load(file)} \cup refused
      /\ refused \subseteq Copies
  BY <1>2 DEF Copies, Settled, Load
<1>10. DOMAIN new = DOMAIN table \cup {key} /\ new[key] = op[a].record
  BY DEF Put
<1> HIDE DEF new, key
<1>11. PendingWrite(a)'
  <2>1. PendingWrite(a)
    BY DEF RevocationInv
  <2>2. op'[a].stage = "persist" /\ op'[a].key \in DOMAIN table'
        /\ table'[op'[a].key] = op'[a].record
    BY <1>2, <1>5, <1>7, <1>10
  <2>3. op'[a].kind = "revoke" => op'[a].record.revoked
    BY <1>2, <1>5, <1>7, <2>1 DEF PendingWrite
  <2> QED BY <2>2, <2>3 DEF PendingWrite
<1>12. PendingCreation(a)'
  BY <1>5, <1>7 DEF PendingCreation
<1>13. ASSUME NEW b \in Admins \ {a}
       PROVE  PendingWrite(b)' /\ PendingCreation(b)'
  <2>1. PendingWrite(b)'
    BY <1>2, <1>7, <1>8, OthersPending
  <2>2. ASSUME NEW T \in Copies', NEW k \in DOMAIN T
        PROVE  (\E S \in Copies : k \in DOMAIN S) \/ k = op[a].key
    BY <1>9, <1>10, <2>2 DEF key
  <2>3. PendingCreation(b)'
    BY <1>2, <1>5, <1>7, <2>2, OthersCreation DEF key
  <2> QED BY <2>1, <2>3
<1>14. DeadStayDead'
  <2> SUFFICES ASSUME NEW k \in Keys \ crossed',
                      (Dead(k) \/ (k \in DOMAIN Settled /\ Settled[k].revoked))'
               PROVE  Gone(k)'
    BY DEF DeadStayDead
  <2>1. Dead(k) \/ (k \in DOMAIN Settled /\ Settled[k].revoked)
    BY <1>2, <1>5, <1>7, <1>9 DEF Dead
  <2>2. Gone(k) /\ RevokedIn(new, k)
    BY <1>2, <2>1, PutKeepsGone DEF new, key
  <2> QED BY <1>9, <2>2 DEF Gone, RevokedIn
<1> QED BY <1>11, <1>12, <1>13, <1>14 DEF RevocationInv

\* An acknowledged write leaves one copy, the one it wrote.
LEMMA ChmodKeepsRevocation ==
  ASSUME StoreInv, RevocationInv, NEW a \in Admins, Chmod(a)
  PROVE  RevocationInv'
<1>1. op[a].stage = "chmod" /\ op[a].stage \in Writing /\ StoreTypes
  BY DEF Chmod, At, Writing, StoreInv
<1>2. CASE /\ AfterWrite(a) /\ acked' = table /\ refused' = {}
           /\ UNCHANGED <<table, file, backend, told, crossed>>
  <2>1. /\ backend = "file" /\ file = table
        /\ \A b \in Admins \ {a} : op[b].stage \notin Writing
    BY <1>1, OneWriter DEF StoreInv, WriterHolds
  <2>2. Load(file') = table
    BY <1>1, <1>2, <2>1, LoadType DEF StoreTypes
  <2>3. Copies' = {table} /\ Settled' = table /\ table \in Copies
    BY <1>2, <2>1, <2>2 DEF Copies, Settled, Load
  <2>4. /\ op'[a].stage \in {"idle", "reset"}
        /\ op'[a].stage # "idle" =>
             op'[a].kind = op[a].kind /\ op'[a].key = op[a].key
             /\ op'[a].record = op[a].record
        /\ \A b \in Admins \ {a} : op'[b] = op[b]
    <3>1. CASE Done(a)
      BY <1>1, <3>1, Ended
    <3>2. CASE GoTo(a, "reset")
      <4>1. "reset" \in Stages \ {"idle"}
        BY DEF Stages
      <4> QED BY <1>1, <3>2, <4>1, Moved
    <3> QED BY <1>2, <3>1, <3>2 DEF AfterWrite
  <2>5. PendingWrite(a) /\ op[a].key \in DOMAIN table
        /\ table[op[a].key] = op[a].record
    BY <1>1 DEF RevocationInv, PendingWrite
  <2>6. PendingWrite(a)'
    BY <1>1, <2>4, <2>5 DEF PendingWrite, Writing
  <2>7. PendingCreation(a)'
    BY <2>4 DEF PendingCreation
  <2>8. ASSUME NEW b \in Admins \ {a}
        PROVE  PendingWrite(b)' /\ PendingCreation(b)'
    <3>1. PendingWrite(b)'
      BY <1>2, <2>1, <2>4, OthersPending
    <3>2. PendingCreation(b)'
      BY <1>1, <1>2, <2>3, <2>4, OthersCreation
    <3> QED BY <3>1, <3>2
  <2>9. DeadStayDead'
    <3> SUFFICES ASSUME NEW k \in Keys \ crossed, Dead(k)'
                 PROVE  RevokedIn(table, k)
      BY <1>2, <2>3 DEF DeadStayDead, Gone, RevokedIn
    <3>1. CASE Dead(k)
      BY <2>3, <3>1 DEF RevocationInv, DeadStayDead, Gone
    <3>2. CASE ~Dead(k)
      <4>1. k = op[a].key /\ op[a].kind = "revoke"
        BY <1>2, <2>4, <3>2 DEF Dead
      <4>2. op[a].record.revoked
        BY <1>1, <2>5, <4>1 DEF PendingWrite
      <4> QED BY <2>5, <4>1, <4>2 DEF RevokedIn
    <3> QED BY <3>1, <3>2
  <2> QED BY <2>6, <2>7, <2>8, <2>9 DEF RevocationInv
<1>3. CASE RollBack(a) /\ file' = file
  BY <1>1, <1>3, RollBackKeepsRevocation
<1> QED BY <1>2, <1>3 DEF Chmod

\* The row is the only copy of a record in the database.
LEMMA WriteRowKeepsRevocation ==
  ASSUME StoreInv, RevocationInv, NEW a \in Admins, WriteRow(a)
  PROVE  RevocationInv'
<1> DEFINE key == op[a].key
           new == Put(table, key, op[a].record)
<1>1. StoreTypes /\ PendingWrite(a)
  BY DEF StoreInv, RevocationInv
<1>2. /\ backend = "postgres" /\ op[a].stage = "write"
      /\ table' \in {table, new} /\ Crosses(a)
      /\ UNCHANGED <<backend, told>>
  BY DEF WriteRow, At
<1>3. op[a].kind # "create" => key \in DOMAIN table
  BY <1>1, <1>2 DEF PendingWrite
<1>4. Copies' = {table'} /\ Settled' = table' /\ Copies = {table} /\ Settled = table
  BY <1>2 DEF Copies, Settled
<1>5. DOMAIN new = DOMAIN table \cup {key} /\ new[key] = op[a].record
  BY DEF Put
<1>6. /\ op'[a].stage \in {"idle", "reset"}
      /\ op'[a].stage # "idle" =>
           /\ op'[a].kind = op[a].kind /\ op'[a].key = key
           /\ op'[a].record = op[a].record /\ table' = new
      /\ \A b \in Admins \ {a} : op'[b] = op[b]
  <2>1. CASE Done(a)
    BY <1>1, <2>1, Ended
  <2>2. CASE GoTo(a, "reset") /\ table' = new
    <3>1. "reset" \in Stages \ {"idle"}
      BY DEF Stages
    <3> QED BY <1>1, <1>2, <2>2, <3>1, Moved
  <2> QED BY <2>1, <2>2 DEF WriteRow, AfterWrite
<1> HIDE DEF new, key
<1>7. PendingWrite(a)'
  BY <1>1, <1>2, <1>6 DEF PendingWrite, Writing
<1>8. PendingCreation(a)'
  BY <1>6 DEF PendingCreation
<1>9. ASSUME NEW b \in Admins \ {a}
      PROVE  PendingWrite(b)' /\ PendingCreation(b)'
  <2>1. op[b].stage \notin Writing
    BY <1>2 DEF StoreInv, WriterHolds
  <2>2. PendingWrite(b)'
    BY <1>2, <1>5, <1>6, <2>1, OthersPending
  <2>3. ASSUME NEW T \in Copies', NEW k \in DOMAIN T
        PROVE  (\E S \in Copies : k \in DOMAIN S) \/ k = op[a].key
    BY <1>2, <1>4, <1>5, <2>3 DEF key
  <2>4. op'[a].stage # "idle" => op[a].stage # "idle" /\ op'[a].key = op[a].key
    BY <1>2, <1>6 DEF key
  <2>5. PendingCreation(b)'
    BY <1>2, <1>6, <2>3, <2>4, OthersCreation
  <2> QED BY <2>2, <2>5
<1>10. DeadStayDead'
  <2> SUFFICES ASSUME NEW k \in Keys \ crossed', Dead(k)'
               PROVE  RevokedIn(table', k)
    BY <1>4 DEF DeadStayDead, Gone, RevokedIn
  <2>1. CASE Dead(k)
    <3>1. Gone(k) /\ RevokedIn(new, k)
      BY <1>2, <1>3, <2>1, PutKeepsGone DEF new, key
    <3> QED BY <1>2, <1>4, <3>1 DEF Gone
  <2>2. CASE ~Dead(k)
    <3>1. k = key /\ op[a].kind = "revoke" /\ table' = new
      BY <1>2, <1>6, <2>2 DEF Dead
    <3>2. op[a].record.revoked
      BY <1>1, <1>2, <3>1 DEF PendingWrite
    <3> QED BY <1>5, <3>1, <3>2 DEF RevokedIn
  <2> QED BY <2>1, <2>2
<1> QED BY <1>7, <1>8, <1>9, <1>10 DEF RevocationInv

\* The confirmation adds nothing that was not about to be confirmed.
LEMMA ReplyKeepsRevocation ==
  ASSUME StoreInv, RevocationInv, NEW a \in Admins, NEW done \in BOOLEAN,
         Reply(a, done)
  PROVE  RevocationInv'
<1>1. /\ StoreTypes /\ op[a].stage = "reset" /\ Done(a)
      /\ told' \subseteq told \cup {op[a].key}
      /\ \A k \in told' \ told : k = op[a].key /\ op[a].kind = "revoke"
      /\ UNCHANGED <<table, file, backend, acked, refused, crossed>>
  BY DEF Reply, At, StoreInv
<1>2. op'[a].stage = "idle" /\ \A b \in Admins \ {a} : op'[b] = op[b]
  BY <1>1, Ended
<1>3. Copies' = Copies /\ Settled' = Settled
  BY <1>1 DEF Copies, Settled, Load
<1>4. PendingWrite(a)' /\ PendingCreation(a)'
  BY <1>2 DEF PendingWrite, PendingCreation, Writing
<1>5. ASSUME NEW b \in Admins \ {a}
      PROVE  PendingWrite(b)' /\ PendingCreation(b)'
  <2>1. PendingWrite(b)'
    BY <1>1, <1>2, OthersPending
  <2>2. PendingCreation(b)'
    BY <1>1, <1>2, <1>3, OthersCreation
  <2> QED BY <2>1, <2>2
<1>6. DeadStayDead'
  <2> SUFFICES ASSUME NEW k \in Keys \ crossed,
                      Dead(k)' \/ (k \in DOMAIN Settled /\ Settled[k].revoked)
               PROVE  Gone(k)
    BY <1>1, <1>3 DEF DeadStayDead, Gone
  <2>1. Dead(k) \/ (k \in DOMAIN Settled /\ Settled[k].revoked)
    BY <1>1, <1>2 DEF Dead
  <2> QED BY <2>1 DEF RevocationInv, DeadStayDead
<1> QED BY <1>4, <1>5, <1>6 DEF RevocationInv

\* A restart chooses one of the copies and forgets the pending writes.
LEMMA StoreCrashKeepsRevocation ==
  ASSUME StoreInv, RevocationInv, StoreCrash
  PROVE  RevocationInv'
<1>1. /\ table' = (IF backend = "file" THEN Load(file) ELSE table)
      /\ acked' = table' /\ refused' = {} /\ op' = [a \in Admins |-> NoOp]
      /\ UNCHANGED <<file, backend, told, crossed>>
  BY DEF StoreCrash
<1>2. table' \in Copies /\ Copies' = {table'} /\ Settled' = table'
  BY <1>1 DEF Copies, Settled, Load
<1>3. \A a \in Admins : op'[a].stage = "idle"
  BY <1>1 DEF NoOp
<1>4. \A a \in Admins : PendingWrite(a)' /\ PendingCreation(a)'
  BY <1>3 DEF PendingWrite, PendingCreation, Writing
<1>5. DeadStayDead'
  <2> SUFFICES ASSUME NEW k \in Keys \ crossed, Dead(k)'
               PROVE  RevokedIn(table', k)
    BY <1>1, <1>2 DEF DeadStayDead, Gone, RevokedIn
  <2>1. Dead(k)
    BY <1>1, <1>3 DEF Dead
  <2> QED BY <1>2, <2>1 DEF RevocationInv, DeadStayDead, Gone
<1> QED BY <1>4, <1>5 DEF RevocationInv

LEMMA RevocationUntouched ==
  ASSUME RevocationInv,
         UNCHANGED <<table, file, op, backend, acked, refused, told, crossed>>
  PROVE  RevocationInv'
<1>1. Copies' = Copies /\ Settled' = Settled
  BY DEF Copies, Settled, Load
<1>2. \A a \in Admins : PendingWrite(a)' /\ PendingCreation(a)'
  BY <1>1 DEF RevocationInv, PendingWrite, PendingCreation
<1>3. DeadStayDead'
  BY <1>1 DEF RevocationInv, DeadStayDead, Dead, Gone
<1> QED BY <1>2, <1>3 DEF RevocationInv

LEMMA RevocationInitially == Init => RevocationInv
<1> SUFFICES ASSUME StoreInit PROVE RevocationInv
  BY DEF Init
<1>1. \A a \in Admins : op[a].stage = "idle"
  BY DEF StoreInit, NoOp
<1>2. \A a \in Admins : PendingWrite(a) /\ PendingCreation(a)
  BY <1>1 DEF PendingWrite, PendingCreation, Writing
<1>3. \A k \in Keys : ~Dead(k)
  BY <1>1 DEF StoreInit, Dead
<1>4. Settled = table /\ \A T \in Copies : T = table \/ T = NoRecords
  BY DEF StoreInit, Settled, Copies, Load
<1>5. DeadStayDead
  BY <1>3, <1>4 DEF DeadStayDead, Gone, RevokedIn, NoRecords
<1> QED BY <1>2, <1>5 DEF RevocationInv

LEMMA RevocationStep == StoreInv /\ RevocationInv /\ [Next]_vars => RevocationInv'
<1> SUFFICES ASSUME StoreInv, RevocationInv, [Next]_vars PROVE RevocationInv'
  OBVIOUS
<1>1. ASSUME NEW a \in Admins, Administer(a) PROVE RevocationInv'
  BY <1>1, BeginningKeepsRevocation, TakeLockKeepsRevocation,
     FilesKeepRevocation, ChmodKeepsRevocation, WriteRowKeepsRevocation
     DEF Administer, StoreStep
<1>2. ASSUME NEW a \in Admins, ResetBucket(a) PROVE RevocationInv'
  BY <1>2, ReplyKeepsRevocation DEF ResetBucket
<1>3. ASSUME NEW r \in Requests, Train(r) PROVE RevocationInv'
  <2>1. UNCHANGED storeVars
    BY <1>3 DEF Train, Authenticate, TurnAway, Charge, TakeItem, FinishItem,
       Collect, Respond
  <2> QED BY <2>1, RevocationUntouched DEF storeVars
<1>4. CASE Expire
  BY <1>4, RevocationUntouched DEF Expire, storeVars
<1>5. CASE Crash
  BY <1>5, StoreCrashKeepsRevocation DEF Crash
<1>6. CASE Tick
  BY <1>6, RevocationUntouched DEF Tick
<1>7. CASE UNCHANGED vars
  BY <1>7, RevocationUntouched DEF vars, storeVars
<1> QED BY <1>1, <1>2, <1>3, <1>4, <1>5, <1>6, <1>7 DEF Next

\* A key whose revocation was confirmed stays revoked through edits, further
\* revocations, failing writes and restarts, unless an administrator wrote over
\* a record that had changed since he read it (access.go, KeyManager.Revoke).
THEOREM RevocationLasts == Spec => []RevocationHolds
<1>1. StoreInv /\ RevocationInv => RevocationHolds
  <2> SUFFICES ASSUME StoreInv, RevocationInv,
                      NEW k \in told \cap DOMAIN table, k \notin crossed
               PROVE  table[k].revoked
    BY DEF RevocationHolds
  <2>1. k \in Keys
    BY RecordsType DEF StoreInv, StoreTypes
  <2>2. Gone(k)
    BY <2>1 DEF RevocationInv, DeadStayDead, Dead
  <2>3. table \in Copies
    BY DEF Copies
  <2> QED BY <2>2, <2>3 DEF Gone, RevokedIn
<1> QED BY <1>1, Initially, StepKeeps, RevocationInitially, RevocationStep,
           PTL DEF Spec

-----------------------------------------------------------------------------
(* Arithmetic of the token bucket                                            *)

LEMMA ProductType ==
  ASSUME NEW x \in Nat, NEW y \in Nat
  PROVE  x * y \in Nat
OBVIOUS

LEMMA ProductGrows ==
  ASSUME NEW x \in Nat, NEW y \in Nat, NEW z \in Nat, x <= y
  PROVE  x * z <= y * z /\ z * x <= z * y
<1>1. PICK d \in Nat : y = x + d
  OBVIOUS
<1>2. d * z \in Nat
  BY ProductType
<1>3. y * z = x * z + d * z
  BY <1>1
<1> QED BY <1>2, <1>3

LEMMA Distributes ==
  ASSUME NEW x \in Int, NEW y \in Int, NEW z \in Int
  PROVE  (x + y) * z = x * z + y * z
OBVIOUS

\* The division that computes a retry time rounds up.
LEMMA DivisionRoundsUp ==
  ASSUME NEW m \in Nat, NEW d \in Nat \ {0}
  PROVE  /\ (m + d - 1) \div d \in Nat
         /\ ((m + d - 1) \div d) * d >= m
OBVIOUS

\* A finite set of numbers has a greatest one: among the sets of numbers above
\* some member, an empty one is the least.
LEMMA MaxOfFinite ==
  ASSUME NEW S \in SUBSET Int, IsFiniteSet(S), S # {}
  PROVE  Max(S) \in S /\ \A y \in S : y <= Max(S)
<1> DEFINE Above(x) == {y \in S : y > x}
           Tops == {Above(x) : x \in S}
<1>1. IsWellFoundedOn(StrictSubsetOrdering(S), SUBSET S)
  BY FS_StrictSubsetOrderingWellFounded, FS_FiniteSubsetsOfFinite
<1>2. Tops \subseteq SUBSET S /\ Tops # {}
  OBVIOUS
<1>3. \E t \in Tops : \A u \in Tops : ~(<<u, t>> \in StrictSubsetOrdering(S))
  BY <1>1, <1>2, WFMin
<1>4. PICK x \in S : \A u \in Tops : ~(<<u, Above(x)>> \in StrictSubsetOrdering(S))
  BY <1>3
<1>5. \A y \in S : x >= y
  <2> SUFFICES ASSUME NEW y \in S, y > x
               PROVE  FALSE
    OBVIOUS
  <2>1. x \in Int /\ y \in Int /\ \A z \in S : z \in Int
    OBVIOUS
  <2>2. y \in Above(x) /\ y \notin Above(y)
    BY <2>1
  <2>3. \A z \in S : z > y => z > x
    BY <2>1
  <2>4. Above(y) \subseteq Above(x)
    BY <2>3
  <2>5. Above(y) # Above(x)
    BY <2>2
  <2>6. <<Above(y), Above(x)>> \in StrictSubsetOrdering(S)
    BY <2>4, <2>5 DEF StrictSubsetOrdering
  <2> QED BY <1>4, <2>6
<1>6. Max(S) \in S /\ \A y \in S : Max(S) >= y
  BY <1>5 DEF Max
<1> QED BY <1>6

LEMMA FastestIsFastest ==
  ASSUME NEW p \in Plans
  PROVE  /\ FastestRefill \in Nat
         /\ p.refill <= FastestRefill
<1> DEFINE refills == {q.refill : q \in Plans}
<1>1. refills \subseteq Nat /\ refills \in SUBSET Int /\ refills # {}
  BY StoreAssumption
<1>2. IsFiniteSet(refills)
  <2>1. IsFiniteSet(Plans)
    BY StoreAssumption
  <2> DEFINE f == [q \in Plans |-> q.refill]
  <2>2. f \in Surjection(Plans, refills)
    BY DEF Surjection
  <2> QED BY <2>1, <2>2, FS_Surjection
<1>3. Max(refills) \in refills /\ \A y \in refills : y <= Max(refills)
  BY <1>1, <1>2, MaxOfFinite
<1> QED BY <1>1, <1>3 DEF FastestRefill

-----------------------------------------------------------------------------
(* Training requests                                                         *)

LEMMA RequestShape ==
  ASSUME AccessTypes, NEW r \in Requests
  PROVE  /\ req[r].stage = "admitted" => req[r] \in Admitted
         /\ req[r].stage \in {"running", "answered"} => req[r] \in Batches
BY DEF AccessTypes, Waiting, Admitted, Batches

\* A step of one request that charges nothing.
LEMMA RequestStep ==
  ASSUME AccessInv, NEW r \in Requests,
         NEW m \in {Waiting} \cup Admitted \cup Batches,
         m \in Batches => BatchInv(m), req' = [req EXCEPT ![r] = m],
         UNCHANGED <<clock, shared, buckets, hint, spent, opened>>
  PROVE  AccessInv'
<1>1. AccessTypes'
  BY DEF AccessInv, AccessTypes
<1>2. BatchesInv'
  <2>1. req'[r] = m /\ \A x \in Requests \ {r} : req'[x] = req[x]
    BY DEF AccessInv, AccessTypes
  <2>2. ASSUME NEW x \in Requests, req'[x] \in Batches
        PROVE  BatchInv(req'[x])
    BY <2>1, <2>2 DEF AccessInv, BatchesInv
  <2> QED BY <2>2 DEF BatchesInv, BatchInv
<1>3. QuotaInv'
  BY DEF AccessInv, QuotaInv, QuotaKept
<1>4. HintInv'
  BY DEF AccessInv, HintInv, Enough
<1> QED BY <1>1, <1>2, <1>3, <1>4 DEF AccessInv

LEMMA NoBatch ==
  /\ Waiting \notin Batches
  /\ \A m \in Admitted : m \notin Batches
BY DEF Waiting, Admitted, Batches

LEMMA AuthenticateKeeps ==
  ASSUME StoreInv, AccessInv, NEW r \in Requests, Authenticate(r)
  PROVE  AccessInv'
<1>1. PICK k \in DOMAIN table, size \in 1..MaxBatch :
        req' = [req EXCEPT ![r] = [stage |-> "admitted", key |-> k,
                                   plan |-> table[k].plan, size |-> size]]
  BY DEF Authenticate
<1>2. k \in Keys /\ table[k] \in Rec
  BY RecordsType DEF StoreInv, StoreTypes
<1>3. [stage |-> "admitted", key |-> k, plan |-> table[k].plan, size |-> size]
        \in Admitted
  BY <1>2 DEF Rec, Admitted
<1> QED BY <1>1, <1>3, NoBatch, RequestStep DEF Authenticate, storeVars

LEMMA DismissKeeps ==
  ASSUME AccessInv, NEW r \in Requests, TurnAway(r) \/ Respond(r)
  PROVE  AccessInv'
BY NoBatch, RequestStep DEF TurnAway, Respond, storeVars

\* A worker takes the next item: it is at work, and no item is skipped.
LEMMA TakeItemKeeps ==
  ASSUME AccessInv, NEW r \in Requests, TakeItem(r)
  PROVE  AccessInv'
<1> DEFINE b == req[r]
<1>1. b \in Batches /\ BatchInv(b) /\ b.stage = "running" /\ b.next <= b.size
  BY RequestShape DEF TakeItem, AccessInv, BatchesInv
<1>2. PICK m : m = [b EXCEPT !.work = @ \cup {b.next}, !.next = @ + 1]
  OBVIOUS
<1>3. req' = [req EXCEPT ![r] = m]
  BY <1>2 DEF TakeItem, AccessInv, AccessTypes
<1>4. b.next \in Nat /\ b.size \in Nat /\ b.next >= 1 /\ b.work \in SUBSET Nat
  BY <1>1 DEF Batches, BatchInv
<1> HIDE DEF b
<1>5. m = [stage |-> b.stage, key |-> b.key, size |-> b.size, paid |-> b.paid,
           next |-> b.next + 1, work |-> b.work \cup {b.next},
           results |-> b.results]
  BY <1>1, <1>2 DEF Batches
<1>6. m \in Batches
  BY <1>1, <1>4, <1>5 DEF Batches
<1>7. BatchInv(m)
  <2>1. m.paid = m.size /\ m.next \in 1..(m.size + 1)
        /\ m.results \in [1..m.size -> Nat]
    BY <1>1, <1>4, <1>5 DEF BatchInv
  <2>2. m.work \subseteq 1..(m.next - 1)
    BY <1>1, <1>4, <1>5 DEF BatchInv
  <2>3. \A i \in 1..m.size :
          m.results[i] = IF i < m.next /\ i \notin m.work THEN 1 ELSE 0
    BY <1>1, <1>4, <1>5 DEF BatchInv
  <2> QED BY <1>1, <1>5, <2>1, <2>2, <2>3 DEF BatchInv
<1> QED BY <1>3, <1>6, <1>7, RequestStep DEF TakeItem, storeVars

\* ... and counts its item once, whatever the other workers do meanwhile.
LEMMA FinishItemKeeps ==
  ASSUME AccessInv, NEW r \in Requests, FinishItem(r)
  PROVE  AccessInv'
<1> DEFINE b == req[r]
<1>1. b \in Batches /\ BatchInv(b) /\ b.stage = "running"
  BY RequestShape DEF FinishItem, AccessInv, BatchesInv
<1>2. PICK i \in b.work :
        req' = [req EXCEPT ![r].results[i] = @ + 1, ![r].work = @ \ {i}]
  BY DEF FinishItem
<1>3. PICK m : m = [b EXCEPT !.results[i] = @ + 1, !.work = @ \ {i}]
  OBVIOUS
<1>4. req' = [req EXCEPT ![r] = m]
  BY <1>2, <1>3 DEF AccessInv, AccessTypes
<1>5. /\ b.next \in 1..(b.size + 1) /\ b.size \in 1..MaxBatch
      /\ b.work \subseteq 1..(b.next - 1) /\ b.results \in [1..b.size -> Nat]
      /\ b.work \in SUBSET Nat /\ MaxBatch \in Nat
  BY <1>1, AccessAssumption DEF Batches, BatchInv
<1>6. i \in 1..b.size /\ i < b.next
  BY <1>5
<1> HIDE DEF b
<1>7. m = [stage |-> b.stage, key |-> b.key, size |-> b.size, paid |-> b.paid,
           next |-> b.next, work |-> b.work \ {i},
           results |-> [b.results EXCEPT ![i] = @ + 1]]
  BY <1>1, <1>3 DEF Batches
<1> DEFINE results == [b.results EXCEPT ![i] = @ + 1]
<1>8. results \in [1..b.size -> Nat] /\ results[i] = b.results[i] + 1
      /\ \A j \in 1..b.size : j # i => results[j] = b.results[j]
  BY <1>5, <1>6
<1> HIDE DEF results
<1>9. results \in Results
  BY <1>5, <1>8 DEF Results
<1>10. m \in Batches
  BY <1>1, <1>5, <1>7, <1>9 DEF Batches, results
<1>11. BatchInv(m)
  <2>1. \A j \in 1..m.size :
          m.results[j] = IF j < m.next /\ j \notin m.work THEN 1 ELSE 0
    BY <1>1, <1>2, <1>5, <1>6, <1>7, <1>8 DEF BatchInv, results
  <2> QED BY <1>1, <1>5, <1>7, <1>8, <2>1 DEF BatchInv, results
<1> QED BY <1>4, <1>10, <1>11, RequestStep DEF FinishItem, storeVars

LEMMA CollectKeeps ==
  ASSUME AccessInv, NEW r \in Requests, Collect(r)
  PROVE  AccessInv'
<1> DEFINE b == req[r]
<1>1. b \in Batches /\ BatchInv(b) /\ b.next > b.size /\ b.work = {}
  BY RequestShape DEF Collect, AccessInv, BatchesInv, AllDone
<1>2. PICK m : m = [b EXCEPT !.stage = "answered"]
  OBVIOUS
<1>3. req' = [req EXCEPT ![r] = m]
  BY <1>2 DEF Collect, AccessInv, AccessTypes
<1> HIDE DEF b
<1>4. m = [stage |-> "answered", key |-> b.key, size |-> b.size, paid |-> b.paid,
           next |-> b.next, work |-> b.work, results |-> b.results]
  BY <1>1, <1>2 DEF Batches
<1>5. m \in Batches /\ BatchInv(m)
  BY <1>1, <1>4 DEF Batches, BatchInv
<1> QED BY <1>3, <1>5, RequestStep DEF Collect, storeVars

-----------------------------------------------------------------------------
(* The token buckets                                                         *)

\* A dropped bucket closes its account; a retry time only becomes generous.
LEMMA DropKeeps ==
  ASSUME AccessInv, NEW gone \in SUBSET Keys, Drop(gone), CloseAccounts(gone),
         UNCHANGED <<clock, shared>>,
         \/ UNCHANGED <<req, hint>>
         \/ /\ req' = [r \in Requests |-> Waiting]
            /\ hint' = [r \in Requests |-> NoHint]
  PROVE  AccessInv'
<1>1. /\ DOMAIN buckets' = DOMAIN buckets \ gone
      /\ \A k \in DOMAIN buckets' : buckets'[k] = buckets[k]
  BY DEF Drop
<1>2. \A k \in Keys :
        /\ spent'[k] = IF k \in gone THEN 0 ELSE spent[k]
        /\ opened'[k] = IF k \in gone THEN Closed ELSE opened[k]
  BY DEF CloseAccounts
<1>3. AccessTypes'
  <2>1. spent' \in [Keys -> Nat]
    BY DEF CloseAccounts, AccessInv, AccessTypes
  <2>2. Closed \in [at : Nat, tokens : Nat, back : Nat]
    BY DEF Closed
  <2>3. opened' \in [Keys -> [at : Nat, tokens : Nat, back : Nat]]
    BY <2>2 DEF CloseAccounts, AccessInv, AccessTypes
  <2>4. req' \in [Requests -> {Waiting} \cup Admitted \cup Batches]
    BY DEF AccessInv, AccessTypes
  <2> QED BY <1>1, <2>1, <2>3, <2>4 DEF AccessInv, AccessTypes
<1>4. BatchesInv'
  BY NoBatch DEF AccessInv, BatchesInv, BatchInv
<1>5. QuotaInv'
  <2>1. DOMAIN buckets \subseteq Keys
    BY DEF AccessInv, AccessTypes
  <2>2. QuotaKept'
    BY <1>1, <1>2, <2>1 DEF AccessInv, QuotaInv, QuotaKept
  <2>3. \A k \in Keys \ DOMAIN buckets' : spent'[k] = 0
    BY <1>1, <1>2 DEF AccessInv, QuotaInv
  <2> QED BY <2>2, <2>3 DEF QuotaInv
<1>6. HintInv'
  <2> SUFFICES ASSUME NEW r \in Requests, hint'[r] # NoHint
               PROVE  (hint[r] \in Hints /\ Enough(hint[r]))'
    BY DEF HintInv
  <2>1. hint'[r] = hint[r]
    OBVIOUS
  <2>2. hint[r] \in Hints /\ Enough(hint[r])
    BY <2>1 DEF AccessInv, HintInv
  <2> QED BY <1>1, <2>1, <2>2 DEF Enough
<1> QED BY <1>3, <1>4, <1>5, <1>6 DEF AccessInv

\* The requests of a process end with it.
LEMMA RequestsForgotten ==
  ASSUME AccessInv, UNCHANGED <<clock, shared, buckets, spent, opened>>,
         req' = [r \in Requests |-> Waiting], hint' = [r \in Requests |-> NoHint]
  PROVE  AccessInv'
<1>1. AccessTypes'
  BY DEF AccessInv, AccessTypes
<1>2. BatchesInv'
  BY NoBatch DEF BatchesInv
<1>3. QuotaInv'
  BY DEF AccessInv, QuotaInv, QuotaKept
<1>4. HintInv'
  BY DEF HintInv
<1> QED BY <1>1, <1>2, <1>3, <1>4 DEF AccessInv

LEMMA AccessUntouched ==
  ASSUME AccessInv, UNCHANGED accessVars, clock' \in Nat
  PROVE  AccessInv'
<1>1. AccessTypes'
  BY DEF AccessInv, AccessTypes, accessVars
<1>2. BatchesInv'
  BY DEF AccessInv, BatchesInv, BatchInv, accessVars
<1>3. QuotaInv'
  BY DEF AccessInv, QuotaInv, QuotaKept, accessVars
<1>4. HintInv'
  BY DEF AccessInv, HintInv, Enough, accessVars
<1> QED BY <1>1, <1>2, <1>3, <1>4 DEF AccessInv

LEMMA FilledType ==
  ASSUME AccessTypes, NEW k \in Keys, NEW plan \in Plans, NEW now \in Nat
  PROVE  Filled(k, plan, now) \in Nat
<1>1. plan.capacity \in Nat /\ plan.refill \in Nat
  BY StoreAssumption
<1>2. CASE k \in DOMAIN buckets
  <2>1. buckets[k].tokens \in Nat /\ buckets[k].last \in Nat
    BY <1>2 DEF AccessTypes
  <2>2. Most(0, now - buckets[k].last) \in Nat
    BY <2>1 DEF Most
  <2>3. Most(0, now - buckets[k].last) * plan.refill \in Nat
    BY <1>1, <2>2, ProductType
  <2> QED BY <1>1, <1>2, <2>1, <2>3 DEF Filled, Least
<1> QED BY <1>1, <1>2 DEF Filled

\* Filling a bucket adds no more than the fastest plan brings in that time.
LEMMA FilledBound ==
  ASSUME AccessTypes, NEW k \in DOMAIN buckets, NEW plan \in Plans, NEW now \in Nat
  PROVE  Filled(k, plan, now)
           <= buckets[k].tokens + Most(0, now - buckets[k].last) * FastestRefill
<1> DEFINE d == Most(0, now - buckets[k].last)
<1>1. /\ plan.capacity \in Nat /\ plan.refill \in Nat
      /\ buckets[k].tokens \in Nat /\ buckets[k].last \in Nat
  BY StoreAssumption DEF AccessTypes
<1>2. d \in Nat
  BY <1>1 DEF Most
<1>3. FastestRefill \in Nat /\ plan.refill <= FastestRefill
  BY FastestIsFastest
<1> HIDE DEF d
<1>4. d * plan.refill <= d * FastestRefill
  BY <1>1, <1>2, <1>3, ProductGrows
<1>5. d * plan.refill \in Nat /\ d * FastestRefill \in Nat
  BY <1>1, <1>2, <1>3, ProductType
<1>6. Filled(k, plan, now) = Least(plan.capacity, buckets[k].tokens + d * plan.refill)
  BY DEF Filled, d
<1>7. Filled(k, plan, now) <= buckets[k].tokens + d * plan.refill
  BY <1>1, <1>5, <1>6 DEF Least
<1>8. Filled(k, plan, now) <= buckets[k].tokens + d * FastestRefill
  <2>1. Filled(k, plan, now) \in Nat
    BY <1>1, <1>5, <1>6 DEF Least
  <2> QED BY <1>1, <1>4, <1>5, <1>7, <2>1
<1> QED BY <1>8 DEF d

\* The wait that a refusal names brings the missing tokens.
LEMMA WaitBringsCost ==
  ASSUME NEW tokens \in Nat, NEW cost \in Nat, tokens < cost,
         NEW refill \in Nat \ {0}, NEW now \in Nat
  PROVE  /\ now + RetryAfter(-(tokens - cost), refill) \in Nat
         /\ now < now + RetryAfter(-(tokens - cost), refill)
         /\ tokens + ((now + RetryAfter(-(tokens - cost), refill)) - now) * refill
              >= cost
<1> DEFINE missing == -(tokens - cost)
           wait == RetryAfter(missing, refill)
           quotient == (missing + refill - 1) \div refill
<1>1. missing \in Nat /\ missing = cost - tokens
  OBVIOUS
<1>2. quotient \in Nat /\ quotient * refill >= missing
  BY <1>1, DivisionRoundsUp
<1>3. wait = Most(1, quotient)
  BY DEF RetryAfter
<1> HIDE DEF missing, quotient, wait
<1>4. wait \in Nat /\ wait >= 1 /\ quotient <= wait
  BY <1>2, <1>3 DEF Most
<1>5. quotient * refill <= wait * refill
  BY <1>2, <1>4, ProductGrows
<1>6. wait * refill >= missing
  BY <1>1, <1>2, <1>4, <1>5, ProductType
<1>7. (now + wait) - now = wait /\ wait * refill \in Nat
  BY <1>4, ProductType
<1>8. tokens + ((now + wait) - now) * refill >= cost
  BY <1>1, <1>6, <1>7
<1>9. now + wait \in Nat /\ now < now + wait
  BY <1>4
<1> QED BY <1>8, <1>9 DEF wait, missing

\* A charge, admitted or refused, keeps every account and every promise.
LEMMA ChargeKeeps ==
  ASSUME StoreInv, AccessInv, NEW r \in Requests, Charge(r)
  PROVE  AccessInv'
<1> DEFINE k == req[r].key
           plan == req[r].plan
           cost == req[r].size
<1>1. req[r] \in Admitted
  BY RequestShape DEF Charge, AccessInv
<1>2. /\ k \in Keys /\ plan \in Plans /\ cost \in 1..MaxBatch /\ cost \in Nat
      /\ plan.capacity \in Nat /\ plan.refill \in Nat \ {0} /\ MaxBatch \in Nat
  BY <1>1, StoreAssumption, AccessAssumption DEF Admitted
<1>3. PICK skew \in Offsets :
        LET now == clock + skew
            tokens == Filled(k, plan, now)
            left == tokens - cost
        IN /\ SetBucket(k, left, cost, now, plan)
           /\ opened' =
                IF k \in DOMAIN buckets
                THEN [opened EXCEPT ![k].back = @ + Most(0, buckets[k].last - now)]
                ELSE [opened EXCEPT ![k] = [at |-> now, tokens |-> plan.capacity,
                                            back |-> 0]]
           /\ \/ /\ left >= 0
                 /\ req' = [req EXCEPT ![r] =
                              [stage |-> "running", key |-> k, size |-> cost,
                               paid |-> cost, next |-> 1, work |-> {},
                               results |-> [i \in 1..cost |-> 0]]]
                 /\ spent' = [spent EXCEPT ![k] = @ + cost]
                 /\ KeepHints(r, k, NoHint)
              \/ /\ left < 0
                 /\ req' = [req EXCEPT ![r] = Waiting]
                 /\ KeepHints(r, k,
                      [at |-> now + RetryAfter(-left, plan.refill),
                       key |-> k, plan |-> plan, cost |-> cost])
                 /\ UNCHANGED spent
  BY DEF Charge
<1> DEFINE now == clock + skew
           tokens == Filled(k, plan, now)
           left == tokens - cost
           held == IF left < 0 THEN left + cost ELSE left
           paid == IF left < 0 THEN 0 ELSE cost
           batch == [stage |-> "running", key |-> k, size |-> cost,
                     paid |-> cost, next |-> 1, work |-> {},
                     results |-> [i \in 1..cost |-> 0]]
           promise == [at |-> now + RetryAfter(-left, plan.refill),
                       key |-> k, plan |-> plan, cost |-> cost]
<1>4. UNCHANGED <<clock, shared>>
  BY DEF Charge, storeVars
<1>5. /\ DOMAIN buckets' = DOMAIN buckets \cup {k}
      /\ buckets'[k].tokens = held /\ buckets'[k].last = now
      /\ \A x \in DOMAIN buckets : x # k => buckets'[x] = buckets[x]
  BY <1>3 DEF SetBucket, BucketTime
<1>6. opened' = IF k \in DOMAIN buckets
                THEN [opened EXCEPT ![k].back = @ + Most(0, buckets[k].last - now)]
                ELSE [opened EXCEPT ![k] = [at |-> now, tokens |-> plan.capacity,
                                            back |-> 0]]
  BY <1>3
<1>7. \/ /\ left >= 0 /\ req' = [req EXCEPT ![r] = batch]
         /\ spent' = [spent EXCEPT ![k] = @ + cost] /\ KeepHints(r, k, NoHint)
      \/ /\ left < 0 /\ req' = [req EXCEPT ![r] = Waiting]
         /\ UNCHANGED spent /\ KeepHints(r, k, promise)
  BY <1>3
<1>8. now \in Nat
  BY <1>3, AccessAssumption DEF AccessInv, AccessTypes, Offsets
<1> HIDE DEF now
<1>9. tokens \in Nat
  BY <1>2, <1>8, FilledType DEF AccessInv
<1> HIDE DEF tokens, k, plan, cost
<1>10. held \in Nat /\ paid \in Nat /\ held + paid = tokens
  BY <1>2, <1>9
<1> HIDE DEF held
<1>11. spent' = [spent EXCEPT ![k] = @ + paid]
  <2>1. CASE left >= 0
    BY <1>2, <1>7, <1>9, <2>1
  <2>2. CASE left < 0
    <3>1. spent' = spent /\ spent[k] + 0 = spent[k] /\ spent \in [Keys -> Nat]
      BY <1>2, <1>7, <1>9, <2>2 DEF AccessInv, AccessTypes
    <3> QED BY <2>2, <3>1
  <2> QED BY <1>2, <1>9, <2>1, <2>2
<1> HIDE DEF paid
<1>12. spent' \in [Keys -> Nat] /\ spent'[k] = spent[k] + paid
       /\ \A x \in Keys : x # k => spent'[x] = spent[x]
  BY <1>2, <1>10, <1>11 DEF AccessInv, AccessTypes
<1>13. \A x \in Keys : opened[x] \in [at : Nat, tokens : Nat, back : Nat]
  BY DEF AccessInv, AccessTypes
<1>14. /\ k \in DOMAIN buckets =>
            /\ opened'[k].at = opened[k].at /\ opened'[k].tokens = opened[k].tokens
            /\ opened'[k].back = opened[k].back + Most(0, buckets[k].last - now)
       /\ k \notin DOMAIN buckets =>
            /\ opened'[k].at = now /\ opened'[k].tokens = plan.capacity
            /\ opened'[k].back = 0
       /\ \A x \in Keys : x # k => opened'[x] = opened[x]
  BY <1>2, <1>6, <1>13 DEF AccessInv, AccessTypes
<1>15. opened' \in [Keys -> [at : Nat, tokens : Nat, back : Nat]]
  <2>1. CASE k \in DOMAIN buckets
    <3>1. buckets[k].last \in Nat /\ opened[k].back \in Nat
      BY <1>2, <1>13, <2>1 DEF AccessInv, AccessTypes
    <3>2. opened[k].back + Most(0, buckets[k].last - now) \in Nat
      BY <1>8, <3>1 DEF Most
    <3>3. PICK o : o = [opened[k] EXCEPT !.back = @ + Most(0, buckets[k].last - now)]
      OBVIOUS
    <3>4. o \in [at : Nat, tokens : Nat, back : Nat]
      BY <1>2, <1>13, <3>2, <3>3
    <3>5. opened' = [opened EXCEPT ![k] = o]
      BY <1>2, <1>6, <2>1, <3>3 DEF AccessInv, AccessTypes
    <3> QED BY <1>2, <3>4, <3>5 DEF AccessInv, AccessTypes
  <2>2. CASE k \notin DOMAIN buckets
    BY <1>2, <1>6, <1>8, <2>2 DEF AccessInv, AccessTypes
  <2> QED BY <2>1, <2>2
<1>16. batch \in Batches /\ BatchInv(batch)
  <2>1. [i \in 1..cost |-> 0] \in [1..cost -> Nat]
    OBVIOUS
  <2>2. [i \in 1..cost |-> 0] \in Results
    BY <1>2, <2>1 DEF Results
  <2>3. batch \in Batches
    BY <1>2, <2>2 DEF Batches
  <2>4. BatchInv(batch)
    BY <1>2 DEF BatchInv
  <2> QED BY <2>3, <2>4
<1>17. \E m \in {Waiting, batch} : req' = [req EXCEPT ![r] = m]
  BY <1>7
<1> HIDE DEF batch
<1>18. AccessTypes'
  <2>1. req' \in [Requests -> {Waiting} \cup Admitted \cup Batches]
    BY <1>16, <1>17 DEF AccessInv, AccessTypes
  <2>2. DOMAIN buckets' \subseteq Keys
        /\ \A x \in DOMAIN buckets' :
             buckets'[x].tokens \in Nat /\ buckets'[x].last \in Nat
    BY <1>2, <1>5, <1>8, <1>10 DEF AccessInv, AccessTypes
  <2> QED BY <1>4, <1>12, <1>15, <2>1, <2>2 DEF AccessInv, AccessTypes
<1>19. BatchesInv'
  <2>1. \A x \in Requests : req'[x] \in {req[x], Waiting, batch}
    BY <1>17 DEF AccessInv, AccessTypes
  <2>2. \A x \in Requests : req'[x] \in Batches => BatchInv(req'[x])
    BY <1>16, <2>1, NoBatch DEF AccessInv, BatchesInv
  <2> QED BY <2>2 DEF BatchesInv, BatchInv
<1>20. QuotaInv'
  <2>1. DOMAIN buckets \subseteq Keys /\ QuotaKept
    BY DEF AccessInv, AccessTypes, QuotaInv
  <2>2. FastestRefill \in Nat
    BY <1>2, FastestIsFastest
  <2>3. held + (spent[k] + paid)
          <= opened'[k].tokens
               + (now - opened'[k].at + opened'[k].back) * FastestRefill
    <3>1. CASE k \in DOMAIN buckets
      <4> DEFINE before == buckets[k].tokens
                 last == buckets[k].last
                 at == opened[k].at
                 back == opened[k].back
                 full == opened[k].tokens
                 d == Most(0, now - last)
                 e == Most(0, last - now)
      <4>1. before \in Nat /\ last \in Nat /\ spent[k] \in Nat /\ at \in Nat
            /\ back \in Nat /\ full \in Nat
        BY <1>2, <1>13, <3>1 DEF AccessInv, AccessTypes
      <4>2. before + spent[k] <= full + (last - at + back) * FastestRefill
        BY <2>1, <3>1 DEF QuotaKept
      <4>3. held + paid <= before + d * FastestRefill
        BY <1>2, <1>8, <1>10, <3>1, FilledBound DEF AccessInv, tokens
      <4>4. opened'[k].tokens = full /\ opened'[k].at = at /\ opened'[k].back = back + e
        BY <1>14, <3>1
      <4> HIDE DEF before, last, at, back, full
      <4>5. d \in Nat /\ e \in Nat /\ now - at + (back + e) = (last - at + back) + d
        BY <1>8, <4>1 DEF Most
      <4> HIDE DEF d, e
      <4>6. ((last - at + back) + d) * FastestRefill
              = (last - at + back) * FastestRefill + d * FastestRefill
        BY <2>2, <4>1, <4>5, Distributes
      <4>7. (last - at + back) * FastestRefill \in Int /\ d * FastestRefill \in Int
        BY <2>2, <4>1, <4>5
      <4>8. held + (spent[k] + paid)
              <= full + ((last - at + back) * FastestRefill + d * FastestRefill)
        BY <1>10, <4>1, <4>2, <4>3, <4>7
      <4> QED BY <4>4, <4>5, <4>6, <4>8
    <3>2. CASE k \notin DOMAIN buckets
      <4>1. spent[k] = 0 /\ tokens = plan.capacity
        BY <1>2, <3>2 DEF AccessInv, QuotaInv, tokens, Filled
      <4>2. now - now + 0 = 0 /\ 0 * FastestRefill = 0
        BY <1>8, <2>2
      <4> QED BY <1>2, <1>10, <1>14, <3>2, <4>1, <4>2
    <3> QED BY <3>1, <3>2
  <2>4. ASSUME NEW x \in DOMAIN buckets'
        PROVE  (buckets[x].tokens + spent[x]
                  <= opened[x].tokens
                       + (buckets[x].last - opened[x].at + opened[x].back)
                           * FastestRefill)'
    <3>1. CASE x = k
      BY <1>5, <1>12, <2>3, <3>1
    <3>2. CASE x # k
      BY <1>2, <1>5, <1>12, <1>14, <2>1, <3>2 DEF QuotaKept
    <3> QED BY <3>1, <3>2
  <2>5. QuotaKept'
    BY <2>4 DEF QuotaKept
  <2>6. \A x \in Keys \ DOMAIN buckets' : spent'[x] = 0
    BY <1>5, <1>12 DEF AccessInv, QuotaInv
  <2> QED BY <2>5, <2>6 DEF QuotaInv
<1>21. HintInv'
  <2> SUFFICES ASSUME NEW x \in Requests, hint'[x] # NoHint
               PROVE  (hint[x] \in Hints /\ Enough(hint[x]))'
    BY DEF HintInv
  <2>0. hint[x] # NoHint => hint[x] \in Hints /\ Enough(hint[x])
    BY DEF AccessInv, HintInv
  <2>1. \/ /\ hint'[x] = hint[x] /\ hint[x] \in Hints /\ Enough(hint[x])
           /\ hint[x].key # k
        \/ hint'[x] = promise /\ left < 0
    <3>1. CASE KeepHints(r, k, NoHint)
      BY <2>0, <3>1 DEF KeepHints, Hints, NoHint
    <3>2. CASE KeepHints(r, k, promise) /\ left < 0
      BY <2>0, <3>2 DEF KeepHints, Hints, NoHint
    <3> QED BY <1>7, <3>1, <3>2
  <2>2. CASE hint'[x] = hint[x] /\ hint[x] \in Hints /\ Enough(hint[x])
             /\ hint[x].key # k
    BY <1>5, <2>2 DEF Enough
  <2>3. CASE hint'[x] = promise /\ left < 0
    <3>1. tokens < cost /\ held = tokens
      BY <1>2, <1>9, <2>3 DEF held
    <3> DEFINE until == now + RetryAfter(-left, plan.refill)
    <3>2. until \in Nat /\ now < until
          /\ tokens + (until - now) * plan.refill >= cost
      BY <1>2, <1>8, <1>9, <3>1, WaitBringsCost
    <3>3. /\ promise.at = until
          /\ promise.key = k /\ promise.plan = plan /\ promise.cost = cost
      OBVIOUS
    <3>4. promise \in Hints
      BY <1>2, <1>8, <3>2 DEF Hints
    <3> HIDE DEF promise, until
    <3> QED BY <1>5, <2>3, <3>1, <3>2, <3>3, <3>4 DEF Enough
  <2> QED BY <2>1, <2>2, <2>3
<1> QED BY <1>18, <1>19, <1>20, <1>21 DEF AccessInv

-----------------------------------------------------------------------------
(* The theorems                                                              *)

LEMMA AccessInitially == Init => AccessInv
<1> SUFFICES ASSUME Init PROVE AccessInv
  OBVIOUS
<1>1. /\ clock = 1 /\ shared \in BOOLEAN /\ DOMAIN buckets = {}
      /\ req = [r \in Requests |-> Waiting] /\ hint = [r \in Requests |-> NoHint]
      /\ spent = [k \in Keys |-> 0] /\ opened = [k \in Keys |-> Closed]
  BY DEF Init, StoreInit, AccessInit
<1>2. Closed \in [at : Nat, tokens : Nat, back : Nat]
  BY DEF Closed
<1>3. AccessTypes
  BY <1>1, <1>2 DEF AccessTypes
<1>4. BatchesInv
  BY <1>1, NoBatch DEF BatchesInv
<1>5. QuotaInv
  BY <1>1 DEF QuotaInv, QuotaKept
<1>6. HintInv
  BY <1>1 DEF HintInv
<1> QED BY <1>3, <1>4, <1>5, <1>6 DEF AccessInv

LEMMA AccessStep == StoreInv /\ AccessInv /\ [Next]_vars => AccessInv'
<1> SUFFICES ASSUME StoreInv, AccessInv, [Next]_vars PROVE AccessInv'
  OBVIOUS
<1>0. clock \in Nat /\ StoreTypes /\ DOMAIN buckets \subseteq Keys
  BY DEF AccessInv, AccessTypes, StoreInv
<1>1. ASSUME NEW a \in Admins, Administer(a) PROVE AccessInv'
  <2>1. UNCHANGED <<accessVars, clock>>
    BY <1>1 DEF Administer, StoreStep, Create, ReadForUpdate, ReadForRevoke,
       Begin, TakeLock, WriteTmp, RollBack, Rename, Replace, RemoveFile,
       RenameAgain, Chmod, WriteRow
  <2> QED BY <1>0, <2>1, AccessUntouched
<1>2. ASSUME NEW a \in Admins, ResetBucket(a) PROVE AccessInv'
  <2>1. clock' = clock /\ op[a].stage = "reset"
        /\ UNCHANGED <<shared, req, hint>>
    BY <1>2 DEF ResetBucket, Reply, At
  <2>2. op[a].key \in Keys
    BY <1>0, <2>1, OpShape
  <2>3. CASE Drop({op[a].key}) /\ CloseAccounts({op[a].key})
    <3>1. {op[a].key} \in SUBSET Keys
      BY <2>2
    <3> QED BY <2>1, <2>3, <3>1, DropKeeps
  <2>4. CASE UNCHANGED <<buckets, spent, opened>>
    BY <1>0, <2>1, <2>4, AccessUntouched DEF accessVars
  <2> QED BY <1>2, <2>3, <2>4 DEF ResetBucket
<1>3. ASSUME NEW r \in Requests, Train(r) PROVE AccessInv'
  BY <1>3, AuthenticateKeeps, DismissKeeps, ChargeKeeps, TakeItemKeeps,
     FinishItemKeeps, CollectKeeps DEF Train
<1>4. CASE Expire
  <2>1. PICK k \in DOMAIN buckets : Drop({k}) /\ CloseAccounts({k})
    BY <1>4 DEF Expire
  <2>2. {k} \in SUBSET Keys /\ UNCHANGED <<clock, shared, req, hint>>
    BY <1>0, <1>4 DEF Expire, storeVars
  <2> QED BY <2>1, <2>2, DropKeeps
<1>5. CASE Crash
  <2>1. /\ UNCHANGED <<clock, shared>>
        /\ req' = [r \in Requests |-> Waiting]
        /\ hint' = [r \in Requests |-> NoHint]
    BY <1>5 DEF Crash, StoreCrash
  <2>2. CASE Drop(Keys) /\ CloseAccounts(Keys)
    <3>1. Keys \in SUBSET Keys
      OBVIOUS
    <3> QED BY <2>1, <2>2, <3>1, DropKeeps
  <2>3. CASE UNCHANGED <<buckets, spent, opened>>
    BY <2>1, <2>3, RequestsForgotten
  <2> QED BY <1>5, <2>2, <2>3 DEF Crash
<1>6. CASE Tick /\ UNCHANGED accessVars
  BY <1>0, <1>6, AccessUntouched DEF Tick
<1>7. CASE UNCHANGED vars
  BY <1>0, <1>7, AccessUntouched DEF vars, storeVars
<1> QED BY <1>1, <1>2, <1>3, <1>4, <1>5, <1>6, <1>7 DEF Next

LEMMA AccessInvariance == Spec => [](StoreInv /\ AccessInv)
<1> QED BY Initially, StepKeeps, AccessInitially, AccessStep, PTL DEF Spec

\* The variables of the key store and of the buckets keep their types; no
\* bucket owes tokens.
THEOREM AccessTypeCorrect == Spec => []TypeOK
<1>1. StoreInv /\ AccessInv => TypeOK
  <2> SUFFICES ASSUME StoreTypes, AccessTypes PROVE TypeOK
    BY DEF StoreInv, AccessInv
  <2>1. \A a \in Admins : op[a].stage \in Stages
    BY DEF StoreTypes, OpRecords, Stages
  <2> QED BY <2>1 DEF TypeOK, StoreTypes, AccessTypes
<1> QED BY <1>1, AccessInvariance, PTL

\* No course of charges gets more out of a bucket than it held when it was
\* opened and what the time since then brings at the fastest rate, whatever
\* plans the requests carry and however servers' clocks disagree (access.go,
\* MemoryBucketLimiter.Allow and the script of RedisBucketLimiter).
THEOREM QuotaIsKept == Spec => []QuotaKept
<1>1. AccessInv => QuotaKept
  BY DEF AccessInv, QuotaInv
<1> QED BY <1>1, AccessInvariance, PTL

\* A client that asks a server whose clock shows the time that Retry-After named,
\* with nobody else on its key, is admitted, provided that its batch fits the
\* bucket at all: in memory, and in the cache whatever the clocks are.
THEOREM RetryTimeIsEnough == Spec => []RetryAfterSuffices
<1>1. AccessInv => RetryAfterSuffices
  <2> SUFFICES ASSUME AccessInv, NEW r \in Requests, NEW skew \in Offsets,
                      hint[r].at > 0, clock + skew >= hint[r].at,
                      hint[r].cost <= hint[r].plan.capacity
               PROVE  Filled(hint[r].key, hint[r].plan, clock + skew) >= hint[r].cost
    BY DEF RetryAfterSuffices
  <2> DEFINE h == hint[r]
             now == clock + skew
  <2>1. h \in Hints /\ Enough(h)
    BY DEF AccessInv, HintInv, NoHint
  <2>2. /\ h.at \in Nat /\ h.cost \in Nat /\ h.plan \in Plans
        /\ h.plan.capacity \in Nat /\ h.plan.refill \in Nat /\ now \in Nat
        /\ now >= h.at /\ h.cost <= h.plan.capacity
    BY <2>1, StoreAssumption, AccessAssumption
    DEF Hints, AccessInv, AccessTypes, Offsets
  <2> HIDE DEF h, now
  <2>3. CASE h.key \notin DOMAIN buckets
    BY <2>2, <2>3 DEF Filled, h
  <2>4. CASE h.key \in DOMAIN buckets
    <3> DEFINE b == buckets[h.key]
    <3>1. /\ b.last \in Nat /\ b.tokens \in Nat /\ b.last < h.at
          /\ b.tokens + (h.at - b.last) * h.plan.refill >= h.cost
      BY <2>1, <2>4 DEF Enough, AccessInv, AccessTypes
    <3>2. Filled(h.key, h.plan, now)
            = Least(h.plan.capacity, b.tokens + Most(0, now - b.last) * h.plan.refill)
      BY <2>4 DEF Filled
    <3> HIDE DEF b
    <3>3. /\ h.at - b.last \in Nat /\ now - b.last \in Nat
          /\ Most(0, now - b.last) = now - b.last
          /\ h.at - b.last <= now - b.last
      BY <2>2, <3>1 DEF Most, h
    <3>4. (h.at - b.last) * h.plan.refill <= (now - b.last) * h.plan.refill
      BY <2>2, <3>3, ProductGrows
    <3>5. /\ (h.at - b.last) * h.plan.refill \in Nat
          /\ (now - b.last) * h.plan.refill \in Nat
      BY <2>2, <3>3, ProductType
    <3>6. b.tokens + Most(0, now - b.last) * h.plan.refill >= h.cost
      BY <2>2, <3>1, <3>3, <3>4, <3>5
    <3>7. Most(0, now - b.last) * h.plan.refill \in Nat
      BY <3>3, <3>5
    <3> DEFINE sum == b.tokens + Most(0, now - b.last) * h.plan.refill
    <3>8. sum \in Nat /\ sum >= h.cost /\ h.cost <= h.plan.capacity
      BY <2>2, <3>1, <3>6, <3>7
    <3>9. Filled(h.key, h.plan, now) = Least(h.plan.capacity, sum)
      BY <3>2
    <3> HIDE DEF sum
    <3>10. Least(h.plan.capacity, sum) >= h.cost
      BY <2>2, <3>8 DEF Least
    <3> QED BY <3>9, <3>10 DEF h, now
  <2> QED BY <2>3, <2>4 DEF h, now
<1> QED BY <1>1, AccessInvariance, PTL

\* A batch is answered when each of its items has been executed exactly once,
\* whatever worker took it, and no item is handed out that was not paid for
\* (transport/training.go, parallelItems).
THEOREM BatchesAreComplete == Spec => []BatchComplete
<1>1. AccessInv => BatchComplete
  <2> SUFFICES ASSUME AccessInv, NEW r \in Requests,
                      req[r].stage \in {"running", "answered"}
               PROVE  /\ req[r].stage = "answered" =>
                           \A i \in 1..req[r].size : req[r].results[i] = 1
                      /\ req[r].next - 1 <= req[r].paid
    BY DEF BatchComplete
  <2> DEFINE b == req[r]
  <2>1. b \in Batches /\ BatchInv(b)
    BY RequestShape DEF AccessInv, BatchesInv
  <2>2. b.size \in Nat /\ b.next \in Nat
    BY <2>1, AccessAssumption DEF Batches
  <2> HIDE DEF b
  <2>3. b.next - 1 <= b.paid
    BY <2>1, <2>2 DEF BatchInv
  <2>4. ASSUME b.stage = "answered", NEW i \in 1..b.size PROVE b.results[i] = 1
    BY <2>1, <2>2, <2>4 DEF BatchInv
  <2> QED BY <2>3, <2>4 DEF b
<1> QED BY <1>1, AccessInvariance, PTL

\* A key whose revocation was confirmed admits no further training request,
\* unless an edit overtook the revocation (Authenticate, access.go).
NoneAdmittedRevoked ==
  \A r \in Requests :
    req[r].stage = "waiting" /\ req'[r].stage = "admitted"
      => req'[r].key \notin told \ crossed
THEOREM RevokedStayOut == Spec => [][NoneAdmittedRevoked]_vars
<1> DEFINE IInv == StoreInv /\ RevocationInv /\ AccessInv
<1>1. IInv /\ [Next]_vars => [NoneAdmittedRevoked]_vars
  <2> SUFFICES ASSUME IInv, Next, NEW r \in Requests,
                      req[r].stage = "waiting", req'[r].stage = "admitted"
               PROVE  req'[r].key \notin told \ crossed
    BY DEF NoneAdmittedRevoked
  <2>1. req \in [Requests -> {Waiting} \cup Admitted \cup Batches]
    BY DEF AccessInv, AccessTypes
  <2>2. CASE \E q \in Requests : Train(q)
    <3>1. PICK q \in Requests : Train(q)
      BY <2>2
    <3>2. /\ Authenticate(q) \/ req[q].stage # "waiting"
          /\ q # r => req'[r] = req[r]
      BY <2>1, <3>1 DEF Train, Authenticate, TurnAway, Charge, TakeItem,
         FinishItem, Collect, Respond
    <3>3. Authenticate(r)
      BY <3>2
    <3>4. PICK k \in DOMAIN table : req'[r].key = k /\ ~table[k].revoked
      BY <2>1, <3>3 DEF Authenticate, Valid
    <3>5. k \in Keys /\ table \in Copies
      BY RecordsType DEF StoreInv, StoreTypes, Copies
    <3>6. k \notin told \ crossed
      BY <3>4, <3>5 DEF RevocationInv, DeadStayDead, Dead, Gone, RevokedIn
    <3> QED BY <3>4, <3>6
  <2>3. CASE \A q \in Requests : ~Train(q)
    <3>1. req' = req \/ req' = [x \in Requests |-> Waiting]
      BY <2>3 DEF Next, Administer, ResetBucket, Expire, Crash, accessVars
    <3>2. req'[r] \in {req[r], Waiting}
      BY <3>1
    <3> QED BY <3>2 DEF Waiting
  <2> QED BY <2>2, <2>3
<1> QED BY <1>1, RevocationInitially, RevocationStep, Initially, StepKeeps,
           AccessInitially, AccessStep, PTL DEF Spec
=============================================================================
