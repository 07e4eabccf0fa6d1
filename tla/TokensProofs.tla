----------------------------- MODULE TokensProofs -----------------------------
(***************************************************************************)
(* Tokens of every server open at every server that holds their version,   *)
(* for any number of servers, keys, rotations and stops.                   *)
(*                                                                         *)
(* The argument: the local key is written once, by the only server that    *)
(* created the file (OneWriter), so a version stands for one secret from   *)
(* the moment anybody uses it (KeysGenuine, ShownGenuine).                 *)
(***************************************************************************)
EXTENDS Tokens, TLAPS

LEMMA KeySetIntro ==
  ASSUME NEW held \in SUBSET Ids, NEW f, f \in [held -> Secrets \cup Rotated]
  PROVE  f \in KeySets
  BY DEF KeySets

LEMMA KeySetElim ==
  ASSUME NEW f \in KeySets
  PROVE  /\ DOMAIN f \in SUBSET Ids
         /\ \A id \in DOMAIN f : f[id] \in Secrets \cup Rotated
  BY DEF KeySets

\* A server without keys holds a set of keys.
LEMMA NoKeysType == NoKeys \in KeySets
<1>1. {} \in SUBSET Ids /\ NoKeys \in [{} -> Secrets \cup Rotated]
  BY DEF NoKeys
<1> QED BY <1>1, KeySetIntro

LEMMA Initially == Init => IInv
<1> SUFFICES ASSUME Init PROVE IInv
  OBVIOUS
<1>1. TypeOK
  BY NoKeysType DEF Init, TypeOK, Stages, Ids
<1>2. OneWriter
  BY DEF Init, OneWriter
<1>3. KeysGenuine
  BY DEF Init, KeysGenuine, NoKeys
<1>4. ShownGenuine
  BY DEF Init, ShownGenuine
<1> QED BY <1>1, <1>2, <1>3, <1>4 DEF IInv

\* While the file is left alone, or holds a key that stays, what was genuine
\* remains so.
LEMMA StaysGenuine ==
  ASSUME NEW id, NEW secret, Genuine(id, secret),
         file' = file \/ file \notin Secrets
  PROVE  Genuine(id, secret)'
  BY DEF Genuine, SecretOf

\* Starting with a set of previous keys: what is installed is genuine.
LEMMA Installed ==
  ASSUME IInv, NEW p \in Servers, NEW id \in Provided,
         NEW previous \in SUBSET Provided, Install(p, id, previous), file' = file
  PROVE  /\ active' \in [Servers -> Ids] /\ keys' \in [Servers -> KeySets]
         /\ active'[p] \in DOMAIN keys'[p]
         /\ \A q \in Servers \ {p} : active'[q] = active[q] /\ keys'[q] = keys[q]
         /\ \A k \in DOMAIN keys'[p] : Genuine(k, keys[p][k])'
<1>1. TypeOK
  BY DEF IInv
<1>2. \A k \in Provided : k \in Ids /\ SecretOf(k) \in Secrets \cup Rotated
  BY <1>1, TokensAssumption DEF TypeOK, Provided, Ids, SecretOf
<1>3. \A k \in Provided : SecretOf(k)' = SecretOf(k)
                          /\ (k = Local => file' \in Secrets)
  BY TokensAssumption DEF Provided, SecretOf
<1>4. PICK new : new = [k \in previous \cup {id} |-> SecretOf(k)]
  OBVIOUS
<1>5. new \in [previous \cup {id} -> Secrets \cup Rotated]
  BY <1>2, <1>4
<1>6. new \in KeySets
  <2>1. previous \cup {id} \in SUBSET Ids
    BY <1>2
  <2> QED BY <1>5, <2>1, KeySetIntro
<1>7. keys' = [keys EXCEPT ![p] = new] /\ active' = [active EXCEPT ![p] = id]
  BY <1>4 DEF Install
<1>8. keys \in [Servers -> KeySets] /\ active \in [Servers -> Ids]
  BY <1>1 DEF TypeOK
<1>9. keys'[p] = new /\ active'[p] = id /\ DOMAIN new = previous \cup {id}
  BY <1>4, <1>7, <1>8
<1>10. active' \in [Servers -> Ids] /\ keys' \in [Servers -> KeySets]
  BY <1>2, <1>6, <1>7, <1>8
<1>11. \A q \in Servers \ {p} : active'[q] = active[q] /\ keys'[q] = keys[q]
  BY <1>7, <1>8
<1>12. \A k \in DOMAIN keys'[p] : Genuine(k, keys[p][k])'
  <2> SUFFICES ASSUME NEW k \in previous \cup {id} PROVE Genuine(k, keys[p][k])'
    BY <1>9
  <2>1. keys'[p][k] = SecretOf(k)
    BY <1>4, <1>9
  <2> QED BY <1>3, <2>1 DEF Genuine
<1> QED BY <1>9, <1>10, <1>11, <1>12

\* What a step of one server p has to show, when the others keep their keys and
\* the file is left alone or was no key before.
LEMMA KeysStay ==
  ASSUME IInv, file' = file \/ file \notin Secrets,
         NEW p \in Servers,
         \A q \in Servers \ {p} : /\ stage'[q] = stage[q] /\ active'[q] = active[q]
                                  /\ keys'[q] = keys[q],
         stage'[p] = "up" => active'[p] \in DOMAIN keys'[p],
         \A k \in DOMAIN keys'[p] : Genuine(k, keys[p][k])',
         UNCHANGED shown
  PROVE  KeysGenuine' /\ ShownGenuine'
<1>1. KeysGenuine'
  <2> SUFFICES ASSUME NEW q \in Servers
               PROVE  /\ (stage[q] = "up" => active[q] \in DOMAIN keys[q])'
                      /\ \A k \in DOMAIN keys'[q] : Genuine(k, keys[q][k])'
    BY DEF KeysGenuine
  <2>1. CASE q = p
    BY <2>1
  <2>2. CASE q # p
    <3>1. stage'[q] = stage[q] /\ active'[q] = active[q] /\ keys'[q] = keys[q]
      BY <2>2
    <3>2. stage[q] = "up" => active[q] \in DOMAIN keys[q]
      BY DEF IInv, KeysGenuine
    <3>3. ASSUME NEW k \in DOMAIN keys'[q] PROVE Genuine(k, keys[q][k])'
      <4>1. Genuine(k, keys[q][k])
        BY <3>1, <3>3 DEF IInv, KeysGenuine
      <4> QED BY <3>1, <4>1 DEF Genuine, SecretOf
    <3> QED BY <3>1, <3>2, <3>3
  <2> QED BY <2>1, <2>2
<1>2. ShownGenuine'
  <2> SUFFICES ASSUME NEW token \in shown
               PROVE  /\ Genuine(token.id, token.secret)'
                      /\ Genuine(token.game.id, token.game.secret)'
    BY DEF ShownGenuine
  <2>1. /\ Genuine(token.id, token.secret)
        /\ Genuine(token.game.id, token.game.secret)
    BY DEF IInv, ShownGenuine
  <2> QED BY <2>1 DEF Genuine, SecretOf
<1> QED BY <1>1, <1>2

LEMMA StartRotatedKeeps ==
  ASSUME IInv, NEW p \in Servers, StartRotated(p)
  PROVE  IInv'
<1>1. TypeOK /\ OneWriter
  BY DEF IInv
<1>2. PICK id \in Provided, previous \in SUBSET Provided : Install(p, id, previous)
  BY DEF StartRotated
<1>3. /\ stage' = [stage EXCEPT ![p] = "up"] /\ stage[p] = "down"
      /\ UNCHANGED <<file, drawn, shown, stops>>
  BY DEF StartRotated
<1>4. /\ active' \in [Servers -> Ids] /\ keys' \in [Servers -> KeySets]
      /\ active'[p] \in DOMAIN keys'[p]
      /\ \A q \in Servers \ {p} : active'[q] = active[q] /\ keys'[q] = keys[q]
      /\ \A k \in DOMAIN keys'[p] : Genuine(k, keys[p][k])'
  BY <1>2, <1>3, Installed
<1>5. TypeOK'
  BY <1>1, <1>3, <1>4 DEF TypeOK, Stages
<1>6. OneWriter'
  BY <1>1, <1>3 DEF OneWriter, TypeOK
<1>7. KeysGenuine' /\ ShownGenuine'
  <2>1. \A q \in Servers \ {p} : stage'[q] = stage[q]
    BY <1>1, <1>3 DEF TypeOK
  <2> QED BY <1>3, <1>4, <2>1, KeysStay
<1> QED BY <1>5, <1>6, <1>7 DEF IInv

\* Steps of the start that change no keys.
LEMMA QuietStep ==
  ASSUME IInv, NEW p \in Servers, NEW s \in Stages \ {"up"},
         stage' = [stage EXCEPT ![p] = s],
         file' = file \/ file \notin Secrets,
         UNCHANGED <<active, keys, shown>>
  PROVE  KeysGenuine' /\ ShownGenuine'
<1>1. TypeOK
  BY DEF IInv
<1>2. \A q \in Servers \ {p} : /\ stage'[q] = stage[q] /\ active'[q] = active[q]
                              /\ keys'[q] = keys[q]
  BY <1>1 DEF TypeOK
<1>3. stage'[p] = "up" => active'[p] \in DOMAIN keys'[p]
  BY <1>1 DEF TypeOK
<1>4. ASSUME NEW k \in DOMAIN keys'[p] PROVE Genuine(k, keys[p][k])'
  <2>1. Genuine(k, keys[p][k])
    BY <1>4 DEF IInv, KeysGenuine
  <2> QED BY <2>1 DEF Genuine, SecretOf
<1> QED BY <1>2, <1>3, <1>4, KeysStay

LEMMA DrawKeyKeeps ==
  ASSUME IInv, NEW p \in Servers, DrawKey(p)
  PROVE  IInv'
<1>1. TypeOK /\ OneWriter
  BY DEF IInv
<1>2. PICK secret \in Secrets : drawn' = [drawn EXCEPT ![p] = secret]
  BY DEF DrawKey
<1>3. /\ stage' = [stage EXCEPT ![p] = "create"] /\ file = Missing
      /\ UNCHANGED <<file, active, keys, shown>>
  BY DEF DrawKey
<1>4. TypeOK'
  BY <1>1, <1>2, <1>3 DEF TypeOK, Stages
<1>5. OneWriter'
  BY <1>1, <1>2, <1>3 DEF OneWriter, TypeOK
<1>6. KeysGenuine' /\ ShownGenuine'
  BY <1>3, QuietStep DEF Stages
<1> QED BY <1>4, <1>5, <1>6 DEF IInv

LEMMA CreateFileKeeps ==
  ASSUME IInv, NEW p \in Servers, CreateFile(p)
  PROVE  IInv'
<1>1. TypeOK /\ OneWriter
  BY DEF IInv
<1>2. stage[p] = "create" /\ UNCHANGED <<drawn, active, keys, shown, stops>>
  BY DEF CreateFile
<1>3. CASE file = Missing
  <2>1. file' = Torn /\ stage' = [stage EXCEPT ![p] = "write"]
    BY <1>3 DEF CreateFile, CreateExclusive
  <2>2. TypeOK'
    BY <1>1, <1>2, <2>1 DEF TypeOK, Stages
  <2>3. OneWriter'
    \* Another writer would have found the file torn.
    BY <1>1, <1>2, <1>3, <2>1, TokensAssumption DEF OneWriter, TypeOK
  <2>4. KeysGenuine' /\ ShownGenuine'
    BY <1>2, <1>3, <2>1, QuietStep, TokensAssumption DEF Stages
  <2> QED BY <2>2, <2>3, <2>4 DEF IInv
<1>4. CASE file # Missing
  <2>1. file' = file /\ stage' = [stage EXCEPT ![p] = "reread"]
    BY <1>4 DEF CreateFile, CreateExclusive
  <2>2. TypeOK'
    BY <1>1, <1>2, <2>1 DEF TypeOK, Stages
  <2>3. OneWriter'
    BY <1>1, <1>2, <1>4, <2>1 DEF OneWriter, TypeOK
  <2>4. KeysGenuine' /\ ShownGenuine'
    BY <1>2, <2>1, QuietStep DEF Stages
  <2> QED BY <2>2, <2>3, <2>4 DEF IInv
<1> QED BY <1>3, <1>4

LEMMA ReadFileKeeps ==
  ASSUME IInv, NEW p \in Servers, ReadFile(p)
  PROVE  IInv'
<1>1. TypeOK /\ OneWriter
  BY DEF IInv
<1>2. UNCHANGED <<file, drawn, shown, stops>> /\ file # Missing
  BY <1>1 DEF ReadFile, OneWriter
<1>3. CASE file = Torn
  <2>1. stage' = [stage EXCEPT ![p] = "down"] /\ UNCHANGED <<active, keys>>
    BY <1>3 DEF ReadFile, Decode
  <2>2. TypeOK'
    BY <1>1, <1>2, <2>1 DEF TypeOK, Stages
  <2>3. OneWriter'
    BY <1>1, <1>2, <2>1 DEF OneWriter, TypeOK
  <2>4. KeysGenuine' /\ ShownGenuine'
    BY <1>2, <2>1, QuietStep DEF Stages
  <2> QED BY <2>2, <2>3, <2>4 DEF IInv
<1>4. CASE file # Torn
  <2>1. stage' = [stage EXCEPT ![p] = "up"]
    BY <1>4 DEF ReadFile, Decode
  <2>2. PICK previous \in SUBSET (Provided \ {Local}) : Install(p, Local, previous)
    BY <1>4 DEF ReadFile, Decode
  <2>3. Local \in Provided
    BY <1>1, <1>2, <1>4 DEF TypeOK, Provided
  <2>4. /\ active' \in [Servers -> Ids] /\ keys' \in [Servers -> KeySets]
        /\ active'[p] \in DOMAIN keys'[p]
        /\ \A q \in Servers \ {p} : active'[q] = active[q] /\ keys'[q] = keys[q]
        /\ \A k \in DOMAIN keys'[p] : Genuine(k, keys[p][k])'
    BY <1>2, <2>2, <2>3, Installed
  <2>5. TypeOK'
    BY <1>1, <1>2, <2>1, <2>4 DEF TypeOK, Stages
  <2>6. OneWriter'
    BY <1>1, <1>2, <2>1 DEF OneWriter, TypeOK
  <2>7. KeysGenuine' /\ ShownGenuine'
    <3>1. \A q \in Servers \ {p} : stage'[q] = stage[q]
      BY <1>1, <2>1 DEF TypeOK
    <3> QED BY <1>2, <2>4, <3>1, KeysStay
  <2> QED BY <2>5, <2>6, <2>7 DEF IInv
<1> QED BY <1>3, <1>4

LEMMA WriteKeyKeeps ==
  ASSUME IInv, NEW p \in Servers, WriteKey(p)
  PROVE  IInv'
<1>1. TypeOK /\ OneWriter
  BY DEF IInv
<1>2. /\ stage[p] = "write" /\ file' = drawn[p]
      /\ stage' = [stage EXCEPT ![p] = "up"]
      /\ drawn' = [drawn EXCEPT ![p] = Missing] /\ UNCHANGED <<shown, stops>>
  BY DEF WriteKey
<1>3. /\ drawn[p] \in Secrets /\ file = Torn
      /\ \A q \in Servers : stage[q] = "write" => q = p
  BY <1>1, <1>2 DEF OneWriter
<1>4. PICK previous \in SUBSET Rotated :
        /\ active' = [active EXCEPT ![p] = Local]
        /\ keys' = [keys EXCEPT ![p] =
                      [k \in previous \cup {Local} |->
                         IF k = Local THEN drawn[p] ELSE k]]
  BY DEF WriteKey
<1>5. PICK new : new = [k \in previous \cup {Local} |->
                          IF k = Local THEN drawn[p] ELSE k]
  OBVIOUS
<1>6. new \in [previous \cup {Local} -> Secrets \cup Rotated]
  BY <1>3, <1>5
<1>7. new \in KeySets
  <2>1. previous \cup {Local} \in SUBSET Ids
    BY DEF Ids
  <2> QED BY <1>6, <2>1, KeySetIntro
<1>8. keys' = [keys EXCEPT ![p] = new]
  BY <1>4, <1>5
<1>9. keys \in [Servers -> KeySets] /\ active \in [Servers -> Ids]
  BY <1>1 DEF TypeOK
<1>10. keys'[p] = new /\ active'[p] = Local /\ DOMAIN new = previous \cup {Local}
  BY <1>4, <1>5, <1>8, <1>9
<1>11. TypeOK'
  <2>1. keys' \in [Servers -> KeySets]
    BY <1>7, <1>8, <1>9
  <2>2. active' \in [Servers -> Ids]
    BY <1>4, <1>9 DEF Ids
  <2> QED BY <1>1, <1>2, <1>3, <2>1, <2>2 DEF TypeOK, Stages
<1>12. OneWriter'
  BY <1>1, <1>2, <1>3, TokensAssumption DEF OneWriter, TypeOK
<1>13. KeysGenuine' /\ ShownGenuine'
  <2>1. \A q \in Servers \ {p} : /\ stage'[q] = stage[q]
                                 /\ active'[q] = active[q] /\ keys'[q] = keys[q]
    BY <1>1, <1>2, <1>4, <1>8, <1>9 DEF TypeOK
  <2>2. ASSUME NEW k \in DOMAIN keys'[p] PROVE Genuine(k, keys[p][k])'
    <3>1. k \in previous \cup {Local}
          /\ keys'[p][k] = (IF k = Local THEN drawn[p] ELSE k)
      BY <1>5, <1>10, <2>2
    <3>2. file' = drawn[p] /\ file' \in Secrets
      BY <1>2, <1>3
    <3> QED BY <3>1, <3>2 DEF Genuine, SecretOf
  <2>3. file \notin Secrets
    BY <1>3, TokensAssumption
  <2>4. active'[p] \in DOMAIN keys'[p]
    BY <1>10
  <2> QED BY <1>2, <2>1, <2>2, <2>3, <2>4, KeysStay
<1> QED BY <1>11, <1>12, <1>13 DEF IInv

LEMMA StopKeeps ==
  ASSUME IInv, NEW p \in Servers, Stop(p)
  PROVE  IInv'
<1>1. TypeOK /\ OneWriter
  BY DEF IInv
<1>2. /\ stage' = [stage EXCEPT ![p] = "down"]
      /\ keys' = [keys EXCEPT ![p] = NoKeys]
      /\ drawn' = [drawn EXCEPT ![p] = Missing]
      /\ UNCHANGED <<file, active, shown>>
  BY DEF Stop
<1>3. TypeOK'
  BY <1>1, <1>2, NoKeysType DEF TypeOK, Stages
<1>4. OneWriter'
  BY <1>1, <1>2 DEF OneWriter, TypeOK
<1>5. KeysGenuine' /\ ShownGenuine'
  <2>1. \A q \in Servers \ {p} : /\ stage'[q] = stage[q]
                                 /\ active'[q] = active[q] /\ keys'[q] = keys[q]
    BY <1>1, <1>2 DEF TypeOK
  <2>2. stage'[p] = "down" /\ keys'[p] = NoKeys
    BY <1>1, <1>2 DEF TypeOK
  <2>3. \A k \in DOMAIN keys'[p] : Genuine(k, keys[p][k])'
    BY <2>2 DEF NoKeys
  <2> QED BY <1>2, <2>1, <2>2, <2>3, KeysStay
<1> QED BY <1>3, <1>4, <1>5 DEF IInv

\* What a running server seals, whether with a new game or a genuine old one,
\* is a genuine token.
LEMMA Sealed ==
  ASSUME IInv, NEW p \in Servers, stage[p] = "up", NEW kind \in Kinds,
         NEW game \in Games, Genuine(game.id, game.secret),
         NEW revision \in 0..MaxRevision
  PROVE  LET token == Seal(p, kind, game, revision)
         IN /\ token \in Tokens
            /\ Genuine(token.id, token.secret)
            /\ Genuine(token.game.id, token.game.secret)
<1>1. active[p] \in DOMAIN keys[p] /\ Genuine(active[p], keys[p][active[p]])
  BY DEF IInv, KeysGenuine
<1>2. keys[p] \in KeySets
  BY DEF IInv, TypeOK
<1>3. active[p] \in Ids /\ keys[p][active[p]] \in Secrets \cup Rotated
  BY <1>1, <1>2, KeySetElim
<1>4. Seal(p, kind, game, revision) \in Tokens
  BY <1>3 DEF Seal, Tokens
<1> QED BY <1>1, <1>4 DEF Seal

LEMMA Derived ==
  ASSUME IInv, NEW p \in Servers, stage[p] = "up",
         NEW request \in Requests \cup {Nobody}
  PROVE  /\ Derive(p, request) \in Games
         /\ Genuine(Derive(p, request).id, Derive(p, request).secret)
<1>1. active[p] \in DOMAIN keys[p] /\ Genuine(active[p], keys[p][active[p]])
  BY DEF IInv, KeysGenuine
<1>2. keys[p] \in KeySets
  BY DEF IInv, TypeOK
<1>3. active[p] \in Ids /\ keys[p][active[p]] \in Secrets \cup Rotated
  BY <1>1, <1>2, KeySetElim
<1> QED BY <1>1, <1>3 DEF Derive, Games

LEMMA ShowKeeps ==
  ASSUME IInv, NEW token \in Tokens, Genuine(token.id, token.secret),
         Genuine(token.game.id, token.game.secret),
         Show(token), UNCHANGED signerVars
  PROVE  IInv'
<1>1. UNCHANGED <<file, stage, drawn, active, keys>>
  BY DEF signerVars
<1>2. shown' = shown \cup {token}
  BY DEF Show
<1>3. TypeOK'
  BY <1>1, <1>2 DEF IInv, TypeOK
<1>4. OneWriter'
  BY <1>1 DEF IInv, OneWriter
<1>5. KeysGenuine'
  BY <1>1 DEF IInv, KeysGenuine, Genuine, SecretOf
<1>6. ShownGenuine'
  BY <1>1, <1>2 DEF IInv, ShownGenuine, Genuine, SecretOf
<1> QED BY <1>3, <1>4, <1>5, <1>6 DEF IInv

LEMMA ServingKeeps ==
  ASSUME IInv, NEW p \in Servers, Serving(p)
  PROVE  IInv'
<1>0. MaxRevision \in Nat
  BY TokensAssumption
<1>1. \A token \in shown :
        /\ token.game \in Games /\ Genuine(token.game.id, token.game.secret)
        /\ token.revision \in 0..MaxRevision
  BY DEF IInv, TypeOK, ShownGenuine, Tokens
<1>2. ASSUME NEW request \in Requests, Create(p, request) PROVE IInv'
  <2>1. Derive(p, request) \in Games
        /\ Genuine(Derive(p, request).id, Derive(p, request).secret)
    BY <1>2, Derived DEF Create
  <2>2. 0 \in 0..MaxRevision /\ "state" \in Kinds
    BY <1>0 DEF Kinds
  <2> QED BY <1>2, <2>1, <2>2, Sealed, ShowKeeps DEF Create
<1>3. ASSUME NEW token \in shown, Command(p, token) PROVE IInv'
  <2>1. token.revision + 1 \in 0..MaxRevision /\ "state" \in Kinds
    BY <1>0, <1>1, <1>3 DEF Command, Kinds
  <2> QED BY <1>1, <1>3, <2>1, Sealed, ShowKeeps DEF Command
<1>4. ASSUME NEW token \in shown, Restore(p, token) PROVE IInv'
  BY <1>1, <1>4, Sealed, ShowKeeps DEF Restore, Kinds
<1>5. CASE ResetEpisode(p)
  <2>1. Derive(p, Nobody) \in Games
        /\ Genuine(Derive(p, Nobody).id, Derive(p, Nobody).secret)
    BY <1>5, Derived DEF ResetEpisode
  <2>2. 0 \in 0..MaxRevision /\ "episode" \in Kinds
    BY <1>0 DEF Kinds
  <2> QED BY <1>5, <2>1, <2>2, Sealed, ShowKeeps DEF ResetEpisode, SealEpisode
<1>6. ASSUME NEW token \in shown, StepEpisode(p, token) PROVE IInv'
  <2>1. token.revision + 1 \in 0..MaxRevision /\ "episode" \in Kinds
    BY <1>0, <1>1, <1>6 DEF StepEpisode, Kinds
  <2> QED BY <1>1, <1>6, <2>1, Sealed, ShowKeeps DEF StepEpisode, SealEpisode, OpenEpisode
<1> QED BY <1>2, <1>3, <1>4, <1>5, <1>6 DEF Serving

\* Every step of every server preserves the invariant.
LEMMA StepKeeps == IInv /\ [Next]_vars => IInv'
<1> SUFFICES ASSUME IInv, [Next]_vars PROVE IInv'
  OBVIOUS
<1>1. ASSUME NEW p \in Servers, Starting(p) PROVE IInv'
  BY <1>1, StartRotatedKeeps, DrawKeyKeeps, ReadFileKeeps, CreateFileKeeps,
     WriteKeyKeeps DEF Starting
<1>2. ASSUME NEW p \in Servers, Stop(p) PROVE IInv'
  BY <1>2, StopKeeps
<1>3. ASSUME NEW p \in Servers, Serving(p) PROVE IInv'
  BY <1>3, ServingKeeps
<1>4. CASE UNCHANGED vars
  BY <1>4 DEF vars, IInv, TypeOK, OneWriter, KeysGenuine, ShownGenuine,
     Genuine, SecretOf
<1> QED BY <1>1, <1>2, <1>3, <1>4 DEF Next

\* The inductive invariant holds whatever the servers do: a version names one
\* secret from its first use on (signer.go, LoadLocalSigner).
THEOREM Invariance == Spec => []IInv
<1> QED BY Initially, StepKeeps, PTL DEF Spec

\* A genuine token opens at a server that holds its version.
LEMMA GenuineOpens == IInv => TokensOpen
<1> SUFFICES ASSUME IInv, NEW p \in Servers, NEW token \in shown
             PROVE  Open(p, token.kind, token) # "INVALID_TOKEN"
  BY DEF TokensOpen
<1>1. Genuine(token.id, token.secret)
  BY DEF IInv, ShownGenuine
<1>2. \A id \in DOMAIN keys[p] : Genuine(id, keys[p][id])
  BY DEF IInv, KeysGenuine
<1> QED BY <1>1, <1>2 DEF Genuine, Open

\* No token that any server sealed is refused as forged by a server that holds
\* its version, for any number of servers racing for the local key file,
\* stopped half way through, and any rotation (signer.go, Open).
THEOREM TokensAlwaysOpen == Spec => []TokensOpen
<1> QED BY Invariance, GenuineOpens, PTL

\* Games of one creation under one version derive from one secret.
LEMMA GenuineAgree == IInv => RetriesAgree
<1> SUFFICES ASSUME IInv, NEW first \in shown, NEW second \in shown,
                    first.game.request = second.game.request,
                    first.game.id = second.game.id
             PROVE  first.game = second.game
  BY DEF RetriesAgree
<1>1. Genuine(first.game.id, first.game.secret)
      /\ Genuine(second.game.id, second.game.secret)
  BY DEF IInv, ShownGenuine
<1>2. first.game.secret = second.game.secret
  BY <1>1 DEF Genuine
<1>3. first.game \in Games /\ second.game \in Games
  BY DEF IInv, TypeOK, Tokens
<1> QED BY <1>2, <1>3 DEF Games

\* A repeated creation starts the same game under the same key version, at
\* whichever server it arrives (service.go, Create).
THEOREM CreationsRepeat == Spec => []RetriesAgree
<1> QED BY Invariance, GenuineAgree, PTL
=============================================================================
