-------------------------------- MODULE Tokens --------------------------------
(***************************************************************************)
(* Saved games are tokens that the browser keeps and the server signs      *)
(* (src/internal/application/signer.go); training episodes are tokens      *)
(* sealed with the same keys (src/internal/training/codec.go).  The server *)
(* keeps no games, so the keys are all that a restart, a second server or  *)
(* a rotation has to preserve.                                             *)
(*                                                                         *)
(* Several servers start, stop and answer over one local key file.         *)
(* Secrets are opaque; what is made from a secret carries it.  A repeated  *)
(* request may also be answered from the cache, with the token it was      *)
(* answered with before: nothing new is shown.                             *)
(***************************************************************************)
EXTENDS Naturals, FiniteSets

CONSTANTS
  Servers,      \* server processes on one machine or one volume
  Secrets,      \* what the random source may yield
  Rotated,      \* key versions that the environment provides
  Local,        \* the version of the key in the local file
  Missing,      \* there is no local key file
  Torn,         \* the file was created and its key not (fully) written
  Nobody,       \* of an answer: no creation asked for it
  Requests,     \* creations, each an anonymous user and a request id
  MaxRevision,  \* bound: commands accepted in one game
  MaxStops,     \* bound: servers that stop
  MaxShown      \* bound: different tokens shown

Ids == Rotated \cup {Local}

\* The secrets of the environment are named by their version; what the random
\* source yields is none of them.
ASSUME TokensAssumption ==
  /\ Local \notin Rotated
  /\ Missing \notin Secrets /\ Torn \notin Secrets /\ Missing # Torn
  /\ Rotated \cap Secrets = {}
  /\ Nobody \notin Requests
  /\ MaxRevision \in Nat /\ MaxStops \in Nat /\ MaxShown \in Nat

VARIABLES
  file,    \* the local key file: Missing, Torn, or the secret in it
  stage,   \* how far each server is: down, create, write, reread or up
  drawn,   \* the secret a starting server drew, Missing if none
  active,  \* the version each running server seals with
  keys,    \* the secrets each running server holds, by version
  shown,   \* the tokens that servers answered with
  stops    \* history: servers stopped so far

signerVars == <<file, stage, drawn, active, keys, stops>>
vars == <<file, stage, drawn, active, keys, shown, stops>>

Stages == {"down", "create", "write", "reread", "up"}
Kinds == {"state", "episode"}

\* A game: the creation it answers, and the key, with its version, that its
\* seed and its name derive from.  An episode answers no creation and draws its
\* seed: the key it began under stands for it.
Games ==
  [request : Requests \cup {Nobody}, id : Ids, secret : Secrets \cup Rotated]

\* A token: which codec sealed it, the version and the secret it was sealed
\* with, the game in it and its revision.
Tokens ==
  [kind : Kinds, id : Ids, secret : Secrets \cup Rotated,
   game : Games, revision : 0..MaxRevision]

NoKeys == [id \in {} |-> Local]

Init ==
  /\ file = Missing
  /\ stage = [p \in Servers |-> "down"]
  /\ drawn = [p \in Servers |-> Missing]
  /\ active = [p \in Servers |-> Local]
  /\ keys = [p \in Servers |-> NoKeys]
  /\ shown = {}
  /\ stops = 0

-----------------------------------------------------------------------------
(***************************************************************************)
(* The signing keys                                                        *)
(***************************************************************************)

\* What the environment can provide under a version: a secret of its own, or
\* a copy of the key in the local file once there is one.
SecretOf(id) == IF id = Local THEN file ELSE id
Provided == Rotated \cup (IF file \in Secrets THEN {Local} ELSE {})

\* The server holds its active key and the previous ones it was given.  The
\* active version among the previous ones stops it.
Install(p, id, previous) ==
  /\ id \notin previous
  /\ active' = [active EXCEPT ![p] = id]
  /\ keys' = [keys EXCEPT ![p] = [k \in previous \cup {id} |-> SecretOf(k)]]

\* SIGNING_KEY_BASE64 is set: the local file plays no part.
StartRotated(p) ==
  /\ stage[p] = "down"
  /\ \E id \in Provided, previous \in SUBSET Provided : Install(p, id, previous)
  /\ stage' = [stage EXCEPT ![p] = "up"]
  /\ UNCHANGED <<file, drawn, shown, stops>>

\* LoadLocalSigner: without a file a key is drawn; a file is read.
DrawKey(p) ==
  /\ stage[p] = "down" /\ file = Missing
  /\ \E secret \in Secrets : drawn' = [drawn EXCEPT ![p] = secret]
  /\ stage' = [stage EXCEPT ![p] = "create"]
  /\ UNCHANGED <<file, active, keys, shown, stops>>

\* Fault: a file whose key cannot be decoded is written anew.
Replace(p) ==
  IF file = Torn THEN
    /\ stage' = [stage EXCEPT ![p] = "write"]
    /\ UNCHANGED <<active, keys>>
  ELSE
    /\ \E previous \in SUBSET (Provided \ {Local}) : Install(p, Local, previous)
    /\ stage' = [stage EXCEPT ![p] = "up"]

\* A file whose key cannot be decoded, or is too short, ends the start.
Decode(p) ==
  IF file = Torn THEN
    /\ stage' = [stage EXCEPT ![p] = "down"]
    /\ UNCHANGED <<active, keys>>
  ELSE
    /\ \E previous \in SUBSET (Provided \ {Local}) : Install(p, Local, previous)
    /\ stage' = [stage EXCEPT ![p] = "up"]

ReadFile(p) ==
  /\ \/ stage[p] = "down" /\ file # Missing
     \/ stage[p] = "reread"
  /\ Decode(p)
  /\ UNCHANGED <<file, drawn, shown, stops>>

\* Fault: the file is created or emptied, whether or not there was one.
CreateOrTruncate(p) ==
  /\ file' = Torn
  /\ stage' = [stage EXCEPT ![p] = "write"]

\* O_CREATE with O_EXCL: one server creates the file, the others read it.
CreateExclusive(p) ==
  IF file = Missing THEN
    /\ file' = Torn
    /\ stage' = [stage EXCEPT ![p] = "write"]
  ELSE
    /\ stage' = [stage EXCEPT ![p] = "reread"]
    /\ UNCHANGED file

CreateFile(p) ==
  /\ stage[p] = "create"
  /\ CreateExclusive(p)
  /\ UNCHANGED <<drawn, active, keys, shown, stops>>

\* The creator writes the key it drew and is up with it.
WriteKey(p) ==
  /\ stage[p] = "write"
  /\ file' = drawn[p]
  /\ \E previous \in SUBSET Rotated :
       /\ active' = [active EXCEPT ![p] = Local]
       /\ keys' = [keys EXCEPT ![p] =
                     [k \in previous \cup {Local} |->
                        IF k = Local THEN drawn[p] ELSE k]]
  /\ stage' = [stage EXCEPT ![p] = "up"]
  /\ drawn' = [drawn EXCEPT ![p] = Missing]
  /\ UNCHANGED <<shown, stops>>

\* A server ends, or is killed at any step of its start; a failed write ends
\* the start as well and leaves the file as it is.
Stop(p) ==
  /\ stage[p] # "down" /\ stops < MaxStops
  /\ stage' = [stage EXCEPT ![p] = "down"]
  /\ keys' = [keys EXCEPT ![p] = NoKeys]
  /\ drawn' = [drawn EXCEPT ![p] = Missing]
  /\ stops' = stops + 1
  /\ UNCHANGED <<file, active, shown>>

-----------------------------------------------------------------------------
(***************************************************************************)
(* Requests.  The browser may have lost any answer and repeat any request, *)
(* at any server.                                                          *)
(***************************************************************************)

Seal(p, kind, game, revision) ==
  [kind |-> kind, id |-> active[p], secret |-> keys[p][active[p]],
   game |-> game, revision |-> revision]

\* The game that a server starts for a request.
Derive(p, request) ==
  [request |-> request, id |-> active[p], secret |-> keys[p][active[p]]]

\* Open: what a server makes of a token offered to one of its codecs.  A token
\* of the other codec fails on its format or on a version nobody holds.
Open(p, kind, token) ==
  IF token.kind # kind THEN "INVALID_TOKEN"
  ELSE IF token.id \notin DOMAIN keys[p] THEN "KEY_UNAVAILABLE"
  ELSE IF keys[p][token.id] # token.secret THEN "INVALID_TOKEN"
  ELSE "ok"

\* EpisodeCodec: another format under the same keys.
SealEpisode(p, game, revision) == Seal(p, "episode", game, revision)
OpenEpisode(p, token) == Open(p, "episode", token)

Show(token) ==
  /\ token \in shown \/ Cardinality(shown) < MaxShown
  /\ shown' = shown \cup {token}

\* Create: the seed and the name of the game derive from the active secret and
\* the request.
Create(p, request) ==
  /\ stage[p] = "up"
  /\ Show(Seal(p, "state", Derive(p, request), 0))
  /\ UNCHANGED signerVars

\* Command: the game of a valid token moves on and is sealed with the active
\* key.
Command(p, token) ==
  /\ stage[p] = "up" /\ token.revision < MaxRevision
  /\ Open(p, "state", token) = "ok"
  /\ Show(Seal(p, "state", token.game, token.revision + 1))
  /\ UNCHANGED signerVars

\* Restore and the advice for a token open it in the same way; Restore seals
\* the unchanged game again.
Restore(p, token) ==
  /\ stage[p] = "up"
  /\ Open(p, "state", token) = "ok"
  /\ Show(Seal(p, "state", token.game, token.revision))
  /\ UNCHANGED signerVars

\* Reset and Step of the training service.
ResetEpisode(p) ==
  /\ stage[p] = "up"
  /\ Show(SealEpisode(p, Derive(p, Nobody), 0))
  /\ UNCHANGED signerVars

StepEpisode(p, token) ==
  /\ stage[p] = "up" /\ token.revision < MaxRevision
  /\ OpenEpisode(p, token) = "ok"
  /\ Show(SealEpisode(p, token.game, token.revision + 1))
  /\ UNCHANGED signerVars

-----------------------------------------------------------------------------
Starting(p) ==
  StartRotated(p) \/ DrawKey(p) \/ ReadFile(p) \/ CreateFile(p) \/ WriteKey(p)

Serving(p) ==
  \/ \E request \in Requests : Create(p, request)
  \/ \E token \in shown : Command(p, token) \/ Restore(p, token)
  \/ ResetEpisode(p)
  \/ \E token \in shown : StepEpisode(p, token)

Next == \E p \in Servers : Starting(p) \/ Stop(p) \/ Serving(p)

Spec == Init /\ [][Next]_vars

-----------------------------------------------------------------------------
(***************************************************************************)
(* Properties                                                              *)
(***************************************************************************)

\* No server takes a token of another, or of its own past, for a forgery: one
\* that holds the token's version opens it, whichever servers raced to create
\* the local key, stopped half way or were rotated in between.
TokensOpen ==
  \A p \in Servers, token \in shown :
    stage[p] = "up" => Open(p, token.kind, token) # "INVALID_TOKEN"

\* A creation that is repeated, at any server, starts the same game again
\* as long as the same key version is active.
RetriesAgree ==
  \A first, second \in shown :
    /\ first.game.request # Nobody
    /\ first.game.request = second.game.request
    /\ first.game.id = second.game.id
    => first.game = second.game

\* What a server may hold: secrets by version.
KeySets == UNION {[held -> Secrets \cup Rotated] : held \in SUBSET Ids}

TypeOK ==
  /\ file \in Secrets \cup {Missing, Torn}
  /\ stage \in [Servers -> Stages]
  /\ drawn \in [Servers -> Secrets \cup {Missing}]
  /\ active \in [Servers -> Ids]
  /\ keys \in [Servers -> KeySets]
  /\ shown \in SUBSET Tokens

\* A secret is the one of its version; the local version has one only once the
\* file is written, which then never changes.
Genuine(id, secret) ==
  /\ secret = SecretOf(id)
  /\ id = Local => file \in Secrets

\* A server that has drawn a key writes it only into the file it created
\* itself, and only one server ever creates it.
OneWriter ==
  \A p \in Servers :
    /\ stage[p] \in {"create", "write"} => drawn[p] \in Secrets
    /\ stage[p] = "reread" => file # Missing
    /\ stage[p] = "write" =>
         file = Torn /\ \A q \in Servers : stage[q] = "write" => q = p

KeysGenuine ==
  \A p \in Servers :
    /\ stage[p] = "up" => active[p] \in DOMAIN keys[p]
    /\ \A id \in DOMAIN keys[p] : Genuine(id, keys[p][id])

ShownGenuine ==
  \A token \in shown :
    Genuine(token.id, token.secret) /\ Genuine(token.game.id, token.game.secret)

\* The invariant that every step preserves.
IInv == TypeOK /\ OneWriter /\ KeysGenuine /\ ShownGenuine
=============================================================================
