----------------------------- MODULE AccessKeys -----------------------------
(***************************************************************************)
(* The access keys of one game: players who own an asset of the game claim *)
(* maxAccessKeysPerPlayer of them (services/accessKey/                     *)
(* AssetConditionalKeyClaimer), while a script adds keys to the pool.      *)
(* Several claims, of one player or of many, run at the same time; each    *)
(* await of a claim is a step.                                             *)
(*                                                                         *)
(* A key is its position in the collection: find() without a sort returns  *)
(* the documents in that order.                                            *)
(***************************************************************************)
EXTENDS Integers, FiniteSets, Sequences

CONSTANTS
    Users,
    NoUser,
    Claims,                  \* the PATCH requests ever made
    MaxAccessKeysPerPlayer,  \* settings.accessKeys.maxAccessKeysPerPlayer
    MaxKeys,                 \* bound: keys ever generated
    MaxFaults                \* bound: failed writes and process deaths

ASSUME KeysAssumption ==
    /\ NoUser \notin Users
    /\ MaxAccessKeysPerPlayer \in Nat \ {0}
    /\ MaxKeys \in Nat
    /\ MaxFaults \in Nat

VARIABLES
    owner,      \* owner[k]: the userId of key k, NoUser while it is not active
    stage,      \* where each claim is
    player,     \* the user who makes the claim
    available,  \* availableKeys, as the claim read them
    todo,       \* the activations of the claim still running
    given,      \* the keys its activations returned
    faults      \* faults so far

claimVars == <<stage, player, available, todo, given>>
vars == <<owner, claimVars, faults>>

-----------------------------------------------------------------------------
Stages == {"new",       \* not sent yet
           "check",     \* checkClaimedKeys is out
           "verify",    \* the balances of the collections are out
           "activate",  \* activateKeyById is out for each key
           "answered",  \* the keys were sent to the player
           "failed"}    \* an error was sent, or nothing

Keys == 1 .. MaxKeys
Free == {k \in DOMAIN owner : owner[k] = NoUser}
KeysOf(u) == {k \in DOMAIN owner : owner[k] = u}

(* getAvailableKeys: the first inactive keys, at most the maximum.          *)
Rank(k) == Cardinality({j \in Free : j <= k})
AvailableKeys == {k \in Free : Rank(k) <= MaxAccessKeysPerPlayer}

Init ==
    /\ owner = <<>>
    /\ stage = [c \in Claims |-> "new"]
    /\ player = [c \in Claims |-> NoUser]
    /\ available = [c \in Claims |-> {}]
    /\ todo = [c \in Claims |-> {}]
    /\ given = [c \in Claims |-> {}]
    /\ faults = 0

Goto(c, s) == stage' = [stage EXCEPT ![c] = s]

(* The script's keys are imported one document at a time.                   *)
GenerateKey ==
    /\ Len(owner) < MaxKeys
    /\ owner' = Append(owner, NoUser)
    /\ UNCHANGED <<claimVars, faults>>

(* PATCH: the game has keys (validateGameId), and the reads of the first    *)
(* Promise.all, of which only the keys can change.                          *)
ReadKeys(c, u) ==
    /\ stage[c] = "new"
    /\ owner # <<>>
    /\ player' = [player EXCEPT ![c] = u]
    /\ available' = [available EXCEPT ![c] = AvailableKeys]
    /\ Goto(c, "check")
    /\ UNCHANGED <<owner, todo, given, faults>>

(* "Key already claimed by user": any key of the player refuses the claim.  *)
AlreadyClaimed_Full(u) == Cardinality(KeysOf(u)) > MaxAccessKeysPerPlayer
AlreadyClaimed(u) == KeysOf(u) # {}

CheckClaimedKeys(c) ==
    /\ stage[c] = "check"
    /\ Goto(c, IF AlreadyClaimed(player[c]) THEN "failed" ELSE "verify")
    /\ UNCHANGED <<owner, player, available, todo, given, faults>>

(* The player owns no asset of the game's collections, or fewer keys are    *)
(* left than a player gets: "Ran out of AccessKeys".                        *)
Refuse(c) ==
    /\ stage[c] = "verify"
    /\ Goto(c, "failed")
    /\ UNCHANGED <<owner, player, available, todo, given, faults>>

(* activateKeys: one activateKeyById for each key that was read.            *)
ToActivate_Positions(c) == 0 .. MaxAccessKeysPerPlayer - 1
ToActivate_AllButFirst(c) == {k \in available[c] : \E j \in available[c] : j < k}
ToActivate(c) == available[c]

Qualify(c) ==
    /\ stage[c] = "verify"
    /\ Cardinality(available[c]) = MaxAccessKeysPerPlayer
    /\ Goto(c, "activate")
    /\ todo' = [todo EXCEPT ![c] = ToActivate(c)]
    /\ UNCHANGED <<owner, player, available, given, faults>>

(* activateKeyById: one atomic findOneAndUpdate of a key that is not        *)
(* active; null when it is.                                                 *)
Activable_Any(k) == TRUE
Activable(k) == owner[k] = NoUser

ActivateKeyById(c, k) ==
    /\ stage[c] = "activate" /\ k \in todo[c]
    /\ todo' = [todo EXCEPT ![c] = @ \ {k}]
    /\ IF Activable(k)
       THEN /\ owner' = [owner EXCEPT ![k] = player[c]]
            /\ given' = [given EXCEPT ![c] = @ \cup {k}]
       ELSE UNCHANGED <<owner, given>>
    /\ UNCHANGED <<stage, player, available, faults>>

(* The update fails; the others run on.                                     *)
ActivationFails(c, k) ==
    /\ stage[c] = "activate" /\ k \in todo[c]
    /\ faults < MaxFaults
    /\ faults' = faults + 1
    /\ todo' = [todo EXCEPT ![c] = @ \ {k}]
    /\ UNCHANGED <<owner, stage, player, available, given>>

(* AccessKeySerializer throws on a null among the keys.                     *)
Answer(c) ==
    /\ stage[c] = "activate" /\ todo[c] = {}
    /\ Goto(c, IF given[c] = available[c] THEN "answered" ELSE "failed")
    /\ UNCHANGED <<owner, player, available, todo, given, faults>>

(* The API process dies: the claim stops where it is.                       *)
Crash(c) ==
    /\ stage[c] \in {"check", "verify", "activate"}
    /\ faults < MaxFaults
    /\ faults' = faults + 1
    /\ Goto(c, "failed")
    /\ todo' = [todo EXCEPT ![c] = {}]
    /\ UNCHANGED <<owner, player, available, given>>

Next ==
    \/ GenerateKey
    \/ \E c \in Claims :
          \/ \E u \in Users : ReadKeys(c, u)
          \/ CheckClaimedKeys(c)
          \/ Refuse(c)
          \/ Qualify(c)
          \/ \E k \in todo[c] : ActivateKeyById(c, k) \/ ActivationFails(c, k)
          \/ Answer(c)
          \/ Crash(c)

Spec == Init /\ [][Next]_vars

-----------------------------------------------------------------------------
(* Every variable stays in its type (AccessKey documents, and the locals of *)
(* AssetConditionalKeyClaimer.apply).                                       *)
TypeOK ==
    /\ owner \in Seq(Users \cup {NoUser}) /\ Len(owner) <= MaxKeys
    /\ stage \in [Claims -> Stages]
    /\ player \in [Claims -> Users \cup {NoUser}]
    /\ available \in [Claims -> SUBSET DOMAIN owner]
    /\ todo \in [Claims -> SUBSET DOMAIN owner]
    /\ given \in [Claims -> SUBSET DOMAIN owner]
    /\ faults \in 0 .. MaxFaults

(* No player has more than maxAccessKeysPerPlayer keys, though claims of    *)
(* one player may all pass checkClaimedKeys before any of them activates a  *)
(* key: what keeps them within the maximum is that they read the same first *)
(* keys (getAvailableKeys).                                                 *)
CapPerPlayer ==
    \A u \in Users : Cardinality(KeysOf(u)) <= MaxAccessKeysPerPlayer

(* A key is given to one claim only, and its player keeps it for ever       *)
(* (activateKeyById).                                                       *)
KeyGivenOnce ==
    /\ \A c, d \in Claims : c # d => given[c] \cap given[d] = {}
    /\ \A c \in Claims : given[c] \subseteq KeysOf(player[c])

(* When nothing fails and all his claims are over, a player who has some    *)
(* keys has all of them, unless another player was given one of those his   *)
(* claim had read (activateKeys runs side by side).                         *)
Over(u) == \A c \in Claims : player[c] = u => stage[c] \in {"answered", "failed"}
Rivals(u) == {c \in Claims : player[c] # u /\ \E d \in Claims :
                 player[d] = u /\ given[c] \cap available[d] # {}}
ShortOnlyByRivals ==
    \A u \in Users :
        /\ faults = 0 /\ Over(u)
        /\ KeysOf(u) # {} /\ Rivals(u) = {}
        => Cardinality(KeysOf(u)) = MaxAccessKeysPerPlayer

(* Claims that run side by side, fail and die implement a pool that gives   *)
(* its keys out one at a time: though a claim checks and writes in separate *)
(* steps, none gives a player a key beyond the maximum, and a claim that is *)
(* answered has given its player all the keys of that player.               *)
Pool == INSTANCE KeyPool WITH
            Maximum <- MaxAccessKeysPerPlayer,
            answer  <- [c \in Claims |-> IF stage[c] = "answered" THEN given[c] ELSE {}]
ImplementsKeyPool == Pool!Spec

(* "returns three claimed keys" (test of AccessKeyController): a player who *)
(* got any key has got them all once his claims are over.                   *)
ClaimersGetAllKeys ==
    \A u \in Users :
        faults = 0 /\ Over(u) /\ KeysOf(u) # {}
        => Cardinality(KeysOf(u)) = MaxAccessKeysPerPlayer
=============================================================================
