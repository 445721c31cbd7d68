-------------------------- MODULE AccessKeysProofs --------------------------
(***************************************************************************)
(* Theorems about AccessKeys, for any number of players, claims and keys   *)
(* and any maximum per player.                                             *)
(***************************************************************************)
EXTENDS AccessKeys, FiniteSetTheorems, TLAPS

-----------------------------------------------------------------------------
(* Type correctness.                                                        *)

LEMMA InitType == Init => TypeOK
  BY KeysAssumption DEF Init, TypeOK, Stages

LEMMA StepType == TypeOK /\ [Next]_vars => TypeOK'
  <1> SUFFICES ASSUME TypeOK, [Next]_vars PROVE TypeOK'
    OBVIOUS
  <1> USE DEF TypeOK, Stages, Goto
  <1>a. AvailableKeys \subseteq DOMAIN owner
    BY DEF AvailableKeys, Free
  <1>1. CASE GenerateKey
    <2>1. /\ owner' \in Seq(Users \cup {NoUser})
          /\ Len(owner') = Len(owner) + 1 /\ DOMAIN owner \subseteq DOMAIN owner'
      BY <1>1 DEF GenerateKey
    <2>2. Len(owner') <= MaxKeys
      BY <1>1, <2>1, KeysAssumption DEF GenerateKey
    <2> QED
      BY <1>1, <2>1, <2>2 DEF GenerateKey, claimVars
  <1>2. ASSUME NEW c \in Claims, NEW u \in Users, ReadKeys(c, u)
        PROVE  TypeOK'
    BY <1>2, <1>a DEF ReadKeys
  <1>3. ASSUME NEW c \in Claims, CheckClaimedKeys(c)
        PROVE  TypeOK'
    BY <1>3 DEF CheckClaimedKeys
  <1>4. ASSUME NEW c \in Claims, Refuse(c)
        PROVE  TypeOK'
    BY <1>4 DEF Refuse
  <1>5. ASSUME NEW c \in Claims, Qualify(c)
        PROVE  TypeOK'
    BY <1>5 DEF Qualify, ToActivate
  <1>6. ASSUME NEW c \in Claims, NEW k \in todo[c], ActivateKeyById(c, k)
        PROVE  TypeOK'
    <2>1. k \in DOMAIN owner
      OBVIOUS
    <2>2. /\ owner' \in Seq(Users \cup {NoUser})
          /\ Len(owner') = Len(owner) /\ DOMAIN owner' = DOMAIN owner
      BY <1>6, <2>1 DEF ActivateKeyById
    <2>3. todo' \in [Claims -> SUBSET DOMAIN owner]
      BY <1>6 DEF ActivateKeyById
    <2>4. given' \in [Claims -> SUBSET DOMAIN owner]
      BY <1>6, <2>1 DEF ActivateKeyById
    <2> QED
      BY <1>6, <2>2, <2>3, <2>4 DEF ActivateKeyById
  <1>7. ASSUME NEW c \in Claims, NEW k \in todo[c], ActivationFails(c, k)
        PROVE  TypeOK'
    BY <1>7, KeysAssumption DEF ActivationFails
  <1>8. ASSUME NEW c \in Claims, Answer(c)
        PROVE  TypeOK'
    BY <1>8 DEF Answer
  <1>9. ASSUME NEW c \in Claims, Crash(c)
        PROVE  TypeOK'
    BY <1>9, KeysAssumption DEF Crash
  <1>10. CASE UNCHANGED vars
    BY <1>10 DEF vars, claimVars
  <1> QED
    BY <1>1, <1>2, <1>3, <1>4, <1>5, <1>6, <1>7, <1>8, <1>9, <1>10 DEF Next

(* The documents and the locals of every claim stay in their types.         *)
THEOREM KeysTypeCorrect == Spec => []TypeOK
  BY InitType, StepType, PTL DEF Spec

-----------------------------------------------------------------------------
(* The first keys of the pool.                                              *)

LEMMA FreeIsFinite ==
    ASSUME TypeOK
    PROVE  /\ IsFiniteSet(DOMAIN owner) /\ DOMAIN owner \subseteq Nat
           /\ IsFiniteSet(Free) /\ Free \subseteq DOMAIN owner
  <1>1. DOMAIN owner = 1 .. Len(owner) /\ Len(owner) \in Nat
    BY DEF TypeOK
  <1>2. IsFiniteSet(DOMAIN owner)
    BY <1>1, FS_Interval
  <1>3. Free \subseteq DOMAIN owner
    BY DEF Free
  <1> QED
    BY <1>1, <1>2, <1>3, FS_Subset

(* The rank of a free key counts it, and grows with it.                     *)
LEMMA RankGrows ==
    ASSUME TypeOK, NEW j \in Free, NEW k \in Free
    PROVE  /\ Rank(k) \in Nat /\ Rank(k) >= 1
           /\ j < k => Rank(j) < Rank(k)
  <1> DEFINE Upto(x) == {i \in Free : i <= x}
  <1>n. Free \subseteq Nat
    BY FreeIsFinite
  <1>1. \A x : IsFiniteSet(Upto(x)) /\ Cardinality(Upto(x)) \in Nat
    BY FreeIsFinite, FS_Subset, FS_CardinalityType
  <1>2. Cardinality(Upto(k)) # 0
    <2>1. k \in Upto(k)
      BY <1>n
    <2> QED
      BY <1>1, <2>1, FS_EmptySet
  <1>3. ASSUME j < k
        PROVE  Cardinality(Upto(j)) < Cardinality(Upto(k))
    <2>0. \A i \in Free : i <= j => i <= k
      BY <1>3, <1>n
    <2>1. Upto(j) \in SUBSET Upto(k)
      BY <2>0
    <2>2. k \in Upto(k) /\ k \notin Upto(j)
      BY <1>3, <1>n
    <2>3. /\ Cardinality(Upto(j)) <= Cardinality(Upto(k))
          /\ Cardinality(Upto(k)) = Cardinality(Upto(j)) => Upto(k) = Upto(j)
      BY <1>1, <2>1, FS_Subset
    <2> QED
      BY <1>1, <2>2, <2>3
  <1> QED
    BY <1>1, <1>2, <1>3 DEF Rank

(* getAvailableKeys(gameId, limit) returns at most limit keys.              *)
LEMMA AvailableAtMostMax ==
    ASSUME TypeOK
    PROVE  /\ IsFiniteSet(AvailableKeys)
           /\ Cardinality(AvailableKeys) <= MaxAccessKeysPerPlayer
  <1> DEFINE ranks == 1 .. MaxAccessKeysPerPlayer
             rank == [k \in AvailableKeys |-> Rank(k)]
  <1>1. IsFiniteSet(ranks) /\ Cardinality(ranks) = MaxAccessKeysPerPlayer
    BY FS_Interval, KeysAssumption
  <1>2. AvailableKeys \subseteq Free /\ Free \subseteq Nat
    BY FreeIsFinite DEF AvailableKeys
  <1>3. ASSUME NEW k \in AvailableKeys
        PROVE  Rank(k) \in ranks
    BY <1>2, RankGrows, KeysAssumption DEF AvailableKeys
  <1>4. ASSUME NEW j \in AvailableKeys, NEW k \in AvailableKeys, Rank(j) = Rank(k)
        PROVE  j = k
    <2>1. j \in Free /\ k \in Free /\ j \in Nat /\ k \in Nat
      BY <1>2
    <2>2. Rank(j) \in Nat /\ Rank(k) \in Nat
      BY <2>1, RankGrows
    <2>3. ~(j < k) /\ ~(k < j)
      BY <1>4, <2>1, <2>2, RankGrows
    <2> QED
      BY <2>1, <2>3
  <1>5. rank \in Injection(AvailableKeys, ranks)
    BY <1>3, <1>4 DEF Injection, IsInjective
  <1> HIDE DEF ranks, rank
  <1> QED
    BY <1>1, <1>5, FS_Injection

-----------------------------------------------------------------------------
(* The maximum per player.  The keys that a player has and those that his   *)
(* qualified claims may still activate are together no more than the        *)
(* maximum; and what a claim has read is, as far as it is still free, among *)
(* the first keys of the pool now.                                          *)

Qualified(u) == {c \in Claims : player[c] = u /\ stage[c] \in {"verify", "activate"}}
Live(u) == UNION {available[c] \cap Free : c \in Qualified(u)}
Reach(u) == KeysOf(u) \cup Live(u)

CapInv ==
    /\ \A c \in Claims : available[c] \cap Free \subseteq AvailableKeys
    /\ \A c \in Claims : stage[c] = "activate" => todo[c] \subseteq available[c]
    /\ \A u \in Users : Cardinality(Reach(u)) <= MaxAccessKeysPerPlayer

LEMMA ReachIsFinite ==
    ASSUME TypeOK, NEW u
    PROVE  IsFiniteSet(Reach(u)) /\ Cardinality(Reach(u)) \in Nat
  <1>1. Reach(u) \in SUBSET DOMAIN owner
    BY DEF Reach, KeysOf, Live, Free
  <1> QED
    BY <1>1, FreeIsFinite, FS_Subset, FS_CardinalityType

LEMMA CapImplied ==
    ASSUME TypeOK, CapInv
    PROVE  CapPerPlayer
  <1> SUFFICES ASSUME NEW u \in Users
               PROVE  Cardinality(KeysOf(u)) <= MaxAccessKeysPerPlayer
    BY DEF CapPerPlayer
  <1>1. KeysOf(u) \in SUBSET Reach(u)
    BY DEF Reach
  <1>2. /\ IsFiniteSet(KeysOf(u)) /\ Cardinality(KeysOf(u)) <= Cardinality(Reach(u))
    BY <1>1, ReachIsFinite, FS_Subset
  <1>3. Cardinality(KeysOf(u)) \in Nat
    BY <1>2, FS_CardinalityType
  <1> QED
    BY <1>2, <1>3, ReachIsFinite, KeysAssumption DEF CapInv

LEMMA InitCap == Init => CapInv
  <1> SUFFICES ASSUME Init PROVE CapInv
    OBVIOUS
  <1>1. \A u : Reach(u) = {}
    BY DEF Init, Reach, KeysOf, Live, Free
  <1>2. \A u : Cardinality(Reach(u)) <= MaxAccessKeysPerPlayer
    BY <1>1, FS_EmptySet, KeysAssumption
  <1> QED
    BY <1>2 DEF Init, CapInv, Free

(* A step that gives no player a key to reach keeps the third part.         *)
LEMMA ReachShrinks ==
    ASSUME TypeOK, CapInv, \A u \in Users : Reach(u)' \subseteq Reach(u)
    PROVE  \A u \in Users : Cardinality(Reach(u)') <= MaxAccessKeysPerPlayer
  <1> SUFFICES ASSUME NEW u \in Users
               PROVE  Cardinality(Reach(u)') <= MaxAccessKeysPerPlayer
    OBVIOUS
  <1>1. IsFiniteSet(Reach(u)') /\ Cardinality(Reach(u)') <= Cardinality(Reach(u))
    BY ReachIsFinite, FS_Subset
  <1>2. Cardinality(Reach(u)') \in Nat
    BY <1>1, FS_CardinalityType
  <1> QED
    BY <1>1, <1>2, ReachIsFinite, KeysAssumption DEF CapInv

(* A step that leaves the keys and what was read alone keeps the first part. *)
LEMMA PoolUnchanged ==
    ASSUME owner' = owner
    PROVE  /\ Free' = Free /\ AvailableKeys' = AvailableKeys
           /\ \A u : KeysOf(u)' = KeysOf(u)
  BY DEF Free, AvailableKeys, Rank, KeysOf

(* Taking keys out of the pool moves the others forward.                    *)
LEMMA FirstStayFirst ==
    ASSUME TypeOK, Free' \subseteq Free
    PROVE  AvailableKeys \cap Free' \subseteq AvailableKeys'
  <1> SUFFICES ASSUME NEW k \in AvailableKeys, k \in Free'
               PROVE  k \in AvailableKeys'
    OBVIOUS
  <1> DEFINE was == {j \in Free : j <= k}
             now == {j \in Free' : j <= k}
  <1>1. IsFiniteSet(was) /\ Cardinality(was) \in Nat
    BY FreeIsFinite, FS_Subset, FS_CardinalityType
  <1>2. now \in SUBSET was
    OBVIOUS
  <1>3. IsFiniteSet(now) /\ Cardinality(now) <= Cardinality(was)
    BY <1>1, <1>2, FS_Subset
  <1>4. Cardinality(now) \in Nat
    BY <1>3, FS_CardinalityType
  <1>5. Cardinality(was) <= MaxAccessKeysPerPlayer
    BY DEF AvailableKeys, Rank
  <1>6. Cardinality(now) <= MaxAccessKeysPerPlayer
    BY <1>1, <1>3, <1>4, <1>5, KeysAssumption
  <1> QED
    BY <1>6 DEF AvailableKeys, Rank

LEMMA StepCap == TypeOK /\ CapInv /\ [Next]_vars => CapInv'
  <1> SUFFICES ASSUME TypeOK, CapInv, [Next]_vars PROVE CapInv'
    OBVIOUS
  <1>0. \A c \in Claims : todo[c] \subseteq DOMAIN owner /\ available[c] \subseteq DOMAIN owner
    BY DEF TypeOK
  <1>1. CASE GenerateKey
    <2> DEFINE new == Len(owner) + 1
    <2>1. /\ Len(owner) \in Nat /\ DOMAIN owner = 1 .. Len(owner)
          /\ DOMAIN owner' = 1 .. new /\ owner'[new] = NoUser
          /\ \A k \in DOMAIN owner : owner'[k] = owner[k]
      BY <1>1 DEF GenerateKey, TypeOK
    <2>2. Free' = Free \cup {new} /\ new \notin DOMAIN owner
      BY <2>1 DEF Free
    <2>3. \A u \in Users : KeysOf(u)' = KeysOf(u)
      BY <2>1, KeysAssumption DEF KeysOf
    <2>4. AvailableKeys \subseteq AvailableKeys'
      <3> SUFFICES ASSUME NEW k \in AvailableKeys PROVE k \in AvailableKeys'
        OBVIOUS
      <3>1. k \in Free /\ k \in 1 .. Len(owner)
        BY <2>1 DEF AvailableKeys, Free
      <3>2. {j \in Free' : j <= k} = {j \in Free : j <= k}
        BY <2>1, <2>2, <3>1
      <3> QED
        BY <2>2, <3>1, <3>2 DEF AvailableKeys, Rank
    <2>5. \A c \in Claims : available'[c] \cap Free' = available[c] \cap Free
      BY <1>0, <1>1, <2>2 DEF GenerateKey, claimVars
    <2>6. \A u \in Users : Qualified(u)' = Qualified(u)
      BY <1>1 DEF GenerateKey, claimVars, Qualified
    <2>7. \A u \in Users : Reach(u)' \subseteq Reach(u)
      BY <2>3, <2>5, <2>6 DEF Reach, Live, Qualified
    <2>8. \A u \in Users : Cardinality(Reach(u)') <= MaxAccessKeysPerPlayer
      BY <2>7, ReachShrinks
    <2> QED
      BY <1>1, <2>4, <2>5, <2>8 DEF CapInv, GenerateKey, claimVars
  <1>2. ASSUME NEW c \in Claims, NEW u \in Users, ReadKeys(c, u)
        PROVE  CapInv'
    <2>1. owner' = owner /\ stage[c] = "new" /\ stage' = [stage EXCEPT ![c] = "check"]
          /\ player' = [player EXCEPT ![c] = u]
          /\ available' = [available EXCEPT ![c] = AvailableKeys] /\ todo' = todo
      BY <1>2 DEF ReadKeys, Goto
    <2>2. \A d \in Claims : available'[d] \cap Free \subseteq AvailableKeys
      BY <2>1 DEF CapInv, TypeOK
    <2>3. \A v \in Users : \A d \in Qualified(v)' :
              d \in Qualified(v) /\ available'[d] = available[d]
      BY <2>1 DEF Qualified, TypeOK
    <2>4. \A v \in Users : Reach(v)' \subseteq Reach(v)
      BY <2>1, <2>3, PoolUnchanged DEF Reach, Live
    <2> QED
      BY <2>1, <2>2, <2>4, PoolUnchanged, ReachShrinks DEF CapInv, TypeOK
  <1>3. ASSUME NEW c \in Claims, CheckClaimedKeys(c)
        PROVE  CapInv'
    <2>1. /\ owner' = owner /\ player' = player /\ available' = available
          /\ todo' = todo
          /\ stage' = [stage EXCEPT ![c] = IF KeysOf(player[c]) # {}
                                            THEN "failed" ELSE "verify"]
      BY <1>3 DEF CheckClaimedKeys, Goto, AlreadyClaimed
    <2>2. ASSUME NEW u \in Users
          PROVE  Cardinality(Reach(u)') <= MaxAccessKeysPerPlayer
      <3>1. CASE u = player[c] /\ KeysOf(u) = {}
        <4>1. Reach(u)' \in SUBSET AvailableKeys
          BY <2>1, <3>1, PoolUnchanged DEF Reach, Live, Qualified, CapInv
        <4>2. IsFiniteSet(AvailableKeys)
              /\ Cardinality(AvailableKeys) <= MaxAccessKeysPerPlayer
          BY AvailableAtMostMax
        <4>3. IsFiniteSet(Reach(u)')
              /\ Cardinality(Reach(u)') <= Cardinality(AvailableKeys)
          BY <4>1, <4>2, FS_Subset
        <4>4. Cardinality(Reach(u)') \in Nat /\ Cardinality(AvailableKeys) \in Nat
          BY <4>2, <4>3, FS_CardinalityType
        <4> QED
          BY <4>2, <4>3, <4>4, KeysAssumption
      <3>2. CASE u # player[c] \/ KeysOf(u) # {}
        <4>1. Qualified(u)' \subseteq Qualified(u)
          BY <2>1, <3>2 DEF Qualified, TypeOK
        <4>2. Reach(u)' \in SUBSET Reach(u)
          BY <2>1, <4>1, PoolUnchanged DEF Reach, Live
        <4>3. IsFiniteSet(Reach(u)') /\ Cardinality(Reach(u)') <= Cardinality(Reach(u))
          BY <4>2, ReachIsFinite, FS_Subset
        <4>4. Cardinality(Reach(u)') \in Nat
          BY <4>3, FS_CardinalityType
        <4> QED
          BY <4>3, <4>4, ReachIsFinite, KeysAssumption DEF CapInv
      <3> QED
        BY <3>1, <3>2
    <2> QED
      BY <2>1, <2>2, PoolUnchanged DEF CapInv, TypeOK
  <1>4. ASSUME NEW c \in Claims, Refuse(c)
        PROVE  CapInv'
    <2>1. /\ owner' = owner /\ player' = player /\ available' = available
          /\ todo' = todo /\ stage' = [stage EXCEPT ![c] = "failed"]
      BY <1>4 DEF Refuse, Goto
    <2>2. \A u \in Users : Reach(u)' \subseteq Reach(u)
      BY <2>1, PoolUnchanged DEF Reach, Live, Qualified, TypeOK
    <2> QED
      BY <2>1, <2>2, PoolUnchanged, ReachShrinks DEF CapInv, TypeOK
  <1>5. ASSUME NEW c \in Claims, Qualify(c)
        PROVE  CapInv'
    <2>1. /\ owner' = owner /\ player' = player /\ available' = available
          /\ todo' = [todo EXCEPT ![c] = available[c]]
          /\ stage[c] = "verify" /\ stage' = [stage EXCEPT ![c] = "activate"]
      BY <1>5 DEF Qualify, Goto, ToActivate
    <2>2. \A u \in Users : Reach(u)' \subseteq Reach(u)
      BY <2>1, PoolUnchanged DEF Reach, Live, Qualified, TypeOK
    <2> QED
      BY <2>1, <2>2, PoolUnchanged, ReachShrinks DEF CapInv, TypeOK
  <1>6. ASSUME NEW c \in Claims, NEW k \in todo[c], ActivateKeyById(c, k)
        PROVE  CapInv'
    <2>1. /\ stage' = stage /\ player' = player /\ available' = available
          /\ stage[c] = "activate"
          /\ todo' = [todo EXCEPT ![c] = @ \ {k}]
      BY <1>6 DEF ActivateKeyById
    <2>2. \A d \in Claims : stage'[d] = "activate" => todo'[d] \subseteq available'[d]
      BY <2>1 DEF CapInv, TypeOK
    <2>3. CASE owner' = owner
      <3>1. \A u \in Users : Reach(u)' \subseteq Reach(u)
        BY <2>1, <2>3, PoolUnchanged DEF Reach, Live, Qualified
      <3> QED
        BY <2>1, <2>2, <2>3, <3>1, PoolUnchanged, ReachShrinks DEF CapInv
    <2>4. CASE owner[k] = NoUser /\ owner' = [owner EXCEPT ![k] = player[c]]
      <3>1. k \in DOMAIN owner /\ k \in available[c] /\ k \in Free
        BY <2>1, <2>4 DEF CapInv, TypeOK, Free
      <3>2. /\ DOMAIN owner' = DOMAIN owner /\ owner'[k] = player[c]
            /\ \A j \in DOMAIN owner : j # k => owner'[j] = owner[j]
        BY <2>4, <3>1
      <3>3. Free' \subseteq Free
        BY <3>1, <3>2 DEF Free
      <3>4. \A u \in Users : Live(u)' \subseteq Live(u)
        BY <2>1, <3>3 DEF Live, Qualified
      <3>5. \A u \in Users : KeysOf(u)' \subseteq Reach(u)
        <4> SUFFICES ASSUME NEW u \in Users, NEW j \in KeysOf(u)'
                     PROVE  j \in Reach(u)
          OBVIOUS
        <4>1. CASE j # k
          BY <3>2, <4>1 DEF KeysOf, Reach
        <4>2. CASE j = k
          <5>1. player[c] = u
            BY <3>2, <4>2 DEF KeysOf
          <5>2. c \in Qualified(u)
            BY <2>1, <5>1 DEF Qualified
          <5> QED
            BY <3>1, <4>2, <5>2 DEF Reach, Live
        <4> QED
          BY <4>1, <4>2
      <3>6. \A u \in Users : Reach(u)' \subseteq Reach(u)
        BY <3>4, <3>5 DEF Reach
      <3>7. AvailableKeys \cap Free' \subseteq AvailableKeys'
        BY <3>3, FirstStayFirst
      <3>8. \A d \in Claims : available'[d] \cap Free' \subseteq AvailableKeys'
        BY <2>1, <3>3, <3>7 DEF CapInv
      <3> QED
        BY <2>2, <3>6, <3>8, ReachShrinks DEF CapInv
    <2> QED
      BY <1>6, <2>3, <2>4 DEF ActivateKeyById, Activable
  <1>7. ASSUME NEW c \in Claims, NEW k \in todo[c], ActivationFails(c, k)
        PROVE  CapInv'
    <2>1. /\ owner' = owner /\ player' = player /\ available' = available
          /\ stage' = stage /\ todo' = [todo EXCEPT ![c] = @ \ {k}]
      BY <1>7 DEF ActivationFails
    <2>2. \A u \in Users : Reach(u)' \subseteq Reach(u)
      BY <2>1, PoolUnchanged DEF Reach, Live, Qualified
    <2> QED
      BY <2>1, <2>2, PoolUnchanged, ReachShrinks DEF CapInv, TypeOK
  <1>8. ASSUME NEW c \in Claims, Answer(c)
        PROVE  CapInv'
    <2>1. /\ owner' = owner /\ player' = player /\ available' = available
          /\ todo' = todo
          /\ stage' = [stage EXCEPT ![c] = IF given[c] = available[c]
                                            THEN "answered" ELSE "failed"]
      BY <1>8 DEF Answer, Goto
    <2>2. \A u \in Users : Reach(u)' \subseteq Reach(u)
      BY <2>1, PoolUnchanged DEF Reach, Live, Qualified, TypeOK
    <2> QED
      BY <2>1, <2>2, PoolUnchanged, ReachShrinks DEF CapInv, TypeOK
  <1>9. ASSUME NEW c \in Claims, Crash(c)
        PROVE  CapInv'
    <2>1. /\ owner' = owner /\ player' = player /\ available' = available
          /\ todo' = [todo EXCEPT ![c] = {}]
          /\ stage' = [stage EXCEPT ![c] = "failed"]
      BY <1>9 DEF Crash, Goto
    <2>2. \A u \in Users : Reach(u)' \subseteq Reach(u)
      BY <2>1, PoolUnchanged DEF Reach, Live, Qualified, TypeOK
    <2> QED
      BY <2>1, <2>2, PoolUnchanged, ReachShrinks DEF CapInv, TypeOK
  <1>10. CASE UNCHANGED vars
    <2>1. \A u \in Users : Reach(u)' \subseteq Reach(u)
      BY <1>10, PoolUnchanged DEF Reach, Live, Qualified, vars, claimVars
    <2> QED
      BY <1>10, <2>1, PoolUnchanged, ReachShrinks DEF CapInv, vars, claimVars
  <1> QED
    BY <1>1, <1>2, <1>3, <1>4, <1>5, <1>6, <1>7, <1>8, <1>9, <1>10 DEF Next

(* No player ever has more than maxAccessKeysPerPlayer keys, however many   *)
(* claims run at once and whatever fails (AssetConditionalKeyClaimer).      *)
THEOREM NoPlayerOverTheMaximum == Spec => []CapPerPlayer
  <1>1. Init => TypeOK /\ CapInv
    BY InitType, InitCap
  <1>2. TypeOK /\ CapInv /\ [Next]_vars => (TypeOK /\ CapInv)'
    BY StepType, StepCap
  <1>3. TypeOK /\ CapInv => CapPerPlayer
    BY CapImplied
  <1> QED
    BY <1>1, <1>2, <1>3, PTL DEF Spec

-----------------------------------------------------------------------------
(* No key is given twice.  A claim that has not begun has no key, and one   *)
(* that has begun has a player, so a key that was given is not free.        *)

GivenInv ==
    /\ KeyGivenOnce
    /\ \A c \in Claims : IF stage[c] = "new" THEN given[c] = {} ELSE player[c] \in Users

LEMMA InitGiven == Init => GivenInv
  BY DEF Init, GivenInv, KeyGivenOnce

LEMMA StepGiven == TypeOK /\ GivenInv /\ [Next]_vars => GivenInv'
  <1> SUFFICES ASSUME TypeOK, GivenInv, [Next]_vars PROVE GivenInv'
    OBVIOUS
  <1> USE DEF TypeOK, Goto
  <1>1. CASE GenerateKey
    <2>1. /\ DOMAIN owner \subseteq DOMAIN owner'
          /\ \A k \in DOMAIN owner : owner'[k] = owner[k]
      BY <1>1 DEF GenerateKey
    <2>2. \A u : KeysOf(u) \subseteq KeysOf(u)'
      BY <2>1 DEF KeysOf
    <2> QED
      BY <1>1, <2>2 DEF GivenInv, KeyGivenOnce, GenerateKey, claimVars
  <1>2. ASSUME NEW c \in Claims, NEW u \in Users, ReadKeys(c, u)
        PROVE  GivenInv'
    <2>1. /\ owner' = owner /\ given' = given /\ stage[c] = "new" /\ given[c] = {}
          /\ player' = [player EXCEPT ![c] = u]
          /\ stage' = [stage EXCEPT ![c] = "check"]
      BY <1>2 DEF ReadKeys, GivenInv
    <2> QED
      BY <2>1, PoolUnchanged DEF GivenInv, KeyGivenOnce
  <1>3. ASSUME NEW c \in Claims,
               CheckClaimedKeys(c) \/ Refuse(c) \/ Qualify(c) \/ Answer(c) \/ Crash(c)
        PROVE  GivenInv'
    <2>1. /\ owner' = owner /\ given' = given /\ player' = player
          /\ stage[c] # "new"
          /\ \E s \in Stages \ {"new"} : stage' = [stage EXCEPT ![c] = s]
      BY <1>3 DEF CheckClaimedKeys, Refuse, Qualify, Answer, Crash, Stages
    <2> QED
      BY <2>1, PoolUnchanged DEF GivenInv, KeyGivenOnce
  <1>4. ASSUME NEW c \in Claims, NEW k \in todo[c], ActivationFails(c, k)
        PROVE  GivenInv'
    BY <1>4, PoolUnchanged DEF ActivationFails, GivenInv, KeyGivenOnce
  <1>5. ASSUME NEW c \in Claims, NEW k \in todo[c], ActivateKeyById(c, k)
        PROVE  GivenInv'
    <2>1. /\ stage' = stage /\ player' = player
          /\ player[c] \in Users /\ k \in DOMAIN owner
      BY <1>5 DEF ActivateKeyById, GivenInv
    <2>2. CASE owner' = owner /\ given' = given
      BY <2>1, <2>2, PoolUnchanged DEF GivenInv, KeyGivenOnce
    <2>3. CASE /\ owner[k] = NoUser /\ owner' = [owner EXCEPT ![k] = player[c]]
               /\ given' = [given EXCEPT ![c] = @ \cup {k}]
      <3>1. \A d \in Claims : k \notin given[d]
        BY <2>3, KeysAssumption DEF GivenInv, KeyGivenOnce, KeysOf
      <3>2. /\ DOMAIN owner' = DOMAIN owner /\ owner'[k] = player[c]
            /\ \A j \in DOMAIN owner : j # k => owner'[j] = owner[j]
        BY <2>1, <2>3
      <3>3. \A d \in Claims : given'[d] = IF d = c THEN given[c] \cup {k} ELSE given[d]
        BY <2>3
      <3>4. \A d, e \in Claims : d # e => given'[d] \cap given'[e] = {}
        BY <3>1, <3>3 DEF GivenInv, KeyGivenOnce
      <3>5. \A d \in Claims : given'[d] \subseteq KeysOf(player[d])'
        BY <2>1, <3>1, <3>2, <3>3 DEF GivenInv, KeyGivenOnce, KeysOf
      <3>6. \A d \in Claims : IF stage'[d] = "new" THEN given'[d] = {}
                                                   ELSE player'[d] \in Users
        BY <1>5, <2>1, <3>3 DEF GivenInv, ActivateKeyById
      <3> QED
        BY <2>1, <3>4, <3>5, <3>6 DEF GivenInv, KeyGivenOnce
    <2> QED
      BY <1>5, <2>2, <2>3 DEF ActivateKeyById, Activable
  <1>6. CASE UNCHANGED vars
    BY <1>6, PoolUnchanged DEF vars, claimVars, GivenInv, KeyGivenOnce
  <1> QED
    BY <1>1, <1>2, <1>3, <1>4, <1>5, <1>6 DEF Next

(* A key is given to one claim only, whose player keeps it for ever         *)
(* (activateKeyById).                                                       *)
THEOREM NoKeyGivenTwice == Spec => []KeyGivenOnce
  <1>1. Init => TypeOK /\ GivenInv
    BY InitType, InitGiven
  <1>2. TypeOK /\ GivenInv /\ [Next]_vars => (TypeOK /\ GivenInv)'
    BY StepType, StepGiven
  <1>3. GivenInv => KeyGivenOnce
    BY DEF GivenInv
  <1> QED
    BY <1>1, <1>2, <1>3, PTL DEF Spec
-----------------------------------------------------------------------------
(* The pool.  Two facts more than the invariants above: a claim that        *)
(* activates keys has read as many as the maximum, and so has one that was  *)
(* answered, which was given what it read.                                  *)

ReadInv ==
    \A c \in Claims :
        /\ stage[c] \in {"activate", "answered"}
              => Cardinality(available[c]) = MaxAccessKeysPerPlayer
        /\ stage[c] = "answered" => given[c] = available[c]

LEMMA InitRead == Init => ReadInv
  BY DEF Init, ReadInv

LEMMA StepRead == TypeOK /\ ReadInv /\ [Next]_vars => ReadInv'
  <1> SUFFICES ASSUME TypeOK, ReadInv, [Next]_vars PROVE ReadInv'
    OBVIOUS
  <1> USE DEF TypeOK, ReadInv, Goto
  <1>1. CASE GenerateKey
    BY <1>1 DEF GenerateKey, claimVars
  <1>2. ASSUME NEW c \in Claims, NEW u \in Users, ReadKeys(c, u)
        PROVE  ReadInv'
    BY <1>2 DEF ReadKeys
  <1>3. ASSUME NEW c \in Claims,
               CheckClaimedKeys(c) \/ Refuse(c) \/ Crash(c)
        PROVE  ReadInv'
    BY <1>3 DEF CheckClaimedKeys, Refuse, Crash
  <1>4. ASSUME NEW c \in Claims, Qualify(c)
        PROVE  ReadInv'
    BY <1>4 DEF Qualify
  <1>5. ASSUME NEW c \in Claims, Answer(c)
        PROVE  ReadInv'
    BY <1>5 DEF Answer
  <1>6. ASSUME NEW c \in Claims, NEW k \in todo[c],
               ActivateKeyById(c, k) \/ ActivationFails(c, k)
        PROVE  ReadInv'
    BY <1>6 DEF ActivateKeyById, ActivationFails
  <1>7. CASE UNCHANGED vars
    BY <1>7 DEF vars, claimVars
  <1> QED
    BY <1>1, <1>2, <1>3, <1>4, <1>5, <1>6, <1>7 DEF Next

answer == [c \in Claims |-> IF stage[c] = "answered" THEN given[c] ELSE {}]

LEMMA SameAnswers ==
    ASSUME \A c \in Claims :
               /\ stage[c] = "answered" <=> stage'[c] = "answered"
               /\ stage[c] = "answered" => given'[c] = given[c]
    PROVE  answer' = answer
  BY DEF answer

LEMMA SameCardinality == \A S : Pool!Cardinality(S) = Cardinality(S)
  BY DEF Pool!Cardinality, Cardinality

LEMMA SameKeys == \A u : Pool!KeysOf(u) = KeysOf(u)
  BY DEF Pool!KeysOf, KeysOf

(* Whoever is given a key had fewer than the maximum before.                *)
LEMMA RoomForOne ==
    ASSUME TypeOK, TypeOK', CapPerPlayer', NEW k \in DOMAIN owner, NEW u \in Users,
           owner[k] = NoUser, owner' = [owner EXCEPT ![k] = u]
    PROVE  Cardinality(KeysOf(u)) < MaxAccessKeysPerPlayer
  <1>1. KeysOf(u)' = KeysOf(u) \cup {k}
    BY DEF KeysOf, TypeOK
  <1>2. k \notin KeysOf(u)
    BY KeysAssumption DEF KeysOf
  <1>3. IsFiniteSet(KeysOf(u)) /\ Cardinality(KeysOf(u)) \in Nat
    <2>1. KeysOf(u) \in SUBSET DOMAIN owner
      BY DEF KeysOf
    <2> QED
      BY <2>1, FreeIsFinite, FS_Subset, FS_CardinalityType
  <1>4. Cardinality(KeysOf(u) \cup {k}) = Cardinality(KeysOf(u)) + 1
    BY <1>2, <1>3, FS_AddElement
  <1>5. Cardinality(KeysOf(u)') <= MaxAccessKeysPerPlayer
    BY DEF CapPerPlayer
  <1> QED
    BY <1>1, <1>3, <1>4, <1>5, KeysAssumption

(* A claim that is answered has given its player all the player has.        *)
LEMMA AllOfThem ==
    ASSUME TypeOK, CapPerPlayer, GivenInv, ReadInv,
           NEW c \in Claims, stage[c] = "activate", given[c] = available[c]
    PROVE  /\ player[c] \in Users /\ given[c] # {}
           /\ KeysOf(player[c]) = given[c]
           /\ Cardinality(KeysOf(player[c])) = MaxAccessKeysPerPlayer
  <1> DEFINE u == player[c]
  <1>1. u \in Users /\ given[c] \in SUBSET KeysOf(u)
    BY DEF GivenInv, KeyGivenOnce
  <1>2. IsFiniteSet(KeysOf(u)) /\ Cardinality(KeysOf(u)) \in Nat
    <2>1. KeysOf(u) \in SUBSET DOMAIN owner
      BY DEF KeysOf
    <2> QED
      BY <2>1, FreeIsFinite, FS_Subset, FS_CardinalityType
  <1>3. Cardinality(given[c]) = MaxAccessKeysPerPlayer
    BY DEF ReadInv
  <1>4. Cardinality(KeysOf(u)) <= MaxAccessKeysPerPlayer
    BY <1>1 DEF CapPerPlayer
  <1>5. /\ Cardinality(given[c]) <= Cardinality(KeysOf(u))
        /\ Cardinality(KeysOf(u)) = Cardinality(given[c]) => given[c] = KeysOf(u)
    BY <1>1, <1>2, FS_Subset
  <1>6. Cardinality(KeysOf(u)) = MaxAccessKeysPerPlayer
    BY <1>2, <1>3, <1>4, <1>5, KeysAssumption
  <1>7. given[c] # {}
    BY <1>3, FS_EmptySet, KeysAssumption
  <1> QED
    BY <1>1, <1>3, <1>5, <1>6, <1>7

LEMMA PoolStep ==
    ASSUME TypeOK, TypeOK', CapPerPlayer, CapPerPlayer', GivenInv, ReadInv, [Next]_vars
    PROVE  [Pool!Next]_<<owner, answer>>
  <1> USE DEF Goto
  <1>1. CASE GenerateKey
    <2>1. answer' = answer
      BY <1>1, SameAnswers DEF GenerateKey, claimVars
    <2> QED
      BY <1>1, <2>1 DEF GenerateKey, Pool!Next, Pool!Add, answer
  <1>2. ASSUME NEW c \in Claims, NEW u \in Users, ReadKeys(c, u)
        PROVE  answer' = answer /\ owner' = owner
    BY <1>2, SameAnswers DEF ReadKeys, TypeOK
  <1>3. ASSUME NEW c \in Claims,
               CheckClaimedKeys(c) \/ Refuse(c) \/ Qualify(c) \/ Crash(c)
        PROVE  answer' = answer /\ owner' = owner
    BY <1>3, SameAnswers DEF CheckClaimedKeys, Refuse, Qualify, Crash, TypeOK
  <1>4. ASSUME NEW c \in Claims, NEW k \in todo[c], ActivationFails(c, k)
        PROVE  answer' = answer /\ owner' = owner
    BY <1>4, SameAnswers DEF ActivationFails
  <1>5. ASSUME NEW c \in Claims, NEW k \in todo[c], ActivateKeyById(c, k)
        PROVE  [Pool!Next]_<<owner, answer>>
    <2>1. stage[c] = "activate" /\ stage' = stage
      BY <1>5 DEF ActivateKeyById
    <2>2. answer' = answer
      <3>1. \A d \in Claims : d # c => given'[d] = given[d]
        BY <1>5 DEF ActivateKeyById, TypeOK
      <3> QED
        BY <2>1, <3>1, SameAnswers
    <2>3. CASE owner' = owner
      BY <2>2, <2>3
    <2>4. CASE owner[k] = NoUser /\ owner' = [owner EXCEPT ![k] = player[c]]
      <3>1. player[c] \in Users /\ k \in DOMAIN owner
        BY <2>1 DEF GivenInv, TypeOK
      <3>2. Cardinality(KeysOf(player[c])) < MaxAccessKeysPerPlayer
        BY <2>4, <3>1, RoomForOne
      <3>3. Pool!Give(player[c], k)
        <4>1. Pool!Cardinality(Pool!KeysOf(player[c])) < MaxAccessKeysPerPlayer
          BY <3>2, SameKeys, SameCardinality
        <4> QED
          BY <2>2, <2>4, <4>1 DEF Pool!Give, answer
      <3> QED
        BY <3>1, <3>3 DEF Pool!Next
    <2> QED
      BY <1>5, <2>3, <2>4 DEF ActivateKeyById, Activable
  <1>6. ASSUME NEW c \in Claims, Answer(c)
        PROVE  [Pool!Next]_<<owner, answer>>
    <2>1. /\ stage[c] = "activate" /\ owner' = owner /\ given' = given
          /\ stage' = [stage EXCEPT ![c] = IF given[c] = available[c]
                                            THEN "answered" ELSE "failed"]
      BY <1>6 DEF Answer
    <2>2. CASE given[c] # available[c]
      <3>1. answer' = answer
        BY <2>1, <2>2, SameAnswers DEF TypeOK
      <3> QED
        BY <2>1, <3>1
    <2>3. CASE given[c] = available[c]
      <3>1. /\ player[c] \in Users /\ given[c] # {}
            /\ KeysOf(player[c]) = given[c]
            /\ Cardinality(KeysOf(player[c])) = MaxAccessKeysPerPlayer
        BY <2>1, <2>3, AllOfThem
      <3>2. answer' = [answer EXCEPT ![c] = given[c]] /\ answer[c] = {}
        BY <2>1, <2>3 DEF answer, TypeOK
      <3>3. \A d \in Claims : answer[d] # given[c]
        <4> SUFFICES ASSUME NEW d \in Claims PROVE answer[d] # given[c]
          OBVIOUS
        <4>1. CASE d = c
          BY <3>1, <3>2, <4>1
        <4>2. CASE d # c
          <5>1. given[d] \cap given[c] = {}
            BY <4>2 DEF GivenInv, KeyGivenOnce
          <5> QED
            BY <3>1, <5>1 DEF answer
        <4> QED
          BY <4>1, <4>2
      <3>4. PICK u \in Users : u = player[c]
        BY <3>1
      <3>5. Pool!Answer(c, u)
        <4>1. /\ Pool!KeysOf(u) = given[c]
              /\ Pool!Cardinality(Pool!KeysOf(u)) = MaxAccessKeysPerPlayer
          BY <3>1, <3>4, SameKeys, SameCardinality
        <4> QED
          BY <2>1, <3>2, <3>3, <4>1 DEF Pool!Answer, answer
      <3> QED
        BY <3>5 DEF Pool!Next
    <2> QED
      BY <2>2, <2>3
  <1>7. CASE UNCHANGED vars
    <2>1. answer' = answer /\ owner' = owner
      BY <1>7, SameAnswers DEF vars, claimVars
    <2> QED
      BY <2>1
  <1> QED
    BY <1>1, <1>2, <1>3, <1>4, <1>5, <1>6, <1>7 DEF Next

(* Concurrent, failing, dying claims implement a pool that gives its keys   *)
(* out one at a time and answers a claim with all the keys of its player    *)
(* (AssetConditionalKeyClaimer.apply and the serializer of its answer).     *)
THEOREM ClaimsImplementPool == Spec => ImplementsKeyPool
  <1>1. Init => TypeOK /\ CapInv /\ GivenInv /\ ReadInv
    BY InitType, InitCap, InitGiven, InitRead
  <1>2. TypeOK /\ CapInv /\ GivenInv /\ ReadInv /\ [Next]_vars
            => (TypeOK /\ CapInv /\ GivenInv /\ ReadInv)'
    BY StepType, StepCap, StepGiven, StepRead
  <1>3. TypeOK /\ CapInv => CapPerPlayer
    BY CapImplied
  <1>4. Init => Pool!Init
    BY DEF Init, Pool!Init
  <1>5. TypeOK /\ TypeOK' /\ CapPerPlayer /\ CapPerPlayer' /\ GivenInv /\ ReadInv /\ [Next]_vars
            => [Pool!Next]_<<owner, answer>>
    BY PoolStep
  <1>6. <<owner, answer>> = Pool!poolVars
    BY DEF answer, Pool!poolVars
  <1> QED
    BY <1>1, <1>2, <1>3, <1>4, <1>5, <1>6, PTL DEF Spec, ImplementsKeyPool, Pool!Spec, Pool!poolVars, answer

-----------------------------------------------------------------------------
(* Short of keys.  Every key that has a player was given to him by a claim; *)
(* only a claim that activates keys has activations running; and, as long   *)
(* as nothing has failed, a claim that activates keys, or was given one,    *)
(* has read as many as the maximum, and each of them it does not wait for   *)
(* any more has a player.                                                   *)

Taken == DOMAIN owner \ Free

Activating(c) == stage[c] = "activate" \/ given[c] # {}

ShortInv ==
    /\ \A k \in Taken : \E c \in Claims : k \in given[c]
    /\ \A c \in Claims : todo[c] # {} => stage[c] = "activate"
    /\ faults = 0 =>
          \A c \in Claims : Activating(c) =>
              /\ stage[c] \in {"activate", "answered", "failed"}
              /\ Cardinality(available[c]) = MaxAccessKeysPerPlayer
              /\ available[c] \ todo[c] \subseteq Taken

LEMMA InitShort == Init => ShortInv
  BY DEF Init, ShortInv, Taken, Activating

LEMMA SameTaken == ASSUME owner' = owner PROVE Taken' = Taken
  BY DEF Taken, Free

(* The steps of a claim that activates no key.                              *)
LEMMA ShortSteps ==
    ASSUME TypeOK, GivenInv, ShortInv, NEW c \in Claims,
           \/ \E u \in Users : ReadKeys(c, u)
           \/ CheckClaimedKeys(c) \/ Refuse(c) \/ Qualify(c)
           \/ \E k \in todo[c] : ActivationFails(c, k)
           \/ Answer(c) \/ Crash(c)
    PROVE  ShortInv'
  <1> USE DEF TypeOK, Goto
  <1>0. Taken' = Taken /\ given' = given /\ faults \in Nat
    BY SameTaken, KeysAssumption DEF ReadKeys, CheckClaimedKeys, Refuse, Qualify,
       ActivationFails, Answer, Crash
  <1>1. \A k \in Taken' : \E d \in Claims : k \in given'[d]
    BY <1>0 DEF ShortInv
  <1>2. \A d \in Claims : d # c => /\ stage'[d] = stage[d] /\ todo'[d] = todo[d]
                                   /\ available'[d] = available[d]
    BY DEF ReadKeys, CheckClaimedKeys, Refuse, Qualify, ActivationFails, Answer, Crash
  <1>3. todo'[c] # {} => stage'[c] = "activate"
    BY DEF ReadKeys, CheckClaimedKeys, Refuse, Qualify, ActivationFails, Answer, Crash,
       ShortInv
  <1>4. ASSUME faults' = 0, stage'[c] = "activate" \/ given[c] # {}
        PROVE  /\ faults = 0
               /\ stage'[c] \in {"activate", "answered", "failed"}
               /\ Cardinality(available'[c]) = MaxAccessKeysPerPlayer
               /\ available'[c] \ todo'[c] \subseteq Taken
    <2>1. faults = 0 /\ ~Crash(c) /\ ~\E k \in todo[c] : ActivationFails(c, k)
      BY <1>0, <1>4 DEF Crash, ActivationFails, ReadKeys, CheckClaimedKeys, Refuse,
         Qualify, Answer
    <2>2. CASE \E u \in Users : ReadKeys(c, u)
      BY <2>2, <1>4 DEF ReadKeys, GivenInv
    <2>3. CASE CheckClaimedKeys(c) \/ Refuse(c)
      BY <2>1, <2>3, <1>4 DEF CheckClaimedKeys, Refuse, ShortInv, Activating
    <2>4. CASE Qualify(c)
      BY <2>1, <2>4 DEF Qualify, ToActivate
    <2>5. CASE Answer(c)
      BY <2>1, <2>5 DEF Answer, ShortInv, Activating
    <2> QED
      BY <2>1, <2>2, <2>3, <2>4, <2>5
  <1>5. ASSUME faults' = 0 PROVE faults = 0
    BY <1>0, <1>5 DEF Crash, ActivationFails, ReadKeys, CheckClaimedKeys, Refuse,
       Qualify, Answer
  <1> QED
    BY <1>0, <1>1, <1>2, <1>3, <1>4, <1>5 DEF ShortInv, Activating

LEMMA ShortActivation ==
    ASSUME TypeOK, GivenInv, ShortInv, NEW c \in Claims, NEW k \in todo[c],
           ActivateKeyById(c, k)
    PROVE  ShortInv'
  <1> USE DEF TypeOK
  <1>1. /\ stage' = stage /\ available' = available /\ faults' = faults
        /\ stage[c] = "activate" /\ todo' = [todo EXCEPT ![c] = @ \ {k}]
        /\ k \in DOMAIN owner
    BY DEF ActivateKeyById
  <1>2. /\ Taken' = Taken \cup {k}
        /\ \A j \in Taken' : \E d \in Claims : j \in given'[d]
        /\ \A d \in Claims : d # c => given'[d] = given[d]
    <2>1. CASE owner[k] # NoUser
      <3>1. owner' = owner /\ given' = given /\ k \in Taken
        BY <2>1, <1>1 DEF ActivateKeyById, Activable, Taken, Free
      <3> QED
        BY <3>1, SameTaken DEF ShortInv
    <2>2. CASE owner[k] = NoUser
      <3>1. /\ owner' = [owner EXCEPT ![k] = player[c]]
            /\ given' = [given EXCEPT ![c] = @ \cup {k}]
        BY <2>2 DEF ActivateKeyById, Activable
      <3>2. player[c] # NoUser
        BY <1>1, KeysAssumption DEF GivenInv
      <3>3. Taken' = Taken \cup {k}
        BY <1>1, <3>1, <3>2 DEF Taken, Free
      <3> QED
        BY <3>1, <3>3 DEF ShortInv
    <2> QED
      BY <2>1, <2>2
  <1>3. \A d \in Claims : Activating(d)' => Activating(d)
    BY <1>1, <1>2 DEF Activating
  <1> QED
    BY <1>1, <1>2, <1>3 DEF ShortInv

LEMMA StepShort == TypeOK /\ GivenInv /\ ShortInv /\ [Next]_vars => ShortInv'
  <1> SUFFICES ASSUME TypeOK, GivenInv, ShortInv, [Next]_vars PROVE ShortInv'
    OBVIOUS
  <1>1. CASE GenerateKey
    <2>1. Taken' = Taken
      BY <1>1 DEF GenerateKey, TypeOK, Taken, Free
    <2> QED
      BY <1>1, <2>1 DEF GenerateKey, claimVars, ShortInv, Activating
  <1>2. CASE UNCHANGED vars
    <2>1. Taken' = Taken
      BY <1>2, SameTaken DEF vars
    <2> QED
      BY <1>2, <2>1 DEF vars, claimVars, ShortInv, Activating
  <1> QED
    BY <1>1, <1>2, ShortSteps, ShortActivation DEF Next

(* Among the keys read by a claim that is over and was given one, each has  *)
(* the player of the claim, if no rival was given any.                      *)
LEMMA ShortImplied ==
    ASSUME TypeOK, CapPerPlayer, GivenInv, ShortInv
    PROVE  ShortOnlyByRivals
  <1> SUFFICES ASSUME NEW u \in Users, faults = 0, Over(u), KeysOf(u) # {}, Rivals(u) = {}
               PROVE  Cardinality(KeysOf(u)) = MaxAccessKeysPerPlayer
    BY DEF ShortOnlyByRivals
  <1>1. PICK k \in KeysOf(u) : TRUE
    OBVIOUS
  <1>2. k \in Taken /\ owner[k] = u
    BY KeysAssumption DEF KeysOf, Taken, Free
  <1>3. PICK c \in Claims : k \in given[c]
    BY <1>2 DEF ShortInv
  <1>4. player[c] = u
    BY <1>2, <1>3 DEF GivenInv, KeyGivenOnce, KeysOf
  <1>5. /\ todo[c] = {} /\ available[c] \subseteq Taken
        /\ Cardinality(available[c]) = MaxAccessKeysPerPlayer
    BY <1>3, <1>4 DEF Over, ShortInv, Activating
  <1>6. ASSUME NEW j \in available[c]
        PROVE  j \in KeysOf(u)
    <2>1. PICK d \in Claims : j \in given[d]
      BY <1>5 DEF ShortInv
    <2>2. player[d] = u
      BY <1>4, <2>1 DEF Rivals
    <2> QED
      BY <2>1, <2>2 DEF GivenInv, KeyGivenOnce
  <1>7. /\ IsFiniteSet(KeysOf(u)) /\ Cardinality(KeysOf(u)) \in Nat
    <2>1. KeysOf(u) \in SUBSET DOMAIN owner
      BY DEF KeysOf
    <2> QED
      BY <2>1, FreeIsFinite, FS_Subset, FS_CardinalityType
  <1>8. available[c] \in SUBSET KeysOf(u)
    BY <1>6
  <1>9. MaxAccessKeysPerPlayer <= Cardinality(KeysOf(u))
    BY <1>5, <1>7, <1>8, FS_Subset
  <1>10. Cardinality(KeysOf(u)) <= MaxAccessKeysPerPlayer
    BY DEF CapPerPlayer
  <1> QED
    BY <1>7, <1>9, <1>10, KeysAssumption

(* Unless something failed or another player was given a key that one of    *)
(* his claims had read, a player whose claims are over has all his keys or  *)
(* none (activateKeys).                                                     *)
THEOREM AllKeysUnlessRivals == Spec => []ShortOnlyByRivals
  <1>1. Init => TypeOK /\ CapInv /\ GivenInv /\ ShortInv
    BY InitType, InitCap, InitGiven, InitShort
  <1>2. TypeOK /\ CapInv /\ GivenInv /\ ShortInv /\ [Next]_vars
            => (TypeOK /\ CapInv /\ GivenInv /\ ShortInv)'
    BY StepType, StepCap, StepGiven, StepShort
  <1>3. TypeOK /\ CapInv /\ GivenInv /\ ShortInv => ShortOnlyByRivals
    BY CapImplied, ShortImplied
  <1> QED
    BY <1>1, <1>2, <1>3, PTL DEF Spec
=============================================================================
