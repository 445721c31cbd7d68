----------------------- MODULE TransactionWorkerProofs -----------------------
(***************************************************************************)
(* Theorems about TransactionWorker, for any number of workers, users,     *)
(* collections and documents, and any faults.                              *)
(***************************************************************************)
EXTENDS TransactionWorker, FiniteSetTheorems, TLAPS

-----------------------------------------------------------------------------
(* Facts about sequences and about the places of the ids of a batch.        *)

LEMMA FunctionIsSeq ==
    ASSUME NEW S, NEW n \in Nat, NEW f \in [1 .. n -> S]
    PROVE  f \in Seq(S) /\ Len(f) = n
  OBVIOUS

LEMMA UpdatedSeq ==
    ASSUME NEW S, NEW s \in Seq(S), NEW f,
           f = [i \in DOMAIN s |-> f[i]], \A i \in DOMAIN s : f[i] \in S
    PROVE  f \in Seq(S) /\ Len(f) = Len(s) /\ DOMAIN f = DOMAIN s
  <1>1. DOMAIN s = 1 .. Len(s) /\ Len(s) \in Nat
    OBVIOUS
  <1>2. f \in [1 .. Len(s) -> S]
    BY <1>1
  <1> QED
    BY <1>1, <1>2, FunctionIsSeq

LEMMA PlaceType ==
    ASSUME NEW ids \in SUBSET TxIds, NEW i \in ids
    PROVE  Place(ids, i) \in TxIds
  <1> DEFINE below == {j \in ids : j <= i}
  <1>1. IsFiniteSet(TxIds) /\ Cardinality(TxIds) = MaxTxs
    BY BoundsAssumption, FS_Interval DEF TxIds
  <1>2. below \in SUBSET TxIds /\ i \in below
    <2>1. i <= i
      BY BoundsAssumption DEF TxIds
    <2> QED
      BY <2>1
  <1>3. IsFiniteSet(below) /\ Cardinality(below) <= MaxTxs
    BY <1>1, <1>2, FS_Subset
  <1>4. Cardinality(below) \in Nat /\ Cardinality(below) # 0
    BY <1>2, <1>3, FS_CardinalityType, FS_EmptySet
  <1> QED
    BY <1>3, <1>4, BoundsAssumption DEF Place, TxIds

-----------------------------------------------------------------------------
(* Type correctness.  Two facts are needed besides TypeOK: the requests that *)
(* are about to commit fit in the bound, and a job has read no document that *)
(* does not exist.                                                          *)

TypeInv ==
    /\ TypeOK
    /\ IsFiniteSet(creating) /\ Len(tx) + Cardinality(creating) <= MaxTxs
    /\ \A w \in Workers : Len(snap[w]) <= Len(tx)

LEMMA DocUpdate ==
    ASSUME NEW d \in TxDocs, NEW s \in TxStates, NEW h \in Hashes \cup {NoHash}
    PROVE  /\ [d EXCEPT !.state = s] \in TxDocs
           /\ [d EXCEPT !.state = s, !.hash = h] \in TxDocs
  BY DEF TxDocs

LEMMA AddedOne ==
    ASSUME NEW S, NEW e, IsFiniteSet(S), Cardinality(S) \in Nat
    PROVE  /\ IsFiniteSet(S \cup {e})
           /\ Cardinality(S \cup {e}) <= Cardinality(S) + 1
  <1>1. /\ IsFiniteSet(S \cup {e})
        /\ Cardinality(S \cup {e}) = IF e \in S THEN Cardinality(S) ELSE Cardinality(S) + 1
    BY FS_AddElement
  <1> QED
    BY <1>1

LEMMA InitType == Init => TypeInv
  <1> SUFFICES ASSUME Init PROVE TypeInv
    OBVIOUS
  <1> USE DEF Init, PortalInit, RequestInit, WorkerInit
  <1>1. TypeOK
    BY BoundsAssumption DEF TypeOK, PCs, Verdicts, Hashes, TxIds
  <1>2. IsFiniteSet(creating) /\ Len(tx) + Cardinality(creating) <= MaxTxs
    BY BoundsAssumption, FS_EmptySet
  <1>3. \A w \in Workers : Len(snap[w]) <= Len(tx)
    OBVIOUS
  <1> QED
    BY <1>1, <1>2, <1>3 DEF TypeInv

LEMMA RequestType ==
    ASSUME TypeInv, RequestNext, UNCHANGED workerVars
    PROVE  TypeInv'
  <1> USE DEF TypeInv, TypeOK, workerVars, portalVars, AssetStates, TxStates, TxTypes
  <1>n. Cardinality(creating) \in Nat
    BY FS_CardinalityType
  <1>d. DOMAIN asset = 1 .. Len(asset) /\ Len(asset) \in Nat
    OBVIOUS
  <1>t. Len(tx) \in Nat
    OBVIOUS
  <1>new. ASSUME NEW type \in TxTypes, NEW c \in Collections, NEW u \in Users,
                 NEW k \in Tokens \cup {NoToken}, type = "BurnAsset" => k \in Tokens,
                 Inserted(NewTx(type, c, u, k))
          PROVE  tx' \in Seq(TxDocs) /\ Len(tx') = Len(tx) + 1
    <2>1. NewTx(type, c, u, k) \in TxDocs
      BY <1>new DEF NewTx, TxDocs
    <2> QED
      BY <1>new, <2>1 DEF Inserted
  <1>1. ASSUME NEW u \in Users, NEW c \in Collections, CreateAsset(u, c)
        PROVE  TypeInv'
    <2> DEFINE r == [asset |-> Len(asset) + 1, owner |-> u]
    <2> DEFINE doc == [owner |-> u, coll |-> c, state |-> "minting", token |-> NoToken]
    <2>1. doc \in AssetDocs
      BY DEF AssetDocs
    <2>2. asset' \in Seq(AssetDocs) /\ Len(asset') = Len(asset) + 1
      BY <1>1, <2>1 DEF CreateAsset
    <2>3. creating' \subseteq [asset : DOMAIN asset', owner : Users]
      BY <1>1, <1>d, <2>2 DEF CreateAsset
    <2>4. IsFiniteSet(creating') /\ Cardinality(creating') <= Cardinality(creating) + 1
      BY <1>1, <1>n, AddedOne DEF CreateAsset
    <2>5. Cardinality(creating') \in Nat
      BY <2>4, FS_CardinalityType
    <2>6. Len(tx') + Cardinality(creating') <= MaxTxs
      BY <1>1, <1>n, <1>t, <2>4, <2>5, BoundsAssumption DEF CreateAsset, RoomForTx
    <2> QED
      BY <1>1, <2>2, <2>3, <2>4, <2>6 DEF CreateAsset
  <1>2. ASSUME NEW u \in Users, NEW c \in Collections, MintResource(u, c)
        PROVE  TypeInv'
    <2>1. tx' \in Seq(TxDocs) /\ Len(tx') = Len(tx) + 1
      BY <1>2, <1>new DEF MintResource
    <2> QED
      BY <1>2, <1>n, <1>t, <2>1, BoundsAssumption DEF MintResource, RoomForTx
  <1>3. ASSUME NEW r \in creating, CommitMint(r)
        PROVE  TypeInv'
    <2>1. r.owner \in Users /\ r.asset \in DOMAIN asset
      OBVIOUS
    <2>2. asset[r.asset] \in AssetDocs
      BY <2>1
    <2>3. asset[r.asset].coll \in Collections
      BY <2>2 DEF AssetDocs
    <2>4. tx' \in Seq(TxDocs) /\ Len(tx') = Len(tx) + 1
      BY <1>3, <1>new, <2>1, <2>3 DEF CommitMint
    <2>5. IsFiniteSet(creating') /\ Cardinality(creating') = Cardinality(creating) - 1
      BY <1>3, FS_RemoveElement DEF CommitMint
    <2>6. Len(tx') + Cardinality(creating') <= MaxTxs
      BY <1>n, <1>t, <2>4, <2>5
    <2>7. creating' \subseteq [asset : DOMAIN asset', owner : Users]
      BY <1>3 DEF CommitMint
    <2>8. Cardinality(creating') \in Nat
      BY <2>5, FS_CardinalityType
    <2>9. Len(tx') <= MaxTxs
      BY <2>4, <2>6, <2>8, <1>t, BoundsAssumption
    <2>10. \A w \in Workers : Len(snap'[w]) <= Len(tx')
      BY <1>3, <1>t, <2>4 DEF CommitMint
    <2> QED
      BY <1>3, <2>4, <2>5, <2>6, <2>7, <2>9, <2>10 DEF CommitMint
  <1>4. ASSUME NEW r \in creating, AbortMint(r)
        PROVE  TypeInv'
    <2>1. IsFiniteSet(creating') /\ Cardinality(creating') = Cardinality(creating) - 1
      BY <1>4, FS_RemoveElement DEF AbortMint
    <2> QED
      BY <1>4, <1>n, <1>t, <2>1, BoundsAssumption DEF AbortMint, Fault
  <1>5. ASSUME NEW a \in DOMAIN asset, BurnAsset(a)
        PROVE  TypeInv'
    <2>1. asset[a] \in AssetDocs
      OBVIOUS
    <2>0. [asset[a] EXCEPT !.state = "burning"] \in AssetDocs
      BY <2>1 DEF AssetDocs
    <2>2. asset' \in Seq(AssetDocs) /\ Len(asset') = Len(asset)
      BY <1>5, <2>0 DEF BurnAsset
    <2>3. tx' \in Seq(TxDocs) /\ Len(tx') = Len(tx) + 1
      BY <1>5, <1>new, <2>1 DEF BurnAsset, AssetDocs
    <2>4. Len(tx') + Cardinality(creating') <= MaxTxs
      BY <1>5, <1>n, <1>t, <2>3, BoundsAssumption DEF BurnAsset, RoomForTx
    <2>5. creating' \subseteq [asset : DOMAIN asset', owner : Users]
      BY <1>5, <1>d, <2>2 DEF BurnAsset
    <2>6. Len(tx') <= MaxTxs /\ IsFiniteSet(creating')
      BY <1>5, <1>n, <1>t, <2>3, BoundsAssumption DEF BurnAsset, RoomForTx
    <2>7. \A w \in Workers : Len(snap'[w]) <= Len(tx')
      BY <1>5, <1>t, <2>3
    <2> QED
      BY <1>5, <2>2, <2>3, <2>4, <2>5, <2>6, <2>7 DEF BurnAsset
  <1>6. ASSUME NEW a \in DOMAIN asset, NEW u \in Users, UpdateAsset(a, u)
        PROVE  TypeInv'
    <2>0. asset[a] \in AssetDocs
      OBVIOUS
    <2>. [asset[a] EXCEPT !.owner = u] \in AssetDocs
      BY <2>0 DEF AssetDocs
    <2>1. asset' \in Seq(AssetDocs) /\ Len(asset') = Len(asset)
      BY <1>6 DEF UpdateAsset
    <2> QED
      BY <1>6, <1>d, <2>1 DEF UpdateAsset
  <1> QED
    BY <1>1, <1>2, <1>3, <1>4, <1>5, <1>6 DEF RequestNext

LEMMA PortalType ==
    ASSUME TypeInv, PortalNext, UNCHANGED <<requestVars, workerVars>>
    PROVE  TypeInv'
  <1> USE DEF TypeInv, TypeOK, requestVars, workerVars
  <1>1. ASSUME NEW h \in DOMAIN chain, NEW s \in Statuses, SetStatus(h, s)
        PROVE  chain' \in Seq(Sends) /\ Len(chain') = Len(chain)
    <2>1. chain[h] \in Sends /\ h \in 1 .. Len(chain)
      OBVIOUS
    <2>2. [chain[h] EXCEPT !.status = s] \in Sends
      BY <2>1 DEF Sends
    <2> QED
      BY <1>1, <2>1, <2>2 DEF SetStatus
  <1>2. faults' \in 0 .. MaxFaults
    BY BoundsAssumption DEF PortalNext, Mine, RevertBurn, Revert, Confirm, Reorg, Drop, Fault
  <1>3. chain' \in Seq(Sends) /\ Len(chain') = Len(chain)
    BY <1>1 DEF PortalNext, Mine, RevertBurn, Revert, Confirm, Reorg, Drop, Statuses
  <1> QED
    BY <1>2, <1>3

LEMMA FollowingType ==
    ASSUME TypeInv, NEW w \in Workers
    PROVE  /\ DOMAIN snap[w] \subseteq DOMAIN tx
           /\ DOMAIN tx \subseteq TxIds
           /\ \A h : Following(w, h) \subseteq DOMAIN tx
           /\ ToTransact(w) \subseteq DOMAIN tx
  <1> USE DEF TypeInv, TypeOK
  <1>1. DOMAIN snap[w] = 1 .. Len(snap[w]) /\ Len(snap[w]) \in Nat
    OBVIOUS
  <1>2. DOMAIN tx = 1 .. Len(tx) /\ Len(tx) \in Nat
    OBVIOUS
  <1>3. DOMAIN snap[w] \subseteq DOMAIN tx /\ DOMAIN tx \subseteq TxIds
    BY <1>1, <1>2, BoundsAssumption DEF TxIds
  <1>4. \A h : Following(w, h) \subseteq DOMAIN tx
    BY <1>3 DEF Following
  <1>5. Pending(w) \subseteq DOMAIN tx
    BY <1>3 DEF Pending
  <1> QED
    BY <1>3, <1>4, <1>5 DEF ToTransact, Rejected

LEMMA GroupType ==
    ASSUME TypeInv, NEW i \in DOMAIN tx
    PROVE  GroupOf(i) \in Groups
  <1>1. tx[i] \in TxDocs
    BY DEF TypeInv, TypeOK
  <1> QED
    BY <1>1 DEF TxDocs, GroupOf, Groups

LEMMA AttributionsType ==
    ASSUME TypeInv, NEW w \in Workers
    PROVE  Attributions(w) \subseteq Tasks
  <1>1. ASSUME NEW h \in Hashes, NEW i \in Following(w, h)
        PROVE  LogToken(w, h, i) \in Tokens \cup {NoToken}
    <2>1. Following(w, h) \in SUBSET TxIds /\ i \in DOMAIN tx
      BY FollowingType
    <2>2. Place(Following(w, h), i) \in TxIds
      BY <2>1, PlaceType
    <2>3. tx[i] \in TxDocs
      BY <2>1 DEF TypeInv, TypeOK
    <2>4. tx[i].token \in Tokens \cup {NoToken}
      BY <2>3 DEF TxDocs
    <2> QED
      BY <2>2, <2>4 DEF LogToken, Tokens
  <1>2. ASSUME NEW h \in Hashes, NEW i \in Following(w, h)
        PROVE  [worker |-> w, hash |-> h, req |-> i, token |-> LogToken(w, h, i),
                stage |-> "find", detached |-> FALSE] \in Tasks
    <2>1. i \in TxIds
      BY FollowingType
    <2> QED
      BY <1>1, <2>1 DEF Tasks, Stages
  <1> QED
    BY <1>2 DEF Attributions

LEMMA RejectType ==
    ASSUME TypeInv, NEW t \in tasks, Reject(t)
    PROVE  tasks' \subseteq Tasks /\ verdict' \in [Workers -> [Hashes -> Verdicts]]
  <1> USE DEF TypeInv, TypeOK
  <1>1. t \in Tasks /\ t.worker \in Workers /\ t.hash \in Hashes
    BY DEF Tasks
  <1>2. \A s \in tasks : [s EXCEPT !.detached = TRUE] \in Tasks
    BY DEF Tasks
  <1>3. CASE t.detached
    BY <1>3 DEF Reject, Finish
  <1>4. CASE ~t.detached
    <2>1. tasks' \subseteq Tasks
      BY <1>2, <1>4 DEF Reject
    <2>2. verdict' = [verdict EXCEPT ![t.worker][t.hash] = "settled"]
      BY <1>4 DEF Reject, SetVerdict
    <2> QED
      BY <1>1, <2>1, <2>2 DEF Verdicts
  <1> QED
    BY <1>3, <1>4

(* A step of a worker creates no document: it is well typed when what it    *)
(* does change is.                                                          *)
LEMMA WorkerFrame ==
    ASSUME TypeInv, creating' = creating,
           asset' \in Seq(AssetDocs), Len(asset') = Len(asset),
           tx' \in Seq(TxDocs), Len(tx') = Len(tx),
           \/ chain' = chain
           \/ chain' \in Seq(Sends) /\ Len(chain') <= MaxSends,
           faults' \in 0 .. MaxFaults,
           lock' \in Workers \cup {NoWorker}, pc' \in [Workers -> PCs],
           snap' \in [Workers -> Seq(TxDocs)],
           \A v \in Workers : Len(snap'[v]) <= Len(tx),
           deep' \in [Workers -> SUBSET Hashes],
           verdict' \in [Workers -> [Hashes -> Verdicts]],
           toSend' \in [Workers -> SUBSET Groups],
           unsaved' \in [Workers -> SUBSET Hashes],
           tasks' \subseteq Tasks
    PROVE  TypeInv'
  <1> USE DEF TypeInv, TypeOK
  <1>1. DOMAIN asset' = DOMAIN asset
    <2>1. DOMAIN asset = 1 .. Len(asset) /\ DOMAIN asset' = 1 .. Len(asset')
      OBVIOUS
    <2> QED
      BY <2>1
  <1> QED
    BY <1>1

LEMMA ForgetType ==
    ASSUME TypeInv, NEW w \in Workers, Forget(w)
    PROVE  /\ pc' \in [Workers -> PCs]
           /\ snap' \in [Workers -> Seq(TxDocs)]
           /\ \A v \in Workers : Len(snap'[v]) <= Len(tx)
           /\ deep' \in [Workers -> SUBSET Hashes]
           /\ verdict' \in [Workers -> [Hashes -> Verdicts]]
           /\ toSend' \in [Workers -> SUBSET Groups]
           /\ unsaved' \in [Workers -> SUBSET Hashes]
  <1> USE DEF TypeInv, TypeOK, Forget, Goto
  <1>1. Len(tx) \in Nat /\ Len(<<>>) = 0
    OBVIOUS
  <1>2. \A v \in Workers : snap'[v] = snap[v] \/ snap'[v] = <<>>
    OBVIOUS
  <1>3. \A v \in Workers : Len(snap'[v]) <= Len(tx)
    BY <1>1, <1>2
  <1>4. verdict' \in [Workers -> [Hashes -> Verdicts]]
    BY DEF Verdicts
  <1>5. pc' \in [Workers -> PCs]
    BY DEF PCs
  <1> QED
    BY <1>3, <1>4, <1>5

LEMMA FaultType ==
    ASSUME TypeInv, NEW kind, Fault(kind)
    PROVE  faults' \in 0 .. MaxFaults
  BY BoundsAssumption DEF TypeInv, TypeOK, Fault

LEMMA JobType ==
    ASSUME TypeInv, NEW w \in Workers, Acquire(w) \/ JobStep(w)
    PROVE  TypeInv'
  <1> USE DEF OutsideUnchanged, TaskOutside, portalVars, requestVars
  <1>t. /\ pc \in [Workers -> PCs] /\ snap \in [Workers -> Seq(TxDocs)]
        /\ \A v \in Workers : Len(snap[v]) <= Len(tx)
        /\ deep \in [Workers -> SUBSET Hashes]
        /\ verdict \in [Workers -> [Hashes -> Verdicts]]
        /\ toSend \in [Workers -> SUBSET Groups]
        /\ unsaved \in [Workers -> SUBSET Hashes]
        /\ tasks \subseteq Tasks /\ lock \in Workers \cup {NoWorker}
        /\ faults \in 0 .. MaxFaults
        /\ asset \in Seq(AssetDocs) /\ tx \in Seq(TxDocs)
        /\ chain \in Seq(Sends) /\ Len(chain) <= MaxSends
    BY DEF TypeInv, TypeOK
  <1>h. DOMAIN chain \subseteq Hashes /\ Len(chain) \in Nat
    <2>1. DOMAIN chain = 1 .. Len(chain) /\ Len(chain) \in Nat
      BY <1>t
    <2> QED
      BY <1>t, <2>1, BoundsAssumption DEF Hashes
  <1>1. CASE Acquire(w)
    <2>1. lock' \in Workers \cup {NoWorker} /\ pc' \in [Workers -> PCs]
      BY <1>1, <1>t DEF Acquire, Goto, PCs
    <2> QED
      BY <1>1, <1>t, <2>1, WorkerFrame DEF Acquire
  <1>2. CASE Fetch(w)
    <2>1. pc' \in [Workers -> PCs]
      BY <1>2, <1>t DEF Fetch, Goto, PCs
    <2>2. {GroupOf(i) : i \in {j \in DOMAIN tx : tx[j].state = "pending"}} \subseteq Groups
      BY GroupType
    <2>3. toSend' \in [Workers -> SUBSET Groups]
      BY <1>2, <1>t, <2>2 DEF Fetch
    <2>4. /\ snap' \in [Workers -> Seq(TxDocs)]
          /\ \A v \in Workers : Len(snap'[v]) <= Len(tx)
      <3>1. snap' = [snap EXCEPT ![w] = tx]
        BY <1>2 DEF Fetch
      <3>2. Len(tx) \in Nat
        BY <1>t
      <3> QED
        BY <3>1, <3>2, <1>t
    <2> QED
      BY <1>2, <1>t, <2>1, <2>3, <2>4, WorkerFrame DEF Fetch
  <1>3. CASE ReadBlockNumber(w)
    <2>1. pc' \in [Workers -> PCs]
      BY <1>3, <1>t DEF ReadBlockNumber, Goto, PCs
    <2>2. {h \in DOMAIN chain : chain[h].status = "deep"} \subseteq Hashes
      BY <1>h
    <2>3. deep' \in [Workers -> SUBSET Hashes]
      BY <1>3, <1>t, <2>2 DEF ReadBlockNumber
    <2>4. [h \in Hashes |-> IF Following(w, h) # {} THEN "asked" ELSE "none"]
            \in [Hashes -> Verdicts]
      BY DEF Verdicts
    <2>5. verdict' \in [Workers -> [Hashes -> Verdicts]]
      BY <1>3, <1>t, <2>4 DEF ReadBlockNumber
    <2> QED
      BY <1>3, <1>t, <2>1, <2>3, <2>5, WorkerFrame DEF ReadBlockNumber
  <1>4. ASSUME NEW h \in Hashes, ReadReceipt(w, h)
        PROVE  TypeInv'
    <2>1. Judge(w, h) \in Verdicts
      BY DEF Judge, Verdicts
    <2>2. verdict' \in [Workers -> [Hashes -> Verdicts]]
      BY <1>4, <1>t, <2>1 DEF ReadReceipt, SetVerdict
    <2> QED
      BY <1>4, <1>t, <2>2, WorkerFrame DEF ReadReceipt
  <1>5. CASE Decide(w)
    <2>1. pc' \in [Workers -> PCs]
      BY <1>5, <1>t DEF Decide, Goto, PCs
    <2>2. tasks' \subseteq Tasks
      BY <1>5, <1>t, AttributionsType DEF Decide
    <2> QED
      BY <1>5, <1>t, <2>1, <2>2, WorkerFrame DEF Decide
  <1>6. ASSUME NEW h \in Hashes, MarkSubmitted(w, h)
        PROVE  TypeInv'
    <2>1. \A i \in DOMAIN tx : [tx[i] EXCEPT !.state = "submitted"] \in TxDocs
      <3>1. \A i \in DOMAIN tx : tx[i] \in TxDocs
        BY <1>t
      <3> QED
        BY <3>1, DocUpdate DEF TxStates
    <2>2. /\ tx' = [i \in DOMAIN tx |-> tx'[i]]
          /\ \A i \in DOMAIN tx : tx'[i] \in TxDocs
      BY <1>6, <1>t, <2>1 DEF MarkSubmitted
    <2>3. tx' \in Seq(TxDocs) /\ Len(tx') = Len(tx)
      BY <1>t, <2>2, UpdatedSeq
    <2>4. verdict' \in [Workers -> [Hashes -> Verdicts]]
      BY <1>6, <1>t DEF MarkSubmitted, SetVerdict, Verdicts
    <2> QED
      BY <1>6, <1>t, <2>3, <2>4, WorkerFrame DEF MarkSubmitted
  <1>7. CASE StartTransact(w)
    <2>1. pc' \in [Workers -> PCs]
      BY <1>7, <1>t DEF StartTransact, Goto, PCs
    <2>2. {GroupOf(i) : i \in ToTransact(w)} \subseteq Groups
      BY FollowingType, GroupType
    <2>3. toSend' \in [Workers -> SUBSET Groups]
      BY <1>7, <1>t, <2>2 DEF StartTransact
    <2> QED
      BY <1>7, <1>t, <2>1, <2>3, WorkerFrame DEF StartTransact
  <1>8. ASSUME NEW g \in Groups, Send(w, g)
        PROVE  TypeInv'
    <2>1. Batch(w, g) \in SUBSET TxIds /\ Batch(w, g) \subseteq DOMAIN tx
      BY FollowingType DEF Batch
    <2>2. g[2] \in Collections
      BY DEF Groups
    <2>3. ASSUME g[1] = "BurnAsset"
          PROVE  BurnsOf(Batch(w, g)) \in SUBSET Tokens
      <3>1. \A i \in Batch(w, g) : tx[i] \in TxDocs /\ tx[i].type = "BurnAsset"
        BY <1>t, <2>1, <2>3 DEF Batch, GroupOf
      <3> QED
        BY <3>1 DEF BurnsOf, TxDocs
    <2>4. PICK call \in Calls, burns \in SUBSET Tokens :
             SendCall(call, g[2], Batch(w, g), burns)
      BY <1>8, <2>3 DEF Send, Calls
    <2>5. [call |-> call, coll |-> g[2], reqs |-> Batch(w, g), burns |-> burns,
           status |-> "mempool"] \in Sends
      BY <2>1, <2>2, <2>4 DEF Sends, Statuses
    <2>6. chain' \in Seq(Sends) /\ Len(chain') = Len(chain) + 1
      BY <1>t, <2>4, <2>5 DEF SendCall
    <2>7. Len(chain) < MaxSends
      BY <1>8 DEF Send
    <2>8. Len(chain') <= MaxSends /\ Len(chain) + 1 \in Hashes
      BY <1>h, <2>6, <2>7, BoundsAssumption DEF Hashes
    <2>9. toSend' \in [Workers -> SUBSET Groups] /\ unsaved' \in [Workers -> SUBSET Hashes]
      BY <1>8, <1>t, <2>8 DEF Send
    <2> QED
      BY <1>8, <1>t, <2>6, <2>8, <2>9, WorkerFrame DEF Send
  <1>9. ASSUME NEW g \in Groups, SendRefused(w, g)
        PROVE  TypeInv'
    <2>1. toSend' \in [Workers -> SUBSET Groups]
      BY <1>9, <1>t DEF SendRefused, GiveUp
    <2> QED
      BY <1>9, <1>t, <2>1, WorkerFrame DEF SendRefused, GiveUp
  <1>10. ASSUME NEW h \in Hashes, SaveHash(w, h)
         PROVE  TypeInv'
    <2> DEFINE doc(i) == [tx[i] EXCEPT !.state = "submitting", !.hash = h]
    <2>1. \A i \in DOMAIN tx : doc(i) \in TxDocs /\ tx[i] \in TxDocs
      <3>1. \A i \in DOMAIN tx : tx[i] \in TxDocs
        BY <1>t
      <3> QED
        BY <3>1, DocUpdate DEF TxStates
    <2>u. tx' = [i \in DOMAIN tx |-> IF i \in ToUpdate(h) THEN doc(i) ELSE tx[i]]
      BY <1>10 DEF SaveHash
    <2> HIDE DEF doc
    <2>2. /\ tx' = [i \in DOMAIN tx |-> tx'[i]]
          /\ \A i \in DOMAIN tx : tx'[i] \in TxDocs
      BY <2>1, <2>u
    <2>3. tx' \in Seq(TxDocs) /\ Len(tx') = Len(tx)
      BY <1>t, <2>2, UpdatedSeq
    <2>4. unsaved' \in [Workers -> SUBSET Hashes]
      BY <1>10, <1>t DEF SaveHash
    <2> QED
      BY <1>10, <1>t, <2>3, <2>4, WorkerFrame DEF SaveHash
  <1>11. CASE Unlock(w)
    <2>1. lock' \in Workers \cup {NoWorker}
      BY <1>11 DEF Unlock
    <2> QED
      BY <1>11, <1>t, <2>1, ForgetType, WorkerFrame DEF Unlock
  <1>12. ASSUME NEW t \in tasks, t.worker = w, TaskStep(t)
         PROVE  TypeInv'
    <2>t. t \in Tasks /\ t.token \in Tokens \cup {NoToken}
      BY <1>t DEF Tasks
    <2>a. DOMAIN asset = 1 .. Len(asset) /\ \A a \in DOMAIN asset : asset[a] \in AssetDocs
      BY <1>t
    <2>1. CASE FindToken(t)
      <3>1. [t EXCEPT !.stage = "set"] \in Tasks
        BY <2>t DEF Tasks, Stages
      <3>2. tasks' \subseteq Tasks
        BY <1>t, <2>1, <3>1 DEF FindToken, Finish
      <3> QED
        BY <1>t, <2>1, <3>2, WorkerFrame DEF FindToken
    <2>2. CASE SetTokenId(t)
      <3>1. tasks' \subseteq Tasks /\ verdict' \in [Workers -> [Hashes -> Verdicts]]
        BY <1>t, <2>2, RejectType DEF SetTokenId, Finish
      <3>2. asset' \in Seq(AssetDocs) /\ Len(asset') = Len(asset)
        <4>1. CASE asset' = asset
          BY <4>1, <1>t
        <4>2. ASSUME NEW a \in DOMAIN asset, GiveToken(a, t.token)
              PROVE  asset' \in Seq(AssetDocs) /\ Len(asset') = Len(asset)
          <5>1. [asset[a] EXCEPT !.token = t.token, !.state = "minted"] \in AssetDocs
            BY <2>t, <2>a DEF AssetDocs, AssetStates
          <5>2. asset' = [asset EXCEPT ![a] = [asset[a] EXCEPT !.token = t.token,
                                                            !.state = "minted"]]
            BY <4>2, <2>a DEF GiveToken, AssetDocs
          <5> QED
            BY <1>t, <5>1, <5>2
        <4> QED
          BY <2>2, <4>1, <4>2 DEF SetTokenId, Matching, Tokenless
      <3> QED
        BY <1>t, <2>2, <3>1, <3>2, WorkerFrame DEF SetTokenId
    <2>3. CASE SetBurnt(t)
      <3>1. tasks' \subseteq Tasks /\ verdict' \in [Workers -> [Hashes -> Verdicts]]
        BY <1>t, <2>3, RejectType DEF SetBurnt, Finish
      <3> DEFINE doc(a) == [asset[a] EXCEPT !.state = "burnt"]
      <3>2. \A a \in DOMAIN asset : doc(a) \in AssetDocs
        BY <2>a DEF AssetDocs, AssetStates
      <3>u. \/ asset' = asset
            \/ asset' = [a \in DOMAIN asset |->
                   IF a \in Holder(tx[t.req].coll, t.token) THEN doc(a) ELSE asset[a]]
        BY <2>3 DEF SetBurnt
      <3> HIDE DEF doc
      <3>3. /\ asset' = [a \in DOMAIN asset |-> asset'[a]]
            /\ \A a \in DOMAIN asset : asset'[a] \in AssetDocs
        BY <2>a, <3>2, <3>u, <1>t
      <3>4. asset' \in Seq(AssetDocs) /\ Len(asset') = Len(asset)
        BY <1>t, <3>3, UpdatedSeq
      <3> QED
        BY <1>t, <2>3, <3>1, <3>4, WorkerFrame DEF SetBurnt
    <2> QED
      BY <1>12, <2>1, <2>2, <2>3 DEF TaskStep
  <1> QED
    BY <1>1, <1>2, <1>3, <1>4, <1>5, <1>6, <1>7, <1>8, <1>9, <1>10, <1>11, <1>12
       DEF JobStep

LEMMA FaultStepType ==
    ASSUME TypeInv, NEW w \in Workers, FaultStep(w)
    PROVE  TypeInv'
  <1> USE DEF portalVars, requestVars
  <1>t. /\ pc \in [Workers -> PCs] /\ snap \in [Workers -> Seq(TxDocs)]
        /\ \A v \in Workers : Len(snap[v]) <= Len(tx)
        /\ deep \in [Workers -> SUBSET Hashes]
        /\ verdict \in [Workers -> [Hashes -> Verdicts]]
        /\ toSend \in [Workers -> SUBSET Groups]
        /\ unsaved \in [Workers -> SUBSET Hashes]
        /\ tasks \subseteq Tasks /\ lock \in Workers \cup {NoWorker}
        /\ faults \in 0 .. MaxFaults
        /\ asset \in Seq(AssetDocs) /\ tx \in Seq(TxDocs)
    BY DEF TypeInv, TypeOK
  <1>f. faults' \in 0 .. MaxFaults
    BY FaultType DEF FaultStep, Throw, Crash, MarkFails, SaveFails, SendFails,
                     AttributionFails
  <1>1. CASE Throw(w)
    <2>1. pc' \in [Workers -> PCs]
      BY <1>1, <1>t DEF Throw, Goto, PCs
    <2> QED
      BY <1>1, <1>t, <1>f, <2>1, WorkerFrame DEF Throw
  <1>2. CASE Crash(w)
    BY <1>2, <1>t, <1>f, ForgetType, WorkerFrame DEF Crash
  <1>3. ASSUME NEW h \in Hashes, MarkFails(w, h)
        PROVE  TypeInv'
    <2>1. verdict' \in [Workers -> [Hashes -> Verdicts]]
      BY <1>3, <1>t DEF MarkFails, SetVerdict, Verdicts
    <2> QED
      BY <1>3, <1>t, <1>f, <2>1, WorkerFrame DEF MarkFails
  <1>4. ASSUME NEW h \in Hashes, SaveFails(w, h)
        PROVE  TypeInv'
    <2>1. unsaved' \in [Workers -> SUBSET Hashes]
      BY <1>4, <1>t DEF SaveFails
    <2> QED
      BY <1>4, <1>t, <1>f, <2>1, WorkerFrame DEF SaveFails
  <1>5. ASSUME NEW g \in Groups, SendFails(w, g)
        PROVE  TypeInv'
    <2>1. toSend' \in [Workers -> SUBSET Groups]
      BY <1>5, <1>t DEF SendFails, GiveUp
    <2> QED
      BY <1>5, <1>t, <1>f, <2>1, WorkerFrame DEF SendFails, GiveUp
  <1>6. ASSUME NEW t \in tasks, AttributionFails(t)
        PROVE  TypeInv'
    <2>1. tasks' \subseteq Tasks /\ verdict' \in [Workers -> [Hashes -> Verdicts]]
      BY <1>6, RejectType DEF AttributionFails
    <2> QED
      BY <1>6, <1>t, <1>f, <2>1, WorkerFrame DEF AttributionFails
  <1> QED
    BY <1>1, <1>2, <1>3, <1>4, <1>5, <1>6 DEF FaultStep

LEMMA LockExpiresType ==
    ASSUME TypeInv, LockExpires
    PROVE  TypeInv'
  <1>1. faults' \in 0 .. MaxFaults
    BY FaultType DEF LockExpires, TypeInv, TypeOK
  <1>2. lock' \in Workers \cup {NoWorker}
    BY DEF LockExpires
  <1>3. UNCHANGED <<chain, asset, tx, creating, pc, snap, deep, verdict, toSend, unsaved, tasks>>
    BY DEF LockExpires, requestVars
  <1> QED
    BY <1>1, <1>2, <1>3 DEF TypeInv, TypeOK

LEMMA TypeStep == TypeInv /\ [Next]_vars => TypeInv'
  <1> SUFFICES ASSUME TypeInv, [Next]_vars PROVE TypeInv'
    OBVIOUS
  <1>1. CASE UNCHANGED vars
    BY <1>1 DEF vars, portalVars, requestVars, workerVars, TypeInv, TypeOK
  <1>2. CASE RequestNext /\ UNCHANGED workerVars
    BY <1>2, RequestType
  <1>3. CASE PortalNext /\ UNCHANGED <<requestVars, workerVars>>
    BY <1>3, PortalType
  <1>4. ASSUME NEW w \in Workers, Acquire(w) \/ JobStep(w) \/ FaultStep(w)
        PROVE  TypeInv'
    BY <1>4, JobType, FaultStepType
  <1>5. CASE LockExpires
    BY <1>5, LockExpiresType
  <1> QED
    BY <1>1, <1>2, <1>3, <1>4, <1>5 DEF Next

LEMMA TypeInvariance == Spec => []TypeInv
  BY InitType, TypeStep, PTL DEF Spec

(* Every document, job and lock value stays in its type.                    *)
THEOREM TypeCorrect == Spec => []TypeOK
  <1>1. TypeInv => TypeOK
    BY DEF TypeInv
  <1> QED
    BY <1>1, TypeInvariance, PTL

-----------------------------------------------------------------------------
(* Uniqueness of tokens.  The unique index decides at the moment of the     *)
(* write, so neither the lock nor the order of the attributions matters.    *)

LEMMA UniqueStep == TypeInv /\ OneAssetPerToken /\ [Next]_vars => OneAssetPerToken'
  <1> SUFFICES ASSUME TypeInv, OneAssetPerToken, [Next]_vars PROVE OneAssetPerToken'
    OBVIOUS
  <1>d. /\ DOMAIN asset = 1 .. Len(asset) /\ Len(asset) \in Nat
        /\ asset \in Seq(AssetDocs)
        /\ \A a \in DOMAIN asset : asset[a] \in AssetDocs
    BY DEF TypeInv, TypeOK
  <1>frame. ASSUME DOMAIN asset' = DOMAIN asset,
                   \A a \in DOMAIN asset : /\ asset'[a].token = asset[a].token
                                           /\ asset'[a].coll = asset[a].coll
            PROVE  OneAssetPerToken'
    BY <1>frame DEF OneAssetPerToken
  <1>1. CASE asset' = asset
    BY <1>1, <1>frame
  <1>2. ASSUME NEW u \in Users, NEW c \in Collections, CreateAsset(u, c)
        PROVE  OneAssetPerToken'
    <2> DEFINE doc == [owner |-> u, coll |-> c, state |-> "minting", token |-> NoToken]
    <2>1. asset' = Append(asset, doc)
      BY <1>2 DEF CreateAsset
    <2>2. doc.token = NoToken
      OBVIOUS
    <2> HIDE DEF doc
    <2>3. /\ DOMAIN asset' = DOMAIN asset \cup {Len(asset) + 1}
          /\ \A a \in DOMAIN asset : asset'[a] = asset[a]
          /\ asset'[Len(asset) + 1] = doc
      BY <1>d, <2>1
    <2> QED
      BY <2>2, <2>3 DEF OneAssetPerToken
  <1>3. ASSUME NEW a \in DOMAIN asset, BurnAsset(a)
        PROVE  OneAssetPerToken'
    <2>1. asset' = [asset EXCEPT ![a] = [asset[a] EXCEPT !.state = "burning"]]
      BY <1>3 DEF BurnAsset
    <2>2. /\ [asset[a] EXCEPT !.state = "burning"].token = asset[a].token
          /\ [asset[a] EXCEPT !.state = "burning"].coll = asset[a].coll
      BY <1>d DEF AssetDocs
    <2> QED
      BY <1>d, <1>frame, <2>1, <2>2
  <1>4. ASSUME NEW a \in DOMAIN asset, NEW u \in Users, UpdateAsset(a, u)
        PROVE  OneAssetPerToken'
    <2>1. asset' = [asset EXCEPT ![a] = [asset[a] EXCEPT !.owner = u]]
      BY <1>4 DEF UpdateAsset
    <2>2. /\ [asset[a] EXCEPT !.owner = u].token = asset[a].token
          /\ [asset[a] EXCEPT !.owner = u].coll = asset[a].coll
      BY <1>d DEF AssetDocs
    <2> QED
      BY <1>d, <1>frame, <2>1, <2>2
  <1>5. ASSUME NEW t \in tasks, SetTokenId(t), asset' # asset
        PROVE  OneAssetPerToken'
    <2> DEFINE c == tx[t.req].coll
    <2>1. PICK a \in Matching(c, tx[t.req].owner) : GiveToken(a, t.token)
      BY <1>5 DEF SetTokenId
    <2>2. Holder(c, t.token) = {}
      BY <1>5 DEF SetTokenId, Duplicate
    <2>3. a \in DOMAIN asset /\ asset[a].coll = c
      BY DEF Matching, Tokenless
    <2> DEFINE doc == [asset[a] EXCEPT !.token = t.token, !.state = "minted"]
    <2>4. asset' = [asset EXCEPT ![a] = doc]
      BY <2>1 DEF GiveToken
    <2>5. doc.token = t.token /\ doc.coll = c
      BY <1>d, <2>3 DEF AssetDocs
    <2>6. \A b \in DOMAIN asset : asset[b].coll = c => asset[b].token # t.token
      BY <2>2 DEF Holder
    <2> HIDE DEF doc, c
    <2>7. DOMAIN asset' = DOMAIN asset /\ asset'[a] = doc
          /\ \A b \in DOMAIN asset : b # a => asset'[b] = asset[b]
      BY <2>3, <2>4
    <2> QED
      BY <2>3, <2>5, <2>6, <2>7 DEF OneAssetPerToken
  <1>6. ASSUME NEW t \in tasks, SetBurnt(t), asset' # asset
        PROVE  OneAssetPerToken'
    <2> DEFINE doc(a) == [asset[a] EXCEPT !.state = "burnt"]
    <2>1. asset' = [a \in DOMAIN asset |->
                       IF a \in Holder(tx[t.req].coll, t.token) THEN doc(a) ELSE asset[a]]
      BY <1>6 DEF SetBurnt
    <2>2. \A a \in DOMAIN asset :
             doc(a).token = asset[a].token /\ doc(a).coll = asset[a].coll
      BY <1>d DEF AssetDocs
    <2> HIDE DEF doc
    <2> QED
      BY <1>frame, <2>1, <2>2
  <1>7. ASSUME PortalNext /\ UNCHANGED <<requestVars, workerVars>>
        PROVE  asset' = asset
    BY <1>7 DEF requestVars
  <1>8. ASSUME NEW w \in Workers, Acquire(w) \/ JobStep(w) \/ FaultStep(w), asset' # asset
        PROVE  \E t \in tasks : SetTokenId(t) \/ SetBurnt(t)
    BY <1>8 DEF JobStep, FaultStep, Acquire, Fetch, ReadBlockNumber, Decide, StartTransact,
         Unlock, ReadReceipt, MarkSubmitted, SaveHash, Send, SendRefused, GiveUp, TaskStep,
         FindToken, Throw, Crash, MarkFails, SaveFails, SendFails, AttributionFails,
         OutsideUnchanged, requestVars
  <1> QED
    BY <1>1, <1>2, <1>3, <1>4, <1>5, <1>6, <1>7, <1>8
       DEF Next, vars, requestVars, RequestNext, MintResource, CommitMint, AbortMint, LockExpires

(* No two assets of a collection ever hold the same token, whatever the     *)
(* jobs, the faults and the expiries of the lock.                           *)
THEOREM UniqueTokens == Spec => []OneAssetPerToken
  <1>1. Init => OneAssetPerToken
    BY DEF Init, RequestInit, OneAssetPerToken
  <1> QED
    BY <1>1, UniqueStep, TypeInvariance, PTL DEF Spec

-----------------------------------------------------------------------------
(* Mutual exclusion, while the key outlives the job.                        *)

LockInv == \A w \in Workers : pc[w] # "idle" => lock = w

LEMMA LockStep ==
    ASSUME TTLHolds, TypeInv, LockInv, [Next]_vars
    PROVE  LockInv'
  <1> USE DEF LockInv
  <1>t. pc \in [Workers -> PCs] /\ lock \in Workers \cup {NoWorker}
    BY DEF TypeInv, TypeOK
  <1>same. CASE pc' = pc /\ lock' = lock
    BY <1>same
  <1>1. ASSUME NEW w \in Workers, Acquire(w)
        PROVE  LockInv'
    <2>1. lock = NoWorker /\ lock' = w /\ pc' = [pc EXCEPT ![w] = "fetch"]
      BY <1>1 DEF Acquire, CanLock, Goto
    <2> QED
      BY <1>t, <2>1, WorkerAssumption
  <1>2. ASSUME NEW w \in Workers, NEW l, pc[w] # "idle", lock' = lock, Goto(w, l)
        PROVE  LockInv'
    BY <1>2, <1>t DEF Goto
  <1>3. ASSUME NEW w \in Workers, Unlock(w)
        PROVE  LockInv'
    <2>1. pc[w] # "idle" /\ pc' = [pc EXCEPT ![w] = "idle"]
      BY <1>3 DEF Unlock, Forget, Goto
    <2> QED
      BY <1>t, <2>1
  <1>4. ASSUME NEW w \in Workers, Crash(w)
        PROVE  LockInv'
    BY <1>4, <1>t DEF Crash, Forget, Goto
  <1>5. CASE LockExpires
    <2>1. lock \in Workers /\ pc[lock] = "idle"
      BY <1>5, <1>t DEF LockExpires, Fault, TTLHolds
    <2> QED
      BY <1>5, <2>1 DEF LockExpires
  <1>6. ASSUME NEW w \in Workers, JobStep(w) \/ FaultStep(w)
        PROVE  LockInv'
    <2>1. ASSUME NEW t \in tasks, TaskStep(t) \/ AttributionFails(t)
          PROVE  LockInv'
      BY <2>1, <1>same DEF TaskStep, FindToken, SetTokenId, SetBurnt, TaskOutside,
                           AttributionFails
    <2>2. CASE Fetch(w) \/ ReadBlockNumber(w) \/ Decide(w) \/ StartTransact(w) \/ Throw(w)
      <3>1. pc[w] # "idle" /\ lock' = lock
        BY <2>2 DEF Fetch, ReadBlockNumber, Decide, StartTransact, Throw
      <3>2. \E l : Goto(w, l)
        BY <2>2 DEF Fetch, ReadBlockNumber, Decide, StartTransact, Throw
      <3> QED
        BY <1>2, <3>1, <3>2
    <2>3. ASSUME NEW h \in Hashes, \/ ReadReceipt(w, h) \/ MarkSubmitted(w, h) \/ SaveHash(w, h)
                                   \/ MarkFails(w, h) \/ SaveFails(w, h)
          PROVE  LockInv'
      BY <2>3, <1>same DEF ReadReceipt, MarkSubmitted, SaveHash, MarkFails, SaveFails
    <2>4. ASSUME NEW g \in Groups, Send(w, g) \/ SendRefused(w, g) \/ SendFails(w, g)
          PROVE  LockInv'
      BY <2>4, <1>same DEF Send, SendRefused, SendFails, GiveUp
    <2> QED
      BY <1>3, <1>4, <1>6, <2>1, <2>2, <2>3, <2>4 DEF JobStep, FaultStep
  <1> QED
    BY <1>same, <1>1, <1>5, <1>6 DEF Next, vars, workerVars

LEMMA LockInvariance == TTLHolds => (Spec => []LockInv)
  <1> SUFFICES ASSUME TTLHolds PROVE Spec => []LockInv
    OBVIOUS
  <1>1. Init => LockInv
    BY DEF Init, WorkerInit, LockInv
  <1>2. TypeInv /\ LockInv /\ [Next]_vars => LockInv'
    BY LockStep
  <1> QED
    BY <1>1, <1>2, TypeInvariance, PTL DEF Spec

(* At most one process is inside its job, for any number of processes, as   *)
(* long as lockTTL outlives a job (synchronizeWork).                        *)
THEOREM MutualExclusion == TTLHolds => (Spec => []OneJobInside)
  <1> SUFFICES ASSUME TTLHolds PROVE Spec => []OneJobInside
    OBVIOUS
  <1>1. LockInv => OneJobInside
    BY DEF LockInv, OneJobInside
  <1> QED
    BY <1>1, LockInvariance, PTL

-----------------------------------------------------------------------------
(* A submitted Transaction is final.  A job writes over a Transaction after  *)
(* several awaits, by id and without looking at it again, so the invariant   *)
(* says what a job may rely on at each of its awaits: none of the            *)
(* Transactions it may still write over has been submitted since it read     *)
(* them.                                                                     *)

NotSubmitted(ids) == \A i \in ids : tx[i].state # "submitted"

JobInv(w) ==
    /\ pc[w] \in {"idle", "fetch"} => snap[w] = <<>>
    /\ pc[w] \in {"idle", "fetch", "block"} => \A h \in Hashes : verdict[w][h] # "settled"
    /\ NotSubmitted(Pending(w))
    /\ \A h \in Hashes : verdict[w][h] # "settled" => NotSubmitted(Following(w, h))
    /\ \A h \in unsaved[w] : /\ pc[w] = "transact"
                             /\ h \in DOMAIN chain
                             /\ chain[h].reqs \subseteq ToTransact(w)

TaskInv ==
    \A t \in tasks : ~t.detached =>
        pc[t.worker] = "process" /\ verdict[t.worker][t.hash] = "confirmed"

FinalInv == TypeInv /\ LockInv /\ TaskInv /\ \A w \in Workers : JobInv(w)

LEMMA NothingUnsaved ==
    ASSUME NEW w, JobInv(w), pc[w] # "transact"
    PROVE  unsaved[w] = {}
  BY DEF JobInv

(* What a job relies on holds on when its own state does.                   *)
LEMMA JobFrame ==
    ASSUME NEW v, JobInv(v), pc'[v] = pc[v], snap'[v] = snap[v],
           verdict'[v] = verdict[v], unsaved'[v] = unsaved[v],
           \A h \in DOMAIN chain : h \in DOMAIN chain' /\ chain'[h].reqs = chain[h].reqs,
           \A i \in DOMAIN snap[v] : tx'[i].state = "submitted" => tx[i].state = "submitted"
    PROVE  JobInv(v)'
  <1>1. Pending(v)' = Pending(v) /\ \A h : Following(v, h)' = Following(v, h)
    BY DEF Pending, Following
  <1>2. ToTransact(v)' = ToTransact(v)
    BY <1>1 DEF ToTransact, Rejected
  <1>3. Pending(v) \subseteq DOMAIN snap[v] /\ \A h : Following(v, h) \subseteq DOMAIN snap[v]
    BY DEF Pending, Following
  <1> QED
    BY <1>1, <1>2, <1>3 DEF JobInv, NotSubmitted

(* A job that has kept what it read, sent nothing, and let go of the        *)
(* Transactions it marked.                                                  *)
LEMMA JobChange ==
    ASSUME NEW v, JobInv(v), snap'[v] = snap[v], unsaved'[v] = {},
           pc'[v] \notin {"idle", "fetch", "block"},
           \A i \in Pending(v) : tx'[i].state = "submitted" => tx[i].state = "submitted",
           \A h \in Hashes : verdict'[v][h] # "settled" =>
               /\ verdict[v][h] # "settled"
               /\ \A i \in Following(v, h) :
                     tx'[i].state = "submitted" => tx[i].state = "submitted"
    PROVE  JobInv(v)'
  <1>1. Pending(v)' = Pending(v) /\ \A h : Following(v, h)' = Following(v, h)
    BY DEF Pending, Following
  <1> QED
    BY <1>1 DEF JobInv, NotSubmitted

LEMMA IdleJob ==
    ASSUME TypeInv, NEW w \in Workers, Forget(w)
    PROVE  JobInv(w)'
  <1>1. /\ pc'[w] = "idle" /\ snap'[w] = <<>> /\ unsaved'[w] = {}
        /\ verdict'[w] = [h \in Hashes |-> "none"]
    BY DEF TypeInv, TypeOK, Forget, Goto
  <1>2. Pending(w)' = {} /\ \A h : Following(w, h)' = {}
    BY <1>1 DEF Pending, Following
  <1> QED
    BY <1>1, <1>2 DEF JobInv, NotSubmitted

(* A send keeps the Transactions it was made for.                           *)
LEMMA ChainKeeps ==
    ASSUME TypeInv, [Next]_vars, NEW h \in DOMAIN chain
    PROVE  h \in DOMAIN chain' /\ chain'[h].reqs = chain[h].reqs
  <1>t. chain \in Seq(Sends) /\ chain[h] \in Sends
    BY DEF TypeInv, TypeOK
  <1>1. ASSUME NEW g \in DOMAIN chain, NEW st, SetStatus(g, st)
        PROVE  h \in DOMAIN chain' /\ chain'[h].reqs = chain[h].reqs
    BY <1>1, <1>t DEF SetStatus, Sends
  <1>2. ASSUME NEW call, NEW c, NEW reqs, NEW burns, SendCall(call, c, reqs, burns)
        PROVE  h \in DOMAIN chain' /\ chain'[h].reqs = chain[h].reqs
    <2> DEFINE new == [call |-> call, coll |-> c, reqs |-> reqs, burns |-> burns,
                       status |-> "mempool"]
    <2>1. chain' = Append(chain, new)
      BY <1>2 DEF SendCall
    <2> HIDE DEF new
    <2>2. h \in 1 .. Len(chain)
      BY <1>t
    <2> QED
      BY <1>t, <2>1, <2>2
  <1>3. CASE chain' = chain
    BY <1>3
  <1>4. ASSUME NEW w \in Workers, Acquire(w) \/ JobStep(w) \/ FaultStep(w), chain' # chain
        PROVE  \E g \in Groups : Send(w, g)
    BY <1>4 DEF JobStep, FaultStep, Acquire, Fetch, ReadBlockNumber, Decide, StartTransact,
         Unlock, ReadReceipt, MarkSubmitted, SaveHash, SendRefused, GiveUp, TaskStep,
         FindToken, SetTokenId, SetBurnt, TaskOutside, Throw, Crash, MarkFails, SaveFails,
         SendFails, AttributionFails, OutsideUnchanged, portalVars
  <1>5. ASSUME NEW w \in Workers, NEW g \in Groups, Send(w, g)
        PROVE  h \in DOMAIN chain' /\ chain'[h].reqs = chain[h].reqs
    BY <1>5, <1>2 DEF Send
  <1>6. CASE PortalNext
    BY <1>6, <1>1 DEF PortalNext, Mine, RevertBurn, Revert, Confirm, Reorg, Drop
  <1>7. CASE RequestNext
    BY <1>7, <1>3 DEF RequestNext, CreateAsset, MintResource, CommitMint, AbortMint, BurnAsset,
         UpdateAsset, portalVars
  <1>8. CASE LockExpires
    BY <1>8, <1>3 DEF LockExpires
  <1> QED
    BY <1>3, <1>4, <1>5, <1>6, <1>7, <1>8 DEF Next, vars, portalVars

(* The API adds Transactions and changes none.                              *)
LEMMA RequestsKeep ==
    ASSUME TypeInv, RequestNext, NEW i \in DOMAIN tx
    PROVE  tx'[i] = tx[i]
  <1>t. tx \in Seq(TxDocs) /\ i \in 1 .. Len(tx)
    BY DEF TypeInv, TypeOK
  <1>1. ASSUME NEW doc, Inserted(doc)
        PROVE  tx'[i] = tx[i]
    BY <1>1, <1>t DEF Inserted
  <1> QED
    BY <1>1 DEF RequestNext, CreateAsset, MintResource, CommitMint, AbortMint, BurnAsset,
         UpdateAsset

(* A worker changes no Transaction but those it marks and those of a send   *)
(* it has yet to store.                                                     *)
LEMMA WorkerKeeps ==
    ASSUME TypeInv, NEW w \in Workers, Acquire(w) \/ JobStep(w) \/ FaultStep(w),
           NEW i \in DOMAIN tx
    PROVE  \/ tx'[i] = tx[i]
           \/ \E h \in Hashes : /\ MarkSubmitted(w, h) /\ i \in Following(w, h)
                                /\ tx'[i] = [tx[i] EXCEPT !.state = "submitted"]
           \/ \E h \in unsaved[w] : i \in chain[h].reqs /\ tx'[i].state = "submitting"
  <1>t. tx[i] \in TxDocs
    BY DEF TypeInv, TypeOK
  <1>1. ASSUME tx' # tx
        PROVE  \E h \in Hashes : MarkSubmitted(w, h) \/ SaveHash(w, h)
    BY <1>1 DEF JobStep, FaultStep, Acquire, Fetch, ReadBlockNumber, Decide, StartTransact,
         Unlock, ReadReceipt, Send, SendRefused, GiveUp, TaskStep,
         FindToken, SetTokenId, SetBurnt, TaskOutside, Throw, Crash, MarkFails, SaveFails,
         SendFails, AttributionFails, OutsideUnchanged, requestVars
  <1>2. ASSUME NEW h \in Hashes, MarkSubmitted(w, h)
        PROVE  \/ tx'[i] = tx[i]
               \/ i \in Following(w, h) /\ tx'[i] = [tx[i] EXCEPT !.state = "submitted"]
    BY <1>2 DEF MarkSubmitted
  <1>3. ASSUME NEW h \in Hashes, SaveHash(w, h)
        PROVE  \/ tx'[i] = tx[i]
               \/ h \in unsaved[w] /\ i \in chain[h].reqs /\ tx'[i].state = "submitting"
    <2> DEFINE doc == [tx[i] EXCEPT !.state = "submitting", !.hash = h]
    <2>1. doc.state = "submitting"
      BY <1>t DEF TxDocs
    <2>2. tx'[i] = IF i \in ToUpdate(h) THEN doc ELSE tx[i]
      BY <1>3 DEF SaveHash
    <2> HIDE DEF doc
    <2> QED
      BY <1>3, <2>1, <2>2 DEF SaveHash, ToUpdate
  <1> QED
    BY <1>1, <1>2, <1>3

(* A step of one process leaves the job of another as it is.                *)
LEMMA LocalStep ==
    ASSUME TypeInv, NEW w \in Workers, NEW v \in Workers, v # w,
           Acquire(w) \/ JobStep(w) \/ FaultStep(w)
    PROVE  /\ pc'[v] = pc[v] /\ snap'[v] = snap[v]
           /\ verdict'[v] = verdict[v] /\ unsaved'[v] = unsaved[v]
  <1>t. /\ pc \in [Workers -> PCs] /\ snap \in [Workers -> Seq(TxDocs)]
        /\ verdict \in [Workers -> [Hashes -> Verdicts]]
        /\ unsaved \in [Workers -> SUBSET Hashes]
    BY DEF TypeInv, TypeOK
  <1> USE <1>t DEF Goto, SetVerdict, Forget
  <1>1. CASE Acquire(w) \/ Fetch(w) \/ ReadBlockNumber(w)
    BY <1>1 DEF Acquire, Fetch, ReadBlockNumber
  <1>2. CASE Decide(w) \/ StartTransact(w) \/ Throw(w)
    BY <1>2 DEF Decide, StartTransact, Throw
  <1>3. CASE Unlock(w) \/ Crash(w)
    BY <1>3 DEF Unlock, Crash
  <1>4. ASSUME NEW h \in Hashes, \/ ReadReceipt(w, h) \/ MarkSubmitted(w, h) \/ SaveHash(w, h)
                                 \/ MarkFails(w, h) \/ SaveFails(w, h)
        PROVE  /\ pc'[v] = pc[v] /\ snap'[v] = snap[v]
               /\ verdict'[v] = verdict[v] /\ unsaved'[v] = unsaved[v]
    BY <1>4 DEF ReadReceipt, MarkSubmitted, SaveHash, MarkFails, SaveFails
  <1>5. ASSUME NEW g \in Groups, Send(w, g) \/ SendRefused(w, g) \/ SendFails(w, g)
        PROVE  /\ pc'[v] = pc[v] /\ snap'[v] = snap[v]
               /\ verdict'[v] = verdict[v] /\ unsaved'[v] = unsaved[v]
    BY <1>5 DEF Send, SendRefused, SendFails, GiveUp
  <1>6. ASSUME NEW t \in tasks, t.worker = w, TaskStep(t) \/ AttributionFails(t)
        PROVE  /\ pc'[v] = pc[v] /\ snap'[v] = snap[v]
               /\ verdict'[v] = verdict[v] /\ unsaved'[v] = unsaved[v]
    <2>1. verdict'[v] = verdict[v]
      BY <1>6 DEF TaskStep, FindToken, SetTokenId, SetBurnt, AttributionFails, Reject
    <2> QED
      BY <1>6, <2>1 DEF TaskStep, FindToken, SetTokenId, SetBurnt, AttributionFails, TaskOutside
  <1> QED
    BY <1>1, <1>2, <1>3, <1>4, <1>5, <1>6 DEF JobStep, FaultStep

LEMMA OtherJob ==
    ASSUME FinalInv, [Next]_vars, NEW w \in Workers, NEW v \in Workers, v # w,
           Acquire(w) \/ JobStep(w) \/ FaultStep(w)
    PROVE  JobInv(v)'
  <1> USE DEF FinalInv
  <1>1. DOMAIN snap[v] \subseteq DOMAIN tx
    BY FollowingType
  <1>2. ASSUME NEW i \in DOMAIN snap[v], tx'[i].state = "submitted",
               tx[i].state # "submitted"
        PROVE  FALSE
    <2>1. PICK h \in Hashes : MarkSubmitted(w, h)
      BY <1>1, <1>2, WorkerKeeps
    <2>2. pc[w] = "process"
      BY <2>1 DEF MarkSubmitted, Processed
    <2>3. pc[v] = "idle"
      BY <2>2 DEF LockInv
    <2> QED
      BY <2>3 DEF JobInv
  <1> QED
    BY <1>2, ChainKeeps, LocalStep, JobFrame

LEMMA OwnJob ==
    ASSUME FinalInv, [Next]_vars, NEW w \in Workers,
           Acquire(w) \/ JobStep(w) \/ FaultStep(w)
    PROVE  JobInv(w)'
  <1> USE DEF FinalInv, OutsideUnchanged, portalVars, requestVars
  <1>t. /\ pc \in [Workers -> PCs] /\ snap \in [Workers -> Seq(TxDocs)]
        /\ verdict \in [Workers -> [Hashes -> Verdicts]]
        /\ unsaved \in [Workers -> SUBSET Hashes] /\ tasks \subseteq Tasks
        /\ chain \in Seq(Sends)
    BY DEF TypeInv, TypeOK
  <1>d. /\ \A h : Following(w, h) \subseteq DOMAIN tx
        /\ Pending(w) \subseteq DOMAIN tx /\ ToTransact(w) \subseteq DOMAIN tx
    BY FollowingType DEF ToTransact
  <1>i. JobInv(w)
    OBVIOUS
  <1>k. \A h \in DOMAIN chain : h \in DOMAIN chain' /\ chain'[h].reqs = chain[h].reqs
    BY ChainKeeps
  <1>1. CASE Acquire(w)
    <2>1. unsaved[w] = {} /\ snap[w] = <<>>
      BY <1>1, <1>i, NothingUnsaved DEF Acquire, JobInv
    <2>2. /\ pc'[w] = "fetch" /\ snap'[w] = <<>> /\ verdict'[w] = verdict[w]
          /\ unsaved'[w] = {} /\ pc[w] = "idle"
      BY <1>1, <1>t, <2>1 DEF Acquire, Goto
    <2>3. Pending(w)' = {} /\ \A h : Following(w, h)' = {}
      BY <2>2 DEF Pending, Following
    <2> QED
      BY <1>i, <2>2, <2>3 DEF JobInv, NotSubmitted
  <1>2. CASE Fetch(w)
    <2>1. unsaved[w] = {} /\ \A h \in Hashes : verdict[w][h] # "settled"
      BY <1>2, <1>i, NothingUnsaved DEF Fetch, JobInv
    <2>2. /\ pc'[w] \in {"block", "transact"} /\ snap'[w] = tx /\ tx' = tx
          /\ unsaved'[w] = {} /\ verdict'[w] = verdict[w]
      BY <1>2, <1>t, <2>1 DEF Fetch, Goto
    <2>3. /\ \A i \in Pending(w)' : tx'[i].state = "pending"
          /\ \A h : \A i \in Following(w, h)' : tx'[i].state = "submitting"
      BY <2>2 DEF Pending, Following
    <2> QED
      BY <2>1, <2>2, <2>3 DEF JobInv, NotSubmitted
  <1>3. CASE ReadBlockNumber(w)
    <2>1. unsaved[w] = {} /\ \A h \in Hashes : verdict[w][h] # "settled"
      BY <1>3, <1>i, NothingUnsaved DEF ReadBlockNumber, JobInv
    <2>2. /\ pc'[w] = "receipts" /\ snap'[w] = snap[w] /\ tx' = tx /\ unsaved'[w] = {}
      BY <1>3, <1>t, <2>1 DEF ReadBlockNumber, Goto
    <2> QED
      BY <1>i, <2>1, <2>2, JobChange
  <1>4. ASSUME NEW g \in Hashes, ReadReceipt(w, g)
        PROVE  JobInv(w)'
    <2>1. unsaved[w] = {} /\ pc[w] = "receipts" /\ verdict[w][g] # "settled"
      BY <1>4, <1>i, NothingUnsaved DEF ReadReceipt
    <2>2. /\ pc'[w] = "receipts" /\ snap'[w] = snap[w] /\ tx' = tx /\ unsaved'[w] = {}
          /\ \A h \in Hashes : h # g => verdict'[w][h] = verdict[w][h]
      BY <1>4, <1>t, <2>1 DEF ReadReceipt, SetVerdict
    <2> QED
      BY <1>i, <2>1, <2>2, JobChange
  <1>5. CASE Decide(w)
    <2>1. unsaved[w] = {}
      BY <1>5, <1>i, NothingUnsaved DEF Decide
    <2>2. /\ pc'[w] \in {"unlock", "process"} /\ snap'[w] = snap[w] /\ tx' = tx
          /\ unsaved'[w] = {} /\ verdict'[w] = verdict[w]
      BY <1>5, <1>t, <2>1 DEF Decide, Goto
    <2> QED
      BY <1>i, <2>2, JobChange
  <1>6. ASSUME NEW g \in Hashes, MarkSubmitted(w, g)
        PROVE  JobInv(w)'
    <2>1. pc[w] = "process" /\ unsaved[w] = {}
      BY <1>6, <1>i, NothingUnsaved DEF MarkSubmitted, Processed
    <2>2. /\ pc'[w] = "process" /\ snap'[w] = snap[w] /\ unsaved'[w] = {}
          /\ verdict'[w][g] = "settled"
          /\ \A h \in Hashes : h # g => verdict'[w][h] = verdict[w][h]
      BY <1>6, <1>t, <2>1 DEF MarkSubmitted, SetVerdict
    <2>3. \A i \in DOMAIN tx : i \notin Following(w, g) => tx'[i] = tx[i]
      BY <1>6 DEF MarkSubmitted
    <2>4. /\ \A i \in Pending(w) : i \notin Following(w, g)
          /\ \A h : h # g => \A i \in Following(w, h) : i \notin Following(w, g)
      BY DEF Pending, Following
    <2> QED
      BY <1>d, <1>i, <2>1, <2>2, <2>3, <2>4, JobChange
  <1>7. CASE StartTransact(w)
    <2>1. unsaved[w] = {}
      BY <1>7, <1>i, NothingUnsaved DEF StartTransact
    <2>2. /\ pc'[w] = "transact" /\ snap'[w] = snap[w] /\ tx' = tx
          /\ unsaved'[w] = {} /\ verdict'[w] = verdict[w]
      BY <1>7, <1>t, <2>1 DEF StartTransact, Goto
    <2> QED
      BY <1>i, <2>2, JobChange
  <1>8. ASSUME NEW g \in Groups, Send(w, g)
        PROVE  JobInv(w)'
    <2>1. /\ pc[w] = "transact" /\ pc' = pc /\ snap' = snap /\ verdict' = verdict /\ tx' = tx
          /\ unsaved'[w] = unsaved[w] \cup {Len(chain) + 1}
      BY <1>8, <1>t DEF Send
    <2>2. Len(chain) + 1 \in DOMAIN chain' /\ chain'[Len(chain) + 1].reqs = Batch(w, g)
      <3>1. PICK call, burns : SendCall(call, g[2], Batch(w, g), burns)
        BY <1>8 DEF Send
      <3> DEFINE new == [call |-> call, coll |-> g[2], reqs |-> Batch(w, g),
                         burns |-> burns, status |-> "mempool"]
      <3>2. chain' = Append(chain, new) /\ new.reqs = Batch(w, g)
        BY <3>1 DEF SendCall
      <3> HIDE DEF new
      <3> QED
        BY <1>t, <3>2
    <2>3. /\ Pending(w)' = Pending(w) /\ \A h : Following(w, h)' = Following(w, h)
          /\ ToTransact(w)' = ToTransact(w)
      BY <2>1 DEF Pending, Following, ToTransact, Rejected
    <2>4. \A h \in unsaved'[w] : h \in DOMAIN chain' /\ chain'[h].reqs \subseteq ToTransact(w)
      BY <1>i, <1>k, <2>1, <2>2 DEF JobInv, Batch
    <2> QED
      BY <1>i, <2>1, <2>3, <2>4 DEF JobInv, NotSubmitted
  <1>9. ASSUME NEW g \in Groups, SendRefused(w, g) \/ SendFails(w, g)
        PROVE  JobInv(w)'
    <2>1. pc' = pc /\ snap' = snap /\ verdict' = verdict /\ tx' = tx /\ unsaved' = unsaved
      BY <1>9 DEF SendRefused, SendFails, GiveUp
    <2> QED
      BY <1>i, <1>k, <2>1, JobFrame
  <1>10. ASSUME NEW g \in Hashes, SaveHash(w, g) \/ SaveFails(w, g)
         PROVE  JobInv(w)'
    <2>1. /\ pc' = pc /\ snap' = snap /\ verdict' = verdict /\ chain' = chain
          /\ unsaved'[w] \subseteq unsaved[w]
      BY <1>10, <1>t DEF SaveHash, SaveFails
    <2>2. ASSUME NEW i \in DOMAIN tx, tx'[i].state = "submitted"
          PROVE  tx[i].state = "submitted"
      <3>1. \A h : ~ MarkSubmitted(w, h)
        BY <1>10, <1>i DEF SaveHash, SaveFails, MarkSubmitted, Processed, JobInv
      <3> QED
        BY <2>2, <3>1, WorkerKeeps
    <2>3. /\ Pending(w)' = Pending(w) /\ \A h : Following(w, h)' = Following(w, h)
          /\ ToTransact(w)' = ToTransact(w)
      BY <2>1 DEF Pending, Following, ToTransact, Rejected
    <2> QED
      BY <1>d, <1>i, <2>1, <2>2, <2>3 DEF JobInv, NotSubmitted
  <1>11. CASE Unlock(w) \/ Crash(w)
    BY <1>11, IdleJob DEF Unlock, Crash
  <1>12. CASE Throw(w)
    <2>1. unsaved[w] = {}
      BY <1>12, <1>i, NothingUnsaved DEF Throw
    <2>2. /\ pc'[w] = "unlock" /\ snap'[w] = snap[w] /\ tx' = tx
          /\ unsaved'[w] = {} /\ verdict'[w] = verdict[w]
      BY <1>12, <1>t, <2>1 DEF Throw, Goto
    <2> QED
      BY <1>i, <2>2, JobChange
  <1>13. ASSUME NEW g \in Hashes, MarkFails(w, g)
         PROVE  JobInv(w)'
    <2>1. unsaved[w] = {} /\ pc[w] = "process"
      BY <1>13, <1>i, NothingUnsaved DEF MarkFails, Processed
    <2>2. /\ pc'[w] = "process" /\ snap'[w] = snap[w] /\ tx' = tx /\ unsaved'[w] = {}
          /\ verdict'[w][g] = "settled"
          /\ \A h \in Hashes : h # g => verdict'[w][h] = verdict[w][h]
      BY <1>13, <1>t, <2>1 DEF MarkFails, SetVerdict
    <2> QED
      BY <1>i, <2>2, JobChange
  <1>14. ASSUME NEW t \in tasks, t.worker = w, TaskStep(t) \/ AttributionFails(t)
         PROVE  JobInv(w)'
    <2>1. pc' = pc /\ snap' = snap /\ tx' = tx /\ unsaved' = unsaved
      BY <1>14 DEF TaskStep, FindToken, SetTokenId, SetBurnt, AttributionFails, TaskOutside
    <2>2. CASE verdict' = verdict
      BY <1>i, <1>k, <2>1, <2>2, JobFrame
    <2>3. CASE verdict' # verdict
      <3>1. ~t.detached /\ SetVerdict(w, t.hash, "settled")
        BY <1>14, <2>3 DEF TaskStep, FindToken, SetTokenId, SetBurnt, AttributionFails, Reject
      <3>2. pc[w] = "process"
        BY <1>14, <3>1 DEF TaskInv
      <3>3. unsaved[w] = {}
        BY <1>i, <3>2, NothingUnsaved
      <3>4. \A h \in Hashes : verdict'[w][h] = verdict[w][h] \/ verdict'[w][h] = "settled"
        BY <1>t, <3>1 DEF SetVerdict
      <3> QED
        BY <1>i, <2>1, <3>2, <3>3, <3>4, JobChange
    <2> QED
      BY <2>2, <2>3
  <1> QED
    BY <1>1, <1>2, <1>3, <1>4, <1>5, <1>6, <1>7, <1>8, <1>9, <1>10, <1>11, <1>12, <1>13,
       <1>14 DEF JobStep, FaultStep

(* While a processReceipt is waiting for an attribution, its job is in that *)
(* phase and its receipt is unsettled.                                      *)
LEMMA TaskStepInv ==
    ASSUME FinalInv, NEW w \in Workers, Acquire(w) \/ JobStep(w) \/ FaultStep(w)
    PROVE  TaskInv'
  <1> USE DEF FinalInv, TaskInv
  <1>t. /\ pc \in [Workers -> PCs] /\ verdict \in [Workers -> [Hashes -> Verdicts]]
        /\ tasks \subseteq Tasks
        /\ \A t \in tasks : t \in Tasks /\ t.worker \in Workers /\ t.hash \in Hashes
    BY DEF TypeInv, TypeOK, Tasks
  <1>o. \A v \in Workers : v # w => pc'[v] = pc[v] /\ verdict'[v] = verdict[v]
    BY LocalStep
  <1>frame. ASSUME tasks' \subseteq tasks,
                   \A t \in tasks' : ~t.detached /\ t.worker = w =>
                      /\ pc'[w] = "process" /\ verdict'[w][t.hash] = "confirmed"
            PROVE  TaskInv'
    BY <1>frame, <1>t, <1>o
  <1>none. ASSUME tasks' = tasks, pc[w] # "process"
           PROVE  TaskInv'
    BY <1>none, <1>frame
  <1>same. ASSUME tasks' = tasks, pc' = pc, verdict' = verdict
           PROVE  TaskInv'
    BY <1>same
  <1>1. CASE Acquire(w) \/ Fetch(w) \/ ReadBlockNumber(w) \/ Throw(w) \/ Unlock(w)
    BY <1>1, <1>none DEF Acquire, Fetch, ReadBlockNumber, Throw, Unlock
  <1>2. ASSUME NEW h \in Hashes, ReadReceipt(w, h)
        PROVE  TaskInv'
    BY <1>2, <1>none DEF ReadReceipt
  <1>3. CASE Decide(w)
    <2>1. pc[w] = "receipts" /\ verdict' = verdict
      BY <1>3 DEF Decide
    <2>2. CASE HasUnconfirmed(w)
      BY <1>3, <2>1, <2>2, <1>none DEF Decide
    <2>3. CASE ~HasUnconfirmed(w)
      <3>1. pc'[w] = "process" /\ tasks' = tasks \cup Attributions(w)
        BY <1>3, <1>t, <2>3 DEF Decide, Goto
      <3>2. ASSUME NEW t \in Attributions(w)
            PROVE  t.worker = w /\ verdict[w][t.hash] = "confirmed"
        BY <3>2 DEF Attributions
      <3>3. ASSUME NEW t \in tasks, ~t.detached
            PROVE  t.worker # w
        BY <2>1, <3>3
      <3> QED
        BY <1>t, <1>o, <2>1, <3>1, <3>2, <3>3
    <2> QED
      BY <2>2, <2>3
  <1>4. ASSUME NEW h \in Hashes, MarkSubmitted(w, h) \/ MarkFails(w, h)
        PROVE  TaskInv'
    <2>1. /\ tasks' = tasks /\ pc' = pc
          /\ \A g \in Hashes : g # h => verdict'[w][g] = verdict[w][g]
      BY <1>4, <1>t DEF MarkSubmitted, MarkFails, SetVerdict
    <2>2. \A t \in tasks : ~t.detached /\ t.worker = w => t.hash # h
      BY <1>4 DEF MarkSubmitted, MarkFails, Processed
    <2> QED
      BY <1>t, <2>1, <2>2, <1>frame
  <1>5. CASE StartTransact(w)
    <2>1. \A t \in tasks : ~t.detached => t.worker # w
      BY <1>5, <1>t DEF StartTransact
    <2> QED
      BY <1>5, <2>1, <1>frame DEF StartTransact
  <1>6. ASSUME NEW h \in Hashes, SaveHash(w, h) \/ SaveFails(w, h)
        PROVE  TaskInv'
    BY <1>6, <1>same DEF SaveHash, SaveFails
  <1>7. ASSUME NEW g \in Groups, Send(w, g) \/ SendRefused(w, g) \/ SendFails(w, g)
        PROVE  TaskInv'
    BY <1>7, <1>same DEF Send, SendRefused, SendFails, GiveUp
  <1>8. CASE Crash(w)
    BY <1>8, <1>frame DEF Crash
  <1>9. ASSUME NEW t \in tasks, t.worker = w, TaskStep(t) \/ AttributionFails(t)
        PROVE  TaskInv'
    <2>1. pc' = pc
      BY <1>9 DEF TaskStep, FindToken, SetTokenId, SetBurnt, AttributionFails, TaskOutside
    <2>2. CASE Reject(t)
      <3>1. CASE t.detached
        BY <2>1, <2>2, <3>1, <1>same DEF Reject, Finish
      <3>2. CASE ~t.detached
        <4>1. /\ \A g \in Hashes : g # t.hash => verdict'[w][g] = verdict[w][g]
              /\ \A s \in tasks' : ~s.detached =>
                    s \in tasks /\ ~(s.worker = w /\ s.hash = t.hash)
          <5> DEFINE cut(s) == [s EXCEPT !.detached = TRUE]
          <5> DEFINE siblings == {s \in tasks : s.worker = t.worker /\ s.hash = t.hash
                                                  /\ ~s.detached /\ s # t}
          <5>1. \A s \in tasks : cut(s).detached
            BY <1>t DEF Tasks
          <5>2. tasks' = (tasks \ ({t} \cup siblings)) \cup {cut(s) : s \in siblings}
            BY <2>2, <3>2 DEF Reject
          <5>3. \A g \in Hashes : g # t.hash => verdict'[w][g] = verdict[w][g]
            BY <1>9, <1>t, <2>2, <3>2 DEF Reject, SetVerdict
          <5> HIDE DEF cut
          <5>4. \A s \in tasks' : ~s.detached => s \in tasks /\ s # t /\ s \notin siblings
            BY <5>1, <5>2
          <5> QED
            BY <1>9, <5>3, <5>4
        <4> QED
          BY <1>t, <1>o, <2>1, <4>1
      <3> QED
        BY <3>1, <3>2
    <2>3. CASE Finish(t) /\ verdict' = verdict
      BY <2>1, <2>3, <1>frame DEF Finish
    <2>4. CASE tasks' = (tasks \ {t}) \cup {[t EXCEPT !.stage = "set"]} /\ verdict' = verdict
      <3> DEFINE next == [t EXCEPT !.stage = "set"]
      <3>1. next.worker = t.worker /\ next.hash = t.hash /\ next.detached = t.detached
        BY <1>t DEF Tasks
      <3>2. tasks' \subseteq tasks \cup {next}
        BY <2>4
      <3> HIDE DEF next
      <3> QED
        BY <2>1, <2>4, <3>1, <3>2
    <2> QED
      BY <1>9, <2>2, <2>3, <2>4 DEF TaskStep, FindToken, SetTokenId, SetBurnt, AttributionFails
  <1> QED
    BY <1>1, <1>2, <1>3, <1>4, <1>5, <1>6, <1>7, <1>8, <1>9 DEF JobStep, FaultStep

LEMMA FinalInit == Init => FinalInv
  <1> SUFFICES ASSUME Init PROVE FinalInv
    OBVIOUS
  <1> USE DEF Init, WorkerInit
  <1>1. LockInv /\ TaskInv
    BY DEF LockInv, TaskInv
  <1>2. ASSUME NEW w \in Workers
        PROVE  JobInv(w)
    <2>1. Pending(w) = {} /\ \A h : Following(w, h) = {}
      BY DEF Pending, Following
    <2> QED
      BY <2>1 DEF JobInv, NotSubmitted
  <1> QED
    BY <1>1, <1>2, InitType DEF FinalInv

LEMMA FinalStep ==
    ASSUME TTLHolds, FinalInv, [Next]_vars
    PROVE  FinalInv'
  <1>1. TypeInv' /\ LockInv'
    BY TypeStep, LockStep DEF FinalInv
  <1>2. ASSUME NEW w \in Workers, Acquire(w) \/ JobStep(w) \/ FaultStep(w)
        PROVE  FinalInv'
    BY <1>1, <1>2, OwnJob, OtherJob, TaskStepInv DEF FinalInv
  <1>3. ASSUME pc' = pc, snap' = snap, verdict' = verdict, unsaved' = unsaved, tasks' = tasks,
               \A i \in DOMAIN tx : tx'[i] = tx[i]
        PROVE  FinalInv'
    <2>1. TaskInv'
      BY <1>3 DEF FinalInv, TaskInv
    <2>2. \A w \in Workers : DOMAIN snap[w] \subseteq DOMAIN tx
      BY FollowingType DEF FinalInv
    <2>3. \A w \in Workers : JobInv(w)'
      BY <1>3, <2>2, ChainKeeps, JobFrame DEF FinalInv
    <2> QED
      BY <1>1, <2>1, <2>3 DEF FinalInv
  <1>4. CASE RequestNext /\ UNCHANGED workerVars
    BY <1>3, <1>4, RequestsKeep DEF FinalInv, workerVars
  <1>5. CASE PortalNext /\ UNCHANGED <<requestVars, workerVars>>
    BY <1>3, <1>5 DEF requestVars, workerVars
  <1>6. CASE LockExpires
    BY <1>3, <1>6 DEF LockExpires, requestVars
  <1>7. CASE UNCHANGED vars
    BY <1>3, <1>7 DEF vars, requestVars, workerVars
  <1> QED
    BY <1>2, <1>4, <1>5, <1>6, <1>7 DEF Next

LEMMA FinalInvariance == TTLHolds => (Spec => []FinalInv)
  <1> SUFFICES ASSUME TTLHolds PROVE Spec => []FinalInv
    OBVIOUS
  <1>1. FinalInv /\ [Next]_vars => FinalInv'
    BY FinalStep
  <1> QED
    BY <1>1, FinalInit, PTL DEF Spec

LEMMA SubmittedStays ==
    ASSUME FinalInv, [Next]_vars, NEW i \in DOMAIN tx, tx[i].state = "submitted"
    PROVE  tx'[i] = tx[i]
  <1> USE DEF FinalInv
  <1>1. ASSUME NEW w \in Workers, Acquire(w) \/ JobStep(w) \/ FaultStep(w)
        PROVE  tx'[i] = tx[i]
    <2>1. ASSUME NEW h \in unsaved[w]
          PROVE  i \notin chain[h].reqs
      <3>1. chain[h].reqs \subseteq ToTransact(w)
        BY <2>1 DEF JobInv
      <3>2. NotSubmitted(ToTransact(w))
        BY DEF JobInv, ToTransact, Rejected, NotSubmitted
      <3> QED
        BY <3>1, <3>2 DEF NotSubmitted
    <2>2. tx[i] \in TxDocs
      BY DEF TypeInv, TypeOK
    <2>3. [tx[i] EXCEPT !.state = "submitted"] = tx[i]
      BY <2>2 DEF TxDocs
    <2> QED
      BY <1>1, <2>1, <2>3, WorkerKeeps
  <1> QED
    BY <1>1, RequestsKeep DEF Next, vars, requestVars, LockExpires

(* No job writes over a submitted Transaction, in particular none sends it  *)
(* again and none gives it another hash, for any number of processes, as    *)
(* long as lockTTL outlives a job.                                          *)
THEOREM SubmittedForever == TTLHolds => (Spec => SubmittedIsFinal)
  <1> SUFFICES ASSUME TTLHolds PROVE Spec => SubmittedIsFinal
    OBVIOUS
  <1>1. FinalInv /\ [Next]_vars =>
           [\A i \in DOMAIN tx : tx[i].state = "submitted" => tx'[i] = tx[i]]_vars
    BY SubmittedStays
  <1> QED
    BY <1>1, FinalInvariance, PTL DEF Spec, SubmittedIsFinal
=============================================================================
