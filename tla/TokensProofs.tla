---------------------------- MODULE TokensProofs ----------------------------
(***************************************************************************)
(* Theorems about the tokens of assets, for any number of workers and      *)
(* documents, any faults and any expiry of the lock: what they need to     *)
(* know is what a send was made of and which receipts are processed.       *)
(***************************************************************************)
EXTENDS TransactionWorkerProofs

-----------------------------------------------------------------------------
(* What is true whatever the lock does.  A send carries Transactions of one *)
(* type and one collection, and a burn carries their tokens.                *)
SendsInv ==
    \A h \in DOMAIN chain :
        /\ chain[h].reqs \subseteq DOMAIN tx
        /\ \A i \in chain[h].reqs :
              /\ tx[i].coll = chain[h].coll
              /\ tx[i].type = IF chain[h].call = "mint" THEN "MintAsset" ELSE "BurnAsset"
        /\ chain[h].call = "burn" => chain[h].burns = BurnsOf(chain[h].reqs)

(* A Transaction is pending as long as it records no hash, and the one it   *)
(* records is of a send it was part of; so is the one a job has read.       *)
RecordsSend(i, h) == h \in DOMAIN chain /\ i \in chain[h].reqs
HashInv ==
    /\ \A i \in DOMAIN tx :
          IF tx[i].state = "pending" THEN tx[i].hash = NoHash
                                     ELSE RecordsSend(i, tx[i].hash)
    /\ \A w \in Workers : \A i \in DOMAIN snap[w] :
          snap[w][i].state # "pending" =>
              RecordsSend(i, snap[w][i].hash) /\ tx[i].state # "pending"
    /\ \A w \in Workers : unsaved[w] \subseteq DOMAIN chain

(* A receipt that is processed is of a send that stays on the chain.        *)
IsDeep(h) == h \in DOMAIN chain /\ chain[h].status = "deep"
DeepInv ==
    \A w \in Workers :
        /\ \A h \in deep[w] : IsDeep(h)
        /\ \A h \in Hashes : verdict[w][h] = "confirmed" => h \in deep[w]

(* An attribution gives a token of its send to the asset of one of the      *)
(* Transactions of that send.                                               *)
MintsToken(h, t) ==
    t[1] = h /\ t[2] <= Cardinality(chain[h].reqs)
TokensInv ==
    \A t \in tasks :
        /\ IsDeep(t.hash) /\ t.req \in chain[t.hash].reqs
        /\ IF chain[t.hash].call = "mint" THEN MintsToken(t.hash, t.token)
                                          ELSE t.token = tx[t.req].token
        /\ t.stage = "set" => chain[t.hash].call = "mint"

ReceiptsInv == SendsInv /\ HashInv /\ DeepInv /\ TokensInv

-----------------------------------------------------------------------------
(* What any step keeps.                                                     *)

(* Which worker steps send.                                                 *)
LEMMA OnlySendSends ==
    ASSUME NEW w \in Workers, Acquire(w) \/ JobStep(w) \/ FaultStep(w), chain' # chain
    PROVE  \E g \in Groups : Send(w, g)
  BY DEF JobStep, FaultStep, Acquire, Fetch, ReadBlockNumber, Decide, StartTransact,
       Unlock, ReadReceipt, MarkSubmitted, SaveHash, SendRefused, GiveUp, TaskStep,
       FindToken, SetTokenId, SetBurnt, TaskOutside, Throw, Crash, MarkFails, SaveFails,
       SendFails, AttributionFails, OutsideUnchanged, portalVars

(* A send is appended to the chain, for the Transactions of its batch.      *)
IsSendOf(s, w, g) ==
    /\ s.coll = g[2] /\ s.reqs = Batch(w, g) /\ s.status = "mempool"
    /\ \/ s.call = "mint" /\ g[1] = "MintAsset"
       \/ s.call = "burn" /\ g[1] = "BurnAsset" /\ s.burns = BurnsOf(Batch(w, g))

SentFor(w, g) ==
    /\ Len(chain) + 1 \in Hashes /\ DOMAIN chain' = DOMAIN chain \cup {Len(chain) + 1}
    /\ \A h \in DOMAIN chain : chain'[h] = chain[h]
    /\ IsSendOf(chain'[Len(chain) + 1], w, g)

LEMMA SendAppends ==
    ASSUME TypeInv, NEW w \in Workers, NEW g \in Groups, Send(w, g)
    PROVE  SentFor(w, g)
  <1>t. /\ chain \in Seq(Sends) /\ Len(chain) < MaxSends /\ Len(chain) \in Nat
        /\ DOMAIN chain = 1 .. Len(chain)
    BY DEF TypeInv, TypeOK, Send
  <1>n. Len(chain) + 1 \in Hashes
    BY <1>t, BoundsAssumption DEF Hashes
  <1> DEFINE new(call, burns) == [call |-> call, coll |-> g[2], reqs |-> Batch(w, g),
                                  burns |-> burns, status |-> "mempool"]
  <1>1. PICK s : /\ chain' = Append(chain, s) /\ IsSendOf(s, w, g)
    <2>1. CASE g[1] = "MintAsset" /\ SendCall("mint", g[2], Batch(w, g), {})
      <3>1. chain' = Append(chain, new("mint", {}))
        BY <2>1 DEF SendCall
      <3>2. IsSendOf(new("mint", {}), w, g)
        BY <2>1 DEF IsSendOf
      <3> QED
        BY <3>1, <3>2
    <2>2. CASE g[1] = "BurnAsset" /\ SendCall("burn", g[2], Batch(w, g), BurnsOf(Batch(w, g)))
      <3>1. chain' = Append(chain, new("burn", BurnsOf(Batch(w, g))))
        BY <2>2 DEF SendCall
      <3>2. IsSendOf(new("burn", BurnsOf(Batch(w, g))), w, g)
        BY <2>2 DEF IsSendOf
      <3> QED
        BY <3>1, <3>2
    <2> QED
      BY <2>1, <2>2 DEF Send
  <1>2. /\ DOMAIN chain' = DOMAIN chain \cup {Len(chain) + 1}
        /\ \A h \in DOMAIN chain : chain'[h] = chain[h]
        /\ chain'[Len(chain) + 1] = s
    BY <1>t, <1>1
  <1> QED
    BY <1>n, <1>1, <1>2 DEF SentFor

LEMMA ChainStep ==
    ASSUME TypeInv, [Next]_vars
    PROVE  \/ chain' = chain
           \/ \E w \in Workers, g \in Groups : Send(w, g)
           \/ PortalNext /\ UNCHANGED <<requestVars, workerVars>>
  <1>1. CASE RequestNext
    BY <1>1 DEF RequestNext, CreateAsset, MintResource, CommitMint, AbortMint, BurnAsset,
       UpdateAsset, portalVars
  <1> QED
    BY <1>1, OnlySendSends DEF Next, vars, portalVars, LockExpires

(* The chain takes back neither a send nor a deep receipt.                  *)
LEMMA SendsKept ==
    ASSUME TypeInv, [Next]_vars, NEW h \in DOMAIN chain
    PROVE  /\ h \in DOMAIN chain'
           /\ chain'[h].call = chain[h].call /\ chain'[h].coll = chain[h].coll
           /\ chain'[h].reqs = chain[h].reqs /\ chain'[h].burns = chain[h].burns
           /\ chain[h].status = "deep" => chain'[h].status = "deep"
  <1>t. chain \in Seq(Sends) /\ chain[h] \in Sends
    BY DEF TypeInv, TypeOK
  <1>1. CASE chain' = chain
    BY <1>1
  <1>2. ASSUME NEW w \in Workers, NEW g \in Groups, Send(w, g)
        PROVE  h \in DOMAIN chain' /\ chain'[h] = chain[h]
    BY <1>2, SendAppends DEF SentFor
  <1>3. ASSUME NEW g \in DOMAIN chain, NEW st, SetStatus(g, st), chain[g].status # "deep"
        PROVE  /\ h \in DOMAIN chain'
               /\ chain'[h].call = chain[h].call /\ chain'[h].coll = chain[h].coll
               /\ chain'[h].reqs = chain[h].reqs /\ chain'[h].burns = chain[h].burns
               /\ chain[h].status = "deep" => chain'[h].status = "deep"
    BY <1>3, <1>t DEF SetStatus, Sends
  <1>4. ASSUME PortalNext
        PROVE  \E g \in DOMAIN chain, st \in Statuses :
                  SetStatus(g, st) /\ chain[g].status # "deep"
    BY <1>4 DEF PortalNext, Mine, RevertBurn, Revert, Confirm, Reorg, Drop, Statuses
  <1> QED
    BY <1>1, <1>2, <1>3, <1>4, ChainStep

(* The Transactions of the API.                                             *)
IsNew(d) == d.state = "pending" /\ d.hash = NoHash

LEMMA RequestsAdd ==
    ASSUME TypeInv, RequestNext
    PROVE  /\ DOMAIN tx \subseteq DOMAIN tx'
           /\ \A i \in DOMAIN tx' \ DOMAIN tx : IsNew(tx'[i])
  <1>t. tx \in Seq(TxDocs)
    BY DEF TypeInv, TypeOK
  <1>1. ASSUME NEW doc, Inserted(doc), IsNew(doc)
        PROVE  /\ DOMAIN tx \subseteq DOMAIN tx'
               /\ \A i \in DOMAIN tx' \ DOMAIN tx : IsNew(tx'[i])
    <2>1. tx' = Append(tx, doc)
      BY <1>1 DEF Inserted
    <2>2. /\ DOMAIN tx' = DOMAIN tx \cup {Len(tx) + 1} /\ tx'[Len(tx) + 1] = doc
      BY <1>t, <2>1
    <2> QED
      BY <1>1, <2>2
  <1>2. \A type, c, u, k : IsNew(NewTx(type, c, u, k))
    BY DEF IsNew, NewTx
  <1>3. CASE tx' = tx
    BY <1>3
  <1> QED
    BY <1>1, <1>2, <1>3 DEF RequestNext, CreateAsset, MintResource, CommitMint, AbortMint,
       BurnAsset, UpdateAsset

(* A worker marks, or saves the hash of a send.                             *)
Marks(w, h, i) ==
    /\ MarkSubmitted(w, h) /\ i \in Following(w, h)
    /\ tx'[i].state = "submitted" /\ tx'[i].hash = tx[i].hash
Saves(w, h, i) ==
    /\ SaveHash(w, h) /\ h \in unsaved[w] /\ i \in chain[h].reqs
    /\ tx'[i].state = "submitting" /\ tx'[i].hash = h

SameRequest(d, e) ==
    d.type = e.type /\ d.coll = e.coll /\ d.owner = e.owner /\ d.token = e.token

LEMMA WorkerTx ==
    ASSUME TypeInv, NEW w \in Workers, Acquire(w) \/ JobStep(w) \/ FaultStep(w)
    PROVE  /\ DOMAIN tx' = DOMAIN tx
           /\ \A i \in DOMAIN tx :
                 /\ SameRequest(tx'[i], tx[i])
                 /\ \/ tx'[i] = tx[i]
                    \/ \E h \in Hashes : Marks(w, h, i) \/ Saves(w, h, i)
  <1>t. \A i \in DOMAIN tx : tx[i] \in TxDocs
    BY DEF TypeInv, TypeOK
  <1>1. ASSUME tx' # tx
        PROVE  \E h \in Hashes : MarkSubmitted(w, h) \/ SaveHash(w, h)
    BY <1>1 DEF JobStep, FaultStep, Acquire, Fetch, ReadBlockNumber, Decide, StartTransact,
         Unlock, ReadReceipt, Send, SendRefused, GiveUp, TaskStep,
         FindToken, SetTokenId, SetBurnt, TaskOutside, Throw, Crash, MarkFails, SaveFails,
         SendFails, AttributionFails, OutsideUnchanged, requestVars
  <1>2. ASSUME NEW h \in Hashes, MarkSubmitted(w, h), NEW i \in DOMAIN tx
        PROVE  SameRequest(tx'[i], tx[i]) /\ (tx'[i] = tx[i] \/ Marks(w, h, i))
    <2> DEFINE doc == [tx[i] EXCEPT !.state = "submitted"]
    <2>1. SameRequest(doc, tx[i]) /\ doc.state = "submitted" /\ doc.hash = tx[i].hash
      BY <1>t DEF TxDocs, SameRequest
    <2>2. tx'[i] = IF i \in Following(w, h) THEN doc ELSE tx[i]
      BY <1>2 DEF MarkSubmitted
    <2> HIDE DEF doc
    <2> QED
      BY <1>2, <2>1, <2>2 DEF Marks, SameRequest
  <1>3. ASSUME NEW h \in Hashes, SaveHash(w, h), NEW i \in DOMAIN tx
        PROVE  SameRequest(tx'[i], tx[i]) /\ (tx'[i] = tx[i] \/ Saves(w, h, i))
    <2> DEFINE doc == [tx[i] EXCEPT !.state = "submitting", !.hash = h]
    <2>1. SameRequest(doc, tx[i]) /\ doc.state = "submitting" /\ doc.hash = h
      BY <1>t DEF TxDocs, SameRequest
    <2>2. h \in unsaved[w] /\ tx'[i] = IF i \in chain[h].reqs THEN doc ELSE tx[i]
      BY <1>3 DEF SaveHash, ToUpdate
    <2> HIDE DEF doc
    <2> QED
      BY <1>3, <2>1, <2>2 DEF Saves, SameRequest
  <1>4. DOMAIN tx' = DOMAIN tx
    BY <1>1 DEF MarkSubmitted, SaveHash
  <1>5. \A i \in DOMAIN tx : tx'[i] = tx[i] => SameRequest(tx'[i], tx[i])
    BY DEF SameRequest
  <1> QED
    BY <1>1, <1>2, <1>3, <1>4, <1>5

(* A Transaction stays the request it is; only workers write over it.       *)
LEMMA TxStep ==
    ASSUME TypeInv, [Next]_vars
    PROVE  /\ DOMAIN tx \subseteq DOMAIN tx'
           /\ \A i \in DOMAIN tx' \ DOMAIN tx : IsNew(tx'[i])
           /\ \A i \in DOMAIN tx :
                 /\ SameRequest(tx'[i], tx[i])
                 /\ \/ tx'[i] = tx[i]
                    \/ \E w \in Workers, h \in Hashes : Marks(w, h, i) \/ Saves(w, h, i)
  <1>1. \A i \in DOMAIN tx : tx'[i] = tx[i] => SameRequest(tx'[i], tx[i])
    BY DEF SameRequest
  <1>2. CASE tx' = tx
    BY <1>1, <1>2
  <1>3. CASE RequestNext
    BY <1>1, <1>3, RequestsAdd, RequestsKeep
  <1>4. ASSUME NEW w \in Workers, Acquire(w) \/ JobStep(w) \/ FaultStep(w)
        PROVE  /\ DOMAIN tx' = DOMAIN tx
               /\ \A i \in DOMAIN tx :
                     /\ SameRequest(tx'[i], tx[i])
                     /\ \/ tx'[i] = tx[i]
                        \/ \E v \in Workers, h \in Hashes : Marks(v, h, i) \/ Saves(v, h, i)
    BY <1>4, WorkerTx
  <1> QED
    BY <1>2, <1>3, <1>4 DEF Next, vars, requestVars, LockExpires

-----------------------------------------------------------------------------
(* The sends.                                                               *)

LEMMA SendsStep == TypeInv /\ SendsInv /\ [Next]_vars => SendsInv'
  <1> SUFFICES ASSUME TypeInv, SendsInv, [Next]_vars PROVE SendsInv'
    OBVIOUS
  <1>1. ASSUME NEW h \in DOMAIN chain
        PROVE  /\ chain'[h].reqs \subseteq DOMAIN tx'
               /\ \A i \in chain'[h].reqs :
                     /\ tx'[i].coll = chain'[h].coll
                     /\ tx'[i].type = IF chain'[h].call = "mint" THEN "MintAsset" ELSE "BurnAsset"
               /\ chain'[h].call = "burn" => chain'[h].burns = {tx'[i].token : i \in chain'[h].reqs}
    <2>1. chain[h].reqs \subseteq DOMAIN tx
      BY DEF SendsInv
    <2>2. \A i \in chain[h].reqs : SameRequest(tx'[i], tx[i])
      BY <2>1, TxStep
    <2>3. {tx'[i].token : i \in chain[h].reqs} = {tx[i].token : i \in chain[h].reqs}
      BY <2>2 DEF SameRequest
    <2> QED
      BY <2>1, <2>2, <2>3, SendsKept, TxStep DEF SendsInv, SameRequest, BurnsOf
  <1>2. ASSUME NEW w \in Workers, NEW g \in Groups, Send(w, g)
        PROVE  /\ DOMAIN chain' = DOMAIN chain \cup {Len(chain) + 1}
               /\ chain'[Len(chain) + 1].reqs \subseteq DOMAIN tx'
               /\ \A i \in chain'[Len(chain) + 1].reqs :
                     /\ tx'[i].coll = chain'[Len(chain) + 1].coll
                     /\ tx'[i].type = IF chain'[Len(chain) + 1].call = "mint"
                                      THEN "MintAsset" ELSE "BurnAsset"
               /\ chain'[Len(chain) + 1].call = "burn" =>
                     chain'[Len(chain) + 1].burns = {tx'[i].token : i \in chain'[Len(chain) + 1].reqs}
    <2> DEFINE new == chain'[Len(chain) + 1]
    <2>1. tx' = tx /\ DOMAIN chain' = DOMAIN chain \cup {Len(chain) + 1} /\ IsSendOf(new, w, g)
      BY <1>2, SendAppends DEF Send, SentFor, requestVars
    <2>2. Batch(w, g) \subseteq DOMAIN tx
      BY FollowingType DEF Batch
    <2>3. \A i \in Batch(w, g) : tx[i].type = g[1] /\ tx[i].coll = g[2]
      BY DEF Batch, GroupOf
    <2> HIDE DEF new
    <2>4. /\ new.reqs \subseteq DOMAIN tx
          /\ \A i \in new.reqs :
                /\ tx[i].coll = new.coll
                /\ tx[i].type = IF new.call = "mint" THEN "MintAsset" ELSE "BurnAsset"
          /\ new.call = "burn" => new.burns = {tx[i].token : i \in new.reqs}
      BY <2>1, <2>2, <2>3 DEF IsSendOf, BurnsOf
    <2> QED
      BY <2>1, <2>4 DEF new
  <1>3. ASSUME NEW h \in DOMAIN chain', h \notin DOMAIN chain
        PROVE  \E w \in Workers, g \in Groups : Send(w, g) /\ h = Len(chain) + 1
    <2>1. CASE PortalNext
      BY <1>3, <2>1 DEF PortalNext, Mine, RevertBurn, Revert, Confirm, Reorg, Drop, SetStatus
    <2> QED
      BY <1>3, <2>1, <1>2, ChainStep
  <1>4. SendsInv' = \A h \in DOMAIN chain' :
               /\ chain'[h].reqs \subseteq DOMAIN tx'
               /\ \A i \in chain'[h].reqs :
                     /\ tx'[i].coll = chain'[h].coll
                     /\ tx'[i].type = IF chain'[h].call = "mint" THEN "MintAsset" ELSE "BurnAsset"
               /\ chain'[h].call = "burn" => chain'[h].burns = {tx'[i].token : i \in chain'[h].reqs}
    BY DEF SendsInv, BurnsOf
  <1> QED
    BY <1>1, <1>2, <1>3, <1>4

-----------------------------------------------------------------------------
(* What the locals of a job become in a step of any process.                *)

SnapStep(v) ==
    \/ snap'[v] = snap[v] \/ snap'[v] = <<>>
    \/ snap'[v] = tx /\ tx' = tx
DeepStep(v) ==
    \/ deep'[v] = deep[v]
    \/ deep'[v] \subseteq {h \in DOMAIN chain : chain[h].status = "deep"}
          /\ \A h \in Hashes : verdict'[v][h] # "confirmed"
VerdictStep(v) ==
    \A h \in Hashes : verdict'[v][h] = "confirmed" =>
        verdict[v][h] = "confirmed" \/ h \in deep[v]
UnsavedStep(v) ==
    \A h \in unsaved'[v] : h \in unsaved[v] \/ \E g \in Groups : Send(v, g) /\ h = Len(chain) + 1

LocalsStep(v) == SnapStep(v) /\ DeepStep(v) /\ VerdictStep(v) /\ UnsavedStep(v)

LEMMA LocalsKept ==
    ASSUME NEW v, snap'[v] = snap[v], deep'[v] = deep[v], verdict'[v] = verdict[v],
           unsaved'[v] \subseteq unsaved[v]
    PROVE  LocalsStep(v)
  BY DEF LocalsStep, SnapStep, DeepStep, VerdictStep, UnsavedStep

LEMMA ForgetLocals ==
    ASSUME TypeInv, NEW w \in Workers, NEW v \in Workers, Forget(w)
    PROVE  LocalsStep(v)
  <1>1. CASE v = w
    <2>1. /\ snap'[v] = <<>> /\ deep'[v] = {} /\ unsaved'[v] = {}
          /\ verdict'[v] = [h \in Hashes |-> "none"]
      BY <1>1 DEF TypeInv, TypeOK, Forget
    <2> QED
      BY <2>1 DEF LocalsStep, SnapStep, DeepStep, VerdictStep, UnsavedStep
  <1>2. CASE v # w
    <2>1. /\ snap'[v] = snap[v] /\ deep'[v] = deep[v] /\ unsaved'[v] = unsaved[v]
          /\ verdict'[v] = verdict[v]
      BY <1>2 DEF TypeInv, TypeOK, Forget
    <2> QED
      BY <2>1, LocalsKept
  <1> QED
    BY <1>1, <1>2

LEMMA TaskLocals ==
    ASSUME TypeInv, NEW t \in tasks, TaskStep(t) \/ AttributionFails(t), NEW v \in Workers
    PROVE  LocalsStep(v)
  <1>t. verdict \in [Workers -> [Hashes -> Verdicts]] /\ t.worker \in Workers /\ t.hash \in Hashes
    BY DEF TypeInv, TypeOK, Tasks
  <1>1. snap' = snap /\ deep' = deep /\ unsaved' = unsaved
    BY DEF TaskStep, FindToken, SetTokenId, SetBurnt, AttributionFails, TaskOutside
  <1>2. verdict' = verdict \/ SetVerdict(t.worker, t.hash, "settled")
    BY DEF TaskStep, FindToken, SetTokenId, SetBurnt, AttributionFails, Reject
  <1>3. VerdictStep(v)
    BY <1>t, <1>2 DEF SetVerdict, VerdictStep
  <1> QED
    BY <1>1, <1>3 DEF LocalsStep, SnapStep, DeepStep, UnsavedStep

LEMMA WorkerLocals ==
    ASSUME TypeInv, NEW w \in Workers, Acquire(w) \/ JobStep(w) \/ FaultStep(w),
           NEW v \in Workers
    PROVE  LocalsStep(v)
  <1>t. /\ snap \in [Workers -> Seq(TxDocs)]
        /\ deep \in [Workers -> SUBSET Hashes]
        /\ verdict \in [Workers -> [Hashes -> Verdicts]]
        /\ unsaved \in [Workers -> SUBSET Hashes]
    BY DEF TypeInv, TypeOK
  <1> USE <1>t DEF OutsideUnchanged, requestVars, portalVars
  <1>1. CASE Acquire(w) \/ Decide(w) \/ StartTransact(w) \/ Throw(w)
    BY <1>1, LocalsKept DEF Acquire, Decide, StartTransact, Throw
  <1>2. CASE Fetch(w)
    <2>1. /\ snap'[v] = snap[v] \/ (snap'[v] = tx /\ tx' = tx)
          /\ deep' = deep /\ verdict' = verdict /\ unsaved' = unsaved
      BY <1>2 DEF Fetch
    <2> QED
      BY <2>1 DEF LocalsStep, SnapStep, DeepStep, VerdictStep, UnsavedStep
  <1>3. CASE ReadBlockNumber(w)
    <2>1. snap' = snap /\ unsaved' = unsaved
      BY <1>3 DEF ReadBlockNumber
    <2>2. CASE v = w
      <3>1. /\ deep'[v] = {h \in DOMAIN chain : chain[h].status = "deep"}
            /\ verdict'[v] = [h \in Hashes |-> IF Following(w, h) # {} THEN "asked" ELSE "none"]
        BY <1>3, <2>2 DEF ReadBlockNumber
      <3> QED
        BY <2>1, <3>1 DEF LocalsStep, SnapStep, DeepStep, VerdictStep, UnsavedStep
    <2>3. CASE v # w
      BY <1>3, <2>1, <2>3, LocalsKept DEF ReadBlockNumber
    <2> QED
      BY <2>2, <2>3
  <1>4. ASSUME NEW h \in Hashes, ReadReceipt(w, h)
        PROVE  LocalsStep(v)
    <2>1. snap' = snap /\ deep' = deep /\ unsaved' = unsaved
      BY <1>4 DEF ReadReceipt
    <2>2. \/ verdict'[v] = verdict[v]
          \/ v = w /\ verdict'[v] = [verdict[v] EXCEPT ![h] = Judge(v, h)]
      BY <1>4 DEF ReadReceipt, SetVerdict
    <2>3. Judge(v, h) = "confirmed" => h \in deep[v]
      BY DEF Judge
    <2>4. VerdictStep(v)
      BY <2>2, <2>3 DEF VerdictStep
    <2> QED
      BY <2>1, <2>4 DEF LocalsStep, SnapStep, DeepStep, UnsavedStep
  <1>5. ASSUME NEW h \in Hashes, MarkSubmitted(w, h) \/ MarkFails(w, h)
        PROVE  LocalsStep(v)
    <2>1. snap' = snap /\ deep' = deep /\ unsaved' = unsaved /\ SetVerdict(w, h, "settled")
      BY <1>5 DEF MarkSubmitted, MarkFails
    <2>2. VerdictStep(v)
      BY <2>1 DEF SetVerdict, VerdictStep
    <2> QED
      BY <2>1, <2>2 DEF LocalsStep, SnapStep, DeepStep, UnsavedStep
  <1>6. ASSUME NEW h \in Hashes, SaveHash(w, h) \/ SaveFails(w, h)
        PROVE  LocalsStep(v)
    BY <1>6, LocalsKept DEF SaveHash, SaveFails
  <1>7. ASSUME NEW g \in Groups, SendRefused(w, g) \/ SendFails(w, g)
        PROVE  LocalsStep(v)
    BY <1>7, LocalsKept DEF SendRefused, SendFails, GiveUp
  <1>8. ASSUME NEW g \in Groups, Send(w, g)
        PROVE  LocalsStep(v)
    <2>1. /\ snap' = snap /\ deep' = deep /\ verdict' = verdict
          /\ \/ unsaved'[v] = unsaved[v]
             \/ v = w /\ unsaved'[v] = unsaved[v] \cup {Len(chain) + 1}
      BY <1>8 DEF Send
    <2>2. UnsavedStep(v)
      BY <1>8, <2>1 DEF UnsavedStep
    <2> QED
      BY <2>1, <2>2 DEF LocalsStep, SnapStep, DeepStep, VerdictStep
  <1>9. CASE Unlock(w) \/ Crash(w)
    BY <1>9, ForgetLocals DEF Unlock, Crash
  <1>10. ASSUME NEW t \in tasks, TaskStep(t) \/ AttributionFails(t)
         PROVE  LocalsStep(v)
    BY <1>10, TaskLocals
  <1> QED
    BY <1>1, <1>2, <1>3, <1>4, <1>5, <1>6, <1>7, <1>8, <1>9, <1>10 DEF JobStep, FaultStep

LEMMA AnyLocals ==
    ASSUME TypeInv, [Next]_vars, NEW v \in Workers
    PROVE  LocalsStep(v)
  <1>1. CASE UNCHANGED <<snap, deep, verdict, unsaved>>
    BY <1>1, LocalsKept
  <1> QED
    BY <1>1, WorkerLocals DEF Next, vars, workerVars, LockExpires

-----------------------------------------------------------------------------
(* The hashes of Transactions and jobs.                                     *)

LEMMA RecordsKept ==
    ASSUME TypeInv, [Next]_vars, NEW i, NEW h, RecordsSend(i, h)
    PROVE  RecordsSend(i, h)'
  BY SendsKept DEF RecordsSend

LEMMA HashStep == TypeInv /\ HashInv /\ [Next]_vars => HashInv'
  <1> SUFFICES ASSUME TypeInv, HashInv, [Next]_vars PROVE HashInv'
    OBVIOUS
  <1>1. ASSUME NEW i \in DOMAIN tx
        PROVE  /\ IF tx'[i].state = "pending" THEN tx'[i].hash = NoHash
                                              ELSE RecordsSend(i, tx[i].hash)'
               /\ tx[i].state # "pending" => tx'[i].state # "pending"
    <2>1. CASE tx'[i] = tx[i]
      BY <2>1, RecordsKept DEF HashInv
    <2>2. ASSUME NEW w \in Workers, NEW h \in Hashes, Marks(w, h, i)
          PROVE  tx'[i].state # "pending" /\ RecordsSend(i, tx[i].hash)'
      <3>1. i \in DOMAIN snap[w] /\ snap[w][i].state # "pending"
        BY <2>2 DEF Marks, Following
      <3>2. tx[i].state # "pending" /\ tx'[i].hash = tx[i].hash /\ tx'[i].state = "submitted"
        BY <2>2, <3>1 DEF HashInv, Marks
      <3> QED
        BY <3>2, RecordsKept DEF HashInv
    <2>3. ASSUME NEW w \in Workers, NEW h \in Hashes, Saves(w, h, i)
          PROVE  tx'[i].state # "pending" /\ RecordsSend(i, tx[i].hash)'
      <3>1. RecordsSend(i, h)
        BY <2>3 DEF Saves, HashInv, RecordsSend
      <3> QED
        BY <2>3, <3>1, RecordsKept DEF Saves
    <2> QED
      BY <2>1, <2>2, <2>3, TxStep
  <1>2. ASSUME NEW i \in DOMAIN tx'
        PROVE  IF tx'[i].state = "pending" THEN tx'[i].hash = NoHash
                                           ELSE RecordsSend(i, tx[i].hash)'
    <2>1. CASE i \in DOMAIN tx
      BY <2>1, <1>1
    <2>2. CASE i \notin DOMAIN tx
      BY <2>2, TxStep DEF IsNew
    <2> QED
      BY <2>1, <2>2
  <1>3. ASSUME NEW w \in Workers, NEW i \in DOMAIN snap'[w], snap'[w][i].state # "pending"
        PROVE  RecordsSend(i, snap[w][i].hash)' /\ tx'[i].state # "pending"
    <2>1. SnapStep(w)
      BY AnyLocals DEF LocalsStep
    <2>2. CASE snap'[w] = snap[w]
      <3>1. i \in DOMAIN tx
        BY <2>2, FollowingType
      <3> QED
        BY <1>1, <1>3, <2>2, <3>1, RecordsKept DEF HashInv
    <2>3. CASE snap'[w] = tx /\ tx' = tx
      BY <1>3, <2>3, RecordsKept DEF HashInv
    <2>4. snap'[w] # <<>>
      <3>1. DOMAIN <<>> = {}
        OBVIOUS
      <3> QED
        BY <3>1
    <2> QED
      BY <2>1, <2>2, <2>3, <2>4 DEF SnapStep
  <1>4. ASSUME NEW w \in Workers, NEW h \in unsaved'[w]
        PROVE  h \in DOMAIN chain'
    <2>1. UnsavedStep(w)
      BY AnyLocals DEF LocalsStep
    <2>2. CASE h \in unsaved[w]
      BY <2>2, SendsKept DEF HashInv
    <2>3. ASSUME NEW g \in Groups, Send(w, g), h = Len(chain) + 1
          PROVE  h \in DOMAIN chain'
      BY <2>3, SendAppends DEF SentFor
    <2> QED
      BY <2>1, <2>2, <2>3 DEF UnsavedStep
  <1> QED
    BY <1>2, <1>3, <1>4 DEF HashInv

LEMMA DeepKept ==
    ASSUME TypeInv, [Next]_vars, NEW h, IsDeep(h)
    PROVE  IsDeep(h)'
  BY SendsKept DEF IsDeep

LEMMA DeepStays == TypeInv /\ DeepInv /\ [Next]_vars => DeepInv'
  <1> SUFFICES ASSUME TypeInv, DeepInv, [Next]_vars, NEW v \in Workers
               PROVE  /\ \A h \in deep'[v] : IsDeep(h)'
                      /\ \A h \in Hashes : verdict'[v][h] = "confirmed" => h \in deep'[v]
    BY DEF DeepInv
  <1>1. DeepStep(v) /\ VerdictStep(v)
    BY AnyLocals DEF LocalsStep
  <1>2. \A h \in deep'[v] : IsDeep(h)
    BY <1>1 DEF DeepStep, DeepInv, IsDeep
  <1>3. \A h \in Hashes : verdict'[v][h] = "confirmed" => h \in deep'[v]
    BY <1>1 DEF DeepStep, VerdictStep, DeepInv
  <1> QED
    BY <1>2, <1>3, DeepKept

-----------------------------------------------------------------------------
(* The attributions.                                                        *)

LEMMA PlaceBound ==
    ASSUME NEW ids \in SUBSET TxIds, NEW all \in SUBSET TxIds, ids \subseteq all, NEW i \in ids
    PROVE  Place(ids, i) <= Cardinality(all)
  <1> DEFINE below == {j \in ids : j <= i}
  <1>0. IsFiniteSet(TxIds)
    BY BoundsAssumption, FS_Interval DEF TxIds
  <1>1. IsFiniteSet(all)
    BY <1>0, FS_Subset
  <1>2. below \in SUBSET all
    OBVIOUS
  <1>3. Cardinality(below) <= Cardinality(all)
    BY <1>1, <1>2, FS_Subset
  <1> QED
    BY <1>3 DEF Place

(* One attribution, on the chain and the documents of a state.              *)
TaskInv1(t) ==
    /\ IsDeep(t.hash) /\ t.req \in chain[t.hash].reqs
    /\ IF chain[t.hash].call = "mint" THEN MintsToken(t.hash, t.token)
                                      ELSE t.token = tx[t.req].token
    /\ t.stage = "set" => chain[t.hash].call = "mint"

LEMMA TokensByTask == TokensInv <=> \A t \in tasks : TaskInv1(t)
  BY DEF TokensInv, TaskInv1

LEMMA TaskKept ==
    ASSUME TypeInv, SendsInv, [Next]_vars, NEW t, TaskInv1(t)
    PROVE  TaskInv1(t)'
  <1>1. /\ t.hash \in DOMAIN chain /\ t.req \in DOMAIN tx
    BY DEF TaskInv1, IsDeep, SendsInv
  <1>2. tx'[t.req].token = tx[t.req].token
    BY <1>1, TxStep DEF SameRequest
  <1> QED
    BY <1>1, <1>2, SendsKept DEF TaskInv1, IsDeep, MintsToken

LEMMA NewTasks ==
    ASSUME TypeInv, SendsInv, HashInv, DeepInv, NEW w \in Workers, NEW t \in Attributions(w)
    PROVE  TaskInv1(t)
  <1>0. PICK h \in Hashes :
           /\ verdict[w][h] = "confirmed"
           /\ \E i \in Following(w, h) :
                 t = [worker |-> w, hash |-> h, req |-> i, token |-> LogToken(w, h, i),
                      stage |-> "find", detached |-> FALSE]
    BY DEF Attributions
  <1>1. PICK i \in Following(w, h) :
           t = [worker |-> w, hash |-> h, req |-> i, token |-> LogToken(w, h, i),
                stage |-> "find", detached |-> FALSE]
    BY <1>0
  <1>2. t.hash = h /\ t.req = i /\ t.token = LogToken(w, h, i) /\ t.stage = "find"
    BY <1>1
  <1>3. IsDeep(h)
    BY <1>0 DEF DeepInv
  <1>4. Following(w, h) \subseteq chain[h].reqs
    BY DEF Following, HashInv, RecordsSend
  <1>5. Following(w, h) \in SUBSET TxIds /\ chain[h].reqs \in SUBSET TxIds
    BY <1>3, FollowingType DEF SendsInv, IsDeep
  <1>6. CASE chain[h].call = "mint"
    <2>1. t.token = <<h, Place(Following(w, h), i)>>
      BY <1>2, <1>6 DEF LogToken
    <2>2. Place(Following(w, h), i) <= Cardinality(chain[h].reqs)
      BY <1>4, <1>5, PlaceBound
    <2>3. MintsToken(h, t.token)
      BY <2>1, <2>2 DEF MintsToken
    <2> QED
      BY <1>2, <1>3, <1>4, <1>6, <2>3 DEF TaskInv1
  <1>7. CASE chain[h].call # "mint"
    BY <1>2, <1>3, <1>4, <1>7 DEF TaskInv1, LogToken
  <1> QED
    BY <1>6, <1>7

(* A step of an attribution, or of all of a process, leaves it what it is.  *)
Same(s, t) ==
    /\ s.worker = t.worker /\ s.hash = t.hash /\ s.req = t.req /\ s.token = t.token

LEMMA TaskSets ==
    ASSUME TypeInv, [Next]_vars, NEW s \in tasks'
    PROVE  \/ s \in tasks
           \/ \E w \in Workers : Decide(w) /\ s \in Attributions(w)
           \/ \E t \in tasks : /\ Same(s, t)
                               /\ s.stage = t.stage \/ tx[t.req].type = "MintAsset"
  <1>t. \A t \in tasks : t \in Tasks
    BY DEF TypeInv, TypeOK
  <1>1. ASSUME NEW w \in Workers, Decide(w)
        PROVE  s \in tasks \/ s \in Attributions(w)
    BY <1>1 DEF Decide
  <1>2. ASSUME NEW t \in tasks, TaskStep(t) \/ AttributionFails(t), s \notin tasks
        PROVE  \E r \in tasks : /\ Same(s, r)
                                /\ s.stage = r.stage \/ tx[r.req].type = "MintAsset"
    <2>1. CASE s = [t EXCEPT !.stage = "set"] /\ tx[t.req].type = "MintAsset"
      <3>1. Same(s, t)
        BY <1>t, <2>1 DEF Tasks, Same
      <3> QED
        BY <2>1, <3>1
    <2>2. ASSUME NEW r \in tasks, s = [r EXCEPT !.detached = TRUE]
          PROVE  Same(s, r) /\ s.stage = r.stage
      BY <1>t, <2>2 DEF Tasks, Same
    <2>3. \/ s = [t EXCEPT !.stage = "set"] /\ tx[t.req].type = "MintAsset"
          \/ \E r \in tasks : s = [r EXCEPT !.detached = TRUE]
      BY <1>2 DEF TaskStep, FindToken, SetTokenId, SetBurnt, AttributionFails, Reject, Finish
    <2> QED
      BY <2>1, <2>2, <2>3
  <1>3. ASSUME NEW w \in Workers, Acquire(w) \/ JobStep(w) \/ FaultStep(w), s \notin tasks
        PROVE  \/ Decide(w)
               \/ \E t \in tasks : TaskStep(t) \/ AttributionFails(t)
    BY <1>3 DEF JobStep, FaultStep, Acquire, Fetch, ReadBlockNumber, StartTransact,
         Unlock, ReadReceipt, MarkSubmitted, SaveHash, Send, SendRefused, GiveUp, Throw,
         Crash, MarkFails, SaveFails, SendFails
  <1> QED
    BY <1>1, <1>2, <1>3 DEF Next, vars, workerVars, LockExpires

LEMMA TokensStep ==
    ASSUME TypeInv, ReceiptsInv, [Next]_vars
    PROVE  TokensInv'
  <1> USE DEF ReceiptsInv
  <1> SUFFICES ASSUME NEW s \in tasks' PROVE TaskInv1(s)
    <2>1. \A s \in tasks' : TaskInv1(s)'
      BY TaskKept
    <2> QED
      BY <2>1 DEF TokensInv, TaskInv1
  <1>1. \A t \in tasks : TaskInv1(t)
    BY TokensByTask
  <1>2. ASSUME NEW t \in tasks, Same(s, t), s.stage = t.stage \/ tx[t.req].type = "MintAsset"
        PROVE  TaskInv1(s)
    <2>1. TaskInv1(t)
      BY <1>1
    <2>2. tx[t.req].type = "MintAsset" => chain[t.hash].call = "mint"
      BY <2>1 DEF TaskInv1, IsDeep, SendsInv
    <2> QED
      BY <1>2, <2>1, <2>2 DEF TaskInv1, Same, MintsToken
  <1> QED
    BY <1>1, <1>2, TaskSets, NewTasks

LEMMA ReceiptsInit == Init => ReceiptsInv
  BY DEF Init, PortalInit, RequestInit, WorkerInit, ReceiptsInv, SendsInv, HashInv, DeepInv,
     TokensInv

LEMMA ReceiptsStep == TypeInv /\ ReceiptsInv /\ [Next]_vars => ReceiptsInv'
  BY SendsStep, HashStep, DeepStays, TokensStep DEF ReceiptsInv

LEMMA ReceiptsInvariance == Spec => []ReceiptsInv
  BY ReceiptsInit, ReceiptsStep, TypeInvariance, PTL DEF Spec

-----------------------------------------------------------------------------
(* The assets.  A step creates one, changes the state or the owner of some, *)
(* or gives a token to one that had none.                                   *)

Keeps(a) ==
    /\ a \in DOMAIN asset' /\ asset'[a].coll = asset[a].coll
    /\ asset'[a].token = asset[a].token
Created ==
    /\ DOMAIN asset' = DOMAIN asset \cup {Len(asset) + 1}
    /\ \A a \in DOMAIN asset : asset'[a] = asset[a]
    /\ asset'[Len(asset) + 1].token = NoToken /\ asset'[Len(asset) + 1].state = "minting"
Given(t, a) ==
    /\ a \in Tokenless(tx[t.req].coll) /\ t.stage = "set"
    /\ Holder(tx[t.req].coll, t.token) = {}
    /\ DOMAIN asset' = DOMAIN asset
    /\ \A b \in DOMAIN asset : b # a => asset'[b] = asset[b]
    /\ asset'[a].coll = asset[a].coll
    /\ asset'[a].token = t.token /\ asset'[a].state = "minted"
SetsBurnt(t) ==
    /\ DOMAIN asset' = DOMAIN asset /\ tx[t.req].type = "BurnAsset"
    /\ Holder(tx[t.req].coll, t.token) # {}
    /\ \A a \in DOMAIN asset :
          /\ Keeps(a)
          /\ asset'[a].state = IF a \in Holder(tx[t.req].coll, t.token)
                               THEN "burnt" ELSE asset[a].state
AsksToBurn(a) ==
    /\ DOMAIN asset' = DOMAIN asset
    /\ asset[a].state \in BurnStates /\ asset[a].token # NoToken
    /\ asset'[a].state = "burning"
    /\ \A b \in DOMAIN asset : Keeps(b) /\ (b # a => asset'[b] = asset[b])
Reassigned ==
    /\ DOMAIN asset' = DOMAIN asset
    /\ \A a \in DOMAIN asset : Keeps(a) /\ asset'[a].state = asset[a].state

LEMMA RequestAssets ==
    ASSUME TypeInv, RequestNext
    PROVE  \/ asset' = asset
           \/ Created
           \/ \E a \in DOMAIN asset : BurnAsset(a) /\ AsksToBurn(a)
           \/ Reassigned
  <1>d. /\ asset \in Seq(AssetDocs) /\ \A a \in DOMAIN asset : asset[a] \in AssetDocs
    BY DEF TypeInv, TypeOK
  <1>1. ASSUME NEW u \in Users, NEW c \in Collections, CreateAsset(u, c)
        PROVE  Created
    <2> DEFINE doc == [owner |-> u, coll |-> c, state |-> "minting", token |-> NoToken]
    <2>1. asset' = Append(asset, doc)
      BY <1>1 DEF CreateAsset
    <2>2. doc.token = NoToken /\ doc.state = "minting"
      OBVIOUS
    <2> HIDE DEF doc
    <2>3. /\ DOMAIN asset' = DOMAIN asset \cup {Len(asset) + 1}
          /\ \A a \in DOMAIN asset : asset'[a] = asset[a]
          /\ asset'[Len(asset) + 1] = doc
      BY <1>d, <2>1
    <2> QED
      BY <2>2, <2>3 DEF Created
  <1>2. ASSUME NEW a \in DOMAIN asset, BurnAsset(a)
        PROVE  AsksToBurn(a)
    <2> DEFINE doc == [asset[a] EXCEPT !.state = "burning"]
    <2>1. asset' = [asset EXCEPT ![a] = doc]
      BY <1>2 DEF BurnAsset
    <2>2. doc.state = "burning" /\ doc.token = asset[a].token /\ doc.coll = asset[a].coll
      BY <1>d DEF AssetDocs
    <2> HIDE DEF doc
    <2>3. /\ DOMAIN asset' = DOMAIN asset /\ asset'[a] = doc
          /\ \A b \in DOMAIN asset : b # a => asset'[b] = asset[b]
      BY <2>1
    <2> QED
      BY <1>2, <2>2, <2>3 DEF AsksToBurn, Keeps, BurnAsset
  <1>3. ASSUME NEW a \in DOMAIN asset, NEW u \in Users, UpdateAsset(a, u)
        PROVE  Reassigned
    <2> DEFINE doc == [asset[a] EXCEPT !.owner = u]
    <2>1. asset' = [asset EXCEPT ![a] = doc]
      BY <1>3 DEF UpdateAsset
    <2>2. doc.state = asset[a].state /\ doc.token = asset[a].token /\ doc.coll = asset[a].coll
      BY <1>d DEF AssetDocs
    <2> HIDE DEF doc
    <2>3. /\ DOMAIN asset' = DOMAIN asset /\ asset'[a] = doc
          /\ \A b \in DOMAIN asset : b # a => asset'[b] = asset[b]
      BY <2>1
    <2> QED
      BY <2>2, <2>3 DEF Reassigned, Keeps
  <1> QED
    BY <1>1, <1>2, <1>3 DEF RequestNext, MintResource, CommitMint, AbortMint

LEMMA TaskAssets ==
    ASSUME TypeInv, NEW t \in tasks, TaskStep(t) \/ AttributionFails(t)
    PROVE  \/ asset' = asset
           \/ \E a \in DOMAIN asset : Given(t, a)
           \/ SetsBurnt(t)
  <1>d. /\ asset \in Seq(AssetDocs) /\ \A a \in DOMAIN asset : asset[a] \in AssetDocs
    BY DEF TypeInv, TypeOK
  <1>1. ASSUME SetTokenId(t), asset' # asset
        PROVE  \E a \in DOMAIN asset : Given(t, a)
    <2>1. PICK a \in Matching(tx[t.req].coll, tx[t.req].owner) : GiveToken(a, t.token)
      BY <1>1 DEF SetTokenId
    <2>2. /\ Holder(tx[t.req].coll, t.token) = {} /\ t.stage = "set"
          /\ a \in Tokenless(tx[t.req].coll) /\ a \in DOMAIN asset
      BY <1>1 DEF SetTokenId, Duplicate, Matching, Tokenless
    <2> DEFINE doc == [asset[a] EXCEPT !.token = t.token, !.state = "minted"]
    <2>3. asset' = [asset EXCEPT ![a] = doc]
      BY <2>1 DEF GiveToken
    <2>4. doc.token = t.token /\ doc.coll = asset[a].coll /\ doc.state = "minted"
      BY <1>d, <2>2 DEF AssetDocs
    <2> HIDE DEF doc
    <2>5. DOMAIN asset' = DOMAIN asset /\ asset'[a] = doc
          /\ \A b \in DOMAIN asset : b # a => asset'[b] = asset[b]
      BY <2>2, <2>3
    <2> QED
      BY <2>2, <2>4, <2>5 DEF Given
  <1>2. ASSUME SetBurnt(t), asset' # asset
        PROVE  SetsBurnt(t)
    <2> DEFINE doc(a) == [asset[a] EXCEPT !.state = "burnt"]
    <2>1. /\ Holder(tx[t.req].coll, t.token) # {} /\ tx[t.req].type = "BurnAsset"
          /\ asset' = [a \in DOMAIN asset |->
                         IF a \in Holder(tx[t.req].coll, t.token) THEN doc(a) ELSE asset[a]]
      BY <1>2 DEF SetBurnt
    <2>2. \A a \in DOMAIN asset : /\ doc(a).token = asset[a].token
                                  /\ doc(a).coll = asset[a].coll /\ doc(a).state = "burnt"
      BY <1>d DEF AssetDocs
    <2> HIDE DEF doc
    <2> QED
      BY <2>1, <2>2 DEF SetsBurnt, Keeps
  <1> QED
    BY <1>1, <1>2 DEF TaskStep, FindToken, AttributionFails, requestVars

LEMMA AssetStep ==
    ASSUME TypeInv, [Next]_vars
    PROVE  \/ asset' = asset
           \/ Created
           \/ \E a \in DOMAIN asset : AsksToBurn(a)
           \/ Reassigned
           \/ \E t \in tasks : \/ \E a \in DOMAIN asset : Given(t, a)
                               \/ SetsBurnt(t)
  <1>1. ASSUME NEW w \in Workers, Acquire(w) \/ JobStep(w) \/ FaultStep(w), asset' # asset
        PROVE  \E t \in tasks : TaskStep(t) \/ AttributionFails(t)
    BY <1>1 DEF JobStep, FaultStep, Acquire, Fetch, ReadBlockNumber, Decide, StartTransact,
         Unlock, ReadReceipt, MarkSubmitted, SaveHash, Send, SendRefused, GiveUp,
         Throw, Crash, MarkFails, SaveFails, SendFails, OutsideUnchanged, requestVars
  <1> QED
    BY <1>1, RequestAssets, TaskAssets DEF Next, vars, requestVars, LockExpires

-----------------------------------------------------------------------------
(* The tokens players hold.                                                 *)

FinalToken(c, k) ==
    /\ IsDeep(k[1]) /\ chain[k[1]].call = "mint" /\ chain[k[1]].coll = c
    /\ k[2] <= Cardinality(chain[k[1]].reqs)

LEMMA HoldByFinal ==
    PlayersHoldFinalTokens <=>
        \A a \in DOMAIN asset : asset[a].token # NoToken => FinalToken(asset[a].coll, asset[a].token)
  BY DEF PlayersHoldFinalTokens, FinalToken, IsDeep

LEMMA FinalTokenKept ==
    ASSUME TypeInv, [Next]_vars, NEW c, NEW k, FinalToken(c, k)
    PROVE  FinalToken(c, k)'
  BY SendsKept DEF FinalToken, IsDeep

LEMMA HoldStep ==
    ASSUME TypeInv, ReceiptsInv, PlayersHoldFinalTokens, [Next]_vars
    PROVE  PlayersHoldFinalTokens'
  <1> SUFFICES ASSUME NEW a \in DOMAIN asset', asset'[a].token # NoToken
               PROVE  \E c, k : /\ c = asset'[a].coll /\ k = asset'[a].token
                                /\ FinalToken(c, k)
    <2>1. \A c, k : FinalToken(c, k) => FinalToken(c, k)'
      BY FinalTokenKept
    <2> QED
      BY <2>1 DEF PlayersHoldFinalTokens, FinalToken, IsDeep
  <1>1. CASE a \in DOMAIN asset /\ asset'[a].token = asset[a].token
                                /\ asset'[a].coll = asset[a].coll
    BY <1>1, HoldByFinal
  <1>2. ASSUME NEW t \in tasks, Given(t, a), a \in DOMAIN asset
        PROVE  FinalToken(asset'[a].coll, asset'[a].token)
    <2>1. /\ IsDeep(t.hash) /\ t.req \in chain[t.hash].reqs
          /\ chain[t.hash].call = "mint" /\ MintsToken(t.hash, t.token)
      BY <1>2 DEF Given, ReceiptsInv, TokensInv
    <2>2. tx[t.req].coll = chain[t.hash].coll
      BY <2>1 DEF ReceiptsInv, SendsInv, IsDeep
    <2>3. asset'[a].coll = tx[t.req].coll /\ asset'[a].token = t.token
      BY <1>2 DEF Given, Tokenless
    <2> QED
      BY <2>1, <2>2, <2>3 DEF FinalToken, MintsToken
  <1> QED
    BY <1>1, <1>2, AssetStep DEF Created, AsksToBurn, Reassigned, SetsBurnt, Keeps, Given

(* No player ever holds a token whose mint could still be undone, not even  *)
(* when the lock expires under a job (applySync counts confirmations).      *)
THEOREM TokensAreFinal == Spec => []PlayersHoldFinalTokens
  <1>1. Init => PlayersHoldFinalTokens
    BY DEF Init, RequestInit, PlayersHoldFinalTokens
  <1>2. TypeInv /\ ReceiptsInv /\ PlayersHoldFinalTokens /\ [Next]_vars => PlayersHoldFinalTokens'
    BY HoldStep
  <1> QED
    BY <1>1, <1>2, TypeInvariance, ReceiptsInvariance, PTL DEF Spec

-----------------------------------------------------------------------------
(* The burns.                                                               *)

LEMMA BurntStep ==
    ASSUME TypeInv, ReceiptsInv, BurntIsFinal, [Next]_vars
    PROVE  BurntIsFinal'
  <1> SUFFICES ASSUME NEW a \in DOMAIN asset', asset'[a].state = "burnt"
               PROVE  \E h \in DOMAIN chain : IsDeep(h) /\ asset'[a].token \in chain[h].burns
    BY SendsKept DEF BurntIsFinal, IsDeep
  <1>1. CASE a \in DOMAIN asset /\ asset'[a].token = asset[a].token /\ asset[a].state = "burnt"
    BY <1>1 DEF BurntIsFinal, IsDeep
  <1>2. ASSUME NEW t \in tasks, SetsBurnt(t), a \in Holder(tx[t.req].coll, t.token)
        PROVE  \E h \in DOMAIN chain : IsDeep(h) /\ asset'[a].token \in chain[h].burns
    <2>1. IsDeep(t.hash) /\ t.req \in chain[t.hash].reqs /\ t.hash \in DOMAIN chain
      BY DEF ReceiptsInv, TokensInv, IsDeep
    <2>2. chain[t.hash].call # "mint" /\ t.token = tx[t.req].token
      BY <1>2, <2>1 DEF ReceiptsInv, TokensInv, SendsInv, SetsBurnt
    <2>3. chain[t.hash].call = "burn"
      <3>1. chain[t.hash] \in Sends
        BY <2>1 DEF TypeInv, TypeOK
      <3> QED
        BY <2>2, <3>1 DEF Sends, Calls
    <2>4. t.token \in chain[t.hash].burns
      BY <2>1, <2>2, <2>3 DEF ReceiptsInv, SendsInv, BurnsOf
    <2>5. asset'[a].token = t.token
      BY <1>2 DEF SetsBurnt, Keeps, Holder
    <2> QED
      BY <2>1, <2>4, <2>5
  <1>3. asset' = asset => a \in DOMAIN asset /\ asset'[a] = asset[a]
    OBVIOUS
  <1> QED
    BY <1>1, <1>2, <1>3, AssetStep DEF Created, AsksToBurn, Reassigned, SetsBurnt, Keeps, Given

(* No asset is marked burnt before the burn of its token is final, not even *)
(* when the lock expires under a job (AssetBurntStateSetter).               *)
THEOREM BurnsAreFinal == Spec => []BurntIsFinal
  <1>1. Init => BurntIsFinal
    BY DEF Init, RequestInit, BurntIsFinal
  <1>2. TypeInv /\ ReceiptsInv /\ BurntIsFinal /\ [Next]_vars => BurntIsFinal'
    BY BurntStep
  <1> QED
    BY <1>1, <1>2, TypeInvariance, ReceiptsInvariance, PTL DEF Spec

-----------------------------------------------------------------------------
(* The life of an asset, when the studio asks to burn minted assets only    *)
(* (AssetBurner itself does not look).  An asset is minting as long as it   *)
(* has no token, and the token of a burn request is that of an asset on its *)
(* way out.                                                                 *)

OnlyMintedBurnt == BurnStates \subseteq {"minted"}

Minting == \A a \in DOMAIN asset : asset[a].token = NoToken <=> asset[a].state = "minting"
Leaving(c, k) ==
    /\ Holder(c, k) # {} /\ k # NoToken
    /\ \A a \in Holder(c, k) : asset[a].state \in {"burning", "burnt"}
LifeInv ==
    /\ Minting
    /\ \A i \in DOMAIN tx : tx[i].type = "BurnAsset" => Leaving(tx[i].coll, tx[i].token)

LEMMA TokensAreTokens == NoToken \notin Tokens
  BY DEF NoToken, Tokens, Hashes

LEMMA MintingStep ==
    ASSUME TypeInv, ReceiptsInv, Minting, [Next]_vars
    PROVE  Minting'
  <1> USE DEF Minting
  <1>1. ASSUME NEW t \in tasks, NEW a \in DOMAIN asset, Given(t, a)
        PROVE  t.token # NoToken
    <2>1. t.hash \in DOMAIN chain /\ MintsToken(t.hash, t.token)
      BY <1>1 DEF Given, ReceiptsInv, TokensInv, IsDeep
    <2>2. t.token[1] # 0
      <3>1. DOMAIN chain = 1 .. Len(chain) /\ Len(chain) \in Nat
        BY DEF TypeInv, TypeOK
      <3> QED
        BY <2>1, <3>1 DEF MintsToken
    <2> QED
      BY <2>2 DEF NoToken
  <1>2. ASSUME NEW t \in tasks, SetsBurnt(t), NEW a \in Holder(tx[t.req].coll, t.token)
        PROVE  asset[a].token # NoToken
    <2>1. t.req \in DOMAIN tx /\ tx[t.req].type = "BurnAsset" /\ t.token = tx[t.req].token
      BY <1>2 DEF SetsBurnt, ReceiptsInv, TokensInv, SendsInv, IsDeep
    <2>2. tx[t.req] \in TxDocs
      BY <2>1 DEF TypeInv, TypeOK
    <2> QED
      BY <2>1, <2>2, TokensAreTokens DEF TxDocs, Holder
  <1>3. ASSUME Reassigned
        PROVE  Minting'
    BY <1>3 DEF Reassigned, Keeps
  <1>4. ASSUME Created
        PROVE  Minting'
    BY <1>4 DEF Created
  <1>5. ASSUME NEW a \in DOMAIN asset, AsksToBurn(a)
        PROVE  Minting'
    BY <1>5 DEF AsksToBurn, Keeps
  <1>6. ASSUME NEW t \in tasks, NEW a \in DOMAIN asset, Given(t, a)
        PROVE  Minting'
    BY <1>1, <1>6 DEF Given
  <1>7. ASSUME NEW t \in tasks, SetsBurnt(t)
        PROVE  Minting'
    BY <1>2, <1>7 DEF SetsBurnt, Keeps
  <1> QED
    BY <1>3, <1>4, <1>5, <1>6, <1>7, AssetStep

(* An asset on its way out stays so, and nobody else gets its token.        *)
LEMMA LeavingKept ==
    ASSUME OnlyMintedBurnt, TypeInv, Minting, [Next]_vars, NEW c, NEW k, Leaving(c, k)
    PROVE  Leaving(c, k)'
  <1> USE DEF Leaving, Holder
  <1>1. CASE asset' = asset
    BY <1>1
  <1>2. CASE Created
    BY <1>2 DEF Created
  <1>3. ASSUME NEW a \in DOMAIN asset, AsksToBurn(a)
        PROVE  Leaving(c, k)'
    BY <1>3 DEF AsksToBurn, Keeps, OnlyMintedBurnt
  <1>4. CASE Reassigned
    BY <1>4 DEF Reassigned, Keeps
  <1>5. ASSUME NEW t \in tasks, NEW a \in DOMAIN asset, Given(t, a)
        PROVE  Leaving(c, k)'
    <2>1. a \notin Holder(c, k)
      BY <1>5 DEF Given, Tokenless
    <2>2. Holder(c, k)' = Holder(c, k)
      BY <1>5, <2>1 DEF Given, Tokenless
    <2> QED
      BY <1>5, <2>1, <2>2 DEF Given
  <1>6. ASSUME NEW t \in tasks, SetsBurnt(t)
        PROVE  Leaving(c, k)'
    BY <1>6 DEF SetsBurnt, Keeps
  <1> QED
    BY <1>1, <1>2, <1>3, <1>4, <1>5, <1>6, AssetStep

LEMMA LifeStep ==
    ASSUME OnlyMintedBurnt, TypeInv, ReceiptsInv, OneAssetPerToken, LifeInv, [Next]_vars
    PROVE  LifeInv'
  <1> USE DEF LifeInv
  <1>1. ASSUME NEW i \in DOMAIN tx, tx'[i].type = "BurnAsset"
        PROVE  Leaving(tx[i].coll, tx[i].token)' /\ SameRequest(tx'[i], tx[i])
    BY <1>1, LeavingKept, TxStep DEF SameRequest
  <1>2. ASSUME NEW i \in DOMAIN tx', i \notin DOMAIN tx, tx'[i].type = "BurnAsset"
        PROVE  \E a \in DOMAIN asset :
                  /\ BurnAsset(a)
                  /\ tx'[i].coll = asset[a].coll /\ tx'[i].token = asset[a].token
    <2>1. tx \in Seq(TxDocs)
      BY DEF TypeInv, TypeOK
    <2>2. \A doc : Inserted(doc) => tx'[i] = doc
      BY <1>2, <2>1 DEF Inserted
    <2>3. \A type, u, c, k : /\ NewTx(type, c, u, k).type = type
                             /\ NewTx(type, c, u, k).coll = c
                             /\ NewTx(type, c, u, k).token = k
      BY DEF NewTx
    <2>4. RequestNext
      BY <1>2, WorkerTx DEF Next, vars, requestVars, LockExpires
    <2>5. ASSUME NEW a \in DOMAIN asset, BurnAsset(a)
          PROVE  tx'[i].coll = asset[a].coll /\ tx'[i].token = asset[a].token
      BY <2>2, <2>3, <2>5 DEF BurnAsset
    <2>6. ASSUME NEW type, NEW c, NEW u, NEW k, Inserted(NewTx(type, c, u, k))
          PROVE  type = "BurnAsset"
      BY <1>2, <2>2, <2>3, <2>6
    <2>7. ASSUME NEW u, NEW c, MintResource(u, c)
          PROVE  FALSE
      <3>1. Inserted(NewTx("MintResource", c, u, NoToken))
        BY <2>7 DEF MintResource
      <3> QED
        BY <2>6, <3>1
    <2>8. ASSUME NEW r, CommitMint(r)
          PROVE  FALSE
      <3>1. Inserted(NewTx("MintAsset", asset[r.asset].coll, r.owner, NoToken))
        BY <2>8 DEF CommitMint
      <3> QED
        BY <2>6, <3>1
    <2>9. ASSUME tx' = tx
          PROVE  FALSE
      BY <1>2, <2>9
    <2> QED
      BY <2>4, <2>5, <2>7, <2>8, <2>9 DEF RequestNext, CreateAsset, AbortMint, UpdateAsset
  <1>3. ASSUME NEW a \in DOMAIN asset, BurnAsset(a)
        PROVE  /\ Leaving(asset[a].coll, asset[a].token)'
               /\ asset'[a].coll = asset[a].coll /\ asset'[a].token = asset[a].token
    <2>1. asset[a] \in AssetDocs
      BY DEF TypeInv, TypeOK
    <2>2. asset[a].token # NoToken
      BY <1>3 DEF BurnAsset
    <2> DEFINE doc == [asset[a] EXCEPT !.state = "burning"]
    <2>3. asset' = [asset EXCEPT ![a] = doc]
      BY <1>3 DEF BurnAsset
    <2>4. doc.state = "burning" /\ doc.token = asset[a].token /\ doc.coll = asset[a].coll
      BY <2>1 DEF AssetDocs
    <2> HIDE DEF doc
    <2>5. \A b \in DOMAIN asset : asset[b].token = asset[a].token /\ asset[b].coll = asset[a].coll
                                     => b = a
      BY <2>2 DEF OneAssetPerToken
    <2>6. /\ DOMAIN asset' = DOMAIN asset /\ asset'[a] = doc
          /\ \A b \in DOMAIN asset : b # a => asset'[b] = asset[b]
      BY <2>3
    <2>7. {b \in DOMAIN asset' : asset'[b].coll = asset[a].coll /\ asset'[b].token = asset[a].token}
             = {a}
      BY <2>4, <2>5, <2>6
    <2> QED
      BY <2>2, <2>4, <2>6, <2>7, <1>3 DEF Leaving, Holder
  <1>4. Minting'
    BY MintingStep
  <1>5. ASSUME NEW i \in DOMAIN tx', tx'[i].type = "BurnAsset"
        PROVE  Leaving(tx[i].coll, tx[i].token)'
    <2>1. CASE i \in DOMAIN tx
      BY <1>1, <1>5, <2>1
    <2>2. CASE i \notin DOMAIN tx
      <3>1. PICK a \in DOMAIN asset :
               /\ BurnAsset(a)
               /\ tx'[i].coll = asset[a].coll /\ tx'[i].token = asset[a].token
        BY <1>2, <1>5, <2>2
      <3>2. tx'[i].coll = asset'[a].coll /\ tx'[i].token = asset'[a].token
        BY <1>3, <3>1
      <3> QED
        BY <1>3, <3>1, <3>2
    <2> QED
      BY <2>1, <2>2
  <1> QED
    BY <1>4, <1>5

LEMMA LifeInvariance == OnlyMintedBurnt => (Spec => []LifeInv)
  <1> SUFFICES ASSUME OnlyMintedBurnt PROVE Spec => []LifeInv
    OBVIOUS
  <1>1. Init => LifeInv
    BY DEF Init, RequestInit, LifeInv, Minting
  <1>2. TypeInv /\ ReceiptsInv /\ OneAssetPerToken /\ LifeInv /\ [Next]_vars => LifeInv'
    BY LifeStep
  <1> QED
    BY <1>1, <1>2, TypeInvariance, ReceiptsInvariance, UniqueTokens, PTL DEF Spec

LEMMA LifecycleStep ==
    ASSUME OnlyMintedBurnt, TypeInv, ReceiptsInv, LifeInv, [Next]_vars, NEW a \in DOMAIN asset
    PROVE  /\ asset'[a].state \in Successors[asset[a].state]
           /\ asset[a].token # NoToken => asset'[a].token = asset[a].token
  <1> USE DEF Successors
  <1>s. asset[a].state \in {"minting", "minted", "burning", "burnt"}
    <2>1. asset[a] \in AssetDocs
      BY DEF TypeInv, TypeOK
    <2> QED
      BY <2>1 DEF AssetDocs, AssetStates
  <1>1. CASE asset'[a].state = asset[a].state /\ asset'[a].token = asset[a].token
    BY <1>1, <1>s
  <1>2. ASSUME AsksToBurn(a)
        PROVE  /\ asset'[a].state \in Successors[asset[a].state]
               /\ asset'[a].token = asset[a].token
    <2>1. asset[a].state = "minted" /\ asset'[a].state = "burning"
      BY <1>2 DEF AsksToBurn, OnlyMintedBurnt
    <2> QED
      BY <1>2, <2>1 DEF AsksToBurn, Keeps
  <1>3. ASSUME NEW t \in tasks, Given(t, a)
        PROVE  /\ asset'[a].state \in Successors[asset[a].state]
               /\ asset[a].token = NoToken
    <2>1. asset[a].token = NoToken /\ asset[a].state = "minting" /\ asset'[a].state = "minted"
      BY <1>3 DEF Given, Tokenless, LifeInv, Minting
    <2> QED
      BY <2>1
  <1>4. ASSUME NEW t \in tasks, SetsBurnt(t), a \in Holder(tx[t.req].coll, t.token)
        PROVE  asset'[a].state \in Successors[asset[a].state]
    <2>1. t.req \in DOMAIN tx /\ tx[t.req].type = "BurnAsset" /\ t.token = tx[t.req].token
      BY <1>4 DEF SetsBurnt, ReceiptsInv, TokensInv, SendsInv, IsDeep
    <2>2. asset[a].state \in {"burning", "burnt"} /\ asset'[a].state = "burnt"
      BY <1>4, <2>1 DEF LifeInv, Leaving, SetsBurnt
    <2> QED
      BY <2>2
  <1>5. ASSUME NEW t \in tasks, SetsBurnt(t)
        PROVE  asset'[a].token = asset[a].token
    BY <1>5 DEF SetsBurnt, Keeps
  <1>6. ASSUME NEW t \in tasks, SetsBurnt(t), a \notin Holder(tx[t.req].coll, t.token)
        PROVE  asset'[a].state = asset[a].state
    BY <1>6 DEF SetsBurnt
  <1>7. ASSUME NEW t \in tasks, NEW b \in DOMAIN asset, Given(t, b), b # a
        PROVE  asset'[a] = asset[a]
    BY <1>7 DEF Given
  <1>8. ASSUME NEW b \in DOMAIN asset, AsksToBurn(b), b # a
        PROVE  asset'[a] = asset[a]
    BY <1>8 DEF AsksToBurn
  <1>9. ASSUME Created
        PROVE  asset'[a] = asset[a]
    BY <1>9 DEF Created
  <1>10. ASSUME Reassigned
         PROVE  asset'[a].state = asset[a].state /\ asset'[a].token = asset[a].token
    BY <1>10 DEF Reassigned, Keeps
  <1> QED
    BY <1>1, <1>2, <1>3, <1>4, <1>5, <1>6, <1>7, <1>8, <1>9, <1>10, AssetStep

(* An asset goes through its states in order and keeps its token for ever,  *)
(* whatever the lock does, as long as the studio asks to burn minted assets *)
(* only (setTokenId, AssetBurner, AssetBurntStateSetter).                   *)
THEOREM AssetsLiveInOrder == OnlyMintedBurnt => (Spec => AssetLifecycle)
  <1> SUFFICES ASSUME OnlyMintedBurnt PROVE Spec => AssetLifecycle
    OBVIOUS
  <1>1. TypeInv /\ ReceiptsInv /\ LifeInv /\ [Next]_vars =>
           [\A a \in DOMAIN asset :
               /\ asset'[a].state \in Successors[asset[a].state]
               /\ asset[a].token # NoToken => asset'[a].token = asset[a].token]_vars
    BY LifecycleStep
  <1> QED
    BY <1>1, LifeInvariance, TypeInvariance, ReceiptsInvariance, PTL DEF Spec, AssetLifecycle
=============================================================================
