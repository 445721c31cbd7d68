-------------------------- MODULE TransactionWorker --------------------------
(***************************************************************************)
(* The transaction worker (src/workers/TransactionWorker.ts): every worker *)
(* process runs it on a timer, one job at a time, and a Redis lock with a  *)
(* time to live keeps the jobs of different processes apart.  A job reads  *)
(* the unfinished Transactions, follows the ones it has sent on the chain, *)
(* gives the tokens of the confirmed ones to assets, and sends the pending *)
(* ones in one batch per type and collection.                              *)
(*                                                                         *)
(* Each await is a step boundary; the branches of a Promise.all interleave.*)
(* A job that stops waiting for a Promise.all because one branch rejected  *)
(* leaves the others running: they are the detached tasks below.           *)
(***************************************************************************)
EXTENDS AssetRequests

CONSTANTS
    Workers,   \* the worker processes
    NoWorker

ASSUME WorkerAssumption == NoWorker \notin Workers

VARIABLES
    lock,      \* the key lock::transaction-worker; its value (the taker) is a
               \* ghost: Redis stores the constant 1
    pc,        \* where each process is in its job
    snap,      \* the Transactions the job read
    deep,      \* the sends deep enough at the block number the job read
    verdict,   \* what the job knows of each hash it follows
    toSend,    \* the groups the job has yet to send
    unsaved,   \* the hashes the job has sent and not yet stored
    tasks      \* attributions of receipt logs in progress, in all processes

workerVars == <<lock, pc, snap, deep, verdict, toSend, unsaved, tasks>>
vars == <<portalVars, requestVars, workerVars>>

-----------------------------------------------------------------------------
(* lockTTL is ample: the key never expires under a running job.             *)
TTLHolds == "expiry" \notin FaultKinds

PCs == {"idle", "fetch", "block", "receipts", "process", "transact", "unlock"}

Verdicts == {"none",       \* not a hash of this job
             "asked",      \* getTransactionReceipt is out
             "absent",     \* no receipt
             "shallow",    \* succeeded, not enough confirmations
             "confirmed",  \* its receipt is being processed
             "settled",    \* processReceipt is over, one way or the other
             "rejected"}   \* failed: its Transactions are sent again

Groups == TxTypes \X Collections
GroupOf(i) == <<tx[i].type, tx[i].coll>>

Stages == {"find", "set"}
Tasks == [worker: Workers, hash: Hashes, req: TxIds, token: Tokens \cup {NoToken},
          stage: Stages, detached: BOOLEAN]

(* The Transactions a job groups under a hash it follows, and those it will *)
(* send: the pending ones and the rejected ones.                            *)
Following(w, h) ==
    {i \in DOMAIN snap[w] : snap[w][i].state = "submitting" /\ snap[w][i].hash = h}
Pending(w) == {i \in DOMAIN snap[w] : snap[w][i].state = "pending"}
Rejected(w) == UNION {Following(w, h) : h \in {g \in Hashes : verdict[w][g] = "rejected"}}

ToTransact_Submitted(w) == {i \in DOMAIN snap[w] : snap[w][i].state # "submitting"}
ToTransact_NoRejected(w) == Pending(w)
ToTransact(w) == Pending(w) \cup Rejected(w)
Batch(w, g) == {i \in ToTransact(w) : GroupOf(i) = g}

(* The place of i among ids, in document order.                             *)
Place_FromZero(ids, i) == Cardinality({j \in ids : j < i})
Place(ids, i) == Cardinality({j \in ids : j <= i})

(* makeAttributions: the token of the log paired with Transaction i, one of *)
(* those the job follows under h.  The k-th LogMinted names the k-th token. *)
(* The LogBurnt events name the tokens of the batch in the order they were  *)
(* sent; only the set they form has an effect, and it is the tokens of the  *)
(* Transactions as long as these are the ones sent (RecordedAsSent).        *)
LogToken(w, h, i) ==
    IF chain[h].call = "mint" THEN <<h, Place(Following(w, h), i)>> ELSE tx[i].token

Holder(c, t) == {a \in DOMAIN asset : asset[a].coll = c /\ asset[a].token = t}
Tokenless(c) == {a \in DOMAIN asset : asset[a].coll = c /\ asset[a].token = NoToken}
OwnedBy(u) == {a \in DOMAIN asset : asset[a].owner = u}

WorkerInit ==
    /\ lock = NoWorker
    /\ pc = [w \in Workers |-> "idle"]
    /\ snap = [w \in Workers |-> <<>>]
    /\ deep = [w \in Workers |-> {}]
    /\ verdict = [w \in Workers |-> [h \in Hashes |-> "none"]]
    /\ toSend = [w \in Workers |-> {}]
    /\ unsaved = [w \in Workers |-> {}]
    /\ tasks = {}

Goto(w, l) == pc' = [pc EXCEPT ![w] = l]
SetVerdict(w, h, v) == verdict' = [verdict EXCEPT ![w][h] = v]
OutsideUnchanged == UNCHANGED <<portalVars, requestVars>>

(* The job's local state is gone: its process is idle again.                *)
Forget(w) ==
    /\ Goto(w, "idle")
    /\ snap' = [snap EXCEPT ![w] = <<>>]
    /\ deep' = [deep EXCEPT ![w] = {}]
    /\ verdict' = [verdict EXCEPT ![w] = [h \in Hashes |-> "none"]]
    /\ toSend' = [toSend EXCEPT ![w] = {}]
    /\ unsaved' = [unsaved EXCEPT ![w] = {}]

-----------------------------------------------------------------------------
(* SET with NX.                                                             *)
CanLock_Always == TRUE
CanLock == lock = NoWorker

(* apply and synchronizeWork: a job that is not stale takes the lock.  A    *)
(* stale job, or one that finds the lock taken, changes nothing.            *)
Acquire(w) ==
    /\ pc[w] = "idle"
    /\ CanLock
    /\ lock' = w
    /\ Goto(w, "fetch")
    /\ UNCHANGED <<snap, deep, verdict, toSend, unsaved, tasks>>
    /\ OutsideUnchanged

(* findAllExceptState(submitted), then the two filters.                     *)
Fetch(w) ==
    /\ pc[w] = "fetch"
    /\ snap' = [snap EXCEPT ![w] = tx]
    /\ IF \E i \in DOMAIN tx : tx[i].state = "submitting"
       THEN Goto(w, "block") /\ UNCHANGED toSend
       ELSE /\ Goto(w, "transact")
            /\ toSend' = [toSend EXCEPT ![w] =
                   {GroupOf(i) : i \in {j \in DOMAIN tx : tx[j].state = "pending"}}]
    /\ UNCHANGED <<lock, deep, verdict, unsaved, tasks>>
    /\ OutsideUnchanged

(* getBlockNumber: from here on the depth of a receipt is counted back from *)
(* this block.  The receipts are then asked for, all at once.               *)
ReadBlockNumber(w) ==
    /\ pc[w] = "block"
    /\ deep' = [deep EXCEPT ![w] = {h \in DOMAIN chain : chain[h].status = "deep"}]
    /\ verdict' = [verdict EXCEPT ![w] =
           [h \in Hashes |-> IF Following(w, h) # {} THEN "asked" ELSE "none"]]
    /\ Goto(w, "receipts")
    /\ UNCHANGED <<lock, snap, toSend, unsaved, tasks>>
    /\ OutsideUnchanged

(* getTransactionReceipt answers for h.                                     *)
Judge_AnyDepth(w, h) ==
    CASE chain[h].status \in {"mempool", "dropped"} -> "absent"
      [] chain[h].status = "reverted" -> "rejected"
      [] OTHER -> "confirmed"
Judge_ResendAbsent(w, h) ==
    IF chain[h].status \in {"mempool", "dropped", "reverted"} THEN "rejected"
    ELSE IF h \in deep[w] THEN "confirmed" ELSE "shallow"
Judge(w, h) ==
    CASE chain[h].status \in {"mempool", "dropped"} -> "absent"
      [] chain[h].status = "reverted" -> "rejected"
      [] OTHER ->
            IF h \in deep[w] THEN "confirmed" ELSE "shallow"

ReadReceipt(w, h) ==
    /\ pc[w] = "receipts"
    /\ verdict[w][h] = "asked"
    /\ SetVerdict(w, h, Judge(w, h))
    /\ UNCHANGED <<lock, pc, snap, deep, toSend, unsaved, tasks>>
    /\ OutsideUnchanged

HasUnconfirmed_Never(w) == FALSE
HasUnconfirmed(w) == \E h \in Hashes : verdict[w][h] = "absent"

(* Every receipt is in.  One that is missing ends the job; otherwise each   *)
(* confirmed receipt's logs are paired with its Transactions by index.      *)
Attributions(w) ==
    UNION {{[worker |-> w, hash |-> h, req |-> i,
             token |-> LogToken(w, h, i),
             stage |-> "find", detached |-> FALSE] : i \in Following(w, h)} :
           h \in {g \in Hashes : verdict[w][g] = "confirmed"}}

Decide(w) ==
    /\ pc[w] = "receipts"
    /\ \A h \in Hashes : verdict[w][h] # "asked"
    /\ IF HasUnconfirmed(w)
       THEN Goto(w, "unlock") /\ UNCHANGED tasks
       ELSE Goto(w, "process") /\ tasks' = tasks \cup Attributions(w)
    /\ UNCHANGED <<lock, snap, deep, verdict, toSend, unsaved>>
    /\ OutsideUnchanged

-----------------------------------------------------------------------------
(* One attribution of a receipt (AssetReceiptProcessor.apply).              *)

Finish(t) == tasks' = tasks \ {t}

(* The attribution rejects.  If its processReceipt was still waiting, that  *)
(* call is over and its other attributions go on unobserved.                *)
Reject(t) ==
    LET siblings == {s \in tasks : s.worker = t.worker /\ s.hash = t.hash
                                       /\ ~s.detached /\ s # t}
    IN  IF t.detached
        THEN Finish(t) /\ UNCHANGED verdict
        ELSE /\ tasks' = (tasks \ ({t} \cup siblings))
                             \cup {[s EXCEPT !.detached = TRUE] : s \in siblings}
             /\ SetVerdict(t.worker, t.hash, "settled")

TaskOutside == UNCHANGED <<lock, pc, snap, deep, toSend, unsaved,
                           tx, creating, portalVars>>

(* AssetAssigner.apply: a token some asset already has is left alone.       *)
FindToken(t) ==
    /\ t.stage = "find"
    /\ tx[t.req].type = "MintAsset"
    /\ IF Holder(tx[t.req].coll, t.token) # {}
       THEN Finish(t)
       ELSE tasks' = (tasks \ {t}) \cup {[t EXCEPT !.stage = "set"]}
    /\ UNCHANGED <<verdict, asset>>
    /\ TaskOutside

(* setTokenId: one atomic findOneAndUpdate of a tokenless asset of the user, *)
(* which one is not said; the unique index on (collectionId, tokenId)       *)
(* refuses a second asset for a token.                                      *)
Matching_AnyOwner(c, u) == Tokenless(c)
Matching_AnyToken(c, u) == {a \in OwnedBy(u) : asset[a].coll = c}
Matching(c, u) == Tokenless(c) \cap OwnedBy(u)

Duplicate_Unchecked(c, t) == FALSE
Duplicate(c, t) == Holder(c, t) # {}

GiveToken_StateKept(a, t) == asset' = [asset EXCEPT ![a].token = t]
GiveToken(a, t) == asset' = [asset EXCEPT ![a].token = t, ![a].state = "minted"]

SetTokenId(t) ==
    /\ t.stage = "set"
    /\ LET c == tx[t.req].coll
           u == tx[t.req].owner
       IN  IF Duplicate(c, t.token) \/ Matching(c, u) = {}
           THEN Reject(t) /\ UNCHANGED asset
           ELSE /\ \E a \in Matching(c, u) : GiveToken(a, t.token)
                /\ Finish(t)
                /\ UNCHANGED verdict
    /\ TaskOutside

(* AssetBurntStateSetter.apply: finds the token's asset, which is its asset *)
(* for good, and updates its state by id.                                   *)
SetBurnt(t) ==
    /\ tx[t.req].type = "BurnAsset"
    /\ IF Holder(tx[t.req].coll, t.token) = {}
       THEN Reject(t) /\ UNCHANGED asset
       ELSE /\ asset' = [a \in DOMAIN asset |->
                   IF a \in Holder(tx[t.req].coll, t.token)
                   THEN [asset[a] EXCEPT !.state = "burnt"] ELSE asset[a]]
            /\ Finish(t)
            /\ UNCHANGED verdict
    /\ TaskOutside

(* The database call of the attribution fails.                              *)
AttributionFails(t) ==
    /\ Fault("error")
    /\ Reject(t)
    /\ UNCHANGED <<lock, pc, snap, deep, toSend, unsaved, requestVars, chain>>

(* Every attribution of h is done: markSubmitted, whatever the documents    *)
(* hold by now.                                                             *)
Processed_AtOnce(w, h) == verdict[w][h] = "confirmed" /\ pc[w] = "process"
Processed(w, h) ==
    /\ verdict[w][h] = "confirmed"
    /\ pc[w] = "process"
    /\ ~ \E t \in tasks : t.worker = w /\ t.hash = h /\ ~t.detached

MarkSubmitted(w, h) ==
    /\ Processed(w, h)
    /\ tx' = [i \in DOMAIN tx |->
                IF i \in Following(w, h) THEN [tx[i] EXCEPT !.state = "submitted"]
                                         ELSE tx[i]]
    /\ SetVerdict(w, h, "settled")
    /\ UNCHANGED <<lock, pc, snap, deep, toSend, unsaved, tasks,
                   asset, creating, portalVars>>

MarkFails(w, h) ==
    /\ Processed(w, h)
    /\ Fault("error")
    /\ SetVerdict(w, h, "settled")
    /\ UNCHANGED <<lock, pc, snap, deep, toSend, unsaved, tasks,
                   requestVars, chain>>

(* Every processReceipt has settled: on to transact, with the pending and   *)
(* the rejected Transactions.                                               *)
StartTransact(w) ==
    /\ pc[w] = "process"
    /\ \A h \in Hashes : verdict[w][h] # "confirmed"
    /\ Goto(w, "transact")
    /\ toSend' = [toSend EXCEPT ![w] = {GroupOf(i) : i \in ToTransact(w)}]
    /\ UNCHANGED <<lock, snap, deep, verdict, unsaved, tasks>>
    /\ OutsideUnchanged

-----------------------------------------------------------------------------
(* transact, one group at a time in any order.                              *)

BurnsOf(ids) == {tx[i].token : i \in ids}

(* callStatic.burnBatchAsset rejects a batch that names a token twice or a  *)
(* token the portal no longer holds.                                        *)
BurnAccepted(ids) ==
    /\ Cardinality(BurnsOf(ids)) = Cardinality(ids)
    /\ Burnable(BurnsOf(ids))

(* The transactor of the group sends its batch.  UserResourceMinter never   *)
(* does: it encodes metadata.tokenId, which ResourceTxFactory does not set. *)
Send(w, g) ==
    /\ pc[w] = "transact"
    /\ g \in toSend[w]
    /\ Len(chain) < MaxSends
    /\ LET ids == Batch(w, g)
       IN  \/ /\ g[1] = "MintAsset"
              /\ SendCall("mint", g[2], ids, {})
           \/ /\ g[1] = "BurnAsset"
              /\ BurnAccepted(ids)
              /\ SendCall("burn", g[2], ids, BurnsOf(ids))
    /\ toSend' = [toSend EXCEPT ![w] = @ \ {g}]
    /\ unsaved' = [unsaved EXCEPT ![w] = @ \cup {Len(chain) + 1}]
    /\ UNCHANGED <<lock, pc, snap, deep, verdict, tasks, requestVars, faults>>

GiveUp(w, g) ==
    /\ pc[w] = "transact"
    /\ g \in toSend[w]
    /\ toSend' = [toSend EXCEPT ![w] = @ \ {g}]
    /\ UNCHANGED <<lock, pc, snap, deep, verdict, unsaved, tasks, requestVars, chain>>

(* The transactor throws before it sends: the group stays as it is.  At the *)
(* bound on sends the node takes no more.                                   *)
SendRefused(w, g) ==
    /\ GiveUp(w, g)
    /\ \/ g[1] = "MintResource"
       \/ g[1] = "BurnAsset" /\ ~BurnAccepted(Batch(w, g))
       \/ Len(chain) = MaxSends
    /\ UNCHANGED faults

SendFails(w, g) ==
    /\ GiveUp(w, g)
    /\ Fault("error")

(* updateTransactionStateAndHash: updateMany on the ids of the batch.       *)
ToUpdate_One(h) == {CHOOSE i \in chain[h].reqs : TRUE}
ToUpdate(h) == chain[h].reqs

SaveHash(w, h) ==
    /\ h \in unsaved[w]
    /\ tx' = [i \in DOMAIN tx |->
                IF i \in ToUpdate(h)
                THEN [tx[i] EXCEPT !.state = "submitting", !.hash = h]
                ELSE tx[i]]
    /\ unsaved' = [unsaved EXCEPT ![w] = @ \ {h}]
    /\ UNCHANGED <<lock, pc, snap, deep, verdict, toSend, tasks,
                   asset, creating, portalVars>>

(* The update fails after the send: the hash is only in the log.            *)
SaveFails(w, h) ==
    /\ h \in unsaved[w]
    /\ Fault("save")
    /\ unsaved' = [unsaved EXCEPT ![w] = @ \ {h}]
    /\ UNCHANGED <<lock, pc, snap, deep, verdict, toSend, tasks, requestVars, chain>>

(* The finally of synchronizeWork: DEL of the key, whoever holds it now.    *)
Unlock(w) ==
    /\ \/ pc[w] = "unlock"
       \/ pc[w] = "transact" /\ toSend[w] = {} /\ unsaved[w] = {}
    /\ lock' = NoWorker
    /\ Forget(w)
    /\ UNCHANGED tasks
    /\ OutsideUnchanged

(* A read of the database or of the node throws out of applySync.           *)
Throw(w) ==
    /\ pc[w] \in {"fetch", "block", "receipts"}
    /\ Fault("error")
    /\ Goto(w, "unlock")
    /\ UNCHANGED <<lock, snap, deep, verdict, toSend, unsaved, tasks,
                   requestVars, chain>>

(* The process dies, and its tasks with it; the lock stays.  The process    *)
(* that replaces it is idle.                                                *)
Crash(w) ==
    /\ pc[w] # "idle" \/ \E t \in tasks : t.worker = w
    /\ Fault("crash")
    /\ Forget(w)
    /\ tasks' = {t \in tasks : t.worker # w}
    /\ UNCHANGED <<lock, requestVars, chain>>

(* Redis expires the key, left behind by a process that died or (a fault)   *)
(* held by a job that outlasts it.                                          *)
LockExpires ==
    /\ lock # NoWorker
    /\ IF pc[lock] = "idle" THEN UNCHANGED faults ELSE Fault("expiry")
    /\ lock' = NoWorker
    /\ UNCHANGED <<pc, snap, deep, verdict, toSend, unsaved, tasks, requestVars, chain>>

-----------------------------------------------------------------------------
TaskStep(t) == FindToken(t) \/ SetTokenId(t) \/ SetBurnt(t)
JobStep(w) ==
    \/ Fetch(w) \/ ReadBlockNumber(w) \/ Decide(w) \/ StartTransact(w) \/ Unlock(w)
    \/ \E h \in Hashes : ReadReceipt(w, h) \/ MarkSubmitted(w, h) \/ SaveHash(w, h)
    \/ \E g \in Groups : Send(w, g) \/ SendRefused(w, g)
    \/ \E t \in tasks : t.worker = w /\ TaskStep(t)
FaultStep(w) ==
    \/ Throw(w) \/ Crash(w)
    \/ \E h \in Hashes : MarkFails(w, h) \/ SaveFails(w, h)
    \/ \E g \in Groups : SendFails(w, g)
    \/ \E t \in tasks : t.worker = w /\ AttributionFails(t)

Init == PortalInit /\ RequestInit /\ WorkerInit

Next ==
    \/ RequestNext /\ UNCHANGED workerVars
    \/ PortalNext /\ UNCHANGED <<requestVars, workerVars>>
    \/ \E w \in Workers : Acquire(w) \/ JobStep(w) \/ FaultStep(w)
    \/ LockExpires

Spec == Init /\ [][Next]_vars

(* bullmq keeps handing jobs to the processes, a started job runs on, the   *)
(* network mines what it was sent, the API finishes its requests and Redis  *)
(* expires keys.  Nothing is assumed of the studio or of faults.            *)
Fairness ==
    /\ WF_vars(\E w \in Workers : Acquire(w))
    /\ \A w \in Workers : WF_vars(JobStep(w))
    /\ \A h \in Hashes :
          /\ WF_vars(h \in DOMAIN chain /\ (Mine(h) \/ RevertBurn(h))
                       /\ UNCHANGED <<requestVars, workerVars>>)
          /\ WF_vars(h \in DOMAIN chain /\ Confirm(h)
                       /\ UNCHANGED <<requestVars, workerVars>>)
    /\ WF_vars(\E r \in creating : CommitMint(r) /\ UNCHANGED workerVars)
    /\ WF_vars(LockExpires)

FairSpec == Spec /\ Fairness

-----------------------------------------------------------------------------
(* Every variable stays in its type: TransactionWorker.ts, the Transaction  *)
(* and Asset documents, and the Redis key.                                  *)
TypeOK ==
    /\ chain \in Seq(Sends) /\ Len(chain) <= MaxSends
    /\ faults \in 0 .. MaxFaults
    /\ asset \in Seq(AssetDocs)
    /\ tx \in Seq(TxDocs) /\ Len(tx) <= MaxTxs
    /\ creating \subseteq [asset : DOMAIN asset, owner : Users]
    /\ lock \in Workers \cup {NoWorker}
    /\ pc \in [Workers -> PCs]
    /\ snap \in [Workers -> Seq(TxDocs)]
    /\ deep \in [Workers -> SUBSET Hashes]
    /\ verdict \in [Workers -> [Hashes -> Verdicts]]
    /\ toSend \in [Workers -> SUBSET Groups]
    /\ unsaved \in [Workers -> SUBSET Hashes]
    /\ tasks \subseteq Tasks

(* While the lock outlives its job (synchronizeWork), at most one job runs. *)
OneJobInside ==
    \A v, w \in Workers : pc[v] # "idle" /\ pc[w] # "idle" => v = w

(* No two assets of a collection hold the same token, whatever attributions *)
(* of the same receipt run side by side (AssetAssigner.apply checks, then   *)
(* sets).                                                                   *)
OneAssetPerToken ==
    \A a, b \in DOMAIN asset :
        /\ asset[a].token # NoToken
        /\ asset[a].token = asset[b].token
        /\ asset[a].coll = asset[b].coll
        => a = b

(* A token is given to an asset only when the mint that created it can no   *)
(* longer be undone (applySync counts confirmations).                       *)
PlayersHoldFinalTokens ==
    \A a \in DOMAIN asset : asset[a].token # NoToken =>
        LET h == asset[a].token[1]
        IN  /\ h \in DOMAIN chain
            /\ chain[h].call = "mint" /\ chain[h].status = "deep"
            /\ chain[h].coll = asset[a].coll
            /\ asset[a].token[2] <= Cardinality(chain[h].reqs)

(* An asset is burnt only when the burn of its token can no longer be       *)
(* undone (AssetBurntStateSetter runs from a confirmed receipt).            *)
BurntIsFinal ==
    \A a \in DOMAIN asset : asset[a].state = "burnt" =>
        \E h \in DOMAIN chain :
            chain[h].status = "deep" /\ asset[a].token \in chain[h].burns

(* The token of a mint's own place in the send its document records.        *)
TokenOf(i) == <<tx[i].hash, Place(chain[tx[i].hash].reqs, i)>>
Attributed(i) == tx[i].hash # NoHash /\ Holder(tx[i].coll, TokenOf(i)) # {}

(* "process first. if it fails, do not mark Transaction as submitted."      *)
(* (processReceipt): a submitted Transaction is on the chain for good in    *)
(* the send it records, and its effect is in the Asset collection.          *)
SubmittedIsDone ==
    \A i \in DOMAIN tx : tx[i].state = "submitted" =>
        /\ tx[i].hash \in DOMAIN chain
        /\ chain[tx[i].hash].status = "deep"
        /\ i \in chain[tx[i].hash].reqs
        /\ tx[i].type = "MintAsset" => Attributed(i)
        /\ tx[i].type = "BurnAsset" =>
              \A a \in Holder(tx[i].coll, tx[i].token) : asset[a].state = "burnt"

(* The logs of a receipt are paired by index with the Transactions that     *)
(* record its hash (makeAttributions): these are the ones it was sent for,  *)
(* or none, never some of them.                                             *)
RecordedAsSent ==
    \A h \in DOMAIN chain :
        {i \in DOMAIN tx : tx[i].hash = h} \in {{}, chain[h].reqs}

(* A submitted Transaction is never touched again: no job sends it twice or *)
(* writes another hash over it (findAllExceptState, then updates by id).    *)
SubmittedIsFinal ==
    [][\A i \in DOMAIN tx : tx[i].state = "submitted" => tx'[i] = tx[i]]_vars

(* Each mint that has not got its token has a tokenless asset of its own    *)
(* user waiting for it, so setTokenId always finds one: assets are counted  *)
(* per user, since nothing links a Transaction to its asset (AssetCreator). *)
EveryMintHasAnAsset ==
    \A c \in Collections, u \in Users :
        Cardinality({i \in DOMAIN tx : /\ tx[i].type = "MintAsset"
                                       /\ tx[i].coll = c /\ tx[i].owner = u
                                       /\ ~Attributed(i)})
          + Cardinality({r \in creating : asset[r.asset].coll = c /\ r.owner = u})
        <= Cardinality(Tokenless(c) \cap OwnedBy(u))

(* A job sends only when each hash it follows has a receipt (applySync      *)
(* returns early on hasUnconfirmed).                                        *)
WaitsForReceipts ==
    [][\A w \in Workers : \A h \in unsaved'[w] \ unsaved[w] :
          \A i \in DOMAIN snap[w] : snap[w][i].state = "submitting" =>
              chain[snap[w][i].hash].status \notin {"mempool", "dropped"}]_vars

(* An asset goes through minting, minted, burning, burnt in this order, and *)
(* keeps its token (setTokenId, AssetBurner, AssetBurntStateSetter).        *)
Successors == [minting |-> {"minting", "minted"}, minted |-> {"minted", "burning"},
               burning |-> {"burning", "burnt"}, burnt |-> {"burnt"}]
AssetLifecycle ==
    [][\A a \in DOMAIN asset :
          /\ asset'[a].state \in Successors[asset[a].state]
          /\ asset[a].token # NoToken => asset'[a].token = asset[a].token]_vars

(* No request is minted twice.                                              *)
MintedOnce ==
    \A g, h \in Executed :
        g # h /\ chain[g].call = "mint" /\ chain[h].call = "mint"
        => chain[g].reqs \cap chain[h].reqs = {}

(* The next two are what the repository's comments and tests say.        *)

(* "does not store anything" when one operation fails (AssetCreator): an    *)
(* asset has a mint request, or its request is still being stored.          *)
NoOrphanAsset ==
    Len(asset) = Cardinality({i \in DOMAIN tx : tx[i].type = "MintAsset"})
                     + Cardinality(creating)

(* "Sends transaction to userResourceMinter" (unit test of the worker): a   *)
(* resource mint is sent like the others.                                   *)
EveryResourceMintIsSent ==
    \A i \in TxIds :
        i \in DOMAIN tx /\ tx[i].type = "MintResource"
        ~> i \in DOMAIN tx /\ tx[i].state = "submitting"

(* Every asset request is eventually sent, confirmed and marked submitted.  *)
EveryRequestIsSubmitted ==
    \A i \in TxIds :
        i \in DOMAIN tx /\ tx[i].type # "MintResource"
        ~> i \in DOMAIN tx /\ tx[i].state = "submitted"

(* Every asset the studio creates eventually gets its token, and every one  *)
(* it burns is eventually burnt.                                            *)
EveryAssetSettles ==
    \A a \in 1 .. MaxAssets :
        a \in DOMAIN asset /\ asset[a].state \in {"minting", "burning"}
        ~> a \in DOMAIN asset /\ asset[a].state \in {"minted", "burnt"}

-----------------------------------------------------------------------------
(* The orders of AssetOrders are the Transactions; how far one has come     *)
(* shows in the sends it was part of, then in its document.  A burn names   *)
(* the asset that has its token; the mint that an asset has its token from  *)
(* is the one with the token's place in its send.                           *)
CarriedOut(i) == \E h \in Executed : i \in chain[h].reqs
Final(i) == \E h \in DOMAIN chain : chain[h].status = "deep" /\ i \in chain[h].reqs

StageOf(i) ==
    IF tx[i].state = "submitted" THEN "done"
    ELSE IF Final(i) THEN "final"
    ELSE IF CarriedOut(i) THEN "carried" ELSE "asked"

Named(i) == IF tx[i].type = "BurnAsset" THEN Holder(tx[i].coll, tx[i].token) ELSE {}
MintsOf(t) ==
    IF t = NoToken THEN {}
    ELSE {i \in chain[t[1]].reqs : Place(chain[t[1]].reqs, i) = t[2]}

order ==
    [i \in DOMAIN tx |->
        [kind |-> tx[i].type, player |-> tx[i].owner, coll |-> tx[i].coll, items |-> Named(i)]]
stage == [i \in DOMAIN tx |-> StageOf(i)]
item ==
    [a \in DOMAIN asset |->
        [player |-> asset[a].owner, coll |-> asset[a].coll, mints |-> MintsOf(asset[a].token)]]
gone == {a \in DOMAIN asset : asset[a].state = "burnt"}

Orders == INSTANCE AssetOrders

(* Jobs, batches, receipts and attributions carry every order out once,     *)
(* make it final, have its effect on one asset of its player and mark it    *)
(* done, in this order (TransactionWorker.ts and its services together).    *)
ImplementsAssetOrders == Orders!Spec

=============================================================================
