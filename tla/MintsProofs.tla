----------------------------- MODULE MintsProofs -----------------------------
(***************************************************************************)
(* Theorems about what is sent and when: a job waits for the receipts of   *)
(* the sends it follows, no request is minted twice as long as nothing of  *)
(* a send is lost, and each mint has an asset waiting for its token.       *)
(***************************************************************************)
EXTENDS SubmissionsProofs

-----------------------------------------------------------------------------
(* What a job knows of a send is true of it for good, as long as no block   *)
(* that has a receipt is taken back; and it has asked for all it follows    *)
(* and has its answers before it processes any.                             *)
NoReorgs == "reorg" \notin FaultKinds

Answered(h) == h \in DOMAIN chain /\ chain[h].status \notin {"mempool", "dropped"}
Failed(h) == h \in DOMAIN chain /\ chain[h].status = "reverted"

Asks(w) ==
    \A h \in Hashes :
        /\ verdict[w][h] = "asked" => h \in DOMAIN chain
        /\ verdict[w][h] \in {"shallow", "confirmed", "settled", "rejected"} => Answered(h)
        /\ verdict[w][h] = "rejected" => Failed(h)
        /\ pc[w] \in {"receipts", "process", "transact"} /\ Following(w, h) # {}
              => verdict[w][h] # "none"
        /\ pc[w] \notin {"receipts", "unlock"} => verdict[w][h] \notin {"asked", "absent"}

AsksInv == \A w \in Workers : Asks(w)

LEMMA AnswersKept ==
    ASSUME NoReorgs, TypeInv, [Next]_vars, NEW h
    PROVE  /\ Answered(h) => Answered(h)'
           /\ Failed(h) => Failed(h)'
  <1>1. CASE chain' = chain
    BY <1>1 DEF Answered, Failed
  <1>2. ASSUME NEW w \in Workers, NEW g \in Groups, Send(w, g)
        PROVE  (Answered(h) => Answered(h)') /\ (Failed(h) => Failed(h)')
    BY <1>2, SendAppends DEF SentFor, Answered, Failed
  <1>3. CASE PortalNext
    <2>1. ASSUME NEW k \in DOMAIN chain, NEW s \in Statuses, SetStatus(k, s),
                 s \notin {"mempool", "dropped"} \/ ~Answered(k), ~Failed(k)
          PROVE  (Answered(h) => Answered(h)') /\ (Failed(h) => Failed(h)')
      <3>1. chain \in Seq(Sends) /\ chain[k] \in Sends
        BY DEF TypeInv, TypeOK
      <3>2. /\ DOMAIN chain' = DOMAIN chain /\ chain'[k].status = s
            /\ \A e \in DOMAIN chain : e # k => chain'[e] = chain[e]
        BY <2>1, <3>1 DEF SetStatus, Sends
      <3> QED
        BY <2>1, <3>2 DEF Answered, Failed
    <2>2. PICK k \in DOMAIN chain :
            Mine(k) \/ RevertBurn(k) \/ Revert(k) \/ Confirm(k) \/ Drop(k)
      BY <1>3 DEF PortalNext, Reorg, Fault, NoReorgs
    <2> QED
      BY <2>1, <2>2 DEF Mine, RevertBurn, Revert, Confirm, Drop, Statuses, Answered, Failed
  <1> QED
    BY <1>1, <1>2, <1>3, ChainStep

LEMMA AsksFrame ==
    ASSUME NoReorgs, TypeInv, [Next]_vars, NEW w \in Workers, Asks(w), snap'[w] = snap[w],
           pc'[w] \in {"receipts", "process", "transact"}
              => pc[w] \in {"receipts", "process", "transact"},
           pc'[w] \notin {"receipts", "unlock"} => pc[w] \notin {"receipts", "unlock"},
           \A h \in Hashes : \/ verdict'[w][h] = verdict[w][h]
                             \/ verdict'[w][h] = "settled" /\ Answered(h)
    PROVE  Asks(w)'
  <1>1. \A h : Following(w, h)' = Following(w, h)
    BY DEF Following
  <1>2. \A h \in DOMAIN chain : h \in DOMAIN chain'
    BY SendsKept
  <1> QED
    BY <1>1, <1>2, AnswersKept DEF Asks

LEMMA AsksForgets ==
    ASSUME TypeInv, NEW w \in Workers, Forget(w)
    PROVE  Asks(w)'
  <1>1. /\ pc \in [Workers -> PCs] /\ verdict \in [Workers -> [Hashes -> Verdicts]]
    BY DEF TypeInv, TypeOK
  <1>2. pc'[w] = "idle" /\ \A h \in Hashes : verdict'[w][h] = "none"
    BY <1>1 DEF Forget, Goto
  <1> QED
    BY <1>2 DEF Asks

LEMMA OneAsks ==
    ASSUME NoReorgs, TypeInv, ReceiptsInv, [Next]_vars, NEW w \in Workers, Asks(w),
           Acquire(w) \/ JobStep(w) \/ FaultStep(w)
    PROVE  Asks(w)'
  <1>t. /\ pc \in [Workers -> PCs] /\ verdict \in [Workers -> [Hashes -> Verdicts]]
        /\ snap \in [Workers -> Seq(TxDocs)]
    BY DEF TypeInv, TypeOK
  <1>k. \A h \in DOMAIN chain : h \in DOMAIN chain'
    BY SendsKept
  <1>d. \A h \in Hashes : verdict[w][h] = "confirmed" => Answered(h)
    BY DEF ReceiptsInv, DeepInv, IsDeep, Answered
  <1>1. CASE Acquire(w) \/ StartTransact(w) \/ Throw(w)
    BY <1>1, <1>t, AsksFrame DEF Acquire, StartTransact, Throw, Goto
  <1>2. CASE Fetch(w)
    <2>1. /\ snap'[w] = tx /\ verdict' = verdict /\ pc[w] = "fetch"
          /\ \/ pc'[w] = "block"
             \/ pc'[w] = "transact" /\ \A i \in DOMAIN tx : tx[i].state # "submitting"
      BY <1>2, <1>t DEF Fetch, Goto
    <2>2. pc'[w] = "transact" => \A h : Following(w, h)' = {}
      BY <2>1 DEF Following
    <2> QED
      BY <1>k, <2>1, <2>2, AnswersKept DEF Asks
  <1>3. CASE ReadBlockNumber(w)
    <2>1. /\ pc'[w] = "receipts" /\ snap' = snap
          /\ \A h \in Hashes :
                verdict'[w][h] = IF Following(w, h) # {} THEN "asked" ELSE "none"
      BY <1>3, <1>t DEF ReadBlockNumber, Goto
    <2>2. \A h : Following(w, h)' = Following(w, h)
      BY <2>1 DEF Following
    <2>3. \A h \in Hashes : Following(w, h) # {} => h \in DOMAIN chain
      BY DEF Following, ReceiptsInv, HashInv, RecordsSend
    <2> QED
      BY <1>k, <2>1, <2>2, <2>3 DEF Asks
  <1>4. ASSUME NEW h \in Hashes, ReadReceipt(w, h)
        PROVE  Asks(w)'
    <2>1. /\ pc' = pc /\ snap' = snap /\ chain' = chain /\ pc[w] = "receipts"
          /\ verdict[w][h] = "asked" /\ verdict'[w][h] = Judge(w, h)
          /\ \A g \in Hashes : g # h => verdict'[w][g] = verdict[w][g]
      BY <1>4, <1>t DEF ReadReceipt, SetVerdict, OutsideUnchanged, portalVars
    <2>2. h \in DOMAIN chain
      BY <2>1 DEF Asks
    <2>3. /\ Judge(w, h) \in {"absent", "shallow", "confirmed", "rejected"}
          /\ Judge(w, h) # "absent" => Answered(h)
          /\ Judge(w, h) = "rejected" => Failed(h)
      BY <2>2 DEF Judge, Answered, Failed
    <2>4. \A g : Following(w, g)' = Following(w, g)
      BY <2>1 DEF Following
    <2> QED
      BY <2>1, <2>2, <2>3, <2>4 DEF Asks, Answered, Failed
  <1>5. CASE Decide(w)
    <2>1. /\ pc[w] = "receipts" /\ snap' = snap /\ verdict' = verdict /\ chain' = chain
          /\ \A h \in Hashes : verdict[w][h] # "asked"
          /\ \/ pc'[w] = "unlock"
             \/ pc'[w] = "process" /\ \A h \in Hashes : verdict[w][h] # "absent"
      BY <1>5, <1>t DEF Decide, Goto, OutsideUnchanged, portalVars, HasUnconfirmed
    <2>2. \A g : Following(w, g)' = Following(w, g)
      BY <2>1 DEF Following
    <2> QED
      BY <2>1, <2>2 DEF Asks, Answered, Failed
  <1>6. ASSUME NEW h \in Hashes, MarkSubmitted(w, h) \/ MarkFails(w, h)
        PROVE  Asks(w)'
    <2>1. /\ pc' = pc /\ snap' = snap /\ verdict[w][h] = "confirmed"
          /\ verdict' = [verdict EXCEPT ![w][h] = "settled"]
      BY <1>6 DEF MarkSubmitted, MarkFails, Processed, SetVerdict
    <2> QED
      BY <1>t, <1>d, <2>1, AsksFrame
  <1>7. ASSUME NEW h \in Hashes, SaveHash(w, h) \/ SaveFails(w, h)
        PROVE  Asks(w)'
    BY <1>7, AsksFrame DEF SaveHash, SaveFails
  <1>8. ASSUME NEW g \in Groups, Send(w, g) \/ SendRefused(w, g) \/ SendFails(w, g)
        PROVE  Asks(w)'
    BY <1>8, AsksFrame DEF Send, SendRefused, SendFails, GiveUp
  <1>9. ASSUME NEW t \in tasks, TaskStep(t) \/ AttributionFails(t)
        PROVE  Asks(w)'
    <2>1. /\ pc' = pc /\ snap' = snap
          /\ verdict' = verdict \/ SetVerdict(t.worker, t.hash, "settled")
      BY <1>9 DEF TaskStep, FindToken, SetTokenId, SetBurnt, AttributionFails, TaskOutside,
         Reject
    <2>2. Answered(t.hash)
      BY DEF ReceiptsInv, TokensInv, IsDeep, Answered
    <2>3. \A h \in Hashes : \/ verdict'[w][h] = verdict[w][h]
                            \/ verdict'[w][h] = "settled" /\ Answered(h)
      BY <1>t, <2>1, <2>2 DEF SetVerdict
    <2> QED
      BY <2>1, <2>3, AsksFrame
  <1>10. CASE Unlock(w) \/ Crash(w)
    BY <1>10, AsksForgets DEF Unlock, Crash
  <1> QED
    BY <1>1, <1>2, <1>3, <1>4, <1>5, <1>6, <1>7, <1>8, <1>9, <1>10 DEF JobStep, FaultStep

LEMMA AsksStep ==
    ASSUME NoReorgs, TypeInv, ReceiptsInv, AsksInv, [Next]_vars
    PROVE  AsksInv'
  <1> USE DEF AsksInv
  <1>1. ASSUME NEW w \in Workers, Acquire(w) \/ JobStep(w) \/ FaultStep(w)
        PROVE  AsksInv'
    BY <1>1, OneAsks, LocalStep, AsksFrame
  <1>2. CASE UNCHANGED <<pc, snap, verdict>>
    BY <1>2, AsksFrame
  <1> QED
    BY <1>1, <1>2 DEF Next, vars, workerVars, LockExpires

LEMMA AsksInvariance == NoReorgs => (Spec => []AsksInv)
  <1> SUFFICES ASSUME NoReorgs PROVE Spec => []AsksInv
    OBVIOUS
  <1>1. Init => AsksInv
    BY DEF Init, WorkerInit, AsksInv, Asks
  <1>2. TypeInv /\ ReceiptsInv /\ AsksInv /\ [Next]_vars => AsksInv'
    BY AsksStep
  <1> QED
    BY <1>1, <1>2, TypeInvariance, ReceiptsInvariance, PTL DEF Spec

LEMMA SendsAnswered ==
    ASSUME TypeInv, ReceiptsInv, AsksInv, [Next]_vars, NEW w \in Workers,
           NEW h \in unsaved'[w] \ unsaved[w], NEW i \in DOMAIN snap[w],
           snap[w][i].state = "submitting"
    PROVE  chain[snap[w][i].hash].status \notin {"mempool", "dropped"}
  <1>1. \E g \in Groups : Send(w, g)
    BY AnyLocals DEF LocalsStep, UnsavedStep
  <1>2. pc[w] = "transact"
    BY <1>1 DEF Send
  <1>3. i \in Following(w, snap[w][i].hash)
    BY DEF Following
  <1>4. snap[w][i].hash \in Hashes
    <2>1. snap[w][i].hash \in DOMAIN chain
      BY DEF ReceiptsInv, HashInv, RecordsSend
    <2>2. DOMAIN chain = 1 .. Len(chain) /\ Len(chain) \in Nat /\ Len(chain) <= MaxSends
      BY DEF TypeInv, TypeOK
    <2> QED
      BY <2>1, <2>2, BoundsAssumption DEF Hashes
  <1>5. verdict[w][snap[w][i].hash] \in {"shallow", "confirmed", "settled", "rejected"}
    <2>1. verdict[w][snap[w][i].hash] \in Verdicts
      BY <1>4 DEF TypeInv, TypeOK
    <2> QED
      BY <1>2, <1>3, <1>4, <2>1 DEF AsksInv, Asks, Verdicts
  <1> QED
    BY <1>4, <1>5 DEF AsksInv, Asks, Answered

(* A job sends only when each send it follows has its receipt (applySync    *)
(* returns early on hasUnconfirmed), for any number of workers and even     *)
(* when the lock does not keep them apart, as long as no block with a       *)
(* receipt is taken back.                                                   *)
THEOREM SendsWait == NoReorgs => (Spec => WaitsForReceipts)
  <1> SUFFICES ASSUME NoReorgs PROVE Spec => WaitsForReceipts
    OBVIOUS
  <1>1. TypeInv /\ ReceiptsInv /\ AsksInv /\ [Next]_vars =>
          [\A w \in Workers : \A h \in unsaved'[w] \ unsaved[w] :
              \A i \in DOMAIN snap[w] : snap[w][i].state = "submitting" =>
                  chain[snap[w][i].hash].status \notin {"mempool", "dropped"}]_vars
    BY SendsAnswered
  <1> QED
    BY <1>1, TypeInvariance, ReceiptsInvariance, AsksInvariance, PTL DEF Spec, WaitsForReceipts

-----------------------------------------------------------------------------
(* No request is minted twice, as long as nothing of a send is lost: a send *)
(* that has not failed is recorded by each of its Transactions, or the job  *)
(* that made it is about to record it.                                      *)
NothingIsLost == TTLHolds /\ NoReorgs /\ FaultKinds \cap {"save", "crash"} = {}

LiveInv ==
    \A h \in DOMAIN chain : \A i \in chain[h].reqs :
        Failed(h) \/ tx[i].hash = h \/ \E w \in Workers : h \in unsaved[w]

(* What a job sends again failed before.                                    *)
LEMMA ResentFailed ==
    ASSUME Known, AsksInv, NEW w \in Workers, NEW i \in ToTransact(w), Untouched(w, i),
           InJob(w), tx[i].hash # NoHash
    PROVE  Failed(tx[i].hash)
  <1>1. i \notin Pending(w)
    BY DEF Pending, Untouched, Known, RecordInv, SnapInv
  <1>2. PICK h \in Hashes : verdict[w][h] = "rejected" /\ i \in Following(w, h)
    BY <1>1 DEF ToTransact, Rejected
  <1> QED
    BY <1>2 DEF Following, Untouched, AsksInv, Asks

LEMMA UnsavedStays ==
    ASSUME NothingIsLost, Known, [Next]_vars, NEW w \in Workers, NEW h \in unsaved[w]
    PROVE  h \in unsaved'[w] \/ SaveHash(w, h)
  <1>t. /\ unsaved \in [Workers -> SUBSET Hashes] /\ JobInv(w) /\ unsaved[w] # {}
    BY KnownFacts DEF TypeInv, TypeOK, Known, FinalInv
  <1>1. ASSUME NEW v \in Workers, v # w, Acquire(v) \/ JobStep(v) \/ FaultStep(v)
        PROVE  h \in unsaved'[w]
    BY <1>1, LocalStep, KnownFacts
  <1>2. ASSUME Acquire(w) \/ JobStep(w) \/ FaultStep(w)
        PROVE  h \in unsaved'[w] \/ SaveHash(w, h)
    <2>1. pc[w] = "transact"
      BY <1>t, NothingUnsaved
    <2>2. ~Crash(w) /\ \A g \in Hashes : ~SaveFails(w, g)
      BY DEF NothingIsLost, Crash, SaveFails, Fault
    <2>3. ~Unlock(w)
      BY <1>t, <2>1 DEF Unlock
    <2>4. ASSUME NEW g \in Hashes, SaveHash(w, g)
          PROVE  h \in unsaved'[w] \/ SaveHash(w, h)
      BY <1>t, <2>4 DEF SaveHash
    <2>5. ASSUME NEW g \in Groups, Send(w, g)
          PROVE  h \in unsaved'[w]
      BY <1>t, <2>5 DEF Send
    <2>6. ASSUME unsaved' # unsaved
          PROVE  \/ \E g \in Hashes : SaveHash(w, g)
                 \/ \E g \in Groups : Send(w, g)
      BY <1>2, <2>2, <2>3, <2>6 DEF JobStep, FaultStep, Acquire, Fetch, ReadBlockNumber, Decide,
         StartTransact, ReadReceipt, MarkSubmitted, SendRefused, GiveUp, TaskStep, FindToken,
         SetTokenId, SetBurnt, TaskOutside, Throw, MarkFails, SendFails, AttributionFails
    <2> QED
      BY <2>4, <2>5, <2>6
  <1>3. CASE unsaved' = unsaved
    BY <1>3
  <1> QED
    BY <1>1, <1>2, <1>3 DEF Next, vars, workerVars, LockExpires

LEMMA LiveStep ==
    ASSUME NothingIsLost, Known, AsksInv, LiveInv, [Next]_vars
    PROVE  LiveInv'
  <1> SUFFICES ASSUME NEW h \in DOMAIN chain', NEW i \in chain'[h].reqs
               PROVE  Failed(h)' \/ tx'[i].hash = h \/ \E w \in Workers : h \in unsaved'[w]
    BY DEF LiveInv
  <1>1. CASE h \notin DOMAIN chain
    <2>1. PICK w \in Workers, g \in Groups : Send(w, g)
      <3>1. PortalNext => DOMAIN chain' = DOMAIN chain
        BY KnownFacts DEF PortalNext, Mine, RevertBurn, Revert, Confirm, Reorg, Drop, SetStatus
      <3> QED
        BY <1>1, <3>1, ChainStep, KnownFacts
    <2>2. h = Len(chain) + 1
      BY <1>1, <2>1, SendAppends, KnownFacts DEF SentFor
    <2>3. unsaved \in [Workers -> SUBSET Hashes]
      BY KnownFacts DEF TypeInv, TypeOK
    <2> QED
      BY <2>1, <2>2, <2>3 DEF Send
  <1>2. CASE h \in DOMAIN chain
    <2>0. i \in chain[h].reqs /\ i \in DOMAIN tx /\ h # NoHash
      BY <1>2, SendsKept, KnownFacts DEF SendsInv
    <2>1. CASE Failed(h)
      BY <2>1, AnswersKept, KnownFacts DEF NothingIsLost
    <2>2. CASE tx[i].hash = h
      <3>1. CASE tx'[i].hash = h
        BY <3>1
      <3>2. CASE tx'[i].hash # h
        <4>1. PICK w \in Workers, k \in Hashes : Saves(w, k, i)
          BY <2>0, <2>2, <3>2, TxStep, KnownFacts DEF Marks
        <4>2. Unrecorded(w, k) /\ pc[w] = "transact" /\ i \in ToTransact(w)
          BY <4>1 DEF Saves, Known, FinalInv, JobInv, RecordInv, SnapInv, InJob
        <4>3. Untouched(w, i)
          BY <4>1, <4>2 DEF Saves, Unrecorded
        <4>4. Failed(h)
          BY <2>0, <2>2, <4>2, <4>3, ResentFailed DEF InJob
        <4> QED
          BY <4>4, AnswersKept, KnownFacts DEF NothingIsLost
      <3> QED
        BY <3>1, <3>2
    <2>3. ASSUME NEW w \in Workers, h \in unsaved[w]
          PROVE  tx'[i].hash = h \/ h \in unsaved'[w]
      <3>1. ASSUME SaveHash(w, h)
            PROVE  tx'[i].hash = h
        <4>1. tx[i] \in TxDocs
          BY <2>0, KnownFacts DEF TypeInv, TypeOK
        <4>2. tx'[i] = [tx[i] EXCEPT !.state = "submitting", !.hash = h]
          BY <2>0, <3>1 DEF SaveHash, ToUpdate
        <4> QED
          BY <4>1, <4>2 DEF TxDocs
      <3> QED
        BY <2>3, <3>1, UnsavedStays
    <2> QED
      BY <1>2, <2>0, <2>1, <2>2, <2>3 DEF LiveInv
  <1> QED
    BY <1>1, <1>2

LEMMA LiveInvariance == NothingIsLost => (Spec => []LiveInv)
  <1> SUFFICES ASSUME NothingIsLost PROVE Spec => []LiveInv
    OBVIOUS
  <1>1. Init => LiveInv
    BY DEF Init, PortalInit, LiveInv
  <1>2. Known /\ AsksInv /\ LiveInv /\ [Next]_vars => LiveInv'
    BY LiveStep
  <1>3. Spec => []Known /\ []AsksInv
    BY RecordInvariance, AsksInvariance DEF NothingIsLost
  <1> QED
    BY <1>1, <1>2, <1>3, PTL DEF Spec

(* No request is in two sends that have not failed.                         *)
LEMMA OneSend ==
    ASSUME Known, AsksInv, LiveInv, NEW g \in DOMAIN chain, NEW h \in DOMAIN chain,
           ~Failed(g), ~Failed(h), NEW i \in chain[g].reqs \cap chain[h].reqs
    PROVE  g = h
  <1> SUFFICES ASSUME g # h PROVE FALSE
    OBVIOUS
  <1>1. ASSUME NEW w \in Workers, NEW k \in unsaved[w], i \in chain[k].reqs
        PROVE  i \in ToTransact(w) /\ Untouched(w, i) /\ Unrecorded(w, k) /\ InJob(w)
    <2>1. pc[w] = "transact" /\ i \in ToTransact(w)
      BY <1>1 DEF Known, FinalInv, JobInv
    <2>2. Unrecorded(w, k)
      BY <1>1, <2>1 DEF Known, RecordInv, SnapInv, InJob
    <2> QED
      BY <1>1, <2>1, <2>2 DEF Unrecorded, InJob
  <1>2. ASSUME NEW k \in DOMAIN chain, ~Failed(k), tx[i].hash = k,
               NEW w \in Workers, NEW e \in unsaved[w], i \in chain[e].reqs
        PROVE  FALSE
    BY <1>1, <1>2, ResentFailed, KnownFacts
  <1>3. ASSUME NEW v \in Workers, NEW w \in Workers, g \in unsaved[v], h \in unsaved[w]
        PROVE  FALSE
    <2>1. pc[v] # "idle" /\ pc[w] # "idle" /\ Unrecorded(w, h)
      BY <1>1, <1>3 DEF InJob
    <2>2. v = w
      BY <2>1 DEF Known, FinalInv, LockInv
    <2> QED
      BY <1>3, <2>1, <2>2 DEF Unrecorded
  <1> QED
    BY <1>2, <1>3 DEF LiveInv

(* No request is minted twice, for any number of workers and whatever calls *)
(* fail or revert, as long as no send is forgotten: no expiry of the lock   *)
(* under a job, no reorganisation, no crash and no lost save of a hash.     *)
THEOREM NoRequestMintedTwice == NothingIsLost => (Spec => []MintedOnce)
  <1>1. Known /\ AsksInv /\ LiveInv => MintedOnce
    <2> SUFFICES ASSUME Known, AsksInv, LiveInv, NEW g \in Executed, NEW h \in Executed, g # h,
                        NEW i \in chain[g].reqs \cap chain[h].reqs
                 PROVE  FALSE
      BY DEF MintedOnce
    <2>1. g \in DOMAIN chain /\ h \in DOMAIN chain /\ ~Failed(g) /\ ~Failed(h)
      BY DEF Executed, Failed
    <2> QED
      BY <2>1, OneSend
  <1>2. ASSUME NothingIsLost
        PROVE  Spec => []Known /\ []AsksInv /\ []LiveInv
    BY <1>2, RecordInvariance, AsksInvariance, LiveInvariance DEF NothingIsLost
  <1>3. NothingIsLost => (Spec => []Known /\ []AsksInv /\ []LiveInv)
    BY <1>2
  <1> QED
    BY <1>1, <1>3, PTL

-----------------------------------------------------------------------------
(* Each mint that has not got its token has an asset waiting for it.  The   *)
(* count below only holds if a mint that got its token never loses it: a    *)
(* job sends again only what a failed send carried, and a failed send has   *)
(* given no token, nor will it; and an attribution is of the send that its  *)
(* Transaction records.                                                     *)
KeptWhileMinting == "minting" \notin ReassignStates

Unused(h) ==
    /\ \A a \in DOMAIN asset : asset[a].token # NoToken => asset[a].token[1] # h
    /\ \A t \in tasks : t.hash # h

RejectedUnused(w) ==
    \A h \in Hashes : verdict[w][h] = "rejected" => pc[w] # "idle" /\ Unused(h)
RecordedByTask(t) == tx[t.req].hash = t.hash
AttributionsInv ==
    /\ \A w \in Workers : RejectedUnused(w)
    /\ \A t \in tasks : RecordedByTask(t)

LEMMA NewRejected ==
    ASSUME TypeInv, [Next]_vars, NEW w \in Workers, NEW h \in Hashes, verdict'[w][h] = "rejected"
    PROVE  \/ ReadReceipt(w, h)
           \/ verdict[w][h] = "rejected" /\ (pc[w] # "idle" => pc'[w] # "idle")
  <1> DEFINE Goal == \/ ReadReceipt(w, h)
                     \/ verdict[w][h] = "rejected" /\ (pc[w] # "idle" => pc'[w] # "idle")
  <1>t. /\ pc \in [Workers -> PCs] /\ verdict \in [Workers -> [Hashes -> Verdicts]]
    BY DEF TypeInv, TypeOK
  <1>1. ASSUME NEW v \in Workers, v # w, Acquire(v) \/ JobStep(v) \/ FaultStep(v)
        PROVE  Goal
    BY <1>1, LocalStep
  <1>2. ASSUME Acquire(w) \/ JobStep(w) \/ FaultStep(w)
        PROVE  Goal
    <2>1. CASE Acquire(w) \/ Fetch(w) \/ StartTransact(w) \/ Decide(w) \/ Throw(w)
      BY <1>t, <2>1 DEF Acquire, Fetch, StartTransact, Decide, Throw, Goto
    <2>2. CASE ReadBlockNumber(w)
      BY <1>t, <2>2 DEF ReadBlockNumber
    <2>3. ASSUME NEW g \in Hashes, ReadReceipt(w, g)
          PROVE  Goal
      BY <1>t, <2>3 DEF ReadReceipt, SetVerdict
    <2>4. ASSUME NEW g \in Hashes, MarkSubmitted(w, g) \/ MarkFails(w, g)
          PROVE  Goal
      BY <1>t, <2>4 DEF MarkSubmitted, MarkFails, SetVerdict
    <2>5. ASSUME NEW g \in Hashes, SaveHash(w, g) \/ SaveFails(w, g)
          PROVE  Goal
      BY <2>5 DEF SaveHash, SaveFails
    <2>6. ASSUME NEW g \in Groups, Send(w, g) \/ SendRefused(w, g) \/ SendFails(w, g)
          PROVE  Goal
      BY <2>6 DEF Send, SendRefused, SendFails, GiveUp
    <2>7. ASSUME NEW t \in tasks, TaskStep(t) \/ AttributionFails(t)
          PROVE  Goal
      <3>1. pc' = pc
        BY <2>7 DEF TaskStep, FindToken, SetTokenId, SetBurnt, AttributionFails, TaskOutside
      <3>2. verdict' = verdict \/ SetVerdict(t.worker, t.hash, "settled")
        BY <2>7 DEF TaskStep, FindToken, SetTokenId, SetBurnt, AttributionFails, Reject
      <3> QED
        BY <1>t, <3>1, <3>2 DEF SetVerdict
    <2>8. ~Unlock(w) /\ ~Crash(w)
      BY <1>t DEF Unlock, Crash, Forget
    <2> QED
      BY <1>2, <2>1, <2>2, <2>3, <2>4, <2>5, <2>6, <2>7, <2>8 DEF JobStep, FaultStep
  <1>3. CASE UNCHANGED <<pc, verdict>>
    BY <1>3
  <1> QED
    BY <1>1, <1>2, <1>3 DEF Next, vars, workerVars, LockExpires

LEMMA UnusedKept ==
    ASSUME Known, [Next]_vars, NEW w \in Workers, NEW h \in Hashes, verdict[w][h] = "rejected",
           pc[w] # "idle", Unused(h)
    PROVE  Unused(h)'
  <1>1. ASSUME NEW a \in DOMAIN asset', asset'[a].token # NoToken
        PROVE  asset'[a].token[1] # h
    <2>1. ASSUME NEW t \in tasks, NEW b \in DOMAIN asset, Given(t, b)
          PROVE  asset'[a].token[1] # h
      <3>1. t.token[1] = t.hash
        BY <2>1 DEF Given, Known, ReceiptsInv, TokensInv, MintsToken
      <3>2. t.hash # h
        BY DEF Unused
      <3> QED
        BY <1>1, <2>1, <3>1, <3>2 DEF Given, Unused
    <2>2. CASE asset' = asset \/ Created \/ Reassigned \/ \E b \in DOMAIN asset : AsksToBurn(b)
      BY <1>1, <2>2 DEF Created, Reassigned, AsksToBurn, Keeps, Unused
    <2>3. ASSUME NEW t \in tasks, SetsBurnt(t)
          PROVE  asset'[a].token[1] # h
      BY <1>1, <2>3 DEF SetsBurnt, Keeps, Unused
    <2> QED
      BY <2>1, <2>2, <2>3, AssetStep, KnownFacts
  <1>2. ASSUME NEW s \in tasks'
        PROVE  s.hash # h
    <2>1. ASSUME NEW v \in Workers, Decide(v), s \in Attributions(v)
          PROVE  s.hash # h
      <3>1. v = w
        BY <2>1 DEF Decide, Known, FinalInv, LockInv
      <3>2. verdict[v][s.hash] = "confirmed"
        BY <2>1 DEF Attributions
      <3> QED
        BY <3>1, <3>2
    <2> QED
      BY <2>1, TaskSets, KnownFacts DEF Unused, Same
  <1> QED
    BY <1>1, <1>2 DEF Unused

LEMMA RejectedStep ==
    ASSUME Known, PlayersHoldFinalTokens, NEW w \in Workers, RejectedUnused(w), [Next]_vars
    PROVE  RejectedUnused(w)'
  <1> SUFFICES ASSUME NEW h \in Hashes, verdict'[w][h] = "rejected"
               PROVE  pc'[w] # "idle" /\ Unused(h)'
    BY DEF RejectedUnused
  <1>1. CASE ReadReceipt(w, h)
    <2>1. /\ pc'[w] # "idle" /\ asset' = asset /\ tasks' = tasks
          /\ verdict'[w][h] = Judge(w, h)
      <3>1. verdict \in [Workers -> [Hashes -> Verdicts]]
        BY KnownFacts DEF TypeInv, TypeOK
      <3> QED
        BY <1>1, <3>1 DEF ReadReceipt, SetVerdict, OutsideUnchanged, requestVars
    <2>2. ~IsDeep(h)
      BY <2>1 DEF Judge, IsDeep
    <2>3. Unused(h)
      BY <2>2 DEF Unused, PlayersHoldFinalTokens, IsDeep, Known, ReceiptsInv, TokensInv
    <2> QED
      BY <2>1, <2>3 DEF Unused
  <1>2. CASE verdict[w][h] = "rejected" /\ (pc[w] # "idle" => pc'[w] # "idle")
    BY <1>2, UnusedKept DEF RejectedUnused
  <1> QED
    BY <1>1, <1>2, NewRejected, KnownFacts

(* What a save writes over was sent in vain.                                *)
LEMMA SavedUnused ==
    ASSUME Known, AttributionsInv, NEW w \in Workers, NEW h \in Hashes, NEW i, Saves(w, h, i),
           tx[i].hash # NoHash
    PROVE  Unused(tx[i].hash)
  <1>1. Unrecorded(w, h) /\ pc[w] = "transact" /\ i \in ToTransact(w)
    BY DEF Saves, Known, FinalInv, JobInv, RecordInv, SnapInv, InJob
  <1>2. Untouched(w, i)
    BY <1>1 DEF Saves, Unrecorded
  <1>3. i \notin Pending(w)
    BY <1>1, <1>2 DEF Pending, Untouched, Known, RecordInv, SnapInv, InJob
  <1>4. PICK k \in Hashes : verdict[w][k] = "rejected" /\ i \in Following(w, k)
    BY <1>1, <1>3 DEF ToTransact, Rejected
  <1> QED
    BY <1>2, <1>4 DEF Following, Untouched, AttributionsInv, RejectedUnused

LEMMA RecordedStep ==
    ASSUME Known, AttributionsInv, [Next]_vars, NEW s \in tasks'
    PROVE  RecordedByTask(s)'
  <1>1. ASSUME NEW t \in tasks, s = t \/ Same(s, t)
        PROVE  RecordedByTask(s)'
    <2>1. /\ t.req \in DOMAIN tx /\ tx[t.req].hash = t.hash /\ t.hash # NoHash
          /\ s.req = t.req /\ s.hash = t.hash
      BY <1>1, KnownFacts DEF AttributionsInv, RecordedByTask, Known, ReceiptsInv, TokensInv,
         IsDeep, SendsInv, Same
    <2>2. ASSUME NEW w \in Workers, NEW h \in Hashes, Saves(w, h, t.req)
          PROVE  FALSE
      BY <2>1, <2>2, SavedUnused DEF Unused
    <2>3. tx'[t.req].hash = tx[t.req].hash
      BY <2>1, <2>2, TxStep, KnownFacts DEF Marks
    <2> QED
      BY <2>1, <2>3 DEF RecordedByTask
  <1>2. ASSUME NEW w \in Workers, Decide(w), s \in Attributions(w)
        PROVE  RecordedByTask(s)'
    <2>1. s.hash \in Hashes /\ verdict[w][s.hash] = "confirmed" /\ s.req \in Following(w, s.hash)
      BY <1>2 DEF Attributions
    <2>2. InJob(w) /\ pc[w] # "transact" /\ tx' = tx
      BY <1>2 DEF Decide, InJob, OutsideUnchanged, requestVars
    <2>3. Untouched(w, s.req)
      BY <2>1, <2>2, FollowedUntouched DEF Known, RecordInv
    <2>4. tx[s.req].hash = s.hash
      BY <2>1, <2>2, <2>3, AllFollowed
    <2> QED
      BY <2>2, <2>4 DEF RecordedByTask
  <1> QED
    BY <1>1, <1>2, TaskSets, KnownFacts

LEMMA AttributionsInvariance == TTLHolds => (Spec => []AttributionsInv)
  <1> SUFFICES ASSUME TTLHolds PROVE Spec => []AttributionsInv
    OBVIOUS
  <1>1. Init => AttributionsInv
    BY DEF Init, WorkerInit, AttributionsInv, RejectedUnused
  <1>2. Known /\ PlayersHoldFinalTokens /\ AttributionsInv /\ [Next]_vars => AttributionsInv'
    BY RejectedStep, RecordedStep DEF AttributionsInv
  <1> QED
    BY <1>1, <1>2, RecordInvariance, TokensAreFinal, PTL DEF Spec

(* The two sides of the count.                                              *)
Unattributed(c, u) ==
    {i \in DOMAIN tx : /\ tx[i].type = "MintAsset"
                       /\ tx[i].coll = c /\ tx[i].owner = u
                       /\ ~Attributed(i)}
Storing(c, u) == {r \in creating : asset[r.asset].coll = c /\ r.owner = u}
Provided(c, u) ==
    Cardinality(Unattributed(c, u)) + Cardinality(Storing(c, u)) <= Cardinality(Matching(c, u))

LEMMA ProvidedForAll ==
    EveryMintHasAnAsset <=> \A c \in Collections, u \in Users : Provided(c, u)
  BY DEF EveryMintHasAnAsset, Provided, Unattributed, Storing, Matching

(* How the count changes.                                                   *)
LEMMA FewerWait ==
    ASSUME NEW U, NEW C, NEW T, NEW V, NEW D,
           IsFiniteSet(U), IsFiniteSet(C), IsFiniteSet(T),
           Cardinality(U) + Cardinality(C) <= Cardinality(T), V \subseteq U, D \subseteq C
    PROVE  Cardinality(V) + Cardinality(D) <= Cardinality(T)
  <1>1. /\ IsFiniteSet(V) /\ Cardinality(V) <= Cardinality(U)
        /\ IsFiniteSet(D) /\ Cardinality(D) <= Cardinality(C)
    BY FS_Subset
  <1>2. /\ Cardinality(V) \in Nat /\ Cardinality(D) \in Nat /\ Cardinality(U) \in Nat
        /\ Cardinality(C) \in Nat /\ Cardinality(T) \in Nat
    BY <1>1, FS_CardinalityType
  <1> QED
    BY <1>1, <1>2

LEMMA OneMoreAsset ==
    ASSUME NEW U, NEW C, NEW T, NEW V, NEW r, NEW a,
           IsFiniteSet(U), IsFiniteSet(C), IsFiniteSet(T),
           Cardinality(U) + Cardinality(C) <= Cardinality(T), V \subseteq U, a \notin T
    PROVE  Cardinality(V) + Cardinality(C \cup {r}) <= Cardinality(T \cup {a})
  <1>1. Cardinality(V) + Cardinality(C) <= Cardinality(T)
    BY FewerWait
  <1>2. IsFiniteSet(V)
    BY FS_Subset
  <1>3. /\ Cardinality(V) \in Nat /\ Cardinality(C) \in Nat /\ Cardinality(T) \in Nat
    BY <1>2, FS_CardinalityType
  <1>4. Cardinality(T \cup {a}) = Cardinality(T) + 1
    BY FS_AddElement
  <1>5. IsFiniteSet(C \cup {r}) /\ Cardinality(C \cup {r}) <= Cardinality(C) + 1
    BY <1>3, AddedOne
  <1>6. Cardinality(C \cup {r}) \in Nat
    BY <1>5, FS_CardinalityType
  <1> QED
    BY <1>1, <1>3, <1>4, <1>5, <1>6

LEMMA OneMoreMint ==
    ASSUME NEW U, NEW C, NEW T, NEW V, NEW i, NEW r \in C,
           IsFiniteSet(U), IsFiniteSet(C), IsFiniteSet(T),
           Cardinality(U) + Cardinality(C) <= Cardinality(T), V \subseteq U \cup {i}
    PROVE  Cardinality(V) + Cardinality(C \ {r}) <= Cardinality(T)
  <1>1. /\ Cardinality(U) \in Nat /\ Cardinality(C) \in Nat /\ Cardinality(T) \in Nat
    BY FS_CardinalityType
  <1>2. IsFiniteSet(U \cup {i}) /\ Cardinality(U \cup {i}) <= Cardinality(U) + 1
    BY <1>1, AddedOne
  <1>3. IsFiniteSet(V) /\ Cardinality(V) <= Cardinality(U \cup {i})
    BY <1>2, FS_Subset
  <1>4. Cardinality(C \ {r}) = Cardinality(C) - 1
    BY FS_RemoveElement
  <1>5. Cardinality(V) \in Nat /\ Cardinality(U \cup {i}) \in Nat
    BY <1>2, <1>3, FS_CardinalityType
  <1> QED
    BY <1>1, <1>2, <1>3, <1>4, <1>5

LEMMA OneTokenGiven ==
    ASSUME NEW U, NEW C, NEW T, NEW V, NEW i \in U, NEW a \in T,
           IsFiniteSet(U), IsFiniteSet(C), IsFiniteSet(T),
           Cardinality(U) + Cardinality(C) <= Cardinality(T), V \subseteq U \ {i}
    PROVE  Cardinality(V) + Cardinality(C) <= Cardinality(T \ {a})
  <1>1. /\ Cardinality(U) \in Nat /\ Cardinality(C) \in Nat /\ Cardinality(T) \in Nat
    BY FS_CardinalityType
  <1>2. /\ IsFiniteSet(U \ {i}) /\ Cardinality(U \ {i}) = Cardinality(U) - 1
        /\ Cardinality(T \ {a}) = Cardinality(T) - 1
    BY FS_RemoveElement
  <1>3. IsFiniteSet(V) /\ Cardinality(V) <= Cardinality(U \ {i})
    BY <1>2, FS_Subset
  <1>4. Cardinality(V) \in Nat
    BY <1>3, FS_CardinalityType
  <1> QED
    BY <1>1, <1>2, <1>3, <1>4

LEMMA FiniteSides ==
    ASSUME TypeInv, NEW c, NEW u
    PROVE  /\ IsFiniteSet(Unattributed(c, u)) /\ IsFiniteSet(Storing(c, u))
           /\ IsFiniteSet(Matching(c, u))
  <1>1. /\ DOMAIN asset = 1 .. Len(asset) /\ Len(asset) \in Nat
        /\ DOMAIN tx = 1 .. Len(tx) /\ Len(tx) \in Nat
    BY DEF TypeInv, TypeOK
  <1>2. IsFiniteSet(DOMAIN asset) /\ IsFiniteSet(DOMAIN tx)
    BY <1>1, FS_Interval
  <1>3. IsFiniteSet(creating)
    BY DEF TypeInv
  <1>4. /\ Unattributed(c, u) \subseteq DOMAIN tx /\ Storing(c, u) \subseteq creating
        /\ Matching(c, u) \subseteq DOMAIN asset
    BY DEF Unattributed, Storing, Matching, Tokenless
  <1> QED
    BY <1>2, <1>3, <1>4, FS_Subset

(* What the count rests on.                                                 *)
CountKnown ==
    Known /\ OwnPlaces /\ AttributionsInv /\ Minting /\ PlayersHoldFinalTokens

(* A mint that has got its token keeps it.                                  *)
LEMMA AttributedKept ==
    ASSUME CountKnown, [Next]_vars, NEW i \in DOMAIN tx, Attributed(i)
    PROVE  Attributed(i)'
  <1>t. TypeInv /\ Known /\ AttributionsInv
    BY KnownFacts DEF CountKnown
  <1>1. tx[i].hash # NoHash /\ RecordsSend(i, tx[i].hash)
    BY <1>t, KnownFacts DEF Attributed
  <1>2. PICK a \in Holder(tx[i].coll, TokenOf(i)) : TRUE
    BY DEF Attributed
  <1>3. TokenOf(i) # NoToken /\ TokenOf(i)[1] = tx[i].hash
    BY <1>1 DEF TokenOf, NoToken, NoHash
  <1>4. ~Unused(tx[i].hash)
    BY <1>2, <1>3 DEF Unused, Holder
  <1>5. tx'[i].hash = tx[i].hash /\ SameRequest(tx'[i], tx[i])
    BY <1>t, <1>1, <1>4, SavedUnused, TxStep DEF Marks
  <1>6. TokenOf(i)' = TokenOf(i)
    BY <1>t, <1>1, <1>5, SendsKept DEF TokenOf, Place, RecordsSend
  <1>7. PICK c, k : c = tx[i].coll /\ k = TokenOf(i)
    OBVIOUS
  <1>8. a \in Holder(c, k)'
    BY <1>t, <1>2, <1>3, <1>7, HolderKept
  <1>9. c = tx'[i].coll /\ k = TokenOf(i)'
    BY <1>5, <1>6, <1>7 DEF SameRequest
  <1> QED
    BY <1>1, <1>5, <1>8, <1>9 DEF Attributed

LEMMA WaitKept ==
    ASSUME CountKnown, [Next]_vars, NEW c, NEW u
    PROVE  \A i \in Unattributed(c, u)' : i \in DOMAIN tx => i \in Unattributed(c, u)
  <1>1. \A i \in DOMAIN tx : SameRequest(tx'[i], tx[i])
    BY TxStep, KnownFacts DEF CountKnown
  <1> QED
    BY <1>1, AttributedKept DEF Unattributed, SameRequest

LEMMA SameCount ==
    ASSUME CountKnown, [Next]_vars, NEW c, NEW u, Provided(c, u),
           Unattributed(c, u)' \subseteq Unattributed(c, u),
           Storing(c, u)' \subseteq Storing(c, u), Matching(c, u)' = Matching(c, u)
    PROVE  Provided(c, u)'
  <1>1. TypeInv
    BY KnownFacts DEF CountKnown
  <1>2. PICK V, D : V = Unattributed(c, u)' /\ D = Storing(c, u)'
    OBVIOUS
  <1>3. Cardinality(V) + Cardinality(D) <= Cardinality(Matching(c, u))
    BY <1>1, <1>2, FiniteSides, FewerWait DEF Provided
  <1> QED
    BY <1>2, <1>3 DEF Provided

(* The API: an asset is created before its mint is stored, a mint that is   *)
(* not stored leaves one asset more than needed, and no asset changes hands *)
(* while it is minting.                                                     *)
LEMMA RequestProvides ==
    ASSUME KeptWhileMinting, CountKnown, [Next]_vars, RequestNext, NEW c, NEW u, Provided(c, u)
    PROVE  Provided(c, u)'
  <1>t. /\ TypeInv /\ asset \in Seq(AssetDocs) /\ tx \in Seq(TxDocs)
        /\ DOMAIN asset = 1 .. Len(asset) /\ Len(asset) \in Nat
        /\ \A r \in creating : r.asset \in DOMAIN asset
        /\ \A a \in DOMAIN asset : asset[a] \in AssetDocs
    BY KnownFacts DEF CountKnown, TypeInv, TypeOK
  <1>f. /\ IsFiniteSet(Unattributed(c, u)) /\ IsFiniteSet(Storing(c, u))
        /\ IsFiniteSet(Matching(c, u))
    BY <1>t, FiniteSides
  <1>same. ASSUME tx' = tx
           PROVE  Unattributed(c, u)' \subseteq Unattributed(c, u)
    <2>1. \A i \in Unattributed(c, u)' : i \in DOMAIN tx
      BY <1>same DEF Unattributed
    <2> QED
      BY <2>1, WaitKept
  <1>new. ASSUME NEW doc, Inserted(doc)
          PROVE  /\ DOMAIN tx' = DOMAIN tx \cup {Len(tx) + 1} /\ tx'[Len(tx) + 1] = doc
                 /\ Unattributed(c, u)' \subseteq Unattributed(c, u) \cup {Len(tx) + 1}
                 /\ doc.type # "MintAsset" \/ doc.coll # c \/ doc.owner # u
                      => Unattributed(c, u)' \subseteq Unattributed(c, u)
    <2>1. DOMAIN tx' = DOMAIN tx \cup {Len(tx) + 1} /\ tx'[Len(tx) + 1] = doc
      BY <1>new, <1>t DEF Inserted
    <2>2. \A i \in Unattributed(c, u)' : i \in DOMAIN tx \/ i = Len(tx) + 1
      BY <2>1 DEF Unattributed
    <2>3. Len(tx) + 1 \in Unattributed(c, u)' =>
             doc.type = "MintAsset" /\ doc.coll = c /\ doc.owner = u
      BY <2>1 DEF Unattributed
    <2> QED
      BY <2>1, <2>2, <2>3, WaitKept
  <1>1. ASSUME NEW v \in Users, NEW e \in Collections, CreateAsset(v, e)
        PROVE  Provided(c, u)'
    <2>0. PICK a, r : a = Len(asset) + 1 /\ r = [asset |-> Len(asset) + 1, owner |-> v]
      OBVIOUS
    <2>1. /\ DOMAIN asset' = DOMAIN asset \cup {a} /\ a \notin DOMAIN asset
          /\ \A b \in DOMAIN asset : asset'[b] = asset[b]
          /\ asset'[a].owner = v /\ asset'[a].coll = e /\ asset'[a].token = NoToken
          /\ creating' = creating \cup {r} /\ r.asset = a /\ r.owner = v /\ tx' = tx
      BY <1>1, <1>t, <2>0 DEF CreateAsset
    <2>2. Unattributed(c, u)' \subseteq Unattributed(c, u)
      BY <1>same, <2>1
    <2>3. CASE e = c /\ v = u
      <3>1. Matching(c, u)' = Matching(c, u) \cup {a} /\ a \notin Matching(c, u)
        BY <2>1, <2>3 DEF Matching, Tokenless, OwnedBy
      <3>2. Storing(c, u)' = Storing(c, u) \cup {r}
        BY <1>t, <2>1, <2>3 DEF Storing
      <3>3. PICK V : V = Unattributed(c, u)'
        OBVIOUS
      <3>4. Cardinality(V) + Cardinality(Storing(c, u) \cup {r})
              <= Cardinality(Matching(c, u) \cup {a})
        BY <1>f, <2>2, <3>1, <3>3, OneMoreAsset DEF Provided
      <3> QED
        BY <3>1, <3>2, <3>3, <3>4 DEF Provided
    <2>4. CASE ~(e = c /\ v = u)
      <3>1. Matching(c, u)' = Matching(c, u)
        BY <2>1, <2>4 DEF Matching, Tokenless, OwnedBy
      <3>2. Storing(c, u)' = Storing(c, u)
        BY <1>t, <2>1, <2>4 DEF Storing
      <3> QED
        BY <2>2, <3>1, <3>2, SameCount
    <2> QED
      BY <2>3, <2>4
  <1>2. ASSUME NEW v \in Users, NEW e \in Collections, MintResource(v, e)
        PROVE  Provided(c, u)'
    <2>1. Unattributed(c, u)' \subseteq Unattributed(c, u)
      BY <1>2, <1>new DEF MintResource, NewTx
    <2> QED
      BY <1>2, <2>1, SameCount DEF MintResource, Storing, Matching, Tokenless, OwnedBy
  <1>3. ASSUME NEW r \in creating, CommitMint(r)
        PROVE  Provided(c, u)'
    <2>1. creating' = creating \ {r} /\ asset' = asset
      BY <1>3 DEF CommitMint
    <2>2. Matching(c, u)' = Matching(c, u)
      BY <2>1 DEF Matching, Tokenless, OwnedBy
    <2>3. PICK doc : /\ Inserted(doc) /\ doc.coll = asset[r.asset].coll /\ doc.owner = r.owner
      BY <1>3 DEF CommitMint, NewTx
    <2>4. CASE r \in Storing(c, u)
      <3>1. Storing(c, u)' = Storing(c, u) \ {r}
        BY <2>1 DEF Storing
      <3>2. PICK V : V = Unattributed(c, u)'
        OBVIOUS
      <3>3. V \subseteq Unattributed(c, u) \cup {Len(tx) + 1}
        BY <1>new, <2>3, <3>2
      <3>4. Cardinality(V) + Cardinality(Storing(c, u) \ {r}) <= Cardinality(Matching(c, u))
        BY <1>f, <2>4, <3>3, OneMoreMint DEF Provided
      <3> QED
        BY <2>2, <3>1, <3>2, <3>4 DEF Provided
    <2>5. CASE r \notin Storing(c, u)
      <3>1. Storing(c, u)' \subseteq Storing(c, u)
        BY <2>1 DEF Storing
      <3>2. Unattributed(c, u)' \subseteq Unattributed(c, u)
        BY <1>new, <2>3, <2>5 DEF Storing
      <3> QED
        BY <2>2, <3>1, <3>2, SameCount
    <2> QED
      BY <2>4, <2>5
  <1>4. ASSUME NEW r \in creating, AbortMint(r)
        PROVE  Provided(c, u)'
    BY <1>4, <1>same, SameCount DEF AbortMint, Storing, Matching, Tokenless, OwnedBy
  <1>5. ASSUME NEW a \in DOMAIN asset, BurnAsset(a)
        PROVE  Provided(c, u)'
    <2>1. Unattributed(c, u)' \subseteq Unattributed(c, u)
      BY <1>5, <1>new DEF BurnAsset, NewTx
    <2>2. /\ creating' = creating /\ DOMAIN asset' = DOMAIN asset
          /\ \A b \in DOMAIN asset : /\ asset'[b].coll = asset[b].coll
                                     /\ asset'[b].owner = asset[b].owner
                                     /\ asset'[b].token = asset[b].token
      BY <1>5, <1>t DEF BurnAsset, AssetDocs
    <2>3. Storing(c, u)' = Storing(c, u) /\ Matching(c, u)' = Matching(c, u)
      BY <1>t, <2>2 DEF Storing, Matching, Tokenless, OwnedBy
    <2> QED
      BY <2>1, <2>3, SameCount
  <1>6. ASSUME NEW a \in DOMAIN asset, NEW v \in Users, UpdateAsset(a, v)
        PROVE  Provided(c, u)'
    <2>1. asset[a].token # NoToken
      BY <1>6 DEF UpdateAsset, KeptWhileMinting, CountKnown, Minting
    <2>2. /\ creating' = creating /\ DOMAIN asset' = DOMAIN asset
          /\ \A b \in DOMAIN asset : /\ asset'[b].coll = asset[b].coll
                                     /\ asset'[b].token = asset[b].token
                                     /\ b # a => asset'[b].owner = asset[b].owner
      BY <1>6, <1>t DEF UpdateAsset, AssetDocs
    <2>3. Storing(c, u)' = Storing(c, u) /\ Matching(c, u)' = Matching(c, u)
      BY <1>t, <2>1, <2>2 DEF Storing, Matching, Tokenless, OwnedBy
    <2> QED
      BY <1>6, <1>same, <2>3, SameCount DEF UpdateAsset
  <1> QED
    BY <1>1, <1>2, <1>3, <1>4, <1>5, <1>6 DEF RequestNext

(* An attribution takes one asset from those that wait and one mint from    *)
(* those that have no token.                                                *)
LEMMA AttributionProvides ==
    ASSUME CountKnown, [Next]_vars, NEW t \in tasks, SetTokenId(t), asset' # asset,
           NEW c, NEW u, Provided(c, u)
    PROVE  Provided(c, u)'
  <1>t. /\ TypeInv /\ t.hash \in DOMAIN chain /\ t.req \in chain[t.hash].reqs
        /\ chain[t.hash].call = "mint" /\ t.hash # NoHash
        /\ \A a \in DOMAIN asset : asset[a] \in AssetDocs
    BY KnownFacts DEF CountKnown, TypeInv, TypeOK, SetTokenId, Known, ReceiptsInv, TokensInv,
       IsDeep
  <1>1. /\ t.req \in DOMAIN tx /\ tx[t.req].type = "MintAsset" /\ tx[t.req].hash = t.hash
        /\ TokenOf(t.req) = t.token /\ t.token # NoToken
    BY <1>t, KnownFacts DEF SendsInv, CountKnown, OwnPlaces, AttributionsInv, RecordedByTask,
       TokenOf, NoToken, NoHash
  <1>2. PICK a \in Matching(tx[t.req].coll, tx[t.req].owner) : GiveToken(a, t.token)
    BY DEF SetTokenId
  <1>3. Holder(tx[t.req].coll, t.token) = {}
    BY DEF SetTokenId, Duplicate
  <1>4. /\ a \in DOMAIN asset /\ asset[a].coll = tx[t.req].coll
        /\ asset[a].owner = tx[t.req].owner /\ asset[a].token = NoToken
    BY <1>2 DEF Matching, Tokenless, OwnedBy
  <1>5. /\ DOMAIN asset' = DOMAIN asset /\ asset'[a].token = t.token
        /\ \A b \in DOMAIN asset : /\ asset'[b].coll = asset[b].coll
                                   /\ asset'[b].owner = asset[b].owner
                                   /\ b # a => asset'[b] = asset[b]
    BY <1>t, <1>2, <1>4 DEF GiveToken, AssetDocs
  <1>6. tx' = tx /\ creating' = creating /\ chain' = chain
    BY DEF SetTokenId, TaskOutside, portalVars
  <1>7. Storing(c, u)' = Storing(c, u)
    BY <1>5, <1>6, KnownFacts DEF Storing, CountKnown, TypeInv, TypeOK
  <1>8. Unattributed(c, u)' \subseteq Unattributed(c, u)
    BY <1>6, WaitKept DEF Unattributed
  <1>9. CASE c = tx[t.req].coll /\ u = tx[t.req].owner
    <2>1. Matching(c, u)' = Matching(c, u) \ {a} /\ a \in Matching(c, u)
      BY <1>1, <1>2, <1>5, <1>9 DEF Matching, Tokenless, OwnedBy
    <2>2. t.req \in Unattributed(c, u)
      BY <1>1, <1>3, <1>9 DEF Unattributed, Attributed
    <2>3. t.req \notin Unattributed(c, u)'
      <3>1. a \in Holder(c, t.token)'
        BY <1>4, <1>5, <1>9 DEF Holder
      <3>2. TokenOf(t.req)' = t.token
        BY <1>1, <1>6 DEF TokenOf, Place
      <3> QED
        BY <1>1, <1>6, <1>9, <1>t, <3>1, <3>2 DEF Unattributed, Attributed
    <2>4. PICK V : V = Unattributed(c, u)'
      OBVIOUS
    <2>5. V \subseteq Unattributed(c, u) \ {t.req}
      BY <1>8, <2>3, <2>4
    <2>6. Cardinality(V) + Cardinality(Storing(c, u)) <= Cardinality(Matching(c, u) \ {a})
      BY <1>t, <2>1, <2>2, <2>5, FiniteSides, OneTokenGiven DEF Provided
    <2> QED
      BY <1>7, <2>1, <2>4, <2>6 DEF Provided
  <1>10. CASE ~(c = tx[t.req].coll /\ u = tx[t.req].owner)
    <2>1. Matching(c, u)' = Matching(c, u)
      BY <1>4, <1>5, <1>10 DEF Matching, Tokenless, OwnedBy
    <2> QED
      BY <1>7, <1>8, <2>1, SameCount
  <1> QED
    BY <1>9, <1>10

LEMMA ElseProvides ==
    ASSUME CountKnown, [Next]_vars, DOMAIN tx' = DOMAIN tx, creating' = creating,
           DOMAIN asset' = DOMAIN asset,
           \A a \in DOMAIN asset : /\ asset'[a].coll = asset[a].coll
                                   /\ asset'[a].owner = asset[a].owner
                                   /\ asset'[a].token = asset[a].token,
           NEW c, NEW u, Provided(c, u)
    PROVE  Provided(c, u)'
  <1>1. Matching(c, u)' = Matching(c, u)
    BY DEF Matching, Tokenless, OwnedBy
  <1>2. Storing(c, u)' = Storing(c, u)
    BY KnownFacts DEF Storing, CountKnown, TypeInv, TypeOK
  <1>3. Unattributed(c, u)' \subseteq Unattributed(c, u)
    BY WaitKept DEF Unattributed
  <1> QED
    BY <1>1, <1>2, <1>3, SameCount

LEMMA ProvidedStep ==
    ASSUME KeptWhileMinting, CountKnown, [Next]_vars, NEW c, NEW u, Provided(c, u)
    PROVE  Provided(c, u)'
  <1>d. \A a \in DOMAIN asset : asset[a] \in AssetDocs
    BY KnownFacts DEF CountKnown, TypeInv, TypeOK
  <1>1. ASSUME NEW w \in Workers, Acquire(w) \/ JobStep(w) \/ FaultStep(w)
        PROVE  Provided(c, u)'
    <2>1. DOMAIN tx' = DOMAIN tx /\ creating' = creating
      <3>1. creating' = creating
        BY <1>1 DEF JobStep, FaultStep, Acquire, Fetch, ReadBlockNumber, Decide, StartTransact,
           Unlock, ReadReceipt, MarkSubmitted, SaveHash, Send, SendRefused, GiveUp, TaskStep,
           FindToken, SetTokenId, SetBurnt, TaskOutside, Throw, Crash, MarkFails, SaveFails,
           SendFails, AttributionFails, OutsideUnchanged, requestVars
      <3> QED
        BY <1>1, <3>1, WorkerTx, KnownFacts DEF CountKnown
    <2>2. CASE asset' = asset
      BY <2>1, <2>2, ElseProvides
    <2>3. CASE asset' # asset
      <3>1. PICK t \in tasks : SetTokenId(t) \/ SetBurnt(t)
        BY <1>1, <2>3 DEF JobStep, FaultStep, Acquire, Fetch, ReadBlockNumber, Decide,
           StartTransact, Unlock, ReadReceipt, MarkSubmitted, SaveHash, Send, SendRefused, GiveUp,
           TaskStep, FindToken, Throw, Crash, MarkFails, SaveFails, SendFails, AttributionFails,
           OutsideUnchanged, requestVars
      <3>2. CASE SetTokenId(t)
        BY <2>3, <3>2, AttributionProvides
      <3>3. CASE SetBurnt(t)
        <4>1. /\ DOMAIN asset' = DOMAIN asset
              /\ \A a \in DOMAIN asset :
                    asset'[a] = asset[a] \/ asset'[a] = [asset[a] EXCEPT !.state = "burnt"]
          BY <2>3, <3>3 DEF SetBurnt
        <4>2. \A a \in DOMAIN asset : /\ asset'[a].coll = asset[a].coll
                                      /\ asset'[a].owner = asset[a].owner
                                      /\ asset'[a].token = asset[a].token
          BY <1>d, <4>1 DEF AssetDocs
        <4> QED
          BY <2>1, <4>1, <4>2, ElseProvides
      <3> QED
        BY <3>1, <3>2, <3>3
    <2> QED
      BY <2>2, <2>3
  <1>2. CASE RequestNext
    BY <1>2, RequestProvides
  <1>3. CASE tx' = tx /\ asset' = asset /\ creating' = creating
    BY <1>3, ElseProvides
  <1> QED
    BY <1>1, <1>2, <1>3 DEF Next, vars, requestVars, LockExpires

(* Each mint that has not got its token, and each that is still being       *)
(* stored, has a tokenless asset of its own user (AssetCreator), whatever   *)
(* fails, crashes or is sent again, as long as lockTTL outlives a job and   *)
(* the studio reassigns no asset that is minting.  So setTokenId finds an   *)
(* asset for every token, though nothing links a Transaction to its asset.  *)
THEOREM MintsHaveAssets ==
    TTLHolds /\ KeptWhileMinting => (Spec => []EveryMintHasAnAsset)
  <1> SUFFICES ASSUME TTLHolds, KeptWhileMinting PROVE Spec => []EveryMintHasAnAsset
    OBVIOUS
  <1>1. Init => OwnPlaces /\ Minting /\ EveryMintHasAnAsset
    <2> SUFFICES ASSUME Init PROVE OwnPlaces /\ Minting /\ EveryMintHasAnAsset
      OBVIOUS
    <2>1. OwnPlaces /\ Minting
      BY DEF Init, RequestInit, WorkerInit, OwnPlaces, Minting
    <2>2. \A c \in Collections, u \in Users : Provided(c, u)
      <3> SUFFICES ASSUME NEW c \in Collections, NEW u \in Users PROVE Provided(c, u)
        OBVIOUS
      <3>1. Unattributed(c, u) = {} /\ Storing(c, u) = {} /\ Matching(c, u) = {}
        BY DEF Init, RequestInit, Unattributed, Storing, Matching, Tokenless
      <3> QED
        BY <3>1, FS_EmptySet DEF Provided
    <2> QED
      BY <2>1, <2>2, ProvidedForAll
  <1>2. Known /\ OwnPlaces /\ [Next]_vars => OwnPlaces'
    BY OwnPlacesStep
  <1>3. TypeInv /\ ReceiptsInv /\ Minting /\ [Next]_vars => Minting'
    BY MintingStep
  <1>4. CountKnown /\ EveryMintHasAnAsset /\ [Next]_vars => EveryMintHasAnAsset'
    <2> SUFFICES ASSUME CountKnown, EveryMintHasAnAsset, [Next]_vars
                 PROVE  EveryMintHasAnAsset'
      OBVIOUS
    <2>1. \A c \in Collections, u \in Users : Provided(c, u)'
      BY ProvidedStep, ProvidedForAll
    <2> QED
      BY <2>1 DEF EveryMintHasAnAsset, Provided, Unattributed, Storing, Matching
  <1>5. Spec => []Known /\ []AttributionsInv
    BY RecordInvariance, AttributionsInvariance
  <1> QED
    BY <1>1, <1>2, <1>3, <1>4, <1>5, TypeInvariance, ReceiptsInvariance, TokensAreFinal, PTL
       DEF Spec, CountKnown

-----------------------------------------------------------------------------
(* The orders of the studio.  Each step of the chain, the API and the       *)
(* workers is one step of AssetOrders or leaves the orders as they are.     *)
(* What an asset holds is the token of a mint (TokensHaveMints), which the  *)
(* mapping of an asset to its mint rests on.                                *)

LEMMA PlaceOnce ==
    ASSUME NEW ids \in SUBSET TxIds, NEW i \in ids, NEW j \in ids, Place(ids, i) = Place(ids, j)
    PROVE  i = j
  <1>1. ASSUME NEW k \in ids, NEW l \in ids, k < l, Place(ids, k) = Place(ids, l)
        PROVE  FALSE
    <2> DEFINE K == {m \in ids : m <= k}
               L == {m \in ids : m <= l}
    <2>1. MaxTxs \in Nat /\ TxIds = 1 .. MaxTxs
      BY BoundsAssumption DEF TxIds
    <2>2. IsFiniteSet(L)
      <3>1. IsFiniteSet(TxIds)
        BY <2>1, FS_Interval
      <3> QED
        BY <3>1, FS_Subset
    <2>3. K \subseteq L /\ l \in L /\ l \notin K
      <3>1. \A m \in ids : m \in Int
        BY <2>1
      <3> QED
        BY <1>1, <3>1
    <2>4. Cardinality(K) = Cardinality(L)
      BY <1>1 DEF Place
    <2> HIDE DEF K, L
    <2> QED
      BY <2>2, <2>3, <2>4, FS_Subset
  <1>2. i \in Int /\ j \in Int
    BY BoundsAssumption DEF TxIds
  <1> QED
    BY <1>1, <1>2

LEMMA AppendedFunction ==
    ASSUME NEW n \in Nat, NEW f, f = [i \in 1 .. n |-> f[i]],
           NEW g, g = [i \in 1 .. n + 1 |-> g[i]], \A i \in 1 .. n : g[i] = f[i]
    PROVE  g = Append(f, g[n + 1])
  <1> DEFINE S == {g[i] : i \in 1 .. n + 1}
  <1>1. f \in [1 .. n -> S] /\ g \in [1 .. n + 1 -> S] /\ g[n + 1] \in S
    OBVIOUS
  <1> HIDE DEF S
  <1>2. f \in Seq(S) /\ Len(f) = n
    BY <1>1, FunctionIsSeq
  <1>3. g \in Seq(S) /\ Len(g) = n + 1
    BY <1>1, FunctionIsSeq
  <1> DEFINE k == Append(f, g[n + 1])
  <1>4. /\ k \in Seq(S) /\ Len(k) = n + 1
        /\ k[n + 1] = g[n + 1] /\ \A i \in 1 .. n : k[i] = f[i]
    BY <1>1, <1>2
  <1> HIDE DEF k
  <1>5. \A i \in 1 .. n + 1 : k[i] = g[i]
    <2>1. \A i \in 1 .. n + 1 : i \in 1 .. n \/ i = n + 1
      OBVIOUS
    <2> QED
      BY <1>4, <2>1
  <1>6. k = g
    BY <1>3, <1>4, <1>5
  <1> QED
    BY <1>6 DEF k

TokensHaveMints ==
    \A a \in DOMAIN asset : asset[a].token # NoToken => MintsOf(asset[a].token) # {}

OrdersKnown ==
    /\ Known /\ DoneInv /\ AsksInv /\ LiveInv /\ LifeInv
    /\ OneAssetPerToken /\ PlayersHoldFinalTokens /\ TokensHaveMints

LEMMA MintsKept ==
    ASSUME TypeInv, [Next]_vars, NEW k, k = NoToken \/ k[1] \in DOMAIN chain
    PROVE  MintsOf(k)' = MintsOf(k)
  <1>1. CASE k = NoToken
    BY <1>1 DEF MintsOf
  <1>2. CASE k # NoToken
    <2>1. chain'[k[1]].reqs = chain[k[1]].reqs
      BY <1>2, SendsKept
    <2> QED
      BY <1>2, <2>1 DEF MintsOf, Place
  <1> QED
    BY <1>1, <1>2

LEMMA SameMints ==
    ASSUME TypeInv, PlayersHoldFinalTokens, [Next]_vars,
           NEW a \in DOMAIN asset, asset'[a].token = asset[a].token
    PROVE  MintsOf(asset[a].token)' = MintsOf(asset[a].token)
  <1>1. asset[a].token = NoToken \/ asset[a].token[1] \in DOMAIN chain
    BY DEF PlayersHoldFinalTokens
  <1> QED
    BY <1>1, MintsKept

(* The mint of the token that an attribution gives is its own.              *)
LEMMA OwnMint ==
    ASSUME Known, OwnPlaces, NEW t \in tasks, chain[t.hash].call = "mint"
    PROVE  MintsOf(t.token) = {t.req} /\ t.token # NoToken /\ t.hash \in DOMAIN chain
  <1>1. /\ t.hash \in DOMAIN chain /\ t.req \in chain[t.hash].reqs /\ t.hash # NoHash
        /\ chain \in Seq(Sends)
    BY KnownFacts DEF Known, ReceiptsInv, TokensInv, IsDeep, TypeInv, TypeOK
  <1>2. chain[t.hash].reqs \in SUBSET TxIds
    <2>1. chain[t.hash] \in Sends
      BY <1>1
    <2> QED
      BY <2>1 DEF Sends
  <1>3. t.token = <<t.hash, Place(chain[t.hash].reqs, t.req)>>
    BY DEF OwnPlaces
  <1>4. t.token # NoToken /\ t.token[1] = t.hash /\ t.token[2] = Place(chain[t.hash].reqs, t.req)
    BY <1>1, <1>3 DEF NoToken, NoHash
  <1>5. MintsOf(t.token) = {i \in chain[t.hash].reqs :
                               Place(chain[t.hash].reqs, i) = Place(chain[t.hash].reqs, t.req)}
    BY <1>4 DEF MintsOf
  <1> QED
    BY <1>1, <1>2, <1>4, <1>5, PlaceOnce

LEMMA TokensHaveMintsStep ==
    ASSUME Known, OwnPlaces, PlayersHoldFinalTokens, TokensHaveMints, [Next]_vars
    PROVE  TokensHaveMints'
  <1>t. TypeInv
    BY KnownFacts
  <1>1. ASSUME NEW a \in DOMAIN asset, a \in DOMAIN asset', asset'[a].token = asset[a].token,
               asset'[a].token # NoToken
        PROVE  MintsOf(asset[a].token)' # {}
    BY <1>t, <1>1, SameMints DEF TokensHaveMints
  <1>2. ASSUME NEW t \in tasks, NEW a \in DOMAIN asset, Given(t, a)
        PROVE  TokensHaveMints'
    <2>1. chain[t.hash].call = "mint"
      BY <1>2 DEF Known, ReceiptsInv, TokensInv, Given
    <2>2. /\ MintsOf(t.token) = {t.req} /\ t.token # NoToken /\ t.hash \in DOMAIN chain
          /\ t.token[1] = t.hash
      BY <2>1, OwnMint DEF OwnPlaces
    <2>3. MintsOf(t.token)' = {t.req}
      BY <1>t, <2>2, MintsKept
    <2>4. asset'[a].token = t.token
      BY <1>2 DEF Given
    <2>5. MintsOf(asset[a].token)' # {}
      BY <2>3, <2>4
    <2> SUFFICES ASSUME NEW b \in DOMAIN asset', asset'[b].token # NoToken
                 PROVE  MintsOf(asset[b].token)' # {}
      BY DEF TokensHaveMints
    <2>6. CASE b # a
      BY <1>1, <1>2, <2>6 DEF Given
    <2> QED
      BY <2>5, <2>6
  <1>3. CASE Created
    <2> SUFFICES ASSUME NEW b \in DOMAIN asset', asset'[b].token # NoToken
                 PROVE  MintsOf(asset[b].token)' # {}
      BY DEF TokensHaveMints
    <2> QED
      BY <1>1, <1>3 DEF Created
  <1>4. ASSUME DOMAIN asset' = DOMAIN asset, \A a \in DOMAIN asset : asset'[a].token = asset[a].token
        PROVE  TokensHaveMints'
    BY <1>1, <1>4 DEF TokensHaveMints
  <1> QED
    BY <1>t, <1>2, <1>3, <1>4, AssetStep DEF AsksToBurn, Reassigned, SetsBurnt, Keeps

(* What a burn order names never changes: the asset with its token.         *)
LEMMA NamedIsOne ==
    ASSUME OneAssetPerToken, NEW c, NEW k, k # NoToken, NEW a \in Holder(c, k)
    PROVE  Holder(c, k) = {a}
  BY DEF OneAssetPerToken, Holder

LEMMA NamedKept ==
    ASSUME TypeInv, LifeInv, OneAssetPerToken, OneAssetPerToken', [Next]_vars, NEW i \in DOMAIN tx
    PROVE  Named(i)' = Named(i)
  <1>1. /\ tx'[i].type = tx[i].type /\ tx'[i].coll = tx[i].coll /\ tx'[i].token = tx[i].token
    BY TxStep DEF SameRequest
  <1>2. CASE tx[i].type = "BurnAsset"
    <2>1. Holder(tx[i].coll, tx[i].token) # {} /\ tx[i].token # NoToken
      BY <1>2 DEF LifeInv, Leaving
    <2>2. PICK a : a \in Holder(tx[i].coll, tx[i].token)
      BY <2>1
    <2>3. a \in Holder(tx[i].coll, tx[i].token)'
      BY <1>1, <2>1, <2>2, HolderKept
    <2>4. Holder(tx[i].coll, tx[i].token) = {a}
      BY <2>1, <2>2, NamedIsOne
    <2>5. Holder(tx[i].coll, tx[i].token)' = {a}
      BY <1>1, <2>1, <2>3 DEF OneAssetPerToken, Holder
    <2> QED
      BY <1>1, <2>4, <2>5 DEF Named
  <1>3. CASE tx[i].type # "BurnAsset"
    BY <1>1, <1>3 DEF Named
  <1> QED
    BY <1>2, <1>3

LEMMA SameOrders ==
    ASSUME OrdersKnown, OneAssetPerToken', [Next]_vars, DOMAIN tx' = DOMAIN tx
    PROVE  order' = order
  <1>1. TypeInv
    BY KnownFacts DEF OrdersKnown
  <1>2. \A i \in DOMAIN tx : SameRequest(tx'[i], tx[i]) /\ Named(i)' = Named(i)
    BY <1>1, TxStep, NamedKept DEF OrdersKnown
  <1> QED
    BY <1>2 DEF order, SameRequest

LEMMA SameItems ==
    ASSUME OrdersKnown, [Next]_vars, DOMAIN asset' = DOMAIN asset,
           \A a \in DOMAIN asset : /\ asset'[a].owner = asset[a].owner
                                   /\ asset'[a].coll = asset[a].coll
                                   /\ asset'[a].token = asset[a].token
    PROVE  item' = item
  <1>1. TypeInv
    BY KnownFacts DEF OrdersKnown
  <1>2. \A a \in DOMAIN asset : MintsOf(asset[a].token)' = MintsOf(asset[a].token)
    BY <1>1, SameMints DEF OrdersKnown
  <1> QED
    BY <1>2 DEF item

LEMMA SameGone ==
    ASSUME DOMAIN asset' = DOMAIN asset,
           \A a \in DOMAIN asset : asset'[a].state = "burnt" <=> asset[a].state = "burnt"
    PROVE  gone' = gone
  BY DEF gone

(* How far an order has come: only the chain, where a send is mined or gets *)
(* deep, and markSubmitted move it.                                         *)
LEMMA SameStage ==
    ASSUME NEW i, Final(i)' <=> Final(i), CarriedOut(i)' <=> CarriedOut(i),
           tx'[i].state = "submitted" <=> tx[i].state = "submitted"
    PROVE  StageOf(i)' = StageOf(i)
  BY DEF StageOf

LEMMA SendIsSilent ==
    ASSUME TypeInv, chain' = chain \/ \E w \in Workers, g \in Groups : Send(w, g), NEW i
    PROVE  (Final(i)' <=> Final(i)) /\ (CarriedOut(i)' <=> CarriedOut(i))
  <1>1. CASE chain' = chain
    BY <1>1 DEF Final, CarriedOut, Executed
  <1>2. ASSUME NEW w \in Workers, NEW g \in Groups, Send(w, g)
        PROVE  (Final(i)' <=> Final(i)) /\ (CarriedOut(i)' <=> CarriedOut(i))
    <2>1. SentFor(w, g)
      BY <1>2, SendAppends
    <2>2. /\ DOMAIN chain' = DOMAIN chain \cup {Len(chain) + 1}
          /\ chain'[Len(chain) + 1].status = "mempool"
          /\ \A h \in DOMAIN chain : chain'[h] = chain[h]
      BY <2>1 DEF SentFor, IsSendOf
    <2> QED
      BY <2>2 DEF Final, CarriedOut, Executed
  <1> QED
    BY <1>1, <1>2

LEMMA NotMarked ==
    ASSUME Known, [Next]_vars, NEW i \in DOMAIN tx,
           \A w \in Workers, h \in Hashes : ~ (MarkSubmitted(w, h) /\ i \in Following(w, h))
    PROVE  tx'[i].state = "submitted" <=> tx[i].state = "submitted"
  <1>1. TypeInv /\ FinalInv
    BY KnownFacts DEF Known
  <1>2. tx[i].state = "submitted" => tx'[i] = tx[i]
    BY <1>1, SubmittedStays
  <1>3. \/ tx'[i] = tx[i]
        \/ \E w \in Workers, h \in Hashes : Marks(w, h, i) \/ Saves(w, h, i)
    BY <1>1, TxStep
  <1>4. tx'[i] = tx[i] \/ tx'[i].state = "submitting"
    BY <1>3 DEF Marks, Saves
  <1> QED
    BY <1>2, <1>4

LEMMA SameStages ==
    ASSUME Known, [Next]_vars, DOMAIN tx' = DOMAIN tx,
           chain' = chain \/ \E w \in Workers, g \in Groups : Send(w, g),
           \A w \in Workers, h \in Hashes : ~MarkSubmitted(w, h)
    PROVE  stage' = stage
  <1>1. \A i \in DOMAIN tx : StageOf(i)' = StageOf(i)
    BY KnownFacts, SendIsSilent, NotMarked, SameStage
  <1> QED
    BY <1>1 DEF stage

-----------------------------------------------------------------------------
(* Requests are orders.                                                     *)

LEMMA OneMoreOrder ==
    ASSUME OrdersKnown, OneAssetPerToken', [Next]_vars, chain' = chain, NEW doc, IsNew(doc),
           Inserted(doc)
    PROVE  /\ order' = Append(order, [kind |-> doc.type, player |-> doc.owner, coll |-> doc.coll,
                                      items |-> IF doc.type = "BurnAsset"
                                                THEN Holder(doc.coll, doc.token)' ELSE {}])
           /\ stage' = Append(stage, "asked")
  <1>1. TypeInv /\ tx \in Seq(TxDocs) /\ SendsInv
    BY KnownFacts DEF OrdersKnown, TypeInv, TypeOK
  <1>n. PICK n \in Nat : n = Len(tx)
    BY <1>1
  <1>2. /\ DOMAIN tx = 1 .. n /\ DOMAIN tx' = 1 .. n + 1 /\ tx'[n + 1] = doc
        /\ \A i \in 1 .. n : tx'[i] = tx[i]
    BY <1>1, <1>n DEF Inserted
  <1>3. \A i \in 1 .. n : Named(i)' = Named(i)
    BY <1>1, <1>2, NamedKept DEF OrdersKnown
  <1>4. order' = Append(order, order'[n + 1])
    <2>1. order = [i \in 1 .. n |-> order[i]] /\ order' = [i \in 1 .. n + 1 |-> order'[i]]
      BY <1>2 DEF order
    <2>2. \A i \in 1 .. n : order'[i] = order[i]
      BY <1>2, <1>3 DEF order
    <2> QED
      BY <1>2, <2>1, <2>2, AppendedFunction
  <1>5. order'[n + 1] = [kind |-> doc.type, player |-> doc.owner, coll |-> doc.coll,
                         items |-> IF doc.type = "BurnAsset"
                                   THEN Holder(doc.coll, doc.token)' ELSE {}]
    <2>1. Named(n + 1)' = IF doc.type = "BurnAsset" THEN Holder(doc.coll, doc.token)' ELSE {}
      BY <1>2 DEF Named, Holder
    <2>2. n + 1 \in DOMAIN tx'
      BY <1>2
    <2>3. order'[n + 1] = [kind |-> tx'[n + 1].type, player |-> tx'[n + 1].owner,
                           coll |-> tx'[n + 1].coll, items |-> Named(n + 1)']
      BY <2>2 DEF order
    <2> QED
      BY <1>2, <2>1, <2>3
  <1>6. stage' = Append(stage, stage'[n + 1])
    <2>1. stage = [i \in 1 .. n |-> stage[i]] /\ stage' = [i \in 1 .. n + 1 |-> stage'[i]]
      BY <1>2 DEF stage
    <2>2. \A i \in 1 .. n : StageOf(i)' = StageOf(i)
      BY <1>1, <1>2, SendIsSilent, SameStage
    <2>3. \A i \in 1 .. n : stage'[i] = stage[i]
      BY <1>2, <2>2 DEF stage
    <2> QED
      BY <1>2, <2>1, <2>3, AppendedFunction
  <1>7. stage'[n + 1] = "asked"
    <2>1. \A h \in DOMAIN chain : n + 1 \notin chain[h].reqs
      BY <1>1, <1>2 DEF SendsInv
    <2>2. ~Final(n + 1)' /\ ~CarriedOut(n + 1)'
      BY <2>1 DEF Final, CarriedOut, Executed
    <2>3. tx'[n + 1].state # "submitted"
      BY <1>2 DEF IsNew
    <2>4. StageOf(n + 1)' = "asked"
      BY <2>2, <2>3 DEF StageOf
    <2> QED
      BY <1>2, <2>4 DEF stage
  <1> QED
    BY <1>2, <1>4, <1>5, <1>6, <1>7

Stutters == order' = order /\ stage' = stage /\ item' = item /\ gone' = gone

LEMMA NewFields ==
    ASSUME NEW type, NEW c, NEW u, NEW k
    PROVE  /\ IsNew(NewTx(type, c, u, k))
           /\ NewTx(type, c, u, k).type = type /\ NewTx(type, c, u, k).coll = c
           /\ NewTx(type, c, u, k).owner = u /\ NewTx(type, c, u, k).token = k
  BY DEF IsNew, NewTx

LEMMA AskedFor ==
    ASSUME OrdersKnown, OneAssetPerToken', [Next]_vars, chain' = chain, asset' = asset,
           NEW kind \in {"MintAsset", "MintResource"}, NEW c \in Collections, NEW u \in Users,
           Inserted(NewTx(kind, c, u, NoToken))
    PROVE  Orders!Next
  <1>1. PICK doc : /\ Inserted(doc) /\ IsNew(doc)
                   /\ doc.type = kind /\ doc.coll = c /\ doc.owner = u
    BY NewFields
  <1>2. order' = Append(order, [kind |-> kind, player |-> u, coll |-> c, items |-> {}])
        /\ stage' = Append(stage, "asked")
    BY <1>1, OneMoreOrder
  <1>3. item' = item /\ gone' = gone
    BY SameItems, SameGone
  <1>4. Orders!Ask(kind, u, c, {})
    BY <1>2, <1>3 DEF Orders!Ask
  <1> QED
    BY <1>4 DEF Orders!Next

LEMMA CreateIsCreate ==
    ASSUME OrdersKnown, OneAssetPerToken', [Next]_vars,
           NEW u \in Users, NEW c \in Collections, CreateAsset(u, c)
    PROVE  Orders!Next
  <1> DEFINE doc == [owner |-> u, coll |-> c, state |-> "minting", token |-> NoToken]
  <1>1. TypeInv /\ asset \in Seq(AssetDocs)
    BY KnownFacts DEF OrdersKnown, TypeInv, TypeOK
  <1>2. tx' = tx /\ chain' = chain /\ asset' = Append(asset, doc)
    BY DEF CreateAsset, portalVars
  <1>3. order' = order
    BY <1>2, SameOrders
  <1>4. stage' = stage
    <2>1. \A i \in DOMAIN tx : StageOf(i)' = StageOf(i)
      BY <1>1, <1>2, SendIsSilent, SameStage
    <2> QED
      BY <1>2, <2>1 DEF stage
  <1>5. /\ doc.owner = u /\ doc.coll = c /\ doc.token = NoToken /\ doc.state # "burnt"
    OBVIOUS
  <1> HIDE DEF doc
  <1>6. PICK n \in Nat : n = Len(asset)
    BY <1>1
  <1>7. /\ DOMAIN asset = 1 .. n /\ DOMAIN asset' = 1 .. n + 1 /\ asset'[n + 1] = doc
        /\ \A a \in 1 .. n : asset'[a] = asset[a]
    BY <1>1, <1>2, <1>6
  <1>8. gone' = gone
    BY <1>5, <1>7 DEF gone
  <1>9. item' = Append(item, [player |-> u, coll |-> c, mints |-> {}])
    <2>1. item = [a \in 1 .. n |-> item[a]] /\ item' = [a \in 1 .. n + 1 |-> item'[a]]
      BY <1>7 DEF item
    <2>2. \A a \in 1 .. n : MintsOf(asset[a].token)' = MintsOf(asset[a].token)
      BY <1>1, <1>7, SameMints DEF OrdersKnown
    <2>3. \A a \in 1 .. n : item'[a] = item[a]
      BY <1>7, <2>2 DEF item
    <2>4. item' = Append(item, item'[n + 1])
      BY <2>1, <2>3, AppendedFunction
    <2>5. MintsOf(asset[n + 1].token)' = {}
      BY <1>5, <1>7 DEF MintsOf
    <2>6. n + 1 \in DOMAIN asset'
      BY <1>7
    <2>7. item'[n + 1] = [player |-> u, coll |-> c, mints |-> {}]
      BY <1>5, <1>7, <2>5, <2>6 DEF item
    <2> QED
      BY <2>4, <2>7
  <1>10. Orders!Create(u, c)
    BY <1>3, <1>4, <1>8, <1>9 DEF Orders!Create
  <1> QED
    BY <1>10 DEF Orders!Next

LEMMA ReassignIsReassign ==
    ASSUME OrdersKnown, OneAssetPerToken', [Next]_vars,
           NEW a \in DOMAIN asset, NEW u \in Users, UpdateAsset(a, u)
    PROVE  Orders!Next
  <1> DEFINE doc == [asset[a] EXCEPT !.owner = u]
  <1>1. TypeInv /\ asset[a] \in AssetDocs
    BY KnownFacts DEF OrdersKnown, TypeInv, TypeOK
  <1>2. tx' = tx /\ chain' = chain /\ asset' = [asset EXCEPT ![a] = doc]
    BY DEF UpdateAsset, portalVars
  <1>3. /\ doc.owner = u /\ doc.coll = asset[a].coll /\ doc.token = asset[a].token
        /\ doc.state = asset[a].state
    BY <1>1 DEF AssetDocs
  <1> HIDE DEF doc
  <1>4. /\ DOMAIN asset' = DOMAIN asset /\ asset'[a] = doc
        /\ \A b \in DOMAIN asset : b # a => asset'[b] = asset[b]
    BY <1>2
  <1>5. order' = order
    BY <1>2, SameOrders
  <1>6. stage' = stage
    <2>1. \A i \in DOMAIN tx : StageOf(i)' = StageOf(i)
      BY <1>1, <1>2, SendIsSilent, SameStage
    <2> QED
      BY <1>2, <2>1 DEF stage
  <1>7. gone' = gone
    <2>1. \A b \in DOMAIN asset : asset'[b].state = asset[b].state
      BY <1>3, <1>4
    <2> QED
      BY <1>4, <2>1, SameGone
  <1>8. item' = [item EXCEPT ![a].player = u]
    <2>1. \A b \in DOMAIN asset : asset'[b].token = asset[b].token /\ asset'[b].coll = asset[b].coll
      BY <1>3, <1>4
    <2>2. \A b \in DOMAIN asset : MintsOf(asset[b].token)' = MintsOf(asset[b].token)
      BY <1>1, <2>1, SameMints DEF OrdersKnown
    <2>3. \A b \in DOMAIN asset : asset'[b].owner = IF b = a THEN u ELSE asset[b].owner
      BY <1>3, <1>4
    <2> QED
      BY <1>4, <2>1, <2>2, <2>3 DEF item
  <1>9. Orders!Reassign(a, u) /\ a \in DOMAIN item
    BY <1>5, <1>6, <1>7, <1>8 DEF Orders!Reassign, item
  <1> QED
    BY <1>9 DEF Orders!Next

LEMMA BurnRequestIsAskBurn ==
    ASSUME OnlyMintedBurnt, OrdersKnown, OneAssetPerToken', [Next]_vars,
           NEW a \in DOMAIN asset, BurnAsset(a)
    PROVE  Orders!Next
  <1> DEFINE old == [asset[a] EXCEPT !.state = "burning"]
  <1>1. TypeInv /\ asset[a] \in AssetDocs
    BY KnownFacts DEF OrdersKnown, TypeInv, TypeOK
  <1>2. /\ asset[a].token # NoToken /\ asset[a].state = "minted" /\ chain' = chain
        /\ asset' = [asset EXCEPT ![a] = old]
        /\ Inserted(NewTx("BurnAsset", asset[a].coll, asset[a].owner, asset[a].token))
    BY DEF BurnAsset, OnlyMintedBurnt, portalVars
  <1>3. /\ old.owner = asset[a].owner /\ old.coll = asset[a].coll /\ old.token = asset[a].token
        /\ old.state = "burning"
    BY <1>1 DEF AssetDocs
  <1> HIDE DEF old
  <1>4. /\ DOMAIN asset' = DOMAIN asset /\ asset'[a] = old
        /\ \A b \in DOMAIN asset : b # a => asset'[b] = asset[b]
    BY <1>2
  <1>5. \A b \in DOMAIN asset : /\ asset'[b].owner = asset[b].owner
                                /\ asset'[b].coll = asset[b].coll
                                /\ asset'[b].token = asset[b].token
                                /\ asset'[b].state = "burnt" <=> asset[b].state = "burnt"
    BY <1>2, <1>3, <1>4
  <1>6. item' = item /\ gone' = gone
    BY <1>4, <1>5, SameItems, SameGone
  <1>7. PICK doc : /\ Inserted(doc) /\ IsNew(doc) /\ doc.type = "BurnAsset"
                   /\ doc.coll = asset[a].coll /\ doc.owner = asset[a].owner
                   /\ doc.token = asset[a].token
    BY <1>2, NewFields
  <1>8. Holder(doc.coll, doc.token)' = {a}
    BY <1>2, <1>4, <1>5, <1>7 DEF OneAssetPerToken, Holder
  <1>9. /\ order' = Append(order, [kind |-> "BurnAsset", player |-> asset[a].owner,
                                   coll |-> asset[a].coll, items |-> {a}])
        /\ stage' = Append(stage, "asked")
    BY <1>2, <1>7, <1>8, OneMoreOrder
  <1>10. /\ a \in DOMAIN item /\ item[a].player = asset[a].owner /\ item[a].coll = asset[a].coll
         /\ item[a].mints # {} /\ a \notin gone
    BY <1>2 DEF item, gone, OrdersKnown, TokensHaveMints
  <1>11. \A i \in DOMAIN order : a \notin order[i].items
    <2> SUFFICES ASSUME NEW i \in DOMAIN tx, a \in Named(i) PROVE FALSE
      BY DEF order
    <2>1. tx[i].type = "BurnAsset" /\ a \in Holder(tx[i].coll, tx[i].token)
      BY DEF Named
    <2> QED
      BY <1>2, <2>1 DEF OrdersKnown, LifeInv, Leaving
  <1>12. Orders!AskBurn(a)
    BY <1>6, <1>9, <1>10, <1>11 DEF Orders!AskBurn, Orders!Ask
  <1> QED
    BY <1>10, <1>12 DEF Orders!Next

LEMMA RequestsAreOrders ==
    ASSUME OnlyMintedBurnt, OrdersKnown, OneAssetPerToken', [Next]_vars, RequestNext
    PROVE  Orders!Next \/ Stutters
  <1>1. ASSUME NEW r \in creating, CommitMint(r)
        PROVE  Orders!Next
    <2>1. r.owner \in Users /\ asset[r.asset].coll \in Collections
      <3>1. r.owner \in Users /\ r.asset \in DOMAIN asset /\ asset \in Seq(AssetDocs)
        BY KnownFacts DEF OrdersKnown, TypeInv, TypeOK
      <3>2. asset[r.asset] \in AssetDocs
        BY <3>1
      <3> QED
        BY <3>1, <3>2 DEF AssetDocs
    <2>2. /\ chain' = chain /\ asset' = asset
          /\ Inserted(NewTx("MintAsset", asset[r.asset].coll, r.owner, NoToken))
      BY <1>1 DEF CommitMint, portalVars
    <2> QED
      BY <2>1, <2>2, AskedFor
  <1>2. ASSUME NEW u \in Users, NEW c \in Collections, MintResource(u, c)
        PROVE  Orders!Next
    <2>1. /\ chain' = chain /\ asset' = asset
          /\ Inserted(NewTx("MintResource", c, u, NoToken))
      BY <1>2 DEF MintResource, portalVars
    <2> QED
      BY <2>1, AskedFor
  <1>3. ASSUME NEW r \in creating, AbortMint(r)
        PROVE  Stutters
    <2>1. tx' = tx /\ asset' = asset /\ chain' = chain
      BY <1>3 DEF AbortMint
    <2>2. \A i \in DOMAIN tx : StageOf(i)' = StageOf(i)
      BY <2>1, KnownFacts, SendIsSilent, SameStage DEF OrdersKnown
    <2>3. stage' = stage
      BY <2>1, <2>2 DEF stage
    <2> QED
      BY <2>1, <2>3, SameOrders, SameItems, SameGone DEF Stutters
  <1> QED
    BY <1>1, <1>2, <1>3, CreateIsCreate, ReassignIsReassign, BurnRequestIsAskBurn DEF RequestNext

-----------------------------------------------------------------------------
(* A send that is mined carries its batch out; at the right depth it is     *)
(* final.                                                                   *)

LEMMA StatusSet ==
    ASSUME TypeInv, NEW h \in DOMAIN chain, NEW s, SetStatus(h, s)
    PROVE  /\ DOMAIN chain' = DOMAIN chain
           /\ chain'[h].status = s /\ chain'[h].reqs = chain[h].reqs
           /\ \A g \in DOMAIN chain : g # h => chain'[g] = chain[g]
  <1> DEFINE send == [chain[h] EXCEPT !.status = s]
  <1>1. chain[h] \in Sends
    BY DEF TypeInv, TypeOK
  <1>2. send.status = s /\ send.reqs = chain[h].reqs
    BY <1>1 DEF Sends
  <1>3. chain' = [chain EXCEPT ![h] = send]
    BY DEF SetStatus
  <1> HIDE DEF send
  <1>4. /\ DOMAIN chain' = DOMAIN chain /\ chain'[h] = send
        /\ \A g \in DOMAIN chain : g # h => chain'[g] = chain[g]
    BY <1>3
  <1> QED
    BY <1>2, <1>4

(* A submitted request is in a final send, and in no other that goes on.    *)
LEMMA SubmittedElsewhere ==
    ASSUME OrdersKnown, NEW h \in DOMAIN chain, chain[h].status \in {"mempool", "mined"},
           NEW i \in chain[h].reqs
    PROVE  /\ i \in DOMAIN tx /\ tx[i].state # "submitted"
           /\ \A g \in DOMAIN chain : i \in chain[g].reqs /\ ~Failed(g) => g = h
  <1>1. i \in DOMAIN tx
    BY KnownFacts DEF OrdersKnown, SendsInv
  <1>2. \A g \in DOMAIN chain : i \in chain[g].reqs /\ ~Failed(g) => g = h
    BY OneSend DEF OrdersKnown, Failed
  <1>3. ASSUME tx[i].state = "submitted"
        PROVE  FALSE
    <2>1. IsDeep(tx[i].hash)
      BY <1>1, <1>3 DEF OrdersKnown, DoneInv, SubmittedDone
    <2>2. i \in chain[tx[i].hash].reqs
      BY <1>1, <1>3, KnownFacts DEF OrdersKnown, HashInv, RecordsSend
    <2>3. tx[i].hash = h
      BY <1>2, <2>1, <2>2 DEF IsDeep, Failed
    <2> QED
      BY <2>1, <2>3 DEF IsDeep
  <1> QED
    BY <1>1, <1>2, <1>3

(* Whatever becomes of a send, only its own requests move.                  *)
LEMMA OthersStay ==
    ASSUME TypeInv, NEW h \in DOMAIN chain, NEW s, SetStatus(h, s), tx' = tx,
           NEW i, i \notin chain[h].reqs
    PROVE  StageOf(i)' = StageOf(i)
  <1>1. /\ DOMAIN chain' = DOMAIN chain /\ chain'[h].reqs = chain[h].reqs
        /\ \A g \in DOMAIN chain : g # h => chain'[g] = chain[g]
    BY StatusSet
  <1>2. (Final(i)' <=> Final(i)) /\ (CarriedOut(i)' <=> CarriedOut(i))
    BY <1>1 DEF Final, CarriedOut, Executed
  <1> QED
    BY <1>2, SameStage

LEMMA MineIsCarryOut ==
    ASSUME OrdersKnown, NEW h \in DOMAIN chain, Mine(h), tx' = tx,
           order' = order, item' = item, gone' = gone
    PROVE  Orders!CarryOut(chain[h].reqs)
  <1>1. /\ TypeInv /\ chain[h].status = "mempool" /\ SetStatus(h, "mined")
    BY KnownFacts DEF OrdersKnown, Mine
  <1>2. ASSUME NEW i \in chain[h].reqs
        PROVE  i \in DOMAIN tx /\ StageOf(i) = "asked" /\ StageOf(i)' = "carried"
    <2>1. /\ i \in DOMAIN tx /\ tx[i].state # "submitted"
          /\ \A g \in DOMAIN chain : i \in chain[g].reqs /\ ~Failed(g) => g = h
      BY <1>1, SubmittedElsewhere
    <2>2. ~Final(i) /\ ~CarriedOut(i)
      BY <1>1, <2>1 DEF Final, CarriedOut, Executed, Failed
    <2>3. ~Final(i)' /\ CarriedOut(i)'
      BY <1>1, <2>2, StatusSet DEF Final, CarriedOut, Executed
    <2> QED
      BY <2>1, <2>2, <2>3 DEF StageOf
  <1>3. \A i : i \notin chain[h].reqs => StageOf(i)' = StageOf(i)
    BY <1>1, OthersStay
  <1>4. /\ \A i \in chain[h].reqs : stage[i] = "asked"
        /\ stage' = [i \in DOMAIN stage |-> IF i \in chain[h].reqs THEN "carried" ELSE stage[i]]
    BY <1>2, <1>3 DEF stage
  <1> QED
    BY <1>4 DEF Orders!CarryOut, Orders!Move

LEMMA ConfirmIsSettle ==
    ASSUME OrdersKnown, NEW h \in DOMAIN chain, Confirm(h), tx' = tx,
           order' = order, item' = item, gone' = gone
    PROVE  Orders!Settle(chain[h].reqs)
  <1>1. /\ TypeInv /\ chain[h].status = "mined" /\ SetStatus(h, "deep")
    BY KnownFacts DEF OrdersKnown, Confirm
  <1>2. ASSUME NEW i \in chain[h].reqs
        PROVE  i \in DOMAIN tx /\ StageOf(i) = "carried" /\ StageOf(i)' = "final"
    <2>1. /\ i \in DOMAIN tx /\ tx[i].state # "submitted"
          /\ \A g \in DOMAIN chain : i \in chain[g].reqs /\ ~Failed(g) => g = h
      BY <1>1, SubmittedElsewhere
    <2>2. ~Final(i) /\ CarriedOut(i)
      BY <1>1, <2>1 DEF Final, CarriedOut, Executed, Failed
    <2>3. Final(i)'
      BY <1>1, StatusSet DEF Final
    <2> QED
      BY <2>1, <2>2, <2>3 DEF StageOf
  <1>3. \A i : i \notin chain[h].reqs => StageOf(i)' = StageOf(i)
    BY <1>1, OthersStay
  <1>4. /\ \A i \in chain[h].reqs : stage[i] = "carried"
        /\ stage' = [i \in DOMAIN stage |-> IF i \in chain[h].reqs THEN "final" ELSE stage[i]]
    BY <1>2, <1>3 DEF stage
  <1> QED
    BY <1>4 DEF Orders!Settle, Orders!Move

LEMMA ChainIsOrders ==
    ASSUME NoReorgs, OrdersKnown, OneAssetPerToken', [Next]_vars, PortalNext,
           UNCHANGED <<requestVars, workerVars>>
    PROVE  Orders!Next \/ Stutters
  <1>1. tx' = tx /\ asset' = asset /\ TypeInv
    BY KnownFacts DEF requestVars, OrdersKnown
  <1>2. order' = order /\ item' = item /\ gone' = gone
    BY <1>1, SameOrders, SameItems, SameGone
  <1>3. PICK h \in DOMAIN chain :
           Mine(h) \/ RevertBurn(h) \/ Revert(h) \/ Confirm(h) \/ Reorg(h) \/ Drop(h)
    BY DEF PortalNext
  <1>4. chain[h].reqs \in SUBSET DOMAIN order
    BY KnownFacts DEF OrdersKnown, SendsInv, order
  <1>5. CASE Mine(h)
    BY <1>1, <1>2, <1>4, <1>5, MineIsCarryOut DEF Orders!Next
  <1>6. CASE Confirm(h)
    BY <1>1, <1>2, <1>4, <1>6, ConfirmIsSettle DEF Orders!Next
  <1>7. ASSUME NEW s \in {"reverted", "dropped"}, chain[h].status = "mempool", SetStatus(h, s)
        PROVE  Stutters
    <2>1. \A i : (Final(i)' <=> Final(i)) /\ (CarriedOut(i)' <=> CarriedOut(i))
      BY <1>1, <1>7, StatusSet DEF Final, CarriedOut, Executed
    <2>2. \A i : StageOf(i)' = StageOf(i)
      BY <1>1, <2>1, SameStage
    <2>3. stage' = stage
      BY <1>1, <2>2 DEF stage
    <2> QED
      BY <1>2, <2>3 DEF Stutters
  <1> QED
    BY <1>3, <1>5, <1>6, <1>7 DEF RevertBurn, Revert, Drop, Reorg, Fault, NoReorgs

-----------------------------------------------------------------------------
(* What a job does to the orders: an attribution gives a token or burns an  *)
(* asset, and markSubmitted completes the orders of a send.                 *)

(* An attribution is of a final order, done or not.                         *)
LEMMA AttributedIsFinal ==
    ASSUME OrdersKnown, NEW t \in tasks
    PROVE  /\ t.req \in DOMAIN tx /\ t.req \in chain[t.hash].reqs /\ IsDeep(t.hash)
           /\ \A g \in DOMAIN chain : t.req \in chain[g].reqs /\ ~Failed(g) => g = t.hash
           /\ tx[t.req].coll = chain[t.hash].coll
           /\ tx[t.req].type = IF chain[t.hash].call = "mint" THEN "MintAsset" ELSE "BurnAsset"
           /\ IF tx[t.req].state = "submitted" THEN Done(t.hash, t.req)
                                               ELSE StageOf(t.req) = "final"
  <1>1. t.req \in chain[t.hash].reqs /\ IsDeep(t.hash)
    BY DEF OrdersKnown, Known, ReceiptsInv, TokensInv
  <1>2. /\ t.req \in DOMAIN tx /\ tx[t.req].coll = chain[t.hash].coll
        /\ tx[t.req].type = IF chain[t.hash].call = "mint" THEN "MintAsset" ELSE "BurnAsset"
    BY <1>1, KnownFacts DEF OrdersKnown, SendsInv, IsDeep
  <1>3. \A g \in DOMAIN chain : t.req \in chain[g].reqs /\ ~Failed(g) => g = t.hash
    BY <1>1, OneSend DEF OrdersKnown, IsDeep, Failed
  <1>4. CASE tx[t.req].state = "submitted"
    <2>1. IsDeep(tx[t.req].hash) /\ Done(tx[t.req].hash, t.req)
      BY <1>2, <1>4 DEF OrdersKnown, DoneInv, SubmittedDone
    <2>2. t.req \in chain[tx[t.req].hash].reqs
      BY <1>2, <1>4, KnownFacts DEF OrdersKnown, HashInv, RecordsSend
    <2>3. tx[t.req].hash = t.hash
      BY <1>3, <2>1, <2>2 DEF IsDeep, Failed
    <2> QED
      BY <1>1, <1>2, <1>3, <1>4, <2>1, <2>3
  <1>5. CASE tx[t.req].state # "submitted"
    <2>1. Final(t.req)
      BY <1>1 DEF Final, IsDeep
    <2> QED
      BY <1>1, <1>2, <1>3, <1>5, <2>1 DEF StageOf
  <1> QED
    BY <1>4, <1>5

LEMMA SetTokenIdIsGive ==
    ASSUME OrdersKnown, [Next]_vars, NEW t \in tasks, SetTokenId(t), asset' # asset,
           order' = order, stage' = stage
    PROVE  Orders!Next
  <1> DEFINE i == t.req
             c == tx[t.req].coll
  <1>1. PICK a \in Matching(c, tx[i].owner) : GiveToken(a, t.token)
    BY DEF SetTokenId
  <1>2. Holder(c, t.token) = {}
    BY DEF SetTokenId, Duplicate
  <1>3. /\ a \in DOMAIN asset /\ asset[a].coll = c
        /\ asset[a].owner = tx[i].owner /\ asset[a].token = NoToken
    BY <1>1 DEF Matching, Tokenless, OwnedBy
  <1>4. chain[t.hash].call = "mint" /\ TypeInv
    BY KnownFacts DEF OrdersKnown, Known, ReceiptsInv, TokensInv, SetTokenId
  <1>5. /\ MintsOf(t.token) = {i} /\ t.token # NoToken /\ t.hash \in DOMAIN chain
        /\ t.token = <<t.hash, Place(chain[t.hash].reqs, i)>>
    BY <1>4, OwnMint DEF OrdersKnown, DoneInv, OwnPlaces
  <1>6. /\ i \in DOMAIN tx /\ tx[i].type = "MintAsset" /\ c = chain[t.hash].coll
        /\ \A g \in DOMAIN chain : i \in chain[g].reqs /\ ~Failed(g) => g = t.hash
    BY <1>4, AttributedIsFinal
  <1>7. StageOf(i) = "final"
    BY <1>2, <1>4, <1>5, AttributedIsFinal DEF Done, Minted
  <1>8. ASSUME NEW b \in DOMAIN asset, i \in MintsOf(asset[b].token)
        PROVE  FALSE
    <2> DEFINE k == asset[b].token
    <2>1. k # NoToken /\ i \in chain[k[1]].reqs /\ k[2] = Place(chain[k[1]].reqs, i)
      BY <1>8 DEF MintsOf
    <2>2. /\ k[1] \in DOMAIN chain /\ chain[k[1]].status = "deep"
          /\ chain[k[1]].coll = asset[b].coll
      BY <2>1 DEF OrdersKnown, PlayersHoldFinalTokens
    <2>3. k[1] = t.hash
      BY <1>6, <2>1, <2>2 DEF Failed
    <2>4. asset[b].token \in Tokens \cup {NoToken}
      <3>1. asset[b] \in AssetDocs
        BY <1>4 DEF TypeInv, TypeOK
      <3> QED
        BY <3>1 DEF AssetDocs
    <2>5. k = t.token
      BY <1>5, <2>1, <2>3, <2>4 DEF Tokens
    <2> QED
      BY <1>2, <1>6, <2>2, <2>3, <2>5 DEF Holder
  <1> DEFINE doc == [asset[a] EXCEPT !.token = t.token, !.state = "minted"]
  <1>9. asset[a] \in AssetDocs /\ asset' = [asset EXCEPT ![a] = doc]
    <2>1. asset \in Seq(AssetDocs)
      BY <1>4 DEF TypeInv, TypeOK
    <2>2. asset' = [asset EXCEPT ![a] = doc]
      BY <1>1 DEF GiveToken
    <2> QED
      BY <1>3, <2>1, <2>2
  <1>10. /\ doc.owner = asset[a].owner /\ doc.coll = c /\ doc.token = t.token
         /\ doc.state = "minted"
    BY <1>3, <1>9 DEF AssetDocs
  <1> HIDE DEF doc, c, i
  <1>11. /\ DOMAIN asset' = DOMAIN asset /\ asset'[a] = doc
         /\ \A b \in DOMAIN asset : b # a => asset'[b] = asset[b]
    BY <1>3, <1>9
  <1>12. asset[a].state # "burnt"
    BY <1>3 DEF OrdersKnown, LifeInv, Minting
  <1>13. gone' = gone
    <2>1. \A b \in DOMAIN asset : asset'[b].state = "burnt" <=> asset[b].state = "burnt"
      BY <1>10, <1>11, <1>12
    <2> QED
      BY <1>11, <2>1, SameGone
  <1>14. item' = [item EXCEPT ![a].mints = {i}]
    <2>1. t.token[1] \in DOMAIN chain
      BY <1>5
    <2>2. MintsOf(t.token)' = MintsOf(t.token)
      BY <1>4, <2>1, MintsKept
    <2>3. MintsOf(asset[a].token)' = {i}
      BY <1>5, <1>10, <1>11, <2>2
    <2>4. \A b \in DOMAIN asset : b # a => MintsOf(asset[b].token)' = MintsOf(asset[b].token)
      BY <1>4, <1>11, SameMints DEF OrdersKnown
    <2>5. \A b \in DOMAIN asset : asset'[b].owner = asset[b].owner /\ asset'[b].coll = asset[b].coll
      BY <1>3, <1>10, <1>11
    <2> QED
      BY <1>3, <1>11, <2>3, <2>4, <2>5 DEF item
  <1>15. /\ i \in DOMAIN order /\ order[i].kind = "MintAsset" /\ order[i].player = tx[i].owner
         /\ order[i].coll = c /\ stage[i] = "final"
    <2>1. order[i] = [kind |-> tx[i].type, player |-> tx[i].owner, coll |-> tx[i].coll,
                      items |-> Named(i)]
      BY <1>6 DEF order
    <2>2. tx[i].coll = c
      BY DEF c, i
    <2>3. stage[i] = "final" /\ i \in DOMAIN order
      BY <1>6, <1>7 DEF stage, order
    <2> QED
      BY <1>6, <2>1, <2>2, <2>3
  <1>16. /\ a \in DOMAIN item /\ item[a].player = tx[i].owner /\ item[a].coll = c
         /\ item[a].mints = {} /\ \A b \in DOMAIN item : i \notin item[b].mints
    BY <1>3, <1>8 DEF item, MintsOf
  <1>17. Orders!Give(i, a)
    BY <1>13, <1>14, <1>15, <1>16 DEF Orders!Give
  <1> QED
    BY <1>15, <1>16, <1>17 DEF Orders!Next

LEMMA SetBurntIsBurn ==
    ASSUME OrdersKnown, [Next]_vars, NEW t \in tasks, SetBurnt(t), asset' # asset,
           order' = order, stage' = stage
    PROVE  Orders!Next \/ Stutters
  <1> DEFINE i == t.req
             named == Holder(tx[t.req].coll, tx[t.req].token)
             doc(a) == [asset[a] EXCEPT !.state = "burnt"]
  <1>1. TypeInv /\ \A a \in DOMAIN asset : asset[a] \in AssetDocs
    BY KnownFacts DEF OrdersKnown, TypeInv, TypeOK
  <1>2. tx[i].type = "BurnAsset"
    BY DEF SetBurnt
  <1>3. t.token = tx[i].token /\ i \in DOMAIN tx /\ chain[t.hash].call # "mint"
    BY <1>2, AttributedIsFinal DEF OrdersKnown, Known, ReceiptsInv, TokensInv
  <1>4. asset' = [a \in DOMAIN asset |-> IF a \in named THEN doc(a) ELSE asset[a]]
    BY <1>3 DEF SetBurnt
  <1>5. \A a \in DOMAIN asset : /\ doc(a).owner = asset[a].owner /\ doc(a).coll = asset[a].coll
                                /\ doc(a).token = asset[a].token /\ doc(a).state = "burnt"
    BY <1>1 DEF AssetDocs
  <1>6. named \subseteq DOMAIN asset /\ Named(i) = named
    BY <1>2 DEF Holder, Named
  <1> HIDE DEF doc, named
  <1>7. /\ DOMAIN asset' = DOMAIN asset
        /\ \A a \in DOMAIN asset : asset'[a] = IF a \in named THEN doc(a) ELSE asset[a]
    BY <1>4
  <1>8. item' = item
    <2>1. \A a \in DOMAIN asset : /\ asset'[a].owner = asset[a].owner
                                  /\ asset'[a].coll = asset[a].coll
                                  /\ asset'[a].token = asset[a].token
      BY <1>5, <1>7
    <2> QED
      BY <1>7, <2>1, SameItems
  <1>9. gone' = gone \cup named
    BY <1>5, <1>6, <1>7 DEF gone
  <1>10. CASE tx[i].state = "submitted"
    <2>1. Burnt(i)
      BY <1>3, <1>10, AttributedIsFinal DEF Done
    <2>2. named \subseteq gone
      BY <1>6, <2>1 DEF Burnt, gone, named
    <2> QED
      BY <1>8, <1>9, <2>2 DEF Stutters
  <1>11. CASE tx[i].state # "submitted"
    <2>1. /\ i \in DOMAIN order /\ order[i].kind = "BurnAsset" /\ order[i].items = named
          /\ stage[i] = "final"
      BY <1>2, <1>3, <1>6, <1>11, AttributedIsFinal DEF order, stage
    <2>2. Orders!Burn(i)
      BY <1>8, <1>9, <2>1 DEF Orders!Burn
    <2> QED
      BY <2>1, <2>2 DEF Orders!Next
  <1> QED
    BY <1>10, <1>11

LEMMA MarkIsComplete ==
    ASSUME OrdersKnown, OneAssetPerToken', [Next]_vars,
           NEW w \in Workers, NEW h \in Hashes, MarkSubmitted(w, h)
    PROVE  Orders!Next
  <1> DEFINE S == Following(w, h)
  <1>1. /\ verdict[w][h] = "confirmed" /\ pc[w] = "process" /\ InJob(w)
        /\ ~ \E t \in tasks : t.worker = w /\ t.hash = h /\ ~t.detached
    BY DEF MarkSubmitted, Processed, InJob
  <1>2. /\ asset' = asset /\ chain' = chain /\ DOMAIN tx' = DOMAIN tx
        /\ \A i \in DOMAIN tx : i \in S => tx'[i].state = "submitted"
        /\ \A i \in DOMAIN tx : i \notin S => tx'[i] = tx[i]
    <2>1. \A i \in DOMAIN tx : tx[i] \in TxDocs
      BY KnownFacts DEF OrdersKnown, TypeInv, TypeOK
    <2>2. \A i \in DOMAIN tx : [tx[i] EXCEPT !.state = "submitted"].state = "submitted"
      BY <2>1 DEF TxDocs
    <2> QED
      BY <2>2 DEF MarkSubmitted, portalVars
  <1>3. order' = order /\ item' = item /\ gone' = gone
    BY <1>2, SameOrders, SameItems, SameGone
  <1>4. ASSUME NEW i \in S
        PROVE  /\ i \in DOMAIN tx /\ i \in chain[h].reqs /\ IsDeep(h)
               /\ tx[i].state # "submitted" /\ Done(h, i)
    <2>1. S = chain[h].reqs /\ h \in DOMAIN chain
      BY <1>1, <1>4, FollowedAsSent DEF OrdersKnown
    <2>2. i \in DOMAIN tx
      BY <2>1, <1>4, KnownFacts DEF OrdersKnown, SendsInv
    <2>3. IsDeep(h)
      BY <1>1 DEF OrdersKnown, Known, ReceiptsInv, DeepInv
    <2>4. tx[i].state # "submitted"
      BY <1>1, <1>4 DEF OrdersKnown, Known, FinalInv, JobInv, NotSubmitted
    <2>5. Done(h, i)
      BY <1>1, <1>4 DEF OrdersKnown, DoneInv, ProcessedInTime, AwaitedBy
    <2> QED
      BY <1>4, <2>1, <2>2, <2>3, <2>4, <2>5
  <1> HIDE DEF S
  <1>5. ASSUME NEW i \in S
        PROVE  StageOf(i) = "final" /\ StageOf(i)' = "done"
    <2>1. Final(i)
      BY <1>4, <1>5 DEF Final, IsDeep
    <2> QED
      BY <1>2, <1>4, <1>5, <2>1 DEF StageOf
  <1>6. \A i \in DOMAIN tx : i \notin S => StageOf(i)' = StageOf(i)
    BY <1>2, KnownFacts, SendIsSilent, SameStage DEF OrdersKnown
  <1>7. /\ \A i \in S : stage[i] = "final"
        /\ stage' = [i \in DOMAIN stage |-> IF i \in S THEN "done" ELSE stage[i]]
    BY <1>2, <1>4, <1>5, <1>6 DEF stage
  <1>8. ASSUME NEW i \in S
        PROVE  Orders!HadEffect(i)
    <2>1. /\ i \in DOMAIN order /\ order[i].kind = tx[i].type /\ order[i].items = Named(i)
      BY <1>4, <1>8 DEF order
    <2>2. tx[i].type = IF chain[h].call = "mint" THEN "MintAsset" ELSE "BurnAsset"
      BY <1>4, <1>8, KnownFacts DEF OrdersKnown, SendsInv, IsDeep
    <2>3. CASE chain[h].call = "mint"
      <3>1. PICK a : a \in Holder(tx[i].coll, <<h, Place(chain[h].reqs, i)>>)
        BY <1>4, <1>8, <2>3 DEF Done, Minted
      <3>2. /\ a \in DOMAIN asset /\ asset[a].token[1] = h
            /\ asset[a].token[2] = Place(chain[h].reqs, i)
        BY <3>1 DEF Holder
      <3>3. asset[a].token # NoToken
        <4>1. h # 0
          BY <1>4, <1>8, KnownFacts DEF OrdersKnown, IsDeep, NoHash
        <4> QED
          BY <3>2, <4>1 DEF NoToken
      <3>4. i \in MintsOf(asset[a].token)
        BY <1>4, <1>8, <3>2, <3>3 DEF MintsOf
      <3>5. a \in DOMAIN item /\ i \in item[a].mints
        BY <3>2, <3>4 DEF item
      <3> QED
        BY <2>1, <2>2, <2>3, <3>5 DEF Orders!HadEffect
    <2>4. CASE chain[h].call # "mint"
      <3>1. Burnt(i) /\ tx[i].type = "BurnAsset"
        BY <1>4, <1>8, <2>2, <2>4 DEF Done
      <3>2. Named(i) \subseteq gone
        BY <3>1 DEF Burnt, Named, Holder, gone
      <3> QED
        BY <2>1, <3>1, <3>2 DEF Orders!HadEffect
    <2> QED
      BY <2>3, <2>4
  <1>9. Orders!Complete(S) /\ S \in SUBSET DOMAIN order
    BY <1>3, <1>4, <1>7, <1>8 DEF Orders!Complete, Orders!Move, order
  <1> QED
    BY <1>9 DEF Orders!Next

LEMMA WorkersAreOrders ==
    ASSUME OrdersKnown, OneAssetPerToken', [Next]_vars,
           NEW w \in Workers, Acquire(w) \/ JobStep(w) \/ FaultStep(w)
    PROVE  Orders!Next \/ Stutters
  <1>t. TypeInv
    BY KnownFacts DEF OrdersKnown
  <1>1. CASE \E v \in Workers, h \in Hashes : MarkSubmitted(v, h)
    BY <1>1, MarkIsComplete
  <1>2. ASSUME \A v \in Workers, h \in Hashes : ~MarkSubmitted(v, h)
        PROVE  Orders!Next \/ Stutters
    <2>1. DOMAIN tx' = DOMAIN tx /\ order' = order
      BY <1>t, WorkerTx, SameOrders
    <2>2. stage' = stage
      <3>1. chain' = chain \/ \E v \in Workers, g \in Groups : Send(v, g)
        BY OnlySendSends
      <3> QED
        BY <1>2, <2>1, <3>1, SameStages DEF OrdersKnown
    <2>3. CASE asset' = asset
      BY <2>1, <2>2, <2>3, SameItems, SameGone DEF Stutters
    <2>4. ASSUME asset' # asset
          PROVE  \E t \in tasks : SetTokenId(t) \/ SetBurnt(t)
      BY <2>4 DEF JobStep, FaultStep, Acquire, Fetch, ReadBlockNumber, Decide, StartTransact,
         Unlock, ReadReceipt, MarkSubmitted, SaveHash, Send, SendRefused, GiveUp,
         Throw, Crash, MarkFails, SaveFails, SendFails, OutsideUnchanged, requestVars,
         TaskStep, FindToken, AttributionFails
    <2> QED
      BY <2>1, <2>2, <2>3, <2>4, SetTokenIdIsGive, SetBurntIsBurn
  <1> QED
    BY <1>1, <1>2

LEMMA OrdersStep ==
    ASSUME NoReorgs, OnlyMintedBurnt, OrdersKnown, OneAssetPerToken', [Next]_vars
    PROVE  [Orders!Next]_<<order, stage, item, gone>>
  <1>1. ASSUME chain' = chain, tx' = tx, asset' = asset
        PROVE  Stutters
    <2>1. \A i \in DOMAIN tx : StageOf(i)' = StageOf(i)
      BY <1>1, KnownFacts, SendIsSilent, SameStage DEF OrdersKnown
    <2>2. stage' = stage
      BY <1>1, <2>1 DEF stage
    <2> QED
      BY <1>1, <2>2, SameOrders, SameItems, SameGone DEF Stutters
  <1>2. ASSUME LockExpires
        PROVE  Stutters
    BY <1>1, <1>2 DEF LockExpires, requestVars
  <1>3. ASSUME UNCHANGED vars
        PROVE  Stutters
    BY <1>1, <1>3 DEF vars, portalVars, requestVars
  <1>4. Orders!Next \/ Stutters
    BY <1>1, <1>2, <1>3, RequestsAreOrders, ChainIsOrders, WorkersAreOrders DEF Next
  <1> QED
    BY <1>4 DEF Stutters

LEMMA OrdersInvariance == NothingIsLost /\ OnlyMintedBurnt => (Spec => []OrdersKnown)
  <1> SUFFICES ASSUME NothingIsLost, OnlyMintedBurnt PROVE Spec => []OrdersKnown
    OBVIOUS
  <1>1. Init => TokensHaveMints
    BY DEF Init, RequestInit, TokensHaveMints
  <1>2. Known /\ DoneInv /\ PlayersHoldFinalTokens /\ TokensHaveMints /\ [Next]_vars
           => TokensHaveMints'
    BY TokensHaveMintsStep DEF DoneInv
  <1>3. TTLHolds /\ NoReorgs /\ BurntStaysBurnt
    BY DEF NothingIsLost, OnlyMintedBurnt, BurntStaysBurnt
  <1>4. Spec => /\ []Known /\ []DoneInv /\ []AsksInv /\ []LiveInv /\ []LifeInv
                /\ []OneAssetPerToken /\ []PlayersHoldFinalTokens
    BY <1>3, RecordInvariance, DoneInvariance, AsksInvariance, LiveInvariance, LifeInvariance,
       UniqueTokens, TokensAreFinal
  <1> QED
    BY <1>1, <1>2, <1>4, PTL DEF Spec, OrdersKnown

(* Jobs, batches, receipts and attributions, of any number of workers and   *)
(* with any failed calls, reverts, drops and aborted requests, carry out    *)
(* every order once, make it final, have its effect on one asset of its     *)
(* player and mark it done, in this order, as long as nothing of a send is  *)
(* lost and the studio burns minted assets only (TransactionWorker.ts, the  *)
(* receipt processor and the services of assets).                           *)
THEOREM RequestsImplementOrders ==
    NothingIsLost /\ OnlyMintedBurnt => (Spec => ImplementsAssetOrders)
  <1> SUFFICES ASSUME NothingIsLost, OnlyMintedBurnt PROVE Spec => ImplementsAssetOrders
    OBVIOUS
  <1>1. Init => Orders!Init
    BY DEF Init, PortalInit, RequestInit, Orders!Init, order, stage, item, gone
  <1>2. OrdersKnown /\ OrdersKnown' /\ [Next]_vars => [Orders!Next]_<<order, stage, item, gone>>
    BY OrdersStep DEF OrdersKnown, NothingIsLost
  <1>3. <<order, stage, item, gone>> = Orders!orderVars
    BY DEF Orders!orderVars
  <1> QED
    BY <1>1, <1>2, <1>3, OrdersInvariance, PTL
       DEF Spec, ImplementsAssetOrders, Orders!Spec, Orders!orderVars
=============================================================================
