------------------------- MODULE SubmissionsProofs -------------------------
(***************************************************************************)
(* Theorems about what the documents say of the sends, for any number of   *)
(* workers and documents and any faults but one: lockTTL outlives a job.   *)
(***************************************************************************)
EXTENDS TokensProofs

-----------------------------------------------------------------------------
(* The Transactions that record a hash are those of its send, or none.  A   *)
(* job saves a hash over what it read some awaits ago, so the invariant     *)
(* says what has become since of each Transaction the job has read: it is   *)
(* as it was read, or this job marked it, or this job saved one of its own  *)
(* sends in it.  The sends it has yet to save are batches of different      *)
(* groups, of Transactions still as they were read.                         *)

Recording(h) == {i \in DOMAIN tx : tx[i].hash = h}
SameState ==
    \A i, j \in DOMAIN tx :
        tx[i].hash = tx[j].hash /\ tx[i].hash # NoHash => tx[i].state = tx[j].state

Untouched(w, i) == tx[i] = snap[w][i]
Marked(w, i) ==
    /\ snap[w][i].state = "submitting" /\ verdict[w][snap[w][i].hash] = "settled"
    /\ tx[i] = [snap[w][i] EXCEPT !.state = "submitted"]
NotRead(w, h) == \A j \in DOMAIN snap[w] : snap[w][j].hash # h
Resent(w, i) ==
    /\ pc[w] = "transact" /\ i \in ToTransact(w) /\ GroupOf(i) \notin toSend[w]
    /\ tx[i].hash \notin unsaved[w] /\ NotRead(w, tx[i].hash)

Unrecorded(w, h) ==
    /\ Recording(h) = {} /\ NotRead(w, h)
    /\ \E g \in Groups \ toSend[w] : chain[h].reqs = Batch(w, g)
    /\ \A i \in chain[h].reqs : Untouched(w, i)
    /\ \A g \in unsaved[w] : g # h => chain[g].reqs \cap chain[h].reqs = {}

InJob(w) == pc[w] \notin {"idle", "fetch", "unlock"}
SnapInv(w) ==
    InJob(w) =>
        /\ \A i \in DOMAIN tx \ DOMAIN snap[w] : tx[i].state = "pending"
        /\ \A i \in DOMAIN snap[w] :
              /\ snap[w][i].state = "pending" => snap[w][i].hash = NoHash
              /\ Untouched(w, i) \/ Marked(w, i) \/ Resent(w, i)
        /\ \A h \in unsaved[w] : Unrecorded(w, h)
        /\ pc[w] = "receipts" => \A h \in Hashes : verdict[w][h] # "settled"

RecordInv == SameState /\ RecordedAsSent /\ \A w \in Workers : SnapInv(w)

(* What the steps below start from.                                         *)
Known == FinalInv /\ ReceiptsInv /\ RecordInv

LEMMA KnownFacts ==
    ASSUME Known
    PROVE  /\ TypeInv /\ SendsInv /\ HashInv /\ SameState /\ RecordedAsSent
           /\ DOMAIN chain = 1 .. Len(chain) /\ Len(chain) \in Nat
           /\ \A i \in DOMAIN tx : tx[i].hash # NoHash => RecordsSend(i, tx[i].hash)
           /\ \A i \in DOMAIN tx : tx[i].state = "pending" => tx[i].hash = NoHash
           /\ \A h \in DOMAIN chain : h # NoHash
  <1>1. DOMAIN chain = 1 .. Len(chain) /\ Len(chain) \in Nat
    BY DEF Known, FinalInv, TypeInv, TypeOK
  <1> QED
    BY <1>1 DEF Known, FinalInv, ReceiptsInv, RecordInv, HashInv, NoHash

(* The Transactions that record a hash a job follows are followed by it, as *)
(* long as one of them is as the job has read it.                           *)
LEMMA AllFollowed ==
    ASSUME Known, NEW w \in Workers, InJob(w), NEW h, NEW i \in Following(w, h),
           Untouched(w, i)
    PROVE  Recording(h) \subseteq Following(w, h) /\ tx[i].hash = h /\ i \in DOMAIN tx
  <1>0. SnapInv(w) /\ DOMAIN snap[w] \subseteq DOMAIN tx
    BY KnownFacts, FollowingType DEF Known, RecordInv
  <1>1. i \in DOMAIN tx /\ tx[i].hash = h /\ tx[i].state = "submitting"
    BY <1>0 DEF Following, Untouched
  <1>2. h # NoHash
    BY <1>1, KnownFacts DEF Known, ReceiptsInv, HashInv, RecordsSend
  <1>3. ASSUME NEW j \in Recording(h)
        PROVE  j \in Following(w, h)
    <2>1. j \in DOMAIN tx /\ tx[j].hash = h /\ tx[j].state = "submitting"
      BY <1>1, <1>2, KnownFacts DEF Recording, SameState
    <2>2. j \in DOMAIN snap[w]
      BY <1>0, <2>1 DEF SnapInv
    <2>3. ~Marked(w, j)
      <3>1. SUFFICES ASSUME Marked(w, j) PROVE FALSE
        OBVIOUS
      <3>2. snap[w] \in Seq(TxDocs) /\ snap[w][j] \in TxDocs
        BY <2>2, KnownFacts DEF TypeInv, TypeOK
      <3>3. [snap[w][j] EXCEPT !.state = "submitted"].state = "submitted"
        BY <3>2 DEF TxDocs
      <3> QED
        BY <2>1, <3>1, <3>3 DEF Marked
    <2>4. ~Resent(w, j)
      BY <2>1 DEF Resent, NotRead, Following
    <2>5. Untouched(w, j)
      BY <1>0, <2>2, <2>3, <2>4 DEF SnapInv
    <2> QED
      BY <2>1, <2>2, <2>5 DEF Untouched, Following
  <1> QED
    BY <1>1, <1>3

(* Before it sends, a job has touched none of those whose receipt is not    *)
(* settled.                                                                 *)
LEMMA FollowedUntouched ==
    ASSUME NEW w, SnapInv(w), InJob(w), pc[w] # "transact", NEW h, verdict[w][h] # "settled",
           NEW i \in Following(w, h)
    PROVE  Untouched(w, i)
  BY DEF SnapInv, Marked, Resent, Following

(* The batches of a job take the Transactions that record a hash together.  *)
LEMMA BatchIsWhole ==
    ASSUME Known, NEW w \in Workers, InJob(w), NEW g, NEW h \in DOMAIN chain,
           NEW i \in Recording(h), i \in Batch(w, g), Untouched(w, i)
    PROVE  Recording(h) \subseteq Batch(w, g)
  <1>1. i \in DOMAIN tx /\ tx[i].hash = h /\ h # NoHash
    BY KnownFacts DEF Recording
  <1>2. tx[i].state # "pending"
    BY <1>1, KnownFacts
  <1>3. i \in Rejected(w) /\ GroupOf(i) = g
    BY <1>2 DEF Batch, ToTransact, Pending, Untouched
  <1>4. PICK k \in Hashes : verdict[w][k] = "rejected" /\ i \in Following(w, k)
    BY <1>3 DEF Rejected
  <1>5. k = h
    BY <1>1, <1>4 DEF Following, Untouched
  <1>6. Recording(h) \subseteq Following(w, h)
    BY <1>4, <1>5, AllFollowed
  <1>7. Recording(h) \subseteq ToTransact(w)
    BY <1>4, <1>5, <1>6 DEF ToTransact, Rejected
  <1>8. \A j \in Recording(h) : GroupOf(j) = GroupOf(i)
    <2>1. \A j \in Recording(h) : j \in chain[h].reqs
      BY <1>1, KnownFacts DEF Recording, RecordsSend
    <2> QED
      BY <2>1, KnownFacts DEF SendsInv, GroupOf
  <1> QED
    BY <1>3, <1>7, <1>8 DEF Batch

-----------------------------------------------------------------------------
(* Steps that touch no Transaction.                                         *)

LEMMA SameBatches ==
    ASSUME Known, NEW w \in Workers, snap'[w] = snap[w], verdict'[w] = verdict[w],
           \A i \in DOMAIN tx : SameRequest(tx'[i], tx[i])
    PROVE  /\ ToTransact(w)' = ToTransact(w)
           /\ \A i \in ToTransact(w) : GroupOf(i)' = GroupOf(i)
           /\ \A g : Batch(w, g)' = Batch(w, g)
  <1>1. ToTransact(w)' = ToTransact(w)
    BY DEF ToTransact, Pending, Rejected, Following
  <1>2. ToTransact(w) \subseteq DOMAIN tx
    BY KnownFacts, FollowingType
  <1>3. \A i \in ToTransact(w) : GroupOf(i)' = GroupOf(i)
    BY <1>2 DEF GroupOf, SameRequest
  <1> QED
    BY <1>1, <1>3 DEF Batch

LEMMA SameRecording ==
    ASSUME Known, [Next]_vars, \A i \in DOMAIN tx : tx'[i].hash = tx[i].hash,
           NEW h, h # NoHash
    PROVE  Recording(h)' = Recording(h)
  <1>1. \A i \in DOMAIN tx' \ DOMAIN tx : tx'[i].hash = NoHash
    BY TxStep, KnownFacts DEF IsNew
  <1>2. DOMAIN tx \subseteq DOMAIN tx'
    BY TxStep, KnownFacts
  <1> QED
    BY <1>1, <1>2 DEF Recording

LEMMA SnapFrame ==
    ASSUME Known, [Next]_vars, NEW w \in Workers, pc'[w] = pc[w], snap'[w] = snap[w],
           verdict'[w] = verdict[w], toSend'[w] \subseteq toSend[w], unsaved'[w] \subseteq unsaved[w],
           \A i \in DOMAIN tx : tx'[i] = tx[i]
    PROVE  SnapInv(w)'
  <1> SUFFICES ASSUME InJob(w) PROVE SnapInv(w)'
    BY DEF SnapInv, InJob
  <1>0. /\ SnapInv(w) /\ DOMAIN snap[w] \subseteq DOMAIN tx /\ unsaved[w] \subseteq DOMAIN chain
        /\ \A i \in DOMAIN tx' \ DOMAIN tx : tx'[i].state = "pending"
    BY KnownFacts, FollowingType, TxStep DEF Known, RecordInv, HashInv, IsNew
  <1>1. /\ ToTransact(w)' = ToTransact(w)
        /\ \A i \in ToTransact(w) : GroupOf(i)' = GroupOf(i)
        /\ \A g : Batch(w, g)' = Batch(w, g)
    BY SameBatches DEF SameRequest
  <1>2. \A h : NotRead(w, h)' <=> NotRead(w, h)
    BY DEF NotRead
  <1>3. ASSUME NEW i \in DOMAIN snap[w]
        PROVE  /\ Untouched(w, i) => Untouched(w, i)'
               /\ Marked(w, i) => Marked(w, i)'
               /\ Resent(w, i) => Resent(w, i)'
    <2>1. i \in DOMAIN tx /\ tx'[i] = tx[i]
      BY <1>0
    <2>2. Resent(w, i) => NotRead(w, tx[i].hash)'
      BY <1>2, <2>1 DEF Resent, NotRead
    <2> QED
      BY <1>1, <2>1, <2>2 DEF Untouched, Marked, Resent
  <1>4. ASSUME NEW h \in unsaved'[w]
        PROVE  Unrecorded(w, h)'
    <2>0. h \in unsaved[w] /\ h \in DOMAIN chain
      BY <1>0
    <2>1. Unrecorded(w, h)
      BY <1>0, <2>0 DEF SnapInv
    <2>2. Recording(h)' = {}
      BY <2>0, <2>1, SameRecording, KnownFacts DEF Unrecorded
    <2>3. /\ chain'[h].reqs = chain[h].reqs
          /\ \A g \in unsaved'[w] : chain'[g].reqs = chain[g].reqs
      BY <1>0, <2>0, SendsKept, KnownFacts
    <2>4. chain[h].reqs \subseteq DOMAIN snap[w]
      BY <2>1 DEF Unrecorded, Batch, ToTransact, Pending, Rejected, Following
    <2>5. \E g \in Groups \ toSend'[w] : chain'[h].reqs = Batch(w, g)'
      BY <1>1, <2>1, <2>3 DEF Unrecorded
    <2>6. \A i \in chain'[h].reqs : Untouched(w, i)'
      BY <1>3, <2>1, <2>3, <2>4 DEF Unrecorded
    <2>7. \A g \in unsaved'[w] : g # h => chain'[g].reqs \cap chain'[h].reqs = {}
      BY <2>1, <2>3 DEF Unrecorded
    <2>8. NotRead(w, h)'
      BY <1>2, <2>1 DEF Unrecorded
    <2> QED
      BY <2>2, <2>5, <2>6, <2>7, <2>8 DEF Unrecorded
  <1> QED
    BY <1>0, <1>3, <1>4 DEF SnapInv, InJob

(* Steps of a job that has not begun to send.                               *)
LEMMA SnapChange ==
    ASSUME Known, [Next]_vars, NEW w \in Workers, snap'[w] = snap[w], unsaved'[w] = {}, tx' = tx,
           InJob(w), pc[w] # "transact",
           \A h \in Hashes : /\ verdict[w][h] = "settled" => verdict'[w][h] = "settled"
                             /\ pc'[w] = "receipts" => verdict'[w][h] # "settled"
    PROVE  SnapInv(w)'
  <1>1. SnapInv(w) /\ DOMAIN snap[w] \subseteq DOMAIN tx
    BY KnownFacts, FollowingType DEF Known, RecordInv
  <1>2. ASSUME NEW i \in DOMAIN snap[w]
        PROVE  Untouched(w, i)' \/ Marked(w, i)'
    <2>1. Untouched(w, i) \/ Marked(w, i)
      BY <1>1 DEF SnapInv, Resent
    <2>2. Untouched(w, i) => Untouched(w, i)'
      BY DEF Untouched
    <2>3. ASSUME Marked(w, i)
          PROVE  Marked(w, i)'
      <3>1. snap[w][i].hash \in Hashes
        <4>1. snap[w] \in Seq(TxDocs) /\ snap[w][i] \in TxDocs
          BY KnownFacts DEF TypeInv, TypeOK
        <4>2. RecordsSend(i, snap[w][i].hash)
          BY <2>3, KnownFacts DEF Marked, HashInv
        <4> QED
          BY <4>1, <4>2, KnownFacts DEF TxDocs, RecordsSend
      <3> QED
        BY <2>3, <3>1 DEF Marked
    <2> QED
      BY <2>1, <2>2, <2>3
  <1> QED
    BY <1>1, <1>2 DEF SnapInv, InJob

LEMMA OwnFrame ==
    ASSUME Known, [Next]_vars, NEW w \in Workers, SnapInv(w)', tx' = tx,
           \A h \in DOMAIN chain' : h \in DOMAIN chain
    PROVE  SameState' /\ RecordedAsSent'
  <1>1. SameState'
    BY KnownFacts DEF SameState
  <1>2. \A h \in DOMAIN chain' : chain'[h].reqs = chain[h].reqs
    BY SendsKept, KnownFacts
  <1> QED
    BY <1>1, <1>2, KnownFacts DEF RecordedAsSent

LEMMA OneStarts ==
    ASSUME Known, [Next]_vars, NEW w \in Workers, Fetch(w) \/ ReadBlockNumber(w)
    PROVE  SnapInv(w)'
  <1>t. /\ pc \in [Workers -> PCs] /\ snap \in [Workers -> Seq(TxDocs)]
        /\ verdict \in [Workers -> [Hashes -> Verdicts]]
        /\ unsaved \in [Workers -> SUBSET Hashes]
    BY KnownFacts DEF TypeInv, TypeOK
  <1>i. JobInv(w) /\ SnapInv(w)
    BY DEF Known, FinalInv, RecordInv
  <1>1. CASE Fetch(w)
    <2>1. unsaved[w] = {}
      BY <1>1, <1>i, NothingUnsaved DEF Fetch
    <2>2. /\ pc'[w] \in {"block", "transact"} /\ snap'[w] = tx /\ tx' = tx /\ unsaved'[w] = {}
      BY <1>1, <1>t, <2>1 DEF Fetch, Goto, OutsideUnchanged, requestVars
    <2> QED
      BY <2>2, KnownFacts DEF SnapInv, Untouched, InJob
  <1>2. CASE ReadBlockNumber(w)
    <2>1. unsaved[w] = {} /\ \A h \in Hashes : verdict[w][h] # "settled"
      BY <1>2, <1>i, NothingUnsaved DEF ReadBlockNumber, JobInv
    <2>2. /\ snap'[w] = snap[w] /\ tx' = tx /\ unsaved'[w] = {} /\ pc[w] = "block"
      BY <1>2, <1>t, <2>1 DEF ReadBlockNumber, OutsideUnchanged, requestVars
    <2>3. \A h \in Hashes : verdict'[w][h] # "settled"
      BY <1>2, <1>t DEF ReadBlockNumber
    <2> QED
      BY <2>1, <2>2, <2>3, SnapChange DEF InJob
  <1> QED
    BY <1>1, <1>2

LEMMA OneFollows ==
    ASSUME Known, [Next]_vars, NEW w \in Workers,
           \/ \E h \in Hashes : ReadReceipt(w, h) \/ MarkFails(w, h)
           \/ Decide(w) \/ StartTransact(w)
    PROVE  SnapInv(w)'
  <1>t. /\ pc \in [Workers -> PCs] /\ snap \in [Workers -> Seq(TxDocs)]
        /\ verdict \in [Workers -> [Hashes -> Verdicts]]
        /\ unsaved \in [Workers -> SUBSET Hashes]
    BY KnownFacts DEF TypeInv, TypeOK
  <1>i. JobInv(w) /\ SnapInv(w)
    BY DEF Known, FinalInv, RecordInv
  <1>1. ASSUME NEW h \in Hashes, ReadReceipt(w, h)
        PROVE  SnapInv(w)'
    <2>1. unsaved[w] = {} /\ pc[w] = "receipts"
      BY <1>1, <1>i, NothingUnsaved DEF ReadReceipt
    <2>2. snap'[w] = snap[w] /\ tx' = tx /\ unsaved'[w] = {}
      BY <1>1, <1>t, <2>1 DEF ReadReceipt, OutsideUnchanged, requestVars
    <2>3. Judge(w, h) # "settled" /\ verdict' = [verdict EXCEPT ![w][h] = Judge(w, h)]
      BY <1>1 DEF ReadReceipt, SetVerdict, Judge
    <2>4. \A g \in Hashes : verdict[w][g] # "settled" /\ verdict'[w][g] # "settled"
      BY <1>i, <1>t, <2>1, <2>3 DEF SnapInv, InJob
    <2> QED
      BY <2>1, <2>2, <2>4, SnapChange DEF InJob
  <1>2. ASSUME NEW h \in Hashes, MarkFails(w, h)
        PROVE  SnapInv(w)'
    <2>1. unsaved[w] = {} /\ pc[w] = "process"
      BY <1>2, <1>i, NothingUnsaved DEF MarkFails, Processed
    <2>2. snap'[w] = snap[w] /\ tx' = tx /\ unsaved'[w] = {} /\ pc'[w] = "process"
      BY <1>2, <1>t, <2>1 DEF MarkFails, requestVars
    <2>3. \A g \in Hashes : verdict[w][g] = "settled" => verdict'[w][g] = "settled"
      BY <1>2, <1>t DEF MarkFails, SetVerdict
    <2> QED
      BY <2>1, <2>2, <2>3, SnapChange DEF InJob
  <1>3. CASE Decide(w)
    <2>1. unsaved[w] = {} /\ pc[w] = "receipts"
      BY <1>3, <1>i, NothingUnsaved DEF Decide
    <2>2. /\ snap'[w] = snap[w] /\ tx' = tx /\ unsaved'[w] = {} /\ verdict' = verdict
          /\ pc'[w] # "receipts"
      BY <1>3, <1>t, <2>1 DEF Decide, Goto, OutsideUnchanged, requestVars
    <2> QED
      BY <2>1, <2>2, SnapChange DEF InJob
  <1>4. CASE StartTransact(w)
    <2>1. unsaved[w] = {} /\ pc[w] = "process"
      BY <1>4, <1>i, NothingUnsaved DEF StartTransact
    <2>2. /\ snap'[w] = snap[w] /\ tx' = tx /\ unsaved'[w] = {} /\ verdict' = verdict
          /\ pc'[w] = "transact"
      BY <1>4, <1>t, <2>1 DEF StartTransact, Goto, OutsideUnchanged, requestVars
    <2> QED
      BY <2>1, <2>2, SnapChange DEF InJob
  <1> QED
    BY <1>1, <1>2, <1>3, <1>4

(* An attribution may settle a receipt.                                     *)
LEMMA OneAttributes ==
    ASSUME Known, [Next]_vars, NEW w \in Workers, NEW t \in tasks, t.worker = w,
           TaskStep(t) \/ AttributionFails(t)
    PROVE  SnapInv(w)'
  <1>t. /\ verdict \in [Workers -> [Hashes -> Verdicts]]
    BY KnownFacts DEF TypeInv, TypeOK
  <1>1. pc' = pc /\ snap' = snap /\ tx' = tx /\ unsaved' = unsaved /\ toSend' = toSend
    BY DEF TaskStep, FindToken, SetTokenId, SetBurnt, AttributionFails, TaskOutside, requestVars
  <1>2. CASE verdict' = verdict
    BY <1>1, <1>2, SnapFrame
  <1>3. CASE verdict' # verdict
    <2>1. ~t.detached /\ SetVerdict(w, t.hash, "settled")
      BY <1>3 DEF TaskStep, FindToken, SetTokenId, SetBurnt, AttributionFails, Reject
    <2>2. pc[w] = "process"
      BY <2>1 DEF Known, FinalInv, TaskInv
    <2>3. unsaved[w] = {}
      BY <2>2, NothingUnsaved DEF Known, FinalInv
    <2>4. \A h \in Hashes : verdict[w][h] = "settled" => verdict'[w][h] = "settled"
      BY <1>t, <2>1 DEF SetVerdict
    <2> QED
      BY <1>1, <2>2, <2>3, <2>4, SnapChange DEF InJob
  <1> QED
    BY <1>2, <1>3

-----------------------------------------------------------------------------
(* markSubmitted.                                                           *)

LEMMA OneMarks ==
    ASSUME Known, [Next]_vars, NEW w \in Workers, NEW h \in Hashes, MarkSubmitted(w, h)
    PROVE  SnapInv(w)' /\ SameState' /\ RecordedAsSent'
  <1>t. /\ verdict \in [Workers -> [Hashes -> Verdicts]] /\ snap[w] \in Seq(TxDocs)
        /\ \A i \in DOMAIN tx : tx[i] \in TxDocs
        /\ DOMAIN snap[w] \subseteq DOMAIN tx
    BY KnownFacts, FollowingType DEF TypeInv, TypeOK
  <1>i. JobInv(w) /\ SnapInv(w)
    BY DEF Known, FinalInv, RecordInv
  <1>1. /\ pc[w] = "process" /\ InJob(w) /\ verdict[w][h] = "confirmed" /\ unsaved[w] = {}
        /\ pc' = pc /\ snap' = snap /\ unsaved' = unsaved /\ chain' = chain
        /\ verdict' = [verdict EXCEPT ![w][h] = "settled"]
    BY <1>i, NothingUnsaved DEF MarkSubmitted, Processed, InJob, SetVerdict, portalVars
  <1> DEFINE doc(i) == [tx[i] EXCEPT !.state = "submitted"]
  <1>2. /\ DOMAIN tx' = DOMAIN tx
        /\ \A i \in DOMAIN tx : tx'[i] = IF i \in Following(w, h) THEN doc(i) ELSE tx[i]
    BY DEF MarkSubmitted
  <1>3. \A i \in DOMAIN tx : doc(i).hash = tx[i].hash /\ doc(i).state = "submitted"
    BY <1>t DEF TxDocs
  <1>4. \A i \in Following(w, h) : doc(i) = [snap[w][i] EXCEPT !.state = "submitted"]
    BY <1>1, <1>i, FollowedUntouched DEF Untouched
  <1> HIDE DEF doc
  <1>5. \A i \in DOMAIN tx : tx'[i].hash = tx[i].hash
    BY <1>2, <1>3
  <1>6. RecordedAsSent'
    BY <1>1, <1>2, <1>5, KnownFacts DEF RecordedAsSent
  <1>7. ASSUME NEW i \in DOMAIN tx, NEW j \in DOMAIN tx, i \in Following(w, h),
               tx[i].hash = tx[j].hash
        PROVE  j \in Following(w, h)
    <2>1. Untouched(w, i)
      BY <1>1, <1>i, <1>7, FollowedUntouched
    <2>2. Recording(h) \subseteq Following(w, h) /\ tx[i].hash = h
      BY <1>1, <1>7, <2>1, AllFollowed
    <2> QED
      BY <1>7, <2>2 DEF Recording
  <1>8. SameState'
    BY <1>2, <1>3, <1>5, <1>7, KnownFacts DEF SameState
  <1>9. ASSUME NEW i \in DOMAIN snap[w]
        PROVE  Untouched(w, i)' \/ Marked(w, i)'
    <2>1. CASE i \in Following(w, h)
      <3>1. tx'[i] = [snap[w][i] EXCEPT !.state = "submitted"]
        BY <1>2, <1>4, <1>t, <2>1
      <3>2. snap[w][i].state = "submitting" /\ snap[w][i].hash = h /\ verdict'[w][h] = "settled"
        BY <1>1, <1>t, <2>1 DEF Following
      <3> QED
        BY <1>1, <3>1, <3>2 DEF Marked
    <2>2. CASE i \notin Following(w, h)
      <3>1. tx'[i] = tx[i]
        BY <1>2, <1>t, <2>2
      <3>2. Untouched(w, i) \/ Marked(w, i)
        BY <1>1, <1>i DEF SnapInv, Resent
      <3>3. Untouched(w, i) => Untouched(w, i)'
        BY <1>1, <3>1 DEF Untouched
      <3>4. ASSUME Marked(w, i)
            PROVE  Marked(w, i)'
        <4>1. snap[w][i].hash # h
          BY <1>1, <3>4 DEF Marked
        <4>2. verdict'[w][snap[w][i].hash] = verdict[w][snap[w][i].hash]
          BY <1>1, <1>t, <4>1
        <4> QED
          BY <1>1, <3>1, <3>4, <4>2 DEF Marked
      <3> QED
        BY <3>2, <3>3, <3>4
    <2> QED
      BY <2>1, <2>2
  <1>10. \A i \in DOMAIN tx' \ DOMAIN snap'[w] : tx'[i].state = "pending"
    <2>1. Following(w, h) \subseteq DOMAIN snap[w]
      BY DEF Following
    <2> QED
      BY <1>1, <1>2, <1>i, <2>1 DEF SnapInv
  <1>11. SnapInv(w)'
    BY <1>1, <1>9, <1>10, <1>i DEF SnapInv, InJob
  <1> QED
    BY <1>6, <1>8, <1>11

-----------------------------------------------------------------------------
(* transact: a new send, and the save of its hash.                          *)

(* What a job is about to send it has touched none of.                      *)
LEMMA BatchUntouched ==
    ASSUME NEW w, SnapInv(w), InJob(w), NEW g \in toSend[w], NEW i \in Batch(w, g)
    PROVE  Untouched(w, i)
  <1>1. i \in DOMAIN snap[w] /\ GroupOf(i) = g
    BY DEF Batch, ToTransact, Pending, Rejected, Following
  <1>2. ~Marked(w, i)
    BY DEF Marked, Batch, ToTransact, Pending, Rejected, Following
  <1> QED
    BY <1>1, <1>2 DEF SnapInv, Resent

LEMMA OneSends ==
    ASSUME Known, [Next]_vars, NEW w \in Workers, NEW g \in Groups, Send(w, g)
    PROVE  SnapInv(w)' /\ SameState' /\ RecordedAsSent'
  <1>t. /\ unsaved \in [Workers -> SUBSET Hashes] /\ toSend \in [Workers -> SUBSET Groups]
        /\ DOMAIN snap[w] \subseteq DOMAIN tx
    BY KnownFacts, FollowingType DEF TypeInv, TypeOK
  <1>i. SnapInv(w)
    BY DEF Known, RecordInv
  <1>0. PICK h : h = Len(chain) + 1
    OBVIOUS
  <1>1. /\ pc[w] = "transact" /\ InJob(w) /\ g \in toSend[w] /\ pc' = pc /\ snap' = snap
        /\ verdict' = verdict /\ tx' = tx /\ toSend'[w] = toSend[w] \ {g}
        /\ unsaved'[w] = unsaved[w] \cup {h}
    BY <1>0, <1>t DEF Send, InJob, requestVars
  <1>2. /\ DOMAIN chain' = DOMAIN chain \cup {h} /\ h \in Hashes
        /\ chain'[h].reqs = Batch(w, g)
        /\ \A k \in DOMAIN chain : chain'[k] = chain[k]
    BY <1>0, SendAppends, KnownFacts DEF SentFor, IsSendOf
  <1>3. h \notin DOMAIN chain /\ h # NoHash
    BY <1>0, KnownFacts DEF NoHash
  <1>4. \A i \in DOMAIN tx : tx[i].hash # h
    BY <1>3, KnownFacts DEF RecordsSend
  <1>5. NotRead(w, h)
    <2> SUFFICES ASSUME NEW j \in DOMAIN snap[w] PROVE snap[w][j].hash # h
      BY DEF NotRead
    <2>1. CASE snap[w][j].state = "pending"
      BY <1>1, <1>3, <1>i, <2>1 DEF SnapInv
    <2>2. CASE snap[w][j].state # "pending"
      BY <1>3, <2>2, KnownFacts DEF HashInv, RecordsSend
    <2> QED
      BY <2>1, <2>2
  <1>6. /\ ToTransact(w)' = ToTransact(w)
        /\ \A i : GroupOf(i)' = GroupOf(i)
        /\ \A k : Batch(w, k)' = Batch(w, k)
    BY <1>1 DEF ToTransact, Pending, Rejected, Following, GroupOf, Batch
  <1>7. \A k : Recording(k)' = Recording(k) /\ NotRead(w, k)' = NotRead(w, k)
    BY <1>1 DEF Recording, NotRead
  <1>8. \A i : Untouched(w, i)' = Untouched(w, i) /\ Marked(w, i)' = Marked(w, i)
    BY <1>1 DEF Untouched, Marked
  <1>9. \A i \in DOMAIN snap[w] : Resent(w, i) => Resent(w, i)'
    BY <1>1, <1>4, <1>6, <1>7, <1>t DEF Resent
  <1>10. unsaved[w] \subseteq DOMAIN chain
    BY KnownFacts DEF HashInv
  <1>11. ASSUME NEW k \in unsaved[w]
         PROVE  Unrecorded(w, k)' /\ chain'[k].reqs \cap Batch(w, g) = {}
    <2>1. Unrecorded(w, k) /\ chain'[k] = chain[k] /\ k # h
      BY <1>1, <1>2, <1>3, <1>10, <1>i DEF SnapInv
    <2>2. PICK e \in Groups \ toSend[w] : chain[k].reqs = Batch(w, e)
      BY <2>1 DEF Unrecorded
    <2>3. e # g /\ e \in Groups \ toSend'[w]
      BY <1>1, <2>2
    <2>4. chain'[k].reqs \cap Batch(w, g) = {}
      BY <2>1, <2>2, <2>3 DEF Batch
    <2>5. \A f \in unsaved'[w] : f # k => chain'[f].reqs \cap chain'[k].reqs = {}
      BY <1>1, <1>2, <1>10, <2>1, <2>4 DEF Unrecorded
    <2>6. \E f \in Groups \ toSend'[w] : chain'[k].reqs = Batch(w, f)'
      BY <1>6, <2>1, <2>2, <2>3
    <2>7. \A i \in chain'[k].reqs : Untouched(w, i)'
      BY <1>8, <2>1 DEF Unrecorded
    <2>8. Recording(k)' = {} /\ NotRead(w, k)'
      BY <1>7, <2>1 DEF Unrecorded
    <2> QED
      BY <2>4, <2>5, <2>6, <2>7, <2>8 DEF Unrecorded
  <1>12. Unrecorded(w, h)'
    <2>1. Recording(h) = {}
      BY <1>4 DEF Recording
    <2>2. \A i \in Batch(w, g) : Untouched(w, i)
      BY <1>1, <1>i, BatchUntouched
    <2>3. \A f \in unsaved'[w] : f # h => chain'[f].reqs \cap chain'[h].reqs = {}
      BY <1>1, <1>2, <1>11
    <2>4. g \in Groups \ toSend'[w] /\ chain'[h].reqs = Batch(w, g)'
      BY <1>1, <1>2, <1>6
    <2>5. Recording(h)' = {} /\ NotRead(w, h)'
      BY <1>5, <1>7, <2>1
    <2>6. \A i \in chain'[h].reqs : Untouched(w, i)'
      BY <1>2, <1>8, <2>2
    <2> QED
      BY <2>3, <2>4, <2>5, <2>6 DEF Unrecorded
  <1>13. \A k \in unsaved'[w] : Unrecorded(w, k)'
    BY <1>1, <1>11, <1>12
  <1>14. SnapInv(w)'
    BY <1>1, <1>8, <1>9, <1>13, <1>i DEF SnapInv, InJob
  <1>15. SameState'
    BY <1>1, KnownFacts DEF SameState
  <1>16. RecordedAsSent'
    <2> SUFFICES ASSUME NEW k \in DOMAIN chain'
                 PROVE  {i \in DOMAIN tx' : tx'[i].hash = k} \in {{}, chain'[k].reqs}
      BY DEF RecordedAsSent
    <2>1. CASE k = h
      BY <1>1, <1>4, <2>1
    <2>2. CASE k # h
      BY <1>1, <1>2, <2>2, KnownFacts DEF RecordedAsSent
    <2> QED
      BY <2>1, <2>2
  <1> QED
    BY <1>14, <1>15, <1>16

LEMMA OneSaves ==
    ASSUME Known, [Next]_vars, NEW w \in Workers, NEW h \in Hashes, SaveHash(w, h)
    PROVE  SnapInv(w)' /\ SameState' /\ RecordedAsSent'
  <1>t. /\ unsaved \in [Workers -> SUBSET Hashes] /\ toSend \in [Workers -> SUBSET Groups]
        /\ DOMAIN snap[w] \subseteq DOMAIN tx
        /\ \A i \in DOMAIN tx : tx[i] \in TxDocs
    BY KnownFacts, FollowingType DEF TypeInv, TypeOK
  <1>i. SnapInv(w) /\ JobInv(w)
    BY DEF Known, FinalInv, RecordInv
  <1>1. /\ h \in unsaved[w] /\ pc[w] = "transact" /\ InJob(w) /\ h \in DOMAIN chain
        /\ pc' = pc /\ snap' = snap /\ verdict' = verdict /\ toSend' = toSend
        /\ chain' = chain /\ unsaved'[w] = unsaved[w] \ {h}
    BY <1>i, <1>t DEF SaveHash, JobInv, InJob, portalVars
  <1>2. Unrecorded(w, h)
    BY <1>1, <1>i DEF SnapInv
  <1>3. PICK g \in Groups \ toSend[w] : chain[h].reqs = Batch(w, g)
    BY <1>2 DEF Unrecorded
  <1>4. PICK R : R = chain[h].reqs
    OBVIOUS
  <1>5. /\ R = Batch(w, g) /\ R \subseteq ToTransact(w) /\ R \subseteq DOMAIN snap[w]
        /\ \A i \in R : Untouched(w, i) /\ GroupOf(i) = g
    BY <1>2, <1>3, <1>4 DEF Unrecorded, Batch, ToTransact, Pending, Rejected, Following
  <1> DEFINE doc(i) == [tx[i] EXCEPT !.state = "submitting", !.hash = h]
  <1>6. /\ DOMAIN tx' = DOMAIN tx
        /\ \A i \in R : tx'[i] = doc(i)
        /\ \A i \in DOMAIN tx \ R : tx'[i] = tx[i]
    BY <1>4, <1>5, <1>t DEF SaveHash, ToUpdate
  <1>7. \A i \in R : /\ doc(i).hash = h /\ doc(i).state = "submitting"
                     /\ SameRequest(doc(i), tx[i])
    BY <1>5, <1>t DEF TxDocs, SameRequest
  <1> HIDE DEF doc
  <1>8. h # NoHash /\ \A i \in DOMAIN tx : tx[i].hash # h
    BY <1>1, <1>2, KnownFacts DEF Unrecorded, Recording
  <1>9. \A i \in DOMAIN tx : tx'[i].hash = h <=> i \in R
    BY <1>6, <1>7, <1>8
  <1>10. RecordedAsSent'
    <2> SUFFICES ASSUME NEW k \in DOMAIN chain
                 PROVE  {i \in DOMAIN tx' : tx'[i].hash = k} \in {{}, chain[k].reqs}
      BY <1>1 DEF RecordedAsSent
    <2>1. CASE k = h
      BY <1>4, <1>5, <1>6, <1>9, <1>t, <2>1
    <2>2. CASE k # h
      <3>1. {i \in DOMAIN tx' : tx'[i].hash = k} = Recording(k) \ R
        BY <1>6, <1>9, <1>t, <2>2 DEF Recording
      <3>2. ASSUME NEW i \in Recording(k), i \in R
            PROVE  Recording(k) \subseteq R
        BY <1>1, <1>5, <3>2, BatchIsWhole
      <3>3. Recording(k) \in {{}, chain[k].reqs}
        BY KnownFacts DEF RecordedAsSent, Recording
      <3> QED
        BY <3>1, <3>2, <3>3
    <2> QED
      BY <2>1, <2>2
  <1>11. SameState'
    <2> SUFFICES ASSUME NEW i \in DOMAIN tx, NEW j \in DOMAIN tx,
                        tx'[i].hash = tx'[j].hash, tx'[i].hash # NoHash
                 PROVE  tx'[i].state = tx'[j].state
      BY <1>6 DEF SameState
    <2>1. i \in R <=> j \in R
      BY <1>9
    <2> QED
      BY <1>6, <1>7, <2>1, KnownFacts DEF SameState
  <1>12. /\ ToTransact(w)' = ToTransact(w)
         /\ \A i \in ToTransact(w) : GroupOf(i)' = GroupOf(i)
         /\ \A k : Batch(w, k)' = Batch(w, k)
         /\ \A k : NotRead(w, k)' = NotRead(w, k)
    <2>1. \A i \in DOMAIN tx : SameRequest(tx'[i], tx[i])
      BY <1>6, <1>7 DEF SameRequest
    <2> QED
      BY <1>1, <2>1, SameBatches DEF NotRead
  <1>13. ASSUME NEW i \in DOMAIN snap[w]
         PROVE  Untouched(w, i)' \/ Marked(w, i)' \/ Resent(w, i)'
    <2>1. CASE i \in R
      <3>1. GroupOf(i)' = g /\ i \in ToTransact(w)'
        BY <1>5, <1>12, <2>1
      <3>2. tx'[i].hash = h /\ h \notin unsaved'[w] /\ NotRead(w, h)'
        BY <1>1, <1>2, <1>6, <1>7, <1>12, <2>1 DEF Unrecorded
      <3>3. NotRead(w, tx[i].hash)'
        BY <3>2 DEF NotRead
      <3> QED
        BY <1>1, <1>3, <3>1, <3>2, <3>3 DEF Resent
    <2>2. CASE i \notin R
      <3>1. tx'[i] = tx[i]
        BY <1>6, <1>t, <2>2
      <3>2. Resent(w, i) => NotRead(w, tx[i].hash)'
        BY <1>12, <3>1 DEF Resent, NotRead
      <3>3. Resent(w, i) => Resent(w, i)'
        BY <1>1, <1>12, <3>1, <3>2 DEF Resent
      <3> QED
        BY <1>1, <1>i, <3>1, <3>3 DEF SnapInv, Untouched, Marked
    <2> QED
      BY <2>1, <2>2
  <1>14. ASSUME NEW k \in unsaved'[w]
         PROVE  Unrecorded(w, k)'
    <2>1. k \in unsaved[w] /\ k # h /\ Unrecorded(w, k)
      BY <1>1, <1>i DEF SnapInv
    <2>2. chain[k].reqs \cap R = {} /\ chain[k].reqs \subseteq DOMAIN tx
      <3>1. chain[k].reqs \cap R = {}
        BY <1>1, <1>4, <2>1 DEF Unrecorded
      <3> QED
        BY <2>1, <3>1, KnownFacts DEF SendsInv, HashInv
    <2>3. Recording(k)' = {}
      BY <1>6, <1>9, <2>1 DEF Unrecorded, Recording
    <2>4. \A i \in chain[k].reqs : Untouched(w, i)'
      BY <1>1, <1>6, <2>1, <2>2 DEF Unrecorded, Untouched
    <2>5. \E f \in Groups \ toSend'[w] : chain'[k].reqs = Batch(w, f)'
      BY <1>1, <1>12, <2>1 DEF Unrecorded
    <2>6. NotRead(w, k)'
      BY <1>12, <2>1 DEF Unrecorded
    <2>7. \A f \in unsaved'[w] : f # k => chain'[f].reqs \cap chain'[k].reqs = {}
      BY <1>1, <2>1 DEF Unrecorded
    <2>8. \A i \in chain'[k].reqs : Untouched(w, i)'
      BY <1>1, <2>4
    <2> QED
      BY <2>3, <2>5, <2>6, <2>7, <2>8 DEF Unrecorded
  <1>15. \A i \in DOMAIN tx' \ DOMAIN snap'[w] : tx'[i].state = "pending"
    BY <1>1, <1>5, <1>6, <1>i DEF SnapInv
  <1>16. SnapInv(w)'
    BY <1>1, <1>13, <1>14, <1>15, <1>i DEF SnapInv, InJob
  <1> QED
    BY <1>10, <1>11, <1>16

-----------------------------------------------------------------------------
(* The rest of the steps of a job, and what they are to the other jobs.     *)

LEMMA OneLeaves ==
    ASSUME Known, NEW w \in Workers, Acquire(w) \/ Unlock(w) \/ Throw(w) \/ Crash(w)
    PROVE  SnapInv(w)' /\ tx' = tx
  <1>1. pc \in [Workers -> PCs]
    BY KnownFacts DEF TypeInv, TypeOK
  <1>2. pc'[w] \in {"idle", "fetch", "unlock"} /\ tx' = tx
    BY <1>1 DEF Acquire, Unlock, Throw, Crash, Forget, Goto, OutsideUnchanged, requestVars
  <1> QED
    BY <1>2 DEF SnapInv, InJob

LEMMA OneGivesUp ==
    ASSUME Known, [Next]_vars, NEW w \in Workers,
           \/ \E g \in Groups : SendRefused(w, g) \/ SendFails(w, g)
           \/ \E h \in Hashes : SaveFails(w, h)
    PROVE  SnapInv(w)' /\ tx' = tx
  <1>1. /\ unsaved \in [Workers -> SUBSET Hashes] /\ toSend \in [Workers -> SUBSET Groups]
    BY KnownFacts DEF TypeInv, TypeOK
  <1>2. /\ pc' = pc /\ snap' = snap /\ verdict' = verdict /\ tx' = tx
        /\ toSend'[w] \subseteq toSend[w] /\ unsaved'[w] \subseteq unsaved[w]
    BY <1>1 DEF SendRefused, SendFails, GiveUp, SaveFails, requestVars
  <1> QED
    BY <1>2, SnapFrame

LEMMA OneSteps ==
    ASSUME Known, [Next]_vars, NEW w \in Workers, Acquire(w) \/ JobStep(w) \/ FaultStep(w)
    PROVE  SnapInv(w)' /\ SameState' /\ RecordedAsSent'
  <1>1. ASSUME SnapInv(w)', tx' = tx, chain' = chain
        PROVE  SnapInv(w)' /\ SameState' /\ RecordedAsSent'
    BY <1>1, OwnFrame
  <1>2. CASE Acquire(w) \/ Unlock(w) \/ Throw(w) \/ Crash(w)
    <2>1. chain' = chain
      BY <1>2 DEF Acquire, Unlock, Throw, Crash, OutsideUnchanged, portalVars
    <2> QED
      BY <1>1, <1>2, <2>1, OneLeaves
  <1>3. CASE Fetch(w) \/ ReadBlockNumber(w) \/ Decide(w) \/ StartTransact(w)
    <2>1. tx' = tx /\ chain' = chain
      BY <1>3 DEF Fetch, ReadBlockNumber, Decide, StartTransact, OutsideUnchanged,
           portalVars, requestVars
    <2> QED
      BY <1>1, <1>3, <2>1, OneStarts, OneFollows
  <1>4. ASSUME NEW h \in Hashes, ReadReceipt(w, h) \/ MarkFails(w, h)
        PROVE  SnapInv(w)' /\ SameState' /\ RecordedAsSent'
    <2>1. tx' = tx /\ chain' = chain
      BY <1>4 DEF ReadReceipt, MarkFails, OutsideUnchanged, portalVars, requestVars
    <2> QED
      BY <1>1, <1>4, <2>1, OneFollows
  <1>5. ASSUME NEW t \in tasks, t.worker = w, TaskStep(t) \/ AttributionFails(t)
        PROVE  SnapInv(w)' /\ SameState' /\ RecordedAsSent'
    <2>1. tx' = tx /\ chain' = chain
      BY <1>5 DEF TaskStep, FindToken, SetTokenId, SetBurnt, AttributionFails, TaskOutside,
           portalVars, requestVars
    <2> QED
      BY <1>1, <1>5, <2>1, OneAttributes
  <1>6. ASSUME NEW h \in Hashes, MarkSubmitted(w, h) \/ SaveHash(w, h)
        PROVE  SnapInv(w)' /\ SameState' /\ RecordedAsSent'
    BY <1>6, OneMarks, OneSaves
  <1>7. ASSUME NEW h \in Hashes, SaveFails(w, h)
        PROVE  SnapInv(w)' /\ SameState' /\ RecordedAsSent'
    <2>1. chain' = chain
      BY <1>7 DEF SaveFails
    <2> QED
      BY <1>1, <1>7, <2>1, OneGivesUp
  <1>8. ASSUME NEW g \in Groups, Send(w, g)
        PROVE  SnapInv(w)' /\ SameState' /\ RecordedAsSent'
    BY <1>8, OneSends
  <1>9. ASSUME NEW g \in Groups, SendRefused(w, g) \/ SendFails(w, g)
        PROVE  SnapInv(w)' /\ SameState' /\ RecordedAsSent'
    <2>1. chain' = chain
      BY <1>9 DEF SendRefused, SendFails, GiveUp
    <2> QED
      BY <1>1, <1>9, <2>1, OneGivesUp
  <1> QED
    BY <1>2, <1>3, <1>4, <1>5, <1>6, <1>7, <1>8, <1>9 DEF JobStep, FaultStep

LEMMA ToSendStays ==
    ASSUME TypeInv, NEW w \in Workers, NEW v \in Workers, v # w,
           Acquire(w) \/ JobStep(w) \/ FaultStep(w)
    PROVE  toSend'[v] = toSend[v]
  <1>t. toSend \in [Workers -> SUBSET Groups]
    BY DEF TypeInv, TypeOK
  <1>1. CASE Acquire(w) \/ Fetch(w) \/ ReadBlockNumber(w)
    BY <1>1, <1>t DEF Acquire, Fetch, ReadBlockNumber
  <1>2. CASE Decide(w) \/ StartTransact(w) \/ Throw(w)
    BY <1>2, <1>t DEF Decide, StartTransact, Throw
  <1>3. CASE Unlock(w) \/ Crash(w)
    BY <1>3, <1>t DEF Unlock, Crash, Forget
  <1>4. ASSUME NEW h \in Hashes, \/ ReadReceipt(w, h) \/ MarkSubmitted(w, h) \/ SaveHash(w, h)
                                 \/ MarkFails(w, h) \/ SaveFails(w, h)
        PROVE  toSend'[v] = toSend[v]
    BY <1>4 DEF ReadReceipt, MarkSubmitted, SaveHash, MarkFails, SaveFails
  <1>5. ASSUME NEW g \in Groups, Send(w, g) \/ SendRefused(w, g) \/ SendFails(w, g)
        PROVE  toSend'[v] = toSend[v]
    BY <1>5, <1>t DEF Send, SendRefused, SendFails, GiveUp
  <1>6. ASSUME NEW t \in tasks, TaskStep(t) \/ AttributionFails(t)
        PROVE  toSend'[v] = toSend[v]
    BY <1>6 DEF TaskStep, FindToken, SetTokenId, SetBurnt, AttributionFails, TaskOutside
  <1> QED
    BY <1>1, <1>2, <1>3, <1>4, <1>5, <1>6 DEF JobStep, FaultStep

(* Only a job that holds the lock writes to a Transaction: what the others  *)
(* have read, they have no longer.                                          *)
LEMMA OthersStep ==
    ASSUME Known, [Next]_vars, NEW w \in Workers, NEW v \in Workers, v # w,
           Acquire(w) \/ JobStep(w) \/ FaultStep(w)
    PROVE  SnapInv(v)'
  <1>1. /\ pc'[v] = pc[v] /\ snap'[v] = snap[v] /\ verdict'[v] = verdict[v]
        /\ unsaved'[v] = unsaved[v] /\ toSend'[v] = toSend[v]
    BY KnownFacts, LocalStep, ToSendStays
  <1>2. CASE tx' = tx
    BY <1>1, <1>2, SnapFrame
  <1>3. CASE tx' # tx
    <2>1. \E h \in Hashes : MarkSubmitted(w, h) \/ SaveHash(w, h)
      BY <1>3 DEF JobStep, FaultStep, Acquire, Fetch, ReadBlockNumber, Decide, StartTransact,
           Unlock, ReadReceipt, Send, SendRefused, GiveUp, TaskStep,
           FindToken, SetTokenId, SetBurnt, TaskOutside, Throw, Crash, MarkFails, SaveFails,
           SendFails, AttributionFails, OutsideUnchanged, requestVars
    <2>2. pc[w] # "idle"
      BY <2>1 DEF MarkSubmitted, Processed, SaveHash, Known, FinalInv, JobInv
    <2>3. pc[v] = "idle"
      BY <2>2 DEF Known, FinalInv, LockInv
    <2> QED
      BY <1>1, <2>3 DEF SnapInv, InJob
  <1> QED
    BY <1>2, <1>3

(* Steps of the API, of the chain and of Redis.                             *)
LEMMA OutsideStep ==
    ASSUME Known, [Next]_vars, pc' = pc, snap' = snap, verdict' = verdict, toSend' = toSend,
           unsaved' = unsaved, DOMAIN chain' = DOMAIN chain, \A i \in DOMAIN tx : tx'[i] = tx[i]
    PROVE  RecordInv'
  <1>1. /\ DOMAIN tx \subseteq DOMAIN tx'
        /\ \A i \in DOMAIN tx' \ DOMAIN tx : tx'[i].hash = NoHash
    BY TxStep, KnownFacts DEF IsNew
  <1>2. SameState'
    <2> SUFFICES ASSUME NEW i \in DOMAIN tx', NEW j \in DOMAIN tx',
                        tx'[i].hash = tx'[j].hash, tx'[i].hash # NoHash
                 PROVE  tx'[i].state = tx'[j].state
      BY DEF SameState
    <2>1. i \in DOMAIN tx /\ j \in DOMAIN tx
      BY <1>1
    <2> QED
      BY <2>1, KnownFacts DEF SameState
  <1>3. RecordedAsSent'
    <2> SUFFICES ASSUME NEW h \in DOMAIN chain
                 PROVE  {i \in DOMAIN tx' : tx'[i].hash = h} \in {{}, chain'[h].reqs}
      BY DEF RecordedAsSent
    <2>1. {i \in DOMAIN tx' : tx'[i].hash = h} = {i \in DOMAIN tx : tx[i].hash = h}
      BY <1>1, KnownFacts
    <2>2. chain'[h].reqs = chain[h].reqs
      BY SendsKept, KnownFacts
    <2> QED
      BY <2>1, <2>2, KnownFacts DEF RecordedAsSent
  <1>4. \A w \in Workers : SnapInv(w)'
    BY SnapFrame
  <1> QED
    BY <1>2, <1>3, <1>4 DEF RecordInv

LEMMA RecordStep ==
    ASSUME Known, [Next]_vars
    PROVE  RecordInv'
  <1>1. ASSUME NEW w \in Workers, Acquire(w) \/ JobStep(w) \/ FaultStep(w)
        PROVE  RecordInv'
    BY <1>1, OneSteps, OthersStep DEF RecordInv
  <1>2. CASE RequestNext /\ UNCHANGED workerVars
    <2>1. \A i \in DOMAIN tx : tx'[i] = tx[i]
      BY <1>2, RequestsKeep, KnownFacts
    <2>2. chain' = chain
      BY <1>2 DEF RequestNext, CreateAsset, MintResource, CommitMint, AbortMint, BurnAsset,
           UpdateAsset, portalVars
    <2> QED
      BY <1>2, <2>1, <2>2, OutsideStep DEF workerVars
  <1>3. CASE PortalNext /\ UNCHANGED <<requestVars, workerVars>>
    <2>1. DOMAIN chain' = DOMAIN chain
      BY <1>3, KnownFacts DEF PortalNext, Mine, RevertBurn, Revert, Confirm, Reorg, Drop, SetStatus
    <2> QED
      BY <1>3, <2>1, OutsideStep DEF requestVars, workerVars
  <1>4. CASE LockExpires
    BY <1>4, OutsideStep DEF LockExpires, requestVars
  <1>5. CASE UNCHANGED vars
    BY <1>5, OutsideStep DEF vars, portalVars, requestVars, workerVars
  <1> QED
    BY <1>1, <1>2, <1>3, <1>4, <1>5 DEF Next

LEMMA RecordInit == Init => RecordInv
  BY DEF Init, PortalInit, RequestInit, WorkerInit, RecordInv, SameState, RecordedAsSent,
       SnapInv, InJob

LEMMA RecordInvariance == TTLHolds => (Spec => []Known)
  <1> SUFFICES ASSUME TTLHolds PROVE Spec => []Known
    OBVIOUS
  <1>1. FinalInv /\ ReceiptsInv /\ RecordInv /\ [Next]_vars => RecordInv'
    BY RecordStep DEF Known
  <1> QED
    BY <1>1, RecordInit, FinalInvariance, ReceiptsInvariance, PTL DEF Spec, Known

(* The Transactions that record a hash are all those it was sent for, or    *)
(* none, so makeAttributions pairs each log with its own Transaction, for   *)
(* any number of workers, crashes, lost saves and re-sends, as long as      *)
(* lockTTL outlives a job.                                                  *)
THEOREM LogsMeetTheirRequests == TTLHolds => (Spec => []RecordedAsSent)
  <1>1. Known => RecordedAsSent
    BY DEF Known, RecordInv
  <1> QED
    BY <1>1, RecordInvariance, PTL

-----------------------------------------------------------------------------
(* A submitted Transaction has had its effect.  What an attribution does is *)
(* never undone, as long as the studio asks for no second burn of an asset; *)
(* and while a receipt is processed each of its Transactions has had its    *)
(* effect or has an attribution that processReceipt still waits for.        *)

BurntStaysBurnt == "burnt" \notin BurnStates

Minted(h, i) == Holder(tx[i].coll, <<h, Place(chain[h].reqs, i)>>) # {}
Burnt(i) ==
    /\ Holder(tx[i].coll, tx[i].token) # {}
    /\ \A a \in Holder(tx[i].coll, tx[i].token) : asset[a].state = "burnt"
Done(h, i) == IF chain[h].call = "mint" THEN Minted(h, i) ELSE Burnt(i)

AwaitedBy(w, h, i) ==
    \E t \in tasks : t.worker = w /\ t.hash = h /\ t.req = i /\ ~t.detached

OwnPlaces ==
    \A t \in tasks : chain[t.hash].call = "mint" =>
        t.token = <<t.hash, Place(chain[t.hash].reqs, t.req)>>
ProcessedInTime ==
    \A w \in Workers, h \in Hashes :
        pc[w] = "process" /\ verdict[w][h] = "confirmed" =>
            \A i \in Following(w, h) : Done(h, i) \/ AwaitedBy(w, h, i)
SubmittedDone ==
    \A i \in DOMAIN tx : tx[i].state = "submitted" =>
        IsDeep(tx[i].hash) /\ Done(tx[i].hash, i)

DoneInv == OwnPlaces /\ ProcessedInTime /\ SubmittedDone

(* The holders of a token keep it.                                          *)
LEMMA HolderKept ==
    ASSUME TypeInv, [Next]_vars, NEW c, NEW k, k # NoToken, NEW a \in Holder(c, k)
    PROVE  a \in Holder(c, k)' /\ a \in DOMAIN asset
  <1>1. a \in DOMAIN asset /\ asset[a].coll = c /\ asset[a].token = k
    BY DEF Holder
  <1>2. a \in DOMAIN asset' /\ asset'[a].coll = c /\ asset'[a].token = k
    BY <1>1, AssetStep DEF Created, AsksToBurn, Reassigned, Given, SetsBurnt, Keeps, Tokenless
  <1> QED
    BY <1>1, <1>2 DEF Holder

LEMMA BurntKept ==
    ASSUME BurntStaysBurnt, TypeInv, [Next]_vars, NEW i \in DOMAIN tx, tx[i].token # NoToken,
           Burnt(i)
    PROVE  Burnt(i)'
  <1>1. SameRequest(tx'[i], tx[i])
    BY TxStep
  <1>2. PICK c, k : c = tx[i].coll /\ k = tx[i].token
    OBVIOUS
  <1>3. c = tx'[i].coll /\ k = tx'[i].token /\ k # NoToken
    BY <1>1, <1>2 DEF SameRequest
  <1>4. Holder(c, k) # {} /\ \A a \in Holder(c, k) : asset[a].state = "burnt"
    BY <1>2 DEF Burnt
  <1>5. ASSUME NEW a \in Holder(c, k)'
        PROVE  asset'[a].state = "burnt"
    <2>1. a \in DOMAIN asset' /\ asset'[a].coll = c /\ asset'[a].token = k
      BY <1>5 DEF Holder
    <2>2. CASE asset' = asset
      BY <1>4, <2>1, <2>2 DEF Holder
    <2>3. CASE Created
      BY <1>3, <1>4, <2>1, <2>3 DEF Created, Holder
    <2>4. CASE \E b \in DOMAIN asset : AsksToBurn(b)
      <3>1. a \in Holder(c, k)
        BY <2>1, <2>4 DEF AsksToBurn, Keeps, Holder
      <3> QED
        BY <1>4, <2>4, <3>1 DEF AsksToBurn, BurntStaysBurnt, Holder
    <2>5. CASE Reassigned
      BY <1>4, <2>1, <2>5 DEF Reassigned, Keeps, Holder
    <2>6. ASSUME NEW t \in tasks, NEW b \in DOMAIN asset, Given(t, b)
          PROVE  asset'[a].state = "burnt"
      <3>1. tx[t.req].coll = asset[b].coll /\ Holder(asset[b].coll, t.token) = {}
        BY <2>6 DEF Given, Tokenless
      <3>2. a # b
        BY <1>4, <2>1, <2>6, <3>1 DEF Given
      <3> QED
        BY <1>4, <2>1, <2>6, <3>2 DEF Given, Holder
    <2>7. ASSUME NEW t \in tasks, SetsBurnt(t)
          PROVE  asset'[a].state = "burnt"
      BY <1>4, <2>1, <2>7 DEF SetsBurnt, Keeps, Holder
    <2> QED
      BY <2>2, <2>3, <2>4, <2>5, <2>6, <2>7, AssetStep
  <1>6. Holder(c, k)' # {}
    BY <1>3, <1>4, HolderKept
  <1> QED
    BY <1>3, <1>5, <1>6 DEF Burnt

LEMMA DoneKept ==
    ASSUME BurntStaysBurnt, TypeInv, SendsInv, [Next]_vars,
           NEW h, NEW i, RecordsSend(i, h), Done(h, i)
    PROVE  Done(h, i)'
  <1>1. /\ i \in DOMAIN tx /\ SameRequest(tx'[i], tx[i]) /\ h \in DOMAIN chain
        /\ chain'[h].call = chain[h].call /\ chain'[h].reqs = chain[h].reqs
        /\ chain[h].call # "mint" => tx[i].type = "BurnAsset"
    BY TxStep, SendsKept DEF RecordsSend, SendsInv
  <1>2. h # 0
    BY <1>1 DEF TypeInv, TypeOK
  <1>3. CASE chain[h].call = "mint"
    <2>1. PICK c, k : c = tx[i].coll /\ k = <<h, Place(chain[h].reqs, i)>>
      OBVIOUS
    <2>2. c = tx'[i].coll /\ k = <<h, Place(chain'[h].reqs, i)>> /\ k # NoToken
      BY <1>1, <1>2, <2>1 DEF SameRequest, NoToken
    <2>3. Holder(c, k)' # {}
      BY <1>3, <2>1, <2>2, HolderKept DEF Done, Minted
    <2>4. Place(chain[h].reqs, i)' = Place(chain'[h].reqs, i)
      BY DEF Place
    <2> QED
      BY <1>1, <1>3, <2>2, <2>3, <2>4 DEF Done, Minted
  <1>4. CASE chain[h].call # "mint"
    <2>1. tx[i].token # NoToken
      <3>1. tx[i] \in TxDocs
        BY <1>1 DEF TypeInv, TypeOK
      <3> QED
        BY <1>1, <1>4, <3>1, TokensAreTokens DEF TxDocs
    <2> QED
      BY <1>1, <1>4, <2>1, BurntKept DEF Done
  <1> QED
    BY <1>3, <1>4

(* What a job follows under a hash it has not settled is what it was sent   *)
(* for.                                                                     *)
LEMMA FollowedAsSent ==
    ASSUME Known, NEW w \in Workers, InJob(w), pc[w] # "transact", NEW h \in Hashes,
           verdict[w][h] # "settled", Following(w, h) # {}
    PROVE  Following(w, h) = chain[h].reqs /\ h \in DOMAIN chain
  <1>1. PICK i \in Following(w, h) : TRUE
    OBVIOUS
  <1>2. \A j \in Following(w, h) : /\ Recording(h) \subseteq Following(w, h)
                                   /\ tx[j].hash = h /\ j \in DOMAIN tx
    BY FollowedUntouched, AllFollowed DEF Known, RecordInv
  <1>3. Following(w, h) = Recording(h) /\ i \in Recording(h)
    BY <1>1, <1>2 DEF Recording
  <1>4. h \in DOMAIN chain
    BY <1>1, KnownFacts DEF Following, HashInv, RecordsSend
  <1> QED
    BY <1>3, <1>4, KnownFacts DEF RecordedAsSent, Recording

LEMMA OwnPlacesStep ==
    ASSUME Known, OwnPlaces, [Next]_vars
    PROVE  OwnPlaces'
  <1>1. \A h \in DOMAIN chain : /\ chain'[h].call = chain[h].call
                                /\ chain'[h].reqs = chain[h].reqs
    BY SendsKept, KnownFacts
  <1> SUFFICES ASSUME NEW s \in tasks', chain'[s.hash].call = "mint"
               PROVE  s.token = <<s.hash, Place(chain'[s.hash].reqs, s.req)>>
    BY DEF OwnPlaces, Place
  <1>2. ASSUME NEW t \in tasks, s = t \/ Same(s, t)
        PROVE  s.token = <<s.hash, Place(chain'[s.hash].reqs, s.req)>>
    <2>1. t.hash \in DOMAIN chain
      BY DEF Known, ReceiptsInv, TokensInv, IsDeep
    <2> QED
      BY <1>1, <1>2, <2>1 DEF OwnPlaces, Same
  <1>3. ASSUME NEW w \in Workers, Decide(w), s \in Attributions(w)
        PROVE  s.token = <<s.hash, Place(chain'[s.hash].reqs, s.req)>>
    <2>1. PICK h \in {g \in Hashes : verdict[w][g] = "confirmed"} :
            s \in {[worker |-> w, hash |-> h, req |-> i, token |-> LogToken(w, h, i),
                    stage |-> "find", detached |-> FALSE] : i \in Following(w, h)}
      BY <1>3 DEF Attributions
    <2>2. PICK i \in Following(w, h) :
            s = [worker |-> w, hash |-> h, req |-> i, token |-> LogToken(w, h, i),
                 stage |-> "find", detached |-> FALSE]
      BY <2>1
    <2>3. Following(w, h) = chain[h].reqs /\ h \in DOMAIN chain
      BY <1>3, <2>2, FollowedAsSent DEF Decide, InJob
    <2>4. chain[h].call = "mint"
      BY <1>1, <2>2, <2>3
    <2> QED
      BY <1>1, <2>2, <2>3, <2>4 DEF LogToken
  <1> QED
    BY <1>2, <1>3, TaskSets, KnownFacts

(* An attribution that is waited for goes on, or its receipt is settled, or *)
(* its process is gone, or it has had its effect.                           *)
LEMMA TaskFate ==
    ASSUME Known, OwnPlaces, NEW t \in tasks, ~t.detached,
           NEW r \in tasks, TaskStep(r) \/ AttributionFails(r)
    PROVE  \/ AwaitedBy(t.worker, t.hash, t.req)'
           \/ verdict'[t.worker][t.hash] = "settled"
           \/ Done(t.hash, t.req)'
  <1>t. /\ t \in Tasks /\ verdict \in [Workers -> [Hashes -> Verdicts]] /\ tx' = tx
        /\ chain' = chain /\ t.hash \in DOMAIN chain /\ t.req \in chain[t.hash].reqs
    BY KnownFacts DEF TypeInv, TypeOK, TaskStep, FindToken, SetTokenId, SetBurnt,
       AttributionFails, TaskOutside, portalVars, requestVars, Known, ReceiptsInv, TokensInv,
       IsDeep
  <1>a. t.worker \in Workers /\ t.hash \in Hashes
    BY <1>t DEF Tasks
  <1>1. CASE t \in tasks'
    BY <1>1 DEF AwaitedBy
  <1>2. CASE t \notin tasks' /\ Reject(r)
    <2>1. CASE r = t
      <3>1. SetVerdict(t.worker, t.hash, "settled")
        BY <1>2, <2>1 DEF Reject
      <3> QED
        BY <1>t, <1>a, <3>1 DEF SetVerdict
    <2>2. CASE r # t
      <3>1. ~r.detached
        BY <1>2, <2>2 DEF Reject, Finish
      <3>2. t.worker = r.worker /\ t.hash = r.hash /\ SetVerdict(r.worker, r.hash, "settled")
        BY <1>2, <2>2, <3>1 DEF Reject
      <3> QED
        BY <1>t, <1>a, <3>2 DEF SetVerdict
    <2> QED
      BY <2>1, <2>2
  <1>3. CASE t \notin tasks' /\ ~Reject(r)
    <2>1. t = r
      BY <1>3 DEF TaskStep, FindToken, SetTokenId, SetBurnt, AttributionFails, Finish
    <2>2. CASE FindToken(t)
      <3>1. CASE Holder(tx[t.req].coll, t.token) # {}
        <4>1. chain[t.hash].call = "mint"
          BY <1>t, <2>2, KnownFacts DEF FindToken, SendsInv
        <4>2. Minted(t.hash, t.req)
          BY <3>1, <4>1 DEF OwnPlaces, Minted
        <4>3. asset' = asset
          BY <2>2 DEF FindToken
        <4> QED
          BY <1>t, <4>1, <4>2, <4>3 DEF Done, Minted, Holder, Place
      <3>2. CASE Holder(tx[t.req].coll, t.token) = {}
        <4>1. [t EXCEPT !.stage = "set"] \in tasks'
          BY <2>2, <3>2 DEF FindToken
        <4>2. /\ [t EXCEPT !.stage = "set"].worker = t.worker
              /\ [t EXCEPT !.stage = "set"].hash = t.hash
              /\ [t EXCEPT !.stage = "set"].req = t.req
              /\ [t EXCEPT !.stage = "set"].detached = t.detached
          BY <1>t DEF Tasks
        <4>3. AwaitedBy(t.worker, t.hash, t.req)'
          BY <4>1, <4>2 DEF AwaitedBy
        <4> QED
          BY <4>3
      <3> QED
        BY <3>1, <3>2
    <2>3. CASE SetTokenId(t)
      <3>1. chain[t.hash].call = "mint"
        BY <1>t, <2>3 DEF SetTokenId, Known, ReceiptsInv, TokensInv
      <3>2. PICK a \in Matching(tx[t.req].coll, tx[t.req].owner) : GiveToken(a, t.token)
        BY <1>3, <2>1, <2>3 DEF SetTokenId
      <3>3. a \in DOMAIN asset /\ asset[a].coll = tx[t.req].coll /\ asset[a] \in AssetDocs
        BY <3>2, KnownFacts DEF Matching, Tokenless, TypeInv, TypeOK
      <3>4. a \in DOMAIN asset' /\ asset'[a].coll = tx[t.req].coll /\ asset'[a].token = t.token
        BY <3>2, <3>3 DEF GiveToken, AssetDocs
      <3>5. t.token = <<t.hash, Place(chain[t.hash].reqs, t.req)>>
        BY <3>1 DEF OwnPlaces
      <3>6. Minted(t.hash, t.req)'
        BY <1>t, <3>4, <3>5 DEF Minted, Holder, Place
      <3> QED
        BY <1>t, <3>1, <3>6 DEF Done
    <2>4. CASE SetBurnt(t)
      <3>1. chain[t.hash].call # "mint"
        BY <1>t, <2>4, KnownFacts DEF SetBurnt, SendsInv
      <3>2. t.token = tx[t.req].token
        BY <3>1 DEF Known, ReceiptsInv, TokensInv
      <3>3. /\ Holder(tx[t.req].coll, t.token) # {}
            /\ asset' = [a \in DOMAIN asset |->
                   IF a \in Holder(tx[t.req].coll, t.token)
                   THEN [asset[a] EXCEPT !.state = "burnt"] ELSE asset[a]]
        BY <1>3, <2>1, <2>4 DEF SetBurnt
      <3>4. \A a \in DOMAIN asset : asset[a] \in AssetDocs
        BY KnownFacts DEF TypeInv, TypeOK
      <3>5. /\ DOMAIN asset' = DOMAIN asset
            /\ \A a \in DOMAIN asset :
                  /\ asset'[a].coll = asset[a].coll /\ asset'[a].token = asset[a].token
                  /\ a \in Holder(tx[t.req].coll, t.token) => asset'[a].state = "burnt"
        BY <3>3, <3>4 DEF AssetDocs
      <3>6. Burnt(t.req)'
        BY <1>t, <3>2, <3>3, <3>5 DEF Burnt, Holder
      <3> QED
        BY <1>t, <3>1, <3>6 DEF Done
    <2>5. ~AttributionFails(t)
      BY <1>3, <2>1 DEF AttributionFails
    <2> QED
      BY <2>1, <2>2, <2>3, <2>4, <2>5 DEF TaskStep
  <1> QED
    BY <1>1, <1>2, <1>3

LEMMA InProcess ==
    ASSUME Known, [Next]_vars, NEW w \in Workers, NEW h \in Hashes,
           pc'[w] = "process", verdict'[w][h] = "confirmed"
    PROVE  /\ snap'[w] = snap[w] /\ verdict[w][h] = "confirmed"
           /\ pc[w] = "process" \/ Decide(w)
  <1> DEFINE Goal == /\ snap'[w] = snap[w] /\ verdict[w][h] = "confirmed"
                     /\ pc[w] = "process" \/ Decide(w)
  <1>t. /\ pc \in [Workers -> PCs] /\ verdict \in [Workers -> [Hashes -> Verdicts]]
    BY KnownFacts DEF TypeInv, TypeOK
  <1>1. CASE pc' = pc /\ snap' = snap /\ verdict' = verdict
    BY <1>1
  <1>2. ASSUME NEW v \in Workers, v # w, Acquire(v) \/ JobStep(v) \/ FaultStep(v)
        PROVE  Goal
    BY <1>2, LocalStep, KnownFacts
  <1>3. ASSUME Acquire(w) \/ JobStep(w) \/ FaultStep(w)
        PROVE  Goal
    <2>1. CASE \/ Acquire(w) \/ Fetch(w) \/ ReadBlockNumber(w) \/ StartTransact(w)
               \/ Unlock(w) \/ Throw(w) \/ Crash(w)
      BY <1>t, <2>1 DEF Acquire, Fetch, ReadBlockNumber, StartTransact, Unlock, Throw, Crash,
         Forget, Goto
    <2>2. CASE Decide(w)
      BY <2>2 DEF Decide
    <2>3. ASSUME NEW g \in Hashes, ReadReceipt(w, g)
          PROVE  Goal
      BY <2>3 DEF ReadReceipt
    <2>4. ASSUME NEW g \in Hashes, MarkSubmitted(w, g) \/ MarkFails(w, g)
          PROVE  Goal
      BY <1>t, <2>4 DEF MarkSubmitted, MarkFails, SetVerdict
    <2>5. ASSUME NEW g \in Hashes, SaveHash(w, g) \/ SaveFails(w, g)
          PROVE  Goal
      BY <1>1, <2>5 DEF SaveHash, SaveFails
    <2>6. ASSUME NEW g \in Groups, Send(w, g) \/ SendRefused(w, g) \/ SendFails(w, g)
          PROVE  Goal
      BY <1>1, <2>6 DEF Send, SendRefused, SendFails, GiveUp
    <2>7. ASSUME NEW t \in tasks, TaskStep(t) \/ AttributionFails(t)
          PROVE  Goal
      <3>1. pc' = pc /\ snap' = snap
        BY <2>7 DEF TaskStep, FindToken, SetTokenId, SetBurnt, AttributionFails, TaskOutside
      <3>2. verdict' = verdict \/ SetVerdict(t.worker, t.hash, "settled")
        BY <2>7 DEF TaskStep, FindToken, SetTokenId, SetBurnt, AttributionFails, Reject
      <3> QED
        BY <1>t, <3>1, <3>2 DEF SetVerdict
    <2> QED
      BY <1>3, <2>1, <2>2, <2>3, <2>4, <2>5, <2>6, <2>7 DEF JobStep, FaultStep
  <1>4. CASE \/ RequestNext /\ UNCHANGED workerVars
             \/ PortalNext /\ UNCHANGED <<requestVars, workerVars>>
             \/ LockExpires
             \/ UNCHANGED vars
    BY <1>1, <1>4 DEF workerVars, LockExpires, vars
  <1> QED
    BY <1>2, <1>3, <1>4 DEF Next

LEMMA TasksStay ==
    ASSUME Known, [Next]_vars, NEW t \in tasks, pc'[t.worker] = "process"
    PROVE  t \in tasks' \/ \E r \in tasks : TaskStep(r) \/ AttributionFails(r)
  <1>t. pc \in [Workers -> PCs]
    BY KnownFacts DEF TypeInv, TypeOK
  <1>1. ASSUME NEW v \in Workers, Acquire(v) \/ JobStep(v) \/ FaultStep(v), ~Crash(v)
        PROVE  t \in tasks' \/ \E r \in tasks : TaskStep(r) \/ AttributionFails(r)
    BY <1>1 DEF JobStep, FaultStep, Acquire, Fetch, ReadBlockNumber, Decide, StartTransact,
       Unlock, ReadReceipt, MarkSubmitted, SaveHash, Send, SendRefused, GiveUp, Throw,
       MarkFails, SaveFails, SendFails
  <1>2. ASSUME NEW v \in Workers, Crash(v)
        PROVE  t \in tasks'
    <2>1. pc'[v] = "idle" /\ tasks' = {s \in tasks : s.worker # v}
      BY <1>2, <1>t DEF Crash, Forget, Goto
    <2> QED
      BY <2>1
  <1>3. CASE tasks' = tasks
    BY <1>3
  <1> QED
    BY <1>1, <1>2, <1>3 DEF Next, vars, workerVars, LockExpires

LEMMA ProcessedStep ==
    ASSUME BurntStaysBurnt, Known, OwnPlaces, ProcessedInTime, [Next]_vars
    PROVE  ProcessedInTime'
  <1> SUFFICES ASSUME NEW w \in Workers, NEW h \in Hashes,
                      pc'[w] = "process", verdict'[w][h] = "confirmed",
                      NEW i \in Following(w, h)'
               PROVE  Done(h, i)' \/ AwaitedBy(w, h, i)'
    BY DEF ProcessedInTime
  <1>1. /\ snap'[w] = snap[w] /\ verdict[w][h] = "confirmed"
        /\ pc[w] = "process" \/ Decide(w)
    BY InProcess
  <1>2. i \in Following(w, h)
    BY <1>1 DEF Following
  <1>3. CASE Decide(w)
    <2>1. tasks' = tasks \cup Attributions(w)
      <3>1. pc \in [Workers -> PCs]
        BY KnownFacts DEF TypeInv, TypeOK
      <3> QED
        BY <1>3, <3>1 DEF Decide, Goto
    <2> DEFINE t == [worker |-> w, hash |-> h, req |-> i, token |-> LogToken(w, h, i),
                     stage |-> "find", detached |-> FALSE]
    <2> DEFINE of(g) == {[worker |-> w, hash |-> g, req |-> j, token |-> LogToken(w, g, j),
                          stage |-> "find", detached |-> FALSE] : j \in Following(w, g)}
    <2>a. t \in of(h)
      BY <1>2
    <2>b. Attributions(w) = UNION {of(g) : g \in {k \in Hashes : verdict[w][k] = "confirmed"}}
      BY DEF Attributions
    <2>3. t.worker = w /\ t.hash = h /\ t.req = i /\ ~t.detached
      OBVIOUS
    <2> HIDE DEF t, of
    <2>2. t \in Attributions(w)
      BY <1>1, <2>a, <2>b
    <2> QED
      BY <2>1, <2>2, <2>3 DEF AwaitedBy
  <1>4. CASE pc[w] = "process"
    <2>1. Following(w, h) = chain[h].reqs /\ h \in DOMAIN chain
      BY <1>1, <1>2, <1>4, FollowedAsSent DEF InJob
    <2>2. CASE Done(h, i)
      BY <1>2, <2>1, <2>2, DoneKept, KnownFacts DEF RecordsSend
    <2>3. CASE AwaitedBy(w, h, i)
      <3>1. PICK t \in tasks : t.worker = w /\ t.hash = h /\ t.req = i /\ ~t.detached
        BY <2>3 DEF AwaitedBy
      <3>2. CASE t \in tasks'
        BY <3>1, <3>2 DEF AwaitedBy
      <3>3. ASSUME NEW r \in tasks, TaskStep(r) \/ AttributionFails(r)
            PROVE  Done(h, i)' \/ AwaitedBy(w, h, i)'
        BY <3>1, <3>3, TaskFate
      <3> QED
        BY <3>1, <3>2, <3>3, TasksStay
    <2> QED
      BY <1>1, <1>2, <1>4, <2>2, <2>3 DEF ProcessedInTime
  <1> QED
    BY <1>1, <1>3, <1>4

LEMMA SubmittedStep ==
    ASSUME BurntStaysBurnt, Known, ProcessedInTime, SubmittedDone, [Next]_vars
    PROVE  SubmittedDone'
  <1> SUFFICES ASSUME NEW i \in DOMAIN tx', tx'[i].state = "submitted",
                      NEW h, h = tx'[i].hash
               PROVE  IsDeep(h)' /\ Done(h, i)'
    <2>1. ASSUME NEW i \in DOMAIN tx', tx'[i].state = "submitted"
          PROVE  (IsDeep(tx[i].hash) /\ Done(tx[i].hash, i))'
      <3>1. PICK h : h = tx'[i].hash
        OBVIOUS
      <3>2. IsDeep(h)' /\ Done(h, i)'
        BY <2>1, <3>1
      <3> QED
        BY <3>1, <3>2 DEF IsDeep, Done, Minted
    <2> QED
      BY <2>1 DEF SubmittedDone
  <1>1. ASSUME IsDeep(h), Done(h, i), RecordsSend(i, h)
        PROVE  IsDeep(h)' /\ Done(h, i)'
    BY <1>1, DeepKept, DoneKept, KnownFacts
  <1>2. CASE i \notin DOMAIN tx
    BY <1>2, TxStep, KnownFacts DEF IsNew
  <1>3. CASE i \in DOMAIN tx /\ tx'[i] = tx[i]
    <2>1. IsDeep(tx[i].hash) /\ Done(tx[i].hash, i)
      BY <1>3 DEF SubmittedDone
    <2>2. RecordsSend(i, tx[i].hash)
      BY <1>3, KnownFacts DEF HashInv
    <2> QED
      BY <1>1, <1>3, <2>1, <2>2
  <1>4. ASSUME NEW w \in Workers, NEW g \in Hashes, Marks(w, g, i)
        PROVE  IsDeep(h)' /\ Done(h, i)'
    <2>1. /\ pc[w] = "process" /\ verdict[w][g] = "confirmed" /\ i \in Following(w, g)
          /\ ~AwaitedBy(w, g, i) /\ tx'[i].hash = tx[i].hash
      BY <1>4 DEF Marks, MarkSubmitted, Processed, AwaitedBy
    <2>2. Done(g, i)
      BY <2>1 DEF ProcessedInTime
    <2>3. Untouched(w, i)
      BY <2>1, FollowedUntouched DEF Known, RecordInv, InJob
    <2>4. tx[i].hash = g /\ g = h
      BY <2>1, <2>3, AllFollowed DEF InJob
    <2>5. RecordsSend(i, g)
      BY <2>1, FollowedAsSent DEF RecordsSend, InJob
    <2>6. IsDeep(g)
      BY <2>1 DEF Known, ReceiptsInv, DeepInv
    <2> QED
      BY <1>1, <2>1, <2>2, <2>4, <2>5, <2>6
  <1>5. ~ \E w \in Workers, g \in Hashes : Saves(w, g, i)
    BY DEF Saves
  <1> QED
    BY <1>2, <1>3, <1>4, <1>5, TxStep, KnownFacts

LEMMA DoneInvariance == TTLHolds /\ BurntStaysBurnt => (Spec => []DoneInv)
  <1> SUFFICES ASSUME TTLHolds, BurntStaysBurnt PROVE Spec => []DoneInv
    OBVIOUS
  <1>1. Init => DoneInv
    BY DEF Init, PortalInit, RequestInit, WorkerInit, DoneInv, OwnPlaces, ProcessedInTime,
       SubmittedDone
  <1>2. Known /\ DoneInv /\ [Next]_vars => DoneInv'
    BY OwnPlacesStep, ProcessedStep, SubmittedStep DEF DoneInv
  <1> QED
    BY <1>1, <1>2, RecordInvariance, PTL DEF Spec

(* "process first. if it fails, do not mark Transaction as submitted."      *)
(* (processReceipt): whatever fails, crashes or goes on unobserved, a       *)
(* submitted Transaction is on the chain for good and has had its effect on *)
(* the Asset collection, as long as lockTTL outlives a job and the studio   *)
(* does not ask to burn what is burnt.                                      *)
THEOREM SubmittedAreDone ==
    TTLHolds /\ BurntStaysBurnt => (Spec => []SubmittedIsDone)
  <1>1. Known /\ DoneInv => SubmittedIsDone
    <2> SUFFICES ASSUME Known, DoneInv, NEW i \in DOMAIN tx, tx[i].state = "submitted"
                 PROVE  /\ tx[i].hash \in DOMAIN chain
                        /\ chain[tx[i].hash].status = "deep"
                        /\ i \in chain[tx[i].hash].reqs
                        /\ tx[i].type = "MintAsset" => Attributed(i)
                        /\ tx[i].type = "BurnAsset" =>
                              \A a \in Holder(tx[i].coll, tx[i].token) : asset[a].state = "burnt"
      BY DEF SubmittedIsDone
    <2>1. IsDeep(tx[i].hash) /\ Done(tx[i].hash, i)
      BY DEF DoneInv, SubmittedDone
    <2>2. RecordsSend(i, tx[i].hash) /\ tx[i].hash # NoHash
      BY KnownFacts DEF HashInv, RecordsSend
    <2>3. tx[i].type = IF chain[tx[i].hash].call = "mint" THEN "MintAsset" ELSE "BurnAsset"
      BY <2>2, KnownFacts DEF RecordsSend, SendsInv
    <2>4. tx[i].type = "MintAsset" => Attributed(i)
      BY <2>1, <2>2, <2>3 DEF Done, Minted, Attributed, TokenOf
    <2>5. tx[i].type = "BurnAsset" => Burnt(i)
      BY <2>1, <2>3 DEF Done
    <2> QED
      BY <2>1, <2>2, <2>4, <2>5 DEF RecordsSend, IsDeep, Burnt
  <1> QED
    BY <1>1, DoneInvariance, RecordInvariance, PTL
=============================================================================
