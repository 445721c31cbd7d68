------------------------- MODULE ContractScanProofs -------------------------
(***************************************************************************)
(* Theorems about ContractScan, for any number of tokens, players, workers *)
(* and schedulers, any batch size and number of confirmations, and any     *)
(* failures, deaths and reorganisations.                                   *)
(***************************************************************************)
EXTENDS ContractScan, TLAPS

(* Steps of the chain, and all the others.                                  *)
ChainStep ==
    \/ NewBlock
    \/ \E type \in ScanTypes, t \in Tokens, u \in Users : Emit(type, t, u)
    \/ Reorg

LEMMA Split ==
    ASSUME [Next]_vars
    PROVE  \/ ChainStep
           \/ \E u \in Users, t \in Tokens : CheckOwner(u, t)
           \/ \E s \in Schedulers : PassStep(s) \/ PassFails(s)
           \/ \E w \in Workers : JobStep(w) \/ JobFails(w) \/ Crash(w)
           \/ UNCHANGED vars
  BY DEF Next, Chain, ChainStep, Deposit, Withdraw, ScanTypes

(* What a step of the chain leaves alone: everything of the game's, the     *)
(* final events, and the record of every event that stays. A new event is   *)
(* in the last block.                                                       *)
LEMMA ChainKeeps ==
    ASSUME TypeOK, ChainStep
    PROVE  /\ UNCHANGED <<owner, requests, status, pass, job, loose, applied>>
           /\ head' \in 1 .. MaxBlock /\ head <= head'
           /\ events' \in Seq(Events) /\ Len(events') <= MaxEvents
           /\ calm' \subseteq Tokens /\ faults' \in 0 .. MaxFaults
           /\ \A e \in DOMAIN events :
                 IsFinal(events[e].block) => e \in DOMAIN events' /\ events'[e] = events[e]
           /\ \A e \in DOMAIN events' :
                 \/ e \in DOMAIN events /\ events'[e] = events[e]
                 \/ events'[e].block = head
  <1> USE DEF TypeOK
  <1>0. MaxEvents \in Nat /\ MaxFaults \in Nat /\ MaxBlock \in Nat /\ Confirmations \in Nat
    BY ScanAssumption
  <1>1. CASE NewBlock
    BY <1>0, <1>1 DEF NewBlock, jobVars
  <1>2. ASSUME NEW type \in ScanTypes, NEW t \in Tokens, NEW u \in Users, Emit(type, t, u)
        PROVE  /\ UNCHANGED <<owner, requests, status, pass, job, loose, applied, head, faults>>
               /\ events' \in Seq(Events) /\ Len(events') <= MaxEvents
               /\ calm' \subseteq Tokens
               /\ \A e \in DOMAIN events : e \in DOMAIN events' /\ events'[e] = events[e]
               /\ \A e \in DOMAIN events' :
                     \/ e \in DOMAIN events /\ events'[e] = events[e]
                     \/ events'[e].block = head
    <2> DEFINE new == [type |-> type, token |-> t, user |-> u, block |-> head]
    <2>1. new \in Events
      BY DEF Events
    <2>2. events' = Append(events, new) /\ Len(events) < MaxEvents
      BY <1>2 DEF Emit
    <2>3. /\ events' \in Seq(Events) /\ Len(events') = Len(events) + 1
          /\ \A e \in 1 .. Len(events) : events'[e] = events[e]
          /\ events'[Len(events) + 1] = new
      BY <2>1, <2>2
    <2>4. DOMAIN events = 1 .. Len(events) /\ DOMAIN events' = 1 .. Len(events) + 1
      BY <2>3
    <2>5. Len(events) \in Nat /\ Len(events') <= MaxEvents
      BY <1>0, <2>2, <2>3
    <2>6. calm' \subseteq Tokens
      BY <1>2 DEF Emit
    <2> HIDE DEF new
    <2>7. \A e \in DOMAIN events' : e \in DOMAIN events \/ e = Len(events) + 1
      BY <2>4, <2>5
    <2>8. new.block = head
      BY DEF new
    <2>9. UNCHANGED <<owner, requests, status, pass, job, loose, applied, head, faults>>
      BY <1>2 DEF Emit, jobVars
    <2> QED
      BY <2>3, <2>4, <2>5, <2>6, <2>7, <2>8, <2>9
  <1>3. CASE Reorg
    <2>1. PICK n \in 0 .. Len(events) - 1 :
             /\ \A e \in DOMAIN events : e > n => ~IsFinal(events[e].block)
             /\ events' = SubSeq(events, 1, n)
      BY <1>3 DEF Reorg
    <2>2. /\ events' \in Seq(Events) /\ Len(events') = n /\ DOMAIN events' = 1 .. n
          /\ \A e \in 1 .. n : events'[e] = events[e]
      BY <2>1
    <2>3. DOMAIN events = 1 .. Len(events) /\ Len(events) \in Nat
      OBVIOUS
    <2>4. /\ UNCHANGED <<head, owner, requests, status, pass, job, loose, applied, calm>>
          /\ faults' \in 0 .. MaxFaults
      BY <1>0, <1>3 DEF Reorg, Fault, jobVars
    <2> QED
      BY <1>0, <2>1, <2>2, <2>3, <2>4
  <1> QED
    BY <1>0, <1>1, <1>2, <1>3 DEF ChainStep

(* Finality is for ever.                                                    *)
LEMMA MoreBlocks ==
    ASSUME NEW c \in Int, NEW h \in Int, NEW g \in Int, h <= g, NEW b \in Int, b <= h - c
    PROVE  b <= g - c
  OBVIOUS

LEMMA StaysFinal ==
    ASSUME TypeOK, head' \in Int, head <= head', NEW b \in Int, IsFinal(b)
    PROVE  IsFinal(b)'
  <1>1. Confirmations \in Int /\ head \in Int
    BY ScanAssumption DEF TypeOK
  <1> QED
    BY <1>1, MoreBlocks DEF IsFinal

-----------------------------------------------------------------------------
(* Bounds: what a pass and a job read of the chain is behind it, and the    *)
(* range of a job is final.                                                 *)
PassBound == \A s \in Schedulers : pass[s].block <= head
CursorBound == \A type \in ScanTypes : status[type].last < head
RangeIsFinal(j) == j.from <= j.to /\ IsFinal(j.to)
JobBound ==
    \A w \in Workers :
        /\ job[w].from <= head
        /\ job[w].pc # "idle" => Exists(TypeOf(w))
        /\ job[w].pc \in {"query", "assign"} => RangeIsFinal(job[w])
Bounds == TypeOK /\ PassBound /\ CursorBound /\ JobBound

LEMMA WorkerType == \A w \in Workers : TypeOf(w) \in ScanTypes
  BY DEF TypeOf, ScanTypes

LEMMA InitBounds == Init => Bounds
  <1> SUFFICES ASSUME Init PROVE Bounds
    OBVIOUS
  <1>1. TypeOK
    <2>1. events \in Seq(Events) /\ Len(events) = 0
      BY DEF Init
    <2>2. NoStatus \in [first : 0 .. MaxBlock, last : -1 .. MaxBlock]
      BY ScanAssumption DEF NoStatus
    <2>3. IdlePass \in [pc : {"idle", "statuses"} \cup ScanTypes,
                         block : 0 .. MaxBlock, found : SUBSET ScanTypes]
      BY ScanAssumption DEF IdlePass
    <2>4. IdleJob \in [pc : {"idle", "block", "query", "assign"},
                        from : 0 .. MaxBlock + 1, to : Int, todo : SUBSET (1 .. MaxEvents)]
      BY ScanAssumption DEF IdleJob
    <2>5. NoneLoose \in [1 .. MaxEvents -> Nat]
      BY DEF NoneLoose
    <2> QED
      BY <2>1, <2>2, <2>3, <2>4, <2>5, ScanAssumption DEF Init, TypeOK
  <1>2. PassBound /\ CursorBound /\ JobBound
    BY WorkerType DEF Init, PassBound, CursorBound, JobBound, IdlePass, IdleJob, NoStatus
  <1> QED
    BY <1>1, <1>2 DEF Bounds

(* The end of a range that is scanned is final.                             *)
LEMMA Range ==
    ASSUME TypeOK, NEW from \in 0 .. MaxBlock + 1, ~NothingToScan(from, ToBlock(from))
    PROVE  ToBlock(from) \in Int /\ from <= ToBlock(from) /\ IsFinal(ToBlock(from))
  <1>1. /\ Confirmations \in Int /\ head \in Int /\ ScanBatchSize \in Int /\ from \in Int
    BY ScanAssumption DEF TypeOK
  <1> DEFINE e == from + ScanBatchSize - 1
             m == head - Confirmations
  <1>2. e \in Int /\ m \in Int
    BY <1>1
  <1>3. ToBlock(from) = IF e < m THEN e ELSE m
    BY DEF ToBlock
  <1> HIDE DEF e
  <1>4. ToBlock(from) \in Int /\ ToBlock(from) <= m
    <2> HIDE DEF m
    <2> QED
      BY <1>2, <1>3
  <1>5. from <= ToBlock(from)
    <2> HIDE DEF m
    <2> QED BY <1>1, <1>4 DEF NothingToScan
  <1> QED
    BY <1>4, <1>5 DEF IsFinal

-----------------------------------------------------------------------------
(* Steps of a scheduler.                                                    *)
LEMMA PassStepBounds ==
    ASSUME Bounds, NEW s \in Schedulers, PassStep(s) \/ PassFails(s)
    PROVE  Bounds'
  <1> USE DEF Bounds, TypeOK
  <1> DEFINE Passes == [pc : {"idle", "statuses"} \cup ScanTypes,
                        block : 0 .. MaxBlock, found : SUBSET ScanTypes]
  <1>0. /\ IdlePass \in Passes /\ IdlePass.block = 0
        /\ 0 <= head /\ head \in 0 .. MaxBlock
        /\ pass[s] \in Passes /\ pass[s].block <= head
        /\ MaxFaults \in Nat /\ MaxBlock \in Nat
    BY ScanAssumption DEF IdlePass, PassBound
  <1>1. ASSUME NEW p \in Passes, p.block <= head, pass' = [pass EXCEPT ![s] = p]
        PROVE  /\ pass' \in [Schedulers -> Passes]
               /\ \A r \in Schedulers : pass'[r].block <= head
    BY <1>1 DEF PassBound
  <1>2. PICK p \in Passes : p.block <= head /\ SetPass(s, p)
    <2>1. CASE ReadBlockNumber(s)
      <3> DEFINE p == [IdlePass EXCEPT !.pc = "statuses", !.block = head]
      <3>1. p \in Passes /\ p.block = head
        BY <1>0 DEF IdlePass
      <3>2. head <= head
        OBVIOUS
      <3> QED
        BY <2>1, <3>1, <3>2 DEF ReadBlockNumber
    <2>2. CASE ReadStatuses(s)
      <3> DEFINE p == [pass[s] EXCEPT !.pc = "WithdrawAsset",
                                      !.found = {type \in ScanTypes : Exists(type)}]
      <3>1. p \in Passes /\ p.block = pass[s].block
        BY <1>0 DEF ScanTypes
      <3> QED
        BY <1>0, <2>2, <3>1 DEF ReadStatuses
    <2>3. AfterStatus(s) \in Passes /\ AfterStatus(s).block <= head
      BY <1>0 DEF AfterStatus, ScanTypes
    <2>4. CASE KeepStatus(s)
      BY <2>3, <2>4 DEF KeepStatus
    <2>5. CASE CreateStatus(s)
      BY <1>0, <2>3, <2>5 DEF CreateStatus
    <2>6. CASE PassFails(s)
      BY <1>0, <2>6 DEF PassFails
    <2> QED
      BY <2>1, <2>2, <2>4, <2>5, <2>6 DEF PassStep
  <1>3. /\ pass' \in [Schedulers -> Passes] /\ PassBound'
        /\ UNCHANGED <<head, events, owner, requests, job, loose, applied, calm>>
    BY <1>1, <1>2 DEF SetPass, PassBound, chainVars, jobVars
  <1>4. faults' \in 0 .. MaxFaults
    BY <1>0 DEF PassStep, ReadBlockNumber, ReadStatuses, KeepStatus, CreateStatus, PassFails, Fault
  <1>5. \/ UNCHANGED status
        \/ \E type \in ScanTypes :
              /\ ~Exists(type)
              /\ status' = [status EXCEPT ![type] = NewStatus(pass[s].block)]
    BY DEF PassStep, ReadBlockNumber, ReadStatuses, KeepStatus, CreateStatus, PassFails
  <1>6. CASE UNCHANGED status
    BY <1>3, <1>4, <1>6 DEF CursorBound, JobBound, Exists, RangeIsFinal, IsFinal
  <1>7. ASSUME NEW type \in ScanTypes, ~Exists(type),
               status' = [status EXCEPT ![type] = NewStatus(pass[s].block)]
        PROVE  Bounds'
    <2>1. /\ NewStatus(pass[s].block) \in [first : 0 .. MaxBlock, last : -1 .. MaxBlock]
          /\ NewStatus(pass[s].block).last < head
      BY <1>0 DEF NewStatus
    <2>2. status' \in [ScanTypes -> [first : 0 .. MaxBlock, last : -1 .. MaxBlock]]
      BY <1>7, <2>1
    <2>3. CursorBound'
      BY <1>3, <1>7, <2>1 DEF CursorBound
    <2>4. JobBound'
      <3>1. \A k \in ScanTypes : Exists(k) => status'[k] = status[k]
        BY <1>7
      <3> QED
        BY <1>3, <3>1, WorkerType DEF JobBound, Exists, RangeIsFinal, IsFinal
    <2> QED
      BY <1>3, <1>4, <2>2, <2>3, <2>4
  <1> QED
    BY <1>5, <1>6, <1>7

-----------------------------------------------------------------------------
(* Steps of a worker.                                                       *)
Jobs == [pc : {"idle", "block", "query", "assign"},
         from : 0 .. MaxBlock + 1, to : Int, todo : SUBSET (1 .. MaxEvents)]

(* What the new job of a worker may be.                                     *)
GoodJob(w, j) ==
    /\ j \in Jobs /\ j.from <= head
    /\ j.pc # "idle" => Exists(TypeOf(w))
    /\ j.pc \in {"query", "assign"} => RangeIsFinal(j)

LEMMA FirstJob ==
    ASSUME NEW old \in Jobs, NEW from \in 0 .. MaxBlock + 1
    PROVE  LET j == [old EXCEPT !.pc = "block", !.from = from]
           IN  j \in Jobs /\ j.from = from /\ j.pc = "block"
  BY DEF Jobs

LEMMA JobStepIsGood ==
    ASSUME Bounds, NEW w \in Workers, JobStep(w) \/ JobFails(w) \/ Crash(w)
    PROVE  /\ \E j : GoodJob(w, j) /\ job' = [job EXCEPT ![w] = j]
           /\ UNCHANGED <<chainVars, requests, pass, calm>>
  <1> USE DEF Bounds, TypeOK
  <1>0. /\ job[w] \in Jobs /\ GoodJob(w, job[w]) /\ head \in 1 .. MaxBlock
        /\ TypeOf(w) \in ScanTypes /\ MaxBlock \in Nat
    BY WorkerType, ScanAssumption DEF JobBound, GoodJob, Jobs
  <1>i. GoodJob(w, IdleJob)
    BY <1>0 DEF GoodJob, IdleJob, Jobs
  <1>1. CASE ReadStatus(w)
    <2> DEFINE from == status[TypeOf(w)].last + 1
               j == [IdleJob EXCEPT !.pc = "block", !.from = from]
    <2>1. status[TypeOf(w)].last \in -1 .. MaxBlock /\ status[TypeOf(w)].last < head
      BY <1>0 DEF CursorBound
    <2>2. from \in 0 .. MaxBlock + 1 /\ from <= head
      BY <1>0, <2>1
    <2>3. GoodJob(w, j)
      <3> HIDE DEF from
      <3>1. j \in Jobs /\ j.from = from /\ j.pc = "block"
        BY <1>i, <2>2, FirstJob DEF GoodJob
      <3> HIDE DEF j
      <3> QED
        BY <1>1, <2>2, <3>1 DEF GoodJob, ReadStatus
    <2> QED
      BY <1>1, <2>3 DEF ReadStatus, SetJob
  <1>2. CASE ReadHead(w)
    <2> DEFINE to == ToBlock(job[w].from)
               j  == [job[w] EXCEPT !.pc = "query", !.to = to]
    <2>1. CASE NothingToScan(job[w].from, to)
      BY <1>i, <1>2, <2>1 DEF ReadHead, SetJob
    <2>2. CASE ~NothingToScan(job[w].from, to)
      <3>1. to \in Int /\ job[w].from <= to /\ IsFinal(to)
        BY <1>0, <2>2, Range DEF Jobs
      <3>2. j.from = job[w].from /\ j.to = to /\ j.pc = "query" /\ j \in Jobs
        BY <1>0, <3>1 DEF Jobs
      <3>3. GoodJob(w, j)
        <4> HIDE DEF j, to
        <4> QED
          BY <1>0, <1>2, <3>1, <3>2 DEF GoodJob, RangeIsFinal, ReadHead
      <3> QED
        BY <1>2, <2>2, <3>3 DEF ReadHead, SetJob
    <2> QED
      BY <2>1, <2>2
  <1>3. CASE QueryFilter(w)
    <2> DEFINE j == [job[w] EXCEPT !.pc = "assign", !.todo = Found(w)]
    <2>1. Found(w) \subseteq 1 .. MaxEvents
      <3>1. DOMAIN events = 1 .. Len(events) /\ Len(events) \in Nat /\ MaxEvents \in Nat
        BY ScanAssumption
      <3> QED
        BY <3>1 DEF Found
    <2>2. j.from = job[w].from /\ j.to = job[w].to /\ j.pc = "assign" /\ j \in Jobs
      BY <1>0, <2>1 DEF Jobs
    <2>3. GoodJob(w, j)
      <3> HIDE DEF j
      <3> QED
        BY <1>0, <1>3, <2>2 DEF GoodJob, RangeIsFinal, QueryFilter
    <2> QED
      BY <1>3, <2>3 DEF QueryFilter, SetJob
  <1>4. ASSUME NEW e \in job[w].todo, Assign(w, e)
        PROVE  /\ \E j : GoodJob(w, j) /\ job' = [job EXCEPT ![w] = j]
               /\ UNCHANGED <<chainVars, requests, pass, calm>>
    <2> DEFINE j == [job[w] EXCEPT !.todo = @ \ {e}]
    <2>1. j.from = job[w].from /\ j.to = job[w].to /\ j.pc = job[w].pc /\ j \in Jobs
      BY <1>0 DEF Jobs
    <2>2. GoodJob(w, j)
      <3> HIDE DEF j
      <3> QED
        BY <1>0, <2>1 DEF GoodJob, RangeIsFinal
    <2> QED
      BY <1>4, <2>2 DEF Assign, SetJob
  <1>5. ASSUME NEW e \in 1 .. MaxEvents, AssignLoose(w, e)
        PROVE  job' = [job EXCEPT ![w] = job[w]] /\ UNCHANGED <<chainVars, requests, pass, calm>>
    BY <1>5 DEF AssignLoose
  <1>6. CASE \/ \E e \in job[w].todo : AssignFails(w, e)
             \/ UpdateLastBlock(w) \/ JobFails(w) \/ Crash(w)
    BY <1>i, <1>6 DEF AssignFails, UpdateLastBlock, JobFails, Crash, SetJob
  <1> QED
    BY <1>0, <1>1, <1>2, <1>3, <1>4, <1>5, <1>6 DEF JobStep

(* How a worker's step writes the cursors.                                  *)
LEMMA CursorSteps ==
    ASSUME Bounds, NEW w \in Workers, JobStep(w) \/ JobFails(w) \/ Crash(w)
    PROVE  \/ UNCHANGED status
           \/ /\ job[w].pc = "assign" /\ job[w].todo = {}
              /\ status' = [status EXCEPT ![TypeOf(w)].last = job[w].to]
              /\ job' = [job EXCEPT ![w] = IdleJob]
              /\ UNCHANGED <<events, applied, loose>>
  BY DEF JobStep, JobFails, Crash, ReadStatus, ReadHead, QueryFilter, Assign, AssignFails,
         AssignLoose, UpdateLastBlock, ReadyToUpdate, SetJob, chainVars

-----------------------------------------------------------------------------
(* Whatever was or will be applied is an event of a final block.            *)
Sound(e) == e \in DOMAIN events /\ IsFinal(events[e].block)
FinalInv ==
    /\ \A e \in applied : Sound(e)
    /\ \A w \in Workers : \A e \in job[w].todo : Sound(e)
    /\ \A w \in Workers : \A e \in 1 .. MaxEvents : loose[w][e] > 0 => Sound(e)

LEMMA JobStepBounds ==
    ASSUME Bounds, FinalInv, NEW w \in Workers, JobStep(w) \/ JobFails(w) \/ Crash(w)
    PROVE  Bounds'
  <1> USE DEF Bounds, TypeOK
  <1>0. /\ job[w] \in Jobs /\ head \in 1 .. MaxBlock /\ TypeOf(w) \in ScanTypes
        /\ MaxBlock \in Nat /\ MaxFaults \in Nat /\ Confirmations \in Nat /\ Confirmations > 0
    BY WorkerType, ScanAssumption DEF Jobs
  <1>1. PICK j : GoodJob(w, j) /\ job' = [job EXCEPT ![w] = j]
    BY JobStepIsGood
  <1>2. UNCHANGED <<head, events, requests, pass, calm>>
    BY JobStepIsGood DEF chainVars
  <1>3. job' \in [Workers -> Jobs]
    BY <1>1 DEF GoodJob, Jobs
  <1>4. faults' \in 0 .. MaxFaults
    <2>1. CASE Fault
      BY <1>0, <2>1 DEF Fault
    <2>2. UNCHANGED faults \/ Fault
      BY DEF JobStep, JobFails, Crash, ReadStatus, ReadHead, QueryFilter, Assign,
             AssignFails, AssignLoose, UpdateLastBlock
    <2> QED
      BY <2>1, <2>2
  <1>5. /\ owner' \in [Tokens -> Users \cup {NoUser}]
        /\ applied' \subseteq 1 .. MaxEvents
    <2>1. ASSUME NEW e \in 1 .. MaxEvents, SetUserId(e), e \in DOMAIN events
          PROVE  /\ owner' \in [Tokens -> Users \cup {NoUser}]
                 /\ applied' \subseteq 1 .. MaxEvents
      <3>1. events[e] \in Events
        BY <2>1
      <3>2. events[e].user \in Users
        BY <3>1 DEF Events
      <3> QED
        BY <2>1, <3>2 DEF SetUserId, NewOwner
    <2>2. \/ UNCHANGED <<owner, applied>>
          \/ \E e \in 1 .. MaxEvents : SetUserId(e) /\ e \in DOMAIN events
      <3>1. ASSUME NEW e \in job[w].todo, Assign(w, e)
            PROVE  e \in 1 .. MaxEvents /\ SetUserId(e) /\ e \in DOMAIN events
        BY <1>0, <3>1 DEF Assign, FinalInv, Sound, Jobs
      <3>2. ASSUME NEW e \in 1 .. MaxEvents, AssignLoose(w, e)
            PROVE  UNCHANGED <<owner, applied>> \/ (SetUserId(e) /\ e \in DOMAIN events)
        BY <3>2 DEF AssignLoose, FinalInv, Sound
      <3> QED
        BY <3>1, <3>2 DEF JobStep, JobFails, Crash, ReadStatus, ReadHead, QueryFilter,
                          AssignFails, UpdateLastBlock
    <2> QED
      BY <2>1, <2>2
  <1>6. loose' \in [Workers -> [1 .. MaxEvents -> Nat]]
    <2>1. ASSUME NEW e \in job[w].todo, AssignFails(w, e)
          PROVE  loose' \in [Workers -> [1 .. MaxEvents -> Nat]]
      <3> DEFINE row == [d \in 1 .. MaxEvents |-> IF d \in job[w].todo \ {e}
                                                THEN loose[w][d] + 1 ELSE loose[w][d]]
      <3>1. DOMAIN loose[w] = 1 .. MaxEvents /\ \A d \in 1 .. MaxEvents : loose[w][d] \in Nat
        OBVIOUS
      <3>2. row \in [1 .. MaxEvents -> Nat]
        BY <3>1
      <3>3. loose' = [loose EXCEPT ![w] = row]
        BY <2>1, <3>1 DEF AssignFails
      <3> HIDE DEF row
      <3> QED
        BY <3>2, <3>3
    <2>2. ASSUME NEW e \in 1 .. MaxEvents, AssignLoose(w, e)
          PROVE  loose' \in [Workers -> [1 .. MaxEvents -> Nat]]
      <3>0. loose[w][e] \in Nat /\ loose[w][e] > 0
        BY <2>2 DEF AssignLoose
      <3>1. loose[w][e] - 1 \in Nat
        BY <3>0
      <3> QED
        BY <2>2, <3>1 DEF AssignLoose
    <2>3. CASE Crash(w)
      BY <2>3 DEF Crash, NoneLoose
    <2> QED
      BY <2>1, <2>2, <2>3 DEF JobStep, JobFails, ReadStatus, ReadHead, QueryFilter, Assign,
                              UpdateLastBlock
  <1>7. /\ status' \in [ScanTypes -> [first : 0 .. MaxBlock, last : -1 .. MaxBlock]]
        /\ CursorBound'
        /\ \A type \in ScanTypes : Exists(type) => status'[type] # NoStatus
    <2>1. CASE UNCHANGED status
      BY <1>2, <2>1 DEF CursorBound, Exists
    <2>2. CASE /\ job[w].pc = "assign"
               /\ status' = [status EXCEPT ![TypeOf(w)].last = job[w].to]
      <3>1. /\ job[w].to \in Int /\ job[w].from \in Nat
            /\ job[w].from <= job[w].to /\ IsFinal(job[w].to)
        <4>1. /\ job[w].to \in Int /\ job[w].from \in 0 .. MaxBlock + 1
          BY <1>0 DEF Jobs
        <4>2. RangeIsFinal(job[w])
          BY <2>2 DEF JobBound
        <4> QED
          BY <1>0, <4>1, <4>2 DEF RangeIsFinal
      <3>2. job[w].to \in 0 .. MaxBlock /\ job[w].to < head
        BY <1>0, <3>1 DEF IsFinal
      <3> DEFINE last == job[w].to
      <3> HIDE DEF last
      <3>3. /\ status' = [status EXCEPT ![TypeOf(w)].last = last]
            /\ last \in 0 .. MaxBlock /\ last < head
        BY <2>2, <3>2 DEF last
      <3>4. status' \in [ScanTypes -> [first : 0 .. MaxBlock, last : -1 .. MaxBlock]]
        <4>1. last \in -1 .. MaxBlock
          BY <1>0, <3>3
        <4>2. [status[TypeOf(w)] EXCEPT !.last = last] \in [first : 0 .. MaxBlock, last : -1 .. MaxBlock]
          BY <1>0, <4>1
        <4> QED
          BY <1>0, <3>3, <4>2
      <3>5. /\ \A type \in ScanTypes : status'[type].last < head
            /\ \A type \in ScanTypes \ {TypeOf(w)} : status'[type] = status[type]
            /\ status'[TypeOf(w)].last = last
        BY <1>0, <3>3 DEF CursorBound
      <3> QED
        BY <1>2, <3>3, <3>4, <3>5 DEF CursorBound, Exists, NoStatus
    <2> QED
      BY <2>1, <2>2, CursorSteps
  <1>8. JobBound'
    <2>1. ASSUME NEW v \in Workers
          PROVE  /\ job'[v].from <= head
                 /\ job'[v].pc # "idle" => Exists(TypeOf(v))
                 /\ job'[v].pc \in {"query", "assign"} => RangeIsFinal(job'[v])
      BY <1>1 DEF GoodJob, JobBound
    <2>2. ASSUME NEW v \in Workers, Exists(TypeOf(v))
          PROVE  Exists(TypeOf(v))'
      BY <1>7, <2>2, WorkerType DEF Exists
    <2> QED
      BY <1>2, <2>1, <2>2 DEF JobBound, RangeIsFinal, IsFinal
  <1>9. PassBound'
    BY <1>2 DEF PassBound
  <1> QED
    BY <1>2, <1>3, <1>4, <1>5, <1>6, <1>7, <1>8, <1>9 DEF Jobs

-----------------------------------------------------------------------------
(* The other steps.                                                         *)
LEMMA ChainBounds ==
    ASSUME Bounds, ChainStep
    PROVE  Bounds'
  <1> USE DEF Bounds
  <1>1. /\ UNCHANGED <<owner, requests, status, pass, job, loose, applied>>
        /\ head' \in 1 .. MaxBlock /\ head <= head'
        /\ events' \in Seq(Events) /\ Len(events') <= MaxEvents
        /\ calm' \subseteq Tokens /\ faults' \in 0 .. MaxFaults
    BY ChainKeeps
  <1>2. head \in Int /\ head' \in Int
    BY <1>1 DEF TypeOK
  <1>3. TypeOK'
    BY <1>1 DEF TypeOK
  <1>4. PassBound'
    <2>1. \A s \in Schedulers : pass[s].block \in Int
      BY DEF TypeOK
    <2> QED
      BY <1>1, <1>2, <2>1 DEF PassBound
  <1>5. CursorBound'
    <2>1. \A type \in ScanTypes : status[type].last \in Int
      BY DEF TypeOK
    <2> QED
      BY <1>1, <1>2, <2>1 DEF CursorBound
  <1>6. JobBound'
    <2>1. ASSUME NEW w \in Workers
          PROVE  /\ job[w].from <= head'
                 /\ job[w].pc \in {"query", "assign"} =>
                        job[w].from <= job[w].to /\ IsFinal(job[w].to)'
      <3>1. job[w].from \in Int /\ job[w].to \in Int
        BY DEF TypeOK
      <3> QED
        BY <1>1, <1>2, <3>1, StaysFinal DEF JobBound, RangeIsFinal
    <2> QED
      BY <1>1, <2>1 DEF JobBound, RangeIsFinal, Exists
  <1> QED
    BY <1>3, <1>4, <1>5, <1>6

LEMMA StutterBounds ==
    ASSUME Bounds,
           UNCHANGED vars \/ \E u \in Users, t \in Tokens : CheckOwner(u, t)
    PROVE  Bounds'
  <1>1. /\ UNCHANGED <<head, events, owner, status, pass, job, loose, applied, calm, faults>>
        /\ requests' \subseteq requests \cup (Users \X Tokens)
    <2>1. CASE UNCHANGED vars
      BY <2>1 DEF vars, chainVars, jobVars
    <2>2. ASSUME NEW u \in Users, NEW t \in Tokens, CheckOwner(u, t)
          PROVE  /\ UNCHANGED <<head, events, owner, status, pass, job, loose, applied, calm, faults>>
                 /\ requests' = requests \cup {<<u, t>>}
      BY <2>2 DEF CheckOwner, chainVars, jobVars
    <2> QED
      BY <2>1, <2>2
  <1> QED
    BY <1>1 DEF Bounds, TypeOK, PassBound, CursorBound, JobBound, RangeIsFinal, IsFinal, Exists

LEMMA NextBounds ==
    ASSUME Bounds, FinalInv, [Next]_vars
    PROVE  Bounds'
  BY Split, ChainBounds, StutterBounds, PassStepBounds, JobStepBounds

-----------------------------------------------------------------------------
(* Only final events are applied.                                           *)
LEMMA StaysSound ==
    ASSUME TypeOK, ChainStep, NEW e, Sound(e)
    PROVE  Sound(e)' /\ events'[e] = events[e]
  <1>1. events[e].block \in Int
    <2>1. events[e] \in Events
      BY DEF Sound, TypeOK
    <2> QED
      BY <2>1 DEF Events
  <1>2. head' \in Int /\ head <= head'
    BY ChainKeeps
  <1>3. e \in DOMAIN events' /\ events'[e] = events[e]
    BY ChainKeeps DEF Sound
  <1>4. IsFinal(events[e].block)'
    <2> DEFINE b == events[e].block
    <2>1. b \in Int /\ b <= head - Confirmations
      BY <1>1 DEF Sound, IsFinal
    <2>2. Confirmations \in Int /\ head \in Int
      BY ScanAssumption DEF TypeOK
    <2>3. events'[e].block = b
      BY <1>3
    <2> HIDE DEF b
    <2>4. b <= head' - Confirmations
      BY <1>2, <2>1, <2>2, MoreBlocks
    <2> QED
      BY <2>3, <2>4 DEF IsFinal
  <1> QED
    BY <1>3, <1>4 DEF Sound

LEMMA FoundIsSound ==
    ASSUME Bounds, NEW w \in Workers, QueryFilter(w), NEW e \in Found(w)
    PROVE  Sound(e)
  <1>1. e \in DOMAIN events /\ events[e].block <= job[w].to
    BY DEF Found, InRange
  <1>2. events[e].block \in Int /\ job[w].to \in Int /\ head \in Int /\ Confirmations \in Int
    <2>1. events[e] \in Events
      BY <1>1 DEF Bounds, TypeOK
    <2>2. events[e].block \in 1 .. MaxBlock
      BY <2>1 DEF Events
    <2>3. job[w].to \in Int /\ head \in 1 .. MaxBlock
      BY DEF Bounds, TypeOK
    <2> QED
      BY <2>2, <2>3, ScanAssumption
  <1>3. IsFinal(job[w].to)
    BY DEF QueryFilter, Bounds, JobBound, RangeIsFinal
  <1>4. IsFinal(events[e].block)
    <2>1. \A b, c, h, to \in Int : b <= to /\ to <= h - c => b <= h - c
      OBVIOUS
    <2> QED
      BY <1>1, <1>2, <1>3, <2>1 DEF IsFinal
  <1> QED
    BY <1>1, <1>4 DEF Sound

(* What a worker's step does to the events it holds.                        *)
LEMMA HeldEvents ==
    ASSUME Bounds, NEW w \in Workers, JobStep(w) \/ JobFails(w) \/ Crash(w)
    PROVE  /\ \A e \in applied' :
                 \/ e \in applied
                 \/ e \in job[w].todo
                 \/ e \in 1 .. MaxEvents /\ loose[w][e] > 0
           /\ \A v \in Workers \ {w} : job'[v] = job[v] /\ loose'[v] = loose[v]
           /\ \/ job'[w].todo \subseteq job[w].todo
              \/ QueryFilter(w) /\ job'[w].todo = Found(w)
           /\ \A e \in 1 .. MaxEvents : loose'[w][e] > 0 => loose[w][e] > 0 \/ e \in job[w].todo
  <1> USE DEF Bounds, TypeOK
  <1>0. IdleJob.todo = {} /\ job \in [Workers -> Jobs]
    BY DEF IdleJob, Jobs
  <1>1. CASE ReadStatus(w) \/ ReadHead(w) \/ UpdateLastBlock(w) \/ JobFails(w)
    <2>1. UNCHANGED <<applied, loose>>
      BY <1>1 DEF ReadStatus, ReadHead, UpdateLastBlock, JobFails
    <2>2. \E j : job' = [job EXCEPT ![w] = j] /\ j.todo \subseteq job[w].todo
      <3>1. ASSUME NEW from PROVE [IdleJob EXCEPT !.pc = "block", !.from = from].todo = {}
        BY DEF IdleJob
      <3>2. ASSUME NEW to PROVE [job[w] EXCEPT !.pc = "query", !.to = to].todo = job[w].todo
        BY <1>0 DEF Jobs
      <3>3. CASE ReadStatus(w)
        BY <3>1, <3>3 DEF ReadStatus, SetJob
      <3>4. CASE ReadHead(w)
        <4>1. CASE NothingToScan(job[w].from, ToBlock(job[w].from))
          BY <1>0, <3>4, <4>1 DEF ReadHead, SetJob
        <4>2. CASE ~NothingToScan(job[w].from, ToBlock(job[w].from))
          BY <3>2, <3>4, <4>2 DEF ReadHead, SetJob
        <4> QED
          BY <4>1, <4>2
      <3> QED
        BY <1>0, <1>1, <3>3, <3>4 DEF UpdateLastBlock, JobFails, SetJob
    <2> QED
      BY <1>0, <2>1, <2>2
  <1>2. CASE QueryFilter(w)
    <2>1. [job[w] EXCEPT !.pc = "assign", !.todo = Found(w)].todo = Found(w)
      BY <1>0 DEF Jobs
    <2> QED
      BY <1>2, <2>1 DEF QueryFilter, SetJob
  <1>3. ASSUME NEW e \in job[w].todo, Assign(w, e)
        PROVE  /\ applied' = applied \cup {e} /\ UNCHANGED loose
               /\ \A v \in Workers \ {w} : job'[v] = job[v]
               /\ job'[w].todo \subseteq job[w].todo
    <2>1. [job[w] EXCEPT !.todo = @ \ {e}].todo = job[w].todo \ {e}
      BY <1>0 DEF Jobs
    <2> QED
      BY <1>3, <2>1 DEF Assign, SetJob, SetUserId
  <1>4. ASSUME NEW e \in job[w].todo, AssignFails(w, e)
        PROVE  /\ UNCHANGED applied
               /\ \A v \in Workers \ {w} : job'[v] = job[v] /\ loose'[v] = loose[v]
               /\ job'[w].todo \subseteq job[w].todo
               /\ \A d \in 1 .. MaxEvents :
                     loose'[w][d] > 0 => loose[w][d] > 0 \/ d \in job[w].todo
    <2>1. DOMAIN loose[w] = 1 .. MaxEvents
      OBVIOUS
    <2>2. loose'[w] = [d \in 1 .. MaxEvents |-> IF d \in job[w].todo \ {e}
                                              THEN loose[w][d] + 1 ELSE loose[w][d]]
      BY <1>4, <2>1 DEF AssignFails
    <2>3. job'[w] = IdleJob /\ \A v \in Workers \ {w} : job'[v] = job[v] /\ loose'[v] = loose[v]
      BY <1>4 DEF AssignFails, SetJob
    <2> QED
      BY <1>0, <1>4, <2>2, <2>3 DEF AssignFails
  <1>5. ASSUME NEW e \in 1 .. MaxEvents, AssignLoose(w, e)
        PROVE  /\ applied' \subseteq applied \cup {e} /\ loose[w][e] > 0 /\ UNCHANGED job
               /\ \A v \in Workers \ {w} : loose'[v] = loose[v]
               /\ \A d \in 1 .. MaxEvents : loose'[w][d] > 0 => loose[w][d] > 0
    BY <1>5 DEF AssignLoose, SetUserId
  <1>6. CASE Crash(w)
    <2>1. job'[w] = IdleJob /\ loose'[w] = NoneLoose /\ UNCHANGED applied
      BY <1>6 DEF Crash, SetJob
    <2>2. \A v \in Workers \ {w} : job'[v] = job[v] /\ loose'[v] = loose[v]
      BY <1>6 DEF Crash, SetJob
    <2>3. \A e \in 1 .. MaxEvents : ~(NoneLoose[e] > 0)
      BY DEF NoneLoose
    <2> QED
      BY <1>0, <2>1, <2>2, <2>3
  <1> QED
    BY <1>1, <1>2, <1>3, <1>4, <1>5, <1>6 DEF JobStep

LEMMA NextFinal ==
    ASSUME Bounds, FinalInv, [Next]_vars
    PROVE  FinalInv'
  <1>1. CASE ChainStep
    <2>1. UNCHANGED <<job, loose, applied>>
      BY <1>1, ChainKeeps DEF Bounds
    <2>2. \A e : Sound(e) => Sound(e)'
      BY <1>1, StaysSound DEF Bounds
    <2> QED
      BY <2>1, <2>2 DEF FinalInv
  <1>2. CASE \/ \E u \in Users, t \in Tokens : CheckOwner(u, t)
             \/ \E s \in Schedulers : PassStep(s) \/ PassFails(s)
             \/ UNCHANGED vars
    <2>1. UNCHANGED <<head, events, job, loose, applied>>
      BY <1>2 DEF CheckOwner, PassStep, ReadBlockNumber, ReadStatuses, KeepStatus, CreateStatus,
                  PassFails, SetPass, vars, chainVars, jobVars
    <2> QED
      BY <2>1 DEF FinalInv, Sound, IsFinal
  <1>3. ASSUME NEW w \in Workers, JobStep(w) \/ JobFails(w) \/ Crash(w)
        PROVE  FinalInv'
    <2>1. UNCHANGED <<head, events>>
      BY <1>3, JobStepIsGood DEF chainVars
    <2>2. \A e : Sound(e)' <=> Sound(e)
      BY <2>1 DEF Sound, IsFinal
    <2>3. \A e \in applied' : Sound(e)
      BY <1>3, HeldEvents DEF FinalInv
    <2>4. \A v \in Workers : \A e \in job'[v].todo : Sound(e)
      BY <1>3, HeldEvents, FoundIsSound DEF FinalInv
    <2>5. \A v \in Workers : \A e \in 1 .. MaxEvents : loose'[v][e] > 0 => Sound(e)
      BY <1>3, HeldEvents DEF FinalInv
    <2> QED
      BY <2>2, <2>3, <2>4, <2>5 DEF FinalInv
  <1> QED
    BY <1>1, <1>2, <1>3, Split

LEMMA InitFinal == Init => FinalInv
  BY WorkerType DEF Init, FinalInv, IdleJob, NoneLoose

LEMMA BoundsHold == Spec => [](Bounds /\ FinalInv)
  <1>1. Init => Bounds /\ FinalInv
    BY InitBounds, InitFinal
  <1>2. Bounds /\ FinalInv /\ [Next]_vars => (Bounds /\ FinalInv)'
    BY NextBounds, NextFinal
  <1> QED
    BY <1>1, <1>2, PTL DEF Spec

(* Every variable stays in its type.                                        *)
THEOREM Typing == Spec => []TypeOK
  <1>1. Bounds => TypeOK
    BY DEF Bounds
  <1> QED
    BY <1>1, BoundsHold, PTL

(* No asset changes hands for an event that a reorganisation may undo: what *)
(* ContractScanWorker applies lies below the confirmations, for ever.       *)
THEOREM OnlyFinalEvents == Spec => []ScansOnlyFinal
  <1>1. FinalInv => ScansOnlyFinal
    BY DEF FinalInv, ScansOnlyFinal, Sound
  <1> QED
    BY <1>1, BoundsHold, PTL
-----------------------------------------------------------------------------
(* Every event since the status was created is applied: up to its cursor,   *)
(* up to the range of a job, and up to the end of a range that has nothing  *)
(* more to do.                                                              *)
Of(e, type) == e \in DOMAIN events /\ events[e].type = type
AppliedTo(type, b) ==
    \A e : Of(e, type) /\ status[type].first <= events[e].block /\ events[e].block <= b
          => e \in applied
NowAppliedTo(type, b) ==   \* AppliedTo after the step, for a b of before it
    \A e : Of(e, type)' /\ status'[type].first <= events'[e].block /\ events'[e].block <= b
          => e \in applied'
DoneInv ==
    /\ \A type \in ScanTypes : AppliedTo(type, status[type].last)
    /\ \A w \in Workers : job[w].pc # "idle" => AppliedTo(TypeOf(w), job[w].from - 1)
    /\ \A w \in Workers : job[w].pc = "assign" =>
          \A e : Of(e, TypeOf(w)) /\ InRange(events[e].block, job[w])
                => e \in job[w].todo \cup applied

LEMMA EventTypes ==
    ASSUME TypeOK, NEW e \in DOMAIN events
    PROVE  events[e].type \in ScanTypes /\ events[e].block \in 1 .. MaxBlock
  <1>1. events[e] \in Events
    BY DEF TypeOK
  <1> QED
    BY <1>1 DEF Events

LEMMA InitDone == Init => DoneInv
  <1> SUFFICES ASSUME Init PROVE DoneInv
    OBVIOUS
  <1>1. events = <<>> /\ \A e, type : ~Of(e, type)
    BY DEF Init, Of
  <1> QED
    BY <1>1 DEF DoneInv, AppliedTo

(* A new event is in a block that no cursor and no range has reached.       *)
LEMMA ChainDone ==
    ASSUME Bounds, DoneInv, ChainStep
    PROVE  DoneInv'
  <1>1. UNCHANGED <<owner, requests, status, pass, job, loose, applied>>
    BY ChainKeeps DEF Bounds
  <1>2. ASSUME NEW e, NEW type, Of(e, type)'
        PROVE  (Of(e, type) /\ events'[e] = events[e]) \/ events'[e].block = head
    BY <1>2, ChainKeeps DEF Of, Bounds
  <1>3. head \in Int /\ MaxBlock \in Int /\ Confirmations \in Int /\ Confirmations > 0
    BY ScanAssumption DEF Bounds, TypeOK
  <1>4. ASSUME NEW type, NEW b \in Int, b < head, AppliedTo(type, b)
        PROVE  NowAppliedTo(type, b)
    <2>1. ~(head <= b)
      BY <1>3, <1>4
    <2> QED
      BY <1>1, <1>2, <1>4, <2>1 DEF AppliedTo, NowAppliedTo
  <1>5. ASSUME NEW type \in ScanTypes
        PROVE  AppliedTo(type, status[type].last)'
    <2>1. status[type].last \in Int /\ status[type].last < head
      BY DEF Bounds, TypeOK, CursorBound
    <2>2. AppliedTo(type, status[type].last)
      BY DEF DoneInv
    <2>3. NowAppliedTo(type, status[type].last)
      BY <1>4, <2>1, <2>2
    <2> QED
      BY <1>1, <2>3 DEF NowAppliedTo, AppliedTo
  <1>6. ASSUME NEW w \in Workers, job[w].pc # "idle"
        PROVE  AppliedTo(TypeOf(w), job[w].from - 1)'
    <2> DEFINE b == job[w].from - 1
    <2>1. b \in Int /\ b < head
      <3>1. job[w].from \in 0 .. MaxBlock + 1 /\ job[w].from <= head
        BY DEF Bounds, TypeOK, JobBound
      <3> QED
        BY <1>3, <3>1
    <2>2. AppliedTo(TypeOf(w), b)
      BY <1>6 DEF DoneInv
    <2> HIDE DEF b
    <2>3. NowAppliedTo(TypeOf(w), b)
      BY <1>4, <2>1, <2>2
    <2> QED
      BY <1>1, <2>3 DEF b, NowAppliedTo, AppliedTo
  <1>7. ASSUME NEW w \in Workers, job[w].pc = "assign",
               NEW e, Of(e, TypeOf(w))', InRange(events[e].block, job[w])'
        PROVE  e \in job[w].todo \cup applied
    <2>1. job[w].to \in Int /\ IsFinal(job[w].to)
      BY <1>7 DEF Bounds, TypeOK, JobBound, RangeIsFinal
    <2>2. ~(head <= job[w].to)
      BY <1>3, <2>1 DEF IsFinal
    <2>3. events'[e].block <= job[w].to
      BY <1>1, <1>7 DEF InRange
    <2>4. Of(e, TypeOf(w)) /\ events'[e] = events[e]
      BY <1>2, <1>7, <2>2, <2>3
    <2>5. InRange(events[e].block, job[w])
      BY <1>1, <1>7, <2>4 DEF InRange
    <2> QED
      BY <1>7, <2>4, <2>5 DEF DoneInv
  <1> QED
    BY <1>1, <1>5, <1>6, <1>7 DEF DoneInv

(* A pass writes the status of a type nobody scans yet, with no block that  *)
(* would count as scanned.                                                  *)
LEMMA PassDone ==
    ASSUME Bounds, DoneInv, NEW s \in Schedulers, PassStep(s) \/ PassFails(s)
    PROVE  DoneInv'
  <1>1. UNCHANGED <<head, events, job, loose, applied>>
    BY DEF PassStep, PassFails, ReadBlockNumber, ReadStatuses, KeepStatus, CreateStatus,
           SetPass, chainVars, jobVars
  <1>2. \/ UNCHANGED status
        \/ \E type \in ScanTypes :
              /\ ~Exists(type)
              /\ status' = [status EXCEPT ![type] = NewStatus(pass[s].block)]
    BY DEF PassStep, ReadBlockNumber, ReadStatuses, KeepStatus, CreateStatus, PassFails
  <1>3. CASE UNCHANGED status
    BY <1>1, <1>3 DEF DoneInv, AppliedTo, Of, InRange
  <1>4. ASSUME NEW type \in ScanTypes, ~Exists(type),
               status' = [status EXCEPT ![type] = NewStatus(pass[s].block)]
        PROVE  DoneInv'
    <2>1. pass[s].block \in Int
      BY DEF Bounds, TypeOK
    <2>2. /\ \A k \in ScanTypes \ {type} : status'[k] = status[k]
          /\ status'[type] = NewStatus(pass[s].block)
      BY <1>4 DEF Bounds, TypeOK
    <2>3. /\ status'[type].first = pass[s].block
          /\ status'[type].last = pass[s].block - 1
      BY <2>2 DEF NewStatus
    <2>4. AppliedTo(type, status[type].last)'
      <3>1. ASSUME NEW e, Of(e, type) PROVE events[e].block \in Int
        BY <3>1, EventTypes, ScanAssumption DEF Of, Bounds
      <3>2. \A b, c \in Int : ~(b <= c /\ c <= b - 1)
        OBVIOUS
      <3> QED
        BY <1>1, <2>1, <2>3, <3>1, <3>2 DEF AppliedTo, Of
    <2>5. \A k \in ScanTypes \ {type} : \A b : AppliedTo(k, b) => NowAppliedTo(k, b)
      BY <1>1, <2>2 DEF AppliedTo, NowAppliedTo, Of
    <2>6. \A w \in Workers : job[w].pc # "idle" => TypeOf(w) \in ScanTypes \ {type}
      BY <1>4, WorkerType DEF Bounds, JobBound
    <2>7. ASSUME NEW k \in ScanTypes PROVE AppliedTo(k, status[k].last)'
      <3>1. CASE k = type
        BY <2>4, <3>1
      <3>2. CASE k # type
        <4>1. NowAppliedTo(k, status[k].last) /\ status'[k] = status[k]
          BY <2>2, <2>5, <3>2 DEF DoneInv
        <4> QED
          BY <4>1 DEF AppliedTo, NowAppliedTo
      <3> QED
        BY <3>1, <3>2
    <2>8. ASSUME NEW w \in Workers, job[w].pc # "idle"
          PROVE  AppliedTo(TypeOf(w), job[w].from - 1)'
      <3>1. AppliedTo(TypeOf(w), job[w].from - 1)
        BY <2>8 DEF DoneInv
      <3>2. status'[TypeOf(w)] = status[TypeOf(w)]
        BY <2>2, <2>6, <2>8
      <3> QED
        BY <1>1, <3>1, <3>2 DEF AppliedTo, Of
    <2> QED
      BY <1>1, <2>7, <2>8 DEF DoneInv, Of, InRange
  <1> QED
    BY <1>2, <1>3, <1>4
(* The shapes a step gives to the job of its worker.                        *)
LEMMA JobShape ==
    ASSUME Bounds, NEW w \in Workers, JobStep(w) \/ JobFails(w) \/ Crash(w)
    PROVE  LET j == job[w]
               k == job'[w]
           IN  \/ k = j
               \/ k.pc = "idle"
               \/ /\ k.pc = "block" /\ k.from = status[TypeOf(w)].last + 1
                  /\ UNCHANGED status
               \/ /\ k.pc = "query" /\ k.from = j.from /\ j.pc = "block"
               \/ /\ k.pc = "assign" /\ k.from = j.from /\ k.to = j.to /\ j.pc = "query"
                  /\ k.todo = Found(w)
               \/ /\ k.pc = "assign" /\ k.from = j.from /\ k.to = j.to /\ j.pc = "assign"
                  /\ j.todo \subseteq k.todo \cup applied'
  <1> USE DEF Bounds, TypeOK
  <1>0. job \in [Workers -> Jobs] /\ IdleJob.pc = "idle" /\ IdleJob \in Jobs
    BY ScanAssumption DEF Jobs, IdleJob
  <1>1. CASE ReadStatus(w)
    <2> DEFINE from == status[TypeOf(w)].last + 1
    <2>1. from \in 0 .. MaxBlock + 1
      <3>1. status[TypeOf(w)].last \in -1 .. MaxBlock
        BY WorkerType
      <3> QED
        BY <3>1, ScanAssumption
    <2> HIDE DEF from
    <2>2. job' = [job EXCEPT ![w] = [IdleJob EXCEPT !.pc = "block", !.from = from]]
      BY <1>1 DEF ReadStatus, SetJob, from
    <2>3. job'[w].pc = "block" /\ job'[w].from = from
      BY <1>0, <2>1, <2>2, FirstJob
    <2> QED
      BY <1>1, <2>3 DEF ReadStatus, from
  <1>2. CASE ReadHead(w)
    <2>1. ASSUME NEW to
          PROVE  LET k == [job[w] EXCEPT !.pc = "query", !.to = to]
                 IN  k.pc = "query" /\ k.from = job[w].from
      BY <1>0 DEF Jobs
    <2>2. CASE NothingToScan(job[w].from, ToBlock(job[w].from))
      BY <1>0, <1>2, <2>2 DEF ReadHead, SetJob
    <2>3. CASE ~NothingToScan(job[w].from, ToBlock(job[w].from))
      BY <1>2, <2>1, <2>3 DEF ReadHead, SetJob
    <2> QED
      BY <2>2, <2>3
  <1>3. CASE QueryFilter(w)
    <2> DEFINE k == [job[w] EXCEPT !.pc = "assign", !.todo = Found(w)]
    <2>1. k.pc = "assign" /\ k.from = job[w].from /\ k.to = job[w].to /\ k.todo = Found(w)
      BY <1>0 DEF Jobs
    <2>2. job'[w] = k /\ job[w].pc = "query"
      BY <1>3 DEF QueryFilter, SetJob
    <2> HIDE DEF k
    <2> QED
      BY <2>1, <2>2
  <1>4. ASSUME NEW e \in job[w].todo, Assign(w, e)
        PROVE  /\ job'[w].pc = "assign" /\ job'[w].from = job[w].from
               /\ job'[w].to = job[w].to /\ job[w].pc = "assign"
               /\ job[w].todo \subseteq job'[w].todo \cup applied'
    <2> DEFINE k == [job[w] EXCEPT !.todo = @ \ {e}]
    <2>1. /\ k.pc = job[w].pc /\ k.from = job[w].from /\ k.to = job[w].to
          /\ k.todo = job[w].todo \ {e}
      BY <1>0 DEF Jobs
    <2>2. job'[w] = k /\ job[w].pc = "assign" /\ e \in applied'
      BY <1>4 DEF Assign, SetJob, SetUserId
    <2> HIDE DEF k
    <2> QED
      BY <2>1, <2>2
  <1>5. CASE \/ \E e \in job[w].todo : AssignFails(w, e)
             \/ UpdateLastBlock(w) \/ JobFails(w) \/ Crash(w)
    BY <1>0, <1>5 DEF AssignFails, UpdateLastBlock, JobFails, Crash, SetJob
  <1>6. CASE \E e \in 1 .. MaxEvents : AssignLoose(w, e)
    BY <1>6 DEF AssignLoose
  <1> QED
    BY <1>1, <1>2, <1>3, <1>4, <1>5, <1>6 DEF JobStep

LEMMA JobDone ==
    ASSUME Bounds, DoneInv, NEW w \in Workers, JobStep(w) \/ JobFails(w) \/ Crash(w)
    PROVE  DoneInv'
  <1> USE DEF Bounds, TypeOK
  <1>0. /\ job \in [Workers -> Jobs] /\ IdleJob.pc = "idle"
        /\ UNCHANGED <<head, events>> /\ applied \subseteq applied'
    <2>1. applied \subseteq applied'
      BY DEF JobStep, JobFails, Crash, ReadStatus, ReadHead, QueryFilter, Assign, AssignFails,
             AssignLoose, UpdateLastBlock, SetUserId
    <2> QED
      BY <2>1, JobStepIsGood DEF chainVars, Jobs, IdleJob
  <1>1. \/ UNCHANGED status
        \/ /\ job[w].pc = "assign" /\ job[w].todo = {}
           /\ status' = [status EXCEPT ![TypeOf(w)].last = job[w].to]
    BY CursorSteps
  <1>2. ASSUME NEW type \in ScanTypes
        PROVE  status'[type].first = status[type].first
    <2>1. CASE status' = [status EXCEPT ![TypeOf(w)].last = job[w].to]
      <3>1. status \in [ScanTypes -> [first : 0 .. MaxBlock, last : -1 .. MaxBlock]]
        OBVIOUS
      <3>2. CASE type = TypeOf(w)
        <4>1. status'[type] = [status[type] EXCEPT !.last = job[w].to]
          BY <2>1, <3>1, <3>2
        <4>2. status[type] \in [first : 0 .. MaxBlock, last : -1 .. MaxBlock]
          BY <3>1
        <4> QED
          BY <4>1, <4>2
      <3>3. CASE type # TypeOf(w)
        BY <2>1, <3>1, <3>3
      <3> QED
        BY <3>2, <3>3
    <2> QED
      BY <1>1, <2>1
  <1>3. ASSUME NEW type \in ScanTypes, NEW b, AppliedTo(type, b)
        PROVE  NowAppliedTo(type, b)
    BY <1>0, <1>2, <1>3 DEF AppliedTo, NowAppliedTo, Of
  <1>4. ASSUME NEW v \in Workers, job[v].pc = "assign"
        PROVE  NowAppliedTo(TypeOf(v), job[v].from - 1)
    BY <1>3, <1>4, WorkerType DEF DoneInv
  (* The cursors. *)
  <1>5. ASSUME NEW type \in ScanTypes PROVE AppliedTo(type, status[type].last)'
    <2>1. CASE status'[type].last = status[type].last
      <3>1. NowAppliedTo(type, status[type].last)
        BY <1>3 DEF DoneInv
      <3> QED
        BY <2>1, <3>1 DEF AppliedTo, NowAppliedTo
    <2>2. CASE /\ job[w].pc = "assign" /\ job[w].todo = {} /\ type = TypeOf(w)
               /\ status'[type].last = job[w].to
      <3> SUFFICES ASSUME NEW e, Of(e, type)', status'[type].first <= events'[e].block,
                          events'[e].block <= job[w].to
                   PROVE  e \in applied'
        BY <2>2 DEF AppliedTo
      <3>1. Of(e, type) /\ events'[e] = events[e]
        BY <1>0 DEF Of
      <3>2. CASE events[e].block <= job[w].from - 1
        BY <1>4, <2>2, <3>1, <3>2 DEF NowAppliedTo
      <3>3. CASE job[w].from <= events[e].block
        <4>1. InRange(events[e].block, job[w])
          BY <3>1, <3>3 DEF InRange
        <4>2. e \in job[w].todo \cup applied
          BY <2>2, <3>1, <4>1 DEF DoneInv
        <4> QED
          BY <1>0, <2>2, <4>2
      <3>4. events[e].block \in Int /\ job[w].from \in Int
        <4>1. events[e].block \in 1 .. MaxBlock
          BY <3>1, EventTypes DEF Of
        <4> QED
          BY <4>1, ScanAssumption
      <3> QED
        BY <3>2, <3>3, <3>4
    <2>3. CASE type # TypeOf(w) /\ status' = [status EXCEPT ![TypeOf(w)].last = job[w].to]
      <3>1. status'[type] = status[type]
        BY <2>3
      <3> QED
        BY <2>1, <3>1
    <2>4. CASE UNCHANGED status
      BY <2>1, <2>4
    <2> QED
      BY <1>1, <2>2, <2>3, <2>4
  (* A job that keeps its range. *)
  <1>6. ASSUME NEW v \in Workers, job'[v].from = job[v].from, job[v].pc # "idle"
        PROVE  AppliedTo(TypeOf(v), job[v].from - 1)'
    <2>1. NowAppliedTo(TypeOf(v), job[v].from - 1)
      BY <1>3, <1>6, WorkerType DEF DoneInv
    <2> QED
      BY <1>6, <2>1 DEF AppliedTo, NowAppliedTo
  <1>7. ASSUME NEW v \in Workers, job'[v].from = job[v].from, job'[v].to = job[v].to,
               job[v].pc = "assign", job[v].todo \subseteq job'[v].todo \cup applied',
               NEW e, Of(e, TypeOf(v))', InRange(events[e].block, job[v])'
        PROVE  e \in job'[v].todo \cup applied'
    <2>1. Of(e, TypeOf(v)) /\ events'[e] = events[e]
      BY <1>0, <1>7 DEF Of
    <2>2. InRange(events[e].block, job[v])
      BY <1>7, <2>1 DEF InRange
    <2>3. e \in job[v].todo \cup applied
      BY <1>7, <2>1, <2>2 DEF DoneInv
    <2> QED
      BY <1>0, <1>7, <2>3
  <1>8. \A v \in Workers \ {w} : job'[v] = job[v]
    BY <1>0, HeldEvents
  <1>9. ASSUME NEW v \in Workers, job'[v].pc # "idle"
        PROVE  AppliedTo(TypeOf(v), job[v].from - 1)'
    <2>1. CASE job'[v].from = job[v].from /\ job[v].pc # "idle"
      BY <1>6, <2>1
    <2>2. CASE /\ v = w /\ job'[w].from = status[TypeOf(w)].last + 1 /\ UNCHANGED status
      <3>1. job'[w].from - 1 = status'[TypeOf(w)].last
        <4>1. status[TypeOf(w)].last \in -1 .. MaxBlock
          BY WorkerType
        <4> QED
          BY <2>2, <4>1, ScanAssumption
      <3>2. NowAppliedTo(TypeOf(w), status'[TypeOf(w)].last)
        BY <1>5, WorkerType DEF AppliedTo, NowAppliedTo
      <3> QED
        BY <2>2, <3>1, <3>2 DEF AppliedTo, NowAppliedTo
    <2> QED
      BY <1>8, <1>9, <2>1, <2>2, JobShape
  <1>10. ASSUME NEW v \in Workers, job'[v].pc = "assign",
                NEW e, Of(e, TypeOf(v))', InRange(events[e].block, job[v])'
         PROVE  e \in job'[v].todo \cup applied'
    <2>1. CASE /\ job'[v].from = job[v].from /\ job'[v].to = job[v].to /\ job[v].pc = "assign"
               /\ job[v].todo \subseteq job'[v].todo \cup applied'
      BY <1>7, <1>10, <2>1
    <2>2. CASE /\ v = w /\ job'[w].from = job[w].from /\ job'[w].to = job[w].to
               /\ job'[w].todo = Found(w)
      <3>1. Of(e, TypeOf(w)) /\ events'[e] = events[e]
        BY <1>0, <1>10, <2>2 DEF Of
      <3>2. InRange(events[e].block, job[w])
        BY <1>10, <2>2, <3>1 DEF InRange
      <3> QED
        BY <2>2, <3>1, <3>2 DEF Found, Of
    <2> QED
      BY <1>8, <1>10, <2>1, <2>2, JobShape
  <1> QED
    BY <1>5, <1>9, <1>10 DEF DoneInv

LEMMA NextDone ==
    ASSUME Bounds, DoneInv, [Next]_vars
    PROVE  DoneInv'
  <1>1. CASE UNCHANGED vars \/ \E u \in Users, t \in Tokens : CheckOwner(u, t)
    <2>1. UNCHANGED <<events, status, job, applied>>
      BY <1>1 DEF CheckOwner, vars, chainVars, jobVars
    <2> QED
      BY <2>1 DEF DoneInv, AppliedTo, Of, InRange
  <1> QED
    BY <1>1, Split, ChainDone, PassDone, JobDone

(* The cursor never passes an event that was not applied, whatever jobs     *)
(* overlap, fail or die and whatever the chain takes back: a job moves the  *)
(* cursor to the end of a range it read when the range was final, after     *)
(* all of its assigners; a job that comes late finds the same events.       *)
THEOREM NothingSkipped == Spec => []NoEventSkipped
  <1>1. Init => DoneInv
    BY InitDone
  <1>2. Bounds /\ DoneInv /\ [Next]_vars => DoneInv'
    BY NextDone
  <1>3. Bounds /\ DoneInv => NoEventSkipped
    BY EventTypes DEF DoneInv, AppliedTo, Of, NoEventSkipped, Bounds
  <1> QED
    BY <1>1, <1>2, <1>3, BoundsHold, PTL DEF Spec
-----------------------------------------------------------------------------
(* One process for a type: its job starts where the cursor is.              *)
Alone(type) == \A v, w \in Workers : TypeOf(v) = type /\ TypeOf(w) = type => v = w
LoneInv ==
    \A w \in Workers : Alone(TypeOf(w)) /\ job[w].pc # "idle" =>
        job[w].from = status[TypeOf(w)].last + 1

LEMMA PassStatus ==
    ASSUME Bounds, NEW s \in Schedulers, PassStep(s) \/ PassFails(s)
    PROVE  /\ UNCHANGED job
           /\ \A type \in ScanTypes :
                 \/ status'[type] = status[type]
                 \/ ~Exists(type) /\ status'[type].last = pass[s].block - 1
  <1>1. UNCHANGED job
    BY DEF PassStep, PassFails, ReadBlockNumber, ReadStatuses, KeepStatus, CreateStatus,
           SetPass, jobVars
  <1>2. \/ UNCHANGED status
        \/ \E type \in ScanTypes :
              /\ ~Exists(type)
              /\ status' = [status EXCEPT ![type] = NewStatus(pass[s].block)]
    BY DEF PassStep, ReadBlockNumber, ReadStatuses, KeepStatus, CreateStatus, PassFails
  <1>3. ASSUME NEW type \in ScanTypes, ~Exists(type),
               status' = [status EXCEPT ![type] = NewStatus(pass[s].block)]
        PROVE  /\ \A k \in ScanTypes \ {type} : status'[k] = status[k]
               /\ status'[type].last = pass[s].block - 1
    <2>1. /\ \A k \in ScanTypes \ {type} : status'[k] = status[k]
          /\ status'[type] = NewStatus(pass[s].block)
      BY <1>3 DEF Bounds, TypeOK
    <2> QED
      BY <2>1 DEF NewStatus
  <1> QED
    BY <1>1, <1>2, <1>3

LEMMA JobStatus ==
    ASSUME Bounds, NEW w \in Workers, JobStep(w) \/ JobFails(w) \/ Crash(w)
    PROVE  \A type \in ScanTypes :
              \/ status'[type] = status[type]
              \/ /\ type = TypeOf(w) /\ job[w].pc = "assign" /\ job'[w].pc = "idle"
                 /\ status'[type].last = job[w].to
  <1>1. \/ UNCHANGED status
        \/ /\ job[w].pc = "assign"
           /\ status' = [status EXCEPT ![TypeOf(w)].last = job[w].to]
           /\ job' = [job EXCEPT ![w] = IdleJob]
    BY CursorSteps
  <1>2. CASE /\ job[w].pc = "assign"
             /\ status' = [status EXCEPT ![TypeOf(w)].last = job[w].to]
             /\ job' = [job EXCEPT ![w] = IdleJob]
    <2>1. /\ \A k \in ScanTypes \ {TypeOf(w)} : status'[k] = status[k]
          /\ status'[TypeOf(w)] = [status[TypeOf(w)] EXCEPT !.last = job[w].to]
          /\ status[TypeOf(w)] \in [first : 0 .. MaxBlock, last : -1 .. MaxBlock]
      BY <1>2, WorkerType DEF Bounds, TypeOK
    <2>2. status'[TypeOf(w)].last = job[w].to
      BY <2>1
    <2>3. job'[w].pc = "idle"
      BY <1>2 DEF Bounds, TypeOK, IdleJob
    <2> QED
      BY <1>2, <2>1, <2>2, <2>3
  <1> QED
    BY <1>1, <1>2

LEMMA NextLone ==
    ASSUME Bounds, LoneInv, [Next]_vars
    PROVE  LoneInv'
  <1>1. CASE ChainStep
    BY <1>1, ChainKeeps DEF LoneInv, Bounds
  <1>2. CASE UNCHANGED vars \/ \E u \in Users, t \in Tokens : CheckOwner(u, t)
    <2>1. UNCHANGED <<status, job>>
      BY <1>2 DEF CheckOwner, vars, jobVars
    <2> QED
      BY <2>1 DEF LoneInv
  <1>3. ASSUME NEW s \in Schedulers, PassStep(s) \/ PassFails(s)
        PROVE  LoneInv'
    <2>1. \A w \in Workers : job[w].pc # "idle" => Exists(TypeOf(w))
      BY DEF Bounds, JobBound
    <2> QED
      BY <1>3, <2>1, PassStatus, WorkerType DEF LoneInv
  <1>4. ASSUME NEW w \in Workers, JobStep(w) \/ JobFails(w) \/ Crash(w)
        PROVE  LoneInv'
    <2> SUFFICES ASSUME NEW v \in Workers, Alone(TypeOf(v)), job'[v].pc # "idle"
                 PROVE  job'[v].from = status'[TypeOf(v)].last + 1
      BY DEF LoneInv
    <2>1. CASE v = w
      <3>1. status'[TypeOf(w)] = status[TypeOf(w)]
        BY <1>4, <2>1, JobStatus, WorkerType
      <3>2. \/ job'[w].from = status[TypeOf(w)].last + 1
            \/ job'[w].from = job[w].from /\ job[w].pc # "idle"
        BY <1>4, <2>1, JobShape
      <3> QED
        BY <2>1, <3>1, <3>2 DEF LoneInv
    <2>2. CASE v # w
      <3>1. TypeOf(v) # TypeOf(w)
        BY <2>2 DEF Alone
      <3>2. status'[TypeOf(v)] = status[TypeOf(v)]
        BY <1>4, <3>1, JobStatus, WorkerType
      <3>3. job'[v] = job[v]
        BY <1>4, <2>2, HeldEvents
      <3> QED
        BY <3>2, <3>3 DEF LoneInv
    <2> QED
      BY <2>1, <2>2
  <1> QED
    BY <1>1, <1>2, <1>3, <1>4, Split

(* With one process for a type of event, the cursor of the type never moves *)
(* back: its job starts at the cursor and ends where it starts or later.    *)
THEOREM LoneMovesForward == Spec => LoneScannerMovesForward
  <1> DEFINE Forward == \A type \in ScanTypes :
                           Alone(type) => status'[type].last >= status[type].last
  <1>1. Init => LoneInv
    BY WorkerType DEF Init, LoneInv, IdleJob
  <1>2. Bounds /\ LoneInv /\ [Next]_vars => LoneInv'
    BY NextLone
  <1>3. Bounds /\ LoneInv /\ [Next]_vars => [Forward]_vars
    <2> SUFFICES ASSUME Bounds, LoneInv, [Next]_vars, NEW type \in ScanTypes, Alone(type)
                 PROVE  status'[type].last >= status[type].last
      OBVIOUS
    <2>0. status[type].last \in Int
      BY DEF Bounds, TypeOK
    <2>1. CASE ChainStep
      BY <2>0, <2>1, ChainKeeps DEF Bounds
    <2>2. CASE UNCHANGED vars \/ \E u \in Users, t \in Tokens : CheckOwner(u, t)
      <3>1. UNCHANGED status
        BY <2>2 DEF CheckOwner, vars
      <3> QED
        BY <2>0, <3>1
    <2>3. ASSUME NEW s \in Schedulers, PassStep(s) \/ PassFails(s)
          PROVE  status'[type].last >= status[type].last
      <3>1. pass[s].block \in 0 .. MaxBlock
        BY DEF Bounds, TypeOK
      <3>2. ~Exists(type) => status[type].last = -1
        BY DEF Exists, NoStatus
      <3>3. pass[s].block - 1 >= -1
        BY <3>1, ScanAssumption
      <3> QED
        BY <2>0, <2>3, <3>2, <3>3, PassStatus
    <2>4. ASSUME NEW w \in Workers, JobStep(w) \/ JobFails(w) \/ Crash(w)
          PROVE  status'[type].last >= status[type].last
      <3>1. status[type].last >= status[type].last
        BY <2>0
      <3>2. CASE /\ type = TypeOf(w) /\ job[w].pc = "assign"
                 /\ status'[type].last = job[w].to
        <4>1. job[w].from = status[type].last + 1
          BY <3>2 DEF LoneInv
        <4>2. job[w].from <= job[w].to /\ job[w].to \in Int
          BY <3>2 DEF Bounds, TypeOK, JobBound, RangeIsFinal
        <4> QED
          BY <2>0, <3>2, <4>1, <4>2
      <3> QED
        BY <2>4, <3>1, <3>2, JobStatus
    <2> QED
      BY <2>1, <2>2, <2>3, <2>4, Split
  <1>4. Spec => [][Forward]_vars
    BY <1>1, <1>2, <1>3, BoundsHold, PTL DEF Spec
  <1> QED
    BY <1>4 DEF LoneScannerMovesForward, Alone

-----------------------------------------------------------------------------
(* Calm tokens: every move but the last is settled, so nothing that is held *)
(* writes their owner except the last move; and what an owner was written   *)
(* by is the last of the applied moves. A reorganisation may take the last  *)
(* move back: it is not final, so it was not applied.                       *)
HeldInRange ==
    \A w \in Workers : \A e \in job[w].todo :
        job[w].pc = "assign" /\ events[e].type = TypeOf(w) /\ job[w].from <= events[e].block
EarlierSettled == \A t \in calm : \A d, e \in Moves(t) : d < e => Settled(d)
LastWritten ==
    \A t \in calm : \A e \in Moves(t) \cap applied :
        (\A d \in Moves(t) \cap applied : d <= e) => owner[t] = NewOwner(e)
CalmInv == HeldInRange /\ EarlierSettled /\ LastWritten

LEMMA InitCalm == Init => CalmInv
  <1> SUFFICES ASSUME Init PROVE CalmInv
    OBVIOUS
  <1>1. \A t : Moves(t) = {}
    BY DEF Init, Moves
  <1> QED
    BY <1>1, WorkerType DEF Init, CalmInv, HeldInRange, EarlierSettled, LastWritten, IdleJob

(* Whatever a worker holds is not settled.                                  *)
LEMMA HeldIsOpen ==
    ASSUME Bounds, FinalInv, HeldInRange, NEW w \in Workers, NEW e,
           e \in job[w].todo \/ (e \in 1 .. MaxEvents /\ loose[w][e] > 0)
    PROVE  e \in DOMAIN events /\ ~Settled(e)
  <1>1. e \in DOMAIN events
    BY DEF FinalInv, Sound
  <1>2. CASE e \in job[w].todo
    <2>1. job[w].from \in Int /\ events[e].block \in Int
      <3>1. job[w].from \in 0 .. MaxBlock + 1 /\ events[e].block \in 1 .. MaxBlock
        BY <1>1, EventTypes DEF Bounds, TypeOK
      <3> QED
        BY <3>1, ScanAssumption
    <2> QED
      BY <1>1, <1>2, <2>1 DEF HeldInRange, Settled
  <1>3. CASE e \in 1 .. MaxEvents /\ loose[w][e] > 0
    BY <1>1, <1>3 DEF Settled
  <1> QED
    BY <1>2, <1>3

(* What a worker holds after a step.                                        *)
LEMMA HeldAfter ==
    ASSUME Bounds, HeldInRange, NEW w \in Workers, JobStep(w) \/ JobFails(w) \/ Crash(w),
           NEW e \in job'[w].todo
    PROVE  /\ job'[w].pc = "assign" /\ job'[w].from = job[w].from
           /\ \/ e \in job[w].todo
              \/ e \in Found(w)
  <1> USE DEF Bounds, TypeOK
  <1>0. /\ job \in [Workers -> Jobs] /\ IdleJob.todo = {}
        /\ (job[w].todo # {} => job[w].pc = "assign")
    BY DEF Jobs, IdleJob, HeldInRange
  <1>1. ASSUME NEW from, job' = [job EXCEPT ![w] = [IdleJob EXCEPT !.pc = "block", !.from = from]]
        PROVE  job'[w].todo = {}
    BY <1>0, <1>1 DEF IdleJob
  <1>2. CASE ReadStatus(w)
    BY <1>1, <1>2 DEF ReadStatus, SetJob
  <1>3. CASE ReadHead(w)
    <2>1. ASSUME NEW to PROVE [job[w] EXCEPT !.pc = "query", !.to = to].todo = job[w].todo
      BY <1>0 DEF Jobs
    <2>2. job'[w].todo \subseteq job[w].todo
      <3>1. CASE NothingToScan(job[w].from, ToBlock(job[w].from))
        BY <1>0, <1>3, <3>1 DEF ReadHead, SetJob
      <3>2. CASE ~NothingToScan(job[w].from, ToBlock(job[w].from))
        BY <1>0, <1>3, <2>1, <3>2 DEF ReadHead, SetJob
      <3> QED
        BY <3>1, <3>2
    <2> QED
      BY <1>0, <1>3, <2>2 DEF ReadHead
  <1>4. CASE QueryFilter(w)
    <2> DEFINE k == [job[w] EXCEPT !.pc = "assign", !.todo = Found(w)]
    <2>1. k.pc = "assign" /\ k.from = job[w].from /\ k.todo = Found(w)
      BY <1>0 DEF Jobs
    <2>2. job'[w] = k
      BY <1>0, <1>4 DEF QueryFilter, SetJob
    <2> HIDE DEF k
    <2> QED
      BY <2>1, <2>2
  <1>5. ASSUME NEW d \in job[w].todo, Assign(w, d)
        PROVE  /\ job'[w].pc = "assign" /\ job'[w].from = job[w].from
               /\ job'[w].todo \subseteq job[w].todo
    <2> DEFINE k == [job[w] EXCEPT !.todo = @ \ {d}]
    <2>1. k.pc = job[w].pc /\ k.from = job[w].from /\ k.todo = job[w].todo \ {d}
      BY <1>0 DEF Jobs
    <2>2. job'[w] = k /\ job[w].pc = "assign"
      BY <1>0, <1>5 DEF Assign, SetJob
    <2> HIDE DEF k
    <2> QED
      BY <2>1, <2>2
  <1>6. CASE \/ \E d \in job[w].todo : AssignFails(w, d)
             \/ UpdateLastBlock(w) \/ JobFails(w) \/ Crash(w)
    <2>1. job'[w] = IdleJob
      BY <1>0, <1>6 DEF AssignFails, UpdateLastBlock, JobFails, Crash, SetJob
    <2> QED
      BY <1>0, <2>1
  <1>7. CASE \E d \in 1 .. MaxEvents : AssignLoose(w, d)
    <2>1. UNCHANGED job
      BY <1>7 DEF AssignLoose
    <2> QED
      BY <1>0, <2>1
  <1> QED
    BY <1>2, <1>3, <1>4, <1>5, <1>6, <1>7 DEF JobStep

(* Which events a worker's step applies.                                    *)
LEMMA Writes ==
    ASSUME NEW w \in Workers, JobStep(w) \/ JobFails(w) \/ Crash(w)
    PROVE  \/ UNCHANGED <<owner, applied>>
           \/ \E e : /\ e \in job[w].todo \/ (e \in 1 .. MaxEvents /\ loose[w][e] > 0)
                     /\ SetUserId(e)
  <1>1. ASSUME NEW e \in job[w].todo, Assign(w, e)
        PROVE  SetUserId(e)
    BY <1>1 DEF Assign
  <1>2. ASSUME NEW e \in 1 .. MaxEvents, AssignLoose(w, e)
        PROVE  loose[w][e] > 0 /\ (SetUserId(e) \/ UNCHANGED <<owner, applied>>)
    BY <1>2 DEF AssignLoose
  <1>3. CASE \/ ReadStatus(w) \/ ReadHead(w) \/ QueryFilter(w) \/ UpdateLastBlock(w)
             \/ \E e \in job[w].todo : AssignFails(w, e)
             \/ JobFails(w) \/ Crash(w)
    BY <1>3 DEF ReadStatus, ReadHead, QueryFilter, UpdateLastBlock, AssignFails, JobFails, Crash
  <1> QED
    BY <1>1, <1>2, <1>3 DEF JobStep

(* A settled event stays settled: a job starts after the cursor, and one    *)
(* that moves the cursor back leaves it at the end of its own range.        *)
LEMMA JobKeepsSettled ==
    ASSUME Bounds, FinalInv, HeldInRange, NEW w \in Workers,
           JobStep(w) \/ JobFails(w) \/ Crash(w),
           NEW e \in DOMAIN events, Settled(e)
    PROVE  Settled(e)'
  <1> DEFINE type == events[e].type
             b    == events[e].block
  <1>0. type \in ScanTypes /\ b \in 1 .. MaxBlock /\ MaxBlock \in Nat
    BY EventTypes, ScanAssumption DEF Bounds
  <1>1. UNCHANGED events /\ TypeOK'
    BY JobStepIsGood, JobStepBounds DEF chainVars, Bounds
  <1>2. e \in 1 .. MaxEvents
    BY ScanAssumption DEF Bounds, TypeOK
  <1>3. /\ status[type].last >= b
        /\ \A v \in Workers : loose[v][e] = 0
        /\ \A v \in Workers : TypeOf(v) = type /\ job[v].pc # "idle" => job[v].from > b
    BY DEF Settled
  <1> HIDE DEF type, b
  <1>4. status[type].last \in Int /\ b \in Int
    <2>1. status[type].last \in -1 .. MaxBlock
      BY <1>0 DEF Bounds, TypeOK
    <2> QED
      BY <1>0, <2>1
  <1>5. status'[type].last >= b
    <2>1. CASE status'[type] = status[type]
      BY <1>3, <2>1
    <2>2. CASE /\ type = TypeOf(w) /\ job[w].pc = "assign" /\ status'[type].last = job[w].to
      <3>1. job[w].from > b /\ job[w].from <= job[w].to
        BY <1>3, <2>2 DEF Bounds, JobBound, RangeIsFinal
      <3>2. job[w].from \in 0 .. MaxBlock + 1 /\ job[w].to \in Int
        BY DEF Bounds, TypeOK
      <3>3. job[w].from \in Int
        BY <3>2
      <3> DEFINE from == job[w].from
                 to   == job[w].to
      <3>4. from \in Int /\ to \in Int /\ from > b /\ from <= to
        BY <3>1, <3>2, <3>3
      <3> HIDE DEF from, to
      <3>5. to >= b
        BY <1>4, <3>4
      <3> QED
        BY <2>2, <3>5 DEF to
    <2> QED
      BY <1>0, <2>1, <2>2, JobStatus
  <1>6. ASSUME NEW v \in Workers
        PROVE  loose'[v][e] = 0
    <2>1. loose'[v][e] \in Nat
      BY <1>1, <1>2 DEF TypeOK
    <2>2. ~(loose'[v][e] > 0)
      <3>1. CASE v # w
        BY <1>3, <3>1, HeldEvents
      <3>2. CASE v = w
        <4>1. e \notin job[w].todo
          BY HeldIsOpen
        <4> QED
          BY <1>2, <1>3, <3>2, <4>1, HeldEvents
      <3> QED
        BY <3>1, <3>2
    <2> QED
      BY <2>1, <2>2
  <1>7. ASSUME NEW v \in Workers, TypeOf(v) = type, job'[v].pc # "idle"
        PROVE  job'[v].from > b
    <2>1. CASE v # w
      BY <1>3, <1>7, <2>1, HeldEvents
    <2>2. CASE v = w
      <3>1. CASE job'[w].from = job[w].from /\ job[w].pc # "idle"
        BY <1>3, <1>7, <2>2, <3>1
      <3>2. CASE job'[w].from = status[TypeOf(w)].last + 1
        BY <1>3, <1>4, <1>7, <2>2, <3>2
      <3> QED
        BY <1>7, <2>2, <3>1, <3>2, JobShape
    <2> QED
      BY <2>1, <2>2
  <1> QED
    BY <1>1, <1>5, <1>6, <1>7 DEF Settled, type, b

(* Steps of a worker.                                                       *)
LEMMA JobCalm ==
    ASSUME Bounds, FinalInv, CalmInv, NEW w \in Workers, JobStep(w) \/ JobFails(w) \/ Crash(w)
    PROVE  CalmInv'
  <1> USE DEF CalmInv
  <1>1. UNCHANGED <<head, events, calm>>
    BY JobStepIsGood DEF chainVars
  <1>2. \A t : Moves(t)' = Moves(t)
    BY <1>1 DEF Moves
  <1>3. HeldInRange'
    <2> SUFFICES ASSUME NEW v \in Workers, NEW e \in job'[v].todo
                 PROVE  /\ job'[v].pc = "assign" /\ events[e].type = TypeOf(v)
                        /\ job'[v].from <= events[e].block
      BY <1>1 DEF HeldInRange
    <2>1. CASE v # w
      BY <2>1, HeldEvents DEF HeldInRange
    <2>2. CASE v = w
      BY <2>2, HeldAfter DEF HeldInRange, Found, InRange
    <2> QED
      BY <2>1, <2>2
  <1>4. EarlierSettled'
    <2>1. \A t : \A d \in Moves(t) : d \in DOMAIN events
      BY DEF Moves
    <2> QED
      BY <1>1, <1>2, <2>1, JobKeepsSettled DEF EarlierSettled
  <1>5. LastWritten'
    <2>1. CASE UNCHANGED <<owner, applied>>
      BY <1>1, <1>2, <2>1 DEF LastWritten, NewOwner
    <2>2. ASSUME NEW e, e \in job[w].todo \/ (e \in 1 .. MaxEvents /\ loose[w][e] > 0),
                 SetUserId(e)
          PROVE  LastWritten'
      <3>1. e \in DOMAIN events /\ ~Settled(e)
        BY <2>2, HeldIsOpen
      <3>2. DOMAIN events \subseteq Int
        BY DEF Bounds, TypeOK
      <3>3. applied' = applied \cup {e}
        BY <2>2 DEF SetUserId
      <3> SUFFICES ASSUME NEW t \in calm, NEW d \in Moves(t) \cap applied',
                          \A c \in Moves(t) \cap applied' : c <= d
                   PROVE  owner'[t] = NewOwner(d)
        BY <1>1, <1>2 DEF LastWritten, NewOwner
      <3>4. t \in Tokens /\ owner \in [Tokens -> Users \cup {NoUser}]
        BY DEF Bounds, TypeOK
      <3>5. CASE e \in Moves(t)
        <4>1. e <= d
          BY <3>3, <3>5
        <4>2. ~(e < d)
          BY <3>1, <3>5 DEF EarlierSettled
        <4>3. e = d
          BY <3>1, <3>2, <4>1, <4>2 DEF Moves
        <4>4. events[e].token = t
          BY <3>5 DEF Moves
        <4> QED
          BY <2>2, <3>4, <4>3, <4>4 DEF SetUserId
      <3>6. CASE e \notin Moves(t)
        <4>1. events[e].token # t
          BY <3>1, <3>6 DEF Moves
        <4>2. owner'[t] = owner[t]
          BY <2>2, <3>4, <4>1 DEF SetUserId
        <4>3. Moves(t) \cap applied' = Moves(t) \cap applied
          BY <3>3, <3>6
        <4> QED
          BY <4>2, <4>3 DEF LastWritten
      <3> QED
        BY <3>5, <3>6
    <2> QED
      BY <2>1, <2>2, Writes
  <1> QED
    BY <1>3, <1>4, <1>5

(* What a step of the chain does to the moves of a token that stays calm:   *)
(* a new one comes after settled ones.                                      *)
LEMMA ChainMoves ==
    ASSUME Bounds, ChainStep, NEW t \in calm'
    PROVE  /\ t \in calm
           /\ \A d, e \in Moves(t)' : d < e =>
                 /\ d \in Moves(t) /\ events'[d] = events[d]
                 /\ e \in Moves(t) \/ Settled(d)
  <1>0. events \in Seq(Events)
    BY DEF Bounds, TypeOK
  <1>1. DOMAIN events = 1 .. Len(events) /\ Len(events) \in Nat
    BY <1>0
  <1>2. CASE /\ calm' = calm
             /\ \A e \in DOMAIN events' : e \in DOMAIN events /\ events'[e] = events[e]
    BY <1>2 DEF Moves
  <1>3. CASE NewBlock
    BY <1>2, <1>3 DEF NewBlock
  <1>4. CASE Reorg
    <2>1. PICK n \in 0 .. Len(events) - 1 : events' = SubSeq(events, 1, n)
      BY <1>4 DEF Reorg
    <2>2. DOMAIN events' = 1 .. n /\ \A e \in 1 .. n : events'[e] = events[e]
      BY <1>0, <2>1
    <2>3. calm' = calm
      BY <1>4 DEF Reorg
    <2> QED
      BY <1>1, <1>2, <2>2, <2>3
  <1>5. ASSUME NEW type \in ScanTypes, NEW k \in Tokens, NEW u \in Users, Emit(type, k, u)
        PROVE  /\ t \in calm
               /\ \A d, e \in Moves(t)' : d < e =>
                     /\ d \in Moves(t) /\ events'[d] = events[d]
                     /\ e \in Moves(t) \/ Settled(d)
    <2> DEFINE new == [type |-> type, token |-> k, user |-> u, block |-> head]
    <2>1. new \in Events /\ new.token = k
      BY DEF Events, Bounds, TypeOK
    <2>2. events' = Append(events, new)
      BY <1>5 DEF Emit
    <2> HIDE DEF new
    <2>3. /\ DOMAIN events' = 1 .. Len(events) + 1
          /\ \A e \in 1 .. Len(events) : events'[e] = events[e]
          /\ events'[Len(events) + 1] = new
      BY <1>0, <2>1, <2>2
    <2>4. t \in calm /\ (t = k => \A e \in Moves(t) : Settled(e))
      BY <1>5 DEF Emit
    <2> SUFFICES ASSUME NEW d \in Moves(t)', NEW e \in Moves(t)', d < e
                 PROVE  /\ d \in Moves(t) /\ events'[d] = events[d]
                        /\ e \in Moves(t) \/ Settled(d)
      BY <2>4
    <2>5. d \in 1 .. Len(events) + 1 /\ e \in 1 .. Len(events) + 1
      BY <2>3 DEF Moves
    <2>6. d \in 1 .. Len(events)
      BY <1>1, <2>5
    <2>7. d \in Moves(t) /\ events'[d] = events[d]
      BY <1>1, <2>3, <2>6 DEF Moves
    <2>8. CASE e \in 1 .. Len(events)
      BY <1>1, <2>3, <2>7, <2>8 DEF Moves
    <2>9. CASE e = Len(events) + 1
      <3>1. t = k
        BY <2>1, <2>3, <2>9 DEF Moves
      <3> QED
        BY <2>4, <2>7, <3>1
    <2>10. e \in 1 .. Len(events) \/ e = Len(events) + 1
      BY <1>1, <2>5
    <2> QED
      BY <2>8, <2>9, <2>10
  <1> QED
    BY <1>3, <1>4, <1>5 DEF ChainStep

LEMMA ChainCalm ==
    ASSUME Bounds, FinalInv, CalmInv, ChainStep
    PROVE  CalmInv'
  <1> USE DEF CalmInv
  <1>1. UNCHANGED <<owner, status, job, loose, applied>>
    BY ChainKeeps DEF Bounds
  <1>2. \A e : Sound(e) => e \in DOMAIN events' /\ events'[e] = events[e]
    BY StaysSound DEF Bounds, Sound
  <1>3. HeldInRange'
    BY <1>1, <1>2 DEF HeldInRange, FinalInv
  <1>4. EarlierSettled'
    <2>1. ASSUME NEW d, Settled(d), events'[d] = events[d]
          PROVE  Settled(d)'
      BY <1>1, <2>1 DEF Settled
    <2>2. ASSUME NEW t \in calm', NEW d \in Moves(t)', NEW e \in Moves(t)', d < e
          PROVE  Settled(d)'
      <3>1. /\ t \in calm /\ d \in Moves(t) /\ events'[d] = events[d]
            /\ e \in Moves(t) \/ Settled(d)
        BY <2>2, ChainMoves
      <3>2. Settled(d)
        BY <2>2, <3>1 DEF EarlierSettled
      <3> QED
        BY <2>1, <3>1, <3>2
    <2> QED
      BY <2>2 DEF EarlierSettled
  <1>5. LastWritten'
    <2>1. ASSUME NEW e \in applied
          PROVE  /\ events'[e] = events[e]
                 /\ \A t : e \in Moves(t)' <=> e \in Moves(t)
      <3>1. Sound(e)
        BY DEF FinalInv
      <3> QED
        BY <1>2, <3>1 DEF Moves, Sound
    <2> SUFFICES ASSUME NEW t \in calm', NEW e \in Moves(t)' \cap applied,
                        \A d \in Moves(t)' \cap applied : d <= e
                 PROVE  owner[t] = NewOwner(e)'
      BY <1>1 DEF LastWritten
    <2>2. e \in Moves(t) \cap applied /\ \A d \in Moves(t) \cap applied : d <= e
      BY <2>1
    <2>3. owner[t] = NewOwner(e)
      BY <2>2, ChainMoves DEF LastWritten
    <2> QED
      BY <2>1, <2>3 DEF NewOwner
  <1> QED
    BY <1>3, <1>4, <1>5

(* Steps of a scheduler: a new status has no settled event behind it.       *)
LEMMA PassCalm ==
    ASSUME Bounds, CalmInv, NEW s \in Schedulers, PassStep(s) \/ PassFails(s)
    PROVE  CalmInv'
  <1>1. UNCHANGED <<events, owner, job, loose, applied, calm>>
    BY DEF PassStep, PassFails, ReadBlockNumber, ReadStatuses, KeepStatus, CreateStatus,
           SetPass, chainVars, jobVars
  <1>2. \A t : Moves(t)' = Moves(t)
    BY <1>1 DEF Moves
  <1>3. ASSUME NEW e \in DOMAIN events, Settled(e)
        PROVE  Settled(e)'
    <2>1. events[e].type \in ScanTypes /\ events[e].block \in 1 .. MaxBlock
      BY EventTypes DEF Bounds
    <2>2. Exists(events[e].type)
      <3>1. status[events[e].type].last >= events[e].block
        BY <1>3 DEF Settled
      <3>2. NoStatus.last = -1 /\ ~(-1 >= events[e].block)
        BY <2>1, ScanAssumption DEF NoStatus
      <3> QED
        BY <3>1, <3>2 DEF Exists
    <2>3. status'[events[e].type] = status[events[e].type]
      BY <2>1, <2>2, PassStatus
    <2> QED
      BY <1>1, <1>3, <2>3 DEF Settled
  <1>4. \A t : \A d \in Moves(t) : d \in DOMAIN events
    BY DEF Moves
  <1>5. EarlierSettled'
    BY <1>1, <1>2, <1>3, <1>4 DEF CalmInv, EarlierSettled
  <1> QED
    BY <1>1, <1>2, <1>5 DEF CalmInv, HeldInRange, LastWritten, NewOwner

LEMMA NextCalm ==
    ASSUME Bounds, FinalInv, CalmInv, [Next]_vars
    PROVE  CalmInv'
  <1>1. CASE UNCHANGED vars \/ \E u \in Users, t \in Tokens : CheckOwner(u, t)
    <2>1. UNCHANGED <<events, owner, status, job, loose, applied, calm>>
      BY <1>1 DEF CheckOwner, vars, chainVars, jobVars
    <2> QED
      BY <2>1 DEF CalmInv, HeldInRange, EarlierSettled, LastWritten, Moves, Settled, NewOwner
  <1> QED
    BY <1>1, Split, ChainCalm, PassCalm, JobCalm

(* A token that never moved before its last move was scanned is recorded    *)
(* with its depositor, or with nobody after it was withdrawn, for any       *)
(* number of workers whose jobs overlap, fail half way and leave assigners  *)
(* running, and any reorganisations.                                        *)
THEOREM CalmOwnersAreRight == Spec => []CalmTokensAreRecorded
  <1>1. Init => CalmInv
    BY InitCalm
  <1>2. Bounds /\ FinalInv /\ CalmInv /\ [Next]_vars => CalmInv'
    BY NextCalm
  <1>3. Bounds /\ CalmInv => CalmTokensAreRecorded
    <2> SUFFICES ASSUME Bounds, CalmInv, NEW t \in calm, NEW e \in LastMoves(t), e \in applied
                 PROVE  owner[t] = IF InCustody(t) THEN events[e].user ELSE NoUser
      BY DEF CalmTokensAreRecorded
    <2>1. e \in Moves(t) /\ \A d \in Moves(t) : d <= e
      BY DEF LastMoves
    <2>2. \A d \in LastMoves(t) : d = e
      <3>1. \A d \in Moves(t) : d \in Int
        BY DEF Moves, Bounds, TypeOK
      <3> QED
        BY <2>1, <3>1 DEF LastMoves
    <2>3. InCustody(t) <=> events[e].type = "DepositAsset"
      BY <2>2 DEF InCustody
    <2>4. owner[t] = NewOwner(e)
      BY <2>1 DEF CalmInv, LastWritten
    <2> QED
      BY <2>3, <2>4 DEF NewOwner
  <1> QED
    BY <1>1, <1>2, <1>3, BoundsHold, PTL DEF Spec
=============================================================================
