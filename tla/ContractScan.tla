---------------------------- MODULE ContractScan ----------------------------
(***************************************************************************)
(* The scan of one game portal: WorkerScheduler creates a status for each  *)
(* type of event and enqueues jobs; the jobs of AssetDepositWorker and     *)
(* AssetWithdrawWorker read a range of final blocks, write the owner of    *)
(* the assets whose deposit or withdrawal they find, and move the cursor.  *)
(* Players withdraw with a signature of the API and deposit from any       *)
(* wallet. Any number of processes run each worker and the scheduler; each *)
(* await is a step.                                                        *)
(***************************************************************************)
EXTENDS Integers, Sequences, FiniteSets

CONSTANTS
    Users, NoUser,
    Tokens,           \* tokens minted to the portal for InitialOwner
    InitialOwner,     \* [Tokens -> Users]
    Unknown,          \* users no wallet resolves to (any more)
    DepositWorkers,   \* processes that run AssetDepositWorker
    WithdrawWorkers,  \* processes that run AssetWithdrawWorker
    Schedulers,       \* processes that run WorkerScheduler
    Confirmations,    \* settings.blockchain.polygon.confirmations
    ScanBatchSize,    \* settings.blockchain.polygon.scanBatchSize
    MaxBlock,         \* bound: blocks
    MaxEvents,        \* bound: events in the chain
    MaxFaults         \* bound: failures, deaths and reorganisations

ASSUME ScanAssumption ==
    /\ NoUser \notin Users
    /\ InitialOwner \in [Tokens -> Users]
    /\ Unknown \subseteq Users
    /\ DepositWorkers \cap WithdrawWorkers = {}
    /\ Confirmations \in Nat \ {0}
    /\ ScanBatchSize \in Nat \ {0}
    /\ MaxBlock \in Nat \ {0}
    /\ {MaxEvents, MaxFaults} \subseteq Nat

VARIABLES
    head,        \* the number of the last block
    events,      \* LogERC721Deposited and LogERC721Withdrawn, in order
    owner,       \* the userId of the asset of each token
    requests,    \* withdraw requests that passed the owner check
    status,      \* the ContractScanStatus of each type
    pass,        \* where checkPortals of each scheduler is
    job,         \* the job of each worker
    loose,       \* loose[w][e]: assigners of event e that w's failed jobs left running
    applied,     \* ghost: events whose assigner ran to its end
    calm,        \* ghost: tokens that never moved before their last move was scanned
    faults       \* faults so far

chainVars == <<head, events>>
jobVars == <<job, loose>>
vars == <<chainVars, owner, requests, status, pass, jobVars, applied, calm, faults>>

-----------------------------------------------------------------------------
ScanTypes == {"WithdrawAsset", "DepositAsset"}
Workers == DepositWorkers \cup WithdrawWorkers
TypeOf(w) == IF w \in DepositWorkers THEN "DepositAsset" ELSE "WithdrawAsset"

Events == [type : ScanTypes, token : Tokens, user : Users, block : 1 .. MaxBlock]
NoStatus == [first |-> 0, last |-> -1]
Exists(type) == status[type] # NoStatus

IdleJob == [pc |-> "idle", from |-> 0, to |-> 0, todo |-> {}]
IdlePass == [pc |-> "idle", block |-> 0, found |-> {}]
NoneLoose == [e \in 1 .. MaxEvents |-> 0]

IsFinal(b) == b <= head - Confirmations
Moves(t) == {e \in DOMAIN events : events[e].token = t}
LastMoves(t) == {e \in Moves(t) : \A d \in Moves(t) : d <= e}
InCustody(t) == \A e \in LastMoves(t) : events[e].type = "DepositAsset"

Init ==
    /\ head = 1
    /\ events = <<>>
    /\ owner = InitialOwner
    /\ requests = {}
    /\ status = [type \in ScanTypes |-> NoStatus]
    /\ pass = [s \in Schedulers |-> IdlePass]
    /\ job = [w \in Workers |-> IdleJob]
    /\ loose = [w \in Workers |-> NoneLoose]
    /\ applied = {}
    /\ calm = Tokens
    /\ faults = 0

Fault == faults < MaxFaults /\ faults' = faults + 1

-----------------------------------------------------------------------------
(* The chain. A block is visible when the next one exists: with at least    *)
(* one confirmation, events may be added to the last block.                 *)

NewBlock ==
    /\ head < MaxBlock
    /\ head' = head + 1
    /\ UNCHANGED <<events, owner, requests, status, pass, jobVars, applied, calm, faults>>

(* The cursor has passed the event and nothing in progress will apply it    *)
(* again.                                                                   *)
Settled(e) ==
    /\ status[events[e].type].last >= events[e].block
    /\ \A w \in Workers :
          /\ loose[w][e] = 0
          /\ TypeOf(w) = events[e].type /\ job[w].pc # "idle" => job[w].from > events[e].block

Emit(type, t, u) ==
    /\ Len(events) < MaxEvents
    /\ events' = Append(events, [type |-> type, token |-> t, user |-> u, block |-> head])
    /\ calm' = IF \A e \in Moves(t) : Settled(e) THEN calm ELSE calm \ {t}
    /\ UNCHANGED <<head, owner, requests, status, pass, jobVars, applied, faults>>

(* depositERC721, with the signature AssetDepositer gives to anyone with a  *)
(* wallet.                                                                  *)
Deposit(u, t) == ~InCustody(t) /\ Emit("DepositAsset", t, u)

(* withdrawERC721: the signature of a request whose owner check passed, and *)
(* whose nonce is still the player's. The nonce is read after the check and *)
(* any time may pass in between, in any number of requests: whoever passed  *)
(* the check once may have a good signature at any later time.              *)
Withdraw(u, t) == <<u, t>> \in requests /\ InCustody(t) /\ Emit("WithdrawAsset", t, u)

(* Blocks that are not final are replaced: their last events are gone.      *)
Reorg ==
    /\ Fault
    /\ \E n \in 0 .. Len(events) - 1 :
          /\ \A e \in DOMAIN events : e > n => ~IsFinal(events[e].block)
          /\ events' = SubSeq(events, 1, n)
    /\ UNCHANGED <<head, owner, requests, status, pass, jobVars, applied, calm>>

-----------------------------------------------------------------------------
(* AssetWithdrawer: the owner of the asset is checked on what was read.     *)
(* Nobody asks once the events are used up.                                 *)
CheckOwner(u, t) ==
    /\ owner[t] = u /\ <<u, t>> \notin requests
    /\ Len(events) < MaxEvents
    /\ requests' = requests \cup {<<u, t>>}
    /\ UNCHANGED <<chainVars, owner, status, pass, jobVars, applied, calm, faults>>

-----------------------------------------------------------------------------
(* WorkerScheduler.checkPortals.                                            *)

SetPass(s, p) ==
    /\ pass' = [pass EXCEPT ![s] = p]
    /\ UNCHANGED <<chainVars, owner, requests, jobVars, applied, calm>>

(* A pass that would find both statuses changes nothing and is left out.    *)
ReadBlockNumber(s) ==
    /\ pass[s].pc = "idle"
    /\ \E type \in ScanTypes : ~Exists(type)
    /\ SetPass(s, [IdlePass EXCEPT !.pc = "statuses", !.block = head])
    /\ UNCHANGED <<status, faults>>

ReadStatuses(s) ==
    /\ pass[s].pc = "statuses"
    /\ SetPass(s, [pass[s] EXCEPT !.pc = "WithdrawAsset",
                                  !.found = {type \in ScanTypes : Exists(type)}])
    /\ UNCHANGED <<status, faults>>

(* Withdrawals first, then deposits; the last step ends the pass. A status  *)
(* that was found is only enqueued. The unique index refuses a second one,  *)
(* which ends the pass.                                                     *)
NewStatus(block) == [first |-> block, last |-> block - 1]

AfterStatus(s) ==
    IF pass[s].pc = "WithdrawAsset" THEN [pass[s] EXCEPT !.pc = "DepositAsset"] ELSE IdlePass

KeepStatus(s) ==
    /\ pass[s].pc \in pass[s].found
    /\ SetPass(s, AfterStatus(s))
    /\ UNCHANGED <<status, faults>>

CreateStatus(s) ==
    LET type == pass[s].pc IN
    /\ type \in ScanTypes \ pass[s].found
    /\ IF Exists(type)
       THEN SetPass(s, IdlePass) /\ UNCHANGED status
       ELSE /\ SetPass(s, AfterStatus(s))
            /\ status' = [status EXCEPT ![type] = NewStatus(pass[s].block)]
    /\ UNCHANGED faults

(* An operation of the pass fails, or the scheduler dies.                   *)
PassFails(s) ==
    /\ pass[s].pc # "idle"
    /\ Fault
    /\ SetPass(s, IdlePass)
    /\ UNCHANGED status

-----------------------------------------------------------------------------
(* ContractScanWorker.apply.                                                *)

SetJob(w, j) ==
    /\ job' = [job EXCEPT ![w] = j]
    /\ UNCHANGED <<chainVars, requests, pass, calm>>

(* findById. There is a job in the queue: every pass enqueues one.          *)
ReadStatus(w) ==
    /\ job[w].pc = "idle" /\ Exists(TypeOf(w))
    /\ SetJob(w, [IdleJob EXCEPT !.pc = "block", !.from = status[TypeOf(w)].last + 1])
    /\ UNCHANGED <<owner, status, loose, applied, faults>>

(* getBlockNumber and the end of the range; nothing to do when it is empty. *)
ToBlock_AnyDepth(from) ==
    IF from + ScanBatchSize - 1 < head THEN from + ScanBatchSize - 1 ELSE head
ToBlock_AnyBlock(from) == from + ScanBatchSize - 1
ToBlock(from) ==
    LET batchEnd == from + ScanBatchSize - 1
        maxBlock == head - Confirmations
    IN  IF batchEnd < maxBlock THEN batchEnd ELSE maxBlock

NothingToScan_Never(from, to) == FALSE
NothingToScan_One(from, to) == from >= to
NothingToScan(from, to) == from > to

ReadHead(w) ==
    LET from == job[w].from
        to   == ToBlock(from)
    IN  /\ job[w].pc = "block"
        /\ SetJob(w, IF NothingToScan(from, to) THEN IdleJob
                     ELSE [job[w] EXCEPT !.pc = "query", !.to = to])
        /\ UNCHANGED <<owner, status, loose, applied, faults>>

(* queryFilter: the events of the type from the first to the last block.    *)
InRange_OpenStart(b, j) == j.from < b /\ b <= j.to
InRange(b, j) == j.from <= b /\ b <= j.to

Found_FromFirst(w) ==
    {e \in DOMAIN events : events[e].type = TypeOf(w) /\ events[e].block <= job[w].to}
Found(w) ==
    {e \in DOMAIN events : events[e].type = TypeOf(w) /\ InRange(events[e].block, job[w])}

QueryFilter(w) ==
    /\ job[w].pc = "query"
    /\ SetJob(w, [job[w] EXCEPT !.pc = "assign", !.todo = Found(w)])
    /\ UNCHANGED <<owner, status, loose, applied, faults>>

(* UserAssetDepositAssigner finds the user of the wallet and sets userId;   *)
(* UserAssetWithdrawAssigner sets it to null.                               *)
CanAssign(e) == events[e].type = "DepositAsset" => events[e].user \notin Unknown
NewOwner(e) == IF events[e].type = "DepositAsset" THEN events[e].user ELSE NoUser

SetUserId(e) ==
    /\ owner' = [owner EXCEPT ![events[e].token] = NewOwner(e)]
    /\ applied' = applied \cup {e}

Assign(w, e) ==
    /\ job[w].pc = "assign" /\ e \in job[w].todo
    /\ CanAssign(e)
    /\ SetUserId(e)
    /\ SetJob(w, [job[w] EXCEPT !.todo = @ \ {e}])
    /\ UNCHANGED <<status, loose, faults>>

(* One assigner throws: Promise.all rejects, the job fails, the others run  *)
(* on.                                                                      *)
AssignFails(w, e) ==
    /\ job[w].pc = "assign" /\ e \in job[w].todo
    /\ IF CanAssign(e) THEN Fault ELSE UNCHANGED faults
    /\ loose' = [loose EXCEPT ![w] =
                    [d \in DOMAIN @ |-> IF d \in job[w].todo \ {e} THEN @[d] + 1 ELSE @[d]]]
    /\ SetJob(w, IdleJob)
    /\ UNCHANGED <<owner, status, applied>>

AssignLoose(w, e) ==
    /\ loose[w][e] > 0
    /\ loose' = [loose EXCEPT ![w][e] = @ - 1]
    /\ IF CanAssign(e) THEN SetUserId(e) ELSE UNCHANGED <<owner, applied>>
    /\ UNCHANGED <<chainVars, requests, status, pass, job, calm, faults>>

(* updateLastBlock, whatever the cursor is by now.                          *)
ReadyToUpdate(w) == job[w].pc = "assign" /\ job[w].todo = {}

UpdateLastBlock(w) ==
    /\ ReadyToUpdate(w)
    /\ status' = [status EXCEPT ![TypeOf(w)].last = job[w].to]
    /\ SetJob(w, IdleJob)
    /\ UNCHANGED <<owner, loose, applied, faults>>

(* A read of the job or its update fails.                                   *)
JobFails(w) ==
    /\ job[w].pc \in {"block", "query"} \/ ReadyToUpdate(w)
    /\ Fault
    /\ SetJob(w, IdleJob)
    /\ UNCHANGED <<owner, status, loose, applied>>

Crash(w) ==
    /\ job[w] # IdleJob \/ loose[w] # NoneLoose
    /\ Fault
    /\ SetJob(w, IdleJob)
    /\ loose' = [loose EXCEPT ![w] = NoneLoose]
    /\ UNCHANGED <<owner, status, applied>>

-----------------------------------------------------------------------------
Chain ==
    \/ NewBlock
    \/ \E u \in Users, t \in Tokens : Deposit(u, t) \/ Withdraw(u, t)
    \/ Reorg

PassStep(s) == ReadBlockNumber(s) \/ ReadStatuses(s) \/ KeepStatus(s) \/ CreateStatus(s)

JobStep(w) ==
    \/ ReadStatus(w) \/ ReadHead(w) \/ QueryFilter(w)
    \/ \E e \in job[w].todo : Assign(w, e) \/ AssignFails(w, e)
    \/ \E e \in 1 .. MaxEvents : AssignLoose(w, e)
    \/ UpdateLastBlock(w)

Next ==
    \/ Chain
    \/ \E u \in Users, t \in Tokens : CheckOwner(u, t)
    \/ \E s \in Schedulers : PassStep(s) \/ PassFails(s)
    \/ \E w \in Workers : JobStep(w) \/ JobFails(w) \/ Crash(w)

Spec == Init /\ [][Next]_vars

(* The scheduler's timer goes on, workers take the jobs of their queue, and *)
(* the chain grows.                                                         *)
FairSpec ==
    /\ Spec
    /\ WF_vars(NewBlock)
    /\ \A s \in Schedulers : WF_vars(PassStep(s))
    /\ \A w \in Workers : WF_vars(JobStep(w))

-----------------------------------------------------------------------------
(* Every variable stays in its type (documents, job locals, events).        *)
TypeOK ==
    /\ head \in 1 .. MaxBlock
    /\ events \in Seq(Events) /\ Len(events) <= MaxEvents
    /\ owner \in [Tokens -> Users \cup {NoUser}]
    /\ requests \subseteq Users \X Tokens
    /\ status \in [ScanTypes -> [first : 0 .. MaxBlock, last : -1 .. MaxBlock]]
    /\ pass \in [Schedulers -> [pc : {"idle", "statuses"} \cup ScanTypes,
                                block : 0 .. MaxBlock, found : SUBSET ScanTypes]]
    /\ job \in [Workers -> [pc : {"idle", "block", "query", "assign"},
                             from : 0 .. MaxBlock + 1, to : Int,
                             todo : SUBSET (1 .. MaxEvents)]]
    /\ loose \in [Workers -> [1 .. MaxEvents -> Nat]]
    /\ applied \subseteq 1 .. MaxEvents
    /\ calm \subseteq Tokens
    /\ faults \in 0 .. MaxFaults

(* The cursor of a status never stands beyond an event that was not applied *)
(* to its asset, whatever jobs overlap, fail or die (ContractScanWorker).   *)
NoEventSkipped ==
    \A e \in DOMAIN events :
        LET s == status[events[e].type] IN
        s.first <= events[e].block /\ events[e].block <= s.last => e \in applied

(* No asset changes hands for an event that the chain may still take back.  *)
ScansOnlyFinal ==
    \A e \in applied : e \in DOMAIN events /\ IsFinal(events[e].block)

(* When one process runs a scanner, its cursor never moves back, though     *)
(* updateLastBlock writes it without a look at what is there.               *)
LoneScannerMovesForward ==
    [][\A type \in ScanTypes :
          (\A v, w \in Workers : TypeOf(v) = type /\ TypeOf(w) = type => v = w)
          => status'[type].last >= status[type].last]_vars

(* A token that moves again only after its last move was scanned is always  *)
(* recorded with its depositor, or with nobody after it was withdrawn       *)
(* (UserAssetDepositAssigner, UserAssetWithdrawAssigner).                   *)
CalmTokensAreRecorded ==
    \A t \in calm : \A e \in LastMoves(t) : e \in applied =>
        owner[t] = IF InCustody(t) THEN events[e].user ELSE NoUser

(* Every final event since the status was created is applied in the end,    *)
(* after any failures (ContractScanWorker, WorkerScheduler).                *)
EveryEventIsApplied ==
    \A e \in 1 .. MaxEvents :
        /\ e \in DOMAIN events
        /\ IsFinal(events[e].block)
        /\ Exists(events[e].type) /\ status[events[e].type].first <= events[e].block
        ~> e \in applied

(* "Players [...] must deposit it first so the Game can see it" (README):   *)
(* when every event is scanned and nothing is in progress, the asset of a   *)
(* token in custody is its depositor's, and that of any other nobody's.     *)
CustodyIsRecorded ==
    (/\ DOMAIN events = applied
     /\ job = [w \in Workers |-> IdleJob]
     /\ loose = [w \in Workers |-> NoneLoose])
    => \A t \in Tokens : \A e \in LastMoves(t) :
            owner[t] = IF InCustody(t) THEN events[e].user ELSE NoUser
=============================================================================
