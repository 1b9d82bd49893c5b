-------------------------- MODULE ProposalGeneration --------------------------
(***************************************************************************)
(* The life of one proposal: the API handlers that create it, edit its     *)
(* sections and ask for regenerations (routers/proposals.py), the two       *)
(* Celery tasks that write it (worker.py, services/proposal_gen.py), and    *)
(* the broker between them.                                                *)
(*                                                                         *)
(* A step is what one process does between two points where another can    *)
(* run: a committed transaction, a read whose result is used after an LLM  *)
(* call or a later flush, a broker call.  Tasks are acknowledged late, so  *)
(* a message outlives a crashed worker and a lost broker connection may     *)
(* deliver it again while the first delivery is still running.             *)
(***************************************************************************)
EXTENDS SectionRows, Sequences, FiniteSets

CONSTANTS
  Workers,    \* Celery worker processes
  Plans,      \* section lists the rubric extraction may return
  NoKey,      \* "not asked yet" in a request record
  Faults,     \* which of FaultKinds may happen
  MaxFaults,  \* bound: how many of them happen
  MaxVersion  \* bound: the highest expected_version a client sends

FaultKinds == {"workerCrash", "redelivery", "hardTimeLimit", "apiCrash"}

ASSUME PlansAssumption ==
  \A plan \in Plans : plan \in Seq(Keys) /\ plan # <<>>

ASSUME BoundsAssumption ==
  /\ NoKey \notin Keys
  /\ IsFiniteSet(Workers)
  /\ Faults \subseteq FaultKinds
  /\ MaxFaults \in Nat
  /\ MaxVersion \in Nat

VARIABLES
  status,       \* proposal.status, "NONE" before create_proposal commits
  sections,     \* the proposal's rows by section_key
  request,      \* arguments of each regeneration job, as its message carries
                \* them, and two history fields: the section's edits and generate
                \* writes when the job was asked for
  undispatched, \* jobs committed by an API handler that has not called delay() yet
  queue,        \* messages of each job waiting in the broker
  worker,       \* local state of each worker process
  lost,         \* jobs of which a message vanished for good
  faults,       \* faults so far
  writes        \* history: how often a job's text was written to a section

vars == <<status, sections, request, undispatched, queue, worker, lost,
          faults, writes>>

TerminalStatus == {"COMPLETED", "COMPLETED_WITH_ERRORS", "FAILED"}
ProposalStatus == {"NONE", "PENDING", "PROCESSING"} \cup TerminalStatus

GeneratePC == {"extract", "find", "insert", "claim", "write", "commit",
               "mark", "abort"}
RegeneratePC == {"regenerate", "regenMark"}

WorkerState == [pc     : {"idle"} \cup GeneratePC \cup RegeneratePC,
                job    : Jobs \cup {NoJob},
                plan   : Plans \cup {<<>>},
                pos    : Nat,
                seen   : SectionRow,
                done   : BOOLEAN,   \* result.completed > 0
                failed : BOOLEAN,   \* result.failed > 0
                retry  : BOOLEAN]   \* the exception being handled is a RuntimeError

Idle == [pc |-> "idle", job |-> NoJob, plan |-> <<>>, pos |-> 1,
         seen |-> AbsentRow, done |-> FALSE, failed |-> FALSE, retry |-> FALSE]

NotAsked == [key |-> NoKey, base |-> 0, edited |-> 0, generated |-> 0]

Init ==
  /\ status = "NONE"
  /\ sections = [k \in Keys |-> AbsentRow]
  /\ request = [r \in RegenJobs |-> NotAsked]
  /\ undispatched = {}
  /\ queue = [j \in Jobs |-> 0]
  /\ worker = [w \in Workers |-> Idle]
  /\ lost = {}
  /\ faults = 0
  /\ writes = [k \in Keys |-> [j \in Jobs |-> 0]]

Asked(r) == request[r].key # NoKey
Target(r) == sections[request[r].key]
LiveRequest(r) == Asked(r) /\ RegenOwns(Target(r), r, request[r].base)

\* No generate task has written the section since r was asked for.
Undisturbed(r) == writes[request[r].key][GenJob] = request[r].generated

\* Someone will still look at job j: the handler about to send it, or a message.
InHand(j) ==
  \/ j \in undispatched
  \/ queue[j] > 0
  \/ \E w \in Workers : worker[w].job = j

\* Mutant: the message is sent twice.
EnqueueTwice(j) == queue' = [queue EXCEPT ![j] = @ + 2]

Enqueue(j) == queue' = [queue EXCEPT ![j] = @ + 1]
Set(w, state) == worker' = [worker EXCEPT ![w] = state]
SetRow(k, row) == sections' = [sections EXCEPT ![k] = row]
CountWrite(k, j) == writes' = [writes EXCEPT ![k][j] = @ + 1]

-----------------------------------------------------------------------------
(* API handlers.                                                           *)

CreateProposal ==
  /\ status = "NONE"
  /\ status' = "PENDING"
  /\ undispatched' = undispatched \cup {GenJob}
  /\ UNCHANGED <<sections, request, queue, worker, lost, faults, writes>>

\* A refused edit (409) changes nothing, so only accepted ones are steps.
EditSection(k, expected) ==
  /\ VersionMatches(sections[k], expected)
  /\ SetRow(k, EditedRow(sections[k]))
  /\ UNCHANGED <<status, request, undispatched, queue, worker, lost, faults, writes>>

RequestRegeneration(r, k, expected) ==
  /\ ~Asked(r)
  /\ VersionMatches(sections[k], expected)
  /\ SetRow(k, RequestedRow(sections[k], r))
  /\ request' = [request EXCEPT ![r] = [key |-> k, base |-> expected,
                                        edited |-> sections[k].edited,
                                        generated |-> writes[k][GenJob]]]
  /\ undispatched' = undispatched \cup {r}
  /\ UNCHANGED <<status, queue, worker, lost, faults, writes>>

Dispatch(j) ==
  /\ j \in undispatched
  /\ Enqueue(j)
  /\ undispatched' = undispatched \ {j}
  /\ UNCHANGED <<status, sections, request, worker, lost, faults, writes>>

\* create_proposal logs the error and leaves the proposal PENDING.
GenerateDispatchFails ==
  /\ GenJob \in undispatched
  /\ undispatched' = undispatched \ {GenJob}
  /\ lost' = lost \cup {GenJob}
  /\ UNCHANGED <<status, sections, request, queue, worker, faults, writes>>

\* The handler re-reads the section by id and fails it, whoever owns it now.
RegenerateDispatchFails(r) ==
  /\ r \in undispatched
  /\ undispatched' = undispatched \ {r}
  /\ SetRow(request[r].key, QueueUnavailableRow(Target(r)))
  /\ UNCHANGED <<status, request, queue, worker, lost, faults, writes>>

-----------------------------------------------------------------------------
(* generate_proposal_task.  The proposal's job never changes after         *)
(* create_proposal, so the stale-job checks on the proposal always pass.   *)

Key(w) == worker[w].plan[worker[w].pos]
Row(w) == sections[Key(w)]
PlanDone(w) == worker[w].pos > Len(worker[w].plan)

\* uq_proposal_sections_order
OrderFree(k, order) ==
  \A other \in Keys \ {k} : Present(sections[other]) => sections[other].order # order

NextSection(w, done, failed) ==
  Set(w, [worker[w] EXCEPT !.pc = "find", !.pos = @ + 1, !.seen = AbsentRow,
                           !.done = @ \/ done, !.failed = @ \/ failed])

GenerateStart(w) ==
  /\ worker[w].pc = "idle"
  /\ queue[GenJob] > 0
  /\ queue' = [queue EXCEPT ![GenJob] = @ - 1]
  /\ status' = "PROCESSING"
  /\ Set(w, [Idle EXCEPT !.pc = "extract", !.job = GenJob])
  /\ UNCHANGED <<sections, request, undispatched, lost, faults, writes>>

GenerateExtract(w) ==
  /\ worker[w].pc = "extract"
  /\ \E plan \in Plans : Set(w, [worker[w] EXCEPT !.pc = "find", !.plan = plan])
  /\ UNCHANGED <<status, sections, request, undispatched, queue, lost, faults, writes>>

FinishedByThisJob(row) == row.job = GenJob /\ row.status = "COMPLETED"

GenerateFind(w) ==
  /\ worker[w].pc = "find"
  /\ ~PlanDone(w)
  /\ \/ FinishedByThisJob(Row(w)) /\ NextSection(w, TRUE, FALSE)
     \/ /\ ~Present(Row(w))
        /\ Set(w, [worker[w] EXCEPT !.pc = "insert"])
     \/ /\ Present(Row(w)) /\ ~FinishedByThisJob(Row(w))
        /\ Set(w, [worker[w] EXCEPT !.pc = "claim", !.seen = Row(w)])
  /\ UNCHANGED <<status, sections, request, undispatched, queue, lost, faults, writes>>

Order(w) == worker[w].pos - 1

GenerateInsert(w) ==
  /\ worker[w].pc = "insert"
  /\ ~Present(Row(w))
  /\ OrderFree(Key(w), Order(w))
  /\ SetRow(Key(w), InsertedRow(Order(w)))
  /\ Set(w, [worker[w] EXCEPT !.pc = "claim", !.seen = InsertedRow(Order(w))])
  /\ UNCHANGED <<status, request, undispatched, queue, lost, faults, writes>>

GenerateClaim(w) ==
  /\ worker[w].pc = "claim"
  /\ OrderFree(Key(w), ClaimedRow(Row(w), worker[w].seen, Order(w)).order)
  /\ SetRow(Key(w), ClaimedRow(Row(w), worker[w].seen, Order(w)))
  /\ Set(w, [worker[w] EXCEPT !.pc = "write"])
  /\ UNCHANGED <<status, request, undispatched, queue, lost, faults, writes>>

\* A flush that breaks uq_proposal_sections_key or _order, or a soft time limit
\* outside the try of a section, ends in the task's except Exception.
GenerateError(w) ==
  /\ worker[w].pc \in {"extract", "find", "insert", "claim", "mark"}
  /\ Set(w, [worker[w] EXCEPT !.pc = "abort"])
  /\ UNCHANGED <<status, sections, request, undispatched, queue, lost, faults, writes>>

\* The LLM has answered: read the row again and check who owns it.
GenerateReread(w) ==
  /\ worker[w].pc = "write"
  /\ IF Row(w).job = GenJob
       THEN Set(w, [worker[w] EXCEPT !.pc = "commit", !.seen = Row(w)])
       ELSE NextSection(w, FALSE, FALSE)
  /\ UNCHANGED <<status, sections, request, undispatched, queue, lost, faults, writes>>

GenerateCommit(w) ==
  /\ worker[w].pc = "commit"
  /\ SetRow(Key(w), GeneratedRow(Row(w), worker[w].seen))
  /\ CountWrite(Key(w), GenJob)
  /\ NextSection(w, TRUE, FALSE)
  /\ UNCHANGED <<status, request, undispatched, queue, lost, faults>>

\* The LLM call, the conversion of its answer or the flush failed.
GenerateSectionFails(w) ==
  /\ worker[w].pc \in {"write", "commit"}
  /\ IF Row(w).job = GenJob
       THEN Set(w, [worker[w] EXCEPT !.pc = "mark", !.seen = Row(w)])
       ELSE NextSection(w, FALSE, TRUE)
  /\ UNCHANGED <<status, sections, request, undispatched, queue, lost, faults, writes>>

GenerateMarkFailed(w) ==
  /\ worker[w].pc = "mark"
  /\ SetRow(Key(w), GenerationFailedRow(Row(w), worker[w].seen))
  /\ NextSection(w, FALSE, TRUE)
  /\ UNCHANGED <<status, request, undispatched, queue, lost, faults, writes>>

\* Mutant: one finished section is enough.
AnySectionIsSuccess(done, failed) == IF done THEN "COMPLETED" ELSE "FAILED"

FinalStatus(done, failed) ==
  IF done /\ failed THEN "COMPLETED_WITH_ERRORS"
  ELSE IF done THEN "COMPLETED" ELSE "FAILED"

GenerateFinish(w) ==
  /\ worker[w].pc = "find"
  /\ PlanDone(w)
  /\ status' = FinalStatus(worker[w].done, worker[w].failed)
  /\ Set(w, Idle)
  /\ UNCHANGED <<sections, request, undispatched, queue, lost, faults, writes>>

\* Mutant: the exception handler rolls back and forgets the status.
GenerateAbortUnrecorded(w) ==
  /\ worker[w].pc = "abort"
  /\ Set(w, Idle)
  /\ UNCHANGED <<status, sections, request, undispatched, queue, lost, faults, writes>>

GenerateAbort(w) ==
  /\ worker[w].pc = "abort"
  /\ status' = "FAILED"
  /\ Set(w, Idle)
  /\ UNCHANGED <<sections, request, undispatched, queue, lost, faults, writes>>

GenerateStep(w) ==
  \/ GenerateStart(w) \/ GenerateExtract(w) \/ GenerateFind(w)
  \/ GenerateInsert(w) \/ GenerateClaim(w) \/ GenerateError(w)
  \/ GenerateReread(w) \/ GenerateCommit(w) \/ GenerateSectionFails(w)
  \/ GenerateMarkFailed(w) \/ GenerateFinish(w) \/ GenerateAbort(w)

-----------------------------------------------------------------------------
(* regenerate_proposal_section_task.                                       *)

\* A stale message is acknowledged and dropped.
RegenerateStart(w, r) ==
  /\ worker[w].pc = "idle"
  /\ queue[r] > 0
  /\ queue' = [queue EXCEPT ![r] = @ - 1]
  /\ IF LiveRequest(r)
       THEN Set(w, [Idle EXCEPT !.pc = "regenerate", !.job = r])
       ELSE UNCHANGED worker
  /\ UNCHANGED <<status, sections, request, undispatched, lost, faults, writes>>

RegenerateCommit(w, r) ==
  /\ worker[w].pc = "regenerate"
  /\ worker[w].job = r
  /\ Set(w, Idle)
  /\ IF LiveRequest(r)
       THEN /\ SetRow(request[r].key, RegeneratedRow(Target(r)))
            /\ CountWrite(request[r].key, r)
       ELSE UNCHANGED <<sections, writes>>
  /\ UNCHANGED <<status, request, undispatched, queue, lost, faults>>

\* A RuntimeError is re-raised after the section is marked and Celery queues the
\* task again; any other exception ends the task.
RetryOrStop(r, retry) == IF retry THEN Enqueue(r) ELSE UNCHANGED queue

RegenerateFails(w, r, retry) ==
  /\ worker[w].pc = "regenerate"
  /\ worker[w].job = r
  /\ IF LiveRequest(r)
       THEN /\ Set(w, [worker[w] EXCEPT !.pc = "regenMark", !.seen = Target(r),
                                        !.retry = retry])
            /\ UNCHANGED queue
       ELSE Set(w, Idle) /\ RetryOrStop(r, retry)
  /\ UNCHANGED <<status, sections, request, undispatched, lost, faults, writes>>

RegenerateMarkFailed(w, r) ==
  /\ worker[w].pc = "regenMark"
  /\ worker[w].job = r
  /\ SetRow(request[r].key, RegenerationFailedRow(Target(r), worker[w].seen))
  /\ RetryOrStop(r, worker[w].retry)
  /\ Set(w, Idle)
  /\ UNCHANGED <<status, request, undispatched, lost, faults, writes>>

RegenerateStep(w, r) ==
  \/ RegenerateStart(w, r)
  \/ RegenerateCommit(w, r)
  \/ \E retry \in BOOLEAN : RegenerateFails(w, r, retry)
  \/ RegenerateMarkFailed(w, r)

-----------------------------------------------------------------------------
(* Faults of the environment.                                              *)

Fault(kind) ==
  /\ kind \in Faults
  /\ faults < MaxFaults
  /\ faults' = faults + 1

\* task_acks_late with task_reject_on_worker_lost: the message goes back.
WorkerCrash(w) ==
  /\ Fault("workerCrash")
  /\ worker[w].pc # "idle"
  /\ Enqueue(worker[w].job)
  /\ Set(w, Idle)
  /\ UNCHANGED <<status, sections, request, undispatched, lost, writes>>

\* The broker connection drops: unacknowledged messages are restored although
\* the task that holds one goes on.
Redelivery(w) ==
  /\ Fault("redelivery")
  /\ worker[w].pc # "idle"
  /\ Enqueue(worker[w].job)
  /\ UNCHANGED <<status, sections, request, undispatched, worker, lost, writes>>

\* time_limit kills the process and Celery acknowledges the message.
HardTimeLimit(w) ==
  /\ Fault("hardTimeLimit")
  /\ worker[w].pc # "idle"
  /\ lost' = lost \cup {worker[w].job}
  /\ Set(w, Idle)
  /\ UNCHANGED <<status, sections, request, undispatched, queue, writes>>

\* The API process dies between its commit and delay().
ApiCrash(j) ==
  /\ Fault("apiCrash")
  /\ j \in undispatched
  /\ undispatched' = undispatched \ {j}
  /\ lost' = lost \cup {j}
  /\ UNCHANGED <<status, sections, request, queue, worker, writes>>

-----------------------------------------------------------------------------

ApiStep ==
  \/ CreateProposal
  \/ \E k \in Keys, v \in 1 .. MaxVersion : EditSection(k, v)
  \/ \E r \in RegenJobs, k \in Keys, v \in 1 .. MaxVersion : RequestRegeneration(r, k, v)
  \/ \E j \in Jobs : Dispatch(j)
  \/ GenerateDispatchFails
  \/ \E r \in RegenJobs : RegenerateDispatchFails(r)

WorkerStep(w) == GenerateStep(w) \/ \E r \in RegenJobs : RegenerateStep(w, r)

FaultStep ==
  \/ \E w \in Workers : WorkerCrash(w) \/ Redelivery(w) \/ HardTimeLimit(w)
  \/ \E j \in Jobs : ApiCrash(j)

Next == ApiStep \/ (\E w \in Workers : WorkerStep(w)) \/ FaultStep

Spec == Init /\ [][Next]_vars

(***************************************************************************)
(* Fairness: the API process calls delay() after its commit, and a worker  *)
(* that has a message keeps running its task (every LLM call returns or is *)
(* stopped by the soft time limit).  Users and faults are not fair.        *)
(***************************************************************************)
Fairness ==
  /\ \A j \in Jobs : WF_vars(Dispatch(j))
  /\ \A w \in Workers : WF_vars(WorkerStep(w))

FairSpec == Spec /\ Fairness

-----------------------------------------------------------------------------
(* Properties.                                                             *)

TypeOK ==
  /\ status \in ProposalStatus
  /\ sections \in [Keys -> SectionRow]
  /\ request \in [RegenJobs -> [key : Keys \cup {NoKey}, base : Nat,
                             edited : Nat, generated : Nat]]
  /\ undispatched \subseteq Jobs
  /\ queue \in [Jobs -> Nat]
  /\ worker \in [Workers -> WorkerState]
  /\ lost \subseteq Jobs
  /\ faults \in Nat
  /\ writes \in [Keys -> [Jobs -> Nat]]

(* A regeneration publishes its text at most once, whatever is redelivered, *)
(* retried or overtaken: regenerate_proposal_section_task and its UPDATE.   *)
RegenerationAppliedOnce ==
  \A r \in RegenJobs, k \in Keys : writes[k][r] <= 1

(* A regeneration never replaces text a user saved after asking for it,     *)
(* although the task reads the row before the LLM call and writes after it. *)
RegenerationKeepsLaterEdits ==
  [][\A r \in RegenJobs, k \in Keys :
       writes'[k][r] # writes[k][r] => sections[k].edited = request[r].edited]_vars

(* The refinement mapping to the abstract protocol of regeneration requests. *)
Protocol == INSTANCE RegenerationRequests WITH
  Sections  <- Keys,
  Requests  <- RegenJobs,
  None      <- NoJob,
  asked     <- {r \in RegenJobs : Asked(r)},
  holder    <- [k \in Keys |-> IF sections[k].job \in RegenJobs
                                 THEN sections[k].job ELSE NoJob],
  published <- {r \in RegenJobs : \E k \in Keys : writes[k][r] > 0},
  edits     <- [k \in Keys |-> sections[k].edited]

(* The two tasks, the handlers and the faults together implement the        *)
(* protocol of RegenerationRequests: every step is one of its steps or none.*)
RegenerationProtocol == Protocol!Spec

(* A regeneration that still owns its section is never forgotten: its       *)
(* handler, a message or a worker still has it, unless a fault destroyed it.*)
(* Excepted: a generate task that wrote the section in between, because its *)
(* unguarded flush can set the version back to one the request named after  *)
(* a worker dropped the request as stale.                                   *)
LiveRequestInHand ==
  \A r \in RegenJobs :
    LiveRequest(r) /\ Undisturbed(r) => InHand(r) \/ r \in lost

(* The proposal shows PENDING or PROCESSING only while its job is in hand   *)
(* or was destroyed: the status every exit of generate_proposal_task leaves.*)
UnfinishedProposalInHand ==
  status \in {"PENDING", "PROCESSING"} => InHand(GenJob) \/ GenJob \in lost

(* A proposal reported COMPLETED by a job that met no fault has no section  *)
(* that job still owns and did not finish.                                  *)
CompletedOwnsNoLeftovers ==
  status = "COMPLETED" /\ faults = 0 =>
    \A k \in Keys : sections[k].job = GenJob => sections[k].status = "COMPLETED"

(* How often the generate job runs over a section is bounded by how often   *)
(* its message was delivered: once, and once more for every fault, whatever *)
(* users, other workers and the order of an extraction do in between.       *)
GeneratedOncePerDelivery == \A k \in Keys : writes[k][GenJob] <= 1 + faults

(* A section shows GENERATING while no job owns it only if a user edited it *)
(* or asked for its regeneration: the claim of the generate task flushes    *)
(* its status alone, over a row whose owner was cleared in the meantime.    *)
Touched(k) == sections[k].edited > 0 \/ \E r \in RegenJobs : request[r].key = k

UntouchedIsOwned ==
  \A k \in Keys :
    sections[k].status = "GENERATING" /\ sections[k].job = NoJob => Touched(k)

-----------------------------------------------------------------------------
(* The inductive invariant behind the safety properties.                    *)

\* What a worker's program counter says about the rest of its state.
WorkerShape ==
  \A w \in Workers :
    /\ worker[w].pc = "idle" => worker[w].job = NoJob
    /\ worker[w].pc \in GeneratePC => worker[w].job = GenJob
    /\ worker[w].pc \in RegeneratePC => worker[w].job \in RegenJobs
    /\ worker[w].pos > 0
    /\ worker[w].pc \in {"insert", "claim", "write", "commit", "mark"} => ~PlanDone(w)

\* A job nobody has asked for has left no trace.
UnaskedUnknown ==
  \A r \in RegenJobs : ~Asked(r) => ~InHand(r) /\ \A k \in Keys : writes[k][r] = 0

(* A regeneration job in a row is the one asked for that section, no edit   *)
(* was accepted since, and it has published nothing.                        *)
SectionOwnership ==
  \A k \in Keys : \A r \in RegenJobs :
    sections[k].job = r =>
      /\ request[r].key = k
      /\ sections[k].edited = request[r].edited
      /\ writes[k][r] = 0

\* A job writes no section but its own; the count in a request is never ahead.
WritesFollowRequests ==
  \A r \in RegenJobs, k \in Keys :
    /\ writes[k][r] > 0 => request[r].key = k
    /\ request[r].key = k => request[r].generated <= writes[k][GenJob]

\* Rows are never deleted: a key that was asked about or claimed has one.
RowsStay ==
  /\ \A k \in Keys : Present(sections[k]) \/ sections[k] = AbsentRow
  /\ \A r \in RegenJobs : Asked(r) => Present(Target(r))
  /\ \A w \in Workers :
       worker[w].pc \in {"claim", "write", "commit", "mark"} => Present(Row(w))

SafetyInv ==
  /\ TypeOK
  /\ WorkerShape
  /\ UnaskedUnknown
  /\ RowsStay
  /\ SectionOwnership
  /\ WritesFollowRequests
  /\ RegenerationAppliedOnce

-----------------------------------------------------------------------------
(* Claims of the repository that this code does not keep.                   *)

(* Not a property of this code: generate_proposal_task is documented as      *)
(* idempotent for one job, so running it again should leave what it finished.*)
GenerationIdempotent == \A k \in Keys : writes[k][GenJob] <= 1

(* Not a property of this code: optimistic locking on the section version    *)
(* needs versions that never run backwards.                                  *)
VersionNeverDecreases ==
  [][\A k \in Keys : sections'[k].version >= sections[k].version]_vars

-----------------------------------------------------------------------------
(* Progress, under FairSpec.                                                *)

(* No job is queued or running again once its result is final and nothing   *)
(* redelivers it: the generate task eventually reports, or was destroyed.   *)
ProposalSettles ==
  status \in {"PENDING", "PROCESSING"} ~> status \in TerminalStatus \/ GenJob \in lost

(* Every live regeneration request is eventually settled, with the same    *)
(* exception as LiveRequestInHand.                                          *)
RequestSettles ==
  \A r \in RegenJobs :
    LiveRequest(r) /\ Undisturbed(r)
      ~> ~LiveRequest(r) \/ ~Undisturbed(r) \/ r \in lost

=============================================================================
