----------------------- MODULE ProposalGenerationProofs -----------------------
(***************************************************************************)
(* Safety of ProposalGeneration for any sets of sections, jobs and workers,*)
(* any plans, and any number of faults of any kind.                        *)
(***************************************************************************)
EXTENDS ProposalGeneration, FiniteSetTheorems, TLAPS

(* The rows the writers of SectionRows produce are rows.                    *)
LEMMA RowTypes ==
  ASSUME NEW row \in SectionRow, NEW seen \in SectionRow,
         NEW r \in RegenJobs, NEW order \in Nat
  PROVE  /\ AbsentRow \in SectionRow
         /\ EditedRow(row) \in SectionRow
         /\ RequestedRow(row, r) \in SectionRow
         /\ RegeneratedRow(row) \in SectionRow
         /\ InsertedRow(order) \in SectionRow
         /\ ClaimedRow(row, seen, order) \in SectionRow
         /\ GeneratedRow(row, seen) \in SectionRow
         /\ GenerationFailedRow(row, seen) \in SectionRow
         /\ RegenerationFailedRow(row, seen) \in SectionRow
         /\ QueueUnavailableRow(row) \in SectionRow
<1>. USE DEF SectionRow, SectionStatus, Jobs, Dirty
<1>1. AbsentRow \in SectionRow /\ InsertedRow(order) \in SectionRow
  BY DEF AbsentRow, InsertedRow
<1>v. row.version + 1 \in Nat /\ row.edited + 1 \in Nat /\ seen.version + 1 \in Nat
  OBVIOUS
<1>2a. EditedRow(row) \in SectionRow
  BY <1>v DEF EditedRow
<1>2b. RegeneratedRow(row) \in SectionRow
  BY <1>v DEF RegeneratedRow
<1>3. RequestedRow(row, r) \in SectionRow /\ QueueUnavailableRow(row) \in SectionRow
  BY DEF RequestedRow, QueueUnavailableRow
<1>4. ClaimedRow(row, seen, order) \in SectionRow
  BY DEF ClaimedRow
<1>5. GeneratedRow(row, seen) \in SectionRow
  BY <1>v DEF GeneratedRow
<1>6. GenerationFailedRow(row, seen) \in SectionRow
  BY DEF GenerationFailedRow
<1>7. RegenerationFailedRow(row, seen) \in SectionRow
  BY DEF RegenerationFailedRow
<1>. QED
  BY <1>1, <1>2a, <1>2b, <1>3, <1>4, <1>5, <1>6, <1>7

(* What a writer leaves of the job and the edit count of a row.             *)
LEMMA RowOwner ==
  ASSUME NEW row \in SectionRow, NEW seen \in SectionRow,
         NEW r \in RegenJobs, NEW order \in Nat
  PROVE  /\ EditedRow(row).job = NoJob
         /\ EditedRow(row).edited = row.edited + 1
         /\ RequestedRow(row, r).job = r
         /\ RequestedRow(row, r).edited = row.edited
         /\ RegeneratedRow(row).job = NoJob
         /\ RegeneratedRow(row).edited = row.edited
         /\ InsertedRow(order).job = GenJob
         /\ InsertedRow(order).edited = 0
         /\ AbsentRow.edited = 0
         /\ ClaimedRow(row, seen, order).job \in {GenJob, row.job}
         /\ ClaimedRow(row, seen, order).edited = row.edited
         /\ GeneratedRow(row, seen).job = row.job
         /\ GeneratedRow(row, seen).edited = row.edited
         /\ GenerationFailedRow(row, seen).job = row.job
         /\ GenerationFailedRow(row, seen).edited = row.edited
         /\ GenerationFailedRow(row, seen).version = row.version
         /\ RegenerationFailedRow(row, seen).job = NoJob
         /\ RegenerationFailedRow(row, seen).edited = row.edited
         /\ QueueUnavailableRow(row).job = NoJob
         /\ QueueUnavailableRow(row).edited = row.edited
BY DEF SectionRow, AbsentRow, EditedRow, RequestedRow, RegeneratedRow, InsertedRow,
       ClaimedRow, GeneratedRow, GenerationFailedRow, RegenerationFailedRow,
       QueueUnavailableRow, Dirty

LEMMA IdleType == Idle \in WorkerState /\ Idle.pc = "idle" /\ Idle.job = NoJob /\ Idle.pos = 1
BY DEF Idle, WorkerState, AbsentRow, SectionRow, Jobs, SectionStatus

-----------------------------------------------------------------------------
(* Typing.                                                                  *)

TypeInv == TypeOK /\ WorkerShape /\ UnaskedUnknown

(* A worker at a step about a section is at one of the plan's keys.         *)
LEMMA KeyType ==
  ASSUME TypeInv, NEW w \in Workers, worker[w].pos > 0, ~PlanDone(w)
  PROVE  /\ Key(w) \in Keys
         /\ Row(w) \in SectionRow
         /\ Order(w) \in Nat
         /\ worker[w].seen \in SectionRow
<1>t. worker[w] \in WorkerState
  BY DEF TypeInv, TypeOK
<1>p. worker[w].plan \in Plans \cup {<<>>} /\ worker[w].pos \in Nat
  BY <1>t DEF WorkerState
<1>s. worker[w].seen \in SectionRow
  BY <1>t DEF WorkerState
<1>1. worker[w].plan \in Seq(Keys)
  <2>1. <<>> \in Seq(Keys)
    OBVIOUS
  <2>2. \A plan \in Plans : plan \in Seq(Keys)
    BY PlansAssumption
  <2>. QED
    BY <1>p, <2>1, <2>2
<1>2. worker[w].pos \in 1 .. Len(worker[w].plan)
  BY <1>1, <1>p DEF PlanDone
<1>3. Key(w) \in Keys
  BY <1>1, <1>2 DEF Key
<1>. QED
  BY <1>p, <1>s, <1>3 DEF Row, Order, TypeInv, TypeOK

LEMMA TypeInit == Init => TypeInv
<1>. SUFFICES ASSUME Init PROVE TypeInv
  OBVIOUS
<1>1. AbsentRow \in SectionRow
  BY DEF AbsentRow, SectionRow, Jobs, SectionStatus
<1>2. NotAsked \in [key : Keys \cup {NoKey}, base : Nat, edited : Nat, generated : Nat]
  BY DEF NotAsked
<1>3. TypeOK
  BY <1>1, <1>2, IdleType DEF Init, TypeOK, ProposalStatus
<1>4. WorkerShape
  BY IdleType DEF Init, WorkerShape, GeneratePC, RegeneratePC
<1>5. UnaskedUnknown
  <2>1. \A j \in Jobs : ~InHand(j)
    <3>1. \A j \in Jobs : j # NoJob
      BY JobsAssumption DEF Jobs
    <3>. QED
      BY <3>1, IdleType DEF Init, InHand
  <2>. QED
    BY <2>1 DEF UnaskedUnknown, Init, Jobs
<1>. QED
  BY <1>3, <1>4, <1>5 DEF TypeInv

(* Replacing one worker's state preserves what is said of all of them.      *)
LEMMA SetWorker ==
  ASSUME TypeInv, NEW w \in Workers, NEW state \in WorkerState, Set(w, state),
         state.pc = "idle" => state.job = NoJob,
         state.pc \in GeneratePC => state.job = GenJob,
         state.pc \in RegeneratePC => state.job \in RegenJobs,
         state.pos > 0,
         state.pc \in {"insert", "claim", "write", "commit", "mark"} =>
           ~(state.pos > Len(state.plan))
  PROVE  /\ worker' \in [Workers -> WorkerState]
         /\ WorkerShape'
<1>1. worker' = [worker EXCEPT ![w] = state] /\ worker \in [Workers -> WorkerState]
  BY DEF Set, TypeInv, TypeOK
<1>2. \A v \in Workers : worker'[v] = IF v = w THEN state ELSE worker[v]
  BY <1>1
<1>. QED
  BY <1>1, <1>2 DEF WorkerShape, PlanDone, TypeInv

(* Moving on to the next section.                                           *)
LEMMA NextSectionType ==
  ASSUME TypeInv, NEW w \in Workers, NEW done \in BOOLEAN, NEW failed \in BOOLEAN,
         worker[w].pc \in GeneratePC, NextSection(w, done, failed)
  PROVE  /\ worker' \in [Workers -> WorkerState]
         /\ WorkerShape'
<1>. DEFINE state == [worker[w] EXCEPT !.pc = "find", !.pos = @ + 1, !.seen = AbsentRow,
                                       !.done = @ \/ done, !.failed = @ \/ failed]
<1>1. worker[w] \in WorkerState /\ worker[w].job = GenJob /\ worker[w].pos > 0
  BY DEF TypeInv, TypeOK, WorkerShape
<1>2. AbsentRow \in SectionRow
  BY DEF AbsentRow, SectionRow, Jobs, SectionStatus
<1>3. state \in WorkerState /\ state.pc = "find" /\ state.job = GenJob /\ state.pos > 0
  <2>1. worker[w].pos + 1 \in Nat /\ worker[w].pos + 1 > 0
    BY <1>1 DEF WorkerState
  <2>2. (worker[w].done \/ done) \in BOOLEAN /\ (worker[w].failed \/ failed) \in BOOLEAN
    OBVIOUS
  <2>. QED
    BY <1>1, <1>2, <2>1, <2>2 DEF WorkerState, GeneratePC
<1>4. Set(w, state)
  BY DEF NextSection
<1>. HIDE DEF state
<1>. QED
  BY <1>3, <1>4, SetWorker DEF GeneratePC, RegeneratePC

(* A row and a count of writes are replaced by ones of their type.          *)
LEMMA SetRowType ==
  ASSUME TypeOK, NEW k \in Keys, NEW row \in SectionRow, SetRow(k, row)
  PROVE  sections' \in [Keys -> SectionRow]
BY DEF TypeOK, SetRow

LEMMA CountWriteType ==
  ASSUME TypeOK, NEW k \in Keys, NEW j \in Jobs, CountWrite(k, j)
  PROVE  /\ writes' \in [Keys -> [Jobs -> Nat]]
         /\ \A l \in Keys, i \in Jobs :
              writes'[l][i] = IF l = k /\ i = j THEN writes[l][i] + 1 ELSE writes[l][i]
<1>1. writes \in [Keys -> [Jobs -> Nat]]
  BY DEF TypeOK
<1>2. writes' = [writes EXCEPT ![k] = [writes[k] EXCEPT ![j] = writes[k][j] + 1]]
  BY DEF CountWrite
<1>3. [writes[k] EXCEPT ![j] = writes[k][j] + 1] \in [Jobs -> Nat]
  BY <1>1
<1>. QED
  BY <1>1, <1>2, <1>3

LEMMA EnqueueType ==
  ASSUME TypeOK, NEW j \in Jobs, Enqueue(j)
  PROVE  /\ queue' \in [Jobs -> Nat]
         /\ \A i \in Jobs : queue'[i] = IF i = j THEN queue[i] + 1 ELSE queue[i]
BY DEF TypeOK, Enqueue

(* The section a regeneration job was asked for, once asked.                *)
LEMMA TargetType ==
  ASSUME TypeOK, NEW r \in RegenJobs, Asked(r)
  PROVE  request[r].key \in Keys /\ Target(r) \in SectionRow /\ Target(r) = sections[request[r].key]
BY DEF TypeOK, Asked, Target

(* A step about job j, which is the generate job or was asked for, leaves   *)
(* the jobs nobody asked for without a trace.                               *)
LEMMA StillUnknown ==
  ASSUME UnaskedUnknown, NEW j \in Jobs, j \in RegenJobs => Asked(j),
         UNCHANGED request,
         \A i \in RegenJobs \ {j} : InHand(i)' => InHand(i),
         \A i \in RegenJobs \ {j}, k \in Keys : writes'[k][i] = writes[k][i]
  PROVE  UnaskedUnknown'
BY DEF UnaskedUnknown, Asked

(* The same for a step of a worker on its job that leaves the broker and    *)
(* the handlers alone.                                                      *)
LEMMA WorkerStillUnknown ==
  ASSUME TypeInv, NEW w \in Workers, NEW state, Set(w, state), NEW j \in Jobs,
         state.job \in {j, NoJob}, worker[w].job \in {j, NoJob},
         j \in RegenJobs => Asked(j),
         UNCHANGED <<request, undispatched>>,
         \A i \in RegenJobs \ {j} : queue'[i] = queue[i],
         \A i \in RegenJobs \ {j}, k \in Keys : writes'[k][i] = writes[k][i]
  PROVE  UnaskedUnknown'
<1>1. worker' = [worker EXCEPT ![w] = state] /\ worker \in [Workers -> WorkerState]
  BY DEF Set, TypeInv, TypeOK
<1>2. \A v \in Workers : worker'[v].job \in {worker[v].job, j, NoJob}
  BY <1>1
<1>3. \A i \in RegenJobs \ {j} : InHand(i)' => InHand(i)
  BY <1>2, JobsAssumption DEF InHand
<1>. QED
  BY <1>3, StillUnknown DEF TypeInv

(* What a worker in a task knows of its job.                                *)
LEMMA TaskJob ==
  ASSUME TypeInv, NEW w \in Workers
  PROVE  /\ worker[w].pc \in GeneratePC => worker[w].job = GenJob
         /\ worker[w].job \in Jobs => (worker[w].job \in RegenJobs => Asked(worker[w].job))
         /\ worker[w].pc # "idle" => worker[w].job \in Jobs
<1>1. worker[w] \in WorkerState
  BY DEF TypeInv, TypeOK
<1>. QED
  BY <1>1 DEF TypeInv, WorkerShape, UnaskedUnknown, InHand, Jobs, WorkerState

(* A worker in the generate task moves to state and leaves the rest typed.  *)
LEMMA GenerateMoves ==
  ASSUME TypeInv, NEW w \in Workers, NEW state \in WorkerState, Set(w, state),
         worker[w].pc \in GeneratePC \cup {"idle"},
         \/ state = Idle
         \/ /\ state.pc \in GeneratePC
            /\ state.job = GenJob
            /\ state.pos > 0
            /\ state.pc \in {"insert", "claim", "write", "commit", "mark"} =>
                 ~(state.pos > Len(state.plan)),
         status' \in ProposalStatus,
         sections' \in [Keys -> SectionRow],
         queue' \in [Jobs -> Nat],
         \A i \in RegenJobs : queue'[i] = queue[i],
         writes' \in [Keys -> [Jobs -> Nat]],
         \A i \in RegenJobs, k \in Keys : writes'[k][i] = writes[k][i],
         UNCHANGED <<request, undispatched, lost, faults>>
  PROVE  TypeInv'
<1>1. worker' \in [Workers -> WorkerState] /\ WorkerShape'
  BY SetWorker, IdleType DEF GeneratePC, RegeneratePC
<1>2. GenJob \in Jobs /\ GenJob \notin RegenJobs /\ state.job \in {GenJob, NoJob}
  BY IdleType, JobsAssumption DEF Jobs
<1>3. worker[w].job \in {GenJob, NoJob}
  BY DEF TypeInv, WorkerShape
<1>4. UnaskedUnknown'
  BY <1>2, <1>3, WorkerStillUnknown
<1>5. TypeOK'
  BY <1>1 DEF TypeInv, TypeOK
<1>. QED
  BY <1>1, <1>4, <1>5 DEF TypeInv

(* The same for the move to the next section.                               *)
LEMMA GenerateMovesOn ==
  ASSUME TypeInv, NEW w \in Workers, NEW done \in BOOLEAN, NEW failed \in BOOLEAN,
         worker[w].pc \in GeneratePC, NextSection(w, done, failed),
         sections' \in [Keys -> SectionRow],
         writes' \in [Keys -> [Jobs -> Nat]],
         \A i \in RegenJobs, k \in Keys : writes'[k][i] = writes[k][i],
         UNCHANGED <<status, request, undispatched, queue, lost, faults>>
  PROVE  TypeInv'
<1>1. worker' \in [Workers -> WorkerState] /\ WorkerShape'
  BY NextSectionType
<1>2. GenJob \in Jobs /\ GenJob \notin RegenJobs /\ worker[w].job = GenJob
  BY JobsAssumption DEF Jobs, TypeInv, WorkerShape
<1>3. UnaskedUnknown'
  <2>. DEFINE state == [worker[w] EXCEPT !.pc = "find", !.pos = @ + 1, !.seen = AbsentRow,
                                         !.done = @ \/ done, !.failed = @ \/ failed]
  <2>1. Set(w, state) /\ state.job = GenJob
    BY <1>2 DEF NextSection, TypeInv, TypeOK, WorkerState
  <2>. HIDE DEF state
  <2>. QED
    BY <1>2, <2>1, WorkerStillUnknown DEF TypeInv
<1>4. TypeOK'
  BY <1>1 DEF TypeInv, TypeOK
<1>. QED
  BY <1>1, <1>3, <1>4 DEF TypeInv

LEMMA GenerateTypeStep ==
  ASSUME TypeInv, NEW w \in Workers, GenerateStep(w)
  PROVE  TypeInv'
<1>. DEFINE self == worker[w]
<1>0. /\ self \in WorkerState /\ self.pos > 0 /\ GenJob \in Jobs
      /\ self.pc \in GeneratePC => self.job = GenJob
      /\ status \in ProposalStatus /\ sections \in [Keys -> SectionRow]
      /\ queue \in [Jobs -> Nat] /\ writes \in [Keys -> [Jobs -> Nat]]
  BY DEF TypeInv, TypeOK, WorkerShape, Jobs
<1>a. /\ self.pc \in {"insert", "claim", "write", "commit", "mark"} => ~PlanDone(w)
      /\ ~PlanDone(w) => /\ Key(w) \in Keys
                         /\ Row(w) \in SectionRow
                         /\ Order(w) \in Nat
                         /\ self.seen \in SectionRow
  BY <1>0, KeyType DEF TypeInv, WorkerShape
<1>1. CASE GenerateStart(w)
  <2>. DEFINE state == [Idle EXCEPT !.pc = "extract", !.job = GenJob]
  <2>1. state \in WorkerState /\ state.pc = "extract" /\ state.job = GenJob /\ state.pos = 1
    BY <1>0, IdleType DEF WorkerState, GeneratePC
  <2>2. queue' \in [Jobs -> Nat] /\ \A i \in RegenJobs : queue'[i] = queue[i]
    BY <1>0, <1>1, JobsAssumption DEF GenerateStart, Jobs
  <2>3. /\ Set(w, state) /\ self.pc = "idle" /\ status' \in ProposalStatus
        /\ UNCHANGED <<sections, writes, request, undispatched, lost, faults>>
    BY <1>1 DEF GenerateStart, ProposalStatus
  <2>4. /\ state.pos > 0
        /\ sections' \in [Keys -> SectionRow] /\ writes' \in [Keys -> [Jobs -> Nat]]
        /\ \A i \in RegenJobs, k \in Keys : writes'[k][i] = writes[k][i]
    BY <1>0, <2>1, <2>3
  <2>. HIDE DEF state
  <2>. QED
    BY <2>1, <2>2, <2>3, <2>4, GenerateMoves DEF GeneratePC
<1>2. CASE GenerateExtract(w)
  <2>1. PICK plan \in Plans : Set(w, [self EXCEPT !.pc = "find", !.plan = plan])
    BY <1>2 DEF GenerateExtract
  <2>. DEFINE state == [self EXCEPT !.pc = "find", !.plan = plan]
  <2>2. self.pc = "extract"
    BY <1>2 DEF GenerateExtract
  <2>3. state \in WorkerState /\ state.pc = "find" /\ state.job = GenJob /\ state.pos > 0
    BY <1>0, <2>2 DEF WorkerState, GeneratePC
  <2>4. /\ Set(w, state)
        /\ UNCHANGED <<status, sections, request, undispatched, queue, lost, faults, writes>>
    BY <1>2, <2>1 DEF GenerateExtract
  <2>. HIDE DEF state
  <2>. QED
    BY <1>0, <2>2, <2>3, <2>4, GenerateMoves DEF GeneratePC
<1>3. CASE GenerateFind(w)
  <2>1. /\ self.pc = "find" /\ ~PlanDone(w)
        /\ UNCHANGED <<status, sections, request, undispatched, queue, lost, faults, writes>>
    BY <1>3 DEF GenerateFind
  <2>2. CASE NextSection(w, TRUE, FALSE)
    BY <1>0, <2>1, <2>2, GenerateMovesOn DEF GeneratePC
  <2>3. CASE Set(w, [self EXCEPT !.pc = "insert"])
    <3>. DEFINE state == [self EXCEPT !.pc = "insert"]
    <3>1. /\ state \in WorkerState /\ state.pc = "insert" /\ state.job = GenJob
          /\ state.pos > 0 /\ ~(state.pos > Len(state.plan))
      BY <1>0, <2>1 DEF WorkerState, GeneratePC, PlanDone
    <3>2. Set(w, state)
      BY <2>3
    <3>. HIDE DEF state
    <3>. QED
      BY <1>0, <2>1, <3>1, <3>2, GenerateMoves DEF GeneratePC
  <2>4. CASE Set(w, [self EXCEPT !.pc = "claim", !.seen = Row(w)])
    <3>. DEFINE state == [self EXCEPT !.pc = "claim", !.seen = Row(w)]
    <3>1. /\ state \in WorkerState /\ state.pc = "claim" /\ state.job = GenJob
          /\ state.pos > 0 /\ ~(state.pos > Len(state.plan))
      BY <1>0, <1>a, <2>1 DEF WorkerState, GeneratePC, PlanDone
    <3>2. Set(w, state)
      BY <2>4
    <3>. HIDE DEF state
    <3>. QED
      BY <1>0, <2>1, <3>1, <3>2, GenerateMoves DEF GeneratePC
  <2>. QED
    BY <1>3, <2>2, <2>3, <2>4 DEF GenerateFind
<1>4. CASE GenerateInsert(w)
  <2>. DEFINE row == InsertedRow(Order(w))
              state == [self EXCEPT !.pc = "claim", !.seen = row]
  <2>1. /\ self.pc = "insert" /\ Set(w, state) /\ SetRow(Key(w), row)
        /\ UNCHANGED <<status, request, undispatched, queue, lost, faults, writes>>
    BY <1>4 DEF GenerateInsert
  <2>2. ~PlanDone(w) /\ Key(w) \in Keys /\ Order(w) \in Nat
    BY <1>a, <2>1
  <2>3. row \in SectionRow
    BY <2>2 DEF InsertedRow, AbsentRow, SectionRow, SectionStatus, Jobs
  <2>4. /\ state \in WorkerState /\ state.pc = "claim" /\ state.job = GenJob
        /\ state.pos > 0 /\ ~(state.pos > Len(state.plan))
    <3>. HIDE DEF row
    <3>. QED
      BY <1>0, <2>1, <2>2, <2>3 DEF WorkerState, GeneratePC, PlanDone
  <2>5. sections' \in [Keys -> SectionRow]
    BY <2>1, <2>2, <2>3, SetRowType DEF TypeInv
  <2>. HIDE DEF state, row
  <2>. QED
    BY <1>0, <2>1, <2>4, <2>5, GenerateMoves DEF GeneratePC
<1>5. CASE GenerateClaim(w)
  <2>. DEFINE row == ClaimedRow(Row(w), self.seen, Order(w))
              state == [self EXCEPT !.pc = "write"]
  <2>1. /\ self.pc = "claim" /\ Set(w, state) /\ SetRow(Key(w), row)
        /\ UNCHANGED <<status, request, undispatched, queue, lost, faults, writes>>
    BY <1>5 DEF GenerateClaim
  <2>2. ~PlanDone(w) /\ Key(w) \in Keys
    BY <1>a, <2>1
  <2>3. row \in SectionRow
    BY <1>a, <2>2 DEF ClaimedRow, Dirty, SectionRow, SectionStatus, Jobs
  <2>4. /\ state \in WorkerState /\ state.pc = "write" /\ state.job = GenJob
        /\ state.pos > 0 /\ ~(state.pos > Len(state.plan))
    BY <1>0, <2>1, <2>2 DEF WorkerState, GeneratePC, PlanDone
  <2>5. sections' \in [Keys -> SectionRow]
    BY <2>1, <2>2, <2>3, SetRowType DEF TypeInv
  <2>. HIDE DEF state, row
  <2>. QED
    BY <1>0, <2>1, <2>4, <2>5, GenerateMoves DEF GeneratePC
<1>6. CASE GenerateError(w)
  <2>. DEFINE state == [self EXCEPT !.pc = "abort"]
  <2>1. self.pc \in {"extract", "find", "insert", "claim", "mark"} /\ Set(w, state)
    BY <1>6 DEF GenerateError
  <2>2. state \in WorkerState /\ state.pc = "abort" /\ state.job = GenJob /\ state.pos > 0
    BY <1>0, <2>1 DEF WorkerState, GeneratePC
  <2>. HIDE DEF state
  <2>. QED
    BY <1>0, <1>6, <2>1, <2>2, GenerateMoves DEF GeneratePC, GenerateError
<1>7. CASE GenerateReread(w)
  <2>1. /\ self.pc = "write" /\ ~PlanDone(w)
        /\ UNCHANGED <<status, sections, request, undispatched, queue, lost, faults, writes>>
    BY <1>7, <1>a DEF GenerateReread
  <2>2. CASE NextSection(w, FALSE, FALSE)
    BY <1>0, <2>1, <2>2, GenerateMovesOn DEF GeneratePC
  <2>3. CASE Set(w, [self EXCEPT !.pc = "commit", !.seen = Row(w)])
    <3>. DEFINE state == [self EXCEPT !.pc = "commit", !.seen = Row(w)]
    <3>1. /\ state \in WorkerState /\ state.pc = "commit" /\ state.job = GenJob
          /\ state.pos > 0 /\ ~(state.pos > Len(state.plan))
      BY <1>0, <1>a, <2>1 DEF WorkerState, GeneratePC, PlanDone
    <3>2. Set(w, state)
      BY <2>3
    <3>. HIDE DEF state
    <3>. QED
      BY <1>0, <2>1, <3>1, <3>2, GenerateMoves DEF GeneratePC
  <2>. QED
    BY <1>7, <2>2, <2>3 DEF GenerateReread
<1>8. CASE GenerateCommit(w)
  <2>. DEFINE row == GeneratedRow(Row(w), self.seen)
  <2>1. /\ self.pc = "commit" /\ SetRow(Key(w), row) /\ CountWrite(Key(w), GenJob)
        /\ NextSection(w, TRUE, FALSE)
        /\ UNCHANGED <<status, request, undispatched, queue, lost, faults>>
    BY <1>8 DEF GenerateCommit
  <2>2. Key(w) \in Keys /\ Row(w) \in SectionRow /\ self.seen \in SectionRow
    BY <1>a, <2>1
  <2>3. row \in SectionRow
    <3>1. self.seen.version + 1 \in Nat
      BY <2>2 DEF SectionRow
    <3>. QED
      BY <2>2, <3>1 DEF GeneratedRow, Dirty, SectionRow, SectionStatus
  <2>. HIDE DEF row
  <2>4. sections' \in [Keys -> SectionRow]
    BY <2>1, <2>2, <2>3, SetRowType DEF TypeInv
  <2>5. /\ writes' \in [Keys -> [Jobs -> Nat]]
        /\ \A i \in RegenJobs, k \in Keys : writes'[k][i] = writes[k][i]
    BY <1>0, <2>1, <2>2, CountWriteType, JobsAssumption DEF TypeInv, Jobs
  <2>. QED
    BY <2>1, <2>4, <2>5, GenerateMovesOn DEF GeneratePC
<1>9. CASE GenerateSectionFails(w)
  <2>1. /\ self.pc \in {"write", "commit"} /\ ~PlanDone(w)
        /\ UNCHANGED <<status, sections, request, undispatched, queue, lost, faults, writes>>
    BY <1>9, <1>a DEF GenerateSectionFails
  <2>2. CASE NextSection(w, FALSE, TRUE)
    BY <1>0, <2>1, <2>2, GenerateMovesOn DEF GeneratePC
  <2>3. CASE Set(w, [self EXCEPT !.pc = "mark", !.seen = Row(w)])
    <3>. DEFINE state == [self EXCEPT !.pc = "mark", !.seen = Row(w)]
    <3>1. /\ state \in WorkerState /\ state.pc = "mark" /\ state.job = GenJob
          /\ state.pos > 0 /\ ~(state.pos > Len(state.plan))
      BY <1>0, <1>a, <2>1 DEF WorkerState, GeneratePC, PlanDone
    <3>2. Set(w, state)
      BY <2>3
    <3>. HIDE DEF state
    <3>. QED
      BY <1>0, <2>1, <3>1, <3>2, GenerateMoves DEF GeneratePC
  <2>. QED
    BY <1>9, <2>2, <2>3 DEF GenerateSectionFails
<1>10. CASE GenerateMarkFailed(w)
  <2>. DEFINE row == GenerationFailedRow(Row(w), self.seen)
  <2>1. /\ self.pc = "mark" /\ SetRow(Key(w), row) /\ NextSection(w, FALSE, TRUE)
        /\ UNCHANGED <<status, request, undispatched, queue, lost, faults, writes>>
    BY <1>10 DEF GenerateMarkFailed
  <2>2. Key(w) \in Keys /\ row \in SectionRow
    BY <1>a, <2>1 DEF GenerationFailedRow, Dirty, SectionRow, SectionStatus
  <2>. HIDE DEF row
  <2>3. sections' \in [Keys -> SectionRow]
    BY <2>1, <2>2, SetRowType DEF TypeInv
  <2>. QED
    BY <1>0, <2>1, <2>3, GenerateMovesOn DEF GeneratePC
<1>11. CASE GenerateFinish(w)
  BY <1>0, <1>11, IdleType, GenerateMoves
     DEF GenerateFinish, FinalStatus, ProposalStatus, TerminalStatus, GeneratePC
<1>12. CASE GenerateAbort(w)
  BY <1>0, <1>12, IdleType, GenerateMoves
     DEF GenerateAbort, ProposalStatus, TerminalStatus, GeneratePC
<1>. QED
  BY <1>1, <1>2, <1>3, <1>4, <1>5, <1>6, <1>7, <1>8, <1>9, <1>10, <1>11, <1>12
     DEF GenerateStep

(* A worker in a regeneration task moves to state and leaves the rest typed.*)
LEMMA RegenerateMoves ==
  ASSUME TypeInv, NEW w \in Workers, NEW r \in RegenJobs, Asked(r),
         NEW state \in WorkerState, Set(w, state), worker[w].job \in {r, NoJob},
         \/ state = Idle
         \/ state.pc \in RegeneratePC /\ state.job = r /\ state.pos > 0,
         sections' \in [Keys -> SectionRow],
         queue' \in [Jobs -> Nat],
         \A i \in RegenJobs \ {r} : queue'[i] = queue[i],
         writes' \in [Keys -> [Jobs -> Nat]],
         \A i \in RegenJobs \ {r}, k \in Keys : writes'[k][i] = writes[k][i],
         UNCHANGED <<status, request, undispatched, lost, faults>>
  PROVE  TypeInv'
<1>1. worker' \in [Workers -> WorkerState] /\ WorkerShape'
  <2>1. CASE state = Idle
    <3>1. Idle.pos > 0 /\ Idle.pc = "idle" /\ Idle.job = NoJob
      BY IdleType
    <3>. QED
      BY <2>1, <3>1, SetWorker DEF GeneratePC, RegeneratePC
  <2>2. CASE state.pc \in RegeneratePC /\ state.job = r /\ state.pos > 0
    BY <2>2, SetWorker DEF GeneratePC, RegeneratePC
  <2>. QED
    BY <2>1, <2>2
<1>2. r \in Jobs /\ state.job \in {r, NoJob}
  BY IdleType DEF Jobs
<1>3. UnaskedUnknown'
  BY <1>2, WorkerStillUnknown
<1>4. TypeOK'
  BY <1>1 DEF TypeInv, TypeOK
<1>. QED
  BY <1>1, <1>3, <1>4 DEF TypeInv

LEMMA RegenerateTypeStep ==
  ASSUME TypeInv, NEW w \in Workers, NEW r \in RegenJobs, RegenerateStep(w, r)
  PROVE  TypeInv'
<1>. DEFINE self == worker[w]
<1>0. /\ self \in WorkerState /\ self.pos > 0 /\ r \in Jobs
      /\ self.pc = "idle" => self.job = NoJob
      /\ sections \in [Keys -> SectionRow]
      /\ queue \in [Jobs -> Nat] /\ writes \in [Keys -> [Jobs -> Nat]]
  BY DEF TypeInv, TypeOK, WorkerShape, Jobs
<1>a. queue[r] > 0 \/ self.job = r => Asked(r)
  BY DEF TypeInv, UnaskedUnknown, InHand
<1>b. Asked(r) => request[r].key \in Keys /\ Target(r) \in SectionRow
  BY TargetType DEF TypeInv
<1>c. \A retry \in BOOLEAN : RetryOrStop(r, retry) =>
        queue' \in [Jobs -> Nat] /\ \A i \in RegenJobs \ {r} : queue'[i] = queue[i]
  BY <1>0, EnqueueType DEF RetryOrStop, TypeInv, Jobs
<1>1. CASE RegenerateStart(w, r)
  <2>1. /\ self.job \in {r, NoJob} /\ queue[r] > 0
        /\ queue' = [queue EXCEPT ![r] = @ - 1]
        /\ UNCHANGED <<status, sections, request, undispatched, lost, faults, writes>>
    BY <1>0, <1>1 DEF RegenerateStart
  <2>2. /\ queue' \in [Jobs -> Nat] /\ \A i \in RegenJobs \ {r} : queue'[i] = queue[i]
        /\ sections' \in [Keys -> SectionRow] /\ writes' \in [Keys -> [Jobs -> Nat]]
        /\ \A i \in RegenJobs \ {r}, k \in Keys : writes'[k][i] = writes[k][i]
    BY <1>0, <2>1 DEF Jobs
  <2>3. CASE Set(w, [Idle EXCEPT !.pc = "regenerate", !.job = r])
    <3>. DEFINE state == [Idle EXCEPT !.pc = "regenerate", !.job = r]
    <3>1. state \in WorkerState /\ state.pc = "regenerate" /\ state.job = r /\ state.pos = 1
      BY <1>0, IdleType DEF WorkerState, RegeneratePC
    <3>2. state.pos > 0 /\ Set(w, state)
      BY <2>3, <3>1
    <3>. HIDE DEF state
    <3>. QED
      BY <1>a, <2>1, <2>2, <3>1, <3>2, RegenerateMoves DEF RegeneratePC
  <2>4. CASE UNCHANGED worker
    <3>1. WorkerShape' /\ TypeOK'
      BY <2>1, <2>2, <2>4 DEF TypeInv, TypeOK, WorkerShape, PlanDone
    <3>2. UnaskedUnknown'
      BY <1>0, <1>a, <2>1, <2>2, <2>4, StillUnknown DEF TypeInv, InHand
    <3>. QED
      BY <3>1, <3>2 DEF TypeInv
  <2>. QED
    BY <1>1, <2>3, <2>4 DEF RegenerateStart
<1>2. CASE RegenerateCommit(w, r)
  <2>1. /\ self.job = r /\ Set(w, Idle)
        /\ UNCHANGED <<status, request, undispatched, queue, lost, faults>>
    BY <1>2 DEF RegenerateCommit
  <2>2. CASE UNCHANGED <<sections, writes>>
    BY <1>0, <1>a, <2>1, <2>2, IdleType, RegenerateMoves
  <2>3. CASE /\ SetRow(request[r].key, RegeneratedRow(Target(r)))
             /\ CountWrite(request[r].key, r)
    <3>1. request[r].key \in Keys /\ Target(r) \in SectionRow
      BY <1>a, <1>b, <2>1
    <3>2. sections' \in [Keys -> SectionRow]
      BY <2>3, <3>1, RowTypes, SetRowType DEF TypeInv
    <3>3. /\ writes' \in [Keys -> [Jobs -> Nat]]
          /\ \A i \in RegenJobs \ {r}, k \in Keys : writes'[k][i] = writes[k][i]
      BY <1>0, <2>3, <3>1, CountWriteType DEF TypeInv, Jobs
    <3>. QED
      BY <1>0, <1>a, <2>1, <3>2, <3>3, IdleType, RegenerateMoves
  <2>. QED
    BY <1>2, <2>2, <2>3 DEF RegenerateCommit
<1>3. ASSUME NEW retry \in BOOLEAN, RegenerateFails(w, r, retry)
      PROVE  TypeInv'
  <2>1. /\ self.job = r /\ self.pc = "regenerate"
        /\ UNCHANGED <<status, sections, request, undispatched, lost, faults, writes>>
    BY <1>3 DEF RegenerateFails
  <2>2. /\ sections' \in [Keys -> SectionRow] /\ writes' \in [Keys -> [Jobs -> Nat]]
        /\ \A i \in RegenJobs \ {r}, k \in Keys : writes'[k][i] = writes[k][i]
    BY <1>0, <2>1
  <2>3. CASE Set(w, Idle) /\ RetryOrStop(r, retry)
    BY <1>a, <1>c, <2>1, <2>2, <2>3, IdleType, RegenerateMoves
  <2>4. CASE /\ Set(w, [self EXCEPT !.pc = "regenMark", !.seen = Target(r), !.retry = retry])
             /\ UNCHANGED queue
    <3>. DEFINE state == [self EXCEPT !.pc = "regenMark", !.seen = Target(r), !.retry = retry]
    <3>1. /\ state \in WorkerState /\ state.pc = "regenMark" /\ state.job = r
          /\ state.pos > 0
      BY <1>0, <1>a, <1>b, <2>1 DEF WorkerState, RegeneratePC
    <3>2. Set(w, state) /\ queue' = queue
      BY <2>4
    <3>. HIDE DEF state
    <3>. QED
      BY <1>0, <1>a, <2>1, <2>2, <3>1, <3>2, RegenerateMoves DEF RegeneratePC
  <2>. QED
    BY <1>3, <2>3, <2>4 DEF RegenerateFails
<1>4. CASE RegenerateMarkFailed(w, r)
  <2>. DEFINE row == RegenerationFailedRow(Target(r), self.seen)
  <2>1. /\ self.job = r /\ Set(w, Idle) /\ SetRow(request[r].key, row)
        /\ RetryOrStop(r, self.retry)
        /\ UNCHANGED <<status, request, undispatched, lost, faults, writes>>
    BY <1>4 DEF RegenerateMarkFailed
  <2>2. /\ request[r].key \in Keys /\ Target(r) \in SectionRow
        /\ self.seen \in SectionRow /\ self.retry \in BOOLEAN
    BY <1>0, <1>a, <1>b, <2>1 DEF WorkerState
  <2>3. row \in SectionRow
    BY <2>2, RowTypes, <1>0
  <2>. HIDE DEF row
  <2>4. sections' \in [Keys -> SectionRow]
    BY <2>1, <2>2, <2>3, SetRowType DEF TypeInv
  <2>5. /\ writes' \in [Keys -> [Jobs -> Nat]]
        /\ \A i \in RegenJobs \ {r}, k \in Keys : writes'[k][i] = writes[k][i]
    BY <1>0, <2>1
  <2>. QED
    BY <1>a, <1>c, <2>1, <2>2, <2>4, <2>5, IdleType, RegenerateMoves
<1>. QED
  BY <1>1, <1>2, <1>3, <1>4 DEF RegenerateStep

LEMMA ApiTypeStep ==
  ASSUME TypeInv, ApiStep
  PROVE  TypeInv'
<1>0. /\ GenJob \in Jobs /\ GenJob \notin RegenJobs /\ RegenJobs \subseteq Jobs
      /\ sections \in [Keys -> SectionRow]
      /\ queue \in [Jobs -> Nat] /\ writes \in [Keys -> [Jobs -> Nat]]
      /\ request \in [RegenJobs -> [key : Keys \cup {NoKey}, base : Nat,
                                    edited : Nat, generated : Nat]]
  BY JobsAssumption DEF TypeInv, TypeOK, Jobs
<1>k. UNCHANGED worker => WorkerShape'
  BY DEF TypeInv, WorkerShape, PlanDone
<1>1. CASE CreateProposal
  <2>1. TypeOK'
    BY <1>0, <1>1 DEF CreateProposal, TypeInv, TypeOK, ProposalStatus
  <2>2. UnaskedUnknown'
    BY <1>0, <1>1, StillUnknown DEF CreateProposal, TypeInv, InHand
  <2>. QED
    BY <1>1, <1>k, <2>1, <2>2 DEF CreateProposal, TypeInv
<1>2. ASSUME NEW k \in Keys, NEW v \in 1 .. MaxVersion, EditSection(k, v)
      PROVE  TypeInv'
  <2>. DEFINE row == EditedRow(sections[k])
  <2>1. /\ SetRow(k, row)
        /\ UNCHANGED <<status, request, undispatched, queue, worker, lost, faults, writes>>
    BY <1>2 DEF EditSection
  <2>2. row.edited \in Nat /\ row \in SectionRow
    <3>1. sections[k].version + 1 \in Nat /\ sections[k].edited + 1 \in Nat
      BY <1>0 DEF SectionRow
    <3>. QED
      BY <1>0, <3>1 DEF EditedRow, SectionRow, SectionStatus
  <2>. HIDE DEF row
  <2>3. sections' \in [Keys -> SectionRow]
    BY <2>1, <2>2, SetRowType DEF TypeInv
  <2>4. TypeOK'
    BY <2>1, <2>3 DEF TypeInv, TypeOK
  <2>5. UnaskedUnknown'
    BY <1>0, <2>1, StillUnknown DEF TypeInv, InHand
  <2>. QED
    BY <1>k, <2>1, <2>4, <2>5 DEF TypeInv
<1>3. ASSUME NEW r \in RegenJobs, NEW k \in Keys, NEW v \in 1 .. MaxVersion,
             RequestRegeneration(r, k, v)
      PROVE  TypeInv'
  <2>. DEFINE row == RequestedRow(sections[k], r)
              new == [key |-> k, base |-> v, edited |-> sections[k].edited,
                      generated |-> writes[k][GenJob]]
  <2>1. /\ SetRow(k, row) /\ request' = [request EXCEPT ![r] = new]
        /\ undispatched' = undispatched \cup {r}
        /\ UNCHANGED <<status, queue, worker, lost, faults, writes>>
    BY <1>3 DEF RequestRegeneration
  <2>2. row \in SectionRow
    BY <1>0 DEF RequestedRow, SectionRow, SectionStatus
  <2>3. /\ new \in [key : Keys \cup {NoKey}, base : Nat, edited : Nat, generated : Nat]
        /\ new.key # NoKey
    <3>1. v \in Nat /\ sections[k].edited \in Nat /\ writes[k][GenJob] \in Nat
      BY <1>0, BoundsAssumption DEF SectionRow
    <3>. QED
      BY <3>1, BoundsAssumption
  <2>. HIDE DEF row, new
  <2>4. sections' \in [Keys -> SectionRow]
    BY <2>1, <2>2, SetRowType DEF TypeInv
  <2>5. TypeOK'
    BY <1>0, <2>1, <2>3, <2>4 DEF TypeInv, TypeOK
  <2>6. UnaskedUnknown'
    <3>1. \A i \in RegenJobs : i # r => request'[i] = request[i] /\ (InHand(i)' => InHand(i))
      BY <1>0, <2>1 DEF InHand
    <3>2. Asked(r)'
      BY <1>0, <2>1, <2>3 DEF Asked
    <3>. QED
      BY <2>1, <3>1, <3>2 DEF TypeInv, UnaskedUnknown, Asked
  <2>. QED
    BY <1>k, <2>1, <2>5, <2>6 DEF TypeInv
<1>4. ASSUME NEW j \in Jobs, Dispatch(j)
      PROVE  TypeInv'
  <2>1. /\ j \in undispatched /\ Enqueue(j) /\ undispatched' = undispatched \ {j}
        /\ UNCHANGED <<status, sections, request, worker, lost, faults, writes>>
    BY <1>4 DEF Dispatch
  <2>2. /\ queue' \in [Jobs -> Nat] /\ \A i \in Jobs \ {j} : queue'[i] = queue[i]
    BY <2>1, EnqueueType DEF TypeInv
  <2>3. TypeOK'
    BY <2>1, <2>2 DEF TypeInv, TypeOK
  <2>4. j \in RegenJobs => Asked(j)
    BY <2>1 DEF TypeInv, UnaskedUnknown, InHand
  <2>5. UnaskedUnknown'
    BY <1>0, <2>1, <2>2, <2>4, StillUnknown DEF TypeInv, InHand
  <2>. QED
    BY <1>k, <2>1, <2>3, <2>5 DEF TypeInv
<1>5. CASE GenerateDispatchFails
  <2>1. TypeOK'
    BY <1>0, <1>5 DEF GenerateDispatchFails, TypeInv, TypeOK
  <2>2. UnaskedUnknown'
    BY <1>0, <1>5, StillUnknown DEF GenerateDispatchFails, TypeInv, InHand
  <2>. QED
    BY <1>5, <1>k, <2>1, <2>2 DEF GenerateDispatchFails, TypeInv
<1>6. ASSUME NEW r \in RegenJobs, RegenerateDispatchFails(r)
      PROVE  TypeInv'
  <2>. DEFINE row == QueueUnavailableRow(Target(r))
  <2>1. /\ r \in undispatched /\ undispatched' = undispatched \ {r}
        /\ SetRow(request[r].key, row)
        /\ UNCHANGED <<status, request, queue, worker, lost, faults, writes>>
    BY <1>6 DEF RegenerateDispatchFails
  <2>2. Asked(r)
    BY <2>1 DEF TypeInv, UnaskedUnknown, InHand
  <2>3. request[r].key \in Keys /\ Target(r) \in SectionRow
    BY <2>2, TargetType DEF TypeInv
  <2>4. row \in SectionRow
    BY <2>3 DEF QueueUnavailableRow, SectionRow, SectionStatus
  <2>. HIDE DEF row
  <2>5. sections' \in [Keys -> SectionRow]
    BY <2>1, <2>3, <2>4, SetRowType DEF TypeInv
  <2>6. TypeOK'
    BY <2>1, <2>5 DEF TypeInv, TypeOK
  <2>7. UnaskedUnknown'
    BY <1>0, <2>1, <2>2, StillUnknown DEF TypeInv, InHand
  <2>. QED
    BY <1>k, <2>1, <2>6, <2>7 DEF TypeInv
<1>. QED
  BY <1>1, <1>2, <1>3, <1>4, <1>5, <1>6 DEF ApiStep

LEMMA FaultTypeStep ==
  ASSUME TypeInv, FaultStep
  PROVE  TypeInv'
<1>0. faults + 1 \in Nat /\ Idle \in WorkerState /\ Idle.pc = "idle" /\ Idle.job = NoJob
      /\ Idle.pos > 0
  BY IdleType DEF TypeInv, TypeOK
<1>1. ASSUME NEW w \in Workers, Set(w, Idle), worker[w].pc # "idle"
      PROVE  worker' \in [Workers -> WorkerState] /\ WorkerShape'
  BY <1>0, <1>1, SetWorker DEF GeneratePC, RegeneratePC
<1>2. ASSUME NEW w \in Workers, WorkerCrash(w)
      PROVE  TypeInv'
  <2>. DEFINE j == worker[w].job
  <2>1. /\ worker[w].pc # "idle" /\ Enqueue(j) /\ Set(w, Idle) /\ faults' = faults + 1
        /\ UNCHANGED <<status, sections, request, undispatched, lost, writes>>
    BY <1>2 DEF WorkerCrash, Fault
  <2>2. j \in Jobs /\ (j \in RegenJobs => Asked(j))
    BY <2>1, TaskJob
  <2>3. queue' \in [Jobs -> Nat] /\ \A i \in Jobs \ {j} : queue'[i] = queue[i]
    BY <2>1, <2>2, EnqueueType DEF TypeInv
  <2>4. TypeOK' /\ WorkerShape'
    BY <1>0, <1>1, <2>1, <2>3 DEF TypeInv, TypeOK
  <2>5. UnaskedUnknown'
    <3>. HIDE DEF j
    <3>1. Idle.job \in {j, NoJob} /\ worker[w].job \in {j, NoJob}
      BY <1>0 DEF j
    <3>2. \A i \in RegenJobs \ {j} : queue'[i] = queue[i]
      BY <2>3 DEF Jobs
    <3>. QED
      BY <2>1, <2>2, <3>1, <3>2, WorkerStillUnknown
  <2>. QED
    BY <2>4, <2>5 DEF TypeInv
<1>3. ASSUME NEW w \in Workers, Redelivery(w)
      PROVE  TypeInv'
  <2>. DEFINE j == worker[w].job
  <2>1. /\ worker[w].pc # "idle" /\ Enqueue(j) /\ faults' = faults + 1
        /\ UNCHANGED <<status, sections, request, undispatched, worker, lost, writes>>
    BY <1>3 DEF Redelivery, Fault
  <2>2. j \in Jobs /\ (j \in RegenJobs => Asked(j))
    BY <2>1, TaskJob
  <2>3. queue' \in [Jobs -> Nat] /\ \A i \in Jobs \ {j} : queue'[i] = queue[i]
    BY <2>1, <2>2, EnqueueType DEF TypeInv
  <2>. HIDE DEF j
  <2>4. TypeOK' /\ WorkerShape'
    BY <1>0, <2>1, <2>3 DEF TypeInv, TypeOK, WorkerShape, PlanDone
  <2>5. UnaskedUnknown'
    BY <2>1, <2>2, <2>3, StillUnknown DEF TypeInv, InHand, Jobs
  <2>. QED
    BY <2>4, <2>5 DEF TypeInv
<1>4. ASSUME NEW w \in Workers, HardTimeLimit(w)
      PROVE  TypeInv'
  <2>. DEFINE j == worker[w].job
  <2>1. /\ worker[w].pc # "idle" /\ Set(w, Idle) /\ faults' = faults + 1
        /\ lost' = lost \cup {j}
        /\ UNCHANGED <<status, sections, request, undispatched, queue, writes>>
    BY <1>4 DEF HardTimeLimit, Fault
  <2>2. j \in Jobs /\ (j \in RegenJobs => Asked(j))
    BY <2>1, TaskJob
  <2>4. TypeOK' /\ WorkerShape'
    BY <1>0, <1>1, <2>1, <2>2 DEF TypeInv, TypeOK
  <2>5. UnaskedUnknown'
    BY <1>0, <2>1, <2>2, WorkerStillUnknown
  <2>. QED
    BY <2>4, <2>5 DEF TypeInv
<1>5. ASSUME NEW j \in Jobs, ApiCrash(j)
      PROVE  TypeInv'
  <2>1. /\ j \in undispatched /\ undispatched' = undispatched \ {j} /\ lost' = lost \cup {j}
        /\ faults' = faults + 1
        /\ UNCHANGED <<status, sections, request, queue, worker, writes>>
    BY <1>5 DEF ApiCrash, Fault
  <2>2. TypeOK' /\ WorkerShape'
    BY <1>0, <2>1 DEF TypeInv, TypeOK, WorkerShape, PlanDone
  <2>3. UnaskedUnknown'
    BY <2>1 DEF TypeInv, UnaskedUnknown, InHand, Asked
  <2>. QED
    BY <2>2, <2>3 DEF TypeInv
<1>. QED
  BY <1>2, <1>3, <1>4, <1>5 DEF FaultStep

LEMMA TypeStep == TypeInv /\ [Next]_vars => TypeInv'
<1>. SUFFICES ASSUME TypeInv, [Next]_vars PROVE TypeInv'
  OBVIOUS
<1>1. CASE ApiStep
  BY <1>1, ApiTypeStep
<1>2. ASSUME NEW w \in Workers, WorkerStep(w)
      PROVE  TypeInv'
  BY <1>2, GenerateTypeStep, RegenerateTypeStep DEF WorkerStep
<1>3. CASE FaultStep
  BY <1>3, FaultTypeStep
<1>4. CASE UNCHANGED vars
  BY <1>4 DEF vars, TypeInv, TypeOK, WorkerShape, PlanDone, UnaskedUnknown, InHand, Asked
<1>. QED
  BY <1>1, <1>2, <1>3, <1>4 DEF Next

(* In every reachable state the proposal, its section rows, the requests,   *)
(* the broker and the workers have their types: in particular a section's   *)
(* status stays in the Enum of models.py and its job among the known jobs.  *)
THEOREM TypeCorrect == Spec => []TypeOK
<1>1. Spec => []TypeInv
  BY TypeInit, TypeStep, PTL DEF Spec
<1>2. TypeInv => TypeOK
  BY DEF TypeInv
<1>. QED
  BY <1>1, <1>2, PTL

-----------------------------------------------------------------------------
(* What a step does to the rows: at most one changes, and it changes in one *)
(* of four ways.                                                            *)

Update(k, row) == SetRow(k, row) /\ row \in SectionRow /\ Present(row)

RegenWritesKept == \A k \in Keys, r \in RegenJobs : writes'[k][r] = writes[k][r]

(* The generate task, a failure or the broker: the section keeps its owner, *)
(* or is taken over by the generate job, or loses it to a request that      *)
(* failed.                                                                  *)
QuietStep ==
  /\ UNCHANGED request
  /\ RegenWritesKept
  /\ \A k \in Keys : writes'[k][GenJob] >= writes[k][GenJob]
  /\ \/ UNCHANGED sections
     \/ \E k \in Keys, row \in SectionRow :
          /\ Update(k, row)
          /\ row.job \in {sections[k].job, GenJob, NoJob}
          /\ row.job = NoJob => \/ Present(sections[k]) /\ sections[k].job = NoJob
                                \/ \E r \in RegenJobs : request[r].key = k
          /\ row.edited = sections[k].edited

UserStep ==
  /\ UNCHANGED <<request, writes>>
  /\ \E k \in Keys, row \in SectionRow :
       Update(k, row) /\ row.job = NoJob /\ row.edited = sections[k].edited + 1

AskStep ==
  /\ UNCHANGED writes
  /\ \E k \in Keys, r \in RegenJobs, row \in SectionRow, base \in Nat :
       /\ ~Asked(r)
       /\ Update(k, row) /\ row.job = r /\ row.edited = sections[k].edited
       /\ request' = [request EXCEPT ![r] = [key |-> k, base |-> base,
                                             edited |-> sections[k].edited,
                                             generated |-> writes[k][GenJob]]]

PublishStep ==
  /\ UNCHANGED request
  /\ \E k \in Keys, r \in RegenJobs, row \in SectionRow :
       /\ request[r].key = k /\ sections[k].job = r
       /\ Update(k, row) /\ row.job = NoJob /\ row.edited = sections[k].edited
       /\ CountWrite(k, r)

StepKind == QuietStep \/ UserStep \/ AskStep \/ PublishStep

LEMMA RowsWritten ==
  ASSUME NEW row \in SectionRow, Present(row), NEW seen \in SectionRow,
         NEW r \in RegenJobs, NEW order \in Nat
  PROVE  /\ Present(EditedRow(row))
         /\ Present(RequestedRow(row, r))
         /\ Present(RegeneratedRow(row))
         /\ Present(ClaimedRow(row, seen, order))
         /\ Present(GeneratedRow(row, seen))
         /\ Present(GenerationFailedRow(row, seen))
         /\ Present(RegenerationFailedRow(row, seen))
         /\ Present(QueueUnavailableRow(row))
BY DEF SectionRow, Present, EditedRow, RequestedRow, RegeneratedRow, ClaimedRow,
       GeneratedRow, GenerationFailedRow, RegenerationFailedRow, QueueUnavailableRow,
       Dirty

LEMMA GenerateKind ==
  ASSUME TypeInv, RowsStay, NEW w \in Workers, GenerateStep(w)
  PROVE  QuietStep
<1>0. /\ writes \in [Keys -> [Jobs -> Nat]] /\ GenJob \in Jobs /\ RegenJobs \subseteq Jobs
      /\ GenJob \notin RegenJobs /\ GenJob # NoJob
      /\ sections \in [Keys -> SectionRow]
  BY JobsAssumption DEF TypeInv, TypeOK, Jobs
<1>w. UNCHANGED writes => /\ RegenWritesKept
                          /\ \A k \in Keys : writes'[k][GenJob] >= writes[k][GenJob]
  BY <1>0 DEF RegenWritesKept
<1>a. worker[w].pc \in {"insert", "claim", "write", "commit", "mark"} =>
        /\ Key(w) \in Keys /\ Row(w) \in SectionRow /\ Row(w) = sections[Key(w)]
        /\ Order(w) \in Nat /\ worker[w].seen \in SectionRow
  BY KeyType DEF TypeInv, WorkerShape, Row
<1>b. worker[w].pc \in {"claim", "write", "commit", "mark"} => Present(Row(w))
  BY DEF RowsStay
<1>1. CASE GenerateInsert(w)
  <2>. DEFINE row == InsertedRow(Order(w))
  <2>1. /\ worker[w].pc = "insert" /\ ~Present(Row(w)) /\ SetRow(Key(w), row)
        /\ UNCHANGED <<request, writes>>
    BY <1>1 DEF GenerateInsert
  <2>2. Row(w) = AbsentRow
    BY <1>a, <2>1 DEF RowsStay
  <2>3. /\ row \in SectionRow /\ Present(row) /\ row.job = GenJob
        /\ row.edited = Row(w).edited
    BY <1>a, <2>1, <2>2
       DEF InsertedRow, AbsentRow, SectionRow, SectionStatus, Jobs, Present
  <2>. HIDE DEF row
  <2>. QED
    BY <1>0, <1>a, <1>b, <1>w, <2>1, <2>3 DEF QuietStep, Update
<1>2. CASE GenerateClaim(w)
  <2>. DEFINE row == ClaimedRow(Row(w), worker[w].seen, Order(w))
  <2>1. /\ worker[w].pc = "claim" /\ SetRow(Key(w), row) /\ UNCHANGED <<request, writes>>
    BY <1>2 DEF GenerateClaim
  <2>2. /\ row \in SectionRow /\ Present(row) /\ row.job \in {Row(w).job, GenJob}
        /\ row.edited = Row(w).edited
    BY <1>a, <1>b, <2>1
       DEF ClaimedRow, Dirty, SectionRow, SectionStatus, Jobs, Present
  <2>. HIDE DEF row
  <2>. QED
    BY <1>0, <1>a, <1>b, <1>w, <2>1, <2>2 DEF QuietStep, Update
<1>3. CASE GenerateCommit(w)
  <2>. DEFINE row == GeneratedRow(Row(w), worker[w].seen)
  <2>1. /\ worker[w].pc = "commit" /\ SetRow(Key(w), row) /\ CountWrite(Key(w), GenJob)
        /\ UNCHANGED request
    BY <1>3 DEF GenerateCommit
  <2>2. worker[w].seen.version + 1 \in Nat
    BY <1>a, <2>1 DEF SectionRow
  <2>3. /\ row \in SectionRow /\ Present(row) /\ row.job = Row(w).job
        /\ row.edited = Row(w).edited
    BY <1>a, <1>b, <2>1, <2>2 DEF GeneratedRow, Dirty, SectionRow, SectionStatus, Present
  <2>. HIDE DEF row
  <2>4. \A l \in Keys, i \in Jobs :
          writes'[l][i] = IF l = Key(w) /\ i = GenJob THEN writes[l][i] + 1 ELSE writes[l][i]
    BY <1>0, <1>a, <2>1, CountWriteType DEF TypeInv
  <2>5. /\ RegenWritesKept
        /\ \A k \in Keys : writes'[k][GenJob] >= writes[k][GenJob]
    BY <1>0, <2>4 DEF RegenWritesKept
  <2>. QED
    BY <1>0, <1>a, <1>b, <2>1, <2>3, <2>5 DEF QuietStep, Update
<1>4. CASE GenerateMarkFailed(w)
  <2>. DEFINE row == GenerationFailedRow(Row(w), worker[w].seen)
  <2>1. /\ worker[w].pc = "mark" /\ SetRow(Key(w), row) /\ UNCHANGED <<request, writes>>
    BY <1>4 DEF GenerateMarkFailed
  <2>2. /\ row \in SectionRow /\ Present(row) /\ row.job = Row(w).job
        /\ row.edited = Row(w).edited
    BY <1>a, <1>b, <2>1
       DEF GenerationFailedRow, Dirty, SectionRow, SectionStatus, Present
  <2>. HIDE DEF row
  <2>. QED
    BY <1>0, <1>a, <1>b, <1>w, <2>1, <2>2 DEF QuietStep, Update
<1>5. CASE \/ GenerateStart(w) \/ GenerateExtract(w) \/ GenerateFind(w) \/ GenerateError(w)
           \/ GenerateReread(w) \/ GenerateSectionFails(w) \/ GenerateFinish(w)
           \/ GenerateAbort(w)
  <2>1. UNCHANGED <<sections, request, writes>>
    BY <1>5 DEF GenerateStart, GenerateExtract, GenerateFind, GenerateError, GenerateReread,
                GenerateSectionFails, GenerateFinish, GenerateAbort
  <2>. QED
    BY <1>w, <2>1 DEF QuietStep
<1>. QED
  BY <1>1, <1>2, <1>3, <1>4, <1>5 DEF GenerateStep

LEMMA RegenerateKind ==
  ASSUME TypeInv, RowsStay, NEW w \in Workers, NEW r \in RegenJobs, RegenerateStep(w, r)
  PROVE  QuietStep \/ PublishStep
<1>0. /\ writes \in [Keys -> [Jobs -> Nat]] /\ GenJob \in Jobs
      /\ worker[w] \in WorkerState
  BY DEF TypeInv, TypeOK, Jobs
<1>w. UNCHANGED writes => /\ RegenWritesKept
                          /\ \A k \in Keys : writes'[k][GenJob] >= writes[k][GenJob]
  BY <1>0 DEF RegenWritesKept
<1>a. worker[w].job = r =>
        /\ request[r].key \in Keys /\ Target(r) \in SectionRow
        /\ Target(r) = sections[request[r].key] /\ Present(Target(r))
  BY TargetType DEF TypeInv, UnaskedUnknown, InHand, RowsStay
<1>1. CASE RegenerateCommit(w, r)
  <2>1. /\ worker[w].job = r /\ UNCHANGED request
        /\ \/ /\ LiveRequest(r)
              /\ SetRow(request[r].key, RegeneratedRow(Target(r)))
              /\ CountWrite(request[r].key, r)
           \/ UNCHANGED <<sections, writes>>
    BY <1>1 DEF RegenerateCommit
  <2>2. CASE UNCHANGED <<sections, writes>>
    BY <1>w, <2>1, <2>2 DEF QuietStep
  <2>3. CASE /\ LiveRequest(r)
             /\ SetRow(request[r].key, RegeneratedRow(Target(r)))
             /\ CountWrite(request[r].key, r)
    <3>. DEFINE row == RegeneratedRow(Target(r))
    <3>1. Target(r).version + 1 \in Nat
      BY <1>a, <2>1 DEF SectionRow
    <3>2. /\ row \in SectionRow /\ Present(row) /\ row.job = NoJob
          /\ row.edited = Target(r).edited
      BY <1>a, <2>1, <3>1 DEF RegeneratedRow, SectionRow, SectionStatus, Present
    <3>3. Target(r).job = r
      BY <2>3 DEF LiveRequest, RegenOwns
    <3>4. SetRow(request[r].key, row) /\ CountWrite(request[r].key, r)
      BY <2>3
    <3>. HIDE DEF row
    <3>. QED
      BY <1>a, <2>1, <3>2, <3>3, <3>4 DEF PublishStep, Update
  <2>. QED
    BY <2>1, <2>2, <2>3
<1>2. CASE RegenerateMarkFailed(w, r)
  <2>. DEFINE row == RegenerationFailedRow(Target(r), worker[w].seen)
  <2>1. /\ worker[w].job = r /\ SetRow(request[r].key, row) /\ UNCHANGED <<request, writes>>
    BY <1>2 DEF RegenerateMarkFailed
  <2>2. worker[w].seen \in SectionRow
    BY <1>0 DEF WorkerState
  <2>3. /\ row \in SectionRow /\ Present(row) /\ row.job = NoJob
        /\ row.edited = Target(r).edited
    BY <1>a, <2>1, <2>2 DEF RegenerationFailedRow, Dirty, SectionRow, SectionStatus, Present
  <2>. HIDE DEF row
  <2>. QED
    BY <1>a, <1>w, <2>1, <2>3 DEF QuietStep, Update
<1>3. CASE RegenerateStart(w, r) \/ \E retry \in BOOLEAN : RegenerateFails(w, r, retry)
  BY <1>w, <1>3 DEF RegenerateStart, RegenerateFails, QuietStep
<1>. QED
  BY <1>1, <1>2, <1>3 DEF RegenerateStep

LEMMA ApiKind ==
  ASSUME TypeInv, RowsStay, ApiStep
  PROVE  QuietStep \/ UserStep \/ AskStep
<1>0. /\ writes \in [Keys -> [Jobs -> Nat]] /\ GenJob \in Jobs
      /\ sections \in [Keys -> SectionRow]
  BY DEF TypeInv, TypeOK, Jobs
<1>w. UNCHANGED writes => /\ RegenWritesKept
                          /\ \A k \in Keys : writes'[k][GenJob] >= writes[k][GenJob]
  BY <1>0 DEF RegenWritesKept
<1>1. ASSUME NEW k \in Keys, NEW v \in 1 .. MaxVersion, EditSection(k, v)
      PROVE  UserStep
  <2>. DEFINE row == EditedRow(sections[k])
  <2>1. SetRow(k, row) /\ Present(sections[k]) /\ UNCHANGED <<request, writes>>
    BY <1>1 DEF EditSection, VersionMatches
  <2>2. sections[k].version + 1 \in Nat /\ sections[k].edited + 1 \in Nat
    BY <1>0 DEF SectionRow
  <2>3. /\ row \in SectionRow /\ Present(row) /\ row.job = NoJob
        /\ row.edited = sections[k].edited + 1
    BY <1>0, <2>1, <2>2 DEF EditedRow, SectionRow, SectionStatus, Present
  <2>. HIDE DEF row
  <2>. QED
    BY <2>1, <2>3 DEF UserStep, Update
<1>2. ASSUME NEW r \in RegenJobs, NEW k \in Keys, NEW v \in 1 .. MaxVersion,
             RequestRegeneration(r, k, v)
      PROVE  AskStep
  <2>. DEFINE row == RequestedRow(sections[k], r)
  <2>1. /\ ~Asked(r) /\ SetRow(k, row) /\ Present(sections[k]) /\ UNCHANGED writes
        /\ request' = [request EXCEPT ![r] = [key |-> k, base |-> v,
                                              edited |-> sections[k].edited,
                                              generated |-> writes[k][GenJob]]]
    BY <1>2 DEF RequestRegeneration, VersionMatches
  <2>2. /\ row \in SectionRow /\ Present(row) /\ row.job = r
        /\ row.edited = sections[k].edited
    BY <1>0, <2>1 DEF RequestedRow, SectionRow, SectionStatus, Present, Jobs
  <2>3. v \in Nat
    BY BoundsAssumption
  <2>. HIDE DEF row
  <2>. QED
    BY <2>1, <2>2, <2>3 DEF AskStep, Update
<1>3. ASSUME NEW r \in RegenJobs, RegenerateDispatchFails(r)
      PROVE  QuietStep
  <2>. DEFINE row == QueueUnavailableRow(Target(r))
  <2>1. /\ r \in undispatched /\ SetRow(request[r].key, row)
        /\ UNCHANGED <<request, writes>>
    BY <1>3 DEF RegenerateDispatchFails
  <2>2. /\ request[r].key \in Keys /\ Target(r) \in SectionRow
        /\ Target(r) = sections[request[r].key] /\ Present(Target(r))
    BY <2>1, TargetType DEF TypeInv, UnaskedUnknown, InHand, RowsStay
  <2>3. /\ row \in SectionRow /\ Present(row) /\ row.job = NoJob
        /\ row.edited = Target(r).edited
    BY <2>2 DEF QueueUnavailableRow, SectionRow, SectionStatus, Present
  <2>. HIDE DEF row
  <2>. QED
    BY <1>w, <2>1, <2>2, <2>3 DEF QuietStep, Update
<1>4. CASE CreateProposal \/ (\E j \in Jobs : Dispatch(j)) \/ GenerateDispatchFails
  BY <1>w, <1>4 DEF CreateProposal, Dispatch, GenerateDispatchFails, QuietStep
<1>. QED
  BY <1>1, <1>2, <1>3, <1>4 DEF ApiStep

LEMMA EveryKind ==
  ASSUME TypeInv, RowsStay, [Next]_vars
  PROVE  StepKind
<1>w. ASSUME UNCHANGED <<sections, request, writes>>
      PROVE  QuietStep
  BY <1>w DEF TypeInv, TypeOK, Jobs, QuietStep, RegenWritesKept
<1>1. CASE ApiStep
  BY <1>1, ApiKind DEF StepKind
<1>2. ASSUME NEW w \in Workers, WorkerStep(w)
      PROVE  StepKind
  BY <1>2, GenerateKind, RegenerateKind DEF WorkerStep, StepKind
<1>3. CASE FaultStep
  BY <1>w, <1>3 DEF FaultStep, WorkerCrash, Redelivery, HardTimeLimit, ApiCrash, StepKind
<1>4. CASE UNCHANGED vars
  BY <1>w, <1>4 DEF vars, StepKind
<1>. QED
  BY <1>1, <1>2, <1>3, <1>4 DEF Next

-----------------------------------------------------------------------------
(* Rows stay.                                                               *)

RowPC == {"claim", "write", "commit", "mark"}

(* A step leaves a worker at work on a row only on the row it was already   *)
(* at work on, or on one it has just found or inserted.                     *)
HasRow(w) ==
  worker[w].pc \in RowPC =>
    Key(w) \in Keys /\ Present(sections[Key(w)])

LEMMA KindGrows ==
  ASSUME TypeInv, StepKind
  PROVE  \A k \in Keys : sections'[k] = sections[k] \/ Present(sections'[k])
BY DEF TypeInv, TypeOK, StepKind, QuietStep, UserStep, AskStep, PublishStep, Update, SetRow

(* The program counter a worker is given is the one it has.                 *)
LEMMA SetPC ==
  ASSUME TypeInv, NEW w \in Workers, NEW plan, NEW pc, NEW j
  PROVE  /\ Set(w, Idle) => worker'[w].pc = "idle"
         /\ Set(w, [Idle EXCEPT !.pc = pc, !.job = j]) => worker'[w].pc = pc
         /\ Set(w, [worker[w] EXCEPT !.pc = pc]) => worker'[w].pc = pc
         /\ Set(w, [worker[w] EXCEPT !.pc = pc, !.plan = plan]) => worker'[w].pc = pc
         /\ \A state : Set(w, state) => \A v \in Workers \ {w} : worker'[v] = worker[v]
<1>1. worker \in [Workers -> WorkerState] /\ worker[w] \in WorkerState
  BY DEF TypeInv, TypeOK
<1>2. \A state : Set(w, state) =>
        worker'[w] = state /\ \A v \in Workers \ {w} : worker'[v] = worker[v]
  BY <1>1 DEF Set
<1>3. Idle \in WorkerState /\ Idle.pc = "idle"
  BY IdleType
<1>4. /\ [Idle EXCEPT !.pc = pc, !.job = j].pc = pc
      /\ [worker[w] EXCEPT !.pc = pc].pc = pc
      /\ [worker[w] EXCEPT !.pc = pc, !.plan = plan].pc = pc
  BY <1>1, <1>3 DEF WorkerState
<1>. QED
  BY <1>2, <1>3, <1>4

LEMMA GenerateHasRow ==
  ASSUME TypeInv, RowsStay, NEW w \in Workers, GenerateStep(w),
         \A k \in Keys : Present(sections[k]) => Present(sections'[k])
  PROVE  \A v \in Workers : HasRow(v)'
<1>0. /\ worker \in [Workers -> WorkerState] /\ sections \in [Keys -> SectionRow]
  BY DEF TypeInv, TypeOK
<1>k. \A v \in Workers : ~PlanDone(v) => Key(v) \in Keys
  BY KeyType DEF TypeInv, WorkerShape
<1>h. \A v \in Workers : HasRow(v)
  BY <1>k DEF TypeInv, WorkerShape, RowsStay, HasRow, RowPC, Row
<1>s. ASSUME NEW state \in WorkerState, Set(w, state),
             state.pc \in RowPC => /\ state.plan = worker[w].plan /\ state.pos = worker[w].pos
                                   /\ Key(w) \in Keys /\ Present(sections'[Key(w)])
      PROVE  \A v \in Workers : HasRow(v)'
  <2>1. \A v \in Workers : worker'[v] = IF v = w THEN state ELSE worker[v]
    BY <1>0, <1>s DEF Set
  <2>2. HasRow(w)'
    BY <1>s, <2>1 DEF HasRow, Key
  <2>3. \A v \in Workers \ {w} : HasRow(v)'
    BY <1>h, <2>1 DEF HasRow, Key
  <2>. QED
    BY <2>2, <2>3
<1>n. ASSUME NEW done \in BOOLEAN, NEW failed \in BOOLEAN, NextSection(w, done, failed)
      PROVE  \A v \in Workers : HasRow(v)'
  <2>1. \A v \in Workers \ {w} : worker'[v] = worker[v]
    BY <1>0, <1>n DEF NextSection, Set
  <2>2. worker'[w].pc = "find"
    BY <1>0, <1>n DEF NextSection, Set, WorkerState
  <2>. QED
    BY <1>h, <2>1, <2>2 DEF HasRow, Key, RowPC
<1>1. CASE GenerateStart(w) \/ GenerateExtract(w) \/ GenerateError(w)
           \/ GenerateFinish(w) \/ GenerateAbort(w)
  <2>1. \A v \in Workers \ {w} : worker'[v] = worker[v]
    BY <1>0, <1>1 DEF GenerateStart, GenerateExtract, GenerateError, GenerateFinish,
                      GenerateAbort, Set
  <2>2. worker'[w].pc \in {"extract", "find", "abort", "idle"}
    BY <1>1, SetPC DEF GenerateStart, GenerateExtract, GenerateError, GenerateFinish,
                       GenerateAbort
  <2>. QED
    BY <1>h, <2>1, <2>2 DEF HasRow, Key, RowPC
<1>2. CASE GenerateFind(w)
  <2>1. CASE NextSection(w, TRUE, FALSE)
    BY <1>n, <2>1
  <2>2. CASE Set(w, [worker[w] EXCEPT !.pc = "insert"])
    <3>1. \A v \in Workers \ {w} : worker'[v] = worker[v]
      BY <1>0, <2>2 DEF Set
    <3>2. worker'[w].pc = "insert"
      BY <1>0, <2>2 DEF Set, WorkerState
    <3>. QED
      BY <1>h, <3>1, <3>2 DEF HasRow, Key, RowPC
  <2>3. CASE /\ ~PlanDone(w) /\ Present(Row(w))
             /\ Set(w, [worker[w] EXCEPT !.pc = "claim", !.seen = Row(w)])
    <3>. DEFINE state == [worker[w] EXCEPT !.pc = "claim", !.seen = Row(w)]
    <3>1. Key(w) \in Keys /\ Row(w) \in SectionRow /\ Present(sections[Key(w)])
      BY <1>0, <1>k, <2>3 DEF Row
    <3>2. state \in WorkerState /\ state.plan = worker[w].plan /\ state.pos = worker[w].pos
      BY <1>0, <3>1 DEF WorkerState, GeneratePC
    <3>3. Set(w, state) /\ Present(sections'[Key(w)])
      BY <2>3, <3>1
    <3>. HIDE DEF state
    <3>. QED
      BY <1>s, <3>1, <3>2, <3>3
  <2>. QED
    BY <1>2, <2>1, <2>2, <2>3 DEF GenerateFind
<1>3. CASE GenerateInsert(w)
  <2>. DEFINE row == InsertedRow(Order(w))
              state == [worker[w] EXCEPT !.pc = "claim", !.seen = row]
  <2>1. worker[w].pc = "insert" /\ SetRow(Key(w), row) /\ Set(w, state)
    BY <1>3 DEF GenerateInsert
  <2>2. Key(w) \in Keys /\ Order(w) \in Nat
    BY <2>1, KeyType DEF TypeInv, WorkerShape
  <2>3. row \in SectionRow /\ Present(row)
    BY <2>2 DEF InsertedRow, AbsentRow, SectionRow, SectionStatus, Jobs, Present
  <2>. HIDE DEF row
  <2>4. state \in WorkerState /\ state.plan = worker[w].plan /\ state.pos = worker[w].pos
    BY <1>0, <2>3 DEF WorkerState, GeneratePC
  <2>5. Present(sections'[Key(w)])
    BY <1>0, <2>1, <2>2, <2>3 DEF SetRow
  <2>. HIDE DEF state
  <2>. QED
    BY <1>s, <2>1, <2>2, <2>4, <2>5
<1>4. CASE GenerateClaim(w)
  <2>. DEFINE state == [worker[w] EXCEPT !.pc = "write"]
  <2>1. worker[w].pc = "claim" /\ Set(w, state)
    BY <1>4 DEF GenerateClaim
  <2>2. Key(w) \in Keys /\ Present(sections'[Key(w)])
    BY <1>h, <2>1 DEF HasRow, RowPC
  <2>3. state \in WorkerState /\ state.plan = worker[w].plan /\ state.pos = worker[w].pos
    BY <1>0 DEF WorkerState, GeneratePC
  <2>. HIDE DEF state
  <2>. QED
    BY <1>s, <2>1, <2>2, <2>3
<1>5. CASE GenerateReread(w) \/ GenerateSectionFails(w)
  <2>1. /\ worker[w].pc \in {"write", "commit"}
        /\ \/ \E failed \in BOOLEAN : NextSection(w, FALSE, failed)
           \/ \E pc \in {"commit", "mark"} :
                Set(w, [worker[w] EXCEPT !.pc = pc, !.seen = Row(w)])
    BY <1>5 DEF GenerateReread, GenerateSectionFails
  <2>2. ASSUME NEW pc \in {"commit", "mark"},
               Set(w, [worker[w] EXCEPT !.pc = pc, !.seen = Row(w)])
        PROVE  \A v \in Workers : HasRow(v)'
    <3>. DEFINE state == [worker[w] EXCEPT !.pc = pc, !.seen = Row(w)]
    <3>1. Key(w) \in Keys /\ Row(w) \in SectionRow /\ Present(sections'[Key(w)])
      BY <1>0, <1>h, <2>1 DEF HasRow, RowPC, Row
    <3>2. state \in WorkerState /\ state.plan = worker[w].plan /\ state.pos = worker[w].pos
      BY <1>0, <3>1 DEF WorkerState, GeneratePC
    <3>3. Set(w, state)
      BY <2>2
    <3>. HIDE DEF state
    <3>. QED
      BY <1>s, <3>1, <3>2, <3>3
  <2>. QED
    BY <1>n, <2>1, <2>2
<1>6. CASE GenerateCommit(w) \/ GenerateMarkFailed(w)
  BY <1>n, <1>6 DEF GenerateCommit, GenerateMarkFailed
<1>. QED
  BY <1>1, <1>2, <1>3, <1>4, <1>5, <1>6 DEF GenerateStep

LEMMA RowsStayStep ==
  ASSUME TypeInv, RowsStay, [Next]_vars
  PROVE  RowsStay'
<1>0. /\ worker \in [Workers -> WorkerState] /\ sections \in [Keys -> SectionRow]
      /\ request \in [RegenJobs -> [key : Keys \cup {NoKey}, base : Nat,
                                    edited : Nat, generated : Nat]]
  BY DEF TypeInv, TypeOK
<1>1. StepKind
  BY EveryKind
<1>2. \A k \in Keys : sections'[k] = sections[k] \/ Present(sections'[k])
  BY <1>1, KindGrows
<1>3. \A k \in Keys : Present(sections[k]) => Present(sections'[k])
  BY <1>2
<1>4. \A k \in Keys : Present(sections'[k]) \/ sections'[k] = AbsentRow
  BY <1>2 DEF RowsStay
<1>5. \A r \in RegenJobs : Asked(r)' => Present(Target(r))'
  <2>1. CASE UNCHANGED request
    BY <1>0, <1>3, <2>1 DEF RowsStay, Asked, Target
  <2>2. CASE AskStep
    <3>1. PICK k \in Keys, r \in RegenJobs, row \in SectionRow, base \in Nat :
            /\ SetRow(k, row) /\ Present(row)
            /\ request' = [request EXCEPT ![r] = [key |-> k, base |-> base,
                                                  edited |-> sections[k].edited,
                                                  generated |-> writes[k][GenJob]]]
      BY <2>2 DEF AskStep, Update
    <3>2. Target(r)' = row
      BY <1>0, <3>1 DEF Target, SetRow
    <3>3. \A i \in RegenJobs \ {r} : request'[i] = request[i]
      BY <1>0, <3>1
    <3>4. \A i \in RegenJobs \ {r} : Asked(i)' => Present(Target(i))'
      BY <1>0, <1>3, <3>3 DEF RowsStay, Asked, Target
    <3>. QED
      BY <3>1, <3>2, <3>4
  <2>. QED
    BY <1>1, <2>1, <2>2 DEF StepKind, QuietStep, UserStep, PublishStep
<1>6. \A w \in Workers : HasRow(w)'
  <2>h. \A v \in Workers : HasRow(v)
    BY KeyType DEF TypeInv, WorkerShape, RowsStay, HasRow, RowPC, Row
  <2>1. ASSUME NEW w \in Workers, GenerateStep(w)
        PROVE  \A v \in Workers : HasRow(v)'
    BY <1>3, <2>1, GenerateHasRow
  <2>2. ASSUME \A v \in Workers : worker'[v] = worker[v] \/ worker'[v].pc \notin RowPC
        PROVE  \A v \in Workers : HasRow(v)'
    BY <1>3, <2>h, <2>2 DEF HasRow, Key
  <2>3. ASSUME NEW w \in Workers, NEW r \in RegenJobs, RegenerateStep(w, r)
        PROVE  \A v \in Workers : worker'[v] = worker[v] \/ worker'[v].pc \notin RowPC
    <3>1. \A v \in Workers \ {w} : worker'[v] = worker[v]
      BY <1>0, <2>3 DEF RegenerateStep, RegenerateStart, RegenerateCommit, RegenerateFails,
                        RegenerateMarkFailed, Set
    <3>2. worker'[w] = worker[w] \/ worker'[w].pc \in {"idle", "regenerate", "regenMark"}
      <4>1. RegenerateStart(w, r) => worker'[w] = worker[w] \/ worker'[w].pc = "regenerate"
        BY SetPC DEF RegenerateStart
      <4>2. RegenerateCommit(w, r) \/ RegenerateMarkFailed(w, r) => worker'[w].pc = "idle"
        BY SetPC DEF RegenerateCommit, RegenerateMarkFailed
      <4>3. ASSUME NEW retry \in BOOLEAN, RegenerateFails(w, r, retry)
            PROVE  worker'[w].pc \in {"idle", "regenMark"}
        <5>1. \/ Set(w, Idle)
              \/ Set(w, [worker[w] EXCEPT !.pc = "regenMark", !.seen = Target(r),
                                          !.retry = retry])
          BY <4>3 DEF RegenerateFails
        <5>2. CASE Set(w, Idle)
          BY <5>2, SetPC
        <5>3. CASE Set(w, [worker[w] EXCEPT !.pc = "regenMark", !.seen = Target(r),
                                            !.retry = retry])
          BY <1>0, <5>3 DEF Set, WorkerState
        <5>. QED
          BY <5>1, <5>2, <5>3
      <4>. QED
        BY <2>3, <4>1, <4>2, <4>3 DEF RegenerateStep
    <3>. QED
      BY <3>1, <3>2 DEF RowPC
  <2>4. CASE ApiStep \/ UNCHANGED vars
    BY <2>2, <2>4 DEF ApiStep, CreateProposal, EditSection, RequestRegeneration, Dispatch,
                      GenerateDispatchFails, RegenerateDispatchFails, vars
  <2>5. CASE FaultStep
    <3>1. \A v \in Workers : worker'[v] = worker[v] \/ worker'[v] = Idle
      BY <1>0, <2>5 DEF FaultStep, WorkerCrash, Redelivery, HardTimeLimit, ApiCrash, Set
    <3>. QED
      BY <2>2, <3>1, IdleType DEF RowPC
  <2>. QED
    BY <2>1, <2>2, <2>3, <2>4, <2>5 DEF Next, WorkerStep
<1>. QED
  BY <1>4, <1>5, <1>6 DEF RowsStay, HasRow, RowPC, Row

-----------------------------------------------------------------------------
(* Who owns a section, and what was published.                              *)

Ownership == SectionOwnership /\ WritesFollowRequests /\ RegenerationAppliedOnce

LEMMA OwnershipStep ==
  ASSUME TypeInv, TypeInv', Ownership, StepKind
  PROVE  Ownership'
<1>0. /\ sections \in [Keys -> SectionRow] /\ writes \in [Keys -> [Jobs -> Nat]]
      /\ GenJob \in Jobs /\ GenJob \notin RegenJobs /\ NoJob \notin RegenJobs
      /\ RegenJobs \subseteq Jobs
      /\ request \in [RegenJobs -> [key : Keys \cup {NoKey}, base : Nat,
                                    edited : Nat, generated : Nat]]
  BY JobsAssumption DEF TypeInv, TypeOK, Jobs
<1>u. ASSUME NEW k \in Keys, NEW row \in SectionRow, Update(k, row)
      PROVE  \A l \in Keys : sections'[l] = IF l = k THEN row ELSE sections[l]
  BY <1>0, <1>u DEF Update, SetRow
<1>1. CASE QuietStep
  <2>1. \A k \in Keys, r \in RegenJobs :
          sections'[k].job = r => sections[k].job = r /\ sections'[k].edited = sections[k].edited
    BY <1>0, <1>1, <1>u DEF QuietStep
  <2>2. /\ request' = request
        /\ \A k \in Keys, r \in RegenJobs : writes'[k][r] = writes[k][r]
        /\ \A k \in Keys : writes'[k][GenJob] >= writes[k][GenJob]
    BY <1>1 DEF QuietStep, RegenWritesKept
  <2>3. SectionOwnership'
    BY <2>1, <2>2 DEF Ownership, SectionOwnership
  <2>4. \A k \in Keys, r \in RegenJobs :
          request[r].key = k => request[r].generated <= writes'[k][GenJob]
    <3>1. \A k \in Keys : writes[k][GenJob] \in Nat
      BY <1>0
    <3>2. \A r \in RegenJobs : request[r].generated \in Nat
      BY <1>0
    <3>3. \A k \in Keys : writes'[k][GenJob] \in Nat
      BY <1>0 DEF TypeInv, TypeOK
    <3>. QED
      BY <2>2, <3>1, <3>2, <3>3 DEF Ownership, WritesFollowRequests
  <2>5. WritesFollowRequests' /\ RegenerationAppliedOnce'
    BY <2>2, <2>4 DEF Ownership, WritesFollowRequests, RegenerationAppliedOnce
  <2>. QED
    BY <2>3, <2>5 DEF Ownership
<1>2. CASE UserStep
  <2>1. PICK k \in Keys, row \in SectionRow : Update(k, row) /\ row.job = NoJob
    BY <1>2 DEF UserStep
  <2>2. \A l \in Keys, r \in RegenJobs : sections'[l].job = r => sections'[l] = sections[l]
    BY <1>0, <1>u, <2>1
  <2>3. UNCHANGED <<request, writes>>
    BY <1>2 DEF UserStep
  <2>. QED
    BY <2>2, <2>3
       DEF Ownership, SectionOwnership, WritesFollowRequests, RegenerationAppliedOnce
<1>3. CASE AskStep
  <2>1. PICK k \in Keys, r \in RegenJobs, row \in SectionRow, base \in Nat :
          /\ ~Asked(r)
          /\ Update(k, row) /\ row.job = r /\ row.edited = sections[k].edited
          /\ request' = [request EXCEPT ![r] = [key |-> k, base |-> base,
                                                edited |-> sections[k].edited,
                                                generated |-> writes[k][GenJob]]]
    BY <1>3 DEF AskStep
  <2>2. UNCHANGED writes
    BY <1>3 DEF AskStep
  <2>3. /\ request'[r].key = k /\ request'[r].edited = sections[k].edited
        /\ request'[r].generated = writes[k][GenJob]
        /\ \A i \in RegenJobs \ {r} : request'[i] = request[i]
    BY <1>0, <2>1
  <2>4. \A l \in Keys : writes[l][r] = 0 /\ sections[l].job # r
    BY <2>1, BoundsAssumption
       DEF TypeInv, UnaskedUnknown, Ownership, SectionOwnership, Asked
  <2>5. \A l \in Keys : sections'[l] = IF l = k THEN row ELSE sections[l]
    BY <1>u, <2>1
  <2>6. SectionOwnership'
    <3>1. ASSUME NEW l \in Keys, NEW i \in RegenJobs, sections'[l].job = i
          PROVE  request'[i].key = l /\ sections'[l].edited = request'[i].edited
                 /\ writes'[l][i] = 0
      <4>1. CASE l = k
        BY <2>1, <2>2, <2>3, <2>4, <2>5, <3>1, <4>1
      <4>2. CASE l # k
        <5>1. sections'[l] = sections[l] /\ i # r
          BY <2>4, <2>5, <3>1, <4>2
        <5>. QED
          BY <2>2, <2>3, <3>1, <5>1 DEF Ownership, SectionOwnership
      <4>. QED
        BY <4>1, <4>2
    <3>. QED
      BY <3>1 DEF SectionOwnership
  <2>7. WritesFollowRequests'
    <3>1. writes[k][GenJob] <= writes[k][GenJob]
      BY <1>0
    <3>. QED
      BY <2>2, <2>3, <2>4, <3>1 DEF Ownership, WritesFollowRequests
  <2>. QED
    BY <2>2, <2>6, <2>7 DEF Ownership, RegenerationAppliedOnce
<1>4. CASE PublishStep
  <2>1. PICK k \in Keys, r \in RegenJobs, row \in SectionRow :
          /\ request[r].key = k /\ sections[k].job = r
          /\ Update(k, row) /\ row.job = NoJob /\ row.edited = sections[k].edited
          /\ CountWrite(k, r)
    BY <1>4 DEF PublishStep
  <2>2. UNCHANGED request
    BY <1>4 DEF PublishStep
  <2>3. \A l \in Keys, i \in Jobs :
          writes'[l][i] = IF l = k /\ i = r THEN writes[l][i] + 1 ELSE writes[l][i]
    BY <1>0, <2>1, CountWriteType DEF TypeInv
  <2>4. \A l \in Keys : sections'[l] = IF l = k THEN row ELSE sections[l]
    BY <1>u, <2>1
  <2>5. writes[k][r] = 0
    BY <2>1 DEF Ownership, SectionOwnership
  <2>6. SectionOwnership'
    BY <1>0, <2>1, <2>2, <2>3, <2>4 DEF Ownership, SectionOwnership
  <2>7. WritesFollowRequests'
    BY <1>0, <2>1, <2>2, <2>3 DEF Ownership, WritesFollowRequests
  <2>8. RegenerationAppliedOnce'
    BY <1>0, <2>3, <2>5 DEF Ownership, RegenerationAppliedOnce
  <2>. QED
    BY <2>6, <2>7, <2>8 DEF Ownership
<1>. QED
  BY <1>1, <1>2, <1>3, <1>4 DEF StepKind

LEMMA SafetyInit == Init => SafetyInv
<1>. SUFFICES ASSUME Init PROVE SafetyInv
  OBVIOUS
<1>1. TypeInv
  BY TypeInit
<1>2. /\ \A k \in Keys : sections[k] = AbsentRow
      /\ \A r \in RegenJobs : request[r] = NotAsked
      /\ \A k \in Keys, j \in Jobs : writes[k][j] = 0
      /\ \A w \in Workers : worker[w].pc = "idle"
  BY IdleType DEF Init
<1>3. RowsStay
  BY <1>2 DEF RowsStay, Asked, NotAsked
<1>4. Ownership
  <2>1. AbsentRow.job = NoJob /\ NotAsked.key = NoKey /\ RegenJobs \subseteq Jobs
    BY DEF AbsentRow, NotAsked, Jobs
  <2>. QED
    BY <1>2, <2>1, JobsAssumption, BoundsAssumption
       DEF Ownership, SectionOwnership, WritesFollowRequests, RegenerationAppliedOnce
<1>. QED
  BY <1>1, <1>3, <1>4 DEF TypeInv, Ownership, SafetyInv

LEMMA SafetyStep == SafetyInv /\ [Next]_vars => SafetyInv'
<1>. SUFFICES ASSUME SafetyInv, [Next]_vars PROVE SafetyInv'
  OBVIOUS
<1>1. TypeInv /\ RowsStay /\ Ownership
  BY DEF SafetyInv, TypeInv, Ownership
<1>2. TypeInv'
  BY <1>1, TypeStep
<1>3. RowsStay'
  BY <1>1, RowsStayStep
<1>4. Ownership'
  BY <1>1, <1>2, EveryKind, OwnershipStep
<1>. QED
  BY <1>2, <1>3, <1>4 DEF SafetyInv, TypeInv, Ownership

(* The inductive invariant holds for any number of workers, faults, edits   *)
(* and regeneration requests.                                               *)
THEOREM Safety == Spec => []SafetyInv
BY SafetyInit, SafetyStep, PTL DEF Spec

(* However often the broker redelivers a regeneration message, whatever     *)
(* worker dies with it and however many times the task is retried, its text *)
(* becomes the section's text at most once: the UPDATE of                   *)
(* regenerate_proposal_section_task releases the section as it publishes.   *)
THEOREM AppliedOnce == Spec => []RegenerationAppliedOnce
<1>1. SafetyInv => RegenerationAppliedOnce
  BY DEF SafetyInv
<1>. QED
  BY <1>1, Safety, PTL

(* A regeneration publishes only over the text the user saw when asking for *)
(* it: an edit accepted while the task waits, runs or calls the LLM makes   *)
(* its UPDATE match no row.                                                 *)
THEOREM KeepsLaterEdits == Spec => RegenerationKeepsLaterEdits
<1>. DEFINE Keeps == \A r \in RegenJobs, k \in Keys :
                       writes'[k][r] # writes[k][r] => sections[k].edited = request[r].edited
<1>1. SafetyInv /\ [Next]_vars => [Keeps]_vars
  <2>. SUFFICES ASSUME SafetyInv, [Next]_vars PROVE Keeps
    OBVIOUS
  <2>1. TypeInv /\ RowsStay /\ Ownership
    BY DEF SafetyInv, TypeInv, Ownership
  <2>2. StepKind
    BY <2>1, EveryKind
  <2>3. CASE QuietStep
    BY <2>3 DEF QuietStep, RegenWritesKept
  <2>4. CASE UserStep \/ AskStep
    BY <2>4 DEF UserStep, AskStep
  <2>5. CASE PublishStep
    <3>1. PICK k \in Keys, r \in RegenJobs : sections[k].job = r /\ CountWrite(k, r)
      BY <2>5 DEF PublishStep
    <3>2. \A l \in Keys, i \in Jobs :
            writes'[l][i] = IF l = k /\ i = r THEN writes[l][i] + 1 ELSE writes[l][i]
      BY <2>1, <3>1, CountWriteType DEF TypeInv, Jobs
    <3>3. sections[k].edited = request[r].edited
      BY <2>1, <3>1 DEF Ownership, SectionOwnership
    <3>. QED
      BY <3>2, <3>3 DEF Jobs
  <2>. QED
    BY <2>2, <2>3, <2>4, <2>5 DEF StepKind
<1>2. Spec => [][Keeps]_vars
  BY <1>1, Safety, PTL DEF Spec
<1>. QED
  BY <1>2 DEF RegenerationKeepsLaterEdits

-----------------------------------------------------------------------------
(* Owners.  A row of a section that no user touched carries the generate    *)
(* job: every writer that clears the owner is a user's edit, or answers a   *)
(* request of a user.                                                       *)

GeneratedRows == \A k \in Keys : Present(sections[k]) => sections[k].job = GenJob \/ Touched(k)

LEMMA OwnersStep ==
  ASSUME SafetyInv, GeneratedRows, [Next]_vars
  PROVE  GeneratedRows'
<1>0. /\ sections \in [Keys -> SectionRow]
      /\ request \in [RegenJobs -> [key : Keys \cup {NoKey}, base : Nat,
                                    edited : Nat, generated : Nat]]
      /\ GenJob # NoJob /\ \A k \in Keys : sections[k].edited \in Nat
  BY JobsAssumption DEF SafetyInv, TypeOK, SectionRow
<1>. SUFFICES ASSUME NEW k \in Keys, Present(sections'[k]), ~Touched(k)'
              PROVE  sections'[k].job = GenJob
  BY DEF GeneratedRows
<1>1. sections'[k].edited = 0 \/ sections'[k].edited \notin Nat
  BY DEF Touched
<1>2. \A r \in RegenJobs : request'[r].key # k
  BY DEF Touched
<1>3. StepKind
  BY EveryKind DEF SafetyInv, TypeInv
<1>4. ASSUME UNCHANGED request, sections'[k] = sections[k]
      PROVE  sections'[k].job = GenJob
  BY <1>4 DEF GeneratedRows, Touched
<1>5. CASE QuietStep
  <2>1. UNCHANGED request
    BY <1>5 DEF QuietStep
  <2>2. CASE UNCHANGED sections
    BY <1>4, <2>1, <2>2
  <2>3. ASSUME NEW l \in Keys, NEW row \in SectionRow, Update(l, row),
               row.job \in {sections[l].job, GenJob, NoJob},
               row.job = NoJob => \/ Present(sections[l]) /\ sections[l].job = NoJob
                                  \/ \E r \in RegenJobs : request[r].key = l,
               row.edited = sections[l].edited
        PROVE  sections'[k].job = GenJob
    <3>1. CASE l # k
      BY <1>0, <1>4, <2>1, <2>3, <3>1 DEF Update, SetRow
    <3>2. CASE l = k
      <4>1. sections'[k] = row
        BY <1>0, <2>3, <3>2 DEF Update, SetRow
      <4>2. ~Touched(k)
        BY <1>0, <1>1, <1>2, <2>1, <2>3, <3>2, <4>1 DEF Touched
      <4>3. Present(sections[k]) => sections[k].job = GenJob
        BY <4>2 DEF GeneratedRows
      <4>4. ~Present(sections[k]) => sections[k].job = NoJob
        BY DEF SafetyInv, RowsStay, AbsentRow
      <4> QED BY <1>0, <1>2, <2>1, <2>3, <3>2, <4>1, <4>3, <4>4
    <3> QED BY <3>1, <3>2
  <2> QED BY <1>5, <2>2, <2>3 DEF QuietStep
<1>6. CASE UserStep
  <2>1. PICK l \in Keys, row \in SectionRow : Update(l, row) /\ row.edited = sections[l].edited + 1
    BY <1>6 DEF UserStep
  <2>2. l # k
    BY <1>0, <1>1, <2>1 DEF Update, SetRow
  <2> QED BY <1>0, <1>4, <1>6, <2>1, <2>2 DEF UserStep, Update, SetRow
<1>7. CASE AskStep
  <2>1. PICK l \in Keys, r \in RegenJobs, row \in SectionRow, base \in Nat :
          /\ Update(l, row) /\ ~Asked(r)
          /\ request' = [request EXCEPT ![r] = [key |-> l, base |-> base,
                                               edited |-> sections[l].edited,
                                               generated |-> writes[l][GenJob]]]
    BY <1>7 DEF AskStep
  <2>2. l # k /\ \A q \in RegenJobs : request[q].key # k
    BY <1>0, <1>2, <2>1, BoundsAssumption DEF Asked
  <2>3. sections'[k] = sections[k]
    BY <1>0, <2>1, <2>2 DEF Update, SetRow
  <2> QED BY <1>0, <1>1, <2>2, <2>3 DEF GeneratedRows, Touched
<1>8. CASE PublishStep
  <2>1. PICK l \in Keys, r \in RegenJobs, row \in SectionRow : request[r].key = l /\ Update(l, row)
    BY <1>8 DEF PublishStep
  <2>2. UNCHANGED request
    BY <1>8 DEF PublishStep
  <2>3. l # k
    BY <1>2, <2>1, <2>2
  <2> QED BY <1>0, <1>4, <2>1, <2>2, <2>3 DEF Update, SetRow
<1> QED BY <1>3, <1>5, <1>6, <1>7, <1>8 DEF StepKind

(* A section in GENERATING without an owner was edited or asked for: one    *)
(* that no user touches never waits for a job that is not its own.          *)
THEOREM UntouchedAreOwned == Spec => []UntouchedIsOwned
<1>1. Init => GeneratedRows
  BY DEF Init, GeneratedRows, Present, AbsentRow
<1>2. GeneratedRows => UntouchedIsOwned
  BY JobsAssumption DEF GeneratedRows, UntouchedIsOwned, Present
<1> QED BY <1>1, <1>2, OwnersStep, Safety, PTL DEF Spec

-----------------------------------------------------------------------------
(* Who has a job in hand.  Only what ends a job, or a fault that destroys   *)
(* it, lets it go.                                                          *)

(* A step of the generate task between its start and its end.               *)
LEMMA GenerateRuns ==
  ASSUME TypeInv, NEW w \in Workers, GenerateStep(w),
         ~GenerateStart(w), ~GenerateFinish(w), ~GenerateAbort(w)
  PROVE  /\ worker[w].job = GenJob /\ worker'[w].job = GenJob
         /\ \A v \in Workers \ {w} : worker'[v] = worker[v]
         /\ UNCHANGED <<status, request, undispatched, queue, lost, faults>>
<1>0. worker \in [Workers -> WorkerState] /\ worker[w] \in WorkerState
  BY DEF TypeInv, TypeOK
<1>1. worker[w].job = GenJob
  BY DEF TypeInv, WorkerShape, GeneratePC, GenerateStep, GenerateExtract, GenerateFind,
         GenerateInsert, GenerateClaim, GenerateError, GenerateReread, GenerateCommit,
         GenerateSectionFails, GenerateMarkFailed
<1>2. ASSUME NEW state, state.job = worker[w].job, Set(w, state)
      PROVE  worker'[w].job = GenJob /\ \A v \in Workers \ {w} : worker'[v] = worker[v]
  BY <1>0, <1>1, <1>2 DEF Set
<1>3. \A pc, plan, seen :
        /\ [worker[w] EXCEPT !.pc = pc].job = worker[w].job
        /\ [worker[w] EXCEPT !.pc = pc, !.plan = plan].job = worker[w].job
        /\ [worker[w] EXCEPT !.pc = pc, !.seen = seen].job = worker[w].job
  BY <1>0 DEF WorkerState
<1>4. ASSUME NEW done, NEW failed, NextSection(w, done, failed)
      PROVE  worker'[w].job = GenJob /\ \A v \in Workers \ {w} : worker'[v] = worker[v]
  <2>1. [worker[w] EXCEPT !.pc = "find", !.pos = @ + 1, !.seen = AbsentRow,
                          !.done = @ \/ done, !.failed = @ \/ failed].job = worker[w].job
    BY <1>0 DEF WorkerState
  <2>. QED
    BY <1>2, <1>4, <2>1 DEF NextSection
<1>5. UNCHANGED <<status, request, undispatched, queue, lost, faults>>
  BY DEF GenerateStep, GenerateExtract, GenerateFind, GenerateInsert, GenerateClaim,
         GenerateError, GenerateReread, GenerateCommit, GenerateSectionFails,
         GenerateMarkFailed
<1>6. CASE GenerateExtract(w) \/ GenerateFind(w) \/ GenerateInsert(w) \/ GenerateClaim(w)
  BY <1>1, <1>2, <1>3, <1>4, <1>5, <1>6
     DEF GenerateExtract, GenerateFind, GenerateInsert, GenerateClaim
<1>7. CASE GenerateError(w) \/ GenerateReread(w) \/ GenerateCommit(w)
             \/ GenerateSectionFails(w) \/ GenerateMarkFailed(w)
  BY <1>1, <1>2, <1>3, <1>4, <1>5, <1>7
     DEF GenerateError, GenerateReread, GenerateCommit, GenerateSectionFails,
         GenerateMarkFailed
<1>. QED
  BY <1>6, <1>7 DEF GenerateStep

(* Its two ends.                                                            *)
LEMMA GenerateEnds ==
  ASSUME TypeInv, NEW w \in Workers, GenerateFinish(w) \/ GenerateAbort(w)
  PROVE  /\ worker[w].job = GenJob /\ worker' = [worker EXCEPT ![w] = Idle]
         /\ status' \in TerminalStatus
         /\ UNCHANGED <<sections, request, undispatched, queue, lost, faults, writes>>
BY DEF TypeInv, WorkerShape, GeneratePC, GenerateFinish, GenerateAbort, FinalStatus,
       TerminalStatus, Set

(* A step of the regeneration task on job r concerns no other job.          *)
LEMMA RegenerateRuns ==
  ASSUME TypeInv, NEW w \in Workers, NEW r \in RegenJobs, RegenerateStep(w, r)
  PROVE  /\ worker[w].job \in {r, NoJob} /\ worker'[w].job \in {r, NoJob}
         /\ \A v \in Workers \ {w} : worker'[v] = worker[v]
         /\ \A j \in Jobs \ {r} : queue'[j] = queue[j]
         /\ UNCHANGED <<status, request, undispatched, lost, faults>>
<1>0. /\ worker \in [Workers -> WorkerState] /\ worker[w] \in WorkerState
      /\ queue \in [Jobs -> Nat]
  BY DEF TypeInv, TypeOK
<1>1. worker[w].job \in {r, NoJob}
  BY DEF TypeInv, WorkerShape, RegenerateStep, RegenerateStart, RegenerateCommit,
         RegenerateFails, RegenerateMarkFailed
<1>2. ASSUME NEW state, state.job \in {r, NoJob}, Set(w, state)
      PROVE  worker'[w].job \in {r, NoJob} /\ \A v \in Workers \ {w} : worker'[v] = worker[v]
  BY <1>0, <1>2 DEF Set
<1>4. Idle.job = NoJob
  BY IdleType
<1>5. \A retry : RetryOrStop(r, retry) => \A j \in Jobs \ {r} : queue'[j] = queue[j]
  BY <1>0 DEF RetryOrStop, Enqueue
<1>6. CASE RegenerateStart(w, r)
  <2>1. \/ Set(w, [Idle EXCEPT !.pc = "regenerate", !.job = r])
        \/ UNCHANGED worker
    BY <1>6 DEF RegenerateStart
  <2>2. /\ worker'[w].job \in {r, NoJob}
        /\ \A v \in Workers \ {w} : worker'[v] = worker[v]
    <3>1. CASE Set(w, [Idle EXCEPT !.pc = "regenerate", !.job = r])
      <4>. DEFINE state == [Idle EXCEPT !.pc = "regenerate", !.job = r]
      <4>1. state.job \in {r, NoJob} /\ Set(w, state)
        BY <3>1, IdleType DEF WorkerState
      <4>. HIDE DEF state
      <4>. QED
        BY <1>2, <4>1
    <3>2. CASE UNCHANGED worker
      BY <1>1, <3>2
    <3>. QED
      BY <2>1, <3>1, <3>2
  <2>3. /\ queue' = [queue EXCEPT ![r] = @ - 1]
        /\ UNCHANGED <<status, request, undispatched, lost, faults>>
    BY <1>6 DEF RegenerateStart
  <2>. QED
    BY <1>0, <1>1, <2>2, <2>3
<1>9. CASE RegenerateCommit(w, r)
  BY <1>1, <1>2, <1>4, <1>9 DEF RegenerateCommit
<1>7. ASSUME NEW retry \in BOOLEAN, RegenerateFails(w, r, retry)
      PROVE  /\ worker'[w].job \in {r, NoJob}
             /\ \A v \in Workers \ {w} : worker'[v] = worker[v]
             /\ \A j \in Jobs \ {r} : queue'[j] = queue[j]
             /\ UNCHANGED <<status, request, undispatched, lost, faults>>
  <2>1. /\ \/ /\ Set(w, [worker[w] EXCEPT !.pc = "regenMark", !.seen = Target(r),
                                          !.retry = retry])
              /\ UNCHANGED queue
           \/ Set(w, Idle) /\ RetryOrStop(r, retry)
        /\ UNCHANGED <<status, request, undispatched, lost, faults>>
    BY <1>7 DEF RegenerateFails
  <2>2. CASE Set(w, Idle) /\ RetryOrStop(r, retry)
    BY <1>2, <1>4, <1>5, <2>1, <2>2
  <2>3. CASE /\ Set(w, [worker[w] EXCEPT !.pc = "regenMark", !.seen = Target(r),
                                         !.retry = retry])
             /\ UNCHANGED queue
    <3>. DEFINE state == [worker[w] EXCEPT !.pc = "regenMark", !.seen = Target(r),
                                           !.retry = retry]
    <3>1. state.job \in {r, NoJob} /\ Set(w, state)
      BY <1>0, <1>1, <2>3 DEF WorkerState
    <3>. HIDE DEF state
    <3>. QED
      BY <1>2, <2>1, <2>3, <3>1
  <2>. QED
    BY <2>1, <2>2, <2>3
<1>8. CASE RegenerateMarkFailed(w, r)
  BY <1>2, <1>4, <1>5, <1>8 DEF RegenerateMarkFailed
<1>. QED
  BY <1>1, <1>6, <1>7, <1>8, <1>9 DEF RegenerateStep

(* The regeneration task leaves a job whose section is no longer its own.   *)
LEMMA RegenerateLetsGo ==
  ASSUME TypeInv, NEW w \in Workers, NEW r \in RegenJobs, RegenerateStep(w, r)
  PROVE  InHand(r)' \/ ~LiveRequest(r)'
<1>0. /\ worker \in [Workers -> WorkerState] /\ worker[w] \in WorkerState
      /\ sections \in [Keys -> SectionRow]
  BY DEF TypeInv, TypeOK
<1>1. NoJob # r
  BY JobsAssumption
<1>2. ASSUME UNCHANGED <<sections, request>>, ~LiveRequest(r)
      PROVE  ~LiveRequest(r)'
  BY <1>2 DEF LiveRequest, Asked, Target
<1>3. ASSUME NEW row, SetRow(request[r].key, row), row.job = NoJob, UNCHANGED request,
             worker[w].job = r
      PROVE  ~LiveRequest(r)'
  <2>1. request[r].key \in Keys
    BY <1>3, TargetType DEF TypeInv, UnaskedUnknown, InHand
  <2>2. sections'[request'[r].key] = row
    BY <1>0, <1>3, <2>1 DEF SetRow
  <2>. QED
    BY <1>1, <1>3, <2>2 DEF LiveRequest, Target, RegenOwns
<1>5. CASE RegenerateStart(w, r)
  <2>1. CASE LiveRequest(r)
    <3>. DEFINE state == [Idle EXCEPT !.pc = "regenerate", !.job = r]
    <3>1. state.job = r /\ Set(w, state)
      BY <1>5, <2>1, IdleType DEF RegenerateStart, WorkerState
    <3>. HIDE DEF state
    <3>2. worker'[w].job = r
      BY <1>0, <3>1 DEF Set
    <3>. QED
      BY <3>2 DEF InHand
  <2>2. CASE ~LiveRequest(r)
    BY <1>2, <1>5, <2>2 DEF RegenerateStart
  <2>. QED
    BY <2>1, <2>2
<1>6. CASE RegenerateCommit(w, r)
  <2>1. CASE LiveRequest(r)
    <3>1. Target(r) \in SectionRow
      BY <1>6, TargetType DEF RegenerateCommit, TypeInv, UnaskedUnknown, InHand
    <3>2. RegeneratedRow(Target(r)).job = NoJob
      BY <3>1 DEF RegeneratedRow, SectionRow
    <3>. QED
      BY <1>3, <1>6, <2>1, <3>2 DEF RegenerateCommit
  <2>2. CASE ~LiveRequest(r)
    BY <1>2, <1>6, <2>2 DEF RegenerateCommit
  <2>. QED
    BY <2>1, <2>2
<1>7. ASSUME NEW retry \in BOOLEAN, RegenerateFails(w, r, retry)
      PROVE  InHand(r)' \/ ~LiveRequest(r)'
  <2>1. CASE LiveRequest(r)
    <3>. DEFINE state == [worker[w] EXCEPT !.pc = "regenMark", !.seen = Target(r),
                                           !.retry = retry]
    <3>1. state.job = r /\ Set(w, state)
      BY <1>0, <1>7, <2>1 DEF RegenerateFails, WorkerState
    <3>. HIDE DEF state
    <3>2. worker'[w].job = r
      BY <1>0, <3>1 DEF Set
    <3>. QED
      BY <3>2 DEF InHand
  <2>2. CASE ~LiveRequest(r)
    BY <1>2, <1>7, <2>2 DEF RegenerateFails
  <2>. QED
    BY <2>1, <2>2
<1>8. CASE RegenerateMarkFailed(w, r)
  <2>1. Target(r) \in SectionRow
    BY <1>8, TargetType DEF RegenerateMarkFailed, TypeInv, UnaskedUnknown, InHand
  <2>2. RegenerationFailedRow(Target(r), worker[w].seen).job = NoJob
    BY <2>1 DEF RegenerationFailedRow, SectionRow
  <2>. QED
    BY <1>3, <1>8, <2>2 DEF RegenerateMarkFailed
<1>. QED
  BY <1>5, <1>6, <1>7, <1>8 DEF RegenerateStep

(* What is in hand stays there, unless it is destroyed or done with.        *)
LetGo(j) ==
  \/ j \in lost
  \/ j = GenJob /\ status \in TerminalStatus
  \/ j \in RegenJobs /\ ~LiveRequest(j)

LEMMA HandsStep ==
  ASSUME TypeInv, [Next]_vars, NEW j \in Jobs, InHand(j)
  PROVE  InHand(j)' \/ LetGo(j)'
<1>0. /\ worker \in [Workers -> WorkerState] /\ queue \in [Jobs -> Nat]
      /\ sections \in [Keys -> SectionRow] /\ GenJob \in Jobs /\ RegenJobs \subseteq Jobs
      /\ GenJob \notin RegenJobs /\ NoJob \notin Jobs
  BY JobsAssumption DEF TypeInv, TypeOK, Jobs
<1>e. ASSUME NEW i \in Jobs, Enqueue(i)
      PROVE  queue'[i] > 0 /\ \A l \in Jobs : queue[l] > 0 => queue'[l] > 0
  BY <1>0, <1>e DEF Enqueue
<1>i. ASSUME NEW w \in Workers, Set(w, Idle)
      PROVE  \A v \in Workers \ {w} : worker'[v] = worker[v]
  BY <1>0, <1>i DEF Set
<1>1. CASE \/ CreateProposal
           \/ \E k \in Keys, v \in 1 .. MaxVersion : EditSection(k, v)
           \/ \E r \in RegenJobs, k \in Keys, v \in 1 .. MaxVersion : RequestRegeneration(r, k, v)
  BY <1>1 DEF CreateProposal, EditSection, RequestRegeneration, InHand
<1>2. ASSUME NEW i \in Jobs, Dispatch(i)
      PROVE  InHand(j)'
  <2>1. /\ undispatched' = undispatched \ {i} /\ UNCHANGED worker
        /\ queue'[i] > 0 /\ \A l \in Jobs : queue[l] > 0 => queue'[l] > 0
    BY <1>2, <1>e DEF Dispatch
  <2>. QED
    BY <2>1 DEF InHand
<1>3. CASE GenerateDispatchFails
  BY <1>3 DEF GenerateDispatchFails, InHand, LetGo
<1>4. ASSUME NEW r \in RegenJobs, RegenerateDispatchFails(r)
      PROVE  InHand(j)' \/ LetGo(j)'
  <2>1. CASE j # r
    BY <1>4, <2>1 DEF RegenerateDispatchFails, InHand
  <2>2. CASE j = r
    <3>1. request[r].key \in Keys /\ Target(r) \in SectionRow
      BY <1>4, TargetType DEF RegenerateDispatchFails, TypeInv, UnaskedUnknown, InHand
    <3>2. QueueUnavailableRow(Target(r)).job = NoJob
      BY <3>1 DEF QueueUnavailableRow, SectionRow
    <3>3. sections'[request'[r].key].job = NoJob
      BY <1>0, <1>4, <3>1, <3>2 DEF RegenerateDispatchFails, SetRow
    <3>. QED
      BY <1>0, <2>2, <3>3 DEF LetGo, LiveRequest, Target, RegenOwns
  <2>. QED
    BY <2>1, <2>2
<1>5. ASSUME NEW w \in Workers, GenerateStart(w)
      PROVE  InHand(j)'
  <2>. DEFINE state == [Idle EXCEPT !.pc = "extract", !.job = GenJob]
  <2>1. state.job = GenJob /\ Set(w, state) /\ worker[w].job = NoJob
    BY <1>5, IdleType DEF GenerateStart, WorkerState, TypeInv, WorkerShape
  <2>. HIDE DEF state
  <2>2. worker'[w].job = GenJob /\ \A v \in Workers \ {w} : worker'[v] = worker[v]
    BY <1>0, <2>1 DEF Set
  <2>3. undispatched' = undispatched /\ \A i \in Jobs \ {GenJob} : queue'[i] = queue[i]
    BY <1>0, <1>5 DEF GenerateStart
  <2>. QED
    BY <1>0, <2>1, <2>2, <2>3 DEF InHand
<1>6. ASSUME NEW w \in Workers, GenerateFinish(w) \/ GenerateAbort(w)
      PROVE  InHand(j)' \/ LetGo(j)'
  <2>1. /\ worker[w].job = GenJob /\ \A v \in Workers \ {w} : worker'[v] = worker[v]
        /\ status' \in TerminalStatus /\ UNCHANGED <<undispatched, queue>>
    BY <1>0, <1>6, GenerateEnds
  <2>. QED
    BY <1>0, <2>1 DEF InHand, LetGo
<1>7. ASSUME NEW w \in Workers, GenerateStep(w), ~GenerateStart(w), ~GenerateFinish(w),
             ~GenerateAbort(w)
      PROVE  InHand(j)'
  BY <1>0, <1>7, GenerateRuns DEF InHand
<1>8. ASSUME NEW w \in Workers, NEW r \in RegenJobs, RegenerateStep(w, r)
      PROVE  InHand(j)' \/ LetGo(j)'
  <2>1. CASE j = r
    BY <1>8, <2>1, RegenerateLetsGo DEF LetGo
  <2>2. CASE j # r
    BY <1>0, <1>8, <2>2, RegenerateRuns DEF InHand
  <2>. QED
    BY <2>1, <2>2
<1>9. ASSUME NEW w \in Workers, WorkerCrash(w) \/ Redelivery(w) \/ HardTimeLimit(w)
      PROVE  InHand(j)' \/ LetGo(j)'
  <2>1. worker[w].job \in Jobs
    BY <1>9, TaskJob DEF WorkerCrash, Redelivery, HardTimeLimit
  <2>2. CASE WorkerCrash(w)
    <3>1. /\ UNCHANGED undispatched
          /\ queue'[worker[w].job] > 0 /\ \A l \in Jobs : queue[l] > 0 => queue'[l] > 0
          /\ \A v \in Workers \ {w} : worker'[v] = worker[v]
      BY <1>e, <1>i, <2>1, <2>2 DEF WorkerCrash
    <3>2. CASE worker[w].job = j
      BY <3>1, <3>2 DEF InHand
    <3>3. CASE worker[w].job # j
      BY <3>1, <3>3 DEF InHand
    <3>. QED
      BY <3>2, <3>3
  <2>3. CASE Redelivery(w)
    <3>1. UNCHANGED <<undispatched, worker>> /\ \A l \in Jobs : queue[l] > 0 => queue'[l] > 0
      BY <1>e, <2>1, <2>3 DEF Redelivery
    <3>. QED
      BY <3>1 DEF InHand
  <2>4. CASE HardTimeLimit(w)
    <3>1. /\ UNCHANGED <<undispatched, queue>> /\ worker[w].job \in lost'
          /\ \A v \in Workers \ {w} : worker'[v] = worker[v]
      BY <1>i, <2>4 DEF HardTimeLimit
    <3>. QED
      BY <3>1 DEF InHand, LetGo
  <2>. QED
    BY <1>9, <2>2, <2>3, <2>4
<1>10. ASSUME NEW i \in Jobs, ApiCrash(i)
       PROVE  InHand(j)' \/ LetGo(j)'
  BY <1>10 DEF ApiCrash, InHand, LetGo
<1>11. CASE UNCHANGED vars
  BY <1>11 DEF vars, InHand
<1>. QED
  BY <1>1, <1>2, <1>3, <1>4, <1>5, <1>6, <1>7, <1>8, <1>9, <1>10, <1>11
     DEF Next, ApiStep, WorkerStep, FaultStep

(* The status is set by who has the job in hand, or for good.               *)
LEMMA StatusStep ==
  ASSUME TypeInv, [Next]_vars
  PROVE  /\ status' = status \/ InHand(GenJob)' \/ status' \in TerminalStatus
         /\ lost \subseteq lost'
<1>0. worker \in [Workers -> WorkerState]
  BY DEF TypeInv, TypeOK
<1>1. CASE CreateProposal
  BY <1>1 DEF CreateProposal, InHand
<1>2. CASE ApiStep /\ ~CreateProposal
  BY <1>2 DEF ApiStep, EditSection, RequestRegeneration, Dispatch, GenerateDispatchFails,
              RegenerateDispatchFails
<1>3. ASSUME NEW w \in Workers, GenerateStart(w)
      PROVE  InHand(GenJob)' /\ lost' = lost
  <2>. DEFINE state == [Idle EXCEPT !.pc = "extract", !.job = GenJob]
  <2>1. state.job = GenJob /\ Set(w, state) /\ lost' = lost
    BY <1>3, IdleType DEF GenerateStart, WorkerState
  <2>. HIDE DEF state
  <2>2. worker'[w].job = GenJob
    BY <1>0, <2>1 DEF Set
  <2>. QED
    BY <2>1, <2>2 DEF InHand
<1>4. ASSUME NEW w \in Workers, GenerateStep(w), ~GenerateStart(w)
      PROVE  (status' = status \/ status' \in TerminalStatus) /\ lost' = lost
  BY <1>4, GenerateRuns, GenerateEnds
<1>5. ASSUME NEW w \in Workers, NEW r \in RegenJobs, RegenerateStep(w, r)
      PROVE  status' = status /\ lost' = lost
  BY <1>5, RegenerateRuns
<1>6. CASE FaultStep
  BY <1>6 DEF FaultStep, WorkerCrash, Redelivery, HardTimeLimit, ApiCrash
<1>7. CASE UNCHANGED vars
  BY <1>7 DEF vars
<1>. QED
  BY <1>1, <1>2, <1>3, <1>4, <1>5, <1>6, <1>7 DEF Next, WorkerStep

(* A proposal that shows PENDING or PROCESSING has its job in hand, or a    *)
(* fault destroyed it: no exit of generate_proposal_task forgets the status,*)
(* whatever crashes, overlaps or is delivered again.                        *)
THEOREM UnfinishedIsInHand == Spec => []UnfinishedProposalInHand
<1>1. Init => UnfinishedProposalInHand
  BY DEF Init, UnfinishedProposalInHand
<1>2. SafetyInv /\ UnfinishedProposalInHand /\ [Next]_vars => UnfinishedProposalInHand'
  <2>. SUFFICES ASSUME SafetyInv, UnfinishedProposalInHand, [Next]_vars,
                       status' \in {"PENDING", "PROCESSING"}
                PROVE  InHand(GenJob)' \/ GenJob \in lost'
    BY DEF UnfinishedProposalInHand
  <2>1. TypeInv /\ GenJob \in Jobs /\ GenJob \notin RegenJobs
    BY JobsAssumption DEF SafetyInv, TypeInv, Jobs
  <2>2. status' \notin TerminalStatus
    BY DEF TerminalStatus
  <2>3. InHand(GenJob) => InHand(GenJob)' \/ GenJob \in lost'
    BY <2>1, <2>2, HandsStep DEF LetGo
  <2>. QED
    BY <2>1, <2>2, <2>3, StatusStep DEF UnfinishedProposalInHand
<1>. QED
  BY <1>1, <1>2, Safety, PTL DEF Spec

-----------------------------------------------------------------------------
(* Regenerations in hand.                                                   *)

(* A row whose job is a regeneration's had that job and its version before, *)
(* or the generate task has just written it.                                *)
OwnerStays ==
  \A k \in Keys :
    sections'[k].job \in RegenJobs =>
      \/ /\ sections'[k].job = sections[k].job /\ sections'[k].version = sections[k].version
         /\ Present(sections[k])
      \/ writes'[k][GenJob] = writes[k][GenJob] + 1

LEMMA GenerateOwnerStays ==
  ASSUME SafetyInv, NEW w \in Workers, GenerateStep(w)
  PROVE  OwnerStays
<1>0. /\ TypeInv /\ RowsStay /\ sections \in [Keys -> SectionRow]
      /\ writes \in [Keys -> [Jobs -> Nat]] /\ GenJob \in Jobs /\ GenJob \notin RegenJobs
      /\ NoJob \notin RegenJobs
  BY JobsAssumption DEF SafetyInv, TypeInv, TypeOK, Jobs
<1>a. worker[w].pc \in {"insert", "claim", "write", "commit", "mark"} =>
        /\ Key(w) \in Keys /\ Row(w) \in SectionRow /\ Row(w) = sections[Key(w)]
        /\ Order(w) \in Nat /\ worker[w].seen \in SectionRow
  BY <1>0, KeyType DEF TypeInv, WorkerShape, Row
<1>b. worker[w].pc \in {"claim", "write", "commit", "mark"} => Present(Row(w))
  BY <1>0 DEF RowsStay
<1>c. \A k \in Keys : sections[k].job \in RegenJobs => Present(sections[k])
  BY <1>0 DEF RowsStay, AbsentRow
<1>u. ASSUME NEW k \in Keys, NEW row, SetRow(k, row)
      PROVE  \A l \in Keys : sections'[l] = IF l = k THEN row ELSE sections[l]
  BY <1>0, <1>u DEF SetRow
<1>1. CASE GenerateInsert(w)
  <2>1. worker[w].pc = "insert" /\ SetRow(Key(w), InsertedRow(Order(w)))
    BY <1>1 DEF GenerateInsert
  <2>2. InsertedRow(Order(w)).job = GenJob
    BY DEF InsertedRow, AbsentRow
  <2>. QED
    BY <1>0, <1>a, <1>c, <1>u, <2>1, <2>2 DEF OwnerStays
<1>2. CASE GenerateClaim(w)
  <2>. DEFINE row == ClaimedRow(Row(w), worker[w].seen, Order(w))
  <2>1. worker[w].pc = "claim" /\ SetRow(Key(w), row)
    BY <1>2 DEF GenerateClaim
  <2>2. row.job \in {GenJob, Row(w).job} /\ row.version = Row(w).version
    BY <1>a, <2>1 DEF ClaimedRow, Dirty, SectionRow
  <2>. HIDE DEF row
  <2>. QED
    BY <1>0, <1>a, <1>b, <1>c, <1>u, <2>1, <2>2 DEF OwnerStays
<1>3. CASE GenerateCommit(w)
  <2>. DEFINE row == GeneratedRow(Row(w), worker[w].seen)
  <2>1. worker[w].pc = "commit" /\ SetRow(Key(w), row) /\ CountWrite(Key(w), GenJob)
    BY <1>3 DEF GenerateCommit
  <2>. HIDE DEF row
  <2>2. writes'[Key(w)][GenJob] = writes[Key(w)][GenJob] + 1
    BY <1>0, <1>a, <2>1, CountWriteType DEF TypeInv
  <2>. QED
    BY <1>a, <1>c, <1>u, <2>1, <2>2 DEF OwnerStays
<1>4. CASE GenerateMarkFailed(w)
  <2>. DEFINE row == GenerationFailedRow(Row(w), worker[w].seen)
  <2>1. worker[w].pc = "mark" /\ SetRow(Key(w), row)
    BY <1>4 DEF GenerateMarkFailed
  <2>2. row.job = Row(w).job /\ row.version = Row(w).version
    BY <1>a, <2>1 DEF GenerationFailedRow, SectionRow
  <2>. HIDE DEF row
  <2>. QED
    BY <1>a, <1>b, <1>c, <1>u, <2>1, <2>2 DEF OwnerStays
<1>5. CASE \/ GenerateStart(w) \/ GenerateExtract(w) \/ GenerateFind(w) \/ GenerateError(w)
           \/ GenerateReread(w) \/ GenerateSectionFails(w) \/ GenerateFinish(w)
           \/ GenerateAbort(w)
  <2>1. UNCHANGED sections
    BY <1>5 DEF GenerateStart, GenerateExtract, GenerateFind, GenerateError, GenerateReread,
                GenerateSectionFails, GenerateFinish, GenerateAbort
  <2>. QED
    BY <1>c, <2>1 DEF OwnerStays
<1>. QED
  BY <1>1, <1>2, <1>3, <1>4, <1>5 DEF GenerateStep

(* So does every other step but the request for a regeneration.             *)
LEMMA EveryOwnerStays ==
  ASSUME SafetyInv, [Next]_vars
  PROVE  \/ OwnerStays
         \/ \E r \in RegenJobs, k \in Keys, v \in 1 .. MaxVersion : RequestRegeneration(r, k, v)
<1>0. /\ TypeInv /\ RowsStay /\ sections \in [Keys -> SectionRow]
      /\ NoJob \notin RegenJobs
  BY JobsAssumption DEF SafetyInv, TypeInv, TypeOK
<1>c. \A k \in Keys : sections[k].job \in RegenJobs => Present(sections[k])
  BY <1>0, JobsAssumption DEF RowsStay, AbsentRow
<1>u. ASSUME NEW k \in Keys, NEW row, SetRow(k, row), row.job = NoJob
      PROVE  OwnerStays
  BY <1>0, <1>c, <1>u DEF SetRow, OwnerStays
<1>s. ASSUME UNCHANGED sections
      PROVE  OwnerStays
  BY <1>c, <1>s DEF OwnerStays
<1>1. ASSUME NEW k \in Keys, NEW v \in 1 .. MaxVersion, EditSection(k, v)
      PROVE  OwnerStays
  <2>1. EditedRow(sections[k]).job = NoJob
    BY <1>0 DEF EditedRow, SectionRow
  <2>. QED
    BY <1>1, <1>u, <2>1 DEF EditSection
<1>3. ASSUME NEW r \in RegenJobs, RegenerateDispatchFails(r)
      PROVE  OwnerStays
  <2>1. request[r].key \in Keys /\ Target(r) \in SectionRow
    BY <1>0, <1>3, TargetType DEF RegenerateDispatchFails, TypeInv, UnaskedUnknown, InHand
  <2>2. QueueUnavailableRow(Target(r)).job = NoJob
    BY <2>1 DEF QueueUnavailableRow, SectionRow
  <2>. QED
    BY <1>3, <1>u, <2>1, <2>2 DEF RegenerateDispatchFails
<1>4. CASE CreateProposal \/ (\E j \in Jobs : Dispatch(j)) \/ GenerateDispatchFails
  BY <1>4, <1>s DEF CreateProposal, Dispatch, GenerateDispatchFails
<1>5. ASSUME NEW w \in Workers, NEW r \in RegenJobs, RegenerateStep(w, r)
      PROVE  OwnerStays
  <2>1. worker[w].job = r => request[r].key \in Keys /\ Target(r) \in SectionRow
    BY <1>0, TargetType DEF TypeInv, UnaskedUnknown, InHand
  <2>2. CASE RegenerateCommit(w, r)
    <3>1. RegeneratedRow(Target(r)).job = NoJob
      BY <2>1, <2>2 DEF RegenerateCommit, RegeneratedRow, SectionRow
    <3>. QED
      BY <1>s, <1>u, <2>1, <2>2, <3>1 DEF RegenerateCommit
  <2>3. CASE RegenerateMarkFailed(w, r)
    <3>1. RegenerationFailedRow(Target(r), worker[w].seen).job = NoJob
      BY <2>1, <2>3 DEF RegenerateMarkFailed, RegenerationFailedRow, SectionRow
    <3>. QED
      BY <1>u, <2>1, <2>3, <3>1 DEF RegenerateMarkFailed
  <2>4. CASE RegenerateStart(w, r) \/ \E retry \in BOOLEAN : RegenerateFails(w, r, retry)
    BY <1>s, <2>4 DEF RegenerateStart, RegenerateFails
  <2>. QED
    BY <1>5, <2>2, <2>3, <2>4 DEF RegenerateStep
<1>6. CASE FaultStep \/ UNCHANGED vars
  BY <1>s, <1>6 DEF FaultStep, WorkerCrash, Redelivery, HardTimeLimit, ApiCrash, vars
<1>. QED
  BY <1>1, <1>3, <1>4, <1>5, <1>6, GenerateOwnerStays DEF Next, ApiStep, WorkerStep

(* A live and undisturbed request was one before, or has just been made.    *)
LEMMA LiveStep ==
  ASSUME SafetyInv, [Next]_vars, NEW r \in RegenJobs, LiveRequest(r)', Undisturbed(r)'
  PROVE  InHand(r)' \/ (LiveRequest(r) /\ Undisturbed(r))
<1>0. /\ TypeInv /\ RowsStay /\ Ownership /\ sections \in [Keys -> SectionRow]
      /\ writes \in [Keys -> [Jobs -> Nat]] /\ GenJob \in Jobs /\ GenJob \notin RegenJobs
      /\ RegenJobs \subseteq Jobs
      /\ request \in [RegenJobs -> [key : Keys \cup {NoKey}, base : Nat,
                                    edited : Nat, generated : Nat]]
  BY JobsAssumption DEF SafetyInv, TypeInv, TypeOK, Ownership, Jobs
<1>1. ASSUME NEW k \in Keys, NEW i \in RegenJobs, NEW v \in 1 .. MaxVersion,
             RequestRegeneration(i, k, v)
      PROVE  InHand(r)' \/ (LiveRequest(r) /\ Undisturbed(r))
  <2>1. /\ undispatched' = undispatched \cup {i} /\ writes' = writes
        /\ request' = [request EXCEPT ![i] = [key |-> k, base |-> v,
                                              edited |-> sections[k].edited,
                                              generated |-> writes[k][GenJob]]]
        /\ SetRow(k, RequestedRow(sections[k], i))
    BY <1>1 DEF RequestRegeneration
  <2>2. CASE i = r
    BY <2>1, <2>2 DEF InHand
  <2>3. CASE i # r
    <3>1. request'[r] = request[r] /\ Asked(r)
      BY <1>0, <2>1, <2>3 DEF LiveRequest, Asked
    <3>2. \A l \in Keys \ {k} : sections'[l] = sections[l]
      BY <1>0, <2>1 DEF SetRow
    <3>3. sections'[k].job = i
      BY <1>0, <2>1, RowOwner DEF SetRow
    <3>4. request[r].key # k
      BY <2>3, <3>1, <3>3 DEF LiveRequest, RegenOwns, Target
    <3>5. request[r].key \in Keys \ {k}
      BY <1>0, <3>1, <3>4, TargetType DEF TypeInv
    <3>6. Target(r)' = Target(r)
      BY <3>1, <3>2, <3>5 DEF Target
    <3>. QED
      BY <2>1, <3>1, <3>6 DEF LiveRequest, Undisturbed
  <2>. QED
    BY <2>2, <2>3
<1>2. CASE OwnerStays /\ AskStep
  <2>1. PICK k \in Keys, i \in RegenJobs, row \in SectionRow :
          ~Asked(i) /\ Update(k, row) /\ row.job = i /\ UNCHANGED writes
    BY <1>2 DEF AskStep
  <2>2. sections'[k].job = i
    BY <1>0, <2>1 DEF Update, SetRow
  <2>3. writes'[k][GenJob] # writes[k][GenJob] + 1
    BY <1>0, <2>1
  <2>4. sections[k].job = i
    BY <1>2, <2>2, <2>3 DEF OwnerStays
  <2>. QED
    BY <1>0, <2>1, <2>4, BoundsAssumption DEF Ownership, SectionOwnership, Asked
<1>3. CASE OwnerStays /\ ~AskStep
  <2>1. UNCHANGED request /\ \A k \in Keys : writes'[k][GenJob] >= writes[k][GenJob]
    <3>1. QuietStep \/ UserStep \/ PublishStep
      BY <1>0, <1>3, EveryKind DEF StepKind
    <3>2. CASE QuietStep
      BY <3>2 DEF QuietStep
    <3>3. CASE UserStep
      BY <1>0, <3>3 DEF UserStep
    <3>4. CASE PublishStep
      <4>1. PICK k \in Keys, i \in RegenJobs : CountWrite(k, i)
        BY <3>4 DEF PublishStep
      <4>2. \A l \in Keys : writes'[l][GenJob] = writes[l][GenJob]
        BY <1>0, <4>1, CountWriteType DEF TypeInv
      <4>. QED
        BY <1>0, <3>4, <4>2 DEF PublishStep
    <3>. QED
      BY <3>1, <3>2, <3>3, <3>4
  <2>. DEFINE k == request[r].key
  <2>2. Asked(r) /\ k \in Keys
    BY <2>1, <1>0, TargetType DEF LiveRequest, Asked, TypeInv
  <2>3. /\ sections'[k].job = r /\ sections'[k].version = request[r].base
        /\ writes'[k][GenJob] = request[r].generated
    BY <2>1 DEF LiveRequest, Undisturbed, Target, RegenOwns
  <2>4. request[r].generated <= writes[k][GenJob]
    BY <1>0, <2>2 DEF Ownership, WritesFollowRequests
  <2>5. writes'[k][GenJob] = writes[k][GenJob]
    <3>1. writes[k][GenJob] \in Nat /\ request[r].generated \in Nat
      BY <1>0, <2>2
    <3>. QED
      BY <2>1, <2>2, <2>3, <2>4, <3>1
  <2>6. sections[k].job = r /\ sections[k].version = request[r].base /\ Present(sections[k])
    <3>1. writes[k][GenJob] # writes[k][GenJob] + 1
      BY <1>0, <2>2
    <3>. QED
      BY <1>3, <2>2, <2>3, <2>5, <3>1 DEF OwnerStays
  <2>. QED
    BY <2>2, <2>3, <2>5, <2>6 DEF LiveRequest, Undisturbed, Target, RegenOwns
<1>. QED
  BY <1>1, <1>2, <1>3, EveryOwnerStays

(* A request whose job still owns its section is in hand or was destroyed,  *)
(* unless the generate task wrote the section after it: a worker that drops *)
(* a message as stale never drops one that could come back to life.         *)
THEOREM LiveRequestsAreInHand == Spec => []LiveRequestInHand
<1>1. Init => LiveRequestInHand
  BY DEF Init, LiveRequestInHand, LiveRequest, Asked, NotAsked
<1>2. SafetyInv /\ LiveRequestInHand /\ [Next]_vars => LiveRequestInHand'
  <2>. SUFFICES ASSUME SafetyInv, LiveRequestInHand, [Next]_vars,
                       NEW r \in RegenJobs, LiveRequest(r)', Undisturbed(r)'
                PROVE  InHand(r)' \/ r \in lost'
    BY DEF LiveRequestInHand
  <2>1. TypeInv /\ r \in Jobs /\ r # GenJob
    BY JobsAssumption DEF SafetyInv, TypeInv, Jobs
  <2>2. CASE InHand(r)'
    BY <2>2
  <2>3. CASE LiveRequest(r) /\ Undisturbed(r)
    <3>1. CASE InHand(r)
      BY <2>1, <3>1, HandsStep DEF LetGo
    <3>2. CASE r \in lost
      BY <2>1, <3>2, StatusStep
    <3>. QED
      BY <2>3, <3>1, <3>2 DEF LiveRequestInHand
  <2>. QED
    BY <2>2, <2>3, LiveStep
<1>. QED
  BY <1>1, <1>2, Safety, PTL DEF Spec

-----------------------------------------------------------------------------
(* A run of the generate task that meets no fault.                          *)

(* Its job is in one hand only, and only while the proposal is unfinished.  *)
OneDelivery ==
  faults = 0 =>
    /\ InHand(GenJob) => status \in {"PENDING", "PROCESSING"}
    /\ GenJob \in undispatched => queue[GenJob] = 0
    /\ queue[GenJob] <= 1
    /\ \A w \in Workers : worker[w].job = GenJob =>
         /\ GenJob \notin undispatched /\ queue[GenJob] = 0
         /\ \A v \in Workers : worker[v].job = GenJob => v = w

Leftover(k) == sections[k].job = GenJob /\ sections[k].status # "COMPLETED"

(* Its worker knows of the section, or the proposal says that one failed.   *)
Accounted(w, k) ==
  /\ worker[w].job = GenJob
  /\ worker[w].pc = "abort" \/ worker[w].failed \/ (worker[w].pc \in RowPC /\ Key(w) = k)

LeftoversKnown ==
  faults = 0 =>
    \A k \in Keys : Leftover(k) =>
      status \in {"FAILED", "COMPLETED_WITH_ERRORS"} \/ \E w \in Workers : Accounted(w, k)

(* Nobody but the worker changes the status of a section its job owns.      *)
SeenIsCurrent ==
  faults = 0 =>
    \A w \in Workers :
      worker[w].pc = "commit" /\ Row(w).job = GenJob => Row(w).status = worker[w].seen.status

RunInv == OneDelivery /\ LeftoversKnown /\ SeenIsCurrent

(* A step of anyone but the generate task.                                  *)
Elsewhere ==
  /\ \A k \in Keys : sections'[k].job = GenJob => sections'[k] = sections[k]
  /\ \A w \in Workers :
       worker[w].job = GenJob \/ worker'[w].job = GenJob => worker'[w] = worker[w]
  /\ status' = status

(* It does not disturb the run.                                             *)
LEMMA ElsewhereRun ==
  ASSUME TypeInv, TypeInv', RunInv, Elsewhere, faults' = 0 => faults = 0
  PROVE  (LeftoversKnown /\ SeenIsCurrent)'
<1>2. \A w \in Workers : worker'[w] = worker[w] => Key(w)' = Key(w)
  BY DEF Key
<1>3. LeftoversKnown'
  <2>. SUFFICES ASSUME faults' = 0, NEW k \in Keys, Leftover(k)'
                PROVE  \/ status' \in {"FAILED", "COMPLETED_WITH_ERRORS"}
                       \/ \E w \in Workers : Accounted(w, k)'
    BY DEF LeftoversKnown
  <2>1. Leftover(k)
    BY DEF Leftover, Elsewhere
  <2>2. CASE status \in {"FAILED", "COMPLETED_WITH_ERRORS"}
    BY <2>2 DEF Elsewhere
  <2>3. ASSUME NEW w \in Workers, Accounted(w, k)
        PROVE  Accounted(w, k)'
    <3>1. worker'[w] = worker[w]
      BY <2>3 DEF Accounted, Elsewhere
    <3>. QED
      BY <1>2, <2>3, <3>1 DEF Accounted
  <2>. QED
    BY <2>1, <2>2, <2>3 DEF RunInv, LeftoversKnown
<1>4. SeenIsCurrent'
  <2>. SUFFICES ASSUME faults' = 0, NEW w \in Workers, worker'[w].pc = "commit", Row(w)'.job = GenJob
                PROVE  Row(w)'.status = worker'[w].seen.status
    BY DEF SeenIsCurrent
  <2>1. worker'[w].job = GenJob
    BY DEF TypeInv, WorkerShape, GeneratePC
  <2>2. worker'[w] = worker[w] /\ Key(w)' = Key(w)
    BY <1>2, <2>1 DEF Elsewhere
  <2>3. Key(w) \in Keys
    BY <2>2, KeyType DEF TypeInv, WorkerShape
  <2>4. Row(w)' = Row(w)
    BY <2>2, <2>3 DEF Row, Elsewhere
  <2>. QED
    BY <2>2, <2>4 DEF RunInv, SeenIsCurrent
<1>. QED
  BY <1>3, <1>4

(* Without a fault nothing is delivered twice.                              *)
LEMMA OneDeliveryStep ==
  ASSUME TypeInv, OneDelivery, [Next]_vars
  PROVE  OneDelivery'
<1>0. /\ worker \in [Workers -> WorkerState] /\ queue \in [Jobs -> Nat] /\ faults \in Nat
      /\ GenJob \in Jobs /\ RegenJobs \subseteq Jobs /\ GenJob \notin RegenJobs
      /\ NoJob # GenJob
  BY JobsAssumption DEF TypeInv, TypeOK, Jobs
<1>q. queue[GenJob] \in Nat
  BY <1>0
<1>1. CASE CreateProposal
  BY <1>q, <1>1 DEF CreateProposal, OneDelivery, InHand
<1>2. CASE \/ \E k \in Keys, v \in 1 .. MaxVersion : EditSection(k, v)
           \/ \E r \in RegenJobs, k \in Keys, v \in 1 .. MaxVersion : RequestRegeneration(r, k, v)
           \/ \E r \in RegenJobs : RegenerateDispatchFails(r)
           \/ GenerateDispatchFails
           \/ UNCHANGED vars
  BY <1>0, <1>2 DEF EditSection, RequestRegeneration, RegenerateDispatchFails,
     GenerateDispatchFails, vars, OneDelivery, InHand
<1>3. ASSUME NEW j \in Jobs, Dispatch(j)
      PROVE  OneDelivery'
  <2>1. /\ j \in undispatched /\ undispatched' = undispatched \ {j}
        /\ queue'[GenJob] = IF j = GenJob THEN queue[GenJob] + 1 ELSE queue[GenJob]
        /\ UNCHANGED <<status, worker, faults>>
    BY <1>0, <1>3 DEF Dispatch, Enqueue
  <2>. QED
    BY <1>q, <2>1 DEF OneDelivery, InHand
<1>4. ASSUME NEW w \in Workers, GenerateStart(w)
      PROVE  OneDelivery'
  <2>. DEFINE state == [Idle EXCEPT !.pc = "extract", !.job = GenJob]
  <2>1. state.job = GenJob /\ Set(w, state)
    BY <1>4, IdleType DEF GenerateStart, WorkerState
  <2>. HIDE DEF state
  <2>2. worker'[w].job = GenJob /\ \A v \in Workers \ {w} : worker'[v] = worker[v]
    BY <1>0, <2>1 DEF Set
  <2>3. /\ queue[GenJob] > 0 /\ queue'[GenJob] = queue[GenJob] - 1 /\ status' = "PROCESSING"
        /\ UNCHANGED <<undispatched, faults>>
    BY <1>0, <1>4 DEF GenerateStart
  <2>. QED
    BY <1>q, <2>2, <2>3 DEF OneDelivery, InHand
<1>5. ASSUME NEW w \in Workers, GenerateFinish(w) \/ GenerateAbort(w)
      PROVE  OneDelivery'
  <2>1. /\ worker[w].job = GenJob /\ worker'[w].job # GenJob
        /\ \A v \in Workers \ {w} : worker'[v] = worker[v]
        /\ UNCHANGED <<undispatched, queue, faults>>
    BY <1>0, <1>5, GenerateEnds, IdleType
  <2>. QED
    BY <1>q, <2>1 DEF OneDelivery, InHand
<1>6. ASSUME NEW w \in Workers, GenerateStep(w), ~GenerateStart(w), ~GenerateFinish(w),
             ~GenerateAbort(w)
      PROVE  OneDelivery'
  <2>1. /\ \A v \in Workers : worker'[v].job = GenJob <=> worker[v].job = GenJob
        /\ UNCHANGED <<status, undispatched, queue, faults>>
    BY <1>6, GenerateRuns
  <2>. QED
    BY <2>1 DEF OneDelivery, InHand
<1>7. ASSUME NEW w \in Workers, NEW r \in RegenJobs, RegenerateStep(w, r)
      PROVE  OneDelivery'
  <2>1. /\ \A v \in Workers : worker'[v].job = GenJob <=> worker[v].job = GenJob
        /\ queue'[GenJob] = queue[GenJob] /\ UNCHANGED <<status, undispatched, faults>>
    BY <1>0, <1>7, RegenerateRuns
  <2>. QED
    BY <2>1 DEF OneDelivery, InHand
<1>8. CASE FaultStep
  <2>1. faults' = faults + 1
    BY <1>8 DEF FaultStep, WorkerCrash, Redelivery, HardTimeLimit, ApiCrash, Fault
  <2>. QED
    BY <1>0, <2>1 DEF OneDelivery
<1>. QED
  BY <1>1, <1>2, <1>3, <1>4, <1>5, <1>6, <1>7, <1>8 DEF Next, ApiStep, WorkerStep

(* A worker that moves within its section, or to the next one.              *)
SameTask(w) == /\ worker'[w].plan = worker[w].plan /\ worker'[w].pos = worker[w].pos
               /\ worker'[w].job = worker[w].job /\ worker'[w].failed = worker[w].failed

LEMMA MovesPC ==
  ASSUME TypeInv, NEW w \in Workers, NEW pc, Set(w, [worker[w] EXCEPT !.pc = pc])
  PROVE  worker'[w].pc = pc /\ worker'[w].seen = worker[w].seen /\ SameTask(w)
<1>. DEFINE state == [worker[w] EXCEPT !.pc = pc]
<1>1. worker \in [Workers -> WorkerState] /\ worker[w] \in WorkerState
  BY DEF TypeInv, TypeOK
<1>2. /\ state.pc = pc /\ state.seen = worker[w].seen /\ state.plan = worker[w].plan
      /\ state.pos = worker[w].pos /\ state.job = worker[w].job
      /\ state.failed = worker[w].failed
  BY <1>1 DEF WorkerState
<1>3. Set(w, state)
  OBVIOUS
<1>. HIDE DEF state
<1>4. worker'[w] = state
  BY <1>1, <1>3 DEF Set
<1>. QED
  BY <1>2, <1>4 DEF SameTask

LEMMA MovesSeen ==
  ASSUME TypeInv, NEW w \in Workers, NEW pc, NEW seen,
         Set(w, [worker[w] EXCEPT !.pc = pc, !.seen = seen])
  PROVE  worker'[w].pc = pc /\ worker'[w].seen = seen /\ SameTask(w)
<1>. DEFINE state == [worker[w] EXCEPT !.pc = pc, !.seen = seen]
<1>1. worker \in [Workers -> WorkerState] /\ worker[w] \in WorkerState
  BY DEF TypeInv, TypeOK
<1>2. /\ state.pc = pc /\ state.seen = seen /\ state.plan = worker[w].plan
      /\ state.pos = worker[w].pos /\ state.job = worker[w].job
      /\ state.failed = worker[w].failed
  BY <1>1 DEF WorkerState
<1>3. Set(w, state)
  OBVIOUS
<1>. HIDE DEF state
<1>4. worker'[w] = state
  BY <1>1, <1>3 DEF Set
<1>. QED
  BY <1>2, <1>4 DEF SameTask

LEMMA MovesOn ==
  ASSUME TypeInv, NEW w \in Workers, NEW done, NEW failed, NextSection(w, done, failed)
  PROVE  worker'[w].pc = "find" /\ (worker[w].failed \/ failed => worker'[w].failed)
<1>. DEFINE state == [worker[w] EXCEPT !.pc = "find", !.pos = @ + 1, !.seen = AbsentRow,
                                       !.done = @ \/ done, !.failed = @ \/ failed]
<1>1. worker \in [Workers -> WorkerState] /\ worker[w] \in WorkerState
  BY DEF TypeInv, TypeOK
<1>2. state.pc = "find" /\ state.failed = (worker[w].failed \/ failed)
  BY <1>1 DEF WorkerState
<1>3. Set(w, state)
  BY DEF NextSection
<1>. HIDE DEF state
<1>4. worker'[w] = state
  BY <1>1, <1>3 DEF Set
<1>. QED
  BY <1>2, <1>4

(* One more step of the worker that runs the job: what it leaves unfinished *)
(* it knows of.                                                             *)
LEMMA WorkerAccounts ==
  ASSUME TypeInv, NEW w \in Workers, GenerateStep(w),
         ~GenerateStart(w), ~GenerateFinish(w), ~GenerateAbort(w),
         \A k \in Keys : Leftover(k) => Accounted(w, k),
         worker[w].pc = "commit" /\ Row(w).job = GenJob =>
           Row(w).status = worker[w].seen.status
  PROVE  /\ \A k \in Keys : Leftover(k)' => Accounted(w, k)'
         /\ worker'[w].pc = "commit" => Row(w)' = worker'[w].seen
<1>0. sections \in [Keys -> SectionRow]
  BY DEF TypeInv, TypeOK
<1>a. worker[w].pc \in {"insert", "claim", "write", "commit", "mark"} =>
        /\ Key(w) \in Keys /\ Row(w) \in SectionRow /\ Row(w) = sections[Key(w)]
  BY KeyType DEF TypeInv, WorkerShape, Row
<1>j. worker'[w].job = GenJob
  BY GenerateRuns
<1>k. SameTask(w) => Key(w)' = Key(w)
  BY DEF SameTask, Key
<1>s. UNCHANGED sections => \A k \in Keys : Leftover(k)' <=> Leftover(k)
  BY DEF Leftover
<1>r. ASSUME NEW row, SetRow(Key(w), row), Key(w) \in Keys
      PROVE  /\ sections'[Key(w)] = row
             /\ \A k \in Keys \ {Key(w)} : Leftover(k)' <=> Leftover(k)
  BY <1>0, <1>r DEF SetRow, Leftover
<1>1. CASE GenerateExtract(w)
  <2>1. PICK plan \in Plans : Set(w, [worker[w] EXCEPT !.pc = "find", !.plan = plan])
    BY <1>1 DEF GenerateExtract
  <2>. DEFINE state == [worker[w] EXCEPT !.pc = "find", !.plan = plan]
  <2>2. state.pc = "find" /\ state.failed = worker[w].failed
    BY DEF TypeInv, TypeOK, WorkerState
  <2>. HIDE DEF state
  <2>3. worker'[w] = state
    BY <2>1 DEF Set, TypeInv, TypeOK, state
  <2>4. worker[w].pc = "extract" /\ UNCHANGED sections
    BY <1>1 DEF GenerateExtract
  <2>. QED
    BY <1>j, <1>s, <2>2, <2>3, <2>4 DEF Accounted, RowPC
<1>2. CASE GenerateFind(w)
  <2>1. worker[w].pc = "find" /\ UNCHANGED sections
    BY <1>2 DEF GenerateFind
  <2>2. \A k \in Keys : Leftover(k) => worker[w].failed
    BY <2>1 DEF Accounted, RowPC
  <2>3. worker'[w].pc # "commit" /\ (worker[w].failed => worker'[w].failed)
    <3>1. CASE NextSection(w, TRUE, FALSE)
      <4>1. worker'[w].pc = "find" /\ (worker[w].failed => worker'[w].failed)
        BY <3>1, MovesOn
      <4>. QED
        BY <4>1
    <3>2. CASE Set(w, [worker[w] EXCEPT !.pc = "insert"])
      <4>1. worker'[w].pc = "insert" /\ SameTask(w)
        BY <3>2, MovesPC
      <4>. QED
        BY <4>1 DEF SameTask
    <3>3. CASE Set(w, [worker[w] EXCEPT !.pc = "claim", !.seen = Row(w)])
      <4>1. worker'[w].pc = "claim" /\ SameTask(w)
        BY <3>3, MovesSeen
      <4>. QED
        BY <4>1 DEF SameTask
    <3>. QED
      BY <1>2, <3>1, <3>2, <3>3 DEF GenerateFind
  <2>. QED
    BY <1>j, <1>s, <2>1, <2>2, <2>3 DEF Accounted
<1>3. CASE GenerateInsert(w)
  <2>1. /\ worker[w].pc = "insert" /\ SetRow(Key(w), InsertedRow(Order(w)))
        /\ Set(w, [worker[w] EXCEPT !.pc = "claim", !.seen = InsertedRow(Order(w))])
    BY <1>3 DEF GenerateInsert
  <2>2. worker'[w].pc = "claim" /\ SameTask(w)
    BY <2>1, MovesSeen
  <2>. QED
    BY <1>a, <1>j, <1>k, <1>r, <2>1, <2>2 DEF Accounted, RowPC, SameTask
<1>4. CASE GenerateClaim(w)
  <2>1. /\ worker[w].pc = "claim" /\ Set(w, [worker[w] EXCEPT !.pc = "write"])
        /\ SetRow(Key(w), ClaimedRow(Row(w), worker[w].seen, Order(w)))
    BY <1>4 DEF GenerateClaim
  <2>2. worker'[w].pc = "write" /\ SameTask(w)
    BY <2>1, MovesPC
  <2>. QED
    BY <1>a, <1>j, <1>k, <1>r, <2>1, <2>2 DEF Accounted, RowPC, SameTask
<1>5. CASE GenerateError(w)
  <2>1. worker'[w].pc = "abort"
    BY <1>5, MovesPC DEF GenerateError
  <2>. QED
    BY <1>j, <2>1 DEF Accounted
<1>6. CASE GenerateReread(w)
  <2>1. worker[w].pc = "write" /\ UNCHANGED sections
    BY <1>6 DEF GenerateReread
  <2>2. CASE Row(w).job = GenJob
    <3>1. worker'[w].pc = "commit" /\ worker'[w].seen = Row(w) /\ SameTask(w)
      BY <1>6, <2>2, MovesSeen DEF GenerateReread
    <3>2. Row(w)' = Row(w)
      BY <1>k, <2>1, <3>1 DEF Row
    <3>. QED
      BY <1>j, <1>k, <1>s, <2>1, <3>1, <3>2 DEF Accounted, RowPC, SameTask
  <2>3. CASE Row(w).job # GenJob
    <3>1. worker'[w].pc = "find" /\ (worker[w].failed => worker'[w].failed)
      BY <1>6, <2>3, MovesOn DEF GenerateReread
    <3>2. ~Leftover(Key(w))
      BY <1>a, <2>1, <2>3 DEF Leftover
    <3>. QED
      BY <1>j, <1>s, <2>1, <3>1, <3>2 DEF Accounted
  <2>. QED
    BY <2>2, <2>3
<1>7. CASE GenerateCommit(w)
  <2>. DEFINE row == GeneratedRow(Row(w), worker[w].seen)
  <2>1. /\ worker[w].pc = "commit" /\ SetRow(Key(w), row) /\ NextSection(w, TRUE, FALSE)
    BY <1>7 DEF GenerateCommit
  <2>2. row.job = GenJob => row.status = "COMPLETED"
    BY <1>a, <2>1 DEF GeneratedRow, Dirty, SectionRow
  <2>. HIDE DEF row
  <2>3. worker'[w].pc = "find" /\ (worker[w].failed => worker'[w].failed)
    BY <2>1, MovesOn
  <2>4. \A k \in Keys : k = Key(w) => ~Leftover(k)'
    <3>1. sections'[Key(w)] = row
      BY <1>a, <1>r, <2>1
    <3>. QED
      BY <2>2, <3>1 DEF Leftover
  <2>. QED
    BY <1>a, <1>j, <1>r, <2>1, <2>3, <2>4 DEF Accounted
<1>8. CASE GenerateSectionFails(w)
  <2>1. worker[w].pc \in {"write", "commit"} /\ UNCHANGED sections
    BY <1>8 DEF GenerateSectionFails
  <2>2. CASE Row(w).job = GenJob
    <3>1. worker'[w].pc = "mark" /\ SameTask(w)
      BY <1>8, <2>2, MovesSeen DEF GenerateSectionFails
    <3>. QED
      BY <1>j, <1>k, <1>s, <2>1, <3>1 DEF Accounted, RowPC, SameTask
  <2>3. CASE Row(w).job # GenJob
    <3>1. worker'[w].pc = "find" /\ worker'[w].failed
      BY <1>8, <2>3, MovesOn DEF GenerateSectionFails
    <3>. QED
      BY <1>j, <3>1 DEF Accounted
  <2>. QED
    BY <2>2, <2>3
<1>9. CASE GenerateMarkFailed(w)
  <2>1. worker'[w].pc = "find" /\ worker'[w].failed
    BY <1>9, MovesOn DEF GenerateMarkFailed
  <2>. QED
    BY <1>j, <2>1 DEF Accounted
<1>. QED
  BY <1>1, <1>2, <1>3, <1>4, <1>5, <1>6, <1>7, <1>8, <1>9 DEF GenerateStep

(* Starts, steps and ends of the task.                                      *)
LEMMA GenerateRunStep ==
  ASSUME TypeInv, TypeInv', RunInv, OneDelivery', NEW w \in Workers, GenerateStep(w)
  PROVE  (LeftoversKnown /\ SeenIsCurrent)'
<1>0. /\ worker \in [Workers -> WorkerState] /\ GenJob \in Jobs
  BY DEF TypeInv, TypeOK, Jobs
<1>f. faults' = faults
  BY DEF GenerateStep, GenerateStart, GenerateExtract, GenerateFind, GenerateInsert, GenerateClaim,
     GenerateError, GenerateReread, GenerateCommit, GenerateSectionFails, GenerateMarkFailed,
     GenerateFinish, GenerateAbort
<1>. SUFFICES ASSUME faults = 0 PROVE (LeftoversKnown /\ SeenIsCurrent)'
  BY <1>f DEF LeftoversKnown, SeenIsCurrent
<1>g. \A v \in Workers : worker'[v].pc = "commit" => worker'[v].job = GenJob
  BY DEF TypeInv, WorkerShape, GeneratePC
<1>h. ASSUME NEW v \in Workers, worker[v].job = GenJob
      PROVE  /\ \A u \in Workers : worker[u].job = GenJob => u = v
             /\ status \notin {"FAILED", "COMPLETED_WITH_ERRORS"}
             /\ \A k \in Keys : Leftover(k) => Accounted(v, k)
  <2>1. status \in {"PENDING", "PROCESSING"} /\ \A u \in Workers : worker[u].job = GenJob => u = v
    BY <1>h DEF RunInv, OneDelivery, InHand
  <2>2. \A u \in Workers, k \in Keys : Accounted(u, k) => u = v
    BY <2>1 DEF Accounted
  <2>. QED
    BY <2>1, <2>2 DEF RunInv, LeftoversKnown
<1>1. CASE GenerateStart(w)
  <2>1. queue[GenJob] > 0 /\ UNCHANGED sections
    BY <1>1 DEF GenerateStart
  <2>2. InHand(GenJob) /\ \A v \in Workers : worker[v].job # GenJob
    BY <2>1 DEF RunInv, OneDelivery, InHand
  <2>3. \A k \in Keys : ~Leftover(k)
    BY <2>2 DEF RunInv, OneDelivery, LeftoversKnown, Accounted
  <2>4. \A k \in Keys : ~Leftover(k)'
    BY <2>1, <2>3 DEF Leftover
  <2>5. \A v \in Workers : worker'[v].pc # "commit"
    <3>. DEFINE state == [Idle EXCEPT !.pc = "extract", !.job = GenJob]
    <3>1. state.pc = "extract" /\ Set(w, state)
      BY <1>1, IdleType DEF GenerateStart, WorkerState
    <3>. HIDE DEF state
    <3>2. \A v \in Workers : worker'[v] = IF v = w THEN state ELSE worker[v]
      BY <1>0, <3>1 DEF Set
    <3>3. \A v \in Workers : worker[v].pc # "commit"
      BY <2>2 DEF TypeInv, WorkerShape, GeneratePC
    <3>. QED
      BY <3>1, <3>2, <3>3
  <2>. QED
    BY <2>4, <2>5 DEF LeftoversKnown, SeenIsCurrent
<1>2. CASE GenerateFinish(w) \/ GenerateAbort(w)
  <2>1. /\ worker[w].job = GenJob /\ worker' = [worker EXCEPT ![w] = Idle] /\ UNCHANGED sections
    BY <1>2, GenerateEnds
  <2>2. \A v \in Workers : worker'[v].job # GenJob
    BY <1>0, <1>h, <2>1, IdleType, JobsAssumption
  <2>3. ASSUME NEW k \in Keys, Leftover(k)'
        PROVE  status' \in {"FAILED", "COMPLETED_WITH_ERRORS"}
    <3>1. Leftover(k)
      BY <2>1, <2>3 DEF Leftover
    <3>2. Accounted(w, k)
      BY <1>h, <2>1, <3>1
    <3>3. CASE GenerateFinish(w)
      <4>1. worker[w].pc = "find" /\ status' = FinalStatus(worker[w].done, worker[w].failed)
        BY <3>3 DEF GenerateFinish
      <4>2. worker[w].failed
        BY <3>2, <4>1 DEF Accounted, RowPC
      <4>. QED
        BY <4>1, <4>2 DEF FinalStatus
    <3>4. CASE GenerateAbort(w)
      BY <3>4 DEF GenerateAbort
    <3>. QED
      BY <1>2, <3>3, <3>4
  <2>. QED
    BY <1>g, <2>2, <2>3 DEF LeftoversKnown, SeenIsCurrent
<1>3. CASE ~GenerateStart(w) /\ ~GenerateFinish(w) /\ ~GenerateAbort(w)
  <2>1. /\ worker[w].job = GenJob /\ worker'[w].job = GenJob
        /\ \A v \in Workers \ {w} : worker'[v] = worker[v]
    BY <1>3, GenerateRuns
  <2>2. \A v \in Workers : worker'[v].job = GenJob => v = w
    BY <1>h, <2>1
  <2>3. worker[w].pc = "commit" /\ Row(w).job = GenJob => Row(w).status = worker[w].seen.status
    BY DEF RunInv, SeenIsCurrent
  <2>4. /\ \A k \in Keys : Leftover(k)' => Accounted(w, k)'
        /\ worker'[w].pc = "commit" => Row(w)' = worker'[w].seen
    BY <1>3, <1>h, <2>1, <2>3, WorkerAccounts
  <2>5. LeftoversKnown'
    BY <2>4 DEF LeftoversKnown
  <2>6. \A v \in Workers : worker'[v].pc = "commit" => Row(v)' = worker'[v].seen
    BY <1>g, <2>2, <2>4
  <2>7. SeenIsCurrent'
    BY <2>6 DEF SeenIsCurrent
  <2>. QED
    BY <2>5, <2>7
<1>. QED
  BY <1>1, <1>2, <1>3

(* Every step.                                                              *)
LEMMA RunStep == SafetyInv /\ RunInv /\ [Next]_vars => RunInv'
<1>. SUFFICES ASSUME SafetyInv, RunInv, [Next]_vars PROVE RunInv'
  OBVIOUS
<1>0. /\ TypeInv /\ sections \in [Keys -> SectionRow] /\ faults \in Nat
      /\ GenJob \notin RegenJobs /\ NoJob # GenJob /\ GenJob \in Jobs
  BY JobsAssumption DEF SafetyInv, TypeInv, TypeOK, Jobs
<1>1. TypeInv'
  BY <1>0, TypeStep
<1>2. OneDelivery'
  BY <1>0, OneDeliveryStep DEF RunInv
<1>r. ASSUME NEW k, NEW row, SetRow(k, row), row.job # GenJob
      PROVE  \A l \in Keys : sections'[l].job = GenJob => sections'[l] = sections[l]
  BY <1>0, <1>r DEF SetRow
<1>3. ASSUME NEW w \in Workers, GenerateStep(w)
      PROVE  (LeftoversKnown /\ SeenIsCurrent)'
  BY <1>0, <1>1, <1>2, <1>3, GenerateRunStep
<1>4. CASE FaultStep
  <2>1. faults' # 0
    BY <1>0, <1>4 DEF FaultStep, WorkerCrash, Redelivery, HardTimeLimit, ApiCrash, Fault
  <2>. QED
    BY <1>2, <2>1 DEF RunInv, LeftoversKnown, SeenIsCurrent
<1>5. ASSUME NEW k \in Keys, NEW v \in 1 .. MaxVersion, EditSection(k, v)
      PROVE  Elsewhere /\ faults' = faults
  <2>1. EditedRow(sections[k]).job # GenJob
    BY <1>0 DEF EditedRow, SectionRow
  <2>. QED
    BY <1>5, <1>r, <2>1 DEF EditSection, Elsewhere
<1>6. ASSUME NEW r \in RegenJobs, NEW k \in Keys, NEW v \in 1 .. MaxVersion,
             RequestRegeneration(r, k, v)
      PROVE  Elsewhere /\ faults' = faults
  <2>1. RequestedRow(sections[k], r).job # GenJob
    BY <1>0, RowOwner
  <2>. QED
    BY <1>6, <1>r, <2>1 DEF RequestRegeneration, Elsewhere
<1>7. ASSUME NEW r \in RegenJobs, RegenerateDispatchFails(r)
      PROVE  Elsewhere /\ faults' = faults
  <2>1. request[r].key \in Keys /\ Target(r) \in SectionRow
    BY <1>0, <1>7, TargetType DEF RegenerateDispatchFails, TypeInv, UnaskedUnknown, InHand
  <2>2. QueueUnavailableRow(Target(r)).job # GenJob
    BY <1>0, <2>1 DEF QueueUnavailableRow, SectionRow
  <2>. QED
    BY <1>7, <1>r, <2>2 DEF RegenerateDispatchFails, Elsewhere
<1>8. ASSUME (\E j \in Jobs : Dispatch(j)) \/ GenerateDispatchFails \/ UNCHANGED vars
      PROVE  Elsewhere /\ faults' = faults
  BY <1>8 DEF Dispatch, GenerateDispatchFails, vars, Elsewhere
<1>9. ASSUME NEW w \in Workers, NEW r \in RegenJobs, RegenerateStep(w, r)
      PROVE  Elsewhere /\ faults' = faults
  <2>1. worker[w].job = r => request[r].key \in Keys /\ Target(r) \in SectionRow
    BY <1>0, TargetType DEF TypeInv, UnaskedUnknown, InHand
  <2>2. \A k \in Keys : sections'[k].job = GenJob => sections'[k] = sections[k]
    <3>1. CASE RegenerateCommit(w, r)
      <4>1. RegeneratedRow(Target(r)).job # GenJob
        BY <1>0, <2>1, <3>1 DEF RegenerateCommit, RegeneratedRow, SectionRow
      <4>. QED
        BY <1>r, <3>1, <4>1 DEF RegenerateCommit
    <3>2. CASE RegenerateMarkFailed(w, r)
      <4>1. RegenerationFailedRow(Target(r), worker[w].seen).job # GenJob
        BY <1>0, <2>1, <3>2 DEF RegenerateMarkFailed, RegenerationFailedRow, SectionRow
      <4>. QED
        BY <1>r, <3>2, <4>1 DEF RegenerateMarkFailed
    <3>3. CASE RegenerateStart(w, r) \/ \E retry \in BOOLEAN : RegenerateFails(w, r, retry)
      BY <3>3 DEF RegenerateStart, RegenerateFails
    <3>. QED
      BY <1>9, <3>1, <3>2, <3>3 DEF RegenerateStep
  <2>. QED
    BY <1>0, <1>9, <2>2, RegenerateRuns DEF Elsewhere
<1>10. CASE CreateProposal
  <2>1. /\ status = "NONE" /\ UNCHANGED <<sections, worker, faults>>
    BY <1>10 DEF CreateProposal
  <2>2. faults = 0 => \A w \in Workers : worker[w].job # GenJob
    BY <2>1 DEF RunInv, OneDelivery, InHand
  <2>3. faults = 0 => \A k \in Keys : ~Leftover(k)
    BY <2>1, <2>2 DEF RunInv, LeftoversKnown, Accounted
  <2>4. faults = 0 => \A w \in Workers : worker[w].pc # "commit"
    BY <1>0, <2>2 DEF TypeInv, WorkerShape, GeneratePC
  <2>. QED
    BY <1>2, <2>1, <2>3, <2>4 DEF RunInv, LeftoversKnown, SeenIsCurrent, Leftover
<1>11. CASE Elsewhere /\ faults' = faults
  BY <1>0, <1>1, <1>2, <1>11, ElsewhereRun DEF RunInv
<1>. QED
  BY <1>2, <1>3, <1>4, <1>5, <1>6, <1>7, <1>8, <1>9, <1>10, <1>11
     DEF Next, ApiStep, WorkerStep, RunInv

(* A proposal reported COMPLETED by a job that met no fault has no section  *)
(* which that job still owns and did not finish, for any plan, whatever the *)
(* users edit and regenerate meanwhile.                                     *)
THEOREM CompletedLeavesNothing == Spec => []CompletedOwnsNoLeftovers
<1>1. Init => RunInv
  <2>. SUFFICES ASSUME Init PROVE RunInv
    OBVIOUS
  <2>1. /\ \A w \in Workers : worker[w].job # GenJob /\ worker[w].pc = "idle"
        /\ \A k \in Keys : sections[k].job # GenJob
        /\ queue[GenJob] = 0 /\ undispatched = {}
    BY IdleType, JobsAssumption DEF Init, AbsentRow, Jobs
  <2>. QED
    BY <2>1 DEF RunInv, OneDelivery, LeftoversKnown, SeenIsCurrent, InHand, Leftover
<1>2. RunInv => CompletedOwnsNoLeftovers
  <2>. SUFFICES ASSUME RunInv, status = "COMPLETED", faults = 0, NEW k \in Keys, Leftover(k)
                PROVE  FALSE
    BY DEF CompletedOwnsNoLeftovers, Leftover
  <2>1. PICK w \in Workers : worker[w].job = GenJob
    BY DEF RunInv, LeftoversKnown, Accounted
  <2>. QED
    BY <2>1 DEF RunInv, OneDelivery, InHand
<1>. QED
  BY <1>1, <1>2, RunStep, Safety, PTL DEF Spec

-----------------------------------------------------------------------------
(* Deliveries.  Each message of the generate job, sent or to be sent, and   *)
(* each worker that has not passed a section may write it once more.        *)

MayWrite(w, k) ==
  /\ worker[w].job = GenJob
  /\ \/ worker[w].pc = "extract"
     \/ \E i \in 1 .. Len(worker[w].plan) : i >= worker[w].pos /\ worker[w].plan[i] = k

Ahead(k) == {w \in Workers : MayWrite(w, k)}
Unsent == IF GenJob \in undispatched THEN 1 ELSE 0
Created == IF status = "NONE" THEN 0 ELSE 1

DeliveryInv ==
  \A k \in Keys :
    writes[k][GenJob] + Unsent + queue[GenJob] + Cardinality(Ahead(k)) <= Created + faults

LEMMA AheadCounts ==
  ASSUME NEW S, NEW T, S \subseteq Workers, T \subseteq Workers
  PROVE  /\ Cardinality(S) \in Nat
         /\ T \subseteq S => Cardinality(T) <= Cardinality(S)
         /\ \A w \in S : T \subseteq S \ {w} => Cardinality(T) + 1 <= Cardinality(S)
         /\ \A w : T \subseteq S \cup {w} => Cardinality(T) <= Cardinality(S) + 1
<1>1. IsFiniteSet(S) /\ IsFiniteSet(T)
  BY BoundsAssumption, FS_Subset
<1>2. Cardinality(S) \in Nat /\ Cardinality(T) \in Nat
  BY <1>1, FS_CardinalityType
<1>3. T \subseteq S => Cardinality(T) <= Cardinality(S)
  BY <1>1, FS_Subset
<1>4. ASSUME NEW w \in S, T \subseteq S \ {w} PROVE Cardinality(T) + 1 <= Cardinality(S)
  <2>1. IsFiniteSet(S \ {w}) /\ Cardinality(S \ {w}) = Cardinality(S) - 1
    BY <1>1, FS_RemoveElement
  <2>2. Cardinality(T) <= Cardinality(S \ {w})
    BY <1>4, <2>1, FS_Subset
  <2>. QED
    BY <1>2, <2>1, <2>2
<1>5. ASSUME NEW w, T \subseteq S \cup {w} PROVE Cardinality(T) <= Cardinality(S) + 1
  <2>1. /\ IsFiniteSet(S \cup {w})
        /\ Cardinality(S \cup {w}) = Cardinality(S) \/ Cardinality(S \cup {w}) = Cardinality(S) + 1
    BY <1>1, FS_AddElement
  <2>2. Cardinality(T) <= Cardinality(S \cup {w})
    BY <1>5, <2>1, FS_Subset
  <2>. QED
    BY <1>2, <2>1, <2>2
<1>. QED
  BY <1>2, <1>3, <1>4, <1>5

(* What moving on to the next section leaves of a worker's state.           *)
LEMMA MovesAhead ==
  ASSUME TypeInv, NEW w \in Workers, NEW done, NEW failed, NextSection(w, done, failed)
  PROVE  /\ worker'[w].pc = "find" /\ worker'[w].job = worker[w].job
         /\ worker'[w].plan = worker[w].plan /\ worker'[w].pos = worker[w].pos + 1
         /\ worker[w].pos \in Nat
<1>. DEFINE state == [worker[w] EXCEPT !.pc = "find", !.pos = @ + 1, !.seen = AbsentRow,
                                      !.done = @ \/ done, !.failed = @ \/ failed]
<1>1. worker \in [Workers -> WorkerState] /\ worker[w] \in WorkerState
  BY DEF TypeInv, TypeOK
<1>2. /\ state.pc = "find" /\ state.job = worker[w].job /\ state.plan = worker[w].plan
      /\ state.pos = worker[w].pos + 1 /\ worker[w].pos \in Nat
  BY <1>1 DEF WorkerState
<1>3. Set(w, state)
  BY DEF NextSection
<1>. HIDE DEF state
<1>4. worker'[w] = state
  BY <1>1, <1>3 DEF Set
<1>. QED
  BY <1>2, <1>4

LEMMA OthersAhead ==
  ASSUME NEW w \in Workers, NEW k \in Keys, \A v \in Workers \ {w} : worker'[v] = worker[v]
  PROVE  /\ Ahead(k)' \subseteq Ahead(k) \cup {w}
         /\ ~MayWrite(w, k)' => Ahead(k)' \subseteq Ahead(k) \ {w}
         /\ (MayWrite(w, k)' => MayWrite(w, k)) => Ahead(k)' \subseteq Ahead(k)
BY DEF Ahead, MayWrite

(* Within its task a worker never gets back to a section it has passed.     *)
LEMMA GenerateAhead ==
  ASSUME TypeInv, NEW w \in Workers, GenerateStep(w), ~GenerateStart(w), NEW k \in Keys
  PROVE  Ahead(k)' \subseteq Ahead(k)
<1>0. /\ worker \in [Workers -> WorkerState] /\ GenJob # NoJob
      /\ \A pc, plan : \A v \in Workers \ {w} :
           /\ Set(w, Idle) => worker'[v] = worker[v]
           /\ Set(w, [worker[w] EXCEPT !.pc = pc, !.plan = plan]) => worker'[v] = worker[v]
  BY JobsAssumption, SetPC DEF TypeInv, TypeOK
<1>1. CASE GenerateFinish(w) \/ GenerateAbort(w)
  <2>1. worker' = [worker EXCEPT ![w] = Idle]
    BY <1>1, GenerateEnds
  <2>2. worker'[w].job = NoJob /\ \A v \in Workers \ {w} : worker'[v] = worker[v]
    BY <1>0, <2>1, IdleType
  <2>. QED
    BY <1>0, <2>2, OthersAhead DEF MayWrite
<1>2. CASE ~GenerateFinish(w) /\ ~GenerateAbort(w)
  <2>1. /\ worker[w].job = GenJob /\ \A v \in Workers \ {w} : worker'[v] = worker[v]
    BY <1>2, GenerateRuns
  <2>2. SUFFICES MayWrite(w, k)' => MayWrite(w, k)
    BY <2>1, OthersAhead
  <2>3. ASSUME NEW done, NEW failed, NextSection(w, done, failed)
        PROVE  MayWrite(w, k)' => MayWrite(w, k)
    BY <2>3, MovesAhead DEF MayWrite
  <2>4. ASSUME SameTask(w), worker'[w].pc # "extract"
        PROVE  MayWrite(w, k)' => MayWrite(w, k)
    BY <2>4 DEF MayWrite, SameTask
  <2>5. CASE GenerateExtract(w)
    BY <2>1, <2>5 DEF GenerateExtract, MayWrite
  <2>7. ASSUME NEW pc \in {"insert", "write", "abort"}, Set(w, [worker[w] EXCEPT !.pc = pc])
        PROVE  MayWrite(w, k)' => MayWrite(w, k)
    <3>1. worker'[w].pc = pc /\ SameTask(w)
      BY <2>7, MovesPC
    <3>. QED
      BY <2>4, <3>1
  <2>13. CASE GenerateClaim(w)
    <3>1. Set(w, [worker[w] EXCEPT !.pc = "write"])
      BY <2>13 DEF GenerateClaim
    <3>. QED
      BY <2>7, <3>1
  <2>14. CASE GenerateError(w)
    <3>1. Set(w, [worker[w] EXCEPT !.pc = "abort"])
      BY <2>14 DEF GenerateError
    <3>. QED
      BY <2>7, <3>1
  <2>8. ASSUME NEW pc \in {"claim", "commit", "mark"}, NEW seen,
               Set(w, [worker[w] EXCEPT !.pc = pc, !.seen = seen])
        PROVE  MayWrite(w, k)' => MayWrite(w, k)
    <3>1. worker'[w].pc = pc /\ SameTask(w)
      BY <2>8, MovesSeen
    <3>. QED
      BY <2>4, <3>1
  <2>6. CASE GenerateFind(w)
    <3>1. CASE NextSection(w, TRUE, FALSE)
      BY <2>3, <3>1
    <3>2. CASE Set(w, [worker[w] EXCEPT !.pc = "insert"])
      BY <2>7, <3>2
    <3>3. CASE Set(w, [worker[w] EXCEPT !.pc = "claim", !.seen = Row(w)])
      BY <2>8, <3>3
    <3>. QED
      BY <2>6, <3>1, <3>2, <3>3 DEF GenerateFind
  <2>10. CASE GenerateInsert(w)
    <3>1. Set(w, [worker[w] EXCEPT !.pc = "claim", !.seen = InsertedRow(Order(w))])
      BY <2>10 DEF GenerateInsert
    <3>. QED
      BY <2>8, <3>1
  <2>11. CASE GenerateReread(w)
    <3>1. CASE Set(w, [worker[w] EXCEPT !.pc = "commit", !.seen = Row(w)])
      BY <2>8, <3>1
    <3>. QED
      BY <2>3, <2>11, <3>1 DEF GenerateReread
  <2>12. CASE GenerateSectionFails(w)
    <3>1. CASE Set(w, [worker[w] EXCEPT !.pc = "mark", !.seen = Row(w)])
      BY <2>8, <3>1
    <3>. QED
      BY <2>3, <2>12, <3>1 DEF GenerateSectionFails
  <2>9. CASE GenerateCommit(w) \/ GenerateMarkFailed(w)
    BY <2>3, <2>9 DEF GenerateCommit, GenerateMarkFailed
  <2>. QED
    BY <1>2, <2>5, <2>6, <2>7, <2>9, <2>10, <2>11, <2>12, <2>13, <2>14
        DEF GenerateStep
<1>. QED
  BY <1>1, <1>2

(* Writing a section is passing it, when an extraction names no section     *)
(* twice.                                                                   *)
PlansAreDistinct ==
  \A plan \in Plans : \A i, j \in 1 .. Len(plan) : plan[i] = plan[j] => i = j

LEMMA CommitPasses ==
  ASSUME TypeInv, PlansAreDistinct, NEW w \in Workers, GenerateCommit(w),
         NEW k \in Keys, k = Key(w)
  PROVE  w \in Ahead(k) /\ Ahead(k)' \subseteq Ahead(k) \ {w}
<1>0. /\ worker \in [Workers -> WorkerState] /\ worker[w] \in WorkerState
      /\ worker[w].pc = "commit" /\ NextSection(w, TRUE, FALSE)
  BY DEF TypeInv, TypeOK, GenerateCommit
<1>a. worker[w].job = GenJob /\ worker[w].pos > 0 /\ ~PlanDone(w)
  BY <1>0 DEF TypeInv, WorkerShape, GeneratePC
<1>1. worker[w].plan \in Plans \cup {<<>>} /\ worker[w].pos \in Nat
  BY <1>0 DEF WorkerState
<1>3. worker[w].plan \in Plans
  BY <1>a, <1>1 DEF PlanDone
<1>2. worker[w].plan \in Seq(Keys)
  BY <1>3, PlansAssumption
<1>4. worker[w].pos \in 1 .. Len(worker[w].plan)
  BY <1>a, <1>1, <1>2 DEF PlanDone
<1>b. k = worker[w].plan[worker[w].pos]
  BY DEF Key
<1>5. MayWrite(w, k)
  BY <1>a, <1>1, <1>4, <1>b DEF MayWrite
<1>6. \A v \in Workers \ {w} : worker'[v] = worker[v]
  BY SetPC, <1>0 DEF NextSection
<1>7. \A i \in 1 .. Len(worker[w].plan) : worker[w].plan[i] = k => i = worker[w].pos
  BY <1>3, <1>4, <1>b DEF PlansAreDistinct
<1>8. /\ worker'[w].pc = "find" /\ worker'[w].plan = worker[w].plan
      /\ worker'[w].pos = worker[w].pos + 1
  BY <1>0, MovesAhead
<1>9. ~MayWrite(w, k)'
  <2>1. ASSUME NEW i \in 1 .. Len(worker[w].plan), i >= worker[w].pos + 1
        PROVE  worker[w].plan[i] # k
    <3>1. i # worker[w].pos
      BY <1>1, <2>1
    <3>. QED
      BY <1>7, <3>1
  <2>. QED
    BY <1>8, <2>1 DEF MayWrite
<1>. QED
  BY <1>5, <1>6, <1>9, OthersAhead DEF Ahead

-----------------------------------------------------------------------------
(* The terms of DeliveryInv are numbers.                                    *)
LEMMA DeliveryTypes ==
  ASSUME TypeInv, NEW k \in Keys
  PROVE  /\ writes[k][GenJob] \in Nat /\ queue[GenJob] \in Nat /\ faults \in Nat
         /\ Unsent \in {0, 1} /\ Created \in {0, 1}
         /\ Cardinality(Ahead(k)) \in Nat
<1>1. /\ writes \in [Keys -> [Jobs -> Nat]] /\ queue \in [Jobs -> Nat] /\ faults \in Nat
      /\ GenJob \in Jobs
  BY DEF TypeInv, TypeOK, Jobs
<1>2. writes[k] \in [Jobs -> Nat]
  BY <1>1
<1>3. Unsent \in {0, 1} /\ Created \in {0, 1}
  BY DEF Unsent, Created
<1>4. Ahead(k) \subseteq Workers
  BY DEF Ahead
<1>5. Cardinality(Ahead(k)) \in Nat
  BY <1>4, AheadCounts
<1>. QED
  BY <1>1, <1>2, <1>3, <1>5

(* A generate message that is sent, received, dropped or sent again.        *)
LEMMA HandlersDeliver ==
  ASSUME TypeInv, ApiStep, NEW k \in Keys
  PROVE  /\ UNCHANGED <<worker, faults>> /\ writes'[k][GenJob] = writes[k][GenJob]
         /\ Unsent' + queue'[GenJob] + Created <= Unsent + queue[GenJob] + Created'
<1>0. /\ queue[GenJob] \in Nat /\ queue \in [Jobs -> Nat]
      /\ Unsent \in {0, 1} /\ Created \in {0, 1} /\ Unsent' \in {0, 1}
      /\ GenJob \in Jobs /\ GenJob \notin RegenJobs
  BY DeliveryTypes, JobsAssumption DEF TypeInv, TypeOK, Jobs, Unsent
<1>1. CASE CreateProposal
  BY <1>0, <1>1 DEF CreateProposal, Created
<1>2. CASE \/ \E l \in Keys, v \in 1 .. MaxVersion : EditSection(l, v)
           \/ \E r \in RegenJobs, l \in Keys, v \in 1 .. MaxVersion : RequestRegeneration(r, l, v)
           \/ \E r \in RegenJobs : RegenerateDispatchFails(r)
  <2>1. /\ UNCHANGED <<status, queue, worker, faults, writes>>
        /\ GenJob \in undispatched' <=> GenJob \in undispatched
    BY <1>0, <1>2 DEF EditSection, RequestRegeneration, RegenerateDispatchFails
  <2>. QED
    BY <1>0, <2>1 DEF Unsent, Created
<1>3. CASE GenerateDispatchFails
  <2>1. UNCHANGED <<status, queue, worker, faults, writes>> /\ Unsent' = 0
    BY <1>3 DEF GenerateDispatchFails, Unsent
  <2>. QED
    BY <1>0, <2>1 DEF Created
<1>4. ASSUME NEW j \in Jobs, Dispatch(j)
      PROVE  /\ UNCHANGED <<worker, faults>> /\ writes'[k][GenJob] = writes[k][GenJob]
             /\ Unsent' + queue'[GenJob] + Created <= Unsent + queue[GenJob] + Created'
  <2>1. /\ j \in undispatched /\ undispatched' = undispatched \ {j}
        /\ queue'[GenJob] = IF j = GenJob THEN queue[GenJob] + 1 ELSE queue[GenJob]
        /\ UNCHANGED <<status, worker, faults, writes>>
    BY <1>0, <1>4 DEF Dispatch, Enqueue
  <2>2. Unsent' = IF j = GenJob THEN 0 ELSE Unsent
    BY <2>1 DEF Unsent
  <2>3. j = GenJob => Unsent = 1
    BY <2>1 DEF Unsent
  <2>4. Created' = Created
    BY <2>1 DEF Created
  <2>. QED
    BY <1>0, <2>1, <2>2, <2>3, <2>4
<1>. QED
  BY <1>1, <1>2, <1>3, <1>4 DEF ApiStep

LEMMA FaultsDeliver ==
  ASSUME TypeInv, FaultStep, NEW k \in Keys
  PROVE  /\ writes'[k][GenJob] = writes[k][GenJob] /\ faults' = faults + 1
         /\ Unsent' + queue'[GenJob] <= Unsent + queue[GenJob] + 1 /\ Created' = Created
         /\ Ahead(k)' \subseteq Ahead(k)
<1>0. /\ queue[GenJob] \in Nat /\ queue \in [Jobs -> Nat] /\ Unsent \in {0, 1}
      /\ worker \in [Workers -> WorkerState] /\ GenJob \in Jobs /\ GenJob # NoJob
  BY DeliveryTypes, JobsAssumption DEF TypeInv, TypeOK, Jobs
<1>1. UNCHANGED <<writes, status>> /\ faults' = faults + 1 /\ Created' = Created
  BY DEF FaultStep, WorkerCrash, Redelivery, HardTimeLimit, ApiCrash, Fault, Created
<1>2. ASSUME NEW w \in Workers, Set(w, Idle)
      PROVE  Ahead(k)' \subseteq Ahead(k)
  <2>1. worker'[w].job = NoJob /\ \A v \in Workers \ {w} : worker'[v] = worker[v]
    BY <1>0, <1>2, IdleType DEF Set
  <2>. QED
    BY <1>0, <2>1, OthersAhead DEF MayWrite
<1>3. UNCHANGED worker => Ahead(k)' \subseteq Ahead(k)
  BY DEF Ahead, MayWrite
<1>4. ASSUME NEW w \in Workers, WorkerCrash(w) \/ Redelivery(w) \/ HardTimeLimit(w)
      PROVE  /\ Unsent' + queue'[GenJob] <= Unsent + queue[GenJob] + 1
             /\ Ahead(k)' \subseteq Ahead(k)
  <2>1. Set(w, Idle) \/ UNCHANGED worker
    BY <1>4 DEF WorkerCrash, Redelivery, HardTimeLimit
  <2>2. Unsent' = Unsent
    BY <1>4 DEF WorkerCrash, Redelivery, HardTimeLimit, Unsent
  <2>3. queue'[GenJob] \in {queue[GenJob], queue[GenJob] + 1}
    BY <1>0, <1>4 DEF WorkerCrash, Redelivery, HardTimeLimit, Enqueue
  <2>. QED
    BY <1>0, <1>2, <1>3, <2>1, <2>2, <2>3
<1>5. ASSUME NEW j \in Jobs, ApiCrash(j)
      PROVE  /\ Unsent' + queue'[GenJob] <= Unsent + queue[GenJob] + 1
             /\ Ahead(k)' \subseteq Ahead(k)
  <2>1. UNCHANGED <<queue, worker>> /\ Unsent' \in {0, 1}
    BY <1>5 DEF ApiCrash, Unsent
  <2>. QED
    BY <1>0, <1>3, <2>1
<1>. QED
  BY <1>1, <1>4, <1>5 DEF FaultStep

(* What a worker takes from the broker it has ahead of it; what it writes   *)
(* it has behind it.                                                        *)
LEMMA WorkersDeliver ==
  ASSUME TypeInv, PlansAreDistinct, NEW w \in Workers, WorkerStep(w), NEW k \in Keys
  PROVE  /\ UNCHANGED <<undispatched, faults>> /\ Created <= Created'
         /\ \/ /\ writes'[k][GenJob] = writes[k][GenJob]
               /\ queue'[GenJob] = queue[GenJob]
               /\ Ahead(k)' \subseteq Ahead(k)
            \/ /\ writes'[k][GenJob] = writes[k][GenJob]
               /\ queue[GenJob] > 0 /\ queue'[GenJob] = queue[GenJob] - 1
               /\ Ahead(k)' \subseteq Ahead(k) \cup {w}
            \/ /\ writes'[k][GenJob] = writes[k][GenJob] + 1
               /\ queue'[GenJob] = queue[GenJob]
               /\ w \in Ahead(k) /\ Ahead(k)' \subseteq Ahead(k) \ {w}
<1>0. /\ queue \in [Jobs -> Nat] /\ queue[GenJob] \in Nat /\ writes[k][GenJob] \in Nat
      /\ worker \in [Workers -> WorkerState] /\ GenJob \in Jobs /\ RegenJobs \subseteq Jobs
      /\ GenJob \notin RegenJobs /\ GenJob # NoJob
  BY DeliveryTypes, JobsAssumption DEF TypeInv, TypeOK, Jobs
<1>1. CASE GenerateStart(w)
  <2>. DEFINE state == [Idle EXCEPT !.pc = "extract", !.job = GenJob]
  <2>1. Set(w, state)
    BY <1>1 DEF GenerateStart
  <2>. HIDE DEF state
  <2>2. \A v \in Workers \ {w} : worker'[v] = worker[v]
    BY <1>0, <2>1 DEF Set
  <2>3. /\ queue[GenJob] > 0 /\ queue'[GenJob] = queue[GenJob] - 1 /\ status' = "PROCESSING"
        /\ UNCHANGED <<undispatched, faults, writes>>
    BY <1>0, <1>1 DEF GenerateStart
  <2>4. Ahead(k)' \subseteq Ahead(k) \cup {w}
    BY <2>2, OthersAhead
  <2>5. Created <= Created'
    BY <2>3 DEF Created
  <2>. QED
    BY <2>3, <2>4, <2>5
<1>2. CASE GenerateStep(w) /\ ~GenerateStart(w)
  <2>1. Ahead(k)' \subseteq Ahead(k)
    BY <1>2, GenerateAhead
  <2>2. UNCHANGED <<undispatched, queue, faults>> /\ Created <= Created'
    <3>1. CASE GenerateFinish(w) \/ GenerateAbort(w)
      BY <3>1, GenerateEnds DEF TerminalStatus, Created
    <3>2. CASE ~GenerateFinish(w) /\ ~GenerateAbort(w)
      BY <1>2, <3>2, GenerateRuns DEF Created
    <3>. QED
      BY <3>1, <3>2
  <2>3. CASE GenerateCommit(w) /\ k = Key(w)
    <3>1. writes'[k][GenJob] = writes[k][GenJob] + 1
      BY <1>0, <2>3, CountWriteType DEF GenerateCommit, TypeInv
    <3>2. w \in Ahead(k) /\ Ahead(k)' \subseteq Ahead(k) \ {w}
      BY <2>3, CommitPasses
    <3>. QED
      BY <2>2, <3>1, <3>2
  <2>4. CASE GenerateCommit(w) /\ k # Key(w)
    <3>1. Key(w) \in Keys
      BY <2>4, KeyType DEF TypeInv, WorkerShape, GenerateCommit
    <3>2. writes'[k][GenJob] = writes[k][GenJob]
      BY <1>0, <2>4, <3>1, CountWriteType DEF GenerateCommit, TypeInv
    <3>. QED
      BY <2>1, <2>2, <3>2
  <2>5. CASE ~GenerateCommit(w)
    <3>1. UNCHANGED writes
      BY <1>2, <2>5 DEF GenerateStep, GenerateExtract, GenerateFind, GenerateInsert,
         GenerateClaim, GenerateError, GenerateReread, GenerateSectionFails,
         GenerateMarkFailed, GenerateFinish, GenerateAbort
    <3>. QED
      BY <2>1, <2>2, <3>1
  <2>. QED
    BY <2>3, <2>4, <2>5
<1>3. ASSUME NEW r \in RegenJobs, RegenerateStep(w, r)
      PROVE  /\ UNCHANGED <<undispatched, faults>> /\ Created <= Created'
             /\ writes'[k][GenJob] = writes[k][GenJob]
             /\ queue'[GenJob] = queue[GenJob]
             /\ Ahead(k)' \subseteq Ahead(k)
  <2>1. /\ worker'[w].job \in {r, NoJob} /\ \A v \in Workers \ {w} : worker'[v] = worker[v]
        /\ queue'[GenJob] = queue[GenJob] /\ UNCHANGED <<status, undispatched, faults>>
    BY <1>0, <1>3, RegenerateRuns
  <2>2. Ahead(k)' \subseteq Ahead(k)
    BY <1>0, <2>1, OthersAhead DEF MayWrite
  <2>3. writes'[k][GenJob] = writes[k][GenJob]
    <3>1. CASE UNCHANGED writes
      BY <3>1
    <3>2. CASE RegenerateCommit(w, r) /\ LiveRequest(r)
      <4>1. request[r].key \in Keys
        BY <3>2, TargetType DEF LiveRequest, TypeInv
      <4>. QED
        BY <1>0, <3>2, <4>1, CountWriteType DEF RegenerateCommit, TypeInv
    <3>. QED
      BY <1>3, <3>1, <3>2 DEF RegenerateStep, RegenerateStart, RegenerateCommit,
            RegenerateFails, RegenerateMarkFailed
  <2>4. Created <= Created'
    BY <2>1 DEF Created
  <2>. QED
    BY <2>1, <2>2, <2>3, <2>4
<1>. QED
  BY <1>1, <1>2, <1>3 DEF WorkerStep

LEMMA DeliveryStep ==
  ASSUME PlansAreDistinct, TypeInv, TypeInv', DeliveryInv, [Next]_vars
  PROVE  DeliveryInv'
<1>. SUFFICES ASSUME NEW k \in Keys
             PROVE  writes'[k][GenJob] + Unsent' + queue'[GenJob] + Cardinality(Ahead(k)')
                      <= Created' + faults'
  BY DEF DeliveryInv
<1>t. /\ writes[k][GenJob] \in Nat /\ queue[GenJob] \in Nat /\ faults \in Nat
      /\ Unsent \in {0, 1} /\ Created \in {0, 1}
      /\ Cardinality(Ahead(k)) \in Nat
  BY DeliveryTypes
<1>u. /\ writes'[k][GenJob] \in Nat /\ queue'[GenJob] \in Nat /\ faults' \in Nat
      /\ Unsent' \in {0, 1} /\ Created' \in {0, 1}
      /\ Cardinality(Ahead(k)') \in Nat
  <2>1. /\ writes' \in [Keys -> [Jobs -> Nat]] /\ queue' \in [Jobs -> Nat] /\ faults' \in Nat
        /\ GenJob \in Jobs
    BY DEF TypeInv, TypeOK, Jobs
  <2>2. Unsent' \in {0, 1} /\ Created' \in {0, 1}
    BY DEF Unsent, Created
  <2>3. Ahead(k)' \subseteq Workers
    BY DEF Ahead
  <2>4. Cardinality(Ahead(k)') \in Nat
    BY <2>3, AheadCounts
  <2>. QED
    BY <2>1, <2>2, <2>4
<1>i. writes[k][GenJob] + Unsent + queue[GenJob] + Cardinality(Ahead(k)) <= Created + faults
  BY DEF DeliveryInv
<1>s. Ahead(k) \subseteq Workers /\ Ahead(k)' \subseteq Workers
  BY DEF Ahead
<1>c. /\ Ahead(k)' \subseteq Ahead(k) => Cardinality(Ahead(k)') <= Cardinality(Ahead(k))
      /\ \A w \in Ahead(k) : Ahead(k)' \subseteq Ahead(k) \ {w}
                             => Cardinality(Ahead(k)') + 1 <= Cardinality(Ahead(k))
      /\ \A w : Ahead(k)' \subseteq Ahead(k) \cup {w}
               => Cardinality(Ahead(k)') <= Cardinality(Ahead(k)) + 1
  BY <1>s, AheadCounts
<1>1. CASE ApiStep
  <2>1. /\ UNCHANGED <<worker, faults>> /\ writes'[k][GenJob] = writes[k][GenJob]
        /\ Unsent' + queue'[GenJob] + Created <= Unsent + queue[GenJob] + Created'
    BY <1>1, HandlersDeliver
  <2>2. Ahead(k)' \subseteq Ahead(k)
    BY <2>1 DEF Ahead, MayWrite
  <2>3. Cardinality(Ahead(k)') <= Cardinality(Ahead(k))
    BY <1>c, <2>2
  <2>. QED
    BY <1>t, <1>u, <1>i, <2>1, <2>3
<1>2. CASE FaultStep
  <2>1. /\ writes'[k][GenJob] = writes[k][GenJob] /\ faults' = faults + 1
        /\ Unsent' + queue'[GenJob] <= Unsent + queue[GenJob] + 1 /\ Created' = Created
        /\ Ahead(k)' \subseteq Ahead(k)
    BY <1>2, FaultsDeliver
  <2>2. Cardinality(Ahead(k)') <= Cardinality(Ahead(k))
    BY <1>c, <2>1
  <2>. QED
    BY <1>t, <1>u, <1>i, <2>1, <2>2
<1>3. ASSUME NEW w \in Workers, WorkerStep(w)
      PROVE  writes'[k][GenJob] + Unsent' + queue'[GenJob] + Cardinality(Ahead(k)')
               <= Created' + faults'
  <2>1. UNCHANGED <<undispatched, faults>> /\ Created <= Created'
    BY <1>3, WorkersDeliver
  <2>2. Unsent' = Unsent
    BY <2>1 DEF Unsent
  <2>3. CASE /\ writes'[k][GenJob] = writes[k][GenJob]
             /\ queue'[GenJob] = queue[GenJob]
             /\ Ahead(k)' \subseteq Ahead(k)
    BY <1>t, <1>u, <1>i, <1>c, <2>1, <2>2, <2>3
  <2>4. CASE /\ writes'[k][GenJob] = writes[k][GenJob]
             /\ queue[GenJob] > 0 /\ queue'[GenJob] = queue[GenJob] - 1
             /\ Ahead(k)' \subseteq Ahead(k) \cup {w}
    <3>1. Cardinality(Ahead(k)') <= Cardinality(Ahead(k)) + 1
      BY <1>c, <2>4
    <3>. QED
      BY <1>t, <1>u, <1>i, <2>1, <2>2, <2>4, <3>1
  <2>5. CASE /\ writes'[k][GenJob] = writes[k][GenJob] + 1
             /\ queue'[GenJob] = queue[GenJob]
             /\ w \in Ahead(k) /\ Ahead(k)' \subseteq Ahead(k) \ {w}
    BY <1>t, <1>u, <1>i, <1>c, <2>1, <2>2, <2>5
  <2>. QED
    BY <1>3, <2>3, <2>4, <2>5, WorkersDeliver
<1>4. CASE UNCHANGED vars
  BY <1>i, <1>4 DEF vars, Unsent, Created, Ahead, MayWrite
<1>. QED
  BY <1>1, <1>2, <1>3, <1>4 DEF Next

(* However users, workers and faults interleave, the generate job runs over *)
(* a section at most once, and once more for every fault, provided that no  *)
(* extraction names a section twice (what _unique_section_key is for).      *)
THEOREM GeneratedPerDelivery ==
  ASSUME PlansAreDistinct
  PROVE  Spec => []GeneratedOncePerDelivery
<1>1. Init => DeliveryInv
  <2>. SUFFICES ASSUME Init, NEW k \in Keys
               PROVE  writes[k][GenJob] + Unsent + queue[GenJob] + Cardinality(Ahead(k))
                        <= Created + faults
    BY DEF DeliveryInv
  <2>1. writes[k][GenJob] = 0 /\ Unsent = 0 /\ queue[GenJob] = 0 /\ Created = 0 /\ faults = 0
    BY DEF Init, Jobs, Unsent, Created
  <2>2. Ahead(k) = {}
    BY IdleType, JobsAssumption DEF Init, Ahead, MayWrite
  <2>3. Cardinality(Ahead(k)) = 0
    BY <2>2, FS_EmptySet
  <2>. QED
    BY <2>1, <2>3
<1>2. TypeInv /\ DeliveryInv => GeneratedOncePerDelivery
  <2>. SUFFICES ASSUME TypeInv, DeliveryInv, NEW k \in Keys
               PROVE  writes[k][GenJob] <= 1 + faults
    BY DEF GeneratedOncePerDelivery
  <2>1. writes[k][GenJob] + Unsent + queue[GenJob] + Cardinality(Ahead(k)) <= Created + faults
    BY DEF DeliveryInv
  <2>. QED
    BY <2>1, DeliveryTypes
<1>3. TypeInv /\ DeliveryInv /\ [Next]_vars => TypeInv' /\ DeliveryInv'
  BY TypeStep, DeliveryStep
<1>. QED
  BY <1>1, <1>2, <1>3, TypeInit, PTL DEF Spec

-----------------------------------------------------------------------------
(* The refinement.                                                          *)

AskedSet == {r \in RegenJobs : Asked(r)}
Holder == [k \in Keys |-> IF sections[k].job \in RegenJobs THEN sections[k].job ELSE NoJob]
Published == {r \in RegenJobs : \E k \in Keys : writes[k][r] > 0}
Edits == [k \in Keys |-> sections[k].edited]

(* Replacing one row replaces one holder and one count of edits.            *)
LEMMA UpdateMaps ==
  ASSUME TypeInv, NEW k \in Keys, NEW row \in SectionRow, Update(k, row)
  PROVE  /\ Holder' = [Holder EXCEPT ![k] = IF row.job \in RegenJobs THEN row.job ELSE NoJob]
         /\ Edits' = [Edits EXCEPT ![k] = row.edited]
         /\ row.edited = sections[k].edited => Edits' = Edits
         /\ row.job = sections[k].job => Holder' = Holder
<1>1. \A l \in Keys : sections'[l] = IF l = k THEN row ELSE sections[l]
  BY DEF TypeInv, TypeOK, Update, SetRow
<1>. QED
  BY <1>1 DEF Holder, Edits

LEMMA ProtocolInit == Init => Protocol!Init
<1>. SUFFICES ASSUME Init PROVE Protocol!Init
  OBVIOUS
<1>1. /\ \A r \in RegenJobs : ~Asked(r)
      /\ \A k \in Keys : sections[k] = AbsentRow
      /\ \A k \in Keys, r \in RegenJobs : writes[k][r] = 0
  BY DEF Init, Asked, NotAsked, Jobs
<1>2. AbsentRow.job = NoJob /\ AbsentRow.edited = 0
  BY DEF AbsentRow
<1>. QED
  BY <1>1, <1>2, JobsAssumption DEF Protocol!Init

LEMMA ProtocolStep == SafetyInv /\ [Next]_vars => [Protocol!Next]_(Protocol!vars)
<1>. SUFFICES ASSUME SafetyInv, [Next]_vars PROVE [Protocol!Next]_(Protocol!vars)
  OBVIOUS
<1>0. /\ TypeInv /\ RowsStay /\ Ownership
      /\ sections \in [Keys -> SectionRow] /\ writes \in [Keys -> [Jobs -> Nat]]
      /\ request \in [RegenJobs -> [key : Keys \cup {NoKey}, base : Nat,
                                    edited : Nat, generated : Nat]]
      /\ RegenJobs \subseteq Jobs /\ GenJob \notin RegenJobs /\ NoJob \notin RegenJobs
  BY JobsAssumption DEF SafetyInv, TypeInv, TypeOK, Ownership, Jobs
<1>. USE DEF Protocol!Next, Protocol!vars, Protocol!Ask, Protocol!Publish, Protocol!Withdraw,
             Protocol!Edit
<1>s. StepKind
  BY <1>0, EveryKind
<1>a. UNCHANGED request => AskedSet' = AskedSet
  BY DEF AskedSet, Asked
<1>p. RegenWritesKept => Published' = Published
  BY DEF RegenWritesKept, Published
<1>1. CASE QuietStep
  <2>1. AskedSet' = AskedSet /\ Published' = Published
    BY <1>1, <1>a, <1>p DEF QuietStep
  <2>2. CASE UNCHANGED sections
    BY <2>1, <2>2 DEF AskedSet, Published
  <2>3. ASSUME NEW k \in Keys, NEW row \in SectionRow, Update(k, row),
               row.job \in {sections[k].job, GenJob, NoJob}, row.edited = sections[k].edited
        PROVE  [Protocol!Next]_(Protocol!vars)
    <3>1. Edits' = Edits
      BY <1>0, <2>3, UpdateMaps
    <3>2. Holder' = Holder \/ Holder' = [Holder EXCEPT ![k] = NoJob]
      BY <1>0, <2>3, UpdateMaps
    <3>. QED
      BY <2>1, <3>1, <3>2 DEF AskedSet, Published, Edits, Holder
  <2>. QED
    BY <1>1, <2>2, <2>3 DEF QuietStep
<1>2. CASE UserStep
  <2>1. PICK k \in Keys, row \in SectionRow :
          Update(k, row) /\ row.job = NoJob /\ row.edited = sections[k].edited + 1
    BY <1>2 DEF UserStep
  <2>2. AskedSet' = AskedSet /\ Published' = Published
    BY <1>2, <1>a, <1>p DEF UserStep, RegenWritesKept
  <2>3. Holder' = [Holder EXCEPT ![k] = NoJob]
    BY <1>0, <2>1, UpdateMaps
  <2>4. Edits' = [Edits EXCEPT ![k] = Edits[k] + 1]
    <3>1. Edits[k] = sections[k].edited
      BY DEF Edits
    <3>2. Edits' = [Edits EXCEPT ![k] = row.edited]
      BY <1>0, <2>1, UpdateMaps
    <3>. QED
      BY <2>1, <3>1, <3>2
  <2>. QED
    BY <2>2, <2>3, <2>4 DEF AskedSet, Published, Edits, Holder
<1>3. CASE AskStep
  <2>1. PICK k \in Keys, r \in RegenJobs, row \in SectionRow, base \in Nat :
          /\ ~Asked(r)
          /\ Update(k, row) /\ row.job = r /\ row.edited = sections[k].edited
          /\ request' = [request EXCEPT ![r] = [key |-> k, base |-> base,
                                                edited |-> sections[k].edited,
                                                generated |-> writes[k][GenJob]]]
    BY <1>3 DEF AskStep
  <2>2. /\ \A i \in RegenJobs \ {r} : request'[i] = request[i]
        /\ request'[r].key = k
    BY <1>0, <2>1
  <2>3. r \notin AskedSet /\ AskedSet' = AskedSet \cup {r}
    <3>1. Asked(r)' /\ \A i \in RegenJobs \ {r} : Asked(i)' <=> Asked(i)
      BY <2>2, BoundsAssumption DEF Asked
    <3>. QED
      BY <2>1, <3>1 DEF AskedSet
  <2>4. Published' = Published
    BY <1>3 DEF AskStep, Published
  <2>5. Holder' = [Holder EXCEPT ![k] = r]
    BY <1>0, <2>1, UpdateMaps
  <2>6. Edits' = Edits
    BY <1>0, <2>1, UpdateMaps
  <2>. QED
    BY <2>3, <2>4, <2>5, <2>6 DEF AskedSet, Published, Edits, Holder
<1>4. CASE PublishStep
  <2>1. PICK k \in Keys, r \in RegenJobs, row \in SectionRow :
          /\ sections[k].job = r
          /\ Update(k, row) /\ row.job = NoJob /\ row.edited = sections[k].edited
          /\ CountWrite(k, r)
    BY <1>4 DEF PublishStep
  <2>2. AskedSet' = AskedSet
    BY <1>4, <1>a DEF PublishStep
  <2>3. Published' = Published \cup {r}
    <3>1. \A l \in Keys, i \in Jobs :
            writes'[l][i] = IF l = k /\ i = r THEN writes[l][i] + 1 ELSE writes[l][i]
      BY <1>0, <2>1, CountWriteType DEF TypeInv
    <3>2. writes'[k][r] > 0
      BY <1>0, <3>1
    <3>. QED
      BY <1>0, <3>1, <3>2 DEF Published
  <2>4. Holder[k] = r /\ Holder' = [Holder EXCEPT ![k] = NoJob]
    BY <1>0, <2>1, UpdateMaps DEF Holder
  <2>5. Edits' = Edits
    BY <1>0, <2>1, UpdateMaps
  <2>. QED
    BY <2>2, <2>3, <2>4, <2>5 DEF AskedSet, Published, Edits, Holder
<1>. QED
  BY <1>s, <1>1, <1>2, <1>3, <1>4 DEF StepKind

(* The two Celery tasks, the API handlers and every fault together behave   *)
(* as the abstract protocol of RegenerationRequests: a request publishes    *)
(* only while it holds its section, and never holds it again afterwards.    *)
THEOREM ImplementsProtocol == Spec => RegenerationProtocol
<1>1. Spec => Protocol!Init /\ [][Protocol!Next]_(Protocol!vars)
  BY ProtocolInit, ProtocolStep, Safety, PTL DEF Spec
<1>. QED
  BY <1>1 DEF RegenerationProtocol, Protocol!Spec

=============================================================================
