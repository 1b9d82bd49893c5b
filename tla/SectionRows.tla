----------------------------- MODULE SectionRows -----------------------------
(***************************************************************************)
(* One row of proposal_sections, and what each writer of the backend does  *)
(* to it.  Every operator below is the effect of one UPDATE or INSERT on    *)
(* the row the database holds when the statement runs, so it is atomic for *)
(* the row (PostgreSQL locks the row and re-evaluates the WHERE clause).   *)
(*                                                                         *)
(* Writers come in two styles.  The API edits, the regenerate request and  *)
(* the regeneration result are compare-and-swap UPDATEs.  The generate     *)
(* task and the failure handlers read an ORM object and flush it later:    *)
(* the flush has no guard on the version and names only the columns whose  *)
(* value differs from the one that was read (see Dirty).                   *)
(***************************************************************************)
EXTENDS Naturals

CONSTANTS
  Keys,       \* section_key values of one proposal
  GenJob,     \* proposal.generation_job_id, set once by create_proposal
  RegenJobs,  \* the uuid4 values regenerate_proposal_section may draw
  NoJob       \* NULL in generation_job_id

ASSUME JobsAssumption ==
  /\ GenJob \notin RegenJobs
  /\ NoJob \notin RegenJobs
  /\ NoJob # GenJob

Jobs == RegenJobs \cup {GenJob}

SectionStatus == {"PENDING", "GENERATING", "COMPLETED", "FAILED"}

(***************************************************************************)
(* "ABSENT" stands for no row.  edited is the number of accepted user      *)
(* edits, which is what edited_at and edited_by record.  The text itself,  *)
(* last_error_code (written with each status) and generation_base_version  *)
(* (which no code reads) are left out.                                     *)
(***************************************************************************)
SectionRow == [status  : SectionStatus \cup {"ABSENT"},
               version : Nat,
               job     : Jobs \cup {NoJob},
               order   : Nat,
               edited  : Nat]

AbsentRow == [status |-> "ABSENT", version |-> 0, job |-> NoJob,
              order |-> 0, edited |-> 0]

Present(row) == row.status # "ABSENT"

\* The value a column has after an ORM flush that assigned new over seen.
Dirty(seen, new, current) == IF seen = new THEN current ELSE new

-----------------------------------------------------------------------------
(* Guards of the compare-and-swap UPDATEs.                                 *)

VersionMatches(row, expected) == Present(row) /\ row.version = expected

\* Mutant: the regeneration result is written by id alone.
RegenOwnsById(row, job, base) == Present(row)

RegenOwns(row, job, base) ==
  /\ Present(row)
  /\ row.job = job
  /\ row.version = base

-----------------------------------------------------------------------------
(* Compare-and-swap writers.                                               *)

\* Mutant: an edit bumps the version and forgets to release the section.
EditedRowKeepsJob(row) ==
  [row EXCEPT !.status = "COMPLETED", !.version = @ + 1, !.edited = @ + 1]

EditedRow(row) ==
  [row EXCEPT !.status = "COMPLETED", !.version = @ + 1, !.edited = @ + 1,
              !.job = NoJob]

\* Mutant: a status the Enum column does not have.
RequestedRowUnlisted(row, job) ==
  [row EXCEPT !.status = "REGENERATING", !.job = job]

RequestedRow(row, job) == [row EXCEPT !.status = "GENERATING", !.job = job]

RegeneratedRow(row) ==
  [row EXCEPT !.status = "COMPLETED", !.version = @ + 1, !.job = NoJob]

-----------------------------------------------------------------------------
(* Unguarded writers.  seen is the row as the task last read it.           *)

InsertedRow(order) ==
  [AbsentRow EXCEPT !.status = "PENDING", !.version = 1, !.job = GenJob,
                    !.order = order]

ClaimedRow(row, seen, order) ==
  [row EXCEPT !.status = Dirty(seen.status, "GENERATING", @),
              !.job    = Dirty(seen.job, GenJob, @),
              !.order  = Dirty(seen.order, order, @)]

GeneratedRow(row, seen) ==
  [row EXCEPT !.status  = Dirty(seen.status, "COMPLETED", @),
              !.version = seen.version + 1]

\* Mutant: a failed section is released instead of marked.
GenerationFailedReleases(row, seen) == [row EXCEPT !.job = NoJob]

GenerationFailedRow(row, seen) ==
  [row EXCEPT !.status = Dirty(seen.status, "FAILED", @)]

RegenerationFailedRow(row, seen) ==
  [row EXCEPT !.status = Dirty(seen.status, "FAILED", @), !.job = NoJob]

\* Mutant: the dispatch error is reported to the client only.
QueueErrorUnrecorded(row) == row

QueueUnavailableRow(row) == [row EXCEPT !.status = "FAILED", !.job = NoJob]

=============================================================================
