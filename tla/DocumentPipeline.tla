-------------------------- MODULE DocumentPipeline --------------------------
(***************************************************************************)
(* Company documents of one organisation and the profile extracted from    *)
(* them: the upload handler (routers/uploads.py), the Celery task          *)
(* process_company_document (worker.py), the file store (services/s3.py)   *)
(* and the text extraction (services/extraction.py).                       *)
(*                                                                         *)
(* The upload handler sends the task's message before the transaction that *)
(* inserts the document commits: get_async_db commits when the handler is  *)
(* left.  The task is acknowledged late, and turns every error into FAILED.*)
(***************************************************************************)
EXTENDS Naturals, FiniteSets

CONSTANTS
  Docs,        \* uploads
  NoDoc,
  Processors,  \* Celery workers
  MaxOutages   \* bound: crashes, redeliveries and lost connections

ASSUME DocumentAssumption == NoDoc \notin Docs /\ IsFiniteSet(Processors)

(* What an upload declares and holds.  "unreadable" makes the extractor     *)
(* raise; "msword" is a DOCX archive declared as application/msword, which  *)
(* the handler accepts and the extractor takes for empty; "undeclared" has  *)
(* no content type.                                                         *)
Declared == {"readable", "unreadable", "msword", "undeclared"}

VARIABLES
  kind,       \* of each upload
  upload,     \* where its request is
  object,     \* uploads whose file is in the store
  document,   \* the committed row's status
  inbox,      \* messages of each document in the broker
  processor,
  unseen,     \* documents whose message is gone: it came before the commit, or
              \* the hard time limit acknowledged it
  applied,    \* how often the profile was overwritten from each document
  outages

uVars == <<kind, upload, object, document, inbox, processor, unseen, applied, outages>>

Status == {"NONE", "PENDING", "PROCESSED", "FAILED"}
Processor == [pc : {"idle", "extract", "index", "profile", "mark", "fail"},
              doc : Docs \cup {NoDoc},
              loaded : Status \cup {"expired"}]
IdleProcessor == [pc |-> "idle", doc |-> NoDoc, loaded |-> "NONE"]

UInit ==
  /\ kind \in [Docs -> Declared]
  /\ upload = [d \in Docs |-> "new"]
  /\ object = {}
  /\ document = [d \in Docs |-> "NONE"]
  /\ inbox = [d \in Docs |-> 0]
  /\ processor = [w \in Processors |-> IdleProcessor]
  /\ unseen = {}
  /\ applied = [d \in Docs |-> 0]
  /\ outages = 0

SetProcessor(w, state) == processor' = [processor EXCEPT ![w] = state]
SetUpload(d, pc) == upload' = [upload EXCEPT ![d] = pc]
Outage == outages < MaxOutages /\ outages' = outages + 1

-----------------------------------------------------------------------------
(* upload_company_document.  An upload that is too large, has no name, is   *)
(* neither PDF nor DOCX or is an unsafe archive is refused before this.     *)

UploadStore(d) ==
  /\ upload[d] = "new"
  /\ object' = object \cup {d}
  /\ SetUpload(d, "stored")
  /\ UNCHANGED <<kind, document, inbox, processor, unseen, applied, outages>>

\* The INSERT is flushed; without a content type it is refused, and the file
\* stays behind.
UploadFlush(d) ==
  /\ upload[d] = "stored"
  /\ SetUpload(d, IF kind[d] = "undeclared" THEN "over" ELSE "flushed")
  /\ UNCHANGED <<kind, object, document, inbox, processor, unseen, applied, outages>>

\* Mutant: the task's message is sent twice.
UploadDispatchTwice(d) ==
  /\ upload[d] = "flushed"
  /\ inbox' = [inbox EXCEPT ![d] = @ + 2]
  /\ SetUpload(d, "sent")
  /\ UNCHANGED <<kind, object, document, processor, unseen, applied, outages>>

UploadDispatch(d) ==
  /\ upload[d] = "flushed"
  /\ inbox' = [inbox EXCEPT ![d] = @ + 1]
  /\ SetUpload(d, "sent")
  /\ UNCHANGED <<kind, object, document, processor, unseen, applied, outages>>

UploadCommit(d) ==
  /\ upload[d] = "sent"
  /\ document' = [document EXCEPT ![d] = "PENDING"]
  /\ SetUpload(d, "over")
  /\ UNCHANGED <<kind, object, inbox, processor, unseen, applied, outages>>

\* The broker or the database fails, or the process ends: the row is rolled
\* back, the file and the message are not.
UploadFails(d) ==
  /\ upload[d] \in {"stored", "flushed", "sent"}
  /\ Outage
  /\ SetUpload(d, "over")
  /\ UNCHANGED <<kind, object, document, inbox, processor, unseen, applied>>

UploadStep(d) == UploadStore(d) \/ UploadFlush(d) \/ UploadDispatch(d) \/ UploadCommit(d)

-----------------------------------------------------------------------------
(* process_company_document.                                               *)

ProcessStart(w, d) ==
  /\ processor[w].pc = "idle"
  /\ inbox[d] > 0
  /\ inbox' = [inbox EXCEPT ![d] = @ - 1]
  /\ IF document[d] = "NONE"
       THEN unseen' = unseen \cup {d} /\ UNCHANGED processor
       ELSE /\ SetProcessor(w, [pc |-> "extract", doc |-> d, loaded |-> document[d]])
            /\ UNCHANGED unseen
  /\ UNCHANGED <<kind, upload, object, document, applied, outages>>

\* get_fileobj and extract_text.
ProcessExtract(w) ==
  LET p == processor[w]
  IN  /\ p.pc = "extract"
      /\ p.doc \in object /\ kind[p.doc] # "unreadable"
      /\ SetProcessor(w, [p EXCEPT !.pc = "index"])
      /\ UNCHANGED <<kind, upload, object, document, inbox, unseen, applied, outages>>

\* upsert_text: an index that refuses the vectors, or is missing, is passed over.
ProcessIndex(w) ==
  /\ processor[w].pc = "index"
  /\ SetProcessor(w, [processor[w] EXCEPT !.pc = "profile"])
  /\ UNCHANGED <<kind, upload, object, document, inbox, unseen, applied, outages>>

\* extract_company_profile: its commit expires the document, and an LLM that
\* fails or answers nonsense is passed over.
ProcessProfile(w) ==
  LET p == processor[w]
  IN  /\ p.pc = "profile"
      /\ \/ /\ applied' = [applied EXCEPT ![p.doc] = @ + 1]
            /\ SetProcessor(w, [p EXCEPT !.pc = "mark", !.loaded = "expired"])
         \/ /\ SetProcessor(w, [p EXCEPT !.pc = "mark"])
            /\ UNCHANGED applied
      /\ UNCHANGED <<kind, upload, object, document, inbox, unseen, outages>>

\* An assignment that changes nothing the session has loaded writes nothing.
SetStatus(d, loaded, new) ==
  document' = IF loaded = new THEN document ELSE [document EXCEPT ![d] = new]

ProcessMark(w) ==
  LET p == processor[w]
  IN  /\ p.pc = "mark"
      /\ SetStatus(p.doc, p.loaded, "PROCESSED")
      /\ SetProcessor(w, IdleProcessor)
      /\ UNCHANGED <<kind, upload, object, inbox, unseen, applied, outages>>

\* An exception, the soft time limit included: roll back and read the row again.
ProcessRaises(w) ==
  LET p == processor[w]
  IN  /\ p.pc \in {"extract", "index", "profile", "mark"}
      /\ SetProcessor(w, [p EXCEPT !.pc = "fail", !.loaded = document[p.doc]])
      /\ UNCHANGED <<kind, upload, object, document, inbox, unseen, applied, outages>>

\* Mutant: the handler rolls back and forgets the status.
ProcessFailUnrecorded(w) ==
  /\ processor[w].pc = "fail"
  /\ SetProcessor(w, IdleProcessor)
  /\ UNCHANGED <<kind, upload, object, document, inbox, unseen, applied, outages>>

ProcessFail(w) ==
  LET p == processor[w]
  IN  /\ p.pc = "fail"
      /\ SetStatus(p.doc, p.loaded, "FAILED")
      /\ SetProcessor(w, IdleProcessor)
      /\ UNCHANGED <<kind, upload, object, inbox, unseen, applied, outages>>

\* A lost worker's message is delivered again, and so is, up to max_retries
\* times, one whose exception handler raised.
ProcessAgain(w) ==
  /\ processor[w].pc # "idle"
  /\ Outage
  /\ inbox' = [inbox EXCEPT ![processor[w].doc] = @ + 1]
  /\ SetProcessor(w, IdleProcessor)
  /\ UNCHANGED <<kind, upload, object, document, unseen, applied>>

\* The broker connection drops, and the task goes on.
ProcessRedelivered(w) ==
  /\ processor[w].pc # "idle"
  /\ Outage
  /\ inbox' = [inbox EXCEPT ![processor[w].doc] = @ + 1]
  /\ UNCHANGED <<kind, upload, object, document, processor, unseen, applied>>

\* time_limit ends the worker and acknowledges the message.
ProcessTimesOut(w) ==
  /\ processor[w].pc # "idle"
  /\ Outage
  /\ unseen' = unseen \cup {processor[w].doc}
  /\ SetProcessor(w, IdleProcessor)
  /\ UNCHANGED <<kind, upload, object, document, inbox, applied>>

ProcessStep(w) ==
  \/ \E d \in Docs : ProcessStart(w, d)
  \/ ProcessExtract(w)
  \/ ProcessIndex(w)
  \/ ProcessProfile(w)
  \/ ProcessMark(w)
  \/ ProcessRaises(w)
  \/ ProcessFail(w)

-----------------------------------------------------------------------------

UNext ==
  \/ \E d \in Docs : UploadStep(d) \/ UploadFails(d)
  \/ \E w \in Processors :
       \/ ProcessStep(w)
       \/ ProcessAgain(w)
       \/ ProcessRedelivered(w)
       \/ ProcessTimesOut(w)

UFairness == \A w \in Processors : WF_uVars(ProcessStep(w))

USpec == UInit /\ [][UNext]_uVars /\ UFairness

-----------------------------------------------------------------------------
(* Properties.                                                             *)

UTypeOK ==
  /\ kind \in [Docs -> Declared]
  /\ upload \in [Docs -> {"new", "stored", "flushed", "sent", "over"}]
  /\ object \subseteq Docs
  /\ document \in [Docs -> Status]
  /\ inbox \in [Docs -> Nat]
  /\ processor \in [Processors -> Processor]
  /\ unseen \subseteq Docs
  /\ applied \in [Docs -> Nat]
  /\ outages \in Nat

Ongoing(d) == inbox[d] > 0 \/ \E w \in Processors : processor[w].doc = d

(* A document whose row says PENDING has its file in the store, and a       *)
(* message or a worker, unless its one message came before the row did or   *)
(* was acknowledged unprocessed: nothing else looks at the document again.  *)
PendingInHand ==
  \A d \in Docs :
    document[d] = "PENDING" => d \in object /\ (d \in unseen \/ Ongoing(d))

(* A document overwrites the organisation's profile, and the corrections    *)
(* made to it, once, and at most once more for every outage.                *)
ProfileOncePerDelivery == \A d \in Docs : applied[d] <= 1 + outages

(* Every document whose message was not lost is PROCESSED or FAILED in the  *)
(* end.                                                                     *)
DocumentSettles ==
  \A d \in Docs :
    document[d] = "PENDING" ~> document[d] \in {"PROCESSED", "FAILED"} \/ d \in unseen

=============================================================================
