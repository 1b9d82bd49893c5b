---------------------------- MODULE GrantMatching ----------------------------
(***************************************************************************)
(* Grant matches of one organisation and the e-mail alerts about them: the *)
(* hourly Celery task scan_for_new_matches (worker.py) and the dashboard's *)
(* GrantMatchingService (services/matching.py), which both fill the table  *)
(* grant_matches.                                                          *)
(*                                                                         *)
(* Both look a match up, ask an LLM to explain it and insert it; the index *)
(* uq_grant_matches_org_grant decides between them.  Whoever of the scans  *)
(* inserts the row mails the users, after its commit.  Organisations share *)
(* nothing but a sweep, which an error in one of them ends for the others. *)
(***************************************************************************)
EXTENDS Naturals

CONSTANTS
  Grants,      \* grants in the database
  NoGrant,
  Users,       \* active users of the organisation, which has alerts enabled
  Scanners,    \* Celery workers
  Readers,     \* dashboard requests that may be in progress at once
  Production,  \* settings.ENVIRONMENT is staging or production
  MaxScans,    \* bound: sweeps the beat schedule starts
  MaxFaults    \* bound: crashes, errors and refused mails

ASSUME MatchingAssumption ==
  /\ NoGrant \notin Grants
  /\ Production \in BOOLEAN

(* Where a row of grant_matches comes from and what its score is: a scan    *)
(* with a similarity or with an invented score, the dashboard with a        *)
(* similarity or, degraded, with NULL.                                      *)
Inserted == {"scanned", "fabricated", "cached", "degraded"}
Match == Inserted \cup {"absent"}

VARIABLES
  match,    \* the organisation's row of each grant
  mailed,   \* alerts SES took, for each user and grant
  scans,    \* messages in the queue
  scanner,
  reader,
  begun,    \* sweeps the beat schedule has started
  faults

vars == <<match, mailed, scans, scanner, reader, begun, faults>>

ScannerState == [pc : {"idle", "sweep", "insert", "mail"}, todo : SUBSET Grants,
                 as : {"scanned", "fabricated"}, grant : Grants \cup {NoGrant},
                 to : SUBSET Users]
IdleScanner == [pc |-> "idle", todo |-> {}, as |-> "scanned", grant |-> NoGrant, to |-> {}]

ReaderState == [busy : BOOLEAN, todo : SUBSET Grants, as : {"cached", "degraded"}]
IdleReader == [busy |-> FALSE, todo |-> {}, as |-> "cached"]

Init ==
  /\ match = [g \in Grants |-> "absent"]
  /\ mailed = [u \in Users |-> [g \in Grants |-> 0]]
  /\ scans = 0
  /\ scanner = [w \in Scanners |-> IdleScanner]
  /\ reader = [d \in Readers |-> IdleReader]
  /\ begun = 0
  /\ faults = 0

Fault == faults < MaxFaults /\ faults' = faults + 1

SetScanner(w, state) == scanner' = [scanner EXCEPT ![w] = state]
SetReader(d, state) == reader' = [reader EXCEPT ![d] = state]

-----------------------------------------------------------------------------
(* scan_for_new_matches.                                                   *)

\* The beat schedule queues a sweep every hour.
Beat ==
  /\ begun < MaxScans
  /\ begun' = begun + 1
  /\ scans' = scans + 1
  /\ UNCHANGED <<match, mailed, scanner, reader, faults>>

\* Mutant: a grant that is gone from the database but not from the index.
StaleHits == SUBSET (Grants \cup {NoGrant})

\* The grants that reach the match threshold; an id the database does not
\* have is passed over.
Hits == SUBSET Grants

\* The search answers, or fails or finds nothing and the first grants of the
\* database get a score.
ScanStart(w) ==
  /\ scanner[w].pc = "idle"
  /\ scans > 0
  /\ scans' = scans - 1
  /\ \E todo \in Hits, as \in {"scanned", "fabricated"} :
       SetScanner(w, [IdleScanner EXCEPT !.pc = "sweep", !.todo = todo, !.as = as])
  /\ UNCHANGED <<match, mailed, reader, begun, faults>>

\* One grant: a row that is there already ends it, else the LLM is asked.
ScanLookup(w, g) ==
  /\ scanner[w].pc = "sweep"
  /\ g \in scanner[w].todo
  /\ SetScanner(w, [scanner[w] EXCEPT !.todo = @ \ {g}, !.grant = g,
                                      !.pc = IF match[g] = "absent" THEN "insert" ELSE "sweep"])
  /\ UNCHANGED <<match, mailed, scans, reader, begun, faults>>

\* Mutant: grant_matches without its unique index.
NoUniqueIndex(g) == TRUE

\* uq_grant_matches_org_grant
InsertSucceeds(g) == match[g] = "absent"

\* Mutant: the users' query ends in first() instead of all().
FirstUserOnly(g) == {CHOOSE u \in Users : TRUE}

Recipients(g) == Users

ScanInsert(w) ==
  LET g == scanner[w].grant
  IN  /\ scanner[w].pc = "insert"
      /\ IF InsertSucceeds(g)
           THEN /\ match' = [match EXCEPT ![g] = scanner[w].as]
                /\ SetScanner(w, [scanner[w] EXCEPT !.pc = "mail", !.to = Recipients(g)])
           ELSE /\ SetScanner(w, [scanner[w] EXCEPT !.pc = "sweep"])
                /\ UNCHANGED match
      /\ UNCHANGED <<mailed, scans, reader, begun, faults>>

\* send_match_alert never raises: a mail SES refuses is logged and forgotten.
SendMatchAlert(u, g) ==
  \/ mailed' = [mailed EXCEPT ![u][g] = @ + 1] /\ UNCHANGED faults
  \/ Fault /\ UNCHANGED mailed

ScanMail(w, u) ==
  /\ scanner[w].pc = "mail"
  /\ u \in scanner[w].to
  /\ SetScanner(w, [scanner[w] EXCEPT !.to = @ \ {u}])
  /\ SendMatchAlert(u, scanner[w].grant)
  /\ UNCHANGED <<match, scans, reader, begun>>

ScanMailed(w) ==
  /\ scanner[w].pc = "mail"
  /\ scanner[w].to = {}
  /\ SetScanner(w, [scanner[w] EXCEPT !.pc = "sweep"])
  /\ UNCHANGED <<match, mailed, scans, reader, begun, faults>>

ScanEnd(w) ==
  /\ scanner[w].pc = "sweep"
  /\ scanner[w].todo = {}
  /\ SetScanner(w, IdleScanner)
  /\ UNCHANGED <<match, mailed, scans, reader, begun, faults>>

\* The outer except logs the error and returns: the message is acknowledged
\* and autoretry_for never sees the exception.
ScanFails(w) ==
  /\ scanner[w].pc # "idle"
  /\ Fault
  /\ SetScanner(w, IdleScanner)
  /\ UNCHANGED <<match, mailed, scans, reader, begun>>

\* A lost worker's message is delivered again (task_acks_late).
ScannerCrash(w) ==
  /\ scanner[w].pc # "idle"
  /\ Fault
  /\ scans' = scans + 1
  /\ SetScanner(w, IdleScanner)
  /\ UNCHANGED <<match, mailed, reader, begun>>

ScanStep(w) ==
  \/ ScanStart(w)
  \/ \E g \in Grants : ScanLookup(w, g)
  \/ ScanInsert(w)
  \/ \E u \in Users : ScanMail(w, u)
  \/ ScanMailed(w)
  \/ ScanEnd(w)

-----------------------------------------------------------------------------
(* GET /grants/matches.                                                    *)

\* Without a vector store production answers 503 and a development server
\* lists the first grants without a score.
MayDegrade(as) == Production => as = "cached"

\* The rows of all hits are loaded at once; the hits without one are left.
DashboardLoad(d) ==
  /\ ~reader[d].busy
  /\ \E hits \in Hits, as \in {"cached", "degraded"} :
       /\ MayDegrade(as)
       /\ SetReader(d, [busy |-> TRUE, todo |-> {g \in hits : match[g] = "absent"}, as |-> as])
  /\ UNCHANGED <<match, mailed, scans, scanner, begun, faults>>

\* _save_match, after the LLM call; an IntegrityError is rolled back.
DashboardSave(d, g) ==
  /\ reader[d].busy
  /\ g \in reader[d].todo
  /\ match' = IF InsertSucceeds(g) THEN [match EXCEPT ![g] = reader[d].as] ELSE match
  /\ SetReader(d, [reader[d] EXCEPT !.todo = @ \ {g}])
  /\ UNCHANGED <<mailed, scans, scanner, begun, faults>>

DashboardEnd(d) ==
  /\ reader[d].busy
  /\ reader[d].todo = {}
  /\ SetReader(d, IdleReader)
  /\ UNCHANGED <<match, mailed, scans, scanner, begun, faults>>

-----------------------------------------------------------------------------

Next ==
  \/ Beat
  \/ \E w \in Scanners : ScanStep(w) \/ ScanFails(w) \/ ScannerCrash(w)
  \/ \E d \in Readers :
       DashboardLoad(d) \/ (\E g \in Grants : DashboardSave(d, g)) \/ DashboardEnd(d)

Spec == Init /\ [][Next]_vars

-----------------------------------------------------------------------------
(* Properties.                                                             *)

TypeOK ==
  /\ match \in [Grants -> Match]
  /\ mailed \in [Users -> [Grants -> Nat]]
  /\ scans \in Nat
  /\ scanner \in [Scanners -> ScannerState]
  /\ reader \in [Readers -> ReaderState]
  /\ begun \in Nat
  /\ faults \in Nat

(* No user is alerted twice about a grant, although sweeps overlap, are     *)
(* delivered again after a crash and run while the dashboard fills the same *)
(* table.                                                                   *)
AlertedOnce == \A u \in Users, g \in Grants : mailed[u][g] <= 1

Mailing(w, g, u) ==
  scanner[w].pc = "mail" /\ scanner[w].grant = g /\ u \in scanner[w].to

(* While nothing has gone wrong, every match a sweep stored has reached all *)
(* users or is on its way: a row that suppresses later alerts is never left *)
(* without the alert it stands for.                                         *)
StoredIsAlerted ==
  faults = 0 =>
    \A g \in Grants, u \in Users :
      match[g] \in {"scanned", "fabricated"} =>
        mailed[u][g] = 1 \/ \E w \in Scanners : Mailing(w, g, u)

-----------------------------------------------------------------------------
(* The inductive invariant.                                                 *)

WorksOnGrant ==
  \A w \in Scanners : scanner[w].pc \in {"insert", "mail"} => scanner[w].grant \in Grants

MailsStored ==
  \A w \in Scanners :
    scanner[w].pc = "mail" =>
      /\ match[scanner[w].grant] \in {"scanned", "fabricated"}
      /\ \A u \in scanner[w].to : mailed[u][scanner[w].grant] = 0

\* The row is committed before the first mail about it.
AlertHasMatch ==
  \A u \in Users, g \in Grants :
    mailed[u][g] > 0 => match[g] \in {"scanned", "fabricated"}

OneMailer ==
  \A v, w \in Scanners :
    scanner[v].pc = "mail" /\ scanner[w].pc = "mail" /\ scanner[v].grant = scanner[w].grant
      => v = w

SafetyInv ==
  /\ TypeOK
  /\ WorksOnGrant
  /\ MailsStored
  /\ OneMailer
  /\ AlertHasMatch
  /\ AlertedOnce
  /\ StoredIsAlerted

-----------------------------------------------------------------------------
(* A claim of the repository that this code does not keep.                  *)

(* Not a property of this code: docs/RUNBOOK.md says that in staging and    *)
(* production matching does not fabricate scores.                           *)
NoFabricatedScore == Production => \A g \in Grants : match[g] # "fabricated"

=============================================================================
