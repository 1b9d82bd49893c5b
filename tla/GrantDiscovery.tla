--------------------------- MODULE GrantDiscovery ---------------------------
(***************************************************************************)
(* The grant catalogue: the daily Celery task scrape_grants (worker.py),   *)
(* the scraper of services/discovery.py, the table grants, and the grants  *)
(* namespace of the vector index (services/vector_db.py).                  *)
(*                                                                         *)
(* A grant is known by its position on the portal's page.  The task commits *)
(* each row, reads it back and only then embeds and indexes it, and an     *)
(* error on one grant leaves that grant and goes on to the next.  Of the   *)
(* chunks of a grant's vectors the model keeps the first.                  *)
(***************************************************************************)
EXTENDS Naturals

CONSTANTS
  Cards,          \* positions on the page: 1 .. Cards
  Texts,          \* what the page says of a grant
  NoText,
  Pages,          \* the pages the portal shows: what is at each position
  Sweepers,       \* Celery workers
  MaxSweeps,      \* bound: sweeps that wait in the queue
  MaxPageChanges, \* bound: changes of the page
  MaxSweepFaults  \* bound: failures

ASSUME DiscoveryAssumption ==
  /\ Cards \in Nat \ {0}
  /\ NoText \notin Texts
  /\ Texts # {}
  /\ Pages \subseteq [1 .. Cards -> Texts \cup {NoText}]

\* The simulated grants of _get_fallback_data have identifiers of their own;
\* one stands for them.
Fallback == Cards + 1
Ids == 1 .. Fallback
FallbackText == CHOOSE t \in Texts : TRUE

VARIABLES
  page,       \* the card at each position, NoText where there is none
  row,        \* the description in the database
  vector,     \* the description in the index
  sweeps,     \* messages in the queue
  sweeper,
  crowded,    \* grants that two sweeps handled at once
  changes,
  missed      \* failures so far

dVars == <<page, row, vector, sweeps, sweeper, crowded, changes, missed>>

Listing == [Ids -> Texts \cup {NoText}]
Nothing == [id \in Ids |-> NoText]
Shown(p) == [id \in Ids |-> IF id = Fallback THEN NoText ELSE p[id]]

Sweeper == [pc : {"idle", "sweep", "update", "insert", "embed", "upsert"},
            found : Listing,                \* grants still to be handled
            id : Ids, text : Texts \cup {NoText},
            seen : Texts \cup {NoText}]
IdleSweeper == [pc |-> "idle", found |-> Nothing, id |-> 1, text |-> NoText, seen |-> NoText]

DInit ==
  /\ page \in {Shown(p) : p \in Pages}
  /\ row = Nothing
  /\ vector = Nothing
  /\ sweeps = 0
  /\ sweeper = [w \in Sweepers |-> IdleSweeper]
  /\ crowded = {}
  /\ changes = 0
  /\ missed = 0

\* The sweeper is done with a grant and goes on to the next.
Handled(s) == [IdleSweeper EXCEPT !.pc = "sweep", !.found = s.found]

SetSweeper(w, state) == sweeper' = [sweeper EXCEPT ![w] = state]
SweepFault == missed < MaxSweepFaults /\ missed' = missed + 1

-----------------------------------------------------------------------------

\* The portal changes: cards come, go and change places.
PageChanges ==
  /\ changes < MaxPageChanges
  /\ changes' = changes + 1
  /\ page' \in {Shown(p) : p \in Pages}
  /\ UNCHANGED <<row, vector, sweeps, sweeper, crowded, missed>>

\* The beat schedule, every day; the sweeps of days without a worker wait.
ScrapeBeat ==
  /\ sweeps < MaxSweeps
  /\ sweeps' = sweeps + 1
  /\ UNCHANGED <<page, row, vector, sweeper, crowded, changes, missed>>

SimulatedGrants == [Nothing EXCEPT ![Fallback] = FallbackText]

\* An empty page and an unreachable one give the simulated grants.
Discovered == IF page = Nothing THEN SimulatedGrants ELSE page

SweepStart(w) ==
  /\ sweeper[w].pc = "idle"
  /\ sweeps > 0
  /\ sweeps' = sweeps - 1
  /\ \/ /\ SetSweeper(w, [IdleSweeper EXCEPT !.pc = "sweep", !.found = Discovered])
        /\ UNCHANGED missed
     \/ /\ SetSweeper(w, [IdleSweeper EXCEPT !.pc = "sweep", !.found = SimulatedGrants])
        /\ SweepFault
  /\ UNCHANGED <<page, row, vector, crowded, changes>>

Handles(w, id) == sweeper[w].pc \notin {"idle", "sweep"} /\ sweeper[w].id = id

\* The next grant in the order of the page, and its row.
SweepFind(w) ==
  LET s == sweeper[w]
      todo == {id \in Ids : s.found[id] # NoText}
  IN  /\ s.pc = "sweep"
      /\ \E id \in todo :
           /\ \A other \in todo : id <= other
           /\ SetSweeper(w, [s EXCEPT !.pc = IF row[id] = NoText THEN "insert" ELSE "update",
                                      !.found[id] = NoText, !.id = id,
                                      !.text = s.found[id], !.seen = row[id]])
           /\ crowded' = IF \E v \in Sweepers : Handles(v, id) THEN crowded \cup {id} ELSE crowded
      /\ UNCHANGED <<page, row, vector, sweeps, changes, missed>>

SweepEnd(w) ==
  /\ sweeper[w].pc = "sweep"
  /\ sweeper[w].found = Nothing
  /\ SetSweeper(w, IdleSweeper)
  /\ UNCHANGED <<page, row, vector, sweeps, crowded, changes, missed>>

\* Mutant: a grant that is known is left as it is.
NeverUpdated(s) == row[s.id]

\* The UPDATE names the columns whose value the sweep changed.
Updated(s) == IF s.text = s.seen THEN row[s.id] ELSE s.text

SweepUpdate(w) ==
  LET s == sweeper[w]
  IN  /\ s.pc = "update"
      /\ row' = [row EXCEPT ![s.id] = Updated(s)]
      /\ SetSweeper(w, [s EXCEPT !.pc = "embed", !.text = NoText, !.seen = NoText])
      /\ UNCHANGED <<page, vector, sweeps, crowded, changes, missed>>

\* Another sweep may have inserted the row: external_id is unique, and the
\* error leaves the grant to that sweep.
SweepInsert(w) ==
  LET s == sweeper[w]
  IN  /\ s.pc = "insert"
      /\ IF row[s.id] = NoText
           THEN /\ row' = [row EXCEPT ![s.id] = s.text]
                /\ SetSweeper(w, [s EXCEPT !.pc = "embed", !.text = NoText, !.seen = NoText])
           ELSE SetSweeper(w, Handled(s)) /\ UNCHANGED row
      /\ UNCHANGED <<page, vector, sweeps, crowded, changes, missed>>

\* The commit expired the row: the text that is embedded is read again.
SweepEmbed(w) ==
  LET s == sweeper[w]
  IN  /\ s.pc = "embed"
      /\ SetSweeper(w, [s EXCEPT !.pc = "upsert", !.text = row[s.id]])
      /\ UNCHANGED <<page, row, vector, sweeps, crowded, changes, missed>>

\* Mutant: vectors of a grant that has some are not replaced.
FirstVectorsStay(id, text) ==
  IF vector[id] = NoText THEN [vector EXCEPT ![id] = text] ELSE vector

Upserted(id, text) == [vector EXCEPT ![id] = text]

SweepUpsert(w) ==
  LET s == sweeper[w]
  IN  /\ s.pc = "upsert"
      /\ vector' = Upserted(s.id, s.text)
      /\ SetSweeper(w, Handled(s))
      /\ UNCHANGED <<page, row, sweeps, crowded, changes, missed>>

\* An error on one grant, the soft time limit included: it is logged, and the
\* sweep goes on.  upsert_grant itself swallows what Pinecone refuses.
SweepSkips(w) ==
  /\ sweeper[w].pc \in {"update", "insert", "embed", "upsert"}
  /\ SweepFault
  /\ SetSweeper(w, Handled(sweeper[w]))
  /\ UNCHANGED <<page, row, vector, sweeps, crowded, changes>>

\* A lost worker; its message is delivered again unless the hard time limit,
\* which acknowledges it, ended the worker.
SweeperLost(w) ==
  /\ sweeper[w].pc # "idle"
  /\ SweepFault
  /\ sweeps' \in {sweeps, sweeps + 1}
  /\ SetSweeper(w, IdleSweeper)
  /\ UNCHANGED <<page, row, vector, crowded, changes>>

SweepStep(w) ==
  \/ SweepStart(w)
  \/ SweepFind(w)
  \/ SweepUpdate(w)
  \/ SweepInsert(w)
  \/ SweepEmbed(w)
  \/ SweepUpsert(w)
  \/ SweepEnd(w)

DNext ==
  \/ PageChanges
  \/ ScrapeBeat
  \/ \E w \in Sweepers : SweepStep(w) \/ SweepSkips(w) \/ SweeperLost(w)

\* Celery beat and the workers.
DFairness == WF_dVars(ScrapeBeat) /\ \A w \in Sweepers : WF_dVars(SweepStep(w))

DSpec == DInit /\ [][DNext]_dVars /\ DFairness

-----------------------------------------------------------------------------
(* Properties.                                                             *)

DTypeOK ==
  /\ page \in Listing
  /\ row \in Listing
  /\ vector \in Listing
  /\ sweeps \in Nat
  /\ sweeper \in [Sweepers -> Sweeper]
  /\ crowded \subseteq Ids
  /\ changes \in Nat
  /\ missed \in Nat

(* While nothing has failed, the index holds what the database says of a    *)
(* grant or a sweep is about to tell it.  Sweeps that handle a grant at the *)
(* same time are the exception: the later commit can be the earlier upsert. *)
IndexFollowsRow ==
  missed = 0 =>
    \A id \in Ids \ crowded :
      row[id] # NoText =>
        vector[id] = row[id]
          \/ \E w \in Sweepers : Handles(w, id) /\ sweeper[w].pc \in {"embed", "upsert"}

(* The database and the index catch up with the page once it stops          *)
(* changing, whatever sweeps failed, overlapped or were lost before.        *)
CatalogueCatchesUp ==
  <>[](\A id \in Ids : page[id] # NoText => row[id] = page[id] /\ vector[id] = page[id])

=============================================================================
