-------------------------- MODULE ProposalWorkspace --------------------------
(***************************************************************************)
(* The proposal editor in the browser (ProposalWorkspace.tsx): the list of *)
(* sections it has loaded, the draft of the one that is shown, the autosave *)
(* timer, and its requests to the section endpoints.                       *)
(*                                                                         *)
(* Callbacks run one at a time, and every answer may come between any two  *)
(* of them.  A load uses what was shown, and whether that was saved, when  *)
(* it began.  The server here is a section's version and wording; other    *)
(* users and the tasks write it too.                                       *)
(***************************************************************************)
EXTENDS Naturals

CONSTANTS
  SectionCount,  \* sections of the proposal
  Loads,         \* loads that may be in progress at once
  NoSection,
  MaxWordings,   \* bound: wordings of sections, those they begin with included
  MaxClicks      \* bound: selections, loads and regenerate requests

Sections == 1 .. SectionCount

ASSUME WorkspaceAssumption ==
  /\ SectionCount \in Nat \ {0}
  /\ MaxWordings \in Nat
  /\ SectionCount <= MaxWordings
  /\ NoSection \notin Sections

(* Wordings are numbered as they appear; section s begins with wording s.   *)
Wordings == 1 .. MaxWordings

VARIABLES
  server,     \* the rows in the database
  known,      \* sections: what the browser was last told
  shown,      \* selectedId
  draft,      \* its wording, and every wording its author has seen or made
  saveState,
  timer,      \* the autosave timer runs
  missedSave, \* the timer fired while another section was being saved
  save,       \* the PATCH in progress
  ask,        \* the regenerate request in progress
  load,       \* loads in progress
  wordings,   \* wordings so far
  clicks      \* selections, loads and regenerate requests so far

wVars == <<server, known, shown, draft, saveState, timer, missedSave, save, ask, load, wordings,
           clicks>>
browser == <<known, shown, draft, saveState, timer, missedSave>>

Row == [version : Nat, wording : Wordings]
FirstRow(s) == [version |-> 1, wording |-> s]
SaveState == {"saved", "unsaved", "saving", "conflict", "failed"}
Request ==
  [stage : {"idle", "sent", "done", "answered", "refused"}, section : Sections \cup {NoSection},
   version : Nat, wording : Wordings, seen : SUBSET Wordings, rebased : BOOLEAN, answer : Row]
NoRequest ==
  [stage |-> "idle", section |-> NoSection, version |-> 0, wording |-> 1, seen |-> {},
   rebased |-> FALSE, answer |-> FirstRow(1)]
Load == [stage : {"idle", "sent", "answered"}, replace : BOOLEAN, section : Sections,
         answer : [Sections -> Row]]
NoLoad == [stage |-> "idle", replace |-> FALSE, section |-> 1,
           answer |-> [s \in Sections |-> FirstRow(s)]]

DraftOf(row) == [wording |-> row.wording, seen |-> {row.wording}]

\* The first load is over.
WInit ==
  /\ server = [s \in Sections |-> FirstRow(s)]
  /\ known = server
  /\ shown = 1
  /\ draft = DraftOf(known[1])
  /\ saveState = "saved"
  /\ timer = FALSE
  /\ missedSave = FALSE
  /\ save = NoRequest
  /\ ask = NoRequest
  /\ load = [l \in Loads |-> NoLoad]
  /\ wordings = SectionCount
  /\ clicks = 0

NewWording == wordings < MaxWordings /\ wordings' = wordings + 1
Click == clicks < MaxClicks /\ clicks' = clicks + 1
-----------------------------------------------------------------------------
(* The autosave effect.                                                    *)

\* Mutant: the effect does not depend on the section.
RearmedByStateOnly(state, sectionIsNew) ==
  IF state # saveState THEN state = "unsaved" ELSE timer

\* React runs the effect again, and with it the timer, when the save state or
\* the object of the section that is shown is another.
Rearmed(state, sectionIsNew) ==
  IF state # saveState \/ sectionIsNew THEN state = "unsaved" ELSE timer

SetSaveState(state, sectionIsNew) ==
  /\ saveState' = state
  /\ timer' = Rearmed(state, sectionIsNew)
  /\ missedSave' = (missedSave /\ ~timer')

\* A keystroke; the editor is read-only after a conflict.
Type ==
  /\ saveState # "conflict"
  /\ NewWording
  /\ draft' = [wording |-> wordings + 1, seen |-> draft.seen \cup {wordings + 1}]
  /\ saveState' = "unsaved"
  /\ timer' = TRUE
  /\ missedSave' = FALSE
  /\ UNCHANGED <<server, known, shown, save, ask, load, clicks>>

SelectSection(s) ==
  /\ Click
  /\ shown' = s
  /\ draft' = DraftOf(known[s])
  /\ SetSaveState("saved", s # shown)
  /\ UNCHANGED <<server, known, save, ask, load, wordings>>

\* The author has not seen the wording whose version a save would send.
Rebased == known[shown].wording \notin draft.seen

\* 800 ms without a change.  While a save is in progress nothing is sent, and
\* nothing starts the timer again.
Autosave ==
  /\ timer
  /\ timer' = FALSE
  /\ IF save.stage = "idle"
       THEN /\ save' = [NoRequest EXCEPT
                 !.stage = "sent", !.section = shown, !.version = known[shown].version,
                 !.wording = draft.wording, !.seen = draft.seen, !.rebased = Rebased]
            /\ saveState' = "saving"
            /\ UNCHANGED missedSave
       ELSE /\ missedSave' = (save.section # shown)
            /\ UNCHANGED <<save, saveState>>
  /\ UNCHANGED <<server, known, shown, draft, ask, load, wordings, clicks>>
-----------------------------------------------------------------------------
(* The section endpoints.                                                  *)

\* Mutant: the UPDATE leaves the version as it is.
WrittenInPlace(row, wording) == [row EXCEPT !.wording = wording]

Written(row, wording) == [version |-> row.version + 1, wording |-> wording]

Accepts(request) == server[request.section].version = request.version

\* update_proposal_section: the UPDATE and its commit.
SaveHandled ==
  /\ save.stage = "sent"
  /\ IF Accepts(save)
       THEN /\ server' = [server EXCEPT ![save.section] = Written(@, save.wording)]
            /\ save' = [save EXCEPT !.stage = "done"]
       ELSE save' = [save EXCEPT !.stage = "refused"] /\ UNCHANGED server
  /\ UNCHANGED <<browser, ask, load, wordings, clicks>>

\* The row is read again for the answer: another writer may have been there.
SaveRead ==
  /\ save.stage = "done"
  /\ save' = [save EXCEPT !.stage = "answered", !.answer = server[save.section]]
  /\ UNCHANGED <<server, browser, ask, load, wordings, clicks>>

\* Nothing was typed or selected since.
IsSaved == saveState = "saving" /\ draft.wording = save.wording

SaveAnswered ==
  /\ save.stage = "answered"
  /\ known' = [known EXCEPT ![save.section] = save.answer]
  /\ SetSaveState(IF IsSaved THEN "saved" ELSE "unsaved", save.section = shown)
  /\ save' = NoRequest
  /\ UNCHANGED <<server, shown, draft, ask, load, wordings, clicks>>

\* VERSION_CONFLICT
SaveRefused ==
  /\ save.stage = "refused"
  /\ SetSaveState("conflict", FALSE)
  /\ save' = NoRequest
  /\ UNCHANGED <<server, known, shown, draft, ask, load, wordings, clicks>>

\* Any other error, before or after the commit.
SaveFails ==
  /\ save.stage \in {"sent", "done", "answered"}
  /\ SetSaveState("failed", FALSE)
  /\ save' = NoRequest
  /\ UNCHANGED <<server, known, shown, draft, ask, load, wordings, clicks>>

\* The regenerate button; its section is not generating already, and one
\* request at a time is the bound.
Regenerate ==
  /\ Click
  /\ saveState \notin {"unsaved", "saving"}
  /\ ask.stage = "idle"
  /\ ask' = [NoRequest EXCEPT !.stage = "sent", !.section = shown, !.version = known[shown].version]
  /\ UNCHANGED <<server, browser, save, load, wordings>>

\* regenerate_proposal_section changes neither version nor wording; the task
\* does, later.
AskHandled ==
  /\ ask.stage = "sent"
  /\ ask' = [ask EXCEPT !.stage = IF Accepts(ask) THEN "done" ELSE "refused"]
  /\ UNCHANGED <<server, browser, save, load, wordings, clicks>>

AskRead ==
  /\ ask.stage = "done"
  /\ ask' = [ask EXCEPT !.stage = "answered", !.answer = server[ask.section]]
  /\ UNCHANGED <<server, browser, save, load, wordings, clicks>>

AskAnswered ==
  /\ ask.stage = "answered"
  /\ known' = [known EXCEPT ![ask.section] = ask.answer]
  /\ SetSaveState(saveState, ask.section = shown)
  /\ ask' = NoRequest
  /\ UNCHANGED <<server, shown, draft, save, load, wordings, clicks>>

AskRefused ==
  /\ ask.stage = "refused"
  /\ SetSaveState("conflict", FALSE)
  /\ ask' = NoRequest
  /\ UNCHANGED <<server, known, shown, draft, save, load, wordings, clicks>>

AskFails ==
  /\ ask.stage # "idle"
  /\ ask' = NoRequest
  /\ UNCHANGED <<server, browser, save, load, wordings, clicks>>

\* Another user's edit, a regeneration, the generate task.  Each adds one to
\* the version; that the generate task may add it to an old one is the subject
\* of ProposalGeneration.
OtherWrites(s) ==
  /\ NewWording
  /\ server' = [server EXCEPT ![s] = Written(@, wordings + 1)]
  /\ UNCHANGED <<browser, save, ask, load, clicks>>
-----------------------------------------------------------------------------
(* Loads.                                                                  *)

LoadBegin(l, replace) ==
  /\ Click
  /\ load[l].stage = "idle"
  /\ load' = [load EXCEPT ![l] = [NoLoad EXCEPT
                !.stage = "sent", !.replace = replace, !.section = shown]]

\* The refresh button, and every five seconds while something is generated.
LoadStart(l) ==
  /\ LoadBegin(l, saveState = "saved")
  /\ UNCHANGED <<server, browser, save, ask, wordings>>

\* The button beside the message about a conflict.
ReloadLatest(l) ==
  /\ saveState = "conflict"
  /\ LoadBegin(l, TRUE)
  /\ SetSaveState("saved", FALSE)
  /\ UNCHANGED <<server, known, shown, draft, save, ask, wordings>>

\* list_proposal_sections
LoadHandled(l) ==
  /\ load[l].stage = "sent"
  /\ load' = [load EXCEPT ![l].stage = "answered", ![l].answer = server]
  /\ UNCHANGED <<server, browser, save, ask, wordings, clicks>>

LoadAnswered(l) ==
  LET answer == load[l].answer
  IN  /\ load[l].stage = "answered"
      /\ known' = answer
      /\ draft' = IF load[l].replace THEN DraftOf(answer[load[l].section]) ELSE draft
      /\ SetSaveState(saveState, TRUE)
      /\ load' = [load EXCEPT ![l] = NoLoad]
      /\ UNCHANGED <<server, shown, save, ask, wordings, clicks>>

LoadFails(l) ==
  /\ load[l].stage # "idle"
  /\ load' = [load EXCEPT ![l] = NoLoad]
  /\ UNCHANGED <<server, browser, save, ask, wordings, clicks>>
-----------------------------------------------------------------------------
SaveStep == SaveHandled \/ SaveRead \/ SaveAnswered \/ SaveRefused

WNext ==
  \/ Type
  \/ Autosave
  \/ SaveStep
  \/ SaveFails
  \/ Regenerate
  \/ AskHandled
  \/ AskRead
  \/ AskAnswered
  \/ AskRefused
  \/ AskFails
  \/ \E s \in Sections : SelectSection(s) \/ OtherWrites(s)
  \/ \E l \in Loads :
       \/ LoadStart(l)
       \/ ReloadLatest(l)
       \/ LoadHandled(l)
       \/ LoadAnswered(l)
       \/ LoadFails(l)

\* The browser's timer, and requests that are answered.
WFairness == WF_wVars(Autosave) /\ WF_wVars(SaveStep)

WSpec == WInit /\ [][WNext]_wVars /\ WFairness
-----------------------------------------------------------------------------
(* Properties.                                                             *)

WTypeOK ==
  /\ server \in [Sections -> Row]
  /\ known \in [Sections -> Row]
  /\ shown \in Sections
  /\ draft \in [wording : Wordings, seen : SUBSET Wordings]
  /\ saveState \in SaveState
  /\ timer \in BOOLEAN
  /\ missedSave \in BOOLEAN
  /\ save \in Request /\ ask \in Request
  /\ load \in [Loads -> Load]
  /\ wordings \in Wordings
  /\ clicks \in Nat

(* A save the server would accept replaces a wording its author has seen,   *)
(* however late or out of order the answers were.  The exception is a draft *)
(* under which an answer had already put the version of a wording it does   *)
(* not show: a refresh that keeps the draft, one that began at another      *)
(* section, or a row read after another writer's commit.                    *)
SaveReplacesSeen ==
  save.stage = "sent" /\ Accepts(save) =>
    server[save.section].wording \in save.seen \/ save.rebased

(* A draft does not stay unsaved: it is sent in the end, unless the timer   *)
(* fired while the save of another section was in progress, after which     *)
(* nothing but a keystroke or a load starts it again.                       *)
DraftIsSent == saveState = "unsaved" ~> saveState # "unsaved" \/ missedSave

=============================================================================
