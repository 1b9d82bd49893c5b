-------------------------- MODULE SectionTextProofs --------------------------
(***************************************************************************)
(* Theorems about the text of a section outside its row: in the browser    *)
(* and in the snapshots of a proposal.                                     *)
(***************************************************************************)
EXTENDS ProposalWorkspace, ContentSnapshot, TLAPS

-----------------------------------------------------------------------------
(* Theorems about the proposal editor in the browser, for any number of      *)
(* sections, of loads in progress, and of wordings and clicks.               *)

(* A request that is under way names a section.                             *)
NamesSection(request) == request.stage # "idle" => request.section \in Sections

WTypeInv == WTypeOK /\ NamesSection(save) /\ NamesSection(ask)

LEMMA FirstRowType ==
  ASSUME NEW s \in Sections
  PROVE  FirstRow(s) \in Row
BY WorkspaceAssumption DEF FirstRow, Row, Wordings, Sections

LEMMA FirstSection == 1 \in Sections /\ 1 \in Wordings /\ SectionCount \in Wordings
BY WorkspaceAssumption DEF Sections, Wordings

LEMMA NoRequestType == NoRequest \in Request /\ NoRequest.stage = "idle"
<1>1. FirstRow(1) \in Row
  BY FirstRowType, FirstSection
<1>2. FALSE \in BOOLEAN
  OBVIOUS
<1> QED BY <1>1, <1>2, FirstSection DEF NoRequest, Request

LEMMA NoLoadType == NoLoad \in Load /\ NoLoad.stage = "idle"
<1>1. [s \in Sections |-> FirstRow(s)] \in [Sections -> Row]
  BY FirstRowType
<1> QED BY <1>1, FirstSection DEF NoLoad, Load

LEMMA DraftType ==
  ASSUME NEW row \in Row
  PROVE  DraftOf(row) \in [wording : Wordings, seen : SUBSET Wordings]
BY DEF DraftOf, Row

LEMMA WrittenType ==
  ASSUME NEW row \in Row, NEW wording \in Wordings
  PROVE  /\ Written(row, wording) \in Row
         /\ Written(row, wording).version = row.version + 1
         /\ Written(row, wording).wording = wording
BY DEF Written, Row

LEMMA NewWordingType ==
  ASSUME wordings \in Wordings, NewWording
  PROVE  wordings' \in Wordings /\ wordings' = wordings + 1
BY WorkspaceAssumption DEF NewWording, Wordings

(* The Boolean parts of the type invariant.                                 *)
LEMMA RearmedType ==
  ASSUME timer \in BOOLEAN, NEW state, NEW sectionIsNew
  PROVE  Rearmed(state, sectionIsNew) \in BOOLEAN
<1>1. (state = "unsaved") \in BOOLEAN
  OBVIOUS
<1> QED BY <1>1, Zenon DEF Rearmed

LEMMA SetSaveStateType ==
  ASSUME WTypeOK, NEW state \in SaveState, NEW sectionIsNew, SetSaveState(state, sectionIsNew)
  PROVE  saveState' \in SaveState /\ timer' \in BOOLEAN /\ missedSave' \in BOOLEAN
<1>1. timer \in BOOLEAN
  BY Zenon DEF WTypeOK
<1>2. saveState' \in SaveState /\ timer' \in BOOLEAN
  BY <1>1, RearmedType, Zenon DEF SetSaveState
<1>3. (missedSave /\ ~timer') \in BOOLEAN
  OBVIOUS
<1> QED BY <1>2, <1>3, Zenon DEF SetSaveState

LEMMA InitWorkspaceTypes == WInit => WTypeInv
<1> SUFFICES ASSUME WInit PROVE WTypeInv
  OBVIOUS
<1>1. server \in [Sections -> Row]
  BY FirstRowType DEF WInit
<1>2. draft \in [wording : Wordings, seen : SUBSET Wordings]
  BY <1>1, FirstSection, DraftType DEF WInit
<1>3. load \in [Loads -> Load]
  BY NoLoadType DEF WInit
<1>4. 0 \in Nat /\ "saved" \in SaveState
  BY DEF SaveState
<1> QED
  BY <1>1, <1>2, <1>3, <1>4, FirstSection, NoRequestType, Zenon
  DEF WInit, WTypeInv, WTypeOK, NamesSection

LEMMA TypesOfTyping == WTypeInv /\ (Type \/ \E s \in Sections : SelectSection(s)) => WTypeInv'
<1>1. ASSUME WTypeInv, Type PROVE WTypeInv'
  <2>1. wordings' \in Wordings /\ wordings' = wordings + 1
    BY <1>1, NewWordingType DEF WTypeInv, WTypeOK, Type
  <2>2. draft.seen \cup {wordings'} \in SUBSET Wordings
    BY <2>1, <1>1 DEF WTypeInv, WTypeOK
  <2>3. draft' = [wording |-> wordings', seen |-> draft.seen \cup {wordings'}]
    BY <1>1, <2>1 DEF Type
  <2>4. draft' \in [wording : Wordings, seen : SUBSET Wordings]
    BY <2>1, <2>2, <2>3
  <2> QED
    BY <1>1, <2>1, <2>4, Zenon DEF WTypeInv, WTypeOK, NamesSection, Type, SaveState
<1>2. ASSUME WTypeInv, NEW s \in Sections, SelectSection(s) PROVE WTypeInv'
  <2>1. known[s] \in Row
    BY <1>2 DEF WTypeInv, WTypeOK
  <2>2. draft' \in [wording : Wordings, seen : SUBSET Wordings]
    BY <1>2, <2>1, DraftType DEF SelectSection
  <2>3. saveState' \in SaveState /\ timer' \in BOOLEAN /\ missedSave' \in BOOLEAN
    BY <1>2, SetSaveStateType, Zenon DEF WTypeInv, SelectSection, SaveState
  <2>4. clicks' \in Nat
    BY <1>2 DEF WTypeInv, WTypeOK, SelectSection, Click
  <2> QED
    BY <1>2, <2>2, <2>3, <2>4, Zenon DEF WTypeInv, WTypeOK, NamesSection, SelectSection
<1> QED BY <1>1, <1>2

LEMMA TypesOfAutosave == WTypeInv /\ Autosave => WTypeInv'
<1> SUFFICES ASSUME WTypeInv, Autosave PROVE WTypeInv'
  OBVIOUS
<1>1. CASE save.stage = "idle"
  <2>1. Rebased \in BOOLEAN
    BY Zenon DEF Rebased
  <2>2. /\ shown \in Sections
        /\ known[shown].version \in Nat
        /\ draft.wording \in Wordings
        /\ draft.seen \in SUBSET Wordings
    BY DEF WTypeInv, WTypeOK, Row
  <2> DEFINE sent(rebased) ==
        [NoRequest EXCEPT !.stage = "sent", !.section = shown, !.version = known[shown].version,
           !.wording = draft.wording, !.seen = draft.seen, !.rebased = rebased]
  <2>3. \A rebased \in BOOLEAN : sent(rebased) \in Request /\ sent(rebased).section = shown
    BY <2>2, NoRequestType DEF Request
  <2>4. save' = sent(Rebased)
    BY <1>1, Zenon DEF Autosave
  <2> HIDE DEF sent
  <2>5. save' \in Request /\ save'.section = shown
    BY <2>1, <2>3, <2>4, Zenon
  <2> QED
    BY <1>1, <2>5, Zenon DEF WTypeInv, WTypeOK, NamesSection, Autosave, SaveState
<1>2. CASE save.stage # "idle"
  <2>1. missedSave' \in BOOLEAN
    BY <1>2, Zenon DEF Autosave
  <2> QED
    BY <1>2, <2>1, Zenon DEF WTypeInv, WTypeOK, NamesSection, Autosave
<1> QED BY <1>1, <1>2

LEMMA TypesOfSave == WTypeInv /\ (SaveStep \/ SaveFails) => WTypeInv'
<1> SUFFICES ASSUME WTypeInv, SaveStep \/ SaveFails PROVE WTypeInv'
  OBVIOUS
<1>1. /\ save \in Request
      /\ save.stage # "idle"
      /\ save.section \in Sections
      /\ save.wording \in Wordings
      /\ server \in [Sections -> Row]
      /\ known \in [Sections -> Row]
  BY DEF WTypeInv, WTypeOK, NamesSection, Request, SaveStep, SaveFails, SaveHandled, SaveRead,
     SaveAnswered, SaveRefused
<1>2. CASE SaveHandled
  <2>1. server' \in [Sections -> Row]
    BY <1>1, <1>2, WrittenType DEF SaveHandled
  <2>2. save' \in Request /\ save'.section = save.section
    BY <1>1, <1>2 DEF SaveHandled, Request
  <2> QED
    BY <1>1, <1>2, <2>1, <2>2, Zenon
    DEF WTypeInv, WTypeOK, NamesSection, SaveHandled, browser
<1>3. CASE SaveRead
  <2>1. save' \in Request /\ save'.section = save.section
    BY <1>1, <1>3 DEF SaveRead, Request
  <2> QED
    BY <1>1, <1>3, <2>1, Zenon DEF WTypeInv, WTypeOK, NamesSection, SaveRead, browser
<1>4. CASE SaveAnswered
  <2>1. known' \in [Sections -> Row]
    BY <1>1, <1>4 DEF SaveAnswered, Request
  <2>2. saveState' \in SaveState /\ timer' \in BOOLEAN /\ missedSave' \in BOOLEAN
    BY <1>4, SetSaveStateType, Zenon DEF WTypeInv, SaveAnswered, SaveState
  <2> QED
    BY <1>4, <2>1, <2>2, NoRequestType, Zenon DEF WTypeInv, WTypeOK, NamesSection, SaveAnswered
<1>5. CASE SaveRefused \/ SaveFails
  <2>1. saveState' \in SaveState /\ timer' \in BOOLEAN /\ missedSave' \in BOOLEAN
    BY <1>5, SetSaveStateType, Zenon DEF WTypeInv, SaveRefused, SaveFails, SaveState
  <2> QED
    BY <1>5, <2>1, NoRequestType, Zenon
    DEF WTypeInv, WTypeOK, NamesSection, SaveRefused, SaveFails
<1> QED BY <1>2, <1>3, <1>4, <1>5 DEF SaveStep

AskStep == AskHandled \/ AskRead \/ AskAnswered \/ AskRefused \/ AskFails

LEMMA TypesOfRegenerate == WTypeInv /\ Regenerate => WTypeInv'
<1> SUFFICES ASSUME WTypeInv, Regenerate PROVE WTypeInv'
  OBVIOUS
<1>1. ask' \in Request /\ ask'.section = shown
  BY NoRequestType DEF WTypeInv, WTypeOK, Regenerate, Request, Row
<1>2. clicks' \in Nat
  BY DEF WTypeInv, WTypeOK, Regenerate, Click
<1> QED
  BY <1>1, <1>2, Zenon DEF WTypeInv, WTypeOK, NamesSection, Regenerate, browser

LEMMA TypesOfAsk == WTypeInv /\ AskStep => WTypeInv'
<1> SUFFICES ASSUME WTypeInv, AskStep PROVE WTypeInv'
  OBVIOUS
<1>1. /\ ask \in Request
      /\ ask.stage # "idle"
      /\ ask.section \in Sections
      /\ server \in [Sections -> Row]
      /\ known \in [Sections -> Row]
  BY DEF WTypeInv, WTypeOK, NamesSection, AskStep, AskHandled, AskRead, AskAnswered, AskRefused,
     AskFails
<1>2. CASE AskHandled \/ AskRead
  <2>1. ask' \in Request /\ ask'.section = ask.section
    BY <1>1, <1>2 DEF AskHandled, AskRead, Request
  <2> QED
    BY <1>1, <1>2, <2>1, Zenon DEF WTypeInv, WTypeOK, NamesSection, AskHandled, AskRead, browser
<1>3. CASE AskAnswered
  <2>1. known' \in [Sections -> Row]
    BY <1>1, <1>3 DEF AskAnswered, Request
  <2>2. saveState' \in SaveState /\ timer' \in BOOLEAN /\ missedSave' \in BOOLEAN
    BY <1>3, SetSaveStateType, Zenon DEF WTypeInv, WTypeOK, AskAnswered
  <2> QED
    BY <1>3, <2>1, <2>2, NoRequestType, Zenon DEF WTypeInv, WTypeOK, NamesSection, AskAnswered
<1>4. CASE AskRefused
  <2>1. saveState' \in SaveState /\ timer' \in BOOLEAN /\ missedSave' \in BOOLEAN
    BY <1>4, SetSaveStateType, Zenon DEF WTypeInv, AskRefused, SaveState
  <2> QED
    BY <1>4, <2>1, NoRequestType, Zenon DEF WTypeInv, WTypeOK, NamesSection, AskRefused
<1>5. CASE AskFails
  BY <1>5, NoRequestType, Zenon DEF WTypeInv, WTypeOK, NamesSection, AskFails, browser
<1> QED BY <1>2, <1>3, <1>4, <1>5 DEF AskStep

LEMMA TypesOfOthers ==
  ASSUME WTypeInv, NEW s \in Sections, OtherWrites(s)
  PROVE  WTypeInv'
<1>1. wordings' \in Wordings /\ wordings' = wordings + 1
  BY NewWordingType DEF WTypeInv, WTypeOK, OtherWrites
<1>2. server' \in [Sections -> Row]
  BY <1>1, WrittenType DEF WTypeInv, WTypeOK, OtherWrites
<1> QED
  BY <1>1, <1>2, Zenon DEF WTypeInv, WTypeOK, NamesSection, OtherWrites, browser

LEMMA LoadBeginType ==
  ASSUME WTypeInv, NEW l \in Loads, NEW replace \in BOOLEAN, LoadBegin(l, replace)
  PROVE  load' \in [Loads -> Load] /\ clicks' \in Nat
<1>1. clicks' \in Nat
  BY DEF WTypeInv, WTypeOK, LoadBegin, Click
<1>2. [NoLoad EXCEPT !.stage = "sent", !.replace = replace, !.section = shown] \in Load
  BY NoLoadType DEF WTypeInv, WTypeOK, Load
<1> QED BY <1>1, <1>2 DEF WTypeInv, WTypeOK, LoadBegin

LEMMA TypesOfLoad ==
  ASSUME WTypeInv, NEW l \in Loads,
         LoadStart(l) \/ ReloadLatest(l) \/ LoadHandled(l) \/ LoadAnswered(l) \/ LoadFails(l)
  PROVE  WTypeInv'
<1>1. CASE LoadStart(l)
  <2>1. (saveState = "saved") \in BOOLEAN
    OBVIOUS
  <2>2. load' \in [Loads -> Load] /\ clicks' \in Nat
    BY <1>1, <2>1, LoadBeginType, Zenon DEF LoadStart
  <2> QED
    BY <1>1, <2>2, Zenon DEF WTypeInv, WTypeOK, NamesSection, LoadStart, browser
<1>2. CASE ReloadLatest(l)
  <2>1. load' \in [Loads -> Load] /\ clicks' \in Nat
    BY <1>2, LoadBeginType, Zenon DEF ReloadLatest
  <2>2. saveState' \in SaveState /\ timer' \in BOOLEAN /\ missedSave' \in BOOLEAN
    BY <1>2, SetSaveStateType, Zenon DEF WTypeInv, ReloadLatest, SaveState
  <2> QED
    BY <1>2, <2>1, <2>2, Zenon DEF WTypeInv, WTypeOK, NamesSection, ReloadLatest
<1>3. CASE LoadHandled(l)
  <2>1. load' \in [Loads -> Load]
    BY <1>3 DEF WTypeInv, WTypeOK, LoadHandled, Load
  <2> QED
    BY <1>3, <2>1, Zenon DEF WTypeInv, WTypeOK, NamesSection, LoadHandled, browser
<1>4. CASE LoadAnswered(l)
  <2>1. load[l] \in Load
    BY DEF WTypeInv, WTypeOK
  <2>2. load[l].answer \in [Sections -> Row] /\ load[l].section \in Sections
    BY <2>1 DEF Load
  <2>3. load' \in [Loads -> Load]
    BY <1>4, NoLoadType DEF WTypeInv, WTypeOK, LoadAnswered
  <2>4. DraftOf(load[l].answer[load[l].section])
          \in [wording : Wordings, seen : SUBSET Wordings]
    BY <2>2, DraftType
  <2>5. saveState' \in SaveState /\ timer' \in BOOLEAN /\ missedSave' \in BOOLEAN
    BY <1>4, SetSaveStateType, Zenon DEF WTypeInv, WTypeOK, LoadAnswered
  <2> QED
    BY <1>4, <2>2, <2>3, <2>4, <2>5, Zenon DEF WTypeInv, WTypeOK, NamesSection, LoadAnswered
<1>5. CASE LoadFails(l)
  <2>1. load' \in [Loads -> Load]
    BY <1>5, NoLoadType DEF WTypeInv, WTypeOK, LoadFails
  <2> QED
    BY <1>5, <2>1, Zenon DEF WTypeInv, WTypeOK, NamesSection, LoadFails, browser
<1> QED BY <1>1, <1>2, <1>3, <1>4, <1>5

LEMMA NextWorkspaceTypes == WTypeInv /\ [WNext]_wVars => WTypeInv'
<1> SUFFICES ASSUME WTypeInv, [WNext]_wVars PROVE WTypeInv'
  OBVIOUS
<1>1. CASE UNCHANGED wVars
  BY <1>1, Zenon DEF WTypeInv, WTypeOK, NamesSection, wVars
<1> QED
  BY <1>1, TypesOfTyping, TypesOfAutosave, TypesOfSave, TypesOfRegenerate, TypesOfAsk,
     TypesOfOthers, TypesOfLoad, Zenon
  DEF WNext, AskStep

-----------------------------------------------------------------------------
(***************************************************************************)
(* A copy of a row, however old, has no later version than the row, and    *)
(* the same wording if it has the same version: every write of a section   *)
(* adds one to its version.                                                *)
(***************************************************************************)
IsCopy(row, original) ==
  /\ row.version <= original.version
  /\ row.version = original.version => row.wording = original.wording

CopiesInBrowser == \A s \in Sections : IsCopy(known[s], server[s])

CopiesInLoads ==
  \A l \in Loads, s \in Sections :
    load[l].stage = "answered" => IsCopy(load[l].answer[s], server[s])

CopyInSave == save.stage = "answered" => IsCopy(save.answer, server[save.section])

CopyInAsk == ask.stage = "answered" => IsCopy(ask.answer, server[ask.section])

(* What a save is about to replace if it is accepted.                       *)
SaveIsInformed ==
  save.stage = "sent" =>
    /\ save.version <= server[save.section].version
    /\ save.version = server[save.section].version =>
         server[save.section].wording \in save.seen \/ save.rebased

CopyInv == CopiesInBrowser /\ CopiesInLoads /\ CopyInSave /\ CopyInAsk /\ SaveIsInformed

LEMMA CopyOfItself ==
  ASSUME NEW row \in Row
  PROVE  IsCopy(row, row)
BY DEF IsCopy, Row

LEMMA CopyStays ==
  ASSUME NEW row \in Row, NEW old \in Row, NEW new \in Row,
         IsCopy(row, old), new = old \/ new.version = old.version + 1
  PROVE  IsCopy(row, new)
BY DEF IsCopy, Row

LEMMA InitCopies == WInit => CopyInv
<1> SUFFICES ASSUME WInit PROVE CopyInv
  OBVIOUS
<1>1. \A s \in Sections : IsCopy(server[s], server[s])
  BY FirstRowType, CopyOfItself DEF WInit
<1> QED
  BY <1>1, NoRequestType, NoLoadType
  DEF WInit, CopyInv, CopiesInBrowser, CopiesInLoads, CopyInSave, CopyInAsk, SaveIsInformed

(* Every step leaves a row as it is or adds one to its version.             *)
LEMMA RowsGrow ==
  ASSUME WTypeInv, [WNext]_wVars, NEW s \in Sections
  PROVE  server'[s] = server[s] \/ server'[s].version = server[s].version + 1
<1>1. CASE SaveHandled
  BY <1>1 DEF WTypeInv, WTypeOK, SaveHandled, Written, Row, NamesSection
<1>2. ASSUME NEW t \in Sections, OtherWrites(t)
      PROVE  server'[s] = server[s] \/ server'[s].version = server[s].version + 1
  BY <1>2 DEF WTypeInv, WTypeOK, OtherWrites, Written, Row
<1>3. CASE UNCHANGED server
  BY <1>3
<1> QED
  BY <1>1, <1>2, <1>3, Zenon
  DEF WNext, wVars, Type, SelectSection, Autosave, SaveStep, SaveRead, SaveAnswered, SaveRefused,
      SaveFails, Regenerate, AskHandled, AskRead, AskAnswered, AskRefused, AskFails, LoadStart,
      ReloadLatest, LoadHandled, LoadAnswered, LoadFails

(* So what was a copy of a row before a step is one after it.               *)
LEMMA CopiesStay ==
  ASSUME WTypeInv, [WNext]_wVars, NEW row \in Row, NEW s \in Sections, IsCopy(row, server[s])
  PROVE  IsCopy(row, server'[s])
<1>1. server[s] \in Row
  BY DEF WTypeInv, WTypeOK
<1>2. server'[s] \in Row
  BY NextWorkspaceTypes DEF WTypeInv, WTypeOK
<1> QED BY <1>1, <1>2, RowsGrow, CopyStays

LEMMA NextKnown == WTypeInv /\ CopyInv /\ [WNext]_wVars => CopiesInBrowser'
<1> SUFFICES ASSUME WTypeInv, CopyInv, [WNext]_wVars, NEW s \in Sections
             PROVE  IsCopy(known'[s], server'[s])
  BY DEF CopiesInBrowser
<1>1. CASE SaveAnswered /\ s = save.section
  <2>1. save.answer \in Row
    BY DEF WTypeInv, WTypeOK, Request
  <2>2. IsCopy(save.answer, server[s]) /\ known'[s] = save.answer
    BY <1>1 DEF SaveAnswered, CopyInv, CopyInSave, WTypeInv, WTypeOK
  <2> QED BY <2>1, <2>2, CopiesStay
<1>2. CASE AskAnswered /\ s = ask.section
  <2>1. ask.answer \in Row
    BY DEF WTypeInv, WTypeOK, Request
  <2>2. IsCopy(ask.answer, server[s]) /\ known'[s] = ask.answer
    BY <1>2 DEF AskAnswered, CopyInv, CopyInAsk, WTypeInv, WTypeOK
  <2> QED BY <2>1, <2>2, CopiesStay
<1>3. ASSUME NEW l \in Loads, LoadAnswered(l)
      PROVE  IsCopy(known'[s], server'[s])
  <2>1. load[l].answer[s] \in Row
    BY DEF WTypeInv, WTypeOK, Load
  <2>2. IsCopy(load[l].answer[s], server[s]) /\ known'[s] = load[l].answer[s]
    BY <1>3 DEF LoadAnswered, CopyInv, CopiesInLoads
  <2> QED BY <2>1, <2>2, CopiesStay
<1>4. CASE known'[s] = known[s]
  <2>1. known[s] \in Row /\ IsCopy(known[s], server[s])
    BY DEF WTypeInv, WTypeOK, CopyInv, CopiesInBrowser
  <2> QED BY <1>4, <2>1, CopiesStay
<1>5. CASE SaveAnswered /\ s # save.section
  BY <1>4, <1>5 DEF SaveAnswered, WTypeInv, WTypeOK
<1>6. CASE AskAnswered /\ s # ask.section
  BY <1>4, <1>6 DEF AskAnswered, WTypeInv, WTypeOK
<1>7. CASE UNCHANGED known
  BY <1>4, <1>7
<1> QED
  BY <1>1, <1>2, <1>3, <1>5, <1>6, <1>7, Zenon
  DEF WNext, wVars, browser, Type, SelectSection, Autosave, SaveStep, SaveHandled, SaveRead,
      SaveRefused, SaveFails, Regenerate, AskHandled, AskRead, AskRefused, AskFails,
      OtherWrites, LoadStart, ReloadLatest, LoadHandled, LoadFails

LEMMA NextLoads == WTypeInv /\ CopyInv /\ [WNext]_wVars => CopiesInLoads'
<1> SUFFICES ASSUME WTypeInv, CopyInv, [WNext]_wVars, NEW m \in Loads, NEW s \in Sections,
                    load'[m].stage = "answered"
             PROVE  IsCopy(load'[m].answer[s], server'[s])
  BY DEF CopiesInLoads
<1>1. CASE load'[m] = load[m]
  <2>1. load[m].answer[s] \in Row
    BY DEF WTypeInv, WTypeOK, Load
  <2>2. IsCopy(load[m].answer[s], server[s])
    BY <1>1 DEF CopyInv, CopiesInLoads
  <2> QED BY <1>1, <2>1, <2>2, CopiesStay
<1>2. ASSUME NEW l \in Loads, l = m \/ load'[m] = load[m],
             LoadStart(l) \/ ReloadLatest(l) \/ LoadHandled(l) \/ LoadAnswered(l) \/ LoadFails(l)
      PROVE  IsCopy(load'[m].answer[s], server'[s])
  <2>1. CASE l = m /\ LoadHandled(l)
    <3>1. load'[m].answer = server
      BY <2>1 DEF LoadHandled, WTypeInv, WTypeOK, Load
    <3>2. server[s] \in Row
      BY DEF WTypeInv, WTypeOK
    <3> QED BY <3>1, <3>2, CopyOfItself, CopiesStay
  <2>2. CASE l = m /\ (LoadStart(l) \/ ReloadLatest(l))
    BY <2>2 DEF LoadStart, ReloadLatest, LoadBegin, NoLoad, WTypeInv, WTypeOK
  <2>3. CASE l = m /\ (LoadAnswered(l) \/ LoadFails(l))
    BY <2>3, NoLoadType DEF LoadAnswered, LoadFails, WTypeInv, WTypeOK
  <2> QED BY <1>1, <1>2, <2>1, <2>2, <2>3
<1>3. ASSUME NEW l \in Loads,
             LoadStart(l) \/ ReloadLatest(l) \/ LoadHandled(l) \/ LoadAnswered(l) \/ LoadFails(l)
      PROVE  l = m \/ load'[m] = load[m]
  BY <1>3
  DEF LoadStart, ReloadLatest, LoadBegin, LoadHandled, LoadAnswered, LoadFails, WTypeInv, WTypeOK
<1>4. CASE UNCHANGED load
  BY <1>1, <1>4
<1> QED
  BY <1>2, <1>3, <1>4, Zenon
  DEF WNext, wVars, Type, SelectSection, Autosave, SaveStep, SaveHandled, SaveRead, SaveAnswered,
      SaveRefused, SaveFails, Regenerate, AskHandled, AskRead, AskAnswered, AskRefused, AskFails,
      OtherWrites

LEMMA NextAsk == WTypeInv /\ CopyInv /\ [WNext]_wVars => CopyInAsk'
<1> SUFFICES ASSUME WTypeInv, CopyInv, [WNext]_wVars, ask'.stage = "answered"
             PROVE  IsCopy(ask'.answer, server'[ask'.section])
  BY DEF CopyInAsk
<1>1. CASE UNCHANGED ask
  <2>1. ask.answer \in Row /\ ask.section \in Sections /\ IsCopy(ask.answer, server[ask.section])
    BY <1>1 DEF WTypeInv, WTypeOK, Request, NamesSection, CopyInv, CopyInAsk
  <2> QED BY <1>1, <2>1, CopiesStay
<1>2. CASE AskRead
  <2>1. /\ ask.section \in Sections
        /\ ask'.section = ask.section
        /\ ask'.answer = server[ask.section]
    BY <1>2 DEF AskRead, WTypeInv, WTypeOK, Request, NamesSection
  <2>2. server[ask.section] \in Row
    BY <2>1 DEF WTypeInv, WTypeOK
  <2> QED BY <2>1, <2>2, CopyOfItself, CopiesStay
<1>3. CASE Regenerate
  BY <1>3 DEF Regenerate, NoRequest
<1>4. CASE AskHandled
  BY <1>4 DEF AskHandled, WTypeInv, WTypeOK, Request
<1>5. CASE AskAnswered \/ AskRefused \/ AskFails
  BY <1>5, NoRequestType DEF AskAnswered, AskRefused, AskFails
<1> QED
  BY <1>1, <1>2, <1>3, <1>4, <1>5, Zenon
  DEF WNext, wVars, Type, SelectSection, Autosave, SaveStep, SaveHandled, SaveRead, SaveAnswered,
      SaveRefused, SaveFails, OtherWrites, LoadStart, ReloadLatest, LoadHandled, LoadAnswered,
      LoadFails

LEMMA NextSave == WTypeInv /\ CopyInv /\ [WNext]_wVars => (CopyInSave /\ SaveIsInformed)'
<1> SUFFICES ASSUME WTypeInv, CopyInv, [WNext]_wVars PROVE CopyInSave' /\ SaveIsInformed'
  OBVIOUS
<1>1. CASE UNCHANGED save
  <2>1. ASSUME save.stage = "answered" PROVE CopyInSave'
    <3>1. /\ save.answer \in Row
          /\ save.section \in Sections
          /\ IsCopy(save.answer, server[save.section])
      BY <2>1 DEF WTypeInv, WTypeOK, Request, NamesSection, CopyInv, CopyInSave
    <3> QED BY <1>1, <3>1, CopiesStay DEF CopyInSave
  <2>2. ASSUME save.stage = "sent" PROVE SaveIsInformed'
    <3>1. /\ save.section \in Sections
          /\ save.version \in Nat
          /\ server[save.section].version \in Nat
      BY <2>2 DEF WTypeInv, WTypeOK, Request, NamesSection, Row
    <3>2. \/ server'[save.section] = server[save.section]
          \/ server'[save.section].version = server[save.section].version + 1
      BY <3>1, RowsGrow
    <3> QED BY <1>1, <2>2, <3>1, <3>2 DEF CopyInv, SaveIsInformed
  <2> QED BY <1>1, <2>1, <2>2 DEF CopyInSave, SaveIsInformed
<1>2. CASE Autosave /\ save.stage = "idle"
  <2>1. /\ save'.stage = "sent"
        /\ save'.section = shown
        /\ save'.version = known[shown].version
        /\ save'.seen = draft.seen
        /\ save'.rebased = Rebased
        /\ server' = server
    BY <1>2 DEF Autosave, NoRequest
  <2>2. IsCopy(known[shown], server[shown])
    BY DEF WTypeInv, WTypeOK, CopyInv, CopiesInBrowser
  <2> QED BY <2>1, <2>2 DEF CopyInSave, SaveIsInformed, IsCopy, Rebased
<1>3. CASE SaveHandled
  BY <1>3 DEF SaveHandled, CopyInSave, SaveIsInformed, WTypeInv, WTypeOK, Request
<1>4. CASE SaveRead
  <2>1. /\ save.section \in Sections
        /\ save'.stage = "answered"
        /\ save'.section = save.section
        /\ save'.answer = server[save.section]
    BY <1>4 DEF SaveRead, WTypeInv, WTypeOK, Request, NamesSection
  <2>2. server[save.section] \in Row
    BY <2>1 DEF WTypeInv, WTypeOK
  <2> QED BY <2>1, <2>2, CopyOfItself, CopiesStay DEF CopyInSave, SaveIsInformed
<1>5. CASE SaveAnswered \/ SaveRefused \/ SaveFails
  BY <1>5, NoRequestType DEF SaveAnswered, SaveRefused, SaveFails, CopyInSave, SaveIsInformed
<1>6. CASE Autosave /\ save.stage # "idle"
  BY <1>1, <1>6 DEF Autosave
<1> QED
  BY <1>1, <1>2, <1>3, <1>4, <1>5, <1>6, Zenon
  DEF WNext, wVars, Type, SelectSection, SaveStep, Regenerate, AskHandled, AskRead, AskAnswered,
      AskRefused, AskFails, OtherWrites, LoadStart, ReloadLatest, LoadHandled, LoadAnswered,
      LoadFails

LEMMA WorkspaceHolds == WInit /\ [][WNext]_wVars => [](WTypeInv /\ CopyInv)
<1>1. WTypeInv /\ CopyInv /\ [WNext]_wVars => CopyInv'
  BY NextKnown, NextLoads, NextAsk, NextSave, Zenon DEF CopyInv
<1> QED BY <1>1, InitWorkspaceTypes, NextWorkspaceTypes, InitCopies, PTL

(***************************************************************************)
(* The state of the editor is well formed, for any number of sections,     *)
(* loads, wordings and clicks: ProposalWorkspace.tsx.                      *)
(***************************************************************************)
THEOREM WorkspaceTypeCorrect == WSpec => []WTypeOK
<1>1. WTypeInv => WTypeOK
  BY DEF WTypeInv
<1> QED BY <1>1, WorkspaceHolds, PTL DEF WSpec

LEMMA SavesHold == WInit /\ [][WNext]_wVars => []SaveReplacesSeen
<1>1. CopyInv => SaveReplacesSeen
  BY DEF CopyInv, SaveIsInformed, SaveReplacesSeen, Accepts
<1> QED BY <1>1, WorkspaceHolds, PTL

(***************************************************************************)
(* An accepted save replaces a wording its author has seen, whatever order *)
(* saves, regenerate requests, loads and other writers come in.            *)
(***************************************************************************)
THEOREM SavesReplaceSeen == WSpec => []SaveReplacesSeen
BY SavesHold, PTL DEF WSpec

-----------------------------------------------------------------------------
(* Theorems about the texts derived from the sections, for any number of     *)
(* sections and of concurrent writers.                                       *)

USE SnapshotAssumption

(* What a writer that has read the sections has in hand.                     *)
Flushing(w) == writer[w].pc = "flush"

TargetIsRow == \A w \in Writers : writer[w].pc # "idle" => writer[w].target \in Rows

Reads(w, r, text) == [pc |-> "flush", target |-> r, text |-> text,
                      view |-> [content EXCEPT ![r] = text], loaded |-> mirror]

Updates(r) == [IdleWriter EXCEPT !.pc = "read", !.target = r, !.text = texts + 1]

LEMMA SnapshotIdleType == IdleWriter \in Writer /\ IdleWriter.pc = "idle"
BY DEF IdleWriter, Writer, Text, Null

LEMMA UpdatesType ==
  ASSUME NEW r \in Rows, texts \in Text, NewText
  PROVE  /\ Updates(r) \in Writer
         /\ Updates(r).pc = "read" /\ Updates(r).target = r
<1>1. texts + 1 \in Text
  BY DEF NewText, Text
<1> QED BY <1>1, SnapshotIdleType DEF Updates, Writer

LEMMA ReadsType ==
  ASSUME STypeOK, NEW w, NEW r \in Rows, NEW text \in Text
  PROVE  /\ Reads(w, r, text) \in Writer
         /\ Reads(w, r, text).pc = "flush" /\ Reads(w, r, text).target = r
<1>1. [content EXCEPT ![r] = text] \in [Rows -> Text]
  BY DEF STypeOK
<1> QED BY <1>1 DEF Reads, Writer, STypeOK

(* A writer is left alone, becomes idle, updates its section or reads.      *)
LEMMA WriterSteps ==
  ASSUME STypeOK, TargetIsRow, [SNext]_sVars, NEW w \in Writers
  PROVE  \/ writer'[w] = writer[w]
         \/ writer'[w] = IdleWriter
         \/ \E r \in Rows : EditUpdate(w, r) /\ writer'[w] = Updates(r)
         \/ \E r \in Rows, text \in Text :
              /\ Rebuild(w, r, text)
              /\ writer'[w] = Reads(w, r, text)
              /\ w \in Editors => writer[w].pc = "read" /\ r = writer[w].target
              /\ UNCHANGED <<inserted, content, mirror, snapshot, lock>>
<1> USE DEF STypeOK, SetWriter
<1>1. ASSUME NEW v \in Writers, NEW r \in Rows, EditUpdate(v, r)
      PROVE  writer'[w] = writer[w] \/ (EditUpdate(w, r) /\ writer'[w] = Updates(r))
  BY <1>1 DEF EditUpdate, Updates
<1>2. ASSUME NEW v \in Writers, NEW r \in Rows, GenerateRead(v, r)
      PROVE  \/ writer'[w] = writer[w]
             \/ /\ Rebuild(w, r, texts + 1)
                /\ writer'[w] = Reads(w, r, texts + 1)
                /\ texts + 1 \in Text
                /\ w \notin Editors
                /\ UNCHANGED <<inserted, content, mirror, snapshot, lock>>
  <2>1. writer' = [writer EXCEPT ![v] = Reads(v, r, texts + 1)]
    BY <1>2 DEF GenerateRead, Rebuild, Reads
  <2>2. texts + 1 \in Text
    BY <1>2 DEF GenerateRead, NewText, Text
  <2>3. v \notin Editors
    BY <1>2 DEF GenerateRead
  <2> QED BY <1>2, <2>1, <2>2, <2>3 DEF GenerateRead
<1>3. ASSUME NEW v \in Writers, EditRead(v)
      PROVE  \/ writer'[w] = writer[w]
             \/ /\ Rebuild(w, writer[w].target, writer[w].text)
                /\ writer'[w] = Reads(w, writer[w].target, writer[w].text)
                /\ writer[w].pc = "read" /\ writer[w].target \in Rows /\ writer[w].text \in Text
                /\ UNCHANGED <<inserted, content, mirror, snapshot, lock>>
  <2>1. writer[v].target \in Rows /\ writer[v].text \in Text
    BY <1>3 DEF EditRead, TargetIsRow, Writer
  <2>2. writer' = [writer EXCEPT ![v] = Reads(v, writer[v].target, writer[v].text)]
    BY <1>3 DEF EditRead, Rebuild, Reads
  <2> QED BY <1>3, <2>1, <2>2 DEF EditRead
<1>4. ASSUME NEW v \in Writers, CommitContent(v) \/ RollBack(v)
      PROVE  writer'[w] = writer[w] \/ writer'[w] = IdleWriter
  BY <1>4 DEF CommitContent, RollBack
<1>5. CASE writer' = writer
  BY <1>5
<1> QED BY <1>1, <1>2, <1>3, <1>4, <1>5 DEF SNext, sVars, FlushRow

-----------------------------------------------------------------------------
(* Types.                                                                   *)

LEMMA SnapshotInitTypes == SInit => STypeOK /\ TargetIsRow
<1> SUFFICES ASSUME SInit PROVE STypeOK /\ TargetIsRow
  OBVIOUS
<1>1. writer \in [Writers -> Writer] /\ TargetIsRow
  BY SnapshotIdleType DEF SInit, TargetIsRow
<1>2. contended \in BOOLEAN
  BY Zenon DEF SInit
<1> QED BY <1>1, <1>2 DEF SInit, STypeOK, Text, Null, Locks

LEMMA NextWriters == STypeOK /\ TargetIsRow /\ [SNext]_sVars
                       => (writer \in [Writers -> Writer] /\ TargetIsRow)'
<1> SUFFICES ASSUME STypeOK, TargetIsRow, [SNext]_sVars
             PROVE  (writer \in [Writers -> Writer] /\ TargetIsRow)'
  OBVIOUS
<1>1. ASSUME NEW w \in Writers
      PROVE  writer'[w] \in Writer /\ (writer'[w].pc # "idle" => writer'[w].target \in Rows)
  <2>1. CASE writer'[w] = writer[w]
    BY <2>1 DEF STypeOK, TargetIsRow
  <2>2. CASE writer'[w] = IdleWriter
    BY <2>2, SnapshotIdleType
  <2>3. ASSUME NEW r \in Rows, EditUpdate(w, r), writer'[w] = Updates(r)
        PROVE  writer'[w] \in Writer /\ writer'[w].target \in Rows
    BY <2>3, UpdatesType DEF EditUpdate, STypeOK
  <2>4. ASSUME NEW r \in Rows, NEW text \in Text, writer'[w] = Reads(w, r, text)
        PROVE  writer'[w] \in Writer /\ writer'[w].target \in Rows
    BY <2>4, ReadsType
  <2> QED BY <2>1, <2>2, <2>3, <2>4, WriterSteps
<1>2. writer' = [w \in Writers |-> writer'[w]]
  BY DEF STypeOK, SNext, sVars, EditUpdate, GenerateRead, EditRead, CommitContent, RollBack,
     FlushRow, Rebuild, SetWriter
<1> QED BY <1>1, <1>2 DEF TargetIsRow

LEMMA SnapshotNextTypes == STypeOK /\ TargetIsRow /\ [SNext]_sVars => STypeOK'
<1> SUFFICES ASSUME STypeOK, TargetIsRow, [SNext]_sVars PROVE STypeOK'
  OBVIOUS
<1>1. (writer \in [Writers -> Writer])'
  BY NextWriters
<1>2. contended' \in BOOLEAN
  <2>1. \A v \in Writers : \A r, text : Rebuild(v, r, text) => contended' \in BOOLEAN
    BY Zenon DEF Rebuild
  <2>2. CASE contended' = contended
    BY <2>2 DEF STypeOK
  <2> QED BY <2>1, <2>2, Zenon DEF SNext, sVars, EditUpdate, GenerateRead, EditRead, CommitContent,
              RollBack, FlushRow
<1>3. (inserted \subseteq Rows /\ texts \in Text)'
  <2>1. inserted' = inserted /\ (texts' = texts \/ NewText)
    BY DEF SNext, sVars, EditUpdate, GenerateRead, EditRead, CommitContent, RollBack, FlushRow
  <2> QED BY <2>1 DEF STypeOK, NewText, Text
<1>4. (lock \in [Locks -> Writers \cup {NoWriter}])'
  <2>1. \A w \in Writers : Unlocked(w) \in [Locks -> Writers \cup {NoWriter}]
    BY DEF STypeOK, Unlocked
  <2> QED BY <2>1 DEF STypeOK, SNext, sVars, EditUpdate, GenerateRead, EditRead, CommitContent,
          RollBack, FlushRow, Locks
<1>5. (content \in [Rows -> Text] /\ mirror \in [Rows -> Text \cup {Null}]
         /\ snapshot \in [Rows -> Text])'
  <2>1. ASSUME NEW w \in Writers, CommitContent(w)
        PROVE  (content \in [Rows -> Text] /\ mirror \in [Rows -> Text \cup {Null}]
                  /\ snapshot \in [Rows -> Text])'
    <3>1. writer[w].view \in [Rows -> Text] /\ writer[w].text \in Text
      BY DEF STypeOK, Writer
    <3> QED BY <2>1, <3>1 DEF CommitContent, STypeOK
  <2>2. CASE UNCHANGED <<content, mirror, snapshot>>
    BY <2>2 DEF STypeOK
  <2> QED BY <2>1, <2>2 DEF SNext, sVars, EditUpdate, GenerateRead, EditRead, RollBack, FlushRow
<1> QED BY <1>1, <1>2, <1>3, <1>4, <1>5 DEF STypeOK

LEMMA SnapshotTypesHold == SSpec => [](STypeOK /\ TargetIsRow)
BY SnapshotInitTypes, SnapshotNextTypes, NextWriters, PTL DEF SSpec

(* Sections, snapshot, locks and writers stay in their declared domains.    *)
THEOREM SnapshotTypeCorrect == SSpec => []STypeOK
BY SnapshotTypesHold, PTL

-----------------------------------------------------------------------------
(* The snapshot.  While no writer has read beside another, the one that is  *)
(* between its read and its commit holds what the sections will be.         *)

ViewIsNext(w) == writer[w].view = [content EXCEPT ![writer[w].target] = writer[w].text]

AloneWithNext ==
  ~contended =>
    \A w \in Writers : Flushing(w) =>
      /\ ViewIsNext(w)
      /\ \A v \in Writers : Flushing(v) => v = w

LEMMA NextAlone ==
  STypeOK /\ TargetIsRow /\ AloneWithNext /\ SnapshotCurrent /\ [SNext]_sVars
    => (AloneWithNext /\ SnapshotCurrent)'
<1> SUFFICES ASSUME STypeOK, TargetIsRow, AloneWithNext, SnapshotCurrent, [SNext]_sVars,
                    ~contended'
             PROVE  /\ snapshot' = content'
                    /\ \A w \in Writers : Flushing(w)' =>
                         /\ ViewIsNext(w)'
                         /\ \A v \in Writers : Flushing(v)' => v = w
  BY DEF AloneWithNext, SnapshotCurrent
<1> DEFINE Goal == /\ snapshot' = content'
                   /\ \A w \in Writers : Flushing(w)' =>
                        /\ ViewIsNext(w)'
                        /\ \A v \in Writers : Flushing(v)' => v = w
<1>1. ~contended
  <2>1. \A v \in Writers : \A r, text : Rebuild(v, r, text) => ~contended
    BY DEF Rebuild
  <2> QED BY <2>1 DEF SNext, sVars, EditUpdate, GenerateRead, EditRead, CommitContent, RollBack,
          FlushRow
<1>2. /\ snapshot = content
      /\ \A w \in Writers : Flushing(w) =>
           ViewIsNext(w) /\ \A v \in Writers : Flushing(v) => v = w
  BY <1>1 DEF AloneWithNext, SnapshotCurrent
<1>3. ASSUME NEW v \in Writers, NEW r \in Rows, NEW text, Rebuild(v, r, text),
             UNCHANGED <<content, mirror, snapshot>>
      PROVE  Goal
  <2>1. \A w \in Writers \ {v} : ~Flushing(w)
    BY <1>3 DEF Rebuild, Flushing
  <2>2. writer' = [writer EXCEPT ![v] = Reads(v, r, text)]
    BY <1>3 DEF Rebuild, SetWriter, Reads
  <2>3. \A w \in Writers : Flushing(w)' => w = v
    BY <2>1, <2>2 DEF Flushing
  <2>4. ViewIsNext(v)'
    BY <1>3, <2>2 DEF ViewIsNext, Reads, STypeOK
  <2> QED BY <1>2, <1>3, <2>3, <2>4
<1>4. ASSUME NEW v \in Writers, CommitContent(v) PROVE Goal
  <2>1. \A w \in Writers : ~Flushing(w)'
    BY <1>2, <1>4, SnapshotIdleType DEF CommitContent, SetWriter, Flushing, STypeOK
  <2>2. content' = writer[v].view /\ snapshot' = writer[v].view
    BY <1>2, <1>4 DEF CommitContent, ViewIsNext, Flushing
  <2> QED BY <2>1, <2>2
<1>5. ASSUME NEW v \in Writers, RollBack(v) \/ \E r \in Rows : EditUpdate(v, r) PROVE Goal
  <2>1. ASSUME NEW state, writer' = [writer EXCEPT ![v] = state], state.pc # "flush"
        PROVE  \A w \in Writers : Flushing(w)' => Flushing(w) /\ writer'[w] = writer[w]
    BY <2>1 DEF Flushing, STypeOK
  <2>2. \A w \in Writers : Flushing(w)' => Flushing(w) /\ writer'[w] = writer[w]
    <3>1. CASE RollBack(v)
      <4>1. writer' = [writer EXCEPT ![v] = IdleWriter]
        BY <3>1 DEF RollBack, SetWriter
      <4>2. IdleWriter.pc # "flush"
        BY SnapshotIdleType
      <4> QED BY <2>1, <4>1, <4>2
    <3>2. ASSUME NEW r \in Rows, EditUpdate(v, r)
          PROVE  \A w \in Writers : Flushing(w)' => Flushing(w) /\ writer'[w] = writer[w]
      <4>1. writer' = [writer EXCEPT ![v] = Updates(r)]
        BY <3>2 DEF EditUpdate, SetWriter, Updates
      <4>2. Updates(r).pc # "flush"
        BY <3>2, UpdatesType DEF EditUpdate, STypeOK
      <4> QED BY <2>1, <4>1, <4>2
    <3> QED BY <1>5, <3>1, <3>2
  <2>3. UNCHANGED <<content, snapshot>>
    BY <1>5 DEF RollBack, EditUpdate
  <2> QED BY <1>2, <2>2, <2>3 DEF ViewIsNext
<1>6. CASE UNCHANGED <<content, snapshot, writer>>
  BY <1>2, <1>6 DEF Flushing, ViewIsNext
<1>7. ASSUME NEW v \in Writers, EditRead(v) PROVE Goal
  BY <1>3, <1>7 DEF EditRead, TargetIsRow
<1>8. ASSUME NEW v \in Writers, NEW r \in Rows, GenerateRead(v, r) PROVE Goal
  BY <1>3, <1>8 DEF GenerateRead
<1> QED BY <1>4, <1>5, <1>6, <1>7, <1>8 DEF SNext, sVars, FlushRow

(* Unless a writer read the sections between another's read and commit, the *)
(* snapshot is the sections' texts, for any number of writers.              *)
THEOREM SnapshotIsCurrent == SSpec => []SnapshotCurrent
<1>1. SInit => AloneWithNext /\ SnapshotCurrent
  BY SnapshotIdleType DEF SInit, AloneWithNext, SnapshotCurrent, Flushing
<1> QED BY <1>1, SnapshotTypesHold, NextAlone, PTL DEF SSpec

-----------------------------------------------------------------------------
(* The mirrors.  A writer finds the mirrors of the other sections right.    *)

OwnView == \A w \in Writers : Flushing(w) => writer[w].view[writer[w].target] = writer[w].text

OthersClean ==
  \A w \in Writers, r \in Rows \ inserted :
    Flushing(w) /\ r # writer[w].target => writer[w].view[r] = writer[w].loaded[r]

MirrorInv == OwnView /\ OthersClean /\ MirrorCurrent

LEMMA NextMirror == STypeOK /\ TargetIsRow /\ MirrorInv /\ [SNext]_sVars => MirrorInv'
<1> SUFFICES ASSUME STypeOK, TargetIsRow, MirrorInv, [SNext]_sVars PROVE MirrorInv'
  OBVIOUS
<1>1. inserted' = inserted
  BY DEF SNext, sVars, EditUpdate, GenerateRead, EditRead, CommitContent, RollBack, FlushRow
<1>2. (OwnView /\ OthersClean)'
  <2> SUFFICES ASSUME NEW w \in Writers, Flushing(w)'
               PROVE  /\ writer'[w].view[writer'[w].target] = writer'[w].text
                      /\ \A r \in Rows \ inserted : r # writer'[w].target
                            => writer'[w].view[r] = writer'[w].loaded[r]
    BY <1>1 DEF OwnView, OthersClean
  <2>1. CASE writer'[w] = writer[w]
    BY <2>1 DEF Flushing, MirrorInv, OwnView, OthersClean
  <2>2. ASSUME NEW r \in Rows, NEW text \in Text, writer'[w] = Reads(w, r, text)
        PROVE  /\ writer'[w].view[writer'[w].target] = writer'[w].text
               /\ \A q \in Rows \ inserted : q # writer'[w].target
                     => writer'[w].view[q] = writer'[w].loaded[q]
    <3>1. /\ writer'[w].target = r
          /\ writer'[w].text = text
          /\ writer'[w].view = [content EXCEPT ![r] = text]
          /\ writer'[w].loaded = mirror
      BY <2>2 DEF Reads
    <3>2. \A q \in Rows : writer'[w].view[q] = IF q = r THEN text ELSE content[q]
      BY <3>1 DEF STypeOK
    <3> QED BY <3>1, <3>2 DEF MirrorInv, MirrorCurrent
  <2>3. ASSUME NEW r \in Rows, EditUpdate(w, r), writer'[w] = Updates(r) PROVE FALSE
    BY <2>3, UpdatesType DEF EditUpdate, Flushing, STypeOK
  <2>4. writer'[w] # IdleWriter
    BY SnapshotIdleType DEF Flushing
  <2> QED BY <2>1, <2>2, <2>3, <2>4, WriterSteps
<1>3. MirrorCurrent'
  <2>1. ASSUME NEW w \in Writers, CommitContent(w), NEW r \in Rows \ inserted
        PROVE  mirror'[r] = content'[r]
    <3>1. /\ writer[w].view[writer[w].target] = writer[w].text
          /\ r # writer[w].target => writer[w].view[r] = writer[w].loaded[r]
          /\ mirror[r] = content[r]
      BY <2>1 DEF CommitContent, Flushing, MirrorInv, OwnView, OthersClean, MirrorCurrent
    <3>2. r \in DirtyRows(w) <=> r = writer[w].target
      BY <3>1 DEF DirtyRows
    <3>3. /\ mirror'[r] = IF r \in DirtyRows(w) THEN writer[w].view[r] ELSE mirror[r]
          /\ content'[r] = IF r = writer[w].target THEN writer[w].text ELSE content[r]
      BY <2>1 DEF CommitContent, STypeOK
    <3> QED BY <3>1, <3>2, <3>3
  <2>2. CASE UNCHANGED <<content, mirror>>
    BY <1>1, <2>2 DEF MirrorInv, MirrorCurrent
  <2> QED BY <1>1, <2>1, <2>2 DEF MirrorCurrent, SNext, sVars, EditUpdate, GenerateRead, EditRead,
          RollBack, FlushRow
<1> QED BY <1>2, <1>3 DEF MirrorInv

LEMMA MirrorHolds == SSpec => [](STypeOK /\ TargetIsRow /\ MirrorInv)
<1>1. SInit => MirrorInv
  BY SnapshotIdleType DEF SInit, MirrorInv, OwnView, OthersClean, MirrorCurrent, Flushing
<1> QED BY <1>1, SnapshotTypesHold, NextMirror, PTL DEF SSpec

(* The mirror of a section that was not inserted without one is its text,   *)
(* however many writers overlap.                                            *)
THEOREM MirrorsAreCurrent == SSpec => []MirrorCurrent
<1>1. MirrorInv => MirrorCurrent
  BY DEF MirrorInv
<1> QED BY MirrorHolds, <1>1, PTL

-----------------------------------------------------------------------------
(* Deadlocks.  An edit has locked its section from its UPDATE on.           *)

EditorHolds == \A w \in Editors : writer[w].pc # "idle" => lock[writer[w].target] = w

LEMMA NextHolds == STypeOK /\ TargetIsRow /\ EditorHolds /\ [SNext]_sVars => EditorHolds'
<1> SUFFICES ASSUME STypeOK, TargetIsRow, EditorHolds, [SNext]_sVars,
                    NEW w \in Editors, writer'[w].pc # "idle"
             PROVE  lock'[writer'[w].target] = w
  BY DEF EditorHolds
<1>0. w \in Writers
  BY DEF Writers
<1>1. ASSUME lock[writer[w].target] = w, writer[w].target \in Rows, writer'[w] # IdleWriter
      PROVE  lock'[writer[w].target] = w
  <2> DEFINE t == writer[w].target
  <2>1. ASSUME NEW v \in Writers, lock' = Unlocked(v), writer' = [writer EXCEPT ![v] = IdleWriter]
        PROVE  lock'[t] = w
    BY <1>0, <1>1, <2>1 DEF Unlocked, Locks, STypeOK
  <2>2. ASSUME NEW v \in Writers, NEW l \in Locks, lock[l] = NoWriter,
               lock' = [lock EXCEPT ![l] = v]
        PROVE  lock'[t] = w
    BY <1>0, <1>1, <2>2 DEF STypeOK, Writers, Locks
  <2>3. ASSUME lock' = lock PROVE lock'[t] = w
    BY <1>1, <2>3
  <2> HIDE DEF t
  <2>4. ASSUME NEW v \in Writers, NEW r \in Rows, EditUpdate(v, r) PROVE lock'[t] = w
    BY <2>2, <2>4 DEF EditUpdate, Locks
  <2>5. ASSUME NEW v \in Writers, NEW r \in Rows, GenerateRead(v, r) PROVE lock'[t] = w
    BY <2>3, <2>5 DEF GenerateRead
  <2>6. ASSUME NEW v \in Writers, EditRead(v) PROVE lock'[t] = w
    BY <2>3, <2>6 DEF EditRead
  <2>7. ASSUME NEW v \in Writers, CommitContent(v) \/ RollBack(v) PROVE lock'[t] = w
    BY <2>1, <2>7 DEF CommitContent, RollBack, SetWriter
  <2>8. ASSUME NEW v \in Writers, NEW l \in Locks, FlushRow(v, l) PROVE lock'[t] = w
    BY <2>2, <2>8 DEF FlushRow
  <2>9. ASSUME UNCHANGED sVars PROVE lock'[t] = w
    BY <2>3, <2>9 DEF sVars
  <2>10. lock'[t] = w
    BY <2>4, <2>5, <2>6, <2>7, <2>8, <2>9 DEF SNext
  <2> QED BY <2>10 DEF t
<1>2. CASE writer'[w] = writer[w]
  BY <1>0, <1>1, <1>2, SnapshotIdleType DEF EditorHolds, TargetIsRow
<1>3. ASSUME NEW r \in Rows, EditUpdate(w, r), writer'[w] = Updates(r)
      PROVE  lock'[writer'[w].target] = w
  BY <1>3, UpdatesType DEF EditUpdate, STypeOK, Locks
<1>4. ASSUME NEW r \in Rows, NEW text \in Text, Rebuild(w, r, text),
             writer'[w] = Reads(w, r, text), writer[w].pc = "read", r = writer[w].target,
             UNCHANGED lock
      PROVE  lock'[writer'[w].target] = w
  BY <1>4 DEF Reads, EditorHolds
<1> QED BY <1>0, <1>2, <1>3, <1>4, WriterSteps, SnapshotIdleType

(* Where every section has its mirror, an edit's flush writes its section   *)
(* and the proposal, and only the proposal is still to be locked.           *)
LEMMA WaitsForProposal ==
  ASSUME STypeOK, TargetIsRow, MirrorInv, EditorHolds, inserted = {},
         NEW w \in Editors, NEW l \in Locks, NextLock(w, l)
  PROVE  l = ProposalRow /\ lock[ProposalRow] # w
<1>1. w \in Writers /\ Flushing(w)
  BY DEF Writers, NextLock, Flushing
<1>2. DirtyRows(w) \subseteq {writer[w].target}
  BY <1>1 DEF DirtyRows, MirrorInv, OthersClean
<1>3. lock[writer[w].target] = w
  BY <1>1 DEF EditorHolds, Flushing
<1> QED BY <1>2, <1>3 DEF NextLock

LEMMA NoDeadlock ==
  STypeOK /\ TargetIsRow /\ MirrorInv /\ EditorHolds => EditsDoNotDeadlock
<1> SUFFICES ASSUME STypeOK, TargetIsRow, MirrorInv, EditorHolds, inserted = {},
                    NEW group \in SUBSET Editors, Deadlocked(group)
             PROVE  FALSE
  BY DEF EditsDoNotDeadlock
<1>1. PICK w \in group : TRUE
  BY DEF Deadlocked
<1>2. PICK l \in Locks : NextLock(w, l) /\ lock[l] \in group \ {w}
  BY <1>1 DEF Deadlocked
<1>3. l = ProposalRow
  BY <1>2, WaitsForProposal
<1> DEFINE v == lock[ProposalRow]
<1>4. v \in group
  BY <1>2, <1>3
<1>5. PICK k \in Locks : NextLock(v, k)
  BY <1>4 DEF Deadlocked
<1> QED BY <1>4, <1>5, WaitsForProposal

(* Edits and regenerations do not deadlock where every section has its      *)
(* mirror, for any number of them.                                          *)
THEOREM EditsNeverDeadlock == SSpec => []EditsDoNotDeadlock
<1>1. SInit => EditorHolds
  BY SnapshotIdleType DEF SInit, EditorHolds, Writers
<1>2. SSpec => []EditorHolds
  BY <1>1, SnapshotTypesHold, NextHolds, PTL DEF SSpec
<1> QED BY <1>2, MirrorHolds, NoDeadlock, PTL

=============================================================================
