--------------------------- MODULE ContentSnapshot ---------------------------
(***************************************************************************)
(* The texts derived from a proposal's sections: proposals.content, the    *)
(* snapshot of all of them, and content_text, each section's mirror.       *)
(* Every writer of a section rebuilds them in its own transaction          *)
(* (rebuild_proposal_content in services/proposal_content.py).             *)
(*                                                                         *)
(* PostgreSQL runs the transactions READ COMMITTED: a statement reads what *)
(* is committed, and an UPDATE locks its row until the transaction ends.   *)
(* An edit and a regeneration UPDATE their section first and the proposal  *)
(* after the rebuild; the generate task leaves its section to the session's *)
(* flush, which writes the proposal before the sections.                   *)
(***************************************************************************)
EXTENDS Naturals

CONSTANTS
  Rows,        \* sections: 1 .. n
  Editors,     \* edits and regenerations that may be in progress at once
  Generators,  \* generate tasks
  NoWriter,
  MaxTexts     \* bound: texts written to sections

ASSUME SnapshotAssumption ==
  /\ Rows \subseteq Nat \ {0}
  /\ Editors \cap Generators = {}
  /\ NoWriter \notin Editors \cup Generators
  /\ MaxTexts \in Nat

Writers == Editors \cup Generators
ProposalRow == 0
Locks == Rows \cup {ProposalRow}

(* Texts are numbered as they are written.  0 is the empty document of a    *)
(* section the generate task has just inserted, whose content_text is NULL. *)
Text == 0 .. MaxTexts
Null == MaxTexts + 1

VARIABLES
  inserted,   \* sections that began as an inserted row without a mirror
  content,    \* content_json
  mirror,     \* content_text
  snapshot,   \* proposals.content, section by section
  lock,
  writer,
  texts,      \* texts written so far
  contended   \* a writer read the sections between another's read and commit

sVars == <<inserted, content, mirror, snapshot, lock, writer, texts, contended>>

Writer == [pc : {"idle", "read", "flush"}, target : Rows \cup {ProposalRow}, text : Text,
           view : [Rows -> Text],                 \* the sections as the rebuild reads them
           loaded : [Rows -> Text \cup {Null}]]   \* and their mirrors
IdleWriter == [pc |-> "idle", target |-> ProposalRow, text |-> 0,
               view |-> [r \in Rows |-> 0], loaded |-> [r \in Rows |-> Null]]

SInit ==
  /\ inserted \in SUBSET Rows
  /\ content = [r \in Rows |-> 0]
  /\ mirror = [r \in Rows |-> IF r \in inserted THEN Null ELSE 0]
  /\ snapshot = content
  /\ lock = [l \in Locks |-> NoWriter]
  /\ writer = [w \in Writers |-> IdleWriter]
  /\ texts = 0
  /\ contended = FALSE

SetWriter(w, state) == writer' = [writer EXCEPT ![w] = state]
Unlocked(w) == [l \in Locks |-> IF lock[l] = w THEN NoWriter ELSE lock[l]]

-----------------------------------------------------------------------------

NewText == texts < MaxTexts /\ texts' = texts + 1

\* The UPDATE that checks the version; a stale one changes nothing.
EditUpdate(w, r) ==
  /\ w \in Editors
  /\ writer[w].pc = "idle"
  /\ lock[r] = NoWriter
  /\ NewText
  /\ lock' = [lock EXCEPT ![r] = w]
  /\ SetWriter(w, [IdleWriter EXCEPT !.pc = "read", !.target = r, !.text = texts + 1])
  /\ UNCHANGED <<inserted, content, mirror, snapshot, contended>>

\* The queries of rebuild_proposal_content: the writer's own text, and what
\* is committed of the other sections.
Rebuild(w, r, text) ==
  /\ SetWriter(w, [pc |-> "flush", target |-> r, text |-> text,
                   view |-> [content EXCEPT ![r] = text], loaded |-> mirror])
  /\ contended' = (contended \/ \E v \in Writers \ {w} : writer[v].pc = "flush")

\* Mutant: without expire_all the session still has the section it checked.
EditReadUnexpired(w) ==
  /\ writer[w].pc = "read"
  /\ SetWriter(w, [writer[w] EXCEPT !.pc = "flush", !.view = content, !.loaded = mirror])
  /\ contended' = (contended \/ \E v \in Writers \ {w} : writer[v].pc = "flush")
  /\ UNCHANGED <<inserted, content, mirror, snapshot, lock, texts>>

EditRead(w) ==
  /\ writer[w].pc = "read"
  /\ Rebuild(w, writer[w].target, writer[w].text)
  /\ UNCHANGED <<inserted, content, mirror, snapshot, lock, texts>>

\* The LLM has answered, and the section is still the job's.
GenerateRead(w, r) ==
  /\ w \in Generators
  /\ writer[w].pc = "idle"
  /\ NewText
  /\ Rebuild(w, r, texts + 1)
  /\ UNCHANGED <<inserted, content, mirror, snapshot, lock>>

\* Mutant: the flush writes every section the rebuild has rendered.
AllRows(w) == Rows

\* The sections the flush writes: the writer's own, and those whose mirror
\* the rebuild changed.
DirtyRows(w) ==
  {r \in Rows : r = writer[w].target \/ writer[w].view[r] # writer[w].loaded[r]}

\* The next row the flush has to lock: the proposal, then the sections in
\* the order of their keys.
NextLock(w, l) ==
  LET missing == {k \in DirtyRows(w) \cup {ProposalRow} : lock[k] # w}
  IN  writer[w].pc = "flush" /\ l \in missing /\ \A k \in missing : l <= k

FlushRow(w, l) ==
  /\ NextLock(w, l)
  /\ lock[l] = NoWriter
  /\ lock' = [lock EXCEPT ![l] = w]
  /\ UNCHANGED <<inserted, content, mirror, snapshot, writer, texts, contended>>

CommitContent(w) ==
  LET self == writer[w]
  IN  /\ self.pc = "flush"
      /\ \A l \in Locks : ~NextLock(w, l)
      /\ content' = [content EXCEPT ![self.target] = self.text]
      /\ mirror' = [r \in Rows |-> IF r \in DirtyRows(w) THEN self.view[r] ELSE mirror[r]]
      /\ snapshot' = self.view
      /\ lock' = Unlocked(w)
      /\ SetWriter(w, IdleWriter)
      /\ UNCHANGED <<inserted, texts, contended>>

\* The transaction is rolled back: an edit is answered 500, a generated
\* section is marked FAILED and a regeneration is.
RollBack(w) ==
  /\ writer[w].pc # "idle"
  /\ lock' = Unlocked(w)
  /\ SetWriter(w, IdleWriter)
  /\ UNCHANGED <<inserted, content, mirror, snapshot, texts, contended>>

\* Writers that wait for one another; PostgreSQL rolls one of them back.
Deadlocked(group) ==
  /\ group # {}
  /\ \A w \in group : \E l \in Locks : NextLock(w, l) /\ lock[l] \in group \ {w}

SNext ==
  \/ \E w \in Writers, r \in Rows : EditUpdate(w, r) \/ GenerateRead(w, r)
  \/ \E w \in Writers : EditRead(w) \/ CommitContent(w) \/ RollBack(w)
  \/ \E w \in Writers, l \in Locks : FlushRow(w, l)

SSpec == SInit /\ [][SNext]_sVars

-----------------------------------------------------------------------------
(* Properties.                                                             *)

STypeOK ==
  /\ inserted \subseteq Rows
  /\ content \in [Rows -> Text]
  /\ mirror \in [Rows -> Text \cup {Null}]
  /\ snapshot \in [Rows -> Text]
  /\ lock \in [Locks -> Writers \cup {NoWriter}]
  /\ writer \in [Writers -> Writer]
  /\ texts \in Text
  /\ contended \in BOOLEAN

(* The snapshot is the sections' texts after every commit, unless a writer  *)
(* read the sections while another was between its read and its commit:     *)
(* waiting for a section, or being rolled back, does no harm.               *)
SnapshotCurrent == ~contended => snapshot = content

(* The mirror of a section is its text even then: a writer leaves alone the *)
(* mirrors it found right, so a late commit does not bring back an old one. *)
(* Only a section inserted without a mirror can get that of a stale read.   *)
MirrorCurrent == \A r \in Rows \ inserted : mirror[r] = content[r]

(* Edits and regenerations take their section before the proposal, so that  *)
(* they never deadlock: it takes a generate task, which takes the proposal  *)
(* first, or a section whose first mirror another section's writer fills in. *)
EditsDoNotDeadlock ==
  \A group \in SUBSET Editors : Deadlocked(group) => inserted # {}

=============================================================================
