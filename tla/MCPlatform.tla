----------------------------- MODULE MCPlatform -----------------------------
(***************************************************************************)
(* One instance of the parts of the platform that share no state with each *)
(* other: every behaviour follows one of them, its focus, while the others *)
(* rest in their initial states.  The state space is the sum of the parts. *)
(***************************************************************************)
EXTENDS LoginLockout, Accounts, ProposalAdmission, ProposalTracking, GrantDiscovery,
        DocumentPipeline, ContentSnapshot, SchemaMigrations, ProposalWorkspace

VARIABLE focus

MCLower == [e \in Emails |-> IF e = "BOB" THEN "bob" ELSE e]
MCLimit == [t \in Tiers |-> CASE t = "growth" -> 1 [] t = "scale" -> 2 [] OTHER -> NoLimit]
MCPages == {<<"old", "new">>, <<"new", NoText>>}
MCRows == 1 .. 2

\* A part that is not in focus has one initial state.
AtRest ==
  /\ focus # "login" => redis
  /\ focus # "admission" => tier = "growth" /\ ~lapsed
  /\ focus # "discovery" => page = Shown(<<"old", "new">>)
  /\ focus # "documents" => kind = [d \in Docs |-> "readable"]
  /\ focus # "snapshot" => inserted = {}
  /\ focus # "schema" => image = 7

Init ==
  /\ focus \in {"login", "accounts", "admission", "tracking", "feedback", "discovery",
                "documents", "snapshot", "schema", "workspace"}
  /\ LInit /\ AInit /\ PInit /\ TInit /\ DInit /\ UInit /\ SInit /\ MInit /\ WInit
  /\ AtRest

Next ==
  \/ /\ focus = "login" /\ LNext
     /\ UNCHANGED <<focus, aVars, pVars, tVars, dVars, uVars, sVars, mVars, wVars>>
  \/ /\ focus = "accounts" /\ ANext
     /\ UNCHANGED <<focus, lVars, pVars, tVars, dVars, uVars, sVars, mVars, wVars>>
  \/ /\ focus = "admission" /\ PNext
     /\ UNCHANGED <<focus, lVars, aVars, tVars, dVars, uVars, sVars, mVars, wVars>>
  \/ /\ focus = "tracking" /\ TrackingNext
     /\ UNCHANGED <<focus, lVars, aVars, pVars, dVars, uVars, sVars, mVars, wVars>>
  \/ /\ focus = "feedback" /\ FeedbackNext
     /\ UNCHANGED <<focus, lVars, aVars, pVars, dVars, uVars, sVars, mVars, wVars>>
  \/ /\ focus = "discovery" /\ DNext
     /\ UNCHANGED <<focus, lVars, aVars, pVars, tVars, uVars, sVars, mVars, wVars>>
  \/ /\ focus = "documents" /\ UNext
     /\ UNCHANGED <<focus, lVars, aVars, pVars, tVars, dVars, sVars, mVars, wVars>>
  \/ /\ focus = "snapshot" /\ SNext
     /\ UNCHANGED <<focus, lVars, aVars, pVars, tVars, dVars, uVars, mVars, wVars>>
  \/ /\ focus = "schema" /\ MNext
     /\ UNCHANGED <<focus, lVars, aVars, pVars, tVars, dVars, uVars, sVars, wVars>>
  \/ /\ focus = "workspace" /\ WNext
     /\ UNCHANGED <<focus, lVars, aVars, pVars, tVars, dVars, uVars, sVars, mVars>>

vars == <<focus, lVars, aVars, pVars, tVars, dVars, uVars, sVars, mVars, wVars>>

\* The fairness of each part, as its own module states it.
Fairness ==
  /\ WF_dVars(focus = "discovery" /\ ScrapeBeat)
  /\ \A w \in Sweepers : WF_dVars(focus = "discovery" /\ SweepStep(w))
  /\ \A w \in Processors : WF_uVars(focus = "documents" /\ ProcessStep(w))
  /\ \A c \in Containers :
       /\ WF_mVars(focus = "schema" /\ UpgradeBegin(c))
       /\ WF_mVars(focus = "schema" /\ UpgradeRefused(c))
       /\ WF_mVars(focus = "schema" /\ UpgradeCommit(c))
  /\ WF_wVars(focus = "workspace" /\ Autosave)
  /\ WF_wVars(focus = "workspace" /\ SaveStep)

Spec == Init /\ [][Next]_vars /\ Fairness

(* Every part is well typed.                                               *)
PlatformTypeOK ==
  LTypeOK /\ ATypeOK /\ PTypeOK /\ TTypeOK /\ DTypeOK /\ UTypeOK /\ STypeOK /\ MTypeOK
  /\ WTypeOK

(* GrantDiscovery: the database and the index catch up with the page.       *)
DiscoveryCatchesUp == focus = "discovery" => CatalogueCatchesUp

(* DocumentPipeline: a document is PROCESSED or FAILED in the end.          *)
PipelineSettles == focus = "documents" => DocumentSettles

(* SchemaMigrations: the containers of a deploy all serve in the end.       *)
DeployServes == focus = "schema" => ContainersServe

(* ProposalWorkspace: a draft does not stay unsaved, unless the timer fired  *)
(* while another section was being saved.                                   *)
WorkspaceSaves == focus = "workspace" => DraftIsSent

=============================================================================
