------------------------ MODULE SchemaMigrationsProofs ------------------------
(* Theorems about the database schema, for any number of containers, of      *)
(* deploys, downgrades and faults, and for any images.                       *)
EXTENDS SchemaMigrations, TLAPS

(***************************************************************************)
(* The nine revisions, as far as the proofs look into them.                *)
(***************************************************************************)

LEMMA ChainHas ==
  /\ Len(Chain) = 9
  /\ Chain[1] = R_d7a67981ca12 /\ Chain[2] = R_d9dcd97b8516 /\ Chain[3] = R_23d3fff296a2
  /\ Chain[4] = R_a41b7c9d2e10 /\ Chain[5] = R_e2f4a6b8c910 /\ Chain[6] = R_f4c8a1d3e520
  /\ Chain[7] = R_602668b891d0 /\ Chain[8] = R_665cd05ee540 /\ Chain[9] = R_7b3c9d1e2f4a
BY DEF Chain

(* 665cd05ee540 changes the type of a column in a way PostgreSQL refuses.   *)
LEMMA CastIsRefused == Chain[8].noCast # {}
BY ChainHas DEF R_665cd05ee540, Added

(* What the revisions before it add, and that a downgrade drops the same.    *)
LEMMA AddedIs ==
  /\ Chain[1].added =
        {"grants", "organizations", "company_documents", "proposals", "users"}
  /\ Chain[2].added =
        {"grants.sector_tags"}
  /\ Chain[3].added =
        {"grant_matches", "organizations.match_threshold",
         "organizations.alert_email_enabled"}
  /\ Chain[4].added =
        {"organizations.email_domain", "uq_grant_matches_org_grant"}
  /\ Chain[5].added =
        {"proposals.generation_job_id", "proposal_sections"}
  /\ Chain[6].added =
        {"organizations.subscription_status", "organizations.stripe_customer_id",
         "organizations.stripe_subscription_id",
         "organizations.subscription_current_period_end", "proposals.application_status",
         "proposals.submitted_at", "proposal_feedback", "billing_webhook_events"}
  /\ Chain[7].added =
        {"user_invitations"}
<1>1. Chain[1].added =
        {"grants", "organizations", "company_documents", "proposals", "users"}
  BY ChainHas DEF R_d7a67981ca12, Added
<1>2. Chain[2].added =
        {"grants.sector_tags"}
  BY ChainHas DEF R_d9dcd97b8516, Added
<1>3. Chain[3].added =
        {"grant_matches", "organizations.match_threshold",
         "organizations.alert_email_enabled"}
  BY ChainHas DEF R_23d3fff296a2, Added
<1>4. Chain[4].added =
        {"organizations.email_domain", "uq_grant_matches_org_grant"}
  BY ChainHas DEF R_a41b7c9d2e10, Added
<1>5. Chain[5].added =
        {"proposals.generation_job_id", "proposal_sections"}
  BY ChainHas DEF R_e2f4a6b8c910, Added
<1>6. Chain[6].added =
        {"organizations.subscription_status", "organizations.stripe_customer_id",
         "organizations.stripe_subscription_id",
         "organizations.subscription_current_period_end", "proposals.application_status",
         "proposals.submitted_at", "proposal_feedback", "billing_webhook_events"}
  BY ChainHas DEF R_f4c8a1d3e520, Added
<1>7. Chain[7].added =
        {"user_invitations"}
  BY ChainHas DEF R_602668b891d0, Added
<1> QED BY <1>1, <1>2, <1>3, <1>4, <1>5, <1>6, <1>7

LEMMA DroppedIsAdded ==
  ASSUME NEW k \in 1..7
  PROVE  Chain[k].dropped = Chain[k].added
<1>1. CASE k = 1
  BY <1>1, ChainHas DEF R_d7a67981ca12, Added
<1>2. CASE k = 2
  BY <1>2, ChainHas DEF R_d9dcd97b8516, Added
<1>3. CASE k = 3
  BY <1>3, ChainHas DEF R_23d3fff296a2, Added
<1>4. CASE k = 4
  BY <1>4, ChainHas DEF R_a41b7c9d2e10, Added
<1>5. CASE k = 5
  BY <1>5, ChainHas DEF R_e2f4a6b8c910, Added
<1>6. CASE k = 6
  BY <1>6, ChainHas DEF R_f4c8a1d3e520, Added
<1>7. CASE k = 7
  BY <1>7, ChainHas DEF R_602668b891d0, Added
<1> QED BY <1>1, <1>2, <1>3, <1>4, <1>5, <1>6, <1>7

(* No two of them add the same object.                                      *)
LEMMA AddedOnce ==
  ASSUME NEW j \in 1..7, NEW k \in 1..7, j # k
  PROVE  Chain[j].added \cap Chain[k].added = {}
<1>1. CASE j = 1
  BY <1>1, AddedIs
<1>2. CASE j = 2
  BY <1>2, AddedIs
<1>3. CASE j = 3
  BY <1>3, AddedIs
<1>4. CASE j = 4
  BY <1>4, AddedIs
<1>5. CASE j = 5
  BY <1>5, AddedIs
<1>6. CASE j = 6
  BY <1>6, AddedIs
<1>7. CASE j = 7
  BY <1>7, AddedIs
<1> QED BY <1>1, <1>2, <1>3, <1>4, <1>5, <1>6, <1>7

LEMMA AddedByUnion ==
  ASSUME NEW A, NEW B
  PROVE  AddedBy(A) \cup AddedBy(B) = AddedBy(A \cup B)
BY DEF AddedBy

(* What is left of the first revisions after the later ones are dropped.     *)
LEMMA DroppedLeaves ==
  ASSUME NEW from \in 0..7, NEW to \in Nat, to < from
  PROVE  AddedBy(1..from) \ DroppedBy((to + 1)..from) = AddedBy(1..to)
<1>1. DroppedBy((to + 1)..from) = AddedBy((to + 1)..from)
  BY DroppedIsAdded DEF DroppedBy, AddedBy
<1>2. AddedBy(1..from) = AddedBy(1..to) \cup AddedBy((to + 1)..from)
  <2>1. 1..from = (1..to) \cup ((to + 1)..from)
    OBVIOUS
  <2> QED BY <2>1, AddedByUnion
<1>3. AddedBy(1..to) \cap AddedBy((to + 1)..from) = {}
  <2> SUFFICES ASSUME NEW j \in 1..to, NEW k \in (to + 1)..from
               PROVE  Chain[j].added \cap Chain[k].added = {}
    BY DEF AddedBy
  <2> QED BY AddedOnce
<1> QED BY <1>1, <1>2, <1>3

-----------------------------------------------------------------------------
(***************************************************************************)
(* The inductive invariant.                                                *)
(***************************************************************************)

(* No database gets past the revisions before 665cd05ee540.                 *)
StopsAtSeven == version <= 7

(* A container that migrates began at a version its image has, and only a   *)
(* downgrade has put the database behind it since.                          *)
BeganBelow ==
  \A c \in Containers :
    container[c].state = "migrating" =>
      container[c].from <= image /\ (container[c].from <= version \/ rolledBack)

MInv == MTypeOK /\ StopsAtSeven /\ SchemaMatchesVersion /\ BeganBelow /\ ServesItsSchema

LEMMA InitMigrations == MInit => MInv
<1> SUFFICES ASSUME MInit PROVE MInv
  OBVIOUS
<1>1. objects = AddedBy(1..version)
  BY DEF MInit, AddedBy
<1>2. Starting \in Container /\ Starting.state = "starting"
  BY ChainHas DEF Starting, Container, Versions
<1>3. MTypeOK
  <2>1. 0 \in Versions
    BY ChainHas DEF Versions
  <2>2. container \in [Containers -> Container]
    BY <1>2 DEF MInit
  <2>3. 0 \in Nat
    OBVIOUS
  <2> QED BY <2>1, <2>2, <2>3, Zenon DEF MInit, MTypeOK
<1> QED
  BY <1>1, <1>2, <1>3
  DEF MInit, MInv, StopsAtSeven, SchemaMatchesVersion, BeganBelow, ServesItsSchema

(* An upgrade that is accepted leaves the database at the newer of its       *)
(* version and the image, and never beyond 7.                               *)
LEMMA CommitReaches ==
  ASSUME MInv, NEW c \in Containers, UpgradeCommit(c)
  PROVE  /\ version' \in 0..7
         /\ version <= version'
         /\ container[c].from = version \/ container[c].from = image
         /\ container[c].from = image => version' = version
         /\ container[c].from # image => version' = image
         /\ objects' = AddedBy(1..version')
<1> DEFINE from == container[c].from
           revisions == (from + 1)..image
<1>1. /\ from \in 0..9 /\ image \in 0..9 /\ version \in 0..7 /\ from <= image
      /\ objects = AddedBy(1..version)
      /\ version' = IF revisions = {} THEN version ELSE image
      /\ objects' = objects \cup AddedBy(revisions)
  BY ChainHas, MigrationsAssumption
  DEF MInv, MTypeOK, StopsAtSeven, SchemaMatchesVersion, BeganBelow, UpgradeCommit, Container,
      Versions
<1>2. CASE from = image
  <2>1. revisions = {}
    BY <1>1, <1>2
  <2>2. AddedBy(revisions) = {}
    BY <2>1 DEF AddedBy
  <2> QED BY <1>1, <1>2, <2>1, <2>2
<1>3. CASE from # image
  <2>1. from = version /\ Applies(version, image)
    BY <1>3 DEF UpgradeCommit, UpgradeAccepted
  <2>2. image < 8
    BY <1>1, <2>1, CastIsRefused DEF Applies
  <2>3. from + 1 \in revisions
    BY <1>1, <1>3
  <2>4. 1..image = (1..version) \cup revisions
    BY <1>1, <2>1
  <2>5. objects' = AddedBy(1..image)
    <3>1. AddedBy(1..version) \cup AddedBy(revisions) = AddedBy((1..version) \cup revisions)
      BY AddedByUnion
    <3> QED BY <1>1, <2>3, <2>4, <3>1, Zenon
  <2> QED BY <1>1, <1>3, <2>1, <2>2, <2>3, <2>5
<1> QED BY <1>2, <1>3

LEMMA NextMigrationTypes == MInv /\ [MNext]_mVars => MTypeOK'
<1> SUFFICES ASSUME MInv, [MNext]_mVars PROVE MTypeOK'
  OBVIOUS
<1> USE DEF MTypeOK
<1>1. MTypeOK
  BY DEF MInv
<1>2. Starting \in Container
  BY ChainHas DEF Starting, Container, Versions
<1>3. ASSUME NEW i \in Images, Deploy(i) PROVE MTypeOK'
  <2>1. container' \in [Containers -> Container] /\ deploys' \in Nat
    BY <1>1, <1>2, <1>3 DEF Deploy
  <2> QED BY <1>1, <1>3, <2>1, Zenon DEF Deploy
<1>4. ASSUME NEW c \in Containers, UpgradeBegin(c) PROVE MTypeOK'
  <2>1. [state |-> "migrating", from |-> version] \in Container
    BY <1>1 DEF Container
  <2> QED BY <1>1, <1>4, <2>1 DEF UpgradeBegin
<1>5. ASSUME NEW c \in Containers, UpgradeRefused(c) \/ UpgradeFails(c) PROVE MTypeOK'
  BY <1>1, <1>2, <1>5 DEF UpgradeRefused, UpgradeFails
<1>6. ASSUME NEW c \in Containers, UpgradeCommit(c) PROVE MTypeOK'
  <2> DEFINE revisions == (container[c].from + 1)..image
  <2>1. container[c].from \in 0..9 /\ image \in 0..9
    BY <1>1, ChainHas, MigrationsAssumption DEF Container, Versions
  <2>2. AddedBy(revisions) \subseteq AddedBy(1..9) /\ EnumsOf(revisions) \subseteq EnumsOf(1..9)
    <3>1. revisions \subseteq 1..9
      BY <2>1
    <3> HIDE DEF revisions
    <3> QED BY <3>1 DEF AddedBy, EnumsOf
  <2>3. objects' \subseteq AddedBy(1..Len(Chain)) /\ enums' \subseteq EnumsOf(1..Len(Chain))
    BY <1>1, <1>6, <2>2, ChainHas DEF UpgradeCommit
  <2>4. version' \in Versions
    BY <1>6, CommitReaches, ChainHas DEF Versions
  <2>5. container' \in [Containers -> Container]
    BY <1>1, <1>6 DEF UpgradeCommit, Container
  <2> QED BY <1>1, <1>6, <2>3, <2>4, <2>5 DEF UpgradeCommit
<1>7. ASSUME NEW to \in Versions, Downgrade(to) PROVE MTypeOK'
  BY <1>1, <1>7 DEF Downgrade
<1>8. CASE UNCHANGED mVars
  BY <1>1, <1>8 DEF mVars
<1> QED BY <1>3, <1>4, <1>5, <1>6, <1>7, <1>8 DEF MNext

LEMMA NextMigrations == MInv /\ [MNext]_mVars => MInv'
<1> SUFFICES ASSUME MInv, [MNext]_mVars
             PROVE  (StopsAtSeven /\ SchemaMatchesVersion /\ BeganBelow /\ ServesItsSchema)'
  BY NextMigrationTypes DEF MInv
<1> USE DEF StopsAtSeven, SchemaMatchesVersion, BeganBelow, ServesItsSchema
<1>1. /\ version \in 0..7
      /\ image \in 0..9
      /\ container \in [Containers -> Container]
      /\ \A c \in Containers : container[c].from \in 0..9
  BY ChainHas, MigrationsAssumption DEF MInv, MTypeOK, Container, Versions
<1>2. MInv
  OBVIOUS
<1> USE DEF MInv
<1>3. ASSUME NEW i \in Images, Deploy(i)
      PROVE  (StopsAtSeven /\ SchemaMatchesVersion /\ BeganBelow /\ ServesItsSchema)'
  BY <1>1, <1>3 DEF Deploy, Starting
<1>4. ASSUME NEW c \in Containers, UpgradeBegin(c)
      PROVE  (StopsAtSeven /\ SchemaMatchesVersion /\ BeganBelow /\ ServesItsSchema)'
  BY <1>1, <1>4 DEF UpgradeBegin
<1>5. ASSUME NEW c \in Containers, UpgradeRefused(c) \/ UpgradeFails(c)
      PROVE  (StopsAtSeven /\ SchemaMatchesVersion /\ BeganBelow /\ ServesItsSchema)'
  BY <1>1, <1>5 DEF UpgradeRefused, UpgradeFails, Starting
<1>6. ASSUME NEW c \in Containers, UpgradeCommit(c)
      PROVE  (StopsAtSeven /\ SchemaMatchesVersion /\ BeganBelow /\ ServesItsSchema)'
  <2>1. /\ version' \in 0..7
        /\ version <= version'
        /\ container[c].from = image => version' = version
        /\ container[c].from # image => version' = image
        /\ objects' = AddedBy(1..version')
    BY <1>6, CommitReaches
  <2>2. /\ UNCHANGED <<image, rolledBack>>
        /\ container[c].state = "migrating"
        /\ container' = [container EXCEPT ![c].state = "serving"]
    BY <1>6 DEF UpgradeCommit
  <2>3. BeganBelow'
    BY <1>1, <2>1, <2>2
  <2>4. ServesItsSchema'
    BY <1>1, <2>1, <2>2
  <2> QED BY <2>1, <2>3, <2>4
<1>7. ASSUME NEW to \in Versions, Downgrade(to)
      PROVE  (StopsAtSeven /\ SchemaMatchesVersion /\ BeganBelow /\ ServesItsSchema)'
  <2>1. to \in Nat /\ to < version /\ version' = to /\ rolledBack' /\ UNCHANGED <<image, container>>
    BY <1>7 DEF Downgrade, Versions
  <2>2. objects' = AddedBy(1..to)
    BY <1>1, <1>7, <2>1, DroppedLeaves DEF Downgrade
  <2> QED BY <1>1, <2>1, <2>2
<1>8. CASE UNCHANGED mVars
  BY <1>1, <1>8 DEF mVars
<1> QED BY <1>3, <1>4, <1>5, <1>6, <1>7, <1>8 DEF MNext

(* The steps keep the invariant; no fairness is needed.                     *)
LEMMA MigrationsHold == MInit /\ [][MNext]_mVars => []MInv
BY InitMigrations, NextMigrations, PTL

(***************************************************************************)
(* The state of the database and of the containers is well formed, for any *)
(* images and any number of containers: SchemaMigrations.                  *)
(***************************************************************************)
THEOREM MigrationsTypeCorrect == MSpec => []MTypeOK
<1>1. MInv => MTypeOK
  BY DEF MInv
<1> QED BY <1>1, MigrationsHold, PTL DEF MSpec

(***************************************************************************)
(* No interleaving of containers that migrate, failures, deploys and       *)
(* downgrades leaves a mixture of revisions in the database.               *)
(***************************************************************************)
THEOREM NoMixture == MSpec => []SchemaMatchesVersion
<1>1. MInv => SchemaMatchesVersion
  BY DEF MInv
<1> QED BY <1>1, MigrationsHold, PTL DEF MSpec

(***************************************************************************)
(* A server never runs over a schema older than its code, unless an        *)
(* operator has downgraded the database since the deploy.                  *)
(***************************************************************************)
THEOREM ServersHaveTheirSchema == MSpec => []ServesItsSchema
<1>1. MInv => ServesItsSchema
  BY DEF MInv
<1> QED BY <1>1, MigrationsHold, PTL DEF MSpec

(***************************************************************************)
(* Whatever is deployed, no database gets past the seventh revision: the   *)
(* eighth changes TEXT columns to JSON with no USING clause.               *)
(***************************************************************************)
THEOREM EighthIsNeverApplied == MSpec => []StopsAtSeven
<1>1. MInv => StopsAtSeven
  BY DEF MInv
<1> QED BY <1>1, MigrationsHold, PTL DEF MSpec

=============================================================================
