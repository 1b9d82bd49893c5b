--------------------------- MODULE SchemaMigrations ---------------------------
(***************************************************************************)
(* The database schema, the alembic revisions that build it, and the       *)
(* containers that apply them.                                             *)
(*                                                                         *)
(* The backend and the worker container both start with                    *)
(* "alembic upgrade head && <server>" (docker-compose.yml), so the two     *)
(* migrate at the same time after every deploy, and a container whose      *)
(* upgrade is refused exits and is restarted (docker-compose.prod.yml).    *)
(* env.py applies all pending revisions in one transaction.  Operators     *)
(* downgrade by hand (docs/RUNBOOK.md).                                    *)
(*                                                                         *)
(* An object of the schema is a table, or a column, index or constraint    *)
(* that a later revision adds to a table; what comes and goes with its     *)
(* table is not listed.  A change of nullability leaves the set of objects *)
(* alone.  PostgreSQL is the database.                                     *)
(***************************************************************************)
EXTENDS Naturals, FiniteSets, Sequences

CONSTANTS
  Containers,          \* containers that migrate when they start
  Images,              \* newest revision of an image that may be deployed
  MaxDeploys,          \* bound: deploys after the first
  MaxDowngrades,       \* bound: downgrades by an operator
  MaxMigrationFaults   \* bound: upgrades refused by the data or a lost connection

VARIABLES
  version,     \* alembic_version: number of revisions applied, committed
  objects,     \* tables, columns and constraints, committed
  enums,       \* enum types, committed
  image,       \* the deployed image
  container,   \* what each container does
  deploys, downgrades, rolledBack, migrationFaults

mVars == <<version, objects, enums, image, container,
           deploys, downgrades, rolledBack, migrationFaults>>

-----------------------------------------------------------------------------
(* The revisions, in the order of their down_revision.  enums are the types *)
(* that CREATE TABLE creates without looking for them.  noCast are columns  *)
(* whose type changes from TEXT to JSON with no USING clause, a change that *)
(* PostgreSQL refuses.  dropped and droppedEnums are what downgrade drops.  *)

Added(new) == [added |-> new, enums |-> {}, noCast |-> {}, dropped |-> new, droppedEnums |-> {}]

R_d7a67981ca12 ==
  [Added({"grants", "organizations", "company_documents", "proposals", "users"})
     EXCEPT !.enums = {"documentstatus", "proposalstatus", "roleenum"}]

R_d9dcd97b8516 == Added({"grants.sector_tags"})

R_23d3fff296a2 == Added({"grant_matches", "organizations.match_threshold",
                         "organizations.alert_email_enabled"})

R_a41b7c9d2e10 == Added({"organizations.email_domain", "uq_grant_matches_org_grant"})

R_e2f4a6b8c910 ==
  [Added({"proposals.generation_job_id", "proposal_sections"})
     EXCEPT !.enums = {"sectionstatus"}, !.droppedEnums = {"sectionstatus"}]

\* The two enum types of this revision belong to columns of existing tables.
R_f4c8a1d3e520 ==
  Added({"organizations.subscription_status", "organizations.stripe_customer_id",
         "organizations.stripe_subscription_id",
         "organizations.subscription_current_period_end", "proposals.application_status",
         "proposals.submitted_at", "proposal_feedback", "billing_webhook_events"})

R_602668b891d0 == Added({"user_invitations"})

R_665cd05ee540 ==
  [Added({"organizations.match_threshold", "organizations.alert_email_enabled",
          "proposal_sections.content_text"})
     EXCEPT !.noCast = {"grants.sector_tags", "organizations.countries_of_operation",
                        "organizations.core_technologies"}]

R_7b3c9d1e2f4a == Added({"proposals.created_by", "fk_proposals_created_by"})

Chain == <<R_d7a67981ca12, R_d9dcd97b8516, R_23d3fff296a2, R_a41b7c9d2e10, R_e2f4a6b8c910,
           R_f4c8a1d3e520, R_602668b891d0, R_665cd05ee540, R_7b3c9d1e2f4a>>

Versions == 0..Len(Chain)

\* An image carries the revisions up to its newest one.
ASSUME MigrationsAssumption == Images \subseteq Versions

AddedBy(revisions) == UNION {Chain[k].added : k \in revisions}
EnumsOf(revisions) == UNION {Chain[k].enums : k \in revisions}
DroppedBy(revisions) == UNION {Chain[k].dropped : k \in revisions}

\* Every statement of the revisions after from, up to to, is accepted.
Applies(from, to) ==
  \A k \in (from + 1)..to :
    /\ Chain[k].noCast = {}
    /\ Chain[k].added \cap (objects \cup AddedBy((from + 1)..(k - 1))) = {}
    /\ Chain[k].enums \cap (enums \cup EnumsOf((from + 1)..(k - 1))) = {}

Reverts(from, to) ==
  \A k \in (to + 1)..from : Chain[k].dropped \subseteq objects \ DroppedBy((k + 1)..from)

-----------------------------------------------------------------------------

Container == [state : {"starting", "migrating", "serving"}, from : Versions]
Starting == [state |-> "starting", from |-> 0]

MInit ==
  /\ version = 0
  /\ objects = {}
  /\ enums = {}
  /\ image \in Images
  /\ container = [c \in Containers |-> Starting]
  /\ deploys = 0
  /\ downgrades = 0
  /\ rolledBack = FALSE
  /\ migrationFaults = 0

\* docker compose up -d with another image: the containers are replaced, and
\* what a migration under way did is rolled back with its connection.
Deploy(i) ==
  /\ deploys < MaxDeploys
  /\ deploys' = deploys + 1
  /\ image' = i
  /\ container' = [c \in Containers |-> Starting]
  /\ rolledBack' = FALSE
  /\ UNCHANGED <<version, objects, enums, downgrades, migrationFaults>>

\* alembic reads alembic_version.  An image older than the database does not
\* find the revision, and its container exits and is started again.
UpgradeBegin(c) ==
  /\ container[c].state = "starting"
  /\ version <= image
  /\ container' = [container EXCEPT ![c] = [state |-> "migrating", from |-> version]]
  /\ UNCHANGED <<version, objects, enums, image, deploys, downgrades, rolledBack, migrationFaults>>

\* Mutant: alembic_version is set without a look at what it was.
UpgradeAcceptedBlind(c) == Applies(container[c].from, image)

\* DDL locks make the second of two transactions wait for the first, and
\* UPDATE alembic_version ... WHERE version_num = <from> then finds no row.
UpgradeAccepted(c) ==
  \/ container[c].from = image
  \/ container[c].from = version /\ Applies(version, image)

\* Mutant: a container whose upgrade is refused is not started again.
UpgradeRefusedForGood(c) ==
  /\ container[c].state = "migrating"
  /\ ~UpgradeAccepted(c)
  /\ UNCHANGED mVars

\* Mutant: "alembic upgrade head ; <server>".
UpgradeRefusedServes(c) ==
  /\ container[c].state = "migrating"
  /\ ~UpgradeAccepted(c)
  /\ container' = [container EXCEPT ![c].state = "serving"]
  /\ UNCHANGED <<version, objects, enums, image, deploys, downgrades, rolledBack, migrationFaults>>

UpgradeRefused(c) ==
  /\ container[c].state = "migrating"
  /\ ~UpgradeAccepted(c)
  /\ container' = [container EXCEPT ![c] = Starting]
  /\ UNCHANGED <<version, objects, enums, image, deploys, downgrades, rolledBack, migrationFaults>>

UpgradeCommit(c) ==
  LET revisions == (container[c].from + 1)..image
  IN  /\ container[c].state = "migrating"
      /\ UpgradeAccepted(c)
      /\ version' = IF revisions = {} THEN version ELSE image
      /\ objects' = objects \cup AddedBy(revisions)
      /\ enums' = enums \cup EnumsOf(revisions)
      /\ container' = [container EXCEPT ![c].state = "serving"]
      /\ UNCHANGED <<image, deploys, downgrades, rolledBack, migrationFaults>>

\* Rows that break a new constraint (the API may write while the revision that
\* removes duplicates runs), a lock timeout or a lost connection.
UpgradeFails(c) ==
  /\ migrationFaults < MaxMigrationFaults
  /\ container[c].state = "migrating"
  /\ migrationFaults' = migrationFaults + 1
  /\ container' = [container EXCEPT ![c] = Starting]
  /\ UNCHANGED <<version, objects, enums, image, deploys, downgrades, rolledBack>>

\* docker compose exec <container> alembic downgrade <revision>: one transaction
\* as well.  It and an upgrade wait for each other at the row of alembic_version,
\* and the one that commits first is the one that is accepted.
Downgrade(to) ==
  LET revisions == (to + 1)..version
  IN  /\ downgrades < MaxDowngrades
      /\ to < version
      /\ version <= image
      /\ \E c \in Containers : container[c].state = "serving"
      /\ Reverts(version, to)
      /\ version' = to
      /\ objects' = objects \ DroppedBy(revisions)
      /\ enums' = enums \ UNION {Chain[k].droppedEnums : k \in revisions}
      /\ downgrades' = downgrades + 1
      /\ rolledBack' = TRUE
      /\ UNCHANGED <<image, container, deploys, migrationFaults>>

MNext ==
  \/ \E i \in Images : Deploy(i)
  \/ \E c \in Containers : UpgradeBegin(c)
  \/ \E c \in Containers : UpgradeRefused(c)
  \/ \E c \in Containers : UpgradeCommit(c)
  \/ \E c \in Containers : UpgradeFails(c)
  \/ \E to \in Versions : Downgrade(to)

MFairness ==
  \A c \in Containers :
    /\ WF_mVars(UpgradeBegin(c))
    /\ WF_mVars(UpgradeRefused(c))
    /\ WF_mVars(UpgradeCommit(c))

MSpec == MInit /\ [][MNext]_mVars /\ MFairness

-----------------------------------------------------------------------------
(* Properties.                                                             *)

MTypeOK ==
  /\ version \in Versions
  /\ objects \subseteq AddedBy(1..Len(Chain))
  /\ enums \subseteq EnumsOf(1..Len(Chain))
  /\ image \in Images
  /\ container \in [Containers -> Container]
  /\ rolledBack \in BOOLEAN
  /\ deploys \in Nat /\ downgrades \in Nat /\ migrationFaults \in Nat

(* alembic_version tells which tables, columns and constraints there are:   *)
(* two containers that migrate at once, an upgrade that fails halfway, a    *)
(* deploy that kills it and a downgrade beside it never leave a mixture.    *)
SchemaMatchesVersion == objects = AddedBy(1..version)

(* No server runs over a schema older than its code, whoever migrated: only *)
(* an operator's downgrade puts the schema back under a running server.     *)
ServesItsSchema ==
  \A c \in Containers : container[c].state = "serving" => version >= image \/ rolledBack

(* The container that loses the race to migrate comes up too: in the end    *)
(* every container serves, unless the image is older than the database or   *)
(* the database refuses its revisions.                                      *)
ContainersServe ==
  <>[](\A c \in Containers : \/ container[c].state = "serving"
                             \/ version > image
                             \/ ~Applies(version, image))

(* What docs/RUNBOOK.md tells operators: "alembic upgrade head" applies the *)
(* migrations.  The database here is migrated by one container at a time.   *)
UpgradeApplies ==
  \A c \in Containers : container[c].state = "migrating" => UpgradeAccepted(c)

=============================================================================
