\* One container, one image, no fault: the deploy of docs/RUNBOOK.md.
SPECIFICATION MSpec
CONSTANTS
  Containers = {backend}
  Images = {9}
  MaxDeploys = 0
  MaxDowngrades = 0
  MaxMigrationFaults = 0
INVARIANTS UpgradeApplies
\* The container is restarted for ever, or serves.
CHECK_DEADLOCK FALSE
