-------------------------------- MODULE Views --------------------------------
(***************************************************************************)
(* How the dashboard, the widget and the alerter read what the collectors  *)
(* have cached: three pieces of code that judge one disk's status bits     *)
(* (here the set of the bits that are on), and two that judge one backup's *)
(* age (templates/helpers.go, internal/api/handlers.go, alerter.go).       *)
(***************************************************************************)
EXTENDS Integers

ScrutinyFailures == {"FailedSmart", "FailedScrutiny"}

\* The class of the chip in the table of disks.
DiskStatusClass(status) ==
  IF status \cap ScrutinyFailures # {} THEN "crit"
  ELSE IF "WarnScrutiny" \in status THEN "warn"
  ELSE IF "Unknown" \in status THEN "unk"
  ELSE IF "InternalError" \in status THEN "warn"
  ELSE "ok"

\* The number of /api/widget the disk is counted in.
WidgetCategory(status) ==
  IF status = {} THEN "Passed"
  ELSE IF status \cap ScrutinyFailures # {} THEN "Failed"
  ELSE IF "WarnScrutiny" \in status THEN "Warning"
  ELSE "Unknown"

\* The alerts that one disk gives rise to, before de-duplication.
DiskAlerts(health, status) ==
  (IF health = "FAILED" \/ "FailedSmart" \in status THEN {"disk_smart_failed"} ELSE {})
  \cup
  (IF status \cap {"WarnScrutiny", "FailedScrutiny"} # {} THEN {"disk_scrutiny_warning"} ELSE {})

\* The chip of a backup, and whether the alerter calls it stale.
BackupStatusLabel(age, staleHours) == IF age > staleHours THEN "Stale" ELSE "Ok"
BackupIsStale(age, maxAge) == age > maxAge
=============================================================================
