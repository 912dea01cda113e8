----------------------------- MODULE MCReports ------------------------------
(* One moderator and one administrator, two reports of one account.        *)
EXTENDS Reports

ReportsSpec == ReportsInit /\ [][ReportsNext]_reportVars
=============================================================================
