------------------------------ MODULE Reports ------------------------------
(***************************************************************************)
(* The two families of reports beside each other: those of the engines and *)
(* those of the growth modules.  Their tables are of the same form, and    *)
(* each family has a mixin of its own that numbers the rows (the           *)
(* EngineRepoMixin and the GrowthRepoMixin).                               *)
(***************************************************************************)
EXTENDS EngineReports, GrowthReports

(* Requests for both are served at once; no row is of both.                *)
ReportsInit == EInit /\ GrInit
ReportsNext ==
  \/ ENext /\ UNCHANGED grvars
  \/ GrNext /\ UNCHANGED evars
ReportsSpec == ReportsInit /\ [][ReportsNext]_<<evars, grvars>>

-----------------------------------------------------------------------------
(* As long as no two requests on one scope are under way at once, the      *)
(* versions of its reports count its rows, in both families: none is given *)
(* twice, and the latest is the one with the greatest number.              *)
VersionsHold ==
  ETypeOK /\ GrTypeOK /\ ReportVersions /\ GrowthVersions

(* What the reports say agrees with what it is computed from: scores with  *)
(* their evidence, groups with each other, and nothing with the order in   *)
(* which records and reviews were read.                                    *)
ReportsAgree ==
  /\ ScoresAverageEvidence /\ GroupsPartition
  /\ ReportsIgnoreOrder /\ DraftsAnswerReviews
=============================================================================
