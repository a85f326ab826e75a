--------------------------- MODULE MCReportStore ---------------------------
(* The instance of ReportStore for TLC; its constants are in the .cfg. *)
EXTENDS ReportStore
=============================================================================
