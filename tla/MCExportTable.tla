---------------------------- MODULE MCExportTable ----------------------------
(* ExportTable with two kinds of entry and up to five slots. *)
EXTENDS ExportTable
=============================================================================
