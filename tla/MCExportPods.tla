---------------------------- MODULE MCExportPods ----------------------------
(* Small instances of ExportPods for TLC; its run also evaluates MCRules. *)
EXTENDS ExportPods, MCRules
=============================================================================
