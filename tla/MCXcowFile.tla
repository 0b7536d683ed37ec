----------------------------- MODULE MCXcowFile -----------------------------
(* Instances of XcowFile for TLC. *)
EXTENDS XcowFile
=============================================================================
