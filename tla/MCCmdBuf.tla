------------------------------ MODULE MCCmdBuf ------------------------------
(***************************************************************************)
(* Small rings for TLC, with the forms of CmdBuf's operators that          *)
(* plausible bugs would give them.                                         *)
(***************************************************************************)
EXTENDS CmdBuf
=============================================================================
