----------------------------- MODULE MCLogging -----------------------------
(***************************************************************************)
(* Small instances of Logging.                                             *)
(***************************************************************************)
EXTENDS Logging

MCStreams == {"stdout", "stderr"}
MCOneStream == {"stdout"}
=============================================================================
