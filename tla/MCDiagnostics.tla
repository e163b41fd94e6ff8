--------------------------- MODULE MCDiagnostics ---------------------------
(***************************************************************************)
(* Two children, so that the worker can be one child behind; a queue that  *)
(* two observations fill; two server times; one failing file operation.    *)
(***************************************************************************)
EXTENDS Diagnostics
============================================================================
