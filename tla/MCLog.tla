------------------------------- MODULE MCLog --------------------------------
(* Small instances of Log for TLC.                                         *)
EXTENDS Log
=============================================================================
