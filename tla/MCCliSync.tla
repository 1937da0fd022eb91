------------------------------ MODULE MCCliSync ------------------------------
(* An account in two teams, one machine, and overlapping calls to the server. *)
EXTENDS CliSync
=============================================================================
