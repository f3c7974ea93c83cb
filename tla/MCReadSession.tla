---------------------------- MODULE MCReadSession ----------------------------
(* Instances of ReadSession for TLC. *)
EXTENDS ReadSession

=============================================================================
