---------------------------- MODULE MCDoRequest -----------------------------
(* DoRequest for TLC. *)
EXTENDS DoRequest
=============================================================================
