-------------------------- MODULE MCProviderClient --------------------------
(***************************************************************************)
(* ProviderClient for TLC.                                                 *)
(***************************************************************************)
EXTENDS ProviderClient, FiniteSets

Started == {c \in Calls : pc[c] # "start"}
Running == {c \in Started : pc[c] # "done"}

(* Any three of the calls meet, in every combination; the fourth is made    *)
(* when at most one of them is still running.  No behaviour within that is  *)
(* cut short: a call may always be left unmade, its start is not fair.      *)
ThreeMeet == Cardinality(Started) <= 3 \/ Cardinality(Running) <= 1
=============================================================================
