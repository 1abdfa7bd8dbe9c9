------------------------------- MODULE MCBio -------------------------------
(***************************************************************************)
(* Instances of Bio for TLC.                                               *)
(***************************************************************************)
EXTENDS Bio

\* Two threads that use the API
MCCallers == {"main", "other"}

=============================================================================
