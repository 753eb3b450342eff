----------------------------- MODULE MCSession -----------------------------
(* Session for TLC; symmetry is not used, since a run checks liveness. *)
EXTENDS Session
=============================================================================
