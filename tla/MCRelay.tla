------------------------------- MODULE MCRelay -------------------------------
(***************************************************************************)
(* Instances of Relay for TLC.                                             *)
(***************************************************************************)
EXTENDS Relay, TLC

\* PeerConnections and sessions are interchangeable (not for liveness).
Symmetry == Permutations(PC) \cup Permutations(Sid)
=============================================================================
