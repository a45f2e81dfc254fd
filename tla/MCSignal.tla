------------------------------ MODULE MCSignal ------------------------------
(***************************************************************************)
(* Instances of Signal for TLC.                                            *)
(***************************************************************************)
EXTENDS SignalProps, TLC

\* Connections, session ids and peer ids are interchangeable (not for liveness).
AllSymmetry == Permutations(Conn) \cup Permutations(SessionID) \cup Permutations(PeerID)
=============================================================================
