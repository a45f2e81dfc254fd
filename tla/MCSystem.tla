------------------------------ MODULE MCSystem ------------------------------
(***************************************************************************)
(* Instances of System for TLC.                                            *)
(***************************************************************************)
EXTENDS System

CONSTANTS pilot1, drone42

\* The pilot is started twice, the drone's stub once.
MCStarts == pilot1 :> 2 @@ drone42 :> 1
=============================================================================
