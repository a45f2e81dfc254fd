------------------------------ MODULE MCBridge ------------------------------
(***************************************************************************)
(* Instances of BridgeLog for TLC.                                         *)
(***************************************************************************)
EXTENDS BridgeLog

\* A header with three different bytes in its message id, one that both versions have.
Wide   == [low |-> 1, mid |-> 2, high |-> 3, sysid |-> 4, compid |-> 5, seq |-> 6]
Narrow == [low |-> 7, mid |-> 0, high |-> 0, sysid |-> 4, compid |-> 5, seq |-> 255]

\* One of each version and one that is a byte short.
MCSent == {[v |-> 2, hdr |-> Wide, cut |-> 0], [v |-> 1, hdr |-> Narrow, cut |-> 0],
           [v |-> 2, hdr |-> Narrow, cut |-> 1]}

\* A whole header, and an empty datagram.
MCSentEmpty == {[v |-> 2, hdr |-> Wide, cut |-> 0], [v |-> 2, hdr |-> Wide, cut |-> 10]}
=============================================================================
