------------------------------- MODULE MCAuth -------------------------------
(***************************************************************************)
(* An instance of Auth for TLC.                                            *)
(***************************************************************************)
EXTENDS Auth, TLC

CONSTANTS pilot1, drone42, k1, k2, k3, pw1, pw2

MCPasswordOf == pilot1 :> pw1 @@ drone42 :> pw2
MCRoleOf     == pilot1 :> "user" @@ drone42 :> "drone"

\* A token of another program that was given the same secret, without expiry; and two
\* in the service's name, one signed by another method and one with another key.
MCForeign ==
    {[claims |-> [sub |-> pilot1, role |-> "drone", exp |-> NoExp, iss |-> "other"],
      key |-> k1, hmac |-> TRUE],
     [claims |-> [sub |-> drone42, role |-> "drone", exp |-> NoExp, iss |-> Issuer],
      key |-> k1, hmac |-> FALSE],
     [claims |-> [sub |-> pilot1, role |-> "user", exp |-> NoExp, iss |-> Issuer],
      key |-> k3, hmac |-> TRUE]}
=============================================================================
