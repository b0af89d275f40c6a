----------------------------- MODULE MCResolver -----------------------------
(* Instantiates Resolver for TLC: a LAN of the gateway and one more host,  *)
(* the scanning machine's own address, and two MACs.                       *)
EXTENDS Resolver, TLC

CONSTANTS gw, peer, me, m1, m2

MCAddrs == {gw, peer, me}
MCMacs == {m1, m2}
MCHosts == (gw :> m1) @@ (peer :> m2)
=============================================================================
