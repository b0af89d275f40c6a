----------------------------- MODULE MCPipeline -----------------------------
(* Instantiates Pipeline for TLC with small scans and scripts.             *)
EXTENDS Pipeline

\* Packets a script may build: probes and non-probes, which pkt_pack packs
\* or refuses (too long for the device buffer, or a malformed chain).
Probe   == [probe |-> TRUE,  packs |-> TRUE]
Extra   == [probe |-> FALSE, packs |-> TRUE]
Bad     == [probe |-> FALSE, packs |-> FALSE]
BadProbe == [probe |-> TRUE, packs |-> FALSE]

\* A script honouring the probe contract: exactly one probe per tuple,
\* possibly with further packets before or after it.
HonestScript == {<<Probe>>, <<Probe, Bad>>, <<Extra, Probe>>}

\* A script whose script_loop may skip a tuple (returns < 0, builds nothing)
\* or build a probe that pkt_pack refuses.
SkippingScript == {<<Probe>>, <<>>, <<BadProbe>>}

\* Counter memory before its first write: zero (fresh pages) or stale.
MCGarbage == {0, 5}
=============================================================================
