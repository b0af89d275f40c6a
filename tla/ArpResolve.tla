----------------------------- MODULE ArpResolve -----------------------------
(***************************************************************************)
(* What resolv_addr_to_mac promises its caller (spec section 4.6), with    *)
(* the request, the polling and the deadline folded into single steps:     *)
(* main hands it an address daddr, and the call either returns with dhost  *)
(* set to the MAC of the LAN host that owns daddr, or fails with a         *)
(* timeout and leaves dhost alone. Start-up may also abort before the call.*)
(***************************************************************************)
CONSTANTS
  Addrs,  \* IPv4 addresses
  Macs,   \* MAC addresses
  Hosts   \* the LAN: [host address -> its MAC]

VARIABLES
  phase,  \* "idle", "waiting", "resolved", "timeout" or "failed"
  daddr,  \* the address being resolved
  dhost   \* the MAC written back to the caller

vars == <<phase, daddr, dhost>>

\* Both are fields of the malloc'd args: anything before they are written.
Init ==
  /\ phase = "idle"
  /\ daddr \in Addrs
  /\ dhost \in Macs

\* main picks the address and calls the resolver.
Call ==
  /\ phase = "idle"
  /\ phase' = "waiting"
  /\ daddr' \in Addrs
  /\ UNCHANGED dhost

\* Start-up fails before the call.
Abort ==
  /\ phase = "idle"
  /\ phase' = "failed"
  /\ UNCHANGED <<daddr, dhost>>

\* The owner of daddr answered: its MAC is returned.
Resolve ==
  /\ phase = "waiting"
  /\ daddr \in DOMAIN Hosts
  /\ phase' = "resolved"
  /\ dhost' = Hosts[daddr]
  /\ UNCHANGED daddr

\* No answer in time.
GiveUp ==
  /\ phase = "waiting"
  /\ phase' = "timeout"
  /\ UNCHANGED <<daddr, dhost>>

Next == Call \/ Abort \/ Resolve \/ GiveUp

\* Start-up goes on, and a call always returns.
Spec == Init /\ [][Next]_vars /\ WF_vars(Call \/ Abort) /\ WF_vars(Resolve \/ GiveUp)

=============================================================================
