------------------------------ MODULE Resolver ------------------------------
(***************************************************************************)
(* Start-up address resolution of pktizr: main picks the local and gateway *)
(* IPv4 addresses from the options and the default route (pktizr.c         *)
(* 184-217), then resolv_addr_to_mac (resolv.c 67-129) broadcasts one ARP  *)
(* request for the gateway and polls capture until a reply matches or 5 s  *)
(* have passed.                                                            *)
(*                                                                         *)
(* Addresses and MACs are model values; the LAN is a function from the     *)
(* addresses of its hosts to their MACs. A frame is a record: "short" when *)
(* pkt_unpack finds fewer than two layers, "ip" when the second layer is   *)
(* not ARP, "arp" with the sender/target protocol addresses and the sender *)
(* hardware address. Time is counted in capture timeouts.                  *)
(***************************************************************************)
EXTENDS Naturals, Sequences

CONSTANTS
  Addrs,      \* IPv4 addresses
  Macs,       \* MAC addresses
  NoAddr,     \* an option that was not given
  Hosts,      \* the LAN: [host address -> its MAC]
  RouteGate,  \* route.gate_addr of the default route
  IfAddr,     \* the address of the route's interface
  GwOpt,      \* the value of --gateway-addr, or NoAddr
  LocalOpt,   \* the value of --local-addr, or NoAddr
  Timeout,    \* the 5 s deadline, in clock ticks
  MaxNoise    \* bound on unrelated frames the device delivers

ASSUME /\ DOMAIN Hosts \subseteq Addrs /\ Hosts \in [DOMAIN Hosts -> Macs]
       /\ {RouteGate, IfAddr} \subseteq Addrs
       /\ GwOpt \in Addrs \cup {NoAddr} /\ LocalOpt \in Addrs \cup {NoAddr}
       /\ NoAddr \notin Addrs
       /\ Timeout \in Nat /\ MaxNoise \in Nat

Frames == [kind : {"arp"}, psrc : Addrs, pdst : Addrs, hwsrc : Macs]
          \cup [kind : {"short", "ip"}]

VARIABLES
  pc,            \* "config", "inject", "poll", then "resolved", "timeout" or "failed"
  local_addr,    \* args->local_addr
  gateway_addr,  \* args->gateway_addr
  gateway_mac,   \* args->gateway_mac
  wire,          \* frames waiting at the device, in arrival order
  replied,       \* has the LAN answered the request?
  noise,         \* unrelated frames delivered so far
  clock          \* ticks since the request was injected

vars == <<pc, local_addr, gateway_addr, gateway_mac, wire, replied, noise, clock>>

\* args is malloc'd: its address fields hold whatever was there.
Init ==
  /\ pc = "config"
  /\ local_addr \in Addrs
  /\ gateway_addr \in Addrs
  /\ gateway_mac \in Macs
  /\ wire = <<>>
  /\ replied = FALSE
  /\ noise = 0
  /\ clock = 0

-----------------------------------------------------------------------------
(* main *)

\* The route lookup, the interface MAC/IP lookups or netdev_open fail:
\* fail_printf exits.
StartupFails ==
  /\ pc = "config"
  /\ pc' = "failed"
  /\ UNCHANGED <<local_addr, gateway_addr, gateway_mac, wire, replied, noise, clock>>

\* Address selection: --gateway-addr is stored into args->local_addr (and
\* gateway_addr is then left unwritten); --local-addr or the interface
\* address is stored into args->local_addr afterwards.
Configure ==
  /\ pc = "config"
  /\ pc' = "inject"
  /\ gateway_addr' = IF GwOpt # NoAddr THEN gateway_addr ELSE RouteGate
  /\ local_addr' = IF LocalOpt # NoAddr THEN LocalOpt ELSE IfAddr
  /\ UNCHANGED <<gateway_mac, wire, replied, noise, clock>>

-----------------------------------------------------------------------------
(* resolv_addr_to_mac(netdev, local_mac, local_addr, gateway_mac,          *)
(* gateway_addr): saddr = local_addr, daddr = gateway_addr.                *)

\* Build the Ethernet broadcast + ARP request, pack it and inject it once;
\* start = time_now().
InjectRequest ==
  /\ pc = "inject"
  /\ pc' = "poll"
  /\ UNCHANGED <<local_addr, gateway_addr, gateway_mac, wire, replied, noise, clock>>

\* The reply the request asks for: an ARP frame from daddr's host to saddr.
Reply == [kind |-> "arp", psrc |-> gateway_addr, pdst |-> local_addr,
          hwsrc |-> Hosts[gateway_addr]]

\* The LAN host owning daddr answers the request (or the reply is lost).
LanReplies ==
  /\ pc = "poll"
  /\ ~replied
  /\ gateway_addr \in DOMAIN Hosts
  /\ wire' = Append(wire, Reply)
  /\ replied' = TRUE
  /\ UNCHANGED <<pc, local_addr, gateway_addr, gateway_mac, noise, clock>>

\* Some other frame reaches the device: a truncated frame, an IP frame, or
\* ARP traffic of the LAN's hosts (a host's ARP carries its own MAC).
LanNoise ==
  /\ pc = "poll"
  /\ noise < MaxNoise
  /\ \E f \in Frames :
       /\ f.kind = "arp" => f.psrc \in DOMAIN Hosts /\ f.hwsrc = Hosts[f.psrc]
       /\ wire' = Append(wire, f)
  /\ noise' = noise + 1
  /\ UNCHANGED <<pc, local_addr, gateway_addr, gateway_mac, replied, clock>>

\* A capture blocks up to the device's timeout: time passes.
Tick ==
  /\ pc = "poll"
  /\ clock <= Timeout
  /\ clock' = clock + 1
  /\ UNCHANGED <<pc, local_addr, gateway_addr, gateway_mac, wire, replied, noise>>

\* Mutant: the psrc test is missing.
MatchesAnySender(f) ==
  /\ f.kind = "arp"
  /\ f.pdst = local_addr

\* The tests of the poll loop: a second layer of type ARP whose psrc is
\* daddr and whose pdst is saddr.
Matches(f) ==
  /\ f.kind = "arp"
  /\ f.psrc = gateway_addr
  /\ f.pdst = local_addr

\* Mutant: the match copies psrc instead of hwsrc.
CaptureWrongField ==
  /\ pc = "poll"
  /\ \/ /\ clock > Timeout
        /\ pc' = "timeout"
        /\ wire' = IF wire = <<>> THEN wire ELSE Tail(wire)
        /\ UNCHANGED gateway_mac
     \/ /\ clock <= Timeout
        /\ wire # <<>>
        /\ wire' = Tail(wire)
        /\ IF Matches(Head(wire))
             THEN pc' = "resolved" /\ gateway_mac' = Head(wire).psrc
             ELSE UNCHANGED <<pc, gateway_mac>>
  /\ UNCHANGED <<local_addr, gateway_addr, replied, noise, clock>>

\* Mutant: the poll loop without the deadline test.
CaptureNoDeadline ==
  /\ pc = "poll"
  /\ wire # <<>>
  /\ wire' = Tail(wire)
  /\ IF Matches(Head(wire))
       THEN pc' = "resolved" /\ gateway_mac' = Head(wire).hwsrc
       ELSE UNCHANGED <<pc, gateway_mac>>
  /\ UNCHANGED <<local_addr, gateway_addr, replied, noise, clock>>

\* One iteration of the poll loop: capture (a frame, or NULL when none came
\* in time), then the deadline test, then the frame tests. A match copies
\* hwsrc into gateway_mac and returns 0; the deadline returns -1.
Capture ==
  /\ pc = "poll"
  /\ \/ /\ clock > Timeout
        /\ pc' = "timeout"
        /\ wire' = IF wire = <<>> THEN wire ELSE Tail(wire)
        /\ UNCHANGED gateway_mac
     \/ /\ clock <= Timeout
        /\ wire # <<>>
        /\ wire' = Tail(wire)
        /\ IF Matches(Head(wire))
             THEN pc' = "resolved" /\ gateway_mac' = Head(wire).hwsrc
             ELSE UNCHANGED <<pc, gateway_mac>>
  /\ UNCHANGED <<local_addr, gateway_addr, replied, noise, clock>>

Next == StartupFails \/ Configure \/ InjectRequest \/ LanReplies \/ LanNoise
        \/ Tick \/ Capture

\* The process is the only thread; time always passes. The LAN is not
\* obliged to answer.
Spec == Init /\ [][Next]_vars /\ WF_vars(Configure \/ InjectRequest \/ Capture)
        /\ WF_vars(Tick)

-----------------------------------------------------------------------------
(* Properties *)

TypeOK ==
  /\ pc \in {"config", "inject", "poll", "resolved", "timeout", "failed"}
  /\ {local_addr, gateway_addr} \subseteq Addrs
  /\ gateway_mac \in Macs
  /\ wire \in Seq(Frames)
  /\ replied \in BOOLEAN
  /\ noise \in 0..MaxNoise
  /\ clock \in 0..Timeout + 1

\* The gateway the user asked for: --gateway-addr, else the default route's.
Gateway == IF GwOpt # NoAddr THEN GwOpt ELSE RouteGate

(* When resolution succeeds, args->gateway_mac is the MAC of the gateway    *)
(* the user configured, whatever other ARP traffic the device captured.     *)
ResolvedMacIsGateway ==
  pc = "resolved" => gateway_mac = Hosts[Gateway]

\* The resolver's state seen as ArpResolve's: main before the call is idle,
\* the request and the poll loop are one wait, and daddr/dhost are the
\* args fields main passes.
ResolvePhase ==
  CASE pc = "config"              -> "idle"
    [] pc \in {"inject", "poll"}  -> "waiting"
    [] OTHER                      -> pc

Abstract == INSTANCE ArpResolve WITH phase <- ResolvePhase, daddr <- gateway_addr,
                                     dhost <- gateway_mac

(* resolv_addr_to_mac implements its contract (spec section 4.6): whatever  *)
(* unrelated traffic the device captures and however late the reply comes, *)
(* gateway_mac is written at most once, only with the MAC of the host that  *)
(* owns the address main passed, and the call always returns.              *)
ResolverRefined == Abstract!Spec

=============================================================================
