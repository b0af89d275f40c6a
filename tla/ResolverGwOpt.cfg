\* Start-up resolution with --gateway-addr naming the other host.
CONSTANTS
  gw = gw
  peer = peer
  me = me
  m1 = m1
  m2 = m2
  NoAddr = NoAddr
  Addrs <- MCAddrs
  Macs <- MCMacs
  Hosts <- MCHosts
  RouteGate = gw
  IfAddr = me
  GwOpt = peer
  LocalOpt = NoAddr
  Timeout = 3
  MaxNoise = 3

SPECIFICATION Spec

INVARIANT ResolvedMacIsGateway


\* main exits (fail_printf) or goes on to start the pipeline.
CHECK_DEADLOCK FALSE
