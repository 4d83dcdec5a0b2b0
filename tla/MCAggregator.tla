---------------------------- MODULE MCAggregator ----------------------------
(* A host with one address and sometimes a second one, a remote address    *)
(* and an excluded one.  Address 2 is remote while it is not local.        *)
EXTENDS Aggregator

MCAddr == {1, 2, 3, 4}
MCPort == {1}
MCLength == {1, 2}
MCExcluded == {4}
MCLocalSets == {{1}, {1, 2}}
MCEnds == {60}

Pkt(proto, src, dst, len) ==
  [protocol |-> proto, src_ip |-> src, dst_ip |-> dst,
   src_port |-> 1, dst_port |-> 1, ip_length |-> len]

MCPackets ==
  {Pkt("tcp", 1, 3, 1),     \* out and back: one flow
   Pkt("tcp", 3, 1, 2),
   Pkt("tcp", 2, 3, 1),     \* another flow of that endpoint, if 2 is local
   Pkt("udp", 1, 3, 1),     \* same address, another bucket
   Pkt("tcp", 1, 2, 1),     \* a flow only while 2 is not local
   Pkt("udp", 4, 1, 1)}     \* excluded
=============================================================================
