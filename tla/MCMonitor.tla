----------------------------- MODULE MCMonitor -----------------------------
(* One host address, two remote ones and two packets to different          *)
(* endpoints, so that a window has up to two records.                      *)
EXTENDS Monitor

MCAddr == {1, 2, 3}
MCPort == {1}
MCLength == {1}
MCExcluded == {}
MCLocalSets == {{1}}

Pkt(src, dst) ==
  [protocol |-> "tcp", src_ip |-> src, dst_ip |-> dst,
   src_port |-> 1, dst_port |-> 1, ip_length |-> 1]

MCPackets == {Pkt(1, 2), Pkt(3, 1)}
=============================================================================
