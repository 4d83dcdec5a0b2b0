-------------------------------- MODULE Flow --------------------------------
(***************************************************************************)
(* Flow accounting of src/flow.rs, as operators on the value of an         *)
(* Aggregator: which packets are traffic of this host, which flow and      *)
(* which endpoint bucket they belong to, the flow limit, the flush of a    *)
(* window and its roll-up by address.                                      *)
(*                                                                         *)
(* An address and a port stand for their numeric value (IpAddr and u16 are *)
(* ordered, and the order decides the order of the records of a flush).    *)
(***************************************************************************)
EXTENDS Integers, FiniteSets, Sequences, FiniteSetsExt, SequencesExt

CONSTANTS
  Addr,        \* IP addresses seen on the wire
  Port,        \* transport ports
  Length,      \* IP lengths a packet may carry
  Excluded,    \* the addresses covered by the ignored networks
  MaxFlows     \* aggregation.max_flows

ASSUME FlowAssumption ==
  /\ Addr \subseteq Nat
  /\ Port \subseteq Nat
  /\ Length \subseteq Nat
  /\ Excluded \subseteq Addr
  /\ MaxFlows \in Nat \ {0}

Protocol == {"tcp", "udp"}

PacketEvent ==
  [protocol: Protocol, src_ip: Addr, dst_ip: Addr,
   src_port: Port, dst_port: Port, ip_length: Length]

FlowKey ==
  [protocol: Protocol, local_ip: Addr, local_port: Port,
   external_ip: Addr, external_port: Port]

AggregateKey ==
  [external_ip: Addr, external_port: Port, protocol: Protocol]

Bucket == [count: Nat, bytes: Nat]

NoBuckets == [k \in {} |-> [count |-> 0, bytes |-> 0]]

-----------------------------------------------------------------------------
(* A new Aggregator, and the periodic replacement of its local addresses. *)
NewAggregator(local) ==
  [local |-> local, flows |-> {}, buckets |-> NoBuckets]

ReplaceLocal(agg, local) == [agg EXCEPT !.local = local]

(* The flow of a packet seen from this host: both directions of a          *)
(* conversation have the same local and the same external endpoint.        *)
FlowOf(local, p) ==
  IF p.src_ip \in local
  THEN [protocol |-> p.protocol,
        local_ip |-> p.src_ip, local_port |-> p.src_port,
        external_ip |-> p.dst_ip, external_port |-> p.dst_port]
  ELSE [protocol |-> p.protocol,
        local_ip |-> p.dst_ip, local_port |-> p.dst_port,
        external_ip |-> p.src_ip, external_port |-> p.src_port]

\* Mutated: the exclusion test is dropped.
RelevantIgnoringExclusions(local, p) ==
  (p.src_ip \in local) # (p.dst_ip \in local)

(* Exactly one end is local, and the other one is not excluded. *)
Relevant(local, p) ==
  /\ (p.src_ip \in local) # (p.dst_ip \in local)
  /\ FlowOf(local, p).external_ip \notin Excluded

KeyOf(flow) ==
  [external_ip |-> flow.external_ip, external_port |-> flow.external_port,
   protocol |-> flow.protocol]

\* Mutated: the limit also rejects flows that are already known.
HasRoomForNewFlows(agg, flow) == Cardinality(agg.flows) < MaxFlows

\* Mutated: off by one.
HasRoomForOneMore(agg, flow) ==
  flow \in agg.flows \/ Cardinality(agg.flows) <= MaxFlows

(* At the limit a packet of a flow that is already known still has room. *)
HasRoom(agg, flow) ==
  flow \in agg.flows \/ Cardinality(agg.flows) < MaxFlows

Accounted(agg, p) ==
  IF ~Relevant(agg.local, p) THEN "ignored"
  ELSE IF HasRoom(agg, FlowOf(agg.local, p)) THEN "counted"
  ELSE "capacity_exceeded"

-----------------------------------------------------------------------------
BucketAt(buckets, key) ==
  IF key \in DOMAIN buckets THEN buckets[key] ELSE [count |-> 0, bytes |-> 0]

(* One more packet of a flow: the flow counts once, the length always. *)
Credit(agg, flow, length) ==
  LET key == KeyOf(flow)
      old == BucketAt(agg.buckets, key)
      new == [count |-> old.count + (IF flow \in agg.flows THEN 0 ELSE 1),
              bytes |-> old.bytes + length]
  IN  [agg EXCEPT
         !.flows   = @ \cup {flow},
         !.buckets = [k \in DOMAIN @ \cup {key} |-> IF k = key THEN new ELSE @[k]]]

Observe(agg, p) ==
  IF Accounted(agg, p) = "counted"
  THEN Credit(agg, FlowOf(agg.local, p), p.ip_length)
  ELSE agg

-----------------------------------------------------------------------------
(* The window that ends at `timestamp`: one record per bucket. *)
RecordsOf(agg, timestamp) ==
  {[timestamp |-> timestamp,
    external_ip |-> k.external_ip, external_port |-> k.external_port,
    protocol |-> k.protocol,
    flow_count |-> agg.buckets[k].count,
    flow_byte_sum |-> agg.buckets[k].bytes] : k \in DOMAIN agg.buckets}

(* The derived order of AggregateKey: address, port, protocol (tcp < udp). *)
RecordLess(r, s) ==
  \/ r.external_ip < s.external_ip
  \/ /\ r.external_ip = s.external_ip
     /\ \/ r.external_port < s.external_port
        \/ /\ r.external_port = s.external_port
           /\ r.protocol = "tcp" /\ s.protocol = "udp"

(* A finite set in the iteration order of a BTreeMap: the i-th element is  *)
(* the one with i - 1 smaller ones.                                        *)
InOrder(S, Less(_, _)) ==
  [i \in 1 .. Cardinality(S) |->
     CHOOSE x \in S : Cardinality({y \in S : Less(y, x)}) = i - 1]

(* What flush returns, and the Aggregator it leaves behind. *)
FlushRecords(agg, timestamp) == InOrder(RecordsOf(agg, timestamp), RecordLess)

\* Mutated: flush drains the buckets and forgets flows.clear().
FlushedKeepingFlows(agg) == [agg EXCEPT !.buckets = NoBuckets]

Flushed(agg) == [agg EXCEPT !.flows = {}, !.buckets = NoBuckets]

(* The per-address roll-up of a window, in address order: the counts and   *)
(* the bytes of all the records of an address are added.                   *)
IpKeysOf(records) ==
  {<<r.timestamp, r.external_ip>> : r \in ToSet(records)}

IpRecordLess(r, s) ==
  \/ r.timestamp < s.timestamp
  \/ r.timestamp = s.timestamp /\ r.external_ip < s.external_ip

\* Mutated: one record of an address stands for all of them.
AggregateByIpOfOneBucket(records) ==
  LET OfKey(key) == {r \in ToSet(records) : <<r.timestamp, r.external_ip>> = key}
      Total(key) ==
        LET r == CHOOSE x \in OfKey(key) : TRUE
        IN  [timestamp |-> key[1], external_ip |-> key[2],
             flow_count |-> r.flow_count, flow_byte_sum |-> r.flow_byte_sum]
  IN  InOrder({Total(key) : key \in IpKeysOf(records)}, IpRecordLess)

AggregateByIp(records) ==
  LET OfKey(key) == {r \in ToSet(records) : <<r.timestamp, r.external_ip>> = key}
      Total(key) ==
        [timestamp |-> key[1], external_ip |-> key[2],
         flow_count |-> SumFunction([r \in OfKey(key) |-> r.flow_count]),
         flow_byte_sum |-> SumFunction([r \in OfKey(key) |-> r.flow_byte_sum])]
  IN  InOrder({Total(key) : key \in IpKeysOf(records)}, IpRecordLess)
=============================================================================
