----------------------------- MODULE Aggregator -----------------------------
(***************************************************************************)
(* The Aggregator of src/flow.rs as a component: packets are observed, the *)
(* local addresses are replaced at any moment, windows are flushed.        *)
(*                                                                         *)
(* `seen` is a history of the open window: every packet given to observe,  *)
(* with the local addresses it was judged by and the verdict returned.     *)
(* `report` is what the last step returned: the records of a flush.        *)
(* The properties compare the counters of the Aggregator with it.          *)
(***************************************************************************)
EXTENDS Flow

CONSTANTS
  Packets,         \* the packets that may arrive
  LocalSets,       \* the address sets the interface may have (never empty)
  Ends,            \* labels given to flush
  MaxSeen          \* bound: packets observed in one window

ASSUME AggregatorAssumption ==
  /\ Packets \subseteq PacketEvent
  /\ LocalSets \subseteq (SUBSET Addr) \ {{}}
  /\ Ends \subseteq Nat
  /\ MaxSeen \in Nat

VARIABLES agg, seen, report

vars == <<agg, seen, report>>

Init ==
  /\ \E local \in LocalSets : agg = NewAggregator(local)
  /\ seen = <<>>
  /\ report = <<>>

ObservePacket(p) ==
  /\ Len(seen) < MaxSeen
  /\ agg' = Observe(agg, p)
  /\ seen' = Append(seen, [local |-> agg.local, packet |-> p,
                           verdict |-> Accounted(agg, p)])
  /\ report' = <<>>

NewAddresses(local) ==
  /\ agg' = ReplaceLocal(agg, local)
  /\ report' = <<>>
  /\ UNCHANGED seen

Flush(end) ==
  /\ report' = FlushRecords(agg, end)
  /\ agg' = Flushed(agg)
  /\ seen' = <<>>

Next ==
  \/ \E p \in Packets : ObservePacket(p)
  \/ \E local \in LocalSets : NewAddresses(local)
  \/ \E end \in Ends : Flush(end)

Spec == Init /\ [][Next]_vars

-----------------------------------------------------------------------------
(* The window as it should be accounted, computed from the history alone.  *)

FlowAt(i) == FlowOf(seen[i].local, seen[i].packet)
RelevantAt(i) == Relevant(seen[i].local, seen[i].packet)
Traffic == {i \in DOMAIN seen : RelevantAt(i)}

\* How many other flows had shown up when the flow of packet i first did.
FlowsBefore(i) ==
  LET first == CHOOSE j \in Traffic :
                 /\ FlowAt(j) = FlowAt(i)
                 /\ \A h \in Traffic : FlowAt(h) = FlowAt(i) => j <= h
  IN  Cardinality({FlowAt(j) : j \in {h \in Traffic : h < first}})

\* The packets of the first MaxFlows flows of the window.
Admitted == {i \in Traffic : FlowsBefore(i) < MaxFlows}

FlowsWith(Sel(_)) == {FlowAt(i) : i \in {j \in Admitted : Sel(FlowAt(j))}}
BytesWith(Sel(_)) ==
  SumFunction([i \in {j \in Admitted : Sel(FlowAt(j))} |-> seen[i].packet.ip_length])

-----------------------------------------------------------------------------
(* Types: flows and buckets are of remote endpoints, never of an excluded  *)
(* address, and a bucket exists only once something was put into it        *)
(* (flow.rs, the fields of Aggregator and the guards of observe).          *)
TypeOK ==
  /\ agg.local \in SUBSET Addr
  /\ agg.flows \in SUBSET {f \in FlowKey : f.external_ip \notin Excluded}
  /\ DOMAIN agg.buckets \subseteq {k \in AggregateKey : k.external_ip \notin Excluded}
  /\ agg.buckets \in [DOMAIN agg.buckets -> Bucket]
  /\ agg = [local |-> agg.local, flows |-> agg.flows, buckets |-> agg.buckets]

FlowsOfKey(flows, k) == {f \in flows : KeyOf(f) = k}

(* The count of a bucket is the number of distinct flows of its endpoint,  *)
(* every held flow has a bucket and every bucket a flow, and the limit is  *)
(* never passed: the increment in observe (flow.rs:133), the insertion and *)
(* both clears of flush stay in step over every sequence of calls.         *)
FlowCountsAreDistinctFlows ==
  /\ IsFiniteSet(agg.flows)
  /\ Cardinality(agg.flows) <= MaxFlows
  /\ DOMAIN agg.buckets = {KeyOf(f) : f \in agg.flows}
  /\ \A k \in DOMAIN agg.buckets :
       agg.buckets[k].count = Cardinality(FlowsOfKey(agg.flows, k))

(* A window holds exactly its first max_flows flows, and a held flow is    *)
(* accounted completely: every packet of it, before and after the limit    *)
(* was reached and across changes of the local addresses, is in the bytes  *)
(* of its bucket, and every packet of another flow was rejected            *)
(* (observe, flow.rs:120-134).                                             *)
HeldFlowsAreComplete ==
  /\ agg.flows = {FlowAt(i) : i \in Admitted}
  /\ \A k \in DOMAIN agg.buckets :
       agg.buckets[k].bytes = BytesWith(LAMBDA f : KeyOf(f) = k)
  /\ \A i \in DOMAIN seen :
       seen[i].verdict = IF i \notin Traffic THEN "ignored"
                         ELSE IF i \in Admitted THEN "counted"
                         ELSE "capacity_exceeded"

(* Flushing reports the window that was observed and nothing else: one     *)
(* record per endpoint in strictly increasing endpoint order, whose sums   *)
(* are those of the window's packets, with no leftover of an earlier one   *)
(* (flush, flow.rs:137-152).                                               *)
ReportOf(records, end) ==
  /\ \A i, j \in DOMAIN records : i < j => RecordLess(records[i], records[j])
  /\ {[external_ip |-> r.external_ip, external_port |-> r.external_port,
       protocol |-> r.protocol] : r \in ToSet(records)}
       = {KeyOf(FlowAt(i)) : i \in Admitted}
  /\ \A r \in ToSet(records) :
       LET OfRecord(f) == /\ f.external_ip = r.external_ip
                          /\ f.external_port = r.external_port
                          /\ f.protocol = r.protocol
       IN  /\ r.timestamp = end
           /\ r.flow_count = Cardinality(FlowsWith(OfRecord))
           /\ r.flow_byte_sum = BytesWith(OfRecord)

FlushReportsTheWindow ==
  [][\A end \in Ends : Flush(end) => ReportOf(report', end)]_vars

(* The per-address roll-up of a flushed window counts every flow of the    *)
(* address once, although it only adds the counts of the address's         *)
(* buckets: they hold disjoint five-tuples (the comment at flow.rs:44).    *)
RollUpCountsFlowsOnce ==
  [][\A end \in Ends : Flush(end) =>
       LET byIp == AggregateByIp(report') IN
       /\ {r.external_ip : r \in ToSet(byIp)}
            = {FlowAt(i).external_ip : i \in Admitted}
       /\ Len(byIp) = Cardinality({FlowAt(i).external_ip : i \in Admitted})
       /\ \A r \in ToSet(byIp) :
            LET OfIp(f) == f.external_ip = r.external_ip
            IN  /\ r.flow_count = Cardinality(FlowsWith(OfIp))
                /\ r.flow_byte_sum = BytesWith(OfIp)]_vars

(* The counters implement the per-endpoint accounts of Accounts.tla: the   *)
(* account of an endpoint is its part of the shared flow set, and the      *)
(* bytes of its bucket.                                                    *)
AccountOf(k) ==
  [flows |-> FlowsOfKey(agg.flows, k),
   bytes |-> BucketAt(agg.buckets, k).bytes]

Abstract == INSTANCE Accounts WITH
  accounts  <- [k \in AggregateKey |-> AccountOf(k)],
  published <- ToSet(report)

ImplementsAccounts == Abstract!AccountsSpec

=============================================================================
