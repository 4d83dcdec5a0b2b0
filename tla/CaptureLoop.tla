---------------------------- MODULE CaptureLoop ----------------------------
(***************************************************************************)
(* The capture thread: capture_loop of src/runtime.rs.                     *)
(*                                                                         *)
(* It owns the sending side of the bounded event queue.  Window boundaries *)
(* and address updates are sent blocking, packets with try_send.  Whoever  *)
(* takes events off the queue is left to the modules that extend this one. *)
(*                                                                         *)
(* The thread samples the clock once per iteration (`now`) and uses that   *)
(* sample for the boundary, the address refresh and the report, while the  *)
(* clock goes on, even across a blocking send.                             *)
(***************************************************************************)
EXTENDS Windows, Sequences, FiniteSets

CONSTANTS
  Packets,         \* packets the source may deliver
  LocalSets,       \* address sets the interface may have
  CaptureFaults,   \* which of "addresses", "drops", "read" may fail
  EventCap,        \* aggregation.event_queue_capacity
  Period,          \* ticks between two refreshes, and two reports (30 s)
  StartUtc,        \* UTC at the start, when the monotonic clock is 0
  MaxTime,         \* bound on the clock
  MaxPackets,      \* bound on parsed packets
  MaxSkips         \* bound on skipped packets

ASSUME CaptureAssumption ==
  /\ CaptureFaults \subseteq {"addresses", "drops", "read"}
  /\ EventCap \in Nat \ {0}
  /\ Period \in Nat \ {0}
  /\ StartUtc \in Nat
  /\ MaxTime \in Nat /\ MaxPackets \in Nat /\ MaxSkips \in Nat

VARIABLES
  clock,           \* the monotonic clock
  stop,            \* the stop flag shared by all threads
  eventQ,          \* the event queue
  eventRxOpen,     \* its receiver exists
  cpc,             \* where the capture thread is
  now,             \* its clock sample; 0 outside an iteration
  windows,         \* its Windows
  outgoing,        \* the event a blocking send holds
  refresh, report, \* its next address refresh and report
  counts           \* its Counts

captureVars == <<clock, stop, eventQ, eventRxOpen, cpc, now, windows,
                 outgoing, refresh, report, counts>>

SkipReason == {"malformed", "unsupported", "fragmented"}
Returned == {"ok", "err"}
Stage == {"top", "boundary", "addresses", "send_addresses", "drops", "read"}

Packet(p) == [kind |-> "packet", packet |-> p]
Boundary(end) == [kind |-> "boundary", end |-> end]
Addresses(local) == [kind |-> "addresses", local |-> local]
NoEvent == [kind |-> "none"]

Event == [kind : {"packet"}, packet : Packets]
           \cup [kind : {"addresses"}, local : LocalSets]
           \cup [kind : {"boundary"}, end : Nat]

CaptureReturned == cpc \in Returned

CaptureInit ==
  /\ clock = 0
  /\ stop = FALSE
  /\ eventQ = <<>>
  /\ eventRxOpen = TRUE
  /\ cpc = "top"
  /\ now = 0
  /\ windows = NewWindows(StartUtc, 0)
  /\ outgoing = NoEvent
  /\ refresh = Period
  /\ report = Period
  /\ counts = [c \in {"parsed", "queue_drops"} \cup SkipReason |-> 0]

-----------------------------------------------------------------------------
\* Mutated: the queue is unbounded.
QueueHasRoomAlways == TRUE

QueueHasRoom == Len(eventQ) < EventCap

\* The stages of one iteration that its sample makes due, in order.
StageAfterRefresh(t) == IF t >= report THEN "drops" ELSE "read"
StageAfterBoundary(t) == IF t >= refresh THEN "addresses" ELSE StageAfterRefresh(t)

\* Leaving the loop body: back to its condition, or out with an error.
EndIteration == cpc' = "top" /\ now' = 0
Fail == cpc' = "err" /\ now' = 0

\* Mutated: the loop goes on after a stop request.
StopIgnored ==
  /\ cpc = "top"
  /\ stop
  /\ cpc' = "read"
  /\ UNCHANGED <<clock, stop, eventQ, eventRxOpen, now, windows, outgoing,
                 refresh, report, counts>>

StopSeen ==
  /\ cpc = "top"
  /\ stop
  /\ cpc' = "ok"
  /\ UNCHANGED <<clock, stop, eventQ, eventRxOpen, now, windows, outgoing,
                 refresh, report, counts>>

BeginIteration ==
  /\ cpc = "top"
  /\ ~stop
  /\ now' = clock
  /\ IF IsDue(windows, clock)
     THEN /\ outgoing' = Boundary(windows.end)
          /\ windows' = Advanced(windows, clock)
          /\ cpc' = "boundary"
     ELSE /\ cpc' = StageAfterBoundary(clock)
          /\ UNCHANGED <<outgoing, windows>>
  /\ UNCHANGED <<clock, stop, eventQ, eventRxOpen, refresh, report, counts>>

\* Mutated: try_send instead of send, a full queue loses the boundary.
SendBoundaryOrDrop ==
  /\ cpc = "boundary"
  /\ outgoing' = NoEvent
  /\ cpc' = StageAfterBoundary(now)
  /\ eventQ' = IF QueueHasRoom THEN Append(eventQ, outgoing) ELSE eventQ
  /\ UNCHANGED <<clock, stop, eventRxOpen, now, windows, refresh, report, counts>>

\* send() waits for room; it fails once the receiver is gone.
SendBoundary ==
  /\ cpc = "boundary"
  /\ outgoing' = NoEvent
  /\ \/ /\ eventRxOpen
        /\ QueueHasRoom
        /\ eventQ' = Append(eventQ, outgoing)
        /\ cpc' = StageAfterBoundary(now)
        /\ UNCHANGED now
     \/ /\ ~eventRxOpen
        /\ Fail
        /\ UNCHANGED eventQ
  /\ UNCHANGED <<clock, stop, eventRxOpen, windows, refresh, report, counts>>

\* The interface is asked for its addresses; it may be gone or have none.
ReadAddresses ==
  /\ cpc = "addresses"
  /\ \/ /\ \E local \in LocalSets : outgoing' = Addresses(local)
        /\ cpc' = "send_addresses"
        /\ UNCHANGED now
     \/ /\ "addresses" \in CaptureFaults
        /\ Fail
        /\ UNCHANGED outgoing
  /\ UNCHANGED <<clock, stop, eventQ, eventRxOpen, windows, refresh, report, counts>>

SendAddresses ==
  /\ cpc = "send_addresses"
  /\ outgoing' = NoEvent
  /\ \/ /\ eventRxOpen
        /\ QueueHasRoom
        /\ eventQ' = Append(eventQ, outgoing)
        /\ refresh' = now + Period
        /\ cpc' = StageAfterRefresh(now)
        /\ UNCHANGED now
     \/ /\ ~eventRxOpen
        /\ Fail
        /\ UNCHANGED <<eventQ, refresh>>
  /\ UNCHANGED <<clock, stop, eventRxOpen, windows, report, counts>>

ReportDrops ==
  /\ cpc = "drops"
  /\ \/ /\ report' = now + Period
        /\ cpc' = "read"
        /\ UNCHANGED now
     \/ /\ "drops" \in CaptureFaults
        /\ Fail
        /\ UNCHANGED report
  /\ UNCHANGED <<clock, stop, eventQ, eventRxOpen, windows, outgoing, refresh, counts>>

-----------------------------------------------------------------------------
Counted(c) == [counts EXCEPT ![c] = @ + 1]

\* Mutated: a full queue is taken for success.
ReadPacketUncounted(p) ==
  /\ cpc = "read"
  /\ counts["parsed"] < MaxPackets
  /\ counts' = Counted("parsed")
  /\ eventQ' = IF QueueHasRoom THEN Append(eventQ, Packet(p)) ELSE eventQ
  /\ EndIteration
  /\ UNCHANGED <<clock, stop, eventRxOpen, windows, outgoing, refresh, report>>

\* try_send never waits: a full queue costs the packet.
ReadPacket(p) ==
  /\ cpc = "read"
  /\ counts["parsed"] < MaxPackets
  /\ \/ /\ ~eventRxOpen
        /\ Fail
        /\ counts' = Counted("parsed")
        /\ UNCHANGED eventQ
     \/ /\ eventRxOpen
        /\ QueueHasRoom
        /\ eventQ' = Append(eventQ, Packet(p))
        /\ counts' = Counted("parsed")
        /\ EndIteration
     \/ /\ eventRxOpen
        /\ ~QueueHasRoom
        /\ counts' = [Counted("parsed") EXCEPT !["queue_drops"] = @ + 1]
        /\ EndIteration
        /\ UNCHANGED eventQ
  /\ UNCHANGED <<clock, stop, eventRxOpen, windows, outgoing, refresh, report>>

ReadSkipped(reason) ==
  /\ cpc = "read"
  /\ counts["malformed"] + counts["unsupported"] + counts["fragmented"] < MaxSkips
  /\ counts' = Counted(reason)
  /\ EndIteration
  /\ UNCHANGED <<clock, stop, eventQ, eventRxOpen, windows, outgoing, refresh, report>>

ReadIdle ==
  /\ cpc = "read"
  /\ EndIteration
  /\ UNCHANGED <<clock, stop, eventQ, eventRxOpen, windows, outgoing, refresh,
                 report, counts>>

ReadFails ==
  /\ cpc = "read"
  /\ "read" \in CaptureFaults
  /\ Fail
  /\ UNCHANGED <<clock, stop, eventQ, eventRxOpen, windows, outgoing, refresh,
                 report, counts>>

CaptureStep ==
  \/ StopSeen \/ BeginIteration \/ SendBoundary
  \/ ReadAddresses \/ SendAddresses \/ ReportDrops
  \/ \E p \in Packets : ReadPacket(p)
  \/ \E reason \in SkipReason : ReadSkipped(reason)
  \/ ReadIdle \/ ReadFails

-----------------------------------------------------------------------------
(* The rest of the process, as far as the capture thread can see it.       *)

Tick ==
  /\ clock < MaxTime
  /\ clock' = clock + 1
  /\ UNCHANGED <<stop, eventQ, eventRxOpen, cpc, now, windows, outgoing,
                 refresh, report, counts>>

\* The handler of SIGINT and SIGTERM.
Signal ==
  /\ ~stop
  /\ stop' = TRUE
  /\ UNCHANGED <<clock, eventQ, eventRxOpen, cpc, now, windows, outgoing,
                 refresh, report, counts>>
=============================================================================
