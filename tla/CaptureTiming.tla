--------------------------- MODULE CaptureTiming ---------------------------
(***************************************************************************)
(* The capture thread with a receiver that takes events at any pace and    *)
(* may go away: which window a packet is labelled with, that no boundary   *)
(* is lost or reordered, and that the thread stops.                        *)
(***************************************************************************)
EXTENDS CaptureLoop, SequencesExt

(* History of what was put on the queue: the samples of the packets since  *)
(* the last boundary, that boundary with the samples of the packets it     *)
(* closed, and the number of packets ever put.                             *)
VARIABLES open, closed, put

history == <<open, closed, put>>
vars == <<captureVars, history>>

Init ==
  /\ CaptureInit
  /\ open = {}
  /\ closed = [end |-> windows.end - IntervalTicks, members |-> {}, at |-> 0]
  /\ put = 0

Recorded(event) ==
  CASE event.kind = "packet" ->
         open' = open \cup {now} /\ put' = put + 1 /\ UNCHANGED closed
    [] event.kind = "boundary" ->
         /\ closed' = [end |-> event.end, members |-> open, at |-> now]
         /\ open' = {}
         /\ UNCHANGED put
    [] event.kind = "addresses" -> UNCHANGED history

Capture ==
  /\ CaptureStep
  /\ IF Len(eventQ') > Len(eventQ) THEN Recorded(Last(eventQ'))
     ELSE UNCHANGED history

Receive ==
  /\ eventRxOpen
  /\ eventQ # <<>>
  /\ eventQ' = Tail(eventQ)
  /\ UNCHANGED <<clock, stop, eventRxOpen, cpc, now, windows, outgoing, refresh,
                 report, counts, history>>

\* The main thread gives up: it sets stop, then drops the receiver.
CloseReceiver ==
  /\ stop
  /\ eventRxOpen
  /\ eventRxOpen' = FALSE
  /\ eventQ' = <<>>
  /\ UNCHANGED <<clock, stop, cpc, now, windows, outgoing, refresh, report,
                 counts, history>>

Finished == CaptureReturned /\ UNCHANGED vars

Next ==
  \/ Capture
  \/ Receive
  \/ CloseReceiver
  \/ (Tick /\ UNCHANGED history)
  \/ (Signal /\ UNCHANGED history)
  \/ Finished

Spec == Init /\ [][Next]_vars /\ WF_vars(Capture) /\ WF_vars(Receive)

\* The same with a thread that is never preempted: time passes only while it
\* is at the top of its loop or waits for room on the queue.
Waiting == cpc \in {"boundary", "send_addresses"} /\ eventRxOpen /\ ~QueueHasRoom
PromptNext ==
  /\ Next
  /\ clock' # clock => cpc = "top" \/ Waiting \/ CaptureReturned

PromptSpec == Init /\ [][PromptNext]_vars /\ WF_vars(Capture) /\ WF_vars(Receive)

-----------------------------------------------------------------------------
TypeOK ==
  /\ clock \in 0..MaxTime
  /\ stop \in BOOLEAN /\ eventRxOpen \in BOOLEAN
  /\ Len(eventQ) <= EventCap
  /\ \A i \in DOMAIN eventQ : eventQ[i] \in Event
  /\ cpc \in Stage \cup Returned
  /\ now \in 0..clock
  /\ windows \in [end : Nat, deadline : Nat]
  /\ outgoing \in Event \cup {NoEvent}
  /\ (outgoing # NoEvent) <=> (cpc \in {"boundary", "send_addresses"})
  /\ refresh \in Nat /\ report \in Nat
  /\ counts \in [{"parsed", "queue_drops"} \cup SkipReason -> Nat]

Utc(t) == StartUtc + t

InWindow(t, end) == end - IntervalTicks <= Utc(t) /\ Utc(t) < end

\* The label of the next boundary: being sent, or still to come.
NextLabel == IF cpc = "boundary" THEN outgoing.end ELSE windows.end

(* Every packet on the queue is followed by the boundary of the window in  *)
(* which its loop iteration began, however late the receiver, the clock    *)
(* and the blocking sends made that boundary: boundaries are never lost,   *)
(* never overtaken by a packet (runtime.rs:81-84 and Windows::due, 45-56). *)
(* The packets after the last boundary are left to the final flush once    *)
(* the thread has failed.                                                  *)
PacketsKeepTheirWindow ==
  /\ \A t \in closed.members : InWindow(t, closed.end)
  /\ cpc # "err" => \A t \in open : InWindow(t, NextLabel)

(* Labels are ends of UTC-aligned windows, strictly increasing, and a      *)
(* window is closed only once it is over (Windows::new and due), even when *)
(* several windows elapsed while a send was blocked.                       *)
LabelsAlignedAndIncreasing ==
  [][closed' # closed =>
       /\ closed'.end % IntervalTicks = 0
       /\ closed'.end <= Utc(closed'.at)
       /\ closed.end < closed'.end]_vars

(* A packet read is either on the queue, or counted as a queue drop, or it *)
(* ended the thread with an error: the totals logged at runtime.rs:91-100  *)
(* account for every packet.                                               *)
NoUncountedLoss ==
  /\ put + counts["queue_drops"] <= counts["parsed"]
  /\ put + counts["queue_drops"] # counts["parsed"] =>
       /\ cpc = "err"
       /\ ~eventRxOpen
       /\ put + counts["queue_drops"] + 1 = counts["parsed"]

(* A stop request ends the thread, also when it is waiting for room on the *)
(* queue: the receiver takes what is queued or goes away.                  *)
StopEndsCapture == stop ~> CaptureReturned

(* README.md:57: packets belong to the window in which the capture worker  *)
(* reads them.  Even with a whole interval of tolerance this is not so:    *)
(* the sample `now` decides the window, and it can be older than any       *)
(* number of windows when a send has waited since (runtime.rs:80-103),     *)
(* without any preemption of the thread (PromptSpec).                      *)
ReadWithinAWindowOfItsLabel ==
  [][put' # put => Utc(clock) < windows.end + IntervalTicks]_vars

=============================================================================
