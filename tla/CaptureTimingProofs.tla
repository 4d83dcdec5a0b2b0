------------------------ MODULE CaptureTimingProofs ------------------------
(***************************************************************************)
(* Proofs about the capture thread, for every interval, resolution of the  *)
(* clock, capacity and number of packets: what Windows::new and            *)
(* Windows::due compute; that a packet is closed by the boundary of the    *)
(* window in which its loop iteration began; and what the thread puts on   *)
(* the queue over a whole run.                                             *)
(***************************************************************************)
EXTENDS CaptureTiming, TLAPS

-----------------------------------------------------------------------------
(* What Windows::new and Windows::due compute.                            *)

(* Multiplication keeps an order: a step of the tick arithmetic of         *)
(* Windows::due (runtime.rs:47-58).                                        *)
LEMMA TimesMonotone ==
  ASSUME NEW a \in Int, NEW b \in Int, NEW c \in Nat, a <= b
  PROVE  a * c <= b * c
OBVIOUS

(* Euclidean division, as as_secs and the division by the interval use it  *)
(* (runtime.rs:51).                                                        *)
LEMMA Quotient ==
  ASSUME NEW x \in Int, NEW y \in Nat \ {0}
  PROVE  /\ x \div y \in Int
         /\ (x \div y) * y <= x
         /\ x < (x \div y + 1) * y
         /\ x >= 0 => x \div y \in Nat
OBVIOUS

\* A whole number of intervals, in ticks.
Aligned(x) == \E n \in Int : x = n * IntervalTicks

\* The whole intervals in x ticks, as the code computes them.
Periods(x) == (x \div Second) \div Interval

(* Dividing by the ticks of a second and then by the seconds of an         *)
(* interval, as due() does with as_secs, is dividing by the ticks of an    *)
(* interval: truncating to seconds loses nothing (runtime.rs:51).          *)
LEMMA TwoQuotients ==
  ASSUME WindowsAssumption, NEW x \in Int
  PROVE  /\ Periods(x) \in Int
         /\ (Periods(x) * Interval) * Second <= x
         /\ x < ((Periods(x) + 1) * Interval) * Second
         /\ x >= 0 => Periods(x) \in Nat
<1>1. Second \in Nat \ {0} /\ Interval \in Nat \ {0}
  BY DEF WindowsAssumption
<1>2. /\ x \div Second \in Int
      /\ (x \div Second) * Second <= x
      /\ x < (x \div Second + 1) * Second
      /\ x >= 0 => x \div Second \in Nat
  BY <1>1, Quotient
<1>3. PICK s : s = x \div Second
  OBVIOUS
<1>4. /\ s \in Int
      /\ s * Second <= x
      /\ x < (s + 1) * Second
      /\ x >= 0 => s \in Nat
  BY <1>2, <1>3
<1>5. /\ s \div Interval \in Int
      /\ (s \div Interval) * Interval <= s
      /\ s < (s \div Interval + 1) * Interval
      /\ s >= 0 => s \div Interval \in Nat
  BY <1>1, <1>4, Quotient
<1>6. PICK q : q = s \div Interval
  OBVIOUS
<1>7. /\ q \in Int
      /\ q * Interval <= s
      /\ s < (q + 1) * Interval
      /\ s >= 0 => q \in Nat
  BY <1>5, <1>6
<1>8. /\ q * Interval \in Int
      /\ (q + 1) * Interval \in Int
      /\ s + 1 <= (q + 1) * Interval
  BY <1>1, <1>4, <1>7
<1>9. (q * Interval) * Second <= s * Second
  BY <1>1, <1>4, <1>7, <1>8, TimesMonotone
<1>10. (s + 1) * Second <= ((q + 1) * Interval) * Second
  BY <1>1, <1>4, <1>8, TimesMonotone
<1>11. /\ (q * Interval) * Second \in Int /\ s * Second \in Int
       /\ (s + 1) * Second \in Int /\ ((q + 1) * Interval) * Second \in Int
  BY <1>1, <1>4, <1>8
<1>12. /\ (q * Interval) * Second <= x
       /\ x < ((q + 1) * Interval) * Second
       /\ x >= 0 => q \in Nat
  BY <1>4, <1>7, <1>9, <1>10, <1>11
<1>13. q = Periods(x)
  BY <1>3, <1>6 DEF Periods
<1> QED BY <1>7, <1>12, <1>13

(* An interval lasts at least one tick of the monotonic clock              *)
(* (Config::validate asks for a positive interval, config.rs).             *)
LEMMA IntervalTicksType ==
  ASSUME WindowsAssumption
  PROVE  IntervalTicks \in Nat \ {0}
BY DEF WindowsAssumption, IntervalTicks

(* The first window is the aligned one that contains the start, and its    *)
(* deadline is its end on the monotonic clock (Windows::new,               *)
(* runtime.rs:35-44).                                                      *)
LEMMA NewWindowsContainStart ==
  ASSUME WindowsAssumption, NEW utc \in Int, NEW mono \in Int,
         NEW w, w = NewWindows(utc, mono)
  PROVE  /\ w \in [end : Int, deadline : Int]
         /\ w.end - IntervalTicks <= utc
         /\ utc < w.end
         /\ w.end - w.deadline = utc - mono
         /\ Aligned(w.end)
<1>1. Second \in Nat \ {0} /\ Interval \in Nat \ {0}
  BY DEF WindowsAssumption
<1>2. PICK q : q = Periods(utc)
  OBVIOUS
<1>3. /\ q \in Int
      /\ (q * Interval) * Second <= utc
      /\ utc < ((q + 1) * Interval) * Second
  BY <1>2, TwoQuotients
<1>4. PICK end : end = (q + 1) * Interval * Second
  OBVIOUS
<1>5. w = [end |-> end, deadline |-> mono + (end - utc)]
  BY <1>2, <1>4 DEF NewWindows, Periods
<1>6. /\ end \in Int
      /\ end = (q + 1) * IntervalTicks
      /\ end - IntervalTicks = (q * Interval) * Second
      /\ IntervalTicks \in Int
  BY <1>1, <1>3, <1>4 DEF IntervalTicks
<1>7. w \in [end : Int, deadline : Int] /\ w.end = end /\ w.deadline = mono + (end - utc)
  BY <1>5, <1>6
<1>8. end - IntervalTicks <= utc /\ utc < end
  BY <1>3, <1>4, <1>6
<1>9. q + 1 \in Int
  BY <1>3
<1>10. Aligned(w.end)
  <2> SUFFICES \E n \in Int : w.end = n * IntervalTicks
    BY DEF Aligned
  <2> WITNESS q + 1 \in Int
  <2> QED BY <1>6, <1>7
<1> QED BY <1>7, <1>8, <1>10

(* due() moves to the window that contains the sample, however many        *)
(* windows have elapsed: the new deadline is after it by at most an        *)
(* interval, the end moves by the same whole number of intervals, so the   *)
(* alignment to UTC stays what it was at the start (runtime.rs:45-56).     *)
THEOREM AdvancedContainsSample ==
  ASSUME WindowsAssumption,
         NEW w \in [end : Int, deadline : Int], NEW t \in Int, t >= w.deadline,
         NEW a, a = Advanced(w, t)
  PROVE  /\ a \in [end : Int, deadline : Int]
         /\ t < a.deadline
         /\ a.deadline - IntervalTicks <= t
         /\ a.end - a.deadline = w.end - w.deadline
         /\ w.end < a.end
         /\ Aligned(a.end - w.end)
<1>1. Second \in Nat \ {0} /\ Interval \in Nat \ {0} /\ IntervalTicks \in Nat \ {0}
  BY IntervalTicksType DEF WindowsAssumption
<1>2. t - w.deadline \in Nat
  OBVIOUS
<1>3. PICK q : q = Periods(t - w.deadline)
  OBVIOUS
<1>4. /\ q \in Nat
      /\ (q * Interval) * Second <= t - w.deadline
      /\ t - w.deadline < ((q + 1) * Interval) * Second
  BY <1>2, <1>3, TwoQuotients
<1>5. PICK advance : advance = (Interval * (q + 1)) * Second
  OBVIOUS
<1>6. a = [end |-> w.end + advance, deadline |-> w.deadline + advance]
  BY <1>3, <1>5 DEF Advanced, Periods
<1>7. /\ advance \in Int
      /\ advance = (q + 1) * IntervalTicks
      /\ advance = ((q + 1) * Interval) * Second
      /\ advance - IntervalTicks = (q * Interval) * Second
  BY <1>1, <1>4, <1>5 DEF IntervalTicks
<1>8. /\ a \in [end : Int, deadline : Int]
      /\ a.end = w.end + advance
      /\ a.deadline = w.deadline + advance
  BY <1>6, <1>7
<1>9. t < a.deadline
  BY <1>4, <1>7, <1>8
<1>10. a.deadline - IntervalTicks <= t
  BY <1>1, <1>4, <1>7, <1>8
<1>11. q + 1 \in Nat \ {0} /\ w.end \in Int
  BY <1>4
<1>12. a.end - w.end = (q + 1) * IntervalTicks /\ w.end < a.end
  BY <1>1, <1>7, <1>8, <1>11
<1>13. Aligned(a.end - w.end)
  BY <1>11, <1>12 DEF Aligned
<1>14. a.end - a.deadline = w.end - w.deadline
  BY <1>7, <1>8
<1> QED BY <1>8, <1>9, <1>10, <1>12, <1>13, <1>14

-----------------------------------------------------------------------------
(* A packet is closed by the boundary of its window.                       *)

InIteration == cpc \in {"boundary", "addresses", "send_addresses", "drops", "read"}

(* The types this proof needs, and what a blocking send may hold.          *)
Typed ==
  /\ clock \in Nat
  /\ now \in Nat
  /\ eventQ \in Seq(Event)
  /\ cpc \in Stage \cup Returned
  /\ windows \in [end : Int, deadline : Int]
  /\ open \in SUBSET Int
  /\ closed \in [end : Int, members : SUBSET Int, at : Int]
  /\ cpc = "boundary" => outgoing \in [kind : {"boundary"}, end : Nat]
  /\ cpc = "send_addresses" => outgoing \in [kind : {"addresses"}, local : LocalSets]

(* The monotonic deadline is the UTC end; the window began before the      *)
(* clock; and while an iteration runs, its sample is in the window.        *)
WindowsTrackTheClock ==
  /\ windows.end = Utc(windows.deadline)
  /\ windows.end >= 0
  /\ windows.deadline - IntervalTicks <= clock
  /\ InIteration => /\ now <= clock
                    /\ windows.deadline - IntervalTicks <= now
                    /\ now < windows.deadline

Inductive == Typed /\ WindowsTrackTheClock /\ PacketsKeepTheirWindow

-----------------------------------------------------------------------------
(* The invariant holds when capture_loop starts: nothing is queued and the *)
(* first window holds the start of the clock (runtime.rs:72-75).           *)
LEMMA InitInductive == Init => Inductive
<1> SUFFICES ASSUME Init PROVE Inductive
  OBVIOUS
<1> USE WindowsAssumption, CaptureAssumption
<1>1. IntervalTicks \in Nat \ {0}
  BY IntervalTicksType
<1>2. /\ windows \in [end : Int, deadline : Int]
      /\ windows.end - IntervalTicks <= StartUtc
      /\ StartUtc < windows.end
      /\ windows.end - windows.deadline = StartUtc - 0
  BY NewWindowsContainStart DEF Init, CaptureInit, CaptureAssumption
<1>3. Typed
  BY <1>1, <1>2 DEF Init, CaptureInit, Typed, Stage
<1>4. WindowsTrackTheClock
  BY <1>1, <1>2 DEF Init, CaptureInit, WindowsTrackTheClock, InIteration, Utc
<1>5. PacketsKeepTheirWindow
  BY DEF Init, CaptureInit, PacketsKeepTheirWindow
<1> QED BY <1>3, <1>4, <1>5 DEF Inductive

(* A step of the capture thread that leaves the queue as it is records     *)
(* nothing; one that appends records what it appended.                     *)
LEMMA Unrecorded ==
  ASSUME Inductive, Capture, eventQ' = eventQ
  PROVE  UNCHANGED <<open, closed>>
BY DEF Capture, history, Inductive, Typed

(* An event that enters the queue is recorded at the end of the history, in *)
(* the order of the sends (runtime.rs:83, 86, 106).                        *)
LEMMA RecordedEvent ==
  ASSUME Inductive, Capture, NEW e \in Event, eventQ' = Append(eventQ, e)
  PROVE  Recorded(e)
<1>1. Len(eventQ') = Len(eventQ) + 1 /\ Len(eventQ) \in Nat
      /\ eventQ'[Len(eventQ) + 1] = e
  BY DEF Inductive, Typed
<1>2. Last(eventQ') = e
  BY <1>1 DEF Last
<1> QED BY <1>1, <1>2 DEF Capture

-----------------------------------------------------------------------------
(* Each step of the capture thread keeps the invariant.                    *)

(* The sample of the clock and the advance of the windows                  *)
(* (runtime.rs:77-81).                                                     *)
LEMMA BeginIterationInductive ==
  ASSUME Inductive, Capture, BeginIteration
  PROVE  Inductive'
<1> USE WindowsAssumption, CaptureAssumption
<1>1. IntervalTicks \in Nat \ {0} /\ StartUtc \in Nat
  BY IntervalTicksType DEF CaptureAssumption
<1>2. UNCHANGED <<open, closed>> /\ clock' = clock /\ now' = clock /\ eventQ' = eventQ
  BY Unrecorded DEF BeginIteration
<1>3. CASE IsDue(windows, clock)
  <2>1. /\ outgoing' = Boundary(windows.end)
        /\ windows' = Advanced(windows, clock)
        /\ cpc' = "boundary"
    BY <1>3 DEF BeginIteration
  <2>2. /\ windows' \in [end : Int, deadline : Int]
        /\ clock < windows'.deadline
        /\ windows'.deadline - IntervalTicks <= clock
        /\ windows'.end - windows'.deadline = windows.end - windows.deadline
    BY <2>1, <1>3, AdvancedContainsSample DEF IsDue, Inductive, Typed
  <2>3. Typed'
    BY <1>2, <2>1, <2>2 DEF Typed, Inductive, Stage, Boundary, WindowsTrackTheClock
  <2>4. WindowsTrackTheClock'
    BY <1>1, <1>2, <2>1, <2>2
       DEF WindowsTrackTheClock, InIteration, Inductive, Typed, Utc
  <2>5. NextLabel = windows.end /\ NextLabel' = windows.end /\ cpc # "err"
    BY <2>1 DEF BeginIteration, NextLabel, Boundary
  <2>6. PacketsKeepTheirWindow'
    BY <1>2, <2>5 DEF PacketsKeepTheirWindow, InWindow, Utc, Inductive
  <2> QED BY <2>3, <2>4, <2>6 DEF Inductive
<1>4. CASE ~IsDue(windows, clock)
  <2>1. /\ cpc' \in {"addresses", "drops", "read"}
        /\ UNCHANGED <<outgoing, windows>>
        /\ clock < windows.deadline
    BY <1>4 DEF BeginIteration, StageAfterBoundary, StageAfterRefresh, IsDue,
                Inductive, Typed
  <2>2. Typed'
    BY <1>2, <2>1 DEF Typed, Inductive, Stage
  <2>3. WindowsTrackTheClock'
    BY <1>1, <1>2, <2>1
       DEF WindowsTrackTheClock, InIteration, Inductive, Typed, Utc
  <2>4. NextLabel = windows.end /\ NextLabel' = windows.end /\ cpc # "err"
    BY <2>1 DEF BeginIteration, NextLabel
  <2>5. PacketsKeepTheirWindow'
    BY <1>2, <2>4 DEF PacketsKeepTheirWindow, InWindow, Utc, Inductive
  <2> QED BY <2>2, <2>3, <2>5 DEF Inductive
<1> QED BY <1>3, <1>4

(* The blocking send of a boundary (runtime.rs:82-84), which may succeed,  *)
(* wait, or end the thread.                                                *)
LEMMA SendBoundaryInductive ==
  ASSUME Inductive, Capture, SendBoundary
  PROVE  Inductive'
<1> USE WindowsAssumption, CaptureAssumption
<1>1. /\ cpc = "boundary"
      /\ UNCHANGED <<clock, windows>>
      /\ outgoing \in [kind : {"boundary"}, end : Nat]
  BY DEF SendBoundary, Inductive, Typed
<1>2. CASE eventQ' = Append(eventQ, outgoing) /\ UNCHANGED now
           /\ cpc' = StageAfterBoundary(now)
  <2>1. cpc' \in {"addresses", "drops", "read"}
    BY <1>2 DEF StageAfterBoundary, StageAfterRefresh
  <2>2. outgoing \in Event
    BY <1>1 DEF Event
  <2>3. Recorded(outgoing) /\ outgoing.kind = "boundary"
    BY <1>1, <1>2, <2>2, RecordedEvent
  <2>4. /\ closed' = [end |-> outgoing.end, members |-> open, at |-> now]
        /\ open' = {}
    BY <2>3 DEF Recorded
  <2>5. Typed'
    BY <1>1, <1>2, <2>1, <2>2, <2>4 DEF Typed, Inductive, Stage
  <2>6. WindowsTrackTheClock'
    BY <1>1, <1>2, <2>1 DEF WindowsTrackTheClock, InIteration, Inductive, Utc
  <2>7. \A t \in open : InWindow(t, outgoing.end)
    BY <1>1 DEF PacketsKeepTheirWindow, NextLabel, Inductive
  <2>8. PacketsKeepTheirWindow'
    BY <2>4, <2>7 DEF PacketsKeepTheirWindow, InWindow, Utc
  <2> QED BY <2>5, <2>6, <2>8 DEF Inductive
<1>3. CASE Fail /\ UNCHANGED eventQ
  <2>1. UNCHANGED <<open, closed>> /\ cpc' = "err" /\ now' = 0
    BY <1>3, Unrecorded DEF Fail
  <2>2. Typed'
    BY <1>1, <1>3, <2>1 DEF Typed, Inductive, Returned
  <2>3. WindowsTrackTheClock'
    BY <1>1, <2>1 DEF WindowsTrackTheClock, InIteration, Inductive, Utc
  <2>4. PacketsKeepTheirWindow'
    BY <2>1 DEF PacketsKeepTheirWindow, InWindow, Utc, Inductive
  <2> QED BY <2>2, <2>3, <2>4 DEF Inductive
<1> QED BY <1>2, <1>3 DEF SendBoundary

(* Steps within an iteration that end in another stage of it, or end it,   *)
(* and put no packet and no boundary on the queue.                         *)
LEMMA QuietStepInductive ==
  ASSUME Inductive, UNCHANGED <<clock, windows, open, closed>>,
         cpc # "boundary", cpc' # "boundary",
         cpc = "err" => cpc' = "err",
         Typed',
         InIteration' => InIteration /\ now' = now
  PROVE  Inductive'
<1>1. WindowsTrackTheClock'
  BY DEF WindowsTrackTheClock, InIteration, Inductive, Utc
<1>2. PacketsKeepTheirWindow'
  BY DEF PacketsKeepTheirWindow, NextLabel, InWindow, Utc, Inductive
<1> QED BY <1>1, <1>2 DEF Inductive

(* A packet is read and offered to the queue with try_send                 *)
(* (runtime.rs:103-112), after the boundaries of the sample were queued.   *)
LEMMA ReadPacketInductive ==
  ASSUME Inductive, Capture, NEW p \in Packets, ReadPacket(p)
  PROVE  Inductive'
<1> USE WindowsAssumption, CaptureAssumption
<1>1. /\ cpc = "read"
      /\ UNCHANGED <<clock, windows, outgoing>>
      /\ cpc' \in {"top", "err"} /\ now' = 0
  BY DEF ReadPacket, EndIteration, Fail
<1>2. CASE eventQ' = eventQ
  <2>1. UNCHANGED <<open, closed>>
    BY <1>2, Unrecorded
  <2>2. Typed'
    BY <1>1, <1>2, <2>1 DEF Typed, Inductive, Returned, Stage
  <2> QED BY <1>1, <2>1, <2>2, QuietStepInductive DEF InIteration
<1>3. CASE eventQ' = Append(eventQ, Packet(p)) /\ cpc' = "top"
  <2>1. Packet(p) \in Event /\ Packet(p).kind = "packet"
    BY DEF Packet, Event
  <2>2. open' = open \cup {now} /\ UNCHANGED closed
    <3>1. Recorded(Packet(p))
      BY <1>3, <2>1, RecordedEvent
    <3> QED BY <2>1, <3>1 DEF Recorded
  <2>3. Typed'
    BY <1>1, <1>3, <2>1, <2>2 DEF Typed, Inductive, Stage
  <2>4. WindowsTrackTheClock'
    BY <1>1, <1>3 DEF WindowsTrackTheClock, InIteration, Inductive, Utc
  <2>5. InWindow(now, windows.end)
    <3>1. StartUtc \in Nat /\ IntervalTicks \in Nat \ {0}
      BY IntervalTicksType DEF CaptureAssumption
    <3> QED BY <1>1, <3>1
        DEF InWindow, Utc, Inductive, Typed, WindowsTrackTheClock, InIteration
  <2>6. NextLabel = windows.end /\ NextLabel' = windows.end
    BY <1>1, <1>3 DEF NextLabel
  <2>7. PacketsKeepTheirWindow'
    BY <1>1, <2>2, <2>5, <2>6 DEF PacketsKeepTheirWindow, InWindow, Utc, Inductive
  <2> QED BY <2>3, <2>4, <2>7 DEF Inductive
<1> QED BY <1>2, <1>3 DEF ReadPacket, EndIteration, Fail

(* The steps that queue neither a boundary nor a packet (runtime.rs:78-79, *)
(* 85-95, 103-113).                                                        *)
LEMMA OtherStepInductive ==
  ASSUME Inductive, Capture,
         \/ StopSeen \/ ReadAddresses \/ SendAddresses \/ ReportDrops
         \/ (\E reason \in SkipReason : ReadSkipped(reason))
         \/ ReadIdle \/ ReadFails
  PROVE  Inductive'
<1>1. CASE SendAddresses
  <2>1. /\ cpc = "send_addresses"
        /\ UNCHANGED <<clock, windows>>
        /\ outgoing \in [kind : {"addresses"}, local : LocalSets]
    BY <1>1 DEF SendAddresses, Inductive, Typed
  <2>2. CASE eventQ' = Append(eventQ, outgoing) /\ UNCHANGED now
             /\ cpc' = StageAfterRefresh(now)
    <3>1. cpc' \in {"drops", "read"}
      BY <2>2 DEF StageAfterRefresh
    <3>2. outgoing \in Event /\ outgoing.kind = "addresses"
      BY <2>1 DEF Event
    <3>3. UNCHANGED <<open, closed>>
      BY <2>2, <3>2, RecordedEvent DEF Recorded, history
    <3>4. Typed'
      BY <2>1, <2>2, <3>1, <3>2, <3>3 DEF Typed, Inductive, Stage
    <3> QED BY <2>1, <2>2, <3>1, <3>3, <3>4, QuietStepInductive DEF InIteration
  <2>3. CASE Fail /\ UNCHANGED eventQ
    <3>1. UNCHANGED <<open, closed>> /\ cpc' = "err" /\ now' = 0
      BY <2>3, Unrecorded DEF Fail
    <3>2. Typed'
      BY <2>1, <2>3, <3>1 DEF Typed, Inductive, Returned
    <3> QED BY <2>1, <3>1, <3>2, QuietStepInductive DEF InIteration
  <2> QED BY <1>1, <2>2, <2>3 DEF SendAddresses
<1>2. CASE \/ StopSeen \/ ReadAddresses \/ ReportDrops
           \/ (\E reason \in SkipReason : ReadSkipped(reason))
           \/ ReadIdle \/ ReadFails
  <2>1. /\ UNCHANGED <<clock, windows, eventQ>>
        /\ cpc \in {"top", "addresses", "drops", "read"}
        /\ cpc' \in {"ok", "err", "top", "send_addresses", "read"}
        /\ cpc = "top" => cpc' = "ok"
        /\ now' \in {now, 0}
        /\ cpc' \in {"send_addresses", "read"} => now' = now
        /\ cpc' = "send_addresses" =>
             outgoing' \in [kind : {"addresses"}, local : LocalSets]
    BY <1>2 DEF StopSeen, ReadAddresses, ReportDrops, ReadSkipped, ReadIdle,
                ReadFails, EndIteration, Fail, Addresses
  <2>2. UNCHANGED <<open, closed>>
    BY <2>1, Unrecorded
  <2>3. Typed'
    BY <2>1, <2>2 DEF Typed, Inductive, Returned, Stage
  <2> QED BY <2>1, <2>2, <2>3, QuietStepInductive DEF InIteration
<1> QED BY <1>1, <1>2

-----------------------------------------------------------------------------
(* Every step of the specification, of capture_loop and of its             *)
(* environment, keeps the invariant.                                       *)
LEMMA StepInductive == Inductive /\ [Next]_vars => Inductive'
<1> SUFFICES ASSUME Inductive, [Next]_vars PROVE Inductive'
  OBVIOUS
<1>1. CASE Capture
  BY <1>1, BeginIterationInductive, SendBoundaryInductive, ReadPacketInductive,
     OtherStepInductive DEF Capture, CaptureStep
<1>2. CASE Receive \/ CloseReceiver
  <2>1. /\ UNCHANGED <<clock, cpc, now, windows, outgoing, open, closed>>
        /\ eventQ' \in Seq(Event)
    <3>1. eventQ \in Seq(Event)
      BY DEF Inductive, Typed
    <3>2. CASE Receive
      <4>1. eventQ # <<>> /\ eventQ' = Tail(eventQ)
        BY <3>2 DEF Receive
      <4>2. eventQ' \in Seq(Event)
        <5> HIDE DEF Event
        <5> QED BY <3>1, <4>1
      <4> QED BY <3>2, <4>2 DEF Receive, history
    <3>3. CASE CloseReceiver
      <4>1. eventQ' = <<>>
        BY <3>3 DEF CloseReceiver
      <4> QED BY <3>3, <4>1 DEF CloseReceiver, history
    <3> QED BY <1>2, <3>2, <3>3
  <2> QED BY <2>1 DEF Inductive, Typed, WindowsTrackTheClock, InIteration,
                      PacketsKeepTheirWindow, NextLabel, InWindow, Utc
<1>3. CASE Tick /\ UNCHANGED history
  <2>1. /\ clock' = clock + 1
        /\ UNCHANGED <<cpc, now, windows, outgoing, eventQ, open, closed>>
    BY <1>3 DEF Tick, history
  <2>2. Typed' /\ PacketsKeepTheirWindow'
    BY <2>1 DEF Inductive, Typed, PacketsKeepTheirWindow, NextLabel, InWindow, Utc
  <2>3. IntervalTicks \in Nat \ {0}
    BY WindowsAssumption, IntervalTicksType
  <2>4. WindowsTrackTheClock'
    BY <2>1, <2>3 DEF Inductive, Typed, WindowsTrackTheClock, InIteration, Utc
  <2> QED BY <2>2, <2>4 DEF Inductive
<1>4. CASE Signal /\ UNCHANGED history
  BY <1>4 DEF Signal, history, Inductive, Typed, WindowsTrackTheClock, InIteration,
              PacketsKeepTheirWindow, NextLabel, InWindow, Utc
<1>5. CASE UNCHANGED vars
  BY <1>5 DEF vars, captureVars, history, Inductive, Typed, WindowsTrackTheClock,
              InIteration, PacketsKeepTheirWindow, NextLabel, InWindow, Utc
<1> QED BY <1>1, <1>2, <1>3, <1>4, <1>5 DEF Next, Finished

(* The property of the run, for every value of the constants: a packet is  *)
(* closed by the boundary of the window in which its iteration began       *)
(* (capture_loop, runtime.rs:68-124).                                      *)
THEOREM PacketsKept == Spec => []PacketsKeepTheirWindow
<1>1. Inductive => PacketsKeepTheirWindow
  BY DEF Inductive
<1> QED BY <1>1, InitInductive, StepInductive, PTL DEF Spec

-----------------------------------------------------------------------------
(* What the capture thread puts on the queue over a whole run: the labels  *)
(* of its boundaries are aligned and increase, and every packet it parsed  *)
(* was put or counted as lost.                                             *)

(* The window is aligned and after the last boundary; a boundary that      *)
(* waits for room is aligned, over, and between the two.                   *)
LabelsInOrder ==
  /\ Aligned(windows.end)
  /\ closed.end < windows.end
  /\ cpc = "boundary" =>
       /\ Aligned(outgoing.end)
       /\ outgoing.end <= Utc(now)
       /\ closed.end < outgoing.end
       /\ outgoing.end < windows.end

-----------------------------------------------------------------------------
(* A whole number of intervals leaves no remainder, and two of them add up *)
(* to one (the label arithmetic of Windows::due, runtime.rs:47-58).        *)
LEMMA AlignedSum ==
  ASSUME WindowsAssumption, NEW x, Aligned(x), NEW y, Aligned(y)
  PROVE  Aligned(x + y)
<1>1. PICK i \in Nat \ {0} : i = IntervalTicks
  BY IntervalTicksType
<1>2. PICK m \in Int : x = m * i
  BY <1>1 DEF Aligned
<1>3. PICK n \in Int : y = n * i
  BY <1>1 DEF Aligned
<1>4. m + n \in Int /\ x + y = (m + n) * i
  BY <1>2, <1>3
<1> SUFFICES \E k \in Int : x + y = k * IntervalTicks
  BY DEF Aligned
<1> WITNESS m + n \in Int
<1> QED BY <1>1, <1>4

(* An aligned label is a multiple of the interval.                         *)
LEMMA AlignedRemainder ==
  ASSUME WindowsAssumption, NEW x, Aligned(x)
  PROVE  x % IntervalTicks = 0
<1>1. PICK i \in Nat \ {0} : i = IntervalTicks
  BY IntervalTicksType
<1>2. PICK m \in Int : x = m * i
  BY <1>1 DEF Aligned
<1>3. (m * i) % i = 0
  BY <1>1
<1> QED BY <1>1, <1>2, <1>3

(* The first window of capture_loop is aligned, and nothing is closed      *)
(* before it (runtime.rs:35-44).                                           *)
LEMMA InitLabels == Init => LabelsInOrder
<1> SUFFICES ASSUME Init PROVE LabelsInOrder
  OBVIOUS
<1>1. IntervalTicks \in Nat \ {0} /\ StartUtc \in Int
  BY WindowsAssumption, CaptureAssumption, IntervalTicksType DEF CaptureAssumption
<1>2. /\ windows.end \in Int
      /\ Aligned(windows.end)
  BY <1>1, WindowsAssumption, NewWindowsContainStart DEF Init, CaptureInit
<1>3. closed.end = windows.end - IntervalTicks /\ cpc = "top"
  BY DEF Init, CaptureInit
<1> QED BY <1>1, <1>2, <1>3 DEF LabelsInOrder

(* The labels stay in order when the next window is entered, by one        *)
(* interval or by many (runtime.rs:80-82).                                 *)
LEMMA BeginIterationLabels ==
  ASSUME Inductive, LabelsInOrder, Capture, BeginIteration
  PROVE  LabelsInOrder'
<1> USE WindowsAssumption, CaptureAssumption
<1>1. UNCHANGED closed /\ now' = clock
  BY Unrecorded DEF BeginIteration
<1>2. /\ clock \in Nat /\ windows \in [end : Int, deadline : Int]
      /\ closed.end \in Int /\ windows.end = Utc(windows.deadline)
      /\ StartUtc \in Nat /\ IntervalTicks \in Nat \ {0}
  BY IntervalTicksType DEF Inductive, Typed, WindowsTrackTheClock, CaptureAssumption
<1>3. CASE IsDue(windows, clock)
  <2>1. outgoing'.end = windows.end /\ windows' = Advanced(windows, clock)
    BY <1>3 DEF BeginIteration, Boundary
  <2>2. clock \in Int /\ clock >= windows.deadline
    BY <1>2, <1>3 DEF IsDue
  <2>3. /\ windows'.end \in Int
        /\ windows.end < windows'.end
        /\ Aligned(windows'.end - windows.end)
    BY <1>2, <2>1, <2>2, AdvancedContainsSample
  <2>4. Aligned(windows'.end)
    <3>1. Aligned(windows.end) /\ windows'.end = windows.end + (windows'.end - windows.end)
      BY <1>2, <2>3 DEF LabelsInOrder
    <3> QED BY <2>3, <3>1, AlignedSum
  <2>5. closed.end < windows'.end
    BY <1>2, <2>3 DEF LabelsInOrder
  <2>6. outgoing'.end <= Utc(now')
    BY <1>1, <1>2, <1>3, <2>1 DEF Utc, IsDue
  <2> QED BY <1>1, <2>1, <2>3, <2>4, <2>5, <2>6 DEF LabelsInOrder, Aligned, Utc
<1>4. CASE ~IsDue(windows, clock)
  BY <1>1, <1>4 DEF BeginIteration, StageAfterBoundary, StageAfterRefresh,
                    LabelsInOrder, Aligned
<1> QED BY <1>3, <1>4

(* The send of a boundary closes its window, with the label it held while  *)
(* it waited (runtime.rs:82-84).                                           *)
LEMMA SendBoundaryLabels ==
  ASSUME Inductive, LabelsInOrder, Capture, SendBoundary
  PROVE  /\ LabelsInOrder'
         /\ closed' # closed => closed' = [end |-> outgoing.end, members |-> open, at |-> now]
<1>1. /\ cpc = "boundary" /\ windows' = windows
      /\ outgoing \in [kind : {"boundary"}, end : Nat]
      /\ outgoing \in Event
  BY DEF SendBoundary, Inductive, Typed, Event
<1>2. CASE eventQ' = Append(eventQ, outgoing) /\ cpc' = StageAfterBoundary(now)
  <2>1. cpc' # "boundary"
    BY <1>2 DEF StageAfterBoundary, StageAfterRefresh
  <2>2. closed' = [end |-> outgoing.end, members |-> open, at |-> now]
    BY <1>1, <1>2, RecordedEvent DEF Recorded
  <2> QED BY <1>1, <2>1, <2>2 DEF LabelsInOrder, Aligned
<1>3. CASE Fail /\ UNCHANGED eventQ
  <2>1. UNCHANGED closed /\ cpc' # "boundary"
    BY <1>3, Unrecorded DEF Fail
  <2> QED BY <1>1, <2>1 DEF LabelsInOrder, Aligned
<1> QED BY <1>2, <1>3 DEF SendBoundary

(* No other step of the thread touches the window or closes one: packets   *)
(* and addresses are queued without a boundary (runtime.rs:85-113).        *)
LEMMA OtherStepLabels ==
  ASSUME Inductive, Capture, ~BeginIteration, ~SendBoundary
  PROVE  UNCHANGED <<windows, closed>> /\ cpc' # "boundary"
<1>1. UNCHANGED windows /\ cpc' # "boundary"
  BY DEF Capture, CaptureStep, StopSeen, ReadAddresses, SendAddresses, ReportDrops,
         ReadPacket, ReadSkipped, ReadIdle, ReadFails, EndIteration, Fail,
         StageAfterRefresh
<1>2. CASE eventQ' = eventQ
  BY <1>1, <1>2, Unrecorded
<1>3. CASE eventQ' # eventQ
  <2>1. PICK e \in Event : eventQ' = Append(eventQ, e) /\ e.kind # "boundary"
    <3>1. CASE SendAddresses
      <4>1. outgoing \in Event /\ outgoing.kind = "addresses"
        BY <3>1 DEF SendAddresses, Inductive, Typed, Event
      <4> QED BY <1>3, <3>1, <4>1 DEF SendAddresses
    <3>2. ASSUME NEW p \in Packets, ReadPacket(p)
          PROVE  \E e \in Event : eventQ' = Append(eventQ, e) /\ e.kind # "boundary"
      <4>1. Packet(p) \in Event /\ Packet(p).kind = "packet"
        BY DEF Packet, Event
      <4> QED BY <1>3, <3>2, <4>1 DEF ReadPacket
    <3> QED BY <1>3, <3>1, <3>2
        DEF Capture, CaptureStep, StopSeen, ReadAddresses, ReportDrops,
            ReadSkipped, ReadIdle, ReadFails
  <2>2. Recorded(e)
    BY <2>1, RecordedEvent
  <2>3. e.kind \in {"packet", "addresses"}
    BY <2>1 DEF Event
  <2> QED BY <1>1, <2>2, <2>3 DEF Recorded, history
<1> QED BY <1>2, <1>3

(* The environment of the thread leaves the window, the sample and the     *)
(* boundary it sends alone (the receiver, the clock, the signal handler).  *)
LEMMA EnvironmentLabels ==
  ASSUME [Next]_vars, ~Capture
  PROVE  UNCHANGED <<windows, closed, outgoing, now, cpc>>
BY DEF Next, Receive, CloseReceiver, Tick, Signal, Finished, vars, captureVars, history

(* Every step keeps the labels in order.                                   *)
LEMMA StepLabels ==
  Inductive /\ LabelsInOrder /\ [Next]_vars => LabelsInOrder'
<1> SUFFICES ASSUME Inductive, LabelsInOrder, [Next]_vars PROVE LabelsInOrder'
  OBVIOUS
<1>1. CASE Capture /\ (BeginIteration \/ SendBoundary)
  BY <1>1, BeginIterationLabels, SendBoundaryLabels
<1>2. CASE Capture /\ ~BeginIteration /\ ~SendBoundary
  BY <1>2, OtherStepLabels DEF LabelsInOrder, Aligned
<1>3. CASE ~Capture
  BY <1>3, EnvironmentLabels DEF LabelsInOrder, Aligned, Utc
<1> QED BY <1>1, <1>2, <1>3

(* For every interval and clock, and however many windows elapse while a   *)
(* send waits: the labels of the boundaries are aligned to UTC and         *)
(* strictly increase, and no boundary is queued before its window is over  *)
(* (Windows and capture_loop, runtime.rs:35-84).                           *)
THEOREM LabelsInSequence == Spec => LabelsAlignedAndIncreasing
<1>1. Inductive /\ LabelsInOrder /\ [Next]_vars =>
        [closed' # closed =>
           /\ closed'.end % IntervalTicks = 0
           /\ closed'.end <= Utc(closed'.at)
           /\ closed.end < closed'.end]_vars
  <2> SUFFICES ASSUME Inductive, LabelsInOrder, [Next]_vars, closed' # closed
               PROVE  /\ closed'.end % IntervalTicks = 0
                      /\ closed'.end <= Utc(closed'.at)
                      /\ closed.end < closed'.end
    OBVIOUS
  <2>1. Capture
    BY EnvironmentLabels
  <2>2. ~BeginIteration
    BY <2>1, Unrecorded DEF BeginIteration
  <2>3. SendBoundary
    BY <2>1, <2>2, OtherStepLabels
  <2>4. closed' = [end |-> outgoing.end, members |-> open, at |-> now]
    BY <2>1, <2>3, SendBoundaryLabels
  <2>5. cpc = "boundary"
    BY <2>3 DEF SendBoundary
  <2>6. closed'.end % IntervalTicks = 0
    BY <2>4, <2>5, WindowsAssumption, AlignedRemainder DEF LabelsInOrder
  <2> QED BY <2>4, <2>5, <2>6 DEF LabelsInOrder
<1> QED
  BY <1>1, InitInductive, InitLabels, StepInductive, StepLabels, PTL
     DEF Spec, LabelsAlignedAndIncreasing

-----------------------------------------------------------------------------
(* The property itself, with the types of what it adds up.                 *)
LossesCounted ==
  /\ counts \in [{"parsed", "queue_drops"} \cup SkipReason -> Nat]
  /\ put \in Nat
  /\ NoUncountedLoss

(* A step that neither puts nor parses nor drops a packet leaves the       *)
(* balance alone; a thread that failed stays so (the counts of             *)
(* capture_loop, runtime.rs:60-66).                                        *)
LEMMA BalanceUnchanged ==
  ASSUME LossesCounted, put' = put,
         counts' \in [{"parsed", "queue_drops"} \cup SkipReason -> Nat],
         counts'["parsed"] = counts["parsed"],
         counts'["queue_drops"] = counts["queue_drops"],
         cpc = "err" => cpc' = "err",
         eventRxOpen' => eventRxOpen
  PROVE  LossesCounted'
BY DEF LossesCounted, NoUncountedLoss

(* A parsed packet is put, or counted as a drop, or the receiver is gone   *)
(* and the thread fails (runtime.rs:103-112).                              *)
LEMMA ReadPacketBalance ==
  ASSUME Inductive, LossesCounted, Capture, NEW p \in Packets, ReadPacket(p)
  PROVE  LossesCounted'
<1>1. /\ cpc = "read" /\ eventRxOpen' = eventRxOpen
      /\ counts["parsed"] \in Nat /\ counts["queue_drops"] \in Nat /\ put \in Nat
      /\ put + counts["queue_drops"] = counts["parsed"]
  BY DEF ReadPacket, LossesCounted, NoUncountedLoss
<1>2. Counted("parsed") \in [{"parsed", "queue_drops"} \cup SkipReason -> Nat]
      /\ Counted("parsed")["parsed"] = counts["parsed"] + 1
      /\ Counted("parsed")["queue_drops"] = counts["queue_drops"]
  BY DEF Counted, LossesCounted
<1>3. CASE eventQ' = Append(eventQ, Packet(p)) /\ counts' = Counted("parsed")
  <2>1. Packet(p) \in Event /\ Packet(p).kind = "packet"
    BY DEF Packet, Event
  <2>2. put' = put + 1
    BY <1>3, <2>1, RecordedEvent DEF Recorded
  <2> QED BY <1>1, <1>2, <1>3, <2>2 DEF LossesCounted, NoUncountedLoss
<1>4. CASE eventQ' = eventQ
  <2>1. put' = put
    BY <1>4 DEF Capture, history, Inductive, Typed
  <2>2. CASE ~eventRxOpen /\ Fail /\ counts' = Counted("parsed")
    BY <1>1, <1>2, <2>1, <2>2 DEF LossesCounted, NoUncountedLoss, Fail
  <2>3. CASE counts' = [Counted("parsed") EXCEPT !["queue_drops"] = @ + 1]
    <3>1. /\ counts' \in [{"parsed", "queue_drops"} \cup SkipReason -> Nat]
          /\ counts'["parsed"] = counts["parsed"] + 1
          /\ counts'["queue_drops"] = counts["queue_drops"] + 1
      BY <1>1, <1>2, <2>3
    <3> QED BY <1>1, <2>1, <3>1 DEF LossesCounted, NoUncountedLoss
  <2>4. eventQ' # Append(eventQ, Packet(p))
    BY <1>4 DEF Inductive, Typed
  <2> QED BY <1>4, <2>2, <2>3, <2>4 DEF ReadPacket
<1> QED BY <1>3, <1>4 DEF ReadPacket

(* No other step of the thread parses a packet (runtime.rs:77-101, 113).   *)
LEMMA OtherStepBalance ==
  ASSUME Inductive, LossesCounted, Capture, \A p \in Packets : ~ReadPacket(p)
  PROVE  LossesCounted'
<1>1. /\ cpc # "err" /\ eventRxOpen' = eventRxOpen
      /\ counts' = counts \/ \E reason \in SkipReason : counts' = Counted(reason)
  BY DEF Capture, CaptureStep, StopSeen, BeginIteration, SendBoundary, ReadAddresses,
         SendAddresses, ReportDrops, ReadSkipped, ReadIdle, ReadFails
<1>2. /\ counts' \in [{"parsed", "queue_drops"} \cup SkipReason -> Nat]
      /\ counts'["parsed"] = counts["parsed"]
      /\ counts'["queue_drops"] = counts["queue_drops"]
  <2>1. CASE counts' = counts
    BY <2>1 DEF LossesCounted
  <2>2. ASSUME NEW reason \in SkipReason, counts' = Counted(reason)
        PROVE  /\ counts' \in [{"parsed", "queue_drops"} \cup SkipReason -> Nat]
               /\ counts'["parsed"] = counts["parsed"]
               /\ counts'["queue_drops"] = counts["queue_drops"]
    BY <2>2 DEF Counted, LossesCounted, SkipReason
  <2> QED BY <1>1, <2>1, <2>2
<1>3. put' = put
  <2>1. CASE eventQ' = eventQ
    BY <2>1 DEF Capture, history, Inductive, Typed
  <2>2. CASE eventQ' # eventQ
    <3>1. CASE SendBoundary
      <4>1. outgoing \in Event /\ outgoing.kind = "boundary"
        BY <3>1 DEF SendBoundary, Inductive, Typed, Event
      <4> QED BY <2>2, <3>1, <4>1, RecordedEvent DEF SendBoundary, Recorded
    <3>2. CASE SendAddresses
      <4>1. outgoing \in Event /\ outgoing.kind = "addresses"
        BY <3>2 DEF SendAddresses, Inductive, Typed, Event
      <4> QED BY <2>2, <3>2, <4>1, RecordedEvent DEF SendAddresses, Recorded, history
    <3> QED BY <2>2, <3>1, <3>2
        DEF Capture, CaptureStep, StopSeen, BeginIteration, ReadAddresses,
            ReportDrops, ReadSkipped, ReadIdle, ReadFails
  <2> QED BY <2>1, <2>2
<1> QED BY <1>1, <1>2, <1>3, BalanceUnchanged

(* Every step keeps the balance of packets.                                *)
LEMMA StepBalance ==
  Inductive /\ LossesCounted /\ [Next]_vars => LossesCounted'
<1> SUFFICES ASSUME Inductive, LossesCounted, [Next]_vars PROVE LossesCounted'
  OBVIOUS
<1>1. CASE Capture
  BY <1>1, ReadPacketBalance, OtherStepBalance
<1>2. CASE ~Capture
  <2>1. UNCHANGED <<put, counts, cpc>> /\ (eventRxOpen' => eventRxOpen)
    BY <1>2 DEF Next, Receive, CloseReceiver, Tick, Signal, Finished, vars,
                captureVars, history
  <2> QED BY <2>1, BalanceUnchanged DEF LossesCounted
<1> QED BY <1>1, <1>2

(* Whatever the capacity of the queue and the pace of the receiver, every  *)
(* packet parsed was put on the queue or counted as a drop, except the one *)
(* whose send found the receiver gone and ended the thread                 *)
(* (capture_loop, runtime.rs:103-112).                                     *)
THEOREM LossesAreCounted == Spec => []NoUncountedLoss
<1>1. Init => LossesCounted
  BY DEF Init, CaptureInit, LossesCounted, NoUncountedLoss
<1>2. LossesCounted => NoUncountedLoss
  BY DEF LossesCounted
<1> QED
  BY <1>1, <1>2, InitInductive, StepInductive, StepBalance, PTL DEF Spec

-----------------------------------------------------------------------------
(* The types of the capture thread.                                        *)

\* What TypeOK says beyond the first invariant.
Bounds ==
  /\ clock <= MaxTime /\ now <= clock
  /\ stop \in BOOLEAN /\ eventRxOpen \in BOOLEAN
  /\ Len(eventQ) <= EventCap
  /\ windows.deadline > 0
  /\ IF cpc \in {"boundary", "send_addresses"} THEN outgoing \in Event \ {NoEvent}
     ELSE outgoing = NoEvent
  /\ refresh \in Nat /\ report \in Nat
  /\ counts \in [{"parsed", "queue_drops"} \cup SkipReason -> Nat]

(* An event is something (runtime.rs:24-29).                               *)
LEMMA EventsAreEvents == NoEvent \notin Event
<1>1. \A e \in Event : e.kind \in {"packet", "addresses", "boundary"}
  BY DEF Event
<1>2. NoEvent.kind = "none"
  BY DEF NoEvent
<1> QED BY <1>1, <1>2

(* A counter goes up by one (Counts, runtime.rs:60-66).                    *)
LEMMA CountedOnce ==
  ASSUME NEW Names, NEW cs \in [Names -> Nat], NEW c \in Names
  PROVE  [cs EXCEPT ![c] = @ + 1] \in [Names -> Nat]
OBVIOUS

(* The steps of capture_loop keep the types: a try_send and a blocking     *)
(* send both respect the capacity of the queue (runtime.rs:76-113).        *)
LEMMA CaptureBounds ==
  ASSUME Inductive, Inductive', Bounds, CaptureStep
  PROVE  Bounds'
<1> USE CaptureAssumption, EventsAreEvents
<1>1. EventCap \in Nat /\ Period \in Nat /\ now \in Nat /\ clock \in Nat
      /\ eventQ \in Seq(Event) /\ cpc \in Stage \cup Returned
  BY DEF Inductive, Typed
<1>2. \A e : Len(eventQ) < EventCap => Len(Append(eventQ, e)) <= EventCap
  BY <1>1
<1>3. CASE StopSeen
  BY <1>3 DEF StopSeen, Bounds
<1>4. CASE BeginIteration
  <2>1. UNCHANGED <<stop, eventQ, eventRxOpen, clock, refresh, report, counts>>
        /\ now' = clock
    BY <1>4 DEF BeginIteration
  <2>2. CASE IsDue(windows, clock)
    <3>1. /\ outgoing' = Boundary(windows.end) /\ cpc' = "boundary"
          /\ windows' = Advanced(windows, clock)
      BY <1>4, <2>2 DEF BeginIteration
    <3>2. clock < windows'.deadline
      BY <2>2, <3>1, AdvancedContainsSample, WindowsAssumption DEF IsDue, Inductive, Typed
    <3>3. outgoing' \in Event
      BY <3>1 DEF Inductive, Typed, WindowsTrackTheClock, Boundary, Event
    <3>4. windows' \in [end : Int, deadline : Int]
      BY DEF Inductive, Typed
    <3> QED BY <1>1, <2>1, <3>1, <3>2, <3>3, <3>4 DEF Bounds
  <2>3. CASE ~IsDue(windows, clock)
    <3>1. cpc' \in {"addresses", "drops", "read"} /\ UNCHANGED <<outgoing, windows>> /\ cpc = "top"
      BY <1>4, <2>3 DEF BeginIteration, StageAfterBoundary, StageAfterRefresh
    <3> QED BY <1>1, <2>1, <3>1 DEF Bounds
  <2> QED BY <2>2, <2>3
<1>5. CASE SendBoundary
  <2>1. /\ outgoing' = NoEvent /\ now' \in {now, 0}
        /\ cpc' \in {"addresses", "drops", "read", "err"}
        /\ eventQ' = eventQ \/ (Len(eventQ) < EventCap /\ eventQ' = Append(eventQ, outgoing))
        /\ UNCHANGED <<clock, stop, eventRxOpen, windows, refresh, report, counts>>
    BY <1>5 DEF SendBoundary, StageAfterBoundary, StageAfterRefresh, Fail, QueueHasRoom
  <2> QED BY <1>1, <1>2, <2>1 DEF Bounds
<1>6. CASE ReadAddresses
  <2>1. /\ cpc = "addresses" /\ now' \in {now, 0}
        /\ UNCHANGED <<clock, stop, eventQ, eventRxOpen, windows, refresh, report, counts>>
        /\ \/ cpc' = "send_addresses" /\ \E local \in LocalSets : outgoing' = Addresses(local)
           \/ cpc' = "err" /\ outgoing' = outgoing
    BY <1>6 DEF ReadAddresses, Fail
  <2>2. \A local \in LocalSets : Addresses(local) \in Event
    BY DEF Addresses, Event
  <2> QED BY <1>1, <2>1, <2>2 DEF Bounds
<1>7. CASE SendAddresses
  <2>1. /\ outgoing' = NoEvent /\ now' \in {now, 0}
        /\ cpc' \in {"drops", "read", "err"}
        /\ eventQ' = eventQ \/ (Len(eventQ) < EventCap /\ eventQ' = Append(eventQ, outgoing))
        /\ refresh' \in {refresh, now + Period}
        /\ UNCHANGED <<clock, stop, eventRxOpen, windows, report, counts>>
    BY <1>7 DEF SendAddresses, StageAfterRefresh, Fail, QueueHasRoom
  <2> QED BY <1>1, <1>2, <2>1 DEF Bounds
<1>8. CASE ReportDrops
  BY <1>1, <1>8 DEF ReportDrops, Fail, Bounds
<1>9. CASE \E p \in Packets : ReadPacket(p)
  <2>1. /\ cpc = "read" /\ now' = 0 /\ cpc' \in {"top", "err"}
        /\ counts' \in {Counted("parsed"), [Counted("parsed") EXCEPT !["queue_drops"] = @ + 1]}
        /\ \/ eventQ' = eventQ
           \/ Len(eventQ) < EventCap /\ \E p \in Packets : eventQ' = Append(eventQ, Packet(p))
        /\ UNCHANGED <<clock, stop, eventRxOpen, windows, outgoing, refresh, report>>
    BY <1>9 DEF ReadPacket, Fail, EndIteration, QueueHasRoom
  <2>2. counts' \in [{"parsed", "queue_drops"} \cup SkipReason -> Nat]
    <3>1. Counted("parsed") \in [{"parsed", "queue_drops"} \cup SkipReason -> Nat]
      BY CountedOnce DEF Counted, Bounds
    <3> QED BY <2>1, <3>1, CountedOnce
  <2>3. Len(eventQ') <= EventCap
    BY <1>2, <2>1 DEF Bounds
  <2> QED BY <1>1, <2>1, <2>2, <2>3 DEF Bounds
<1>10. CASE (\E reason \in SkipReason : ReadSkipped(reason)) \/ ReadIdle \/ ReadFails
  <2>1. /\ cpc = "read" /\ now' = 0 /\ cpc' \in {"top", "err"}
        /\ counts' = counts \/ \E reason \in SkipReason : counts' = Counted(reason)
        /\ UNCHANGED <<clock, stop, eventQ, eventRxOpen, windows, outgoing, refresh, report>>
    BY <1>10 DEF ReadSkipped, ReadIdle, ReadFails, Fail, EndIteration
  <2>2. counts' \in [{"parsed", "queue_drops"} \cup SkipReason -> Nat]
    <3>1. \A reason \in SkipReason :
             Counted(reason) \in [{"parsed", "queue_drops"} \cup SkipReason -> Nat]
      BY CountedOnce DEF Counted, Bounds
    <3> QED BY <2>1, <3>1 DEF Bounds
  <2> QED BY <1>1, <2>1, <2>2 DEF Bounds
<1> QED BY <1>3, <1>4, <1>5, <1>6, <1>7, <1>8, <1>9, <1>10 DEF CaptureStep

(* The types hold, the queue never holds more than its capacity, and the   *)
(* thread holds an event exactly while it waits to send one (the locals of *)
(* capture_loop, runtime.rs:68-124).                                       *)
THEOREM TypeCorrect == Spec => []TypeOK
<1>1. Init => Bounds
  <2> SUFFICES ASSUME Init PROVE Bounds
    OBVIOUS
  <2>1. windows.end - windows.deadline = StartUtc - 0 /\ StartUtc < windows.end
        /\ windows \in [end : Int, deadline : Int]
    BY WindowsAssumption, CaptureAssumption, NewWindowsContainStart DEF Init, CaptureInit
  <2>2. Len(eventQ) = 0 /\ counts \in [{"parsed", "queue_drops"} \cup SkipReason -> Nat]
    BY DEF Init, CaptureInit
  <2>3. windows.deadline > 0
    BY <2>1, CaptureAssumption
  <2>4. clock = 0 /\ now = 0 /\ stop = FALSE /\ eventRxOpen = TRUE /\ cpc = "top"
        /\ outgoing = NoEvent /\ refresh = Period /\ report = Period
    BY DEF Init, CaptureInit
  <2>5. EventCap \in Nat /\ MaxTime \in Nat
    BY CaptureAssumption DEF CaptureAssumption
  <2>6. "top" \notin {"boundary", "send_addresses"}
    OBVIOUS
  <2>7. stop \in BOOLEAN /\ eventRxOpen \in BOOLEAN
    BY <2>4
  <2>10. clock = 0 /\ now = 0
    BY <2>4
  <2>11. clock <= MaxTime /\ now <= clock
    BY <2>5, <2>10
  <2>8. Len(eventQ) <= EventCap /\ refresh \in Nat /\ report \in Nat
    BY <2>2, <2>4, CaptureAssumption DEF CaptureAssumption
  <2>9. IF cpc \in {"boundary", "send_addresses"} THEN outgoing \in Event \ {NoEvent}
        ELSE outgoing = NoEvent
    BY <2>4, <2>6
  <2> QED BY <2>2, <2>3, <2>7, <2>8, <2>9, <2>11 DEF Bounds
<1>2. Inductive /\ Inductive' /\ Bounds /\ [Next]_vars => Bounds'
  <2> SUFFICES ASSUME Inductive, Inductive', Bounds, [Next]_vars PROVE Bounds'
    OBVIOUS
  <2>1. CASE Capture
    BY <2>1, CaptureBounds DEF Capture
  <2>2. CASE Receive
    <3>1. Len(eventQ') <= Len(eventQ) /\ Len(eventQ') \in Nat /\ Len(eventQ) \in Nat
      <4>1. eventQ # <<>> /\ eventQ' = Tail(eventQ) /\ eventQ \in Seq(Event)
        BY <2>2 DEF Receive, Inductive, Typed
      <4> HIDE DEF Event
      <4> QED BY <4>1
    <3> QED BY <2>2, <3>1, CaptureAssumption DEF Receive, Bounds
  <2>3. CASE CloseReceiver
    <3>1. Len(eventQ') = 0
      BY <2>3 DEF CloseReceiver
    <3>2. eventRxOpen' = FALSE
          /\ UNCHANGED <<clock, stop, cpc, now, windows, outgoing, refresh, report, counts>>
      BY <2>3 DEF CloseReceiver
    <3>3. EventCap \in Nat
      BY CaptureAssumption DEF CaptureAssumption
    <3>4. Len(eventQ') <= EventCap
      BY <3>1, <3>3
    <3>5. eventRxOpen' \in BOOLEAN
      BY <3>2
    <3> QED BY <3>2, <3>4, <3>5 DEF Bounds
  <2>4. CASE Tick
    BY <2>4, CaptureAssumption DEF Tick, Bounds, Inductive, Typed
  <2>5. CASE Signal
    BY <2>5 DEF Signal, Bounds
  <2>6. CASE UNCHANGED vars
    BY <2>6 DEF vars, captureVars, Bounds
  <2> QED BY <2>1, <2>2, <2>3, <2>4, <2>5, <2>6 DEF Next, Finished
<1>3. Inductive /\ Bounds => TypeOK
  <2> SUFFICES ASSUME Inductive, Bounds PROVE TypeOK
    OBVIOUS
  <2>1. windows \in [end : Nat, deadline : Nat]
    BY DEF Inductive, Typed, WindowsTrackTheClock, Bounds
  <2>2. \A i \in DOMAIN eventQ : eventQ[i] \in Event
    <3>1. eventQ \in Seq(Event)
      BY DEF Inductive, Typed
    <3> HIDE DEF Event
    <3> QED BY <3>1
  <2> QED BY <2>1, <2>2, EventsAreEvents, CaptureAssumption
          DEF Inductive, Typed, Bounds, TypeOK
<1> QED BY <1>1, <1>2, <1>3, InitInductive, StepInductive, PTL DEF Spec
=============================================================================
