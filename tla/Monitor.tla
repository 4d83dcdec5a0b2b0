------------------------------ MODULE Monitor ------------------------------
(***************************************************************************)
(* The three threads of run in src/runtime.rs: the capture thread of       *)
(* CaptureLoop.tla, the main thread, which aggregates, and the writer      *)
(* thread, which appends windows to the two logs of src/output.rs.         *)
(*                                                                         *)
(* They share the bounded event queue, the bounded output queue and the    *)
(* stop flag.  Main ends the run: once the aggregation loop is over it     *)
(* sets stop, drops its ends of both queues and joins the other two.       *)
(***************************************************************************)
EXTENDS CaptureLoop, Flow, Output

CONSTANTS
  OutputCap,       \* aggregation.output_queue_capacity
  WriterFaults     \* which of "lookup", "detail", "ip" may fail

ASSUME MonitorAssumption ==
  /\ OutputCap \in Nat \ {0}
  /\ WriterFaults \subseteq {"lookup", "detail", "ip"}

VARIABLES
  mpc,             \* where the main thread is
  agg,             \* its Aggregator
  batch,           \* the flushed records it is about to submit
  result,          \* what aggregate_loop returned
  exit,            \* how run ended
  outQ,            \* the output queue
  outRxOpen,       \* its receiver exists
  wpc,             \* where the writer thread is
  window,          \* the records it is writing
  detail, ip,      \* the endpoint log and the per-IP log
  trace            \* history: every event put on the event queue, the start
                   \* of the run and the final flush included

mainVars == <<mpc, agg, batch, result, exit>>
writerVars == <<wpc, window, detail, ip, outRxOpen>>
vars == <<captureVars, mainVars, writerVars, outQ, trace>>

Utc(t) == StartUtc + t

Init ==
  /\ CaptureInit
  /\ mpc = "recv"
  /\ \E local \in LocalSets : /\ agg = NewAggregator(local)
                              /\ trace = <<Addresses(local)>>
  /\ batch = <<>>
  /\ result = "none"
  /\ exit = "none"
  /\ outQ = <<>>
  /\ outRxOpen = TRUE
  /\ wpc = "recv"
  /\ window = <<>>
  /\ detail = EmptyFile
  /\ ip = EmptyFile

-----------------------------------------------------------------------------
(* The capture thread, the signal handler and time.                        *)

Capture ==
  /\ CaptureStep
  /\ trace' = IF Len(eventQ') > Len(eventQ)
              THEN Append(trace, Last(eventQ')) ELSE trace
  /\ UNCHANGED <<mainVars, writerVars, outQ>>

Environment ==
  /\ Tick \/ Signal
  /\ UNCHANGED <<mainVars, writerVars, outQ, trace>>

-----------------------------------------------------------------------------
(* The main thread.                                                        *)

\* Nothing of the main thread's business.
OthersIdle == UNCHANGED <<clock, cpc, now, windows, outgoing, refresh, report,
                          counts, writerVars>>

Receive ==
  /\ mpc = "recv"
  /\ eventQ # <<>>
  /\ eventQ' = Tail(eventQ)
  /\ LET event == Head(eventQ) IN
     \/ /\ event.kind = "packet"
        /\ agg' = Observe(agg, event.packet)
        /\ UNCHANGED <<mpc, batch>>
     \/ /\ event.kind = "addresses"
        /\ agg' = ReplaceLocal(agg, event.local)
        /\ UNCHANGED <<mpc, batch>>
     \/ /\ event.kind = "boundary"
        /\ batch' = FlushRecords(agg, event.end)
        /\ agg' = Flushed(agg)
        /\ mpc' = "submit"
  /\ UNCHANGED <<stop, eventRxOpen, result, exit, outQ, trace>>
  /\ OthersIdle

\* submit(): the main thread never waits for the writer here.
Submit ==
  /\ mpc = "submit"
  /\ batch' = <<>>
  /\ \/ /\ batch = <<>>
        /\ mpc' = "recv"
        /\ UNCHANGED <<outQ, result>>
     \/ /\ batch # <<>>
        /\ outRxOpen
        /\ Len(outQ) < OutputCap
        /\ outQ' = Append(outQ, batch)
        /\ mpc' = "recv"
        /\ UNCHANGED result
     \/ /\ batch # <<>>
        /\ ~outRxOpen \/ Len(outQ) >= OutputCap
        /\ result' = "err"
        /\ mpc' = "stop"
        /\ UNCHANGED outQ
  /\ UNCHANGED <<stop, eventQ, eventRxOpen, agg, exit, trace>>
  /\ OthersIdle

\* The capture thread is gone and the queue drained: the last, partial window.
FlushFinal ==
  /\ mpc = "recv"
  /\ eventQ = <<>>
  /\ CaptureReturned
  /\ batch' = FlushRecords(agg, Utc(clock))
  /\ agg' = Flushed(agg)
  /\ trace' = Append(trace, Boundary(Utc(clock)))
  /\ IF batch' = <<>>
     THEN mpc' = "stop" /\ result' = "ok"
     ELSE mpc' = "send_final" /\ UNCHANGED result
  /\ UNCHANGED <<stop, eventQ, eventRxOpen, exit, outQ>>
  /\ OthersIdle

\* Mutated: the final window is submitted like any other, errors ignored.
SendFinalOrDrop ==
  /\ mpc = "send_final"
  /\ batch' = <<>>
  /\ mpc' = "stop"
  /\ result' = "ok"
  /\ outQ' = IF Len(outQ) < OutputCap THEN Append(outQ, batch) ELSE outQ
  /\ UNCHANGED <<stop, eventQ, eventRxOpen, agg, exit, trace>>
  /\ OthersIdle

\* The final send may wait for the writer.
SendFinal ==
  /\ mpc = "send_final"
  /\ batch' = <<>>
  /\ mpc' = "stop"
  /\ \/ /\ outRxOpen
        /\ Len(outQ) < OutputCap
        /\ outQ' = Append(outQ, batch)
        /\ result' = "ok"
     \/ /\ ~outRxOpen
        /\ result' = "err"
        /\ UNCHANGED outQ
  /\ UNCHANGED <<stop, eventQ, eventRxOpen, agg, exit, trace>>
  /\ OthersIdle

SetStop ==
  /\ mpc = "stop"
  /\ stop' = TRUE
  /\ mpc' = "drop_rx"
  /\ UNCHANGED <<eventQ, eventRxOpen, agg, batch, result, exit, outQ, trace>>
  /\ OthersIdle

\* Mutated: the receiver of the event queue lives until run returns.
KeepEventRx ==
  /\ mpc = "drop_rx"
  /\ mpc' = "drop_tx"
  /\ UNCHANGED <<stop, eventQ, eventRxOpen, agg, batch, result, exit, outQ, trace>>
  /\ OthersIdle

DropEventRx ==
  /\ mpc = "drop_rx"
  /\ eventRxOpen' = FALSE
  /\ eventQ' = <<>>
  /\ mpc' = "drop_tx"
  /\ UNCHANGED <<stop, agg, batch, result, exit, outQ, trace>>
  /\ OthersIdle

\* From here on the writer finds its queue disconnected once it is empty.
DropOutputTx ==
  /\ mpc = "drop_tx"
  /\ mpc' = "join_capture"
  /\ UNCHANGED <<stop, eventQ, eventRxOpen, agg, batch, result, exit, outQ, trace>>
  /\ OthersIdle

OutputTxOpen == mpc \notin {"join_capture", "join_writer", "exited"}

JoinCapture ==
  /\ mpc = "join_capture"
  /\ CaptureReturned
  /\ mpc' = "join_writer"
  /\ UNCHANGED <<stop, eventQ, eventRxOpen, agg, batch, result, exit, outQ, trace>>
  /\ OthersIdle

\* The first error in this order is the one run returns.
Verdict ==
  IF wpc = "err" THEN "output"
  ELSE IF result = "err" THEN "aggregation"
  ELSE IF cpc = "err" THEN "capture"
  ELSE "ok"

JoinWriter ==
  /\ mpc = "join_writer"
  /\ wpc \in Returned
  /\ exit' = Verdict
  /\ mpc' = "exited"
  /\ UNCHANGED <<stop, eventQ, eventRxOpen, agg, batch, result, outQ, trace>>
  /\ OthersIdle

Main ==
  \/ Receive \/ Submit \/ FlushFinal \/ SendFinal
  \/ SetStop \/ DropEventRx \/ DropOutputTx \/ JoinCapture \/ JoinWriter

-----------------------------------------------------------------------------
(* The writer thread.                                                      *)

WriterOnly == UNCHANGED <<clock, eventQ, eventRxOpen, cpc, now, windows, outgoing,
                          refresh, report, counts, mainVars, trace>>

TakeWindow ==
  /\ wpc = "recv"
  /\ outQ # <<>>
  /\ window' = Head(outQ)
  /\ outQ' = Tail(outQ)
  /\ wpc' = "lookup"
  /\ UNCHANGED <<stop, detail, ip, outRxOpen>>
  /\ WriterOnly

\* Enrichment and reputation of every address, before anything is written.
LookUp ==
  /\ wpc = "lookup"
  /\ \/ wpc' = "detail"
     \/ "lookup" \in WriterFaults /\ wpc' = "failed"
  /\ UNCHANGED <<stop, window, detail, ip, outRxOpen, outQ>>
  /\ WriterOnly

AppendDetail ==
  /\ wpc = "detail"
  /\ \/ /\ detail' = Appended(detail, window)
        /\ wpc' = "ip"
     \/ /\ "detail" \in WriterFaults
        /\ detail' \in PartlyAppended(detail, window)
        /\ wpc' = "failed"
  /\ UNCHANGED <<stop, window, ip, outRxOpen, outQ>>
  /\ WriterOnly

AppendIp ==
  /\ wpc = "ip"
  /\ \/ /\ ip' = Appended(ip, AggregateByIp(window))
        /\ wpc' = "recv"
        /\ window' = <<>>
     \/ /\ "ip" \in WriterFaults
        /\ ip' \in PartlyAppended(ip, AggregateByIp(window))
        /\ wpc' = "failed"
        /\ UNCHANGED window
  /\ UNCHANGED <<stop, detail, outRxOpen, outQ>>
  /\ WriterOnly

\* Mutated: the writer reports its error without stopping the others.
WriterFailedSilently ==
  /\ wpc = "failed"
  /\ wpc' = "returning"
  /\ UNCHANGED <<stop, window, detail, ip, outRxOpen, outQ>>
  /\ WriterOnly

\* Mutated: the writer goes on with the next window.
WriterGoesOn ==
  /\ wpc = "failed"
  /\ wpc' = "recv"
  /\ window' = <<>>
  /\ UNCHANGED <<stop, detail, ip, outRxOpen, outQ>>
  /\ WriterOnly

WriterFailed ==
  /\ wpc = "failed"
  /\ stop' = TRUE
  /\ wpc' = "returning"
  /\ UNCHANGED <<window, detail, ip, outRxOpen, outQ>>
  /\ WriterOnly

\* The receiver goes with the closure, and what it had not taken yet.
WriterReturns ==
  /\ \/ wpc = "returning" /\ wpc' = "err"
     \/ wpc = "recv" /\ outQ = <<>> /\ ~OutputTxOpen /\ wpc' = "ok"
  /\ outRxOpen' = FALSE
  /\ outQ' = <<>>
  /\ window' = <<>>
  /\ UNCHANGED <<stop, detail, ip>>
  /\ WriterOnly

Writer ==
  \/ TakeWindow \/ LookUp \/ AppendDetail \/ AppendIp
  \/ WriterFailed \/ WriterReturns

-----------------------------------------------------------------------------
Exited == mpc = "exited" /\ UNCHANGED vars

Next == Capture \/ Main \/ Writer \/ Environment \/ Exited

Fairness == WF_vars(Capture) /\ WF_vars(Main) /\ WF_vars(Writer)

Spec == Init /\ [][Next]_vars /\ Fairness

-----------------------------------------------------------------------------
(* The run as one sequential program over the events of `trace`: the       *)
(* windows with records, in order.  No queue, no threads, no failures.     *)

Account(run, event) ==
  CASE event.kind = "packet" -> [run EXCEPT !.agg = Observe(@, event.packet)]
    [] event.kind = "addresses" -> [run EXCEPT !.agg = ReplaceLocal(@, event.local)]
    [] event.kind = "boundary" ->
         [agg     |-> Flushed(run.agg),
          windows |-> IF FlushRecords(run.agg, event.end) = <<>> THEN run.windows
                      ELSE Append(run.windows, FlushRecords(run.agg, event.end))]

AfterEvents(events) ==
  LET run[n \in 0 .. Len(events)] ==
        IF n = 0 THEN [agg |-> NewAggregator({}), windows |-> <<>>]
        ELSE Account(run[n - 1], events[n])
  IN  run[Len(events)]

Sequential == AfterEvents(trace).windows

\* The two logs of a sequence of windows.
DetailOf(ws) == LinesOf(FlattenSeq(ws))
IpOf(ws) == LinesOf(FlattenSeq([i \in DOMAIN ws |-> AggregateByIp(ws[i])]))

LogsHold(ws) ==
  /\ detail = [lines |-> DetailOf(ws), torn |-> FALSE]
  /\ ip = [lines |-> IpOf(ws), torn |-> FALSE]

(* At every moment the logs are those of the first n windows of the        *)
(* sequential run, and at most the next window is partly there, first in   *)
(* the endpoint log and then, only once it is whole there, in the per-IP   *)
(* log: no window is lost, reordered, duplicated, or mixed with another    *)
(* one, whatever the threads, the queues and the failures do               *)
(* (runtime.rs:134-176 and 199-213, output.rs:55-131).                     *)
LogsFollowTheTraffic ==
  LET all == Sequential IN
  \E n \in 0 .. Len(all) :
    LET done == SubSeq(all, 1, n) IN
    \/ LogsHold(done)
    \/ /\ n < Len(all)
       /\ ip = [lines |-> IpOf(done), torn |-> FALSE]
       /\ IsPrefix(DetailOf(done), detail.lines)
       /\ IsPrefix(detail.lines, DetailOf(Append(done, all[n + 1])))
    \/ /\ n < Len(all)
       /\ detail = [lines |-> DetailOf(Append(done, all[n + 1])), torn |-> FALSE]
       /\ IsPrefix(IpOf(done), ip.lines)
       /\ IsPrefix(ip.lines, IpOf(Append(done, all[n + 1])))

PacketsPut == Cardinality({i \in DOMAIN trace : trace[i].kind = "packet"})

(* What run returns is what the logs hold.  Without an error of output or  *)
(* aggregation every event ever queued is accounted in both logs, the      *)
(* final partial window included; with an aggregation error the logs end   *)
(* with a whole window, and at least one window is missing; the logs are   *)
(* cut within a window only if run returns the output error that says so   *)
(* (runtime.rs:225).  A packet that was parsed and is not in the logs is   *)
(* counted as a queue drop, unless an error is returned.                   *)
ExitTellsTheTruth ==
  mpc = "exited" =>
    /\ exit \in {"ok", "capture"} => LogsHold(Sequential)
    /\ exit = "aggregation" =>
         \E n \in 0 .. Len(Sequential) - 1 : LogsHold(SubSeq(Sequential, 1, n))
    /\ exit = "ok" => counts["parsed"] = PacketsPut + counts["queue_drops"]

(* A stop request ends the process, whatever the threads are doing or      *)
(* waiting for, and whether or not they fail on the way.                   *)
StopEndsTheRun == stop ~> mpc = "exited"

(* A worker that fails takes the process down: the others do not go on     *)
(* capturing or writing without it (runtime.rs:208 and 215-218).           *)
WorkerFailureEndsTheRun ==
  (wpc = "failed" \/ cpc = "err" \/ result = "err") ~> mpc = "exited"
=============================================================================
