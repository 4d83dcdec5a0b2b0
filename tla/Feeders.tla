------------------------------- MODULE Feeders -------------------------------
(***************************************************************************)
(* A feeder at work: the tailer or the replay, beside the monitor that     *)
(* writes the files and the server that stores what is posted.  The tailer *)
(* is shown to implement Delivery.                                         *)
(***************************************************************************)
EXTENDS Tailer, Replay

VARIABLE tool
vars == <<postingVars, tailVars, replayVars, tool>>

Init ==
  \/ tool = "tail" /\ TailInit /\ stage = "unused" /\ opened = 0 /\ lines = <<>>
  \/ /\ tool = "cat" /\ ReplayInit
     /\ at = 0 /\ read = [f \in Files |-> [line |-> 0, half |-> "no"]]
     /\ start = [f \in Files |-> 0] /\ refusals = 0

Next ==
  \/ PostingStep /\ UNCHANGED <<tailVars, replayVars, tool>>
  \/ tool = "tail" /\ TailStep /\ UNCHANGED <<replayVars, tool>>
  \/ tool = "cat" /\ ReplayStep /\ UNCHANGED <<tailVars, tool>>

\* The server's threads and the tailer's loop run; the time to flush comes
\* again and again while the loop reads and sleeps.
Fairness ==
  /\ \A r \in Requests : WF_vars(Server(r) /\ UNCHANGED <<tailVars, replayVars, tool>>)
  /\ WF_vars(tool = "tail" /\ (TailRead \/ TailPost) /\ UNCHANGED <<replayVars, tool>>)
  /\ SF_vars(tool = "tail" /\ Flush /\ UNCHANGED <<replayVars, tool>>)

Spec == Init /\ [][Next]_vars /\ Fairness

-----------------------------------------------------------------------------
Delivered == INSTANCE Delivery WITH
  written <- [f \in Files |-> file[f].complete + (IF file[f].half = "bare" THEN 1 ELSE 0)],
  log <- [i \in DOMAIN stream |-> StoredLine(i)]

(* What a feeder puts in the stream are lines of its files, each after all *)
(* earlier ones, also while given-up requests, retries and lines read in   *)
(* pieces overlap (tail_jsonl.py:55-85, cat_jsonl.py:42-63).               *)
Delivers == Delivered!Spec

\* Something waits that the server refuses or that was read in pieces.
Damaged == \E piece \in Pieces : piece.part # "whole" \/ piece.line \in BadLines

(* Every line of the files the tailer opened reaches the stream in the     *)
(* end, and posts that fail for a while only delay it, unless a line that  *)
(* the server refuses, or that was read in pieces, waits from some moment  *)
(* on for ever: then every post that has it may fail, and all behind it    *)
(* waits with it (tail_jsonl.py:55-85).                                    *)
LinesArrive ==
  \A f \in Files : \A n \in 1..MaxLines[f] :
    (tool = "tail" /\ n > start[f] /\ n <= file[f].complete)
      ~> (Copies(<<f, n>>) > 0 \/ []Damaged)

(* The lines that are in the files when the tailer starts without          *)
(* --start-at-end are forwarded (map-server/README.md:35).                 *)
ExistingLinesAreForwarded ==
  \A f \in Files : \A n \in 1..MaxLines[f] :
    (tool = "tail" /\ start[f] = 0 /\ n <= file[f].complete) => <>(Copies(<<f, n>>) > 0)
=============================================================================
