------------------------------ MODULE Delivery -------------------------------
(***************************************************************************)
(* What a feeder promises about the lines of its files: each is delivered  *)
(* at least once if it is delivered at all, a line only after all earlier  *)
(* ones of its file, and none before it was written.  A line that was      *)
(* delivered may be delivered again at any time.                           *)
(***************************************************************************)
EXTENDS Integers, Sequences, SequencesExt

CONSTANT Files

VARIABLES
  start,      \* per file, the lines that are not the feeder's business
  written,    \* per file, the lines a reader can have seen
  log         \* deliveries <<file, number>> in their order

vars == <<start, written, log>>

Init ==
  /\ start \in [Files -> Nat]
  /\ written \in [Files -> Nat]
  /\ log = <<>>

Write ==
  /\ written' \in [Files -> Nat]
  /\ \A f \in Files : written'[f] >= written[f]
  /\ UNCHANGED <<start, log>>

Delivered(f, n) == \E i \in DOMAIN log : log[i] = <<f, n>>

Deliver(f, n) ==
  /\ n > start[f] /\ n <= written[f]
  /\ \A m \in start[f] + 1 .. n - 1 : Delivered(f, m)
  /\ log' = Append(log, <<f, n>>)
  /\ UNCHANGED <<start, written>>

Next == Write \/ \E f \in Files : \E n \in 1..written[f] : Deliver(f, n)

Spec == Init /\ [][Next]_vars
=============================================================================
