------------------------------ MODULE Windows ------------------------------
(***************************************************************************)
(* The Windows struct of src/runtime.rs: accounting windows are aligned to *)
(* UTC when monitoring starts and then advanced by the monotonic clock.    *)
(*                                                                         *)
(* All instants are in ticks, Second ticks to a second, so that instants   *)
(* within a second (which as_secs truncates) exist.                        *)
(***************************************************************************)
EXTENDS Integers

CONSTANTS
  Second,          \* ticks of a second
  Interval         \* aggregation.interval_seconds

ASSUME WindowsAssumption ==
  /\ Second \in Nat \ {0}
  /\ Interval \in 1..3600

IntervalTicks == Interval * Second

\* The first window ends at the next multiple of the interval.
NewWindows(utc, mono) ==
  LET end == ((utc \div Second) \div Interval + 1) * Interval * Second
  IN  [end |-> end, deadline |-> mono + (end - utc)]

IsDue(w, now) == now >= w.deadline

\* Mutated: the next window is counted from the sample.
AdvancedFromNow(w, now) ==
  [end |-> w.end + (now - w.deadline) + IntervalTicks,
   deadline |-> now + IntervalTicks]

\* due() returns the old end; elapsed windows without it are skipped.
Advanced(w, now) ==
  LET steps == ((now - w.deadline) \div Second) \div Interval + 1
      advance == (Interval * steps) * Second
  IN  [end |-> w.end + advance, deadline |-> w.deadline + advance]
=============================================================================
