------------------------------- MODULE Tailer --------------------------------
(***************************************************************************)
(* The JSONL follower, map-server/tail_jsonl.py:28-90: one thread that     *)
(* reads what its files have to give, and every chunk_seconds posts a      *)
(* share of what it read, which it takes back when the post fails.         *)
(***************************************************************************)
EXTENDS Posting

CONSTANTS
  Slots,         \* max(1, int(window_seconds / chunk_seconds))
  MaxRefusals    \* bound: 400s the tailer gets

ASSUME TailerAssumption == Slots \in Nat \ {0} /\ MaxRefusals \in Nat

VARIABLES
  at,         \* the file whose turn it is; after the last one the timer's
  read,       \* per file, the lines read and the half read after them
  start,      \* history: per file, the lines skipped by --start-at-end
  refusals    \* history: 400s so far

tailVars == <<at, read, start, refusals>>

\* handle.seek(0, 2) may land inside a line.
TailInit ==
  /\ PostingInit
  /\ at = 1
  /\ refusals = 0
  /\ \/ /\ read = [f \in Files |-> [line |-> 0, half |-> "no"]]
        /\ start = [f \in Files |-> 0]
     \/ /\ read = [f \in Files |-> [line |-> file[f].complete, half |-> file[f].half]]
        /\ start = [f \in Files |->
             file[f].complete + (IF file[f].half = "no" THEN 0 ELSE 1)]

Timer == Cardinality(Files) + 1
More(f) ==
  \/ read[f].line < file[f].complete
  \/ read[f].half = "no" /\ file[f].half # "no"

\* What readline() returns: the rest of the line, or what there is of it.
NextPart(f) ==
  IF read[f].line = file[f].complete THEN file[f].half
  ELSE CASE read[f].half = "no"   -> "whole"
         [] read[f].half = "head" -> "tail"
         [] read[f].half = "bare" -> "blank"

ReadLine ==
  /\ at \in Files /\ More(at)
  /\ LET part == NextPart(at)
     IN  /\ read' = [read EXCEPT ![at] =
              IF part \in {"head", "bare"} THEN [line |-> @.line, half |-> part]
                                           ELSE [line |-> @.line + 1, half |-> "no"]]
         /\ pending' = IF part = "blank" THEN pending
                       ELSE Append(pending, [line |-> <<at, read[at].line + 1>>, part |-> part])
  /\ UNCHANGED <<ingestVars, file, chunk, post, text, faults, at, start, refusals>>

NextFile ==
  /\ at \in Files /\ ~More(at)
  /\ at' = at + 1
  /\ UNCHANGED <<postingVars, read, start, refusals>>

\* Nothing to send yet, or not the time: read again.
Sleep ==
  /\ at = Timer /\ post = None
  /\ at' = 1
  /\ UNCHANGED <<postingVars, read, start, refusals>>

\* Mutated: rounded down, to nothing when less than a slot's share is pending.
ChunkSizeDown == Len(pending) \div Slots

\* Rounded up, so that it is never 0.
ChunkSize == (Len(pending) + Slots - 1) \div Slots

Flush ==
  /\ at = Timer /\ post = None /\ pending # <<>>
  /\ refusals < MaxRefusals
  /\ Send(ChunkSize)
  /\ UNCHANGED tailVars

\* Mutated: what was sent is posted once more.
SentKept ==
  /\ Heard(202)
  /\ pending' = chunk \o pending
  /\ chunk' = <<>> /\ post' = None /\ at' = 1
  /\ UNCHANGED <<file, read, start, refusals>>

Sent ==
  /\ Heard(202)
  /\ chunk' = <<>> /\ post' = None /\ at' = 1
  /\ UNCHANGED <<file, pending, read, start, refusals>>

\* Mutated: the chunk is put behind what is pending.
SendFailedToTheBack ==
  /\ Refused \/ GivenUp
  /\ pending' = pending \o chunk
  /\ chunk' = <<>> /\ post' = None /\ at' = 1
  /\ refusals' = refusals + (IF request[post].answer = 400 THEN 1 ELSE 0)
  /\ UNCHANGED <<file, read, start>>

\* Mutated: the chunk that failed is not put back.
SendFailedForGood ==
  /\ Refused \/ GivenUp
  /\ UNCHANGED pending
  /\ chunk' = <<>> /\ post' = None /\ at' = 1
  /\ refusals' = refusals + (IF request[post].answer = 400 THEN 1 ELSE 0)
  /\ UNCHANGED <<file, read, start>>

SendFailed ==
  /\ Refused \/ GivenUp
  /\ pending' = chunk \o pending
  /\ chunk' = <<>> /\ post' = None /\ at' = 1
  /\ refusals' = refusals + (IF request[post].answer = 400 THEN 1 ELSE 0)
  /\ UNCHANGED <<file, read, start>>

TailRead == ReadLine \/ NextFile \/ Sleep
TailPost == Sent \/ SendFailed
TailStep == TailRead \/ Flush \/ TailPost

-----------------------------------------------------------------------------
Pieces == Range(chunk) \cup Range(pending)
Taken(f, n) ==
  /\ n > start[f]
  /\ n <= read[f].line \/ (n = read[f].line + 1 /\ read[f].half # "no")

(* Nothing that was read is forgotten: a line is in the stream or a piece  *)
(* of it is still to be posted, whichever posts failed, timed out or were  *)
(* cut on the way (tail_jsonl.py:58-81).                                   *)
ReadLinesAreKept ==
  \A f \in Files : \A n \in 1..MaxLines[f] :
    Taken(f, n) => Copies(<<f, n>>) > 0 \/ \E piece \in Pieces : piece.line = <<f, n>>

(* A line is in the stream once, and once more only for each post that     *)
(* failed: a success is never posted again (tail_jsonl.py:72-82).          *)
CopiesAreRetries ==
  \A f \in Files : \A n \in 1..MaxLines[f] : Copies(<<f, n>>) <= 1 + faults + refusals
=============================================================================
