------------------------------- MODULE Replay --------------------------------
(***************************************************************************)
(* The one-shot replay, map-server/cat_jsonl.py:28-65: it reads its files  *)
(* to their ends, one after the other, posts chunk after chunk, and gives  *)
(* up at the first post that fails.                                        *)
(***************************************************************************)
EXTENDS Posting

CONSTANT ChunkLines    \* --chunk-lines

ASSUME ReplayAssumption == ChunkLines \in Nat \ {0}

VARIABLES
  stage,     \* "reading" the files, "posting" them, then how it ended
  opened,    \* files read so far
  lines      \* history: everything it read

replayVars == <<stage, opened, lines>>

ReplayInit ==
  /\ PostingInit
  /\ stage = "reading"
  /\ opened = 0
  /\ lines = <<>>

Contents(f) ==
  [n \in 1..file[f].complete |-> [line |-> <<f, n>>, part |-> "whole"]]
    \o IF file[f].half = "no" THEN <<>>
       ELSE <<[line |-> <<f, file[f].complete + 1>>, part |-> file[f].half]>>

ReadFile ==
  /\ stage = "reading"
  /\ opened' = opened + 1
  /\ lines' = lines \o Contents(opened')
  /\ pending' = lines'
  /\ stage' = IF opened' = Cardinality(Files) THEN "posting" ELSE "reading"
  /\ UNCHANGED <<ingestVars, file, chunk, post, text, faults>>

PostChunk ==
  /\ stage = "posting" /\ post = None /\ pending # <<>>
  /\ Send(IF ChunkLines < Len(pending) THEN ChunkLines ELSE Len(pending))
  /\ UNCHANGED replayVars

ChunkSent ==
  /\ Heard(202)
  /\ chunk' = <<>> /\ post' = None
  /\ UNCHANGED <<file, pending, replayVars>>

\* Mutated: the replay goes on with the next chunk.
ChunkSkipped ==
  /\ Refused \/ GivenUp
  /\ chunk' = <<>> /\ post' = None
  /\ UNCHANGED <<file, pending, replayVars>>

ChunkFailed ==
  /\ Refused \/ GivenUp
  /\ stage' = "failed"
  /\ chunk' = <<>> /\ post' = None
  /\ UNCHANGED <<file, pending, opened, lines>>

Complete ==
  /\ stage = "posting" /\ post = None /\ pending = <<>>
  /\ stage' = "complete"
  /\ UNCHANGED <<postingVars, opened, lines>>

ReplayStep == ReadFile \/ PostChunk \/ ChunkSent \/ ChunkFailed \/ Complete

-----------------------------------------------------------------------------
(* At every moment the stream holds a beginning of what the replay read,   *)
(* each line once and in order, also after a post was given up and is      *)
(* still at work in the server; "complete" is said only when all of it is  *)
(* there (cat_jsonl.py:41-65).                                             *)
ReplayedInOrder ==
  stage \in {"posting", "failed", "complete"} =>
    /\ Len(stream) <= Len(lines)
    /\ \A i \in DOMAIN stream : StoredLine(i) = lines[i].line
    /\ stage = "complete" => Len(stream) = Len(lines)
=============================================================================
