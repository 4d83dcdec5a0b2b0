------------------------------- MODULE Ingest --------------------------------
(***************************************************************************)
(* The storing half of POST /api/events, map-server/AttackMapServer.py:    *)
(* 150-181.  ThreadingHTTPServer gives each request a thread of its own,   *)
(* so that the lines of concurrent requests interleave in the stream and a *)
(* request goes on after its client gave up on it.  MapServer continues a  *)
(* request with its publication, Feeders drives requests from the tools.   *)
(*                                                                         *)
(* A body is the sequence of its nonblank lines.  The stream is every XADD *)
(* in order: that Redis drops the oldest entries is left out, because the  *)
(* readers take the newest ones anyway.                                    *)
(***************************************************************************)
EXTENDS Integers, Sequences, SequencesExt, FiniteSets

CONSTANTS
  Requests,     \* the POST requests, each of which is made once
  Objects       \* the lines that are JSON objects

VARIABLES
  stream,       \* entries [from |-> request, line |-> line], oldest first
  request       \* per request: its step, lines to go, lines accepted, answer

ingestVars == <<stream, request>>

Step == {"none", "adding", "copying", "sending", "answered"}
Answers == {0, 202, 400, 413, 503}
NotMade == [step |-> "none", body |-> <<>>, accepted |-> 0, answer |-> 0]

IngestInit ==
  /\ stream = <<>>
  /\ request = [r \in Requests |-> NotMade]

Move(r, step) == request' = [request EXCEPT ![r].step = step]
Answer(r, code) ==
  request' = [request EXCEPT ![r].step = "answered", ![r].answer = code]

NextLine(r) == request[r].body[request[r].accepted + 1]
Unread(r) == request[r].step = "adding" /\ request[r].accepted < Len(request[r].body)
AllRead(r) == request[r].step = "adding" /\ request[r].accepted = Len(request[r].body)

\* An empty or oversized body is refused before it is read.
RefuseLength(r) ==
  /\ request[r].step = "none"
  /\ Answer(r, 413)
  /\ UNCHANGED stream

\* A Content-Length that is no number, a body that is no UTF-8: none of its
\* lines is looked at.
RefuseBody(r) ==
  /\ request[r].step = "none"
  /\ Answer(r, 400)
  /\ UNCHANGED stream

Arrive(r, body) ==
  /\ request[r].step = "none"
  /\ request' = [request EXCEPT ![r].step = "adding", ![r].body = body]
  /\ UNCHANGED stream

\* Mutated: a line is counted before its XADD is known to have worked.
CountLine(r) ==
  /\ Unread(r) /\ NextLine(r) \in Objects
  /\ stream' \in {stream, Append(stream, [from |-> r, line |-> NextLine(r)])}
  /\ request' = [request EXCEPT ![r].accepted = @ + 1]

AddLine(r) ==
  /\ Unread(r) /\ NextLine(r) \in Objects
  /\ stream' = Append(stream, [from |-> r, line |-> NextLine(r)])
  /\ request' = [request EXCEPT ![r].accepted = @ + 1]

\* json.loads fails or gives no dict: the lines before it stay in the stream.
RefuseLine(r) ==
  /\ Unread(r) /\ NextLine(r) \notin Objects
  /\ Answer(r, 400)
  /\ UNCHANGED stream

\* XADD raises: Redis is away, or the entry was added and its reply was lost.
AddFails(r) ==
  /\ Unread(r) /\ NextLine(r) \in Objects
  /\ \/ UNCHANGED stream
     \/ stream' = Append(stream, [from |-> r, line |-> NextLine(r)])
  /\ Answer(r, 503)

\* A body of blank lines has nothing to publish.
AnswerNothing(r) ==
  /\ AllRead(r) /\ request[r].accepted = 0
  /\ Answer(r, 202)
  /\ UNCHANGED stream

=============================================================================
