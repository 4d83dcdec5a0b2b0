------------------------------ MODULE Posting --------------------------------
(***************************************************************************)
(* What the two JSONL feeders share, map-server/tail_jsonl.py and          *)
(* map-server/cat_jsonl.py: the files they read while the monitor may be   *)
(* writing them, the text they post, and post() itself, whose request may  *)
(* go on in the server (Ingest) after the client gave up on it.            *)
(*                                                                         *)
(* A line is its file and number.  readline() returns it whole, or in two  *)
(* pieces when it meets a line half written: a head and a tail, or, when   *)
(* only the newline is missing, the bare record and a blank rest.          *)
(***************************************************************************)
EXTENDS Ingest

CONSTANTS
  Files,        \* 1..n, in the order of --file
  MaxLines,     \* bound: per file, lines the monitor writes
  Cuts,         \* bound: lines it may be met writing, and how far it is
  BadLines,     \* lines <<file, number>> json.loads refuses
  MaxBody,      \* max_body_bytes of the server, in pieces
  MaxFaults     \* bound: posts that time out or meet a failing server

None == "none"
FileLines == UNION {{f} \X (1..MaxLines[f]) : f \in Files}

ASSUME PostingAssumption ==
  /\ IsFiniteSet(Files) /\ Files # {} /\ Files = 1..Cardinality(Files)
  /\ None \notin Requests
  /\ MaxLines \in [Files -> Nat] /\ MaxFaults \in Nat /\ MaxBody \in Nat \ {0}
  /\ Cuts \subseteq FileLines \X {"head", "bare"} /\ BadLines \subseteq FileLines

Part == {"whole", "head", "bare", "tail"}
Piece == [line : FileLines, part : Part]

\* A line of a body is an object if it is one good record, whole or put
\* together again.
Records ==
  {<<piece>> : piece \in [line : FileLines \ BadLines, part : {"whole", "bare"}]}
    \cup {<<[line |-> l, part |-> "head"], [line |-> l, part |-> "tail"]>> :
            l \in FileLines \ BadLines}

ASSUME RecordsAssumption == Objects = Records

VARIABLES
  file,       \* per file, its complete lines and the half line after them
  pending,    \* pieces read and to be posted, in the order read
  chunk,      \* pieces of the post under way
  post,       \* its request, or None
  text,       \* per request, what its client sent and the server did not read
  faults      \* history: failures other than refusals

postingVars == <<ingestVars, file, pending, chunk, post, text, faults>>

MayCut(f) == <<<<f, file[f].complete + 1>>, file[f].half>> \in Cuts

PostingInit ==
  /\ IngestInit
  /\ file \in [Files -> [complete : 0..1, half : {"no", "head", "bare"}]]
  /\ \A f \in Files : file[f].complete <= MaxLines[f] /\ (file[f].half = "no" \/ MayCut(f))
  /\ pending = <<>>
  /\ chunk = <<>>
  /\ post = None
  /\ text = [r \in Requests |-> <<>>]
  /\ faults = 0

-----------------------------------------------------------------------------
(* The monitor's writer: a buffer that is flushed at its limit may end     *)
(* inside a line.                                                          *)
Write(f) ==
  /\ file[f].complete < MaxLines[f]
  /\ \/ file' = [file EXCEPT ![f] = [complete |-> @.complete + 1, half |-> "no"]]
     \/ /\ file[f].half = "no"
        /\ \E half \in {"head", "bare"} : file' = [file EXCEPT ![f].half = half]
        /\ MayCut(f)'
  /\ UNCHANGED <<ingestVars, pending, chunk, post, text, faults>>

-----------------------------------------------------------------------------
(* The body is the pieces one after the other, which the server cuts at    *)
(* the newlines: a piece without one is joined to the piece after it.      *)
EndsLine(piece) == piece.part \in {"whole", "tail"}
Boundaries(pieces) ==
  {0} \cup {i \in DOMAIN pieces : EndsLine(pieces[i]) \/ i = Len(pieces)}
Boundary(pieces, k) ==
  CHOOSE i \in Boundaries(pieces) : Cardinality({j \in Boundaries(pieces) : j < i}) = k
Split(pieces) ==
  [k \in 1..Cardinality(Boundaries(pieces)) - 1 |->
    SubSeq(pieces, Boundary(pieces, k - 1) + 1, Boundary(pieces, k))]

-----------------------------------------------------------------------------
(* post(): the first n pending pieces as one request.                      *)
Send(n) ==
  \E r \in Requests :
    /\ request[r].step = "none" /\ text[r] = <<>>
    /\ post' = r
    /\ chunk' = SubSeq(pending, 1, n)
    /\ pending' = SubSeq(pending, n + 1, Len(pending))
    /\ text' = [text EXCEPT ![r] = chunk']
    /\ UNCHANGED <<ingestVars, file, faults>>

Reach(r) ==
  /\ text[r] # <<>>
  /\ IF Len(text[r]) > MaxBody THEN RefuseLength(r) ELSE Arrive(r, Split(text[r]))
  /\ text' = [text EXCEPT ![r] = <<>>]
  /\ UNCHANGED <<file, pending, chunk, post, faults>>

\* What a client that gave up had sent is read whole (Reach), in part, the
\* last line cut, or not at all.
ReachInPart(r) ==
  /\ text[r] # <<>> /\ post # r
  /\ \/ UNCHANGED ingestVars
     \/ \E k \in 0..Len(Split(text[r])) - 1 :
          Arrive(r, Append(SubSeq(Split(text[r]), 1, k), <<>>))
  /\ text' = [text EXCEPT ![r] = <<>>]
  /\ UNCHANGED <<file, pending, chunk, post, faults>>

Serve(r) ==
  /\ \/ AddLine(r) \/ RefuseLine(r)
     \/ AllRead(r) /\ Answer(r, 202) /\ UNCHANGED stream
  /\ UNCHANGED <<file, pending, chunk, post, text, faults>>

\* Redis fails, or the publication after the last line does.
ServeFails(r) ==
  /\ faults < MaxFaults
  /\ AddFails(r) \/ (AllRead(r) /\ Answer(r, 503) /\ UNCHANGED stream)
  /\ faults' = faults + 1
  /\ UNCHANGED <<file, pending, chunk, post, text>>

\* The thread of a request whose client is gone ends unheard.
Unheard(r) ==
  /\ request[r].step = "answered" /\ post # r
  /\ request' = [request EXCEPT ![r] = NotMade]
  /\ UNCHANGED <<stream, file, pending, chunk, post, text, faults>>

\* urlopen() returns with a 202, or raises: on any other answer, and on a
\* refused connection, a timeout or a reset at any moment before the answer.
Heard(code) ==
  /\ post # None /\ request[post].answer = code
  /\ request' = [request EXCEPT ![post] = NotMade]
  /\ UNCHANGED <<stream, text, faults>>
Refused == \E code \in {400, 413, 503} : Heard(code)
GivenUp ==
  /\ post # None /\ request[post].step # "answered" /\ faults < MaxFaults
  /\ faults' = faults + 1
  /\ UNCHANGED <<ingestVars, text>>

Server(r) == Reach(r) \/ Serve(r) \/ Unheard(r)
PostingStep ==
  \/ \E f \in Files : Write(f)
  \/ \E r \in Requests : Server(r) \/ ReachInPart(r) \/ ServeFails(r)

-----------------------------------------------------------------------------
StoredLine(i) == stream[i].line[1].line
Copies(l) == Cardinality({i \in DOMAIN stream : StoredLine(i) = l})
=============================================================================
