----------------------------- MODULE MapServer -------------------------------
(***************************************************************************)
(* The map server, map-server/AttackMapServer.py: the request threads that *)
(* store events (Ingest) and then publish a snapshot of the stream to the  *)
(* pages, the broadcaster's set of clients with one handler thread per     *)
(* WebSocket connection, and the page's two sources, GET /api/activity and *)
(* the socket, whose messages replace what it shows.                       *)
(*                                                                         *)
(* A snapshot is the part of the stream it was aggregated from.            *)
(***************************************************************************)
EXTENDS Ingest

CONSTANTS
  Lines,          \* what a line of a body may be
  Bodies,         \* the bodies clients may send
  NotNumbers,     \* objects with a count that int() refuses with a ValueError
  Odd,            \* objects that aggregate() fails on with any other exception
  Limit,          \* --limit: entries of a published snapshot
  PageLimit,      \* the page's ?limit=
  Pages,
  MaxConnections  \* bound: connections a page makes

ASSUME MapServerAssumption ==
  /\ Bodies \subseteq Seq(Lines) /\ Objects \subseteq Lines
  /\ NotNumbers \subseteq Objects /\ Odd \subseteq Objects
  /\ Limit \in Nat \ {0} /\ PageLimit \in Nat \ {0}
  /\ MaxConnections \in Nat

Connections == Pages \X (1..MaxConnections)
Nothing == [first |-> 1, last |-> 0]      \* the snapshot of an empty stream
NoLoad == [first |-> 1, last |-> 0, on |-> 0]

VARIABLES
  snapshot,     \* per request, what it read to publish
  targets,      \* per request, clients it has yet to send to
  clients,      \* ActivityBroadcaster.clients
  handler,      \* per connection, its handler thread
  socket,       \* per page, the number of its connection and whether it is up
  wire,         \* per page, requests whose message is on its way
  loaded,       \* history: per page, what it got from GET, on which connection
  rendered,     \* history: per page, requests in the order of their messages
  before        \* history: per request, those answered when it arrived

publication == <<snapshot, targets>>
pageVars == <<socket, wire, loaded, rendered>>
vars == <<ingestVars, publication, clients, handler, pageVars, before>>

Init ==
  /\ IngestInit
  /\ snapshot = [r \in Requests |-> Nothing]
  /\ targets = [r \in Requests |-> {}]
  /\ clients = {}
  /\ handler = [c \in Connections |-> "none"]
  /\ socket = [p \in Pages |-> [number |-> 0, up |-> FALSE]]
  /\ wire = [p \in Pages |-> <<>>]
  /\ loaded = [p \in Pages |-> NoLoad]
  /\ rendered = [p \in Pages |-> <<>>]
  /\ before = [r \in Requests |-> {}]

Up(c) == socket[c[1]] = [number |-> c[2], up |-> TRUE]
Answered == {r \in Requests : request[r].step = "answered"}
EntriesOf(r) == {i \in DOMAIN stream : stream[i].from = r}

-----------------------------------------------------------------------------
(* read_stream() and aggregate().                                          *)

\* Mutated: the oldest of the entries is not read.
NewestButOne(limit) ==
  [first |-> IF Len(stream) > limit THEN Len(stream) - limit + 2 ELSE 1,
   last  |-> Len(stream)]

Newest(limit) ==
  [first |-> IF Len(stream) > limit THEN Len(stream) - limit + 1 ELSE 1,
   last  |-> Len(stream)]

\* The answers of do_POST to what aggregate() may raise; which of two rows it
\* meets first is left open.
Raised(part) ==
  {code \in {400, 503} :
     \E i \in part.first..part.last :
       stream[i].line \in IF code = 400 THEN NotNumbers ELSE Odd}

-----------------------------------------------------------------------------
(* The rest of do_POST.                                                    *)
Post(r) ==
  /\ \/ RefuseLength(r) \/ RefuseBody(r)
     \/ \E body \in Bodies : Arrive(r, body)
  /\ before' = [before EXCEPT ![r] = Answered]
  /\ UNCHANGED <<publication, clients, handler, pageVars>>

Store(r) ==
  /\ AddLine(r) \/ RefuseLine(r) \/ AddFails(r) \/ AnswerNothing(r)
  /\ UNCHANGED <<publication, clients, handler, pageVars, before>>

\* Mutated: the snapshot is read before the request's own lines are stored.
ReadSnapshotEarly(r) ==
  /\ AllRead(r) /\ request[r].accepted > 0
  /\ LET older == Len(stream) - request[r].accepted
         part == [first |-> IF older > Limit THEN older - Limit + 1 ELSE 1, last |-> older]
     IN  snapshot' = [snapshot EXCEPT ![r] = part] /\ Move(r, "copying")
  /\ UNCHANGED <<stream, targets, clients, handler, pageVars, before>>

\* What fails, fails after everything was stored.  The loop over the
\* request's own events, for new_line_keys, may stumble on one that the view
\* does not reach back to.
ReadSnapshot(r) ==
  /\ AllRead(r) /\ request[r].accepted > 0
  /\ LET view == Newest(Limit)
         own  == {stream[i].line : i \in EntriesOf(r)}
     IN  \/ Raised(view) = {}
            /\ snapshot' = [snapshot EXCEPT ![r] = view]
            /\ Move(r, "copying")
         \/ Raised(view) = {} /\ own \cap Odd # {}
            /\ Answer(r, 503)
            /\ UNCHANGED snapshot
         \/ (\E code \in Raised(view) : Answer(r, code))
            /\ UNCHANGED snapshot
  /\ UNCHANGED <<stream, targets, clients, handler, pageVars, before>>

ReadFails(r) ==
  /\ AllRead(r) /\ request[r].accepted > 0
  /\ Answer(r, 503)
  /\ UNCHANGED <<stream, publication, clients, handler, pageVars, before>>

\* publish() copies the set under the lock and sends outside it.
CopyClients(r) ==
  /\ request[r].step = "copying"
  /\ targets' = [targets EXCEPT ![r] = clients]
  /\ Move(r, "sending")
  /\ UNCHANGED <<stream, snapshot, clients, handler, pageVars, before>>

\* Mutated: the first connection that fails ends the loop.
SendUntilFailure(r) ==
  \E c \in targets[r] :
    /\ IF Up(c)
       THEN /\ wire' = [wire EXCEPT ![c[1]] = Append(@, r)]
            /\ targets' = [targets EXCEPT ![r] = @ \ {c}]
            /\ UNCHANGED clients
       ELSE /\ clients' = clients \ {c}
            /\ targets' = [targets EXCEPT ![r] = {}]
            /\ UNCHANGED wire
    /\ UNCHANGED <<ingestVars, snapshot, handler, socket, loaded, rendered, before>>

\* A send on a dead connection raises, or is lost on the way to it.
Send(r) ==
  \E c \in targets[r] :
    /\ targets' = [targets EXCEPT ![r] = @ \ {c}]
    /\ IF Up(c)
       THEN wire' = [wire EXCEPT ![c[1]] = Append(@, r)] /\ UNCHANGED clients
       ELSE clients' \in {clients, clients \ {c}} /\ UNCHANGED wire
    /\ UNCHANGED <<ingestVars, snapshot, handler, socket, loaded, rendered, before>>

\* Mutated: the answer is sent before the pages are.
AcceptFirst(r) ==
  /\ request[r].step = "sending"
  /\ Answer(r, 202)
  /\ UNCHANGED <<stream, publication, clients, handler, pageVars, before>>

Accept(r) ==
  /\ request[r].step = "sending"
  /\ targets[r] = {}
  /\ Answer(r, 202)
  /\ UNCHANGED <<stream, publication, clients, handler, pageVars, before>>

Publish(r) == ReadSnapshot(r) \/ CopyClients(r) \/ Send(r) \/ Accept(r)

-----------------------------------------------------------------------------
(* The connections of the pages.                                           *)

\* connect(), at first and 3 s after each close; it does not load().
Connect(p) ==
  LET n == socket[p].number + 1 IN
  /\ ~socket[p].up /\ n <= MaxConnections
  /\ socket' = [socket EXCEPT ![p] = [number |-> n, up |-> TRUE]]
  /\ handler' = [handler EXCEPT ![<<p, n>>] = "starting"]
  /\ UNCHANGED <<ingestVars, publication, clients, wire, loaded, rendered, before>>

\* The page goes away or the network does, with the messages on their way.
Disconnect(p) ==
  /\ socket[p].up
  /\ socket' = [socket EXCEPT ![p].up = FALSE]
  /\ wire' = [wire EXCEPT ![p] = <<>>]
  /\ UNCHANGED <<ingestVars, publication, clients, handler, loaded, rendered, before>>

Register(c) ==
  /\ handler[c] = "starting"
  /\ handler' = [handler EXCEPT ![c] = "receiving"]
  /\ clients' = clients \cup {c}
  /\ UNCHANGED <<ingestVars, publication, pageVars, before>>

\* Mutated: the handler returns without the discard of its `finally`.
ReturnOnly(c) ==
  /\ handler[c] = "receiving" /\ ~Up(c)
  /\ handler' = [handler EXCEPT ![c] = "returned"]
  /\ UNCHANGED <<ingestVars, publication, clients, pageVars, before>>

\* recv() raises once the connection is closed.
Unregister(c) ==
  /\ handler[c] = "receiving" /\ ~Up(c)
  /\ handler' = [handler EXCEPT ![c] = "returned"]
  /\ clients' = clients \ {c}
  /\ UNCHANGED <<ingestVars, publication, pageVars, before>>

-----------------------------------------------------------------------------
(* What a page renders: each message and each response replaces all of it. *)
RenderMessage(p) ==
  /\ wire[p] # <<>>
  /\ rendered' = [rendered EXCEPT ![p] = Append(@, Head(wire[p]))]
  /\ wire' = [wire EXCEPT ![p] = Tail(@)]
  /\ UNCHANGED <<ingestVars, publication, clients, handler, socket, loaded, before>>

Registered(p) == <<p, socket[p].number>> \in clients /\ socket[p].up

\* load(): GET /api/activity; whatever is raised there is a 503, which leaves
\* the page as it is.  (Only the
\* first load of a registered page matters to the properties, at any moment.)
Load(p) ==
  /\ Registered(p) /\ loaded[p].on < socket[p].number
  /\ LET view == Newest(PageLimit)
     IN  /\ Raised(view) = {}
         /\ loaded' = [loaded EXCEPT ![p] =
              [first |-> view.first, last |-> view.last, on |-> socket[p].number]]
  /\ UNCHANGED <<ingestVars, publication, clients, handler, socket, wire, rendered, before>>

Next ==
  \/ \E r \in Requests : Post(r) \/ Store(r) \/ ReadFails(r) \/ Publish(r)
  \/ \E c \in Connections : Register(c) \/ Unregister(c)
  \/ \E p \in Pages :
       \/ Connect(p) \/ Disconnect(p)
       \/ RenderMessage(p) \/ Load(p)

\* Each thread runs, and a page that is up takes its messages; nobody has to
\* post, connect, load or fail.
Fairness ==
  /\ \A r \in Requests : WF_vars(Store(r) \/ Publish(r))
  /\ \A c \in Connections : WF_vars(Register(c) \/ Unregister(c))
  /\ \A p \in Pages : WF_vars(RenderMessage(p))

Spec == Init /\ [][Next]_vars /\ Fairness

-----------------------------------------------------------------------------
TypeOK ==
  /\ \A r \in Requests :
       /\ request[r].step \in Step /\ request[r].answer \in Answers
       /\ (request[r].step = "answered") <=> (request[r].answer # 0)
       /\ targets[r] # {} => request[r].step = "sending"
       /\ snapshot[r].last <= Len(stream) /\ snapshot[r].last - snapshot[r].first < Limit
  /\ clients \subseteq {c \in Connections : handler[c] = "receiving"}
  /\ \A p \in Pages : wire[p] # <<>> => socket[p].up

\* Event i is in a part of the stream, or limit newer ones are.
Covers(part, limit, i) ==
  i <= part.last /\ (i >= part.first \/ i + limit <= part.last)

Published(r) ==
  /\ request[r].accepted > 0
  /\ request[r].step \in {"copying", "sending"} \/ request[r].answer = 202
Stored(rs) == {i \in 1..Len(stream) : stream[i].from \in rs}

(* Whatever the answer, what a request put in the stream is a beginning of *)
(* its body, in order, each line once.  A 202 means all of it; a 503 that  *)
(* one line more than were counted may be there.  A 400 has three          *)
(* meanings: up to a line that is no object; nothing, of a body that was   *)
(* not readable; or all of it, beside an event whose counts are no numbers *)
(* (AttackMapServer.py:154-181).                                           *)
StoredIsABeginning ==
  \A r \in Requests :
    LET body   == request[r].body
        answer == request[r].answer
        stored == Cardinality(EntriesOf(r))
    IN  /\ \A i \in EntriesOf(r) :
             LET n == Cardinality({j \in EntriesOf(r) : j <= i})
             IN  n <= Len(body) /\ stream[i].line = body[n]
        /\ stored - request[r].accepted \in (IF answer = 503 THEN {0, 1} ELSE {0})
        /\ answer = 202 => stored = Len(body)
        /\ answer = 400 =>
             \/ stored < Len(body) /\ body[stored + 1] \notin Objects
             \/ stored = 0 /\ body = <<>>
             \/ stored = Len(body) /\ \E i \in DOMAIN stream : stream[i].line \in NotNumbers

(* What a request publishes has its own lines and everything that was      *)
(* stored by requests answered before it arrived, but for events older     *)
(* than the Limit newest of that moment: no thread publishes a view from   *)
(* before its events (AttackMapServer.py:92, 160-176).                     *)
SnapshotsCoverTheAnswered ==
  \A r \in Requests : Published(r) =>
    \A i \in Stored({r} \cup before[r]) : Covers(snapshot[r], Limit, i)

(* A page may go back to an older view, but only between requests that     *)
(* overlapped: messages of requests one of which was answered before the   *)
(* other arrived come in their order and never shrink the view, whatever   *)
(* connections come and go (AttackMapServer.py:126-135, 168-177).          *)
MessagesFollowThePosts ==
  \A p \in Pages : \A i, j \in DOMAIN rendered[p] : i < j =>
    LET one == rendered[p][i]  two == rendered[p][j]
    IN  /\ two \notin before[one]
        /\ one \in before[two] => snapshot[one].last <= snapshot[two].last

(* A page that loads while it is registered misses nothing from then on:   *)
(* once its messages are rendered, each event of an accepted request was   *)
(* in the view it loaded, or in the one of that request's own message, or  *)
(* there were that many newer ones in it that the limit kept it out.  (The *)
(* page loads before it connects, so that it may have loaded too early; a  *)
(* reconnection does not load at all.)                                     *)
(* (AttackMapServer.py:38, 92, 112-135, 183-191)                           *)
NothingMissedAfterALoad ==
  \A p \in Pages :
    Registered(p) /\ loaded[p].on = socket[p].number /\ wire[p] = <<>> =>
      \A i \in Stored({r \in Requests : request[r].answer = 202}) :
        \/ Covers(loaded[p], PageLimit, i)
        \/ /\ stream[i].from \in Range(rendered[p])
           /\ Covers(snapshot[stream[i].from], Limit, i)

(* A page that is registered when an accepted request has stored its first *)
(* line renders that request's update, unless its connection goes down     *)
(* first: neither other pages nor dead connections keep it from it         *)
(* (AttackMapServer.py:112-135).                                           *)
AcceptedPostsReachThePages ==
  \A r \in Requests, p \in Pages : \A n \in 1..MaxConnections :
    (request[r].step = "adding" /\ request[r].accepted > 0 /\ <<p, n>> \in clients /\ Up(<<p, n>>))
      ~> \/ r \in Range(rendered[p])
         \/ ~Up(<<p, n>>)
         \/ request[r].answer \in {400, 503}

(* A connection that went down leaves the set of clients, whichever of its *)
(* handler and the threads that send to it notices first                   *)
(* (AttackMapServer.py:112-135).                                           *)
ClosedConnectionsLeave ==
  \A c \in Connections : ~Up(c) /\ handler[c] # "none" ~> handler[c] = "returned" /\ c \notin clients
=============================================================================
