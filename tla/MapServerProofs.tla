--------------------------- MODULE MapServerProofs ----------------------------
(***************************************************************************)
(* Proofs about MapServer, for any number of requests, lines, pages and    *)
(* connections: what a request publishes, and the order in which a page    *)
(* gets it.                                                                *)
(***************************************************************************)
EXTENDS MapServer, FiniteSetTheorems, TLAPS

State == [step : Step, body : Seq(Lines), accepted : Nat, answer : Answers]

Typed ==
  /\ stream \in Seq([from : Requests, line : Lines])
  /\ request \in [Requests -> State]
  /\ snapshot \in [Requests -> [first : Int, last : Int]]
  /\ targets \in [Requests -> SUBSET Connections]
  /\ clients \subseteq Connections
  /\ wire \in [Pages -> Seq(Requests)]
  /\ rendered \in [Pages -> Seq(Requests)]
  /\ before \in [Requests -> SUBSET Requests]

\* A request is answered once, and sends only what it has read.
Steps ==
  \A r \in Requests :
    /\ (request[r].step = "answered") <=> (request[r].answer # 0)
    /\ request[r].step \in {"copying", "sending"} => request[r].accepted > 0
    /\ targets[r] # {} => request[r].step = "sending"
    /\ before[r] \subseteq Answered

\* A snapshot covers the request's own lines, those of the requests before it
\* and all that these published.
Views ==
  /\ \A r \in Requests : snapshot[r].last <= Len(stream)
  /\ \A r \in Requests : Published(r) =>
       /\ \A i \in 1..Len(stream) :
            stream[i].from \in {r} \cup before[r] => i <= snapshot[r].last
       /\ \A q \in before[r] : snapshot[q].last <= snapshot[r].last

\* In the order of their messages, no request was answered before the earlier
\* one arrived.
NotBefore(one, two) == two \notin before[one]

\* What a page has rendered, then what is on its way to it.
Messages ==
  \A p \in Pages :
    /\ \A i \in DOMAIN rendered[p] : Published(rendered[p][i])
    /\ \A i \in DOMAIN wire[p] : Published(wire[p][i])
    /\ \A i, j \in DOMAIN rendered[p] : i < j => NotBefore(rendered[p][i], rendered[p][j])
    /\ \A i, j \in DOMAIN wire[p] : i < j => NotBefore(wire[p][i], wire[p][j])
    /\ \A i \in DOMAIN rendered[p], j \in DOMAIN wire[p] : NotBefore(rendered[p][i], wire[p][j])

IInv == Typed /\ Steps /\ Views /\ Messages

-----------------------------------------------------------------------------
PageStep ==
  \/ \E c \in Connections : Register(c) \/ Unregister(c)
  \/ \E p \in Pages : Connect(p) \/ Load(p) \/ Disconnect(p) \/ RenderMessage(p)
RequestsRest == UNCHANGED <<ingestVars, publication, before>>

(* The connections and the pages leave the requests, and what they have    *)
(* stored and read, alone (AttackMapServer.py:112-124, 183-191).           *)
LEMMA PagesOnlyWatch == PageStep => RequestsRest
BY DEF PageStep, RequestsRest, Register, Unregister, Connect, Load, Disconnect,
       RenderMessage, pageVars

(* Nothing is stored, read or shown at first (AttackMapServer.py:107-110). *)
LEMMA IInvStarts == Init => IInv
<1> SUFFICES ASSUME Init PROVE IInv
  OBVIOUS
<1>1. Typed
  BY DEF Init, IngestInit, Typed, State, NotMade, Nothing, Step, Answers
<1>2. Steps
  BY DEF Init, IngestInit, Steps, NotMade
<1>3. Views
  BY DEF Init, IngestInit, Views, NotMade, Nothing, Published
<1>4. Messages
  BY DEF Init, Messages
<1>5. QED
  BY <1>1, <1>2, <1>3, <1>4 DEF IInv

(* An answer, a step or a counted line changes one request and nothing     *)
(* else of it (AttackMapServer.py:150-181).                                *)
LEMMA AnswerChanges ==
  ASSUME Typed, NEW r \in Requests, NEW code \in Answers, Answer(r, code)
  PROVE  /\ request' \in [Requests -> State]
         /\ request'[r].step = "answered" /\ request'[r].answer = code
         /\ request'[r].accepted = request[r].accepted
         /\ \A q \in Requests : q # r => request'[q] = request[q]
<1>1. request'[r] = [request[r] EXCEPT !.step = "answered", !.answer = code]
  BY DEF Answer, Typed
<1>2. request[r] \in State
  BY DEF Typed
<1>3. request'[r] \in State
  BY <1>1, <1>2 DEF State, Step
<1>4. DOMAIN request' = Requests /\ \A q \in Requests : q # r => request'[q] = request[q]
  BY DEF Answer, Typed
<1>5. request' \in [Requests -> State]
  BY <1>3, <1>4 DEF Answer, Typed
<1>6. QED
  BY <1>1, <1>2, <1>4, <1>5 DEF State

(* A step to the next part of do_POST (AttackMapServer.py:168-177).        *)
LEMMA MoveChanges ==
  ASSUME Typed, NEW r \in Requests, NEW step \in Step, Move(r, step)
  PROVE  /\ request' \in [Requests -> State]
         /\ request'[r].step = step /\ request'[r].answer = request[r].answer
         /\ request'[r].accepted = request[r].accepted
         /\ \A q \in Requests : q # r => request'[q] = request[q]
<1>1. request'[r] = [request[r] EXCEPT !.step = step]
  BY DEF Move, Typed
<1>2. request[r] \in State
  BY DEF Typed
<1>3. request'[r] \in State
  BY <1>1, <1>2 DEF State
<1>4. DOMAIN request' = Requests /\ \A q \in Requests : q # r => request'[q] = request[q]
  BY DEF Move, Typed
<1>5. request' \in [Requests -> State]
  BY <1>3, <1>4 DEF Move, Typed
<1>6. QED
  BY <1>1, <1>2, <1>4, <1>5 DEF State

(* An arrival gives the request its body (AttackMapServer.py:153-161).     *)
LEMMA ArriveChanges ==
  ASSUME Typed, NEW r \in Requests, NEW body \in Seq(Lines), Arrive(r, body)
  PROVE  /\ request' \in [Requests -> State]
         /\ request'[r].step = "adding" /\ request'[r].answer = request[r].answer
         /\ \A q \in Requests : q # r => request'[q] = request[q]
<1>1. request'[r] = [request[r] EXCEPT !.step = "adding", !.body = body]
  BY DEF Arrive, Typed
<1>2. request[r] \in State
  BY DEF Typed
<1>3. request'[r] \in State
  BY <1>1, <1>2 DEF State, Step
<1>4. DOMAIN request' = Requests /\ \A q \in Requests : q # r => request'[q] = request[q]
  BY DEF Arrive, Typed
<1>5. request' \in [Requests -> State]
  BY <1>3, <1>4 DEF Arrive, Typed
<1>6. QED
  BY <1>1, <1>2, <1>4, <1>5 DEF State

(* A line that was added is counted (AttackMapServer.py:166).              *)
LEMMA AddLineChanges ==
  ASSUME Typed, NEW r \in Requests, AddLine(r)
  PROVE  /\ request' \in [Requests -> State]
         /\ request'[r].step = "adding" /\ request'[r].answer = request[r].answer
         /\ \A q \in Requests : q # r => request'[q] = request[q]
<1>1. request'[r] = [request[r] EXCEPT !.accepted = @ + 1]
  BY DEF AddLine, Typed
<1>2. request[r] \in State
  BY DEF Typed
<1>3. request'[r] \in State
  BY <1>1, <1>2 DEF State
<1>4. DOMAIN request' = Requests /\ \A q \in Requests : q # r => request'[q] = request[q]
  BY DEF AddLine, Typed
<1>5. request' \in [Requests -> State]
  BY <1>3, <1>4 DEF AddLine, Typed
<1>6. QED
  BY <1>1, <1>2, <1>4, <1>5 DEF State, AddLine, Unread

(* The thread goes on with the view it read, or answers with what was      *)
(* raised (AttackMapServer.py:167-181).                                    *)
LEMMA ReadingEnds ==
  ASSUME NEW r \in Requests, ReadSnapshot(r)
  PROVE  \/ Move(r, "copying") /\ snapshot' = [snapshot EXCEPT ![r] = Newest(Limit)]
         \/ (\E code \in {400, 503} : Answer(r, code)) /\ UNCHANGED snapshot
BY DEF ReadSnapshot, Raised

(* A line that is added is the request's next one and follows all others   *)
(* (AttackMapServer.py:164-166).                                           *)
LEMMA AddedLine ==
  ASSUME Typed, NEW r \in Requests, Unread(r),
         stream' = Append(stream, [from |-> r, line |-> NextLine(r)])
  PROVE  /\ stream' \in Seq([from : Requests, line : Lines])
         /\ Len(stream') = Len(stream) + 1
         /\ stream'[Len(stream) + 1].from = r
         /\ \A i \in 1..Len(stream) : stream'[i] = stream[i]
<1>1. NextLine(r) \in Lines
  BY DEF Typed, State, Unread, NextLine
<1>2. QED
  BY <1>1 DEF Typed

-----------------------------------------------------------------------------
(* Each step takes the variables to values they may have                   *)
(* (AttackMapServer.py:112-181).                                           *)
LEMMA TypedKept == Typed /\ [Next]_vars => Typed'
<1> SUFFICES ASSUME Typed, [Next]_vars PROVE Typed'
  OBVIOUS
<1>1. ASSUME NEW r \in Requests, Post(r) PROVE Typed'
  <2>1. UNCHANGED <<stream, publication, clients, pageVars>>
    BY <1>1 DEF Post, RefuseLength, RefuseBody, Arrive
  <2>2. request' \in [Requests -> State]
    <3>1. \A body \in Bodies : body \in Seq(Lines)
      BY MapServerAssumption
    <3>2. {400, 413} \subseteq Answers
      BY DEF Answers
    <3>3. QED
      BY <1>1, <3>1, <3>2, AnswerChanges, ArriveChanges DEF Post, RefuseLength, RefuseBody
  <2>3. before' \in [Requests -> SUBSET Requests]
    BY <1>1 DEF Post, Answered, Typed
  <2>4. QED
    BY <2>1, <2>2, <2>3 DEF Typed, publication, pageVars
<1>2. ASSUME NEW r \in Requests, Store(r) PROVE Typed'
  <2>1. UNCHANGED <<publication, clients, pageVars, before>>
    BY <1>2 DEF Store
  <2>2. stream' \in Seq([from : Requests, line : Lines])
    BY <1>2, AddedLine DEF Store, AddLine, RefuseLine, AddFails, AnswerNothing, Typed
  <2>3. request' \in [Requests -> State]
    <3>1. {202, 400, 503} \subseteq Answers
      BY DEF Answers
    <3>2. QED
      BY <1>2, <3>1, AnswerChanges, AddLineChanges
         DEF Store, RefuseLine, AddFails, AnswerNothing
  <2>4. QED
    BY <2>1, <2>2, <2>3 DEF Typed, publication, pageVars
<1>3. ASSUME NEW r \in Requests, ReadFails(r) \/ Accept(r) PROVE Typed'
  <2>1. {202, 503} \subseteq Answers
    BY DEF Answers
  <2>2. request' \in [Requests -> State]
    BY <1>3, <2>1, AnswerChanges DEF ReadFails, Accept
  <2>3. QED
    BY <1>3, <2>2 DEF ReadFails, Accept, Typed, publication, pageVars
<1>4. ASSUME NEW r \in Requests, ReadSnapshot(r) PROVE Typed'
  <2>1. Newest(Limit) \in [first : Int, last : Int]
    BY MapServerAssumption DEF Newest, Typed
  <2>2. {400, 503} \subseteq Answers /\ "copying" \in Step
    BY DEF Answers, Step
  <2>3. request' \in [Requests -> State]
    BY <1>4, <2>2, ReadingEnds, AnswerChanges, MoveChanges
  <2>4. snapshot' \in [Requests -> [first : Int, last : Int]]
    <3>1. snapshot' = [snapshot EXCEPT ![r] = Newest(Limit)] \/ snapshot' = snapshot
      BY <1>4, ReadingEnds
    <3>2. QED
      BY <2>1, <3>1 DEF Typed
  <2>5. QED
    BY <1>4, <2>3, <2>4 DEF ReadSnapshot, Typed, pageVars
<1>5. ASSUME NEW r \in Requests, CopyClients(r) PROVE Typed'
  <2>1. "sending" \in Step
    BY DEF Step
  <2>2. request' \in [Requests -> State]
    BY <1>5, <2>1, MoveChanges DEF CopyClients
  <2>3. targets' \in [Requests -> SUBSET Connections]
    BY <1>5 DEF CopyClients, Typed
  <2>4. QED
    BY <1>5, <2>2, <2>3 DEF CopyClients, Typed, pageVars
<1>6. ASSUME NEW r \in Requests, Send(r) PROVE Typed'
  <2>1. PICK c \in targets[r] :
          /\ targets' = [targets EXCEPT ![r] = @ \ {c}]
          /\ \/ wire' = [wire EXCEPT ![c[1]] = Append(@, r)] /\ UNCHANGED clients
             \/ clients' \in {clients, clients \ {c}} /\ UNCHANGED wire
          /\ UNCHANGED <<ingestVars, snapshot, handler, socket, loaded, rendered, before>>
    BY <1>6 DEF Send
  <2>2. c[1] \in Pages
    BY <2>1 DEF Typed, Connections
  <2>3. wire' \in [Pages -> Seq(Requests)]
    <3>1. Append(wire[c[1]], r) \in Seq(Requests)
      BY <2>2 DEF Typed
    <3>2. QED
      BY <2>1, <2>2, <3>1 DEF Typed
  <2>4. targets' \in [Requests -> SUBSET Connections] /\ clients' \subseteq Connections
    BY <2>1 DEF Typed
  <2>5. QED
    BY <2>1, <2>3, <2>4 DEF Typed, ingestVars
<1>7. CASE PageStep
  <2>1. wire' \in [Pages -> Seq(Requests)] /\ rendered' \in [Pages -> Seq(Requests)]
    <3>1. ASSUME NEW p \in Pages, Disconnect(p)
          PROVE  /\ wire' \in [Pages -> Seq(Requests)]
                 /\ rendered' = rendered
      BY <3>1 DEF Disconnect, Typed
    <3>2. ASSUME NEW p \in Pages, RenderMessage(p)
          PROVE  wire' \in [Pages -> Seq(Requests)] /\ rendered' \in [Pages -> Seq(Requests)]
      <4>1. Tail(wire[p]) \in Seq(Requests) /\ Append(rendered[p], Head(wire[p])) \in Seq(Requests)
        BY <3>2 DEF RenderMessage, Typed
      <4>2. QED
        BY <3>2, <4>1 DEF RenderMessage, Typed
    <3>3. QED
      BY <1>7, <3>1, <3>2 DEF PageStep, Register, Unregister, Connect, Load,
         pageVars, Typed
  <2>2. clients' \subseteq Connections
    BY <1>7 DEF PageStep, Register, Unregister, Connect, Load, Disconnect,
       RenderMessage, Typed
  <2>3. QED
    BY <1>7, <2>1, <2>2, PagesOnlyWatch DEF RequestsRest, ingestVars, publication, Typed
<1>8. CASE UNCHANGED vars
  BY <1>8 DEF vars, Typed, ingestVars, publication, pageVars
<1>9. QED
  BY <1>1, <1>2, <1>3, <1>4, <1>5, <1>6, <1>7, <1>8 DEF Next, Publish, PageStep

-----------------------------------------------------------------------------
\* What a thread may touch: its own request, which has no answer yet, and the
\* end of the stream, while it stores its lines.
Own(r) ==
  /\ \A q \in Requests \ {r} :
       /\ request'[q] = request[q] /\ snapshot'[q] = snapshot[q]
       /\ before'[q] = before[q] /\ targets'[q] = targets[q]
  /\ \/ stream' = stream
     \/ /\ request[r].step = "adding" /\ Unread(r)
        /\ stream' = Append(stream, [from |-> r, line |-> NextLine(r)])
  /\ request[r].step # "answered"

RequestStep(r) ==
  Post(r) \/ Store(r) \/ ReadFails(r) \/ ReadSnapshot(r) \/ CopyClients(r) \/ Send(r) \/ Accept(r)

(* A thread works on its own request only, and not on one that is answered *)
(* (AttackMapServer.py:150-181).                                           *)
LEMMA RequestsKeepToThemselves ==
  ASSUME Typed, Steps, NEW r \in Requests, RequestStep(r)
  PROVE  Own(r)
<1>0. {202, 400, 413, 503} \subseteq Answers /\ {"copying", "sending"} \subseteq Step
  BY DEF Answers, Step
<1>1. CASE Post(r)
  <2>1. \A body \in Bodies : body \in Seq(Lines)
    BY MapServerAssumption
  <2>2. UNCHANGED <<stream, snapshot, targets>> /\ request[r].step = "none"
    BY <1>1 DEF Post, RefuseLength, RefuseBody, Arrive, publication
  <2>3. \A q \in Requests \ {r} : request'[q] = request[q]
    BY <1>0, <1>1, <2>1, AnswerChanges, ArriveChanges DEF Post, RefuseLength, RefuseBody
  <2>4. \A q \in Requests \ {r} : before'[q] = before[q]
    BY <1>1 DEF Post, Typed
  <2>5. QED
    BY <2>2, <2>3, <2>4 DEF Own
<1>2. CASE Store(r)
  <2>1. UNCHANGED <<snapshot, targets, before>> /\ request[r].step = "adding"
    BY <1>2 DEF Store, AddLine, RefuseLine, AddFails, AnswerNothing, Unread, AllRead,
       publication
  <2>2. \A q \in Requests \ {r} : request'[q] = request[q]
    BY <1>0, <1>2, AnswerChanges, AddLineChanges
       DEF Store, RefuseLine, AddFails, AnswerNothing
  <2>3. QED
    BY <1>2, <2>1, <2>2 DEF Own, Store, AddLine, RefuseLine, AddFails, AnswerNothing
<1>3. CASE ReadFails(r) \/ Accept(r)
  <2>1. \A q \in Requests \ {r} : request'[q] = request[q]
    BY <1>0, <1>3, AnswerChanges DEF ReadFails, Accept
  <2>2. QED
    BY <1>3, <2>1 DEF Own, ReadFails, Accept, AllRead, publication
<1>4. CASE ReadSnapshot(r)
  <2>1. \A q \in Requests \ {r} : request'[q] = request[q]
    BY <1>0, <1>4, ReadingEnds, AnswerChanges, MoveChanges
  <2>2. \A q \in Requests \ {r} : snapshot'[q] = snapshot[q]
    BY <1>4, ReadingEnds DEF Typed
  <2>3. QED
    BY <1>4, <2>1, <2>2 DEF Own, ReadSnapshot, AllRead
<1>5. CASE CopyClients(r)
  <2>1. \A q \in Requests \ {r} : request'[q] = request[q]
    BY <1>0, <1>5, MoveChanges DEF CopyClients
  <2>2. \A q \in Requests \ {r} : targets'[q] = targets[q]
    BY <1>5 DEF CopyClients, Typed
  <2>3. QED
    BY <1>5, <2>1, <2>2 DEF Own, CopyClients
<1>6. CASE Send(r)
  <2>1. UNCHANGED <<ingestVars, snapshot, before>> /\ targets[r] # {}
    BY <1>6 DEF Send
  <2>2. \A q \in Requests \ {r} : targets'[q] = targets[q]
    BY <1>6 DEF Send, Typed
  <2>3. QED
    BY <2>1, <2>2 DEF Own, Steps, ingestVars
<1>7. QED
  BY <1>1, <1>2, <1>3, <1>4, <1>5, <1>6 DEF RequestStep

(* What a request's own step makes of its step, its answer and its targets *)
(* (AttackMapServer.py:150-181).                                           *)
LEMMA OwnRequestAfter ==
  ASSUME Typed, Steps, NEW r \in Requests, RequestStep(r)
  PROVE  /\ (request'[r].step = "answered") <=> (request'[r].answer # 0)
         /\ request'[r].step \in {"copying", "sending"} => request'[r].accepted > 0
         /\ targets'[r] # {} => request'[r].step = "sending"
         /\ Published(r) => Published(r)' /\ before'[r] = before[r]
<1>0. {202, 400, 413, 503} \subseteq Answers /\ {"copying", "sending"} \subseteq Step
  BY DEF Answers, Step
<1>1. CASE Post(r)
  <2>1. \A body \in Bodies : body \in Seq(Lines)
    BY MapServerAssumption
  <2>2. /\ request[r].step = "none" /\ request[r].answer = 0 /\ targets'[r] = {}
    BY <1>1 DEF Post, RefuseLength, RefuseBody, Arrive, publication, Steps
  <2>3. \/ request'[r].step = "answered" /\ request'[r].answer \in {400, 413}
        \/ request'[r].step = "adding" /\ request'[r].answer = 0
    BY <1>0, <1>1, <2>1, <2>2, AnswerChanges, ArriveChanges DEF Post, RefuseLength, RefuseBody
  <2>4. QED
    BY <2>2, <2>3 DEF Published
<1>2. CASE Store(r)
  <2>1. request[r].step = "adding" /\ request[r].answer = 0 /\ targets'[r] = {}
    BY <1>2 DEF Store, AddLine, RefuseLine, AddFails, AnswerNothing, Unread, AllRead,
       publication, Steps
  <2>2. \/ request'[r].step = "answered" /\ request'[r].answer \in {202, 400, 503}
        \/ request'[r].step = "adding" /\ request'[r].answer = 0
    BY <1>0, <1>2, <2>1, AnswerChanges, AddLineChanges
       DEF Store, RefuseLine, AddFails, AnswerNothing
  <2>3. QED
    BY <2>1, <2>2 DEF Published
<1>3. CASE ReadFails(r) \/ Accept(r)
  <2>1. /\ request'[r].step = "answered" /\ request'[r].accepted = request[r].accepted
        /\ ReadFails(r) => request'[r].answer = 503 /\ request[r].step = "adding"
        /\ Accept(r) => request'[r].answer = 202
    BY <1>0, <1>3, AnswerChanges DEF ReadFails, Accept, AllRead
  <2>2. targets'[r] = {} /\ before' = before
    BY <1>3 DEF ReadFails, Accept, AllRead, publication, Steps
  <2>3. QED
    BY <1>3, <2>1, <2>2 DEF Published, Steps
<1>4. CASE ReadSnapshot(r)
  <2>1. request[r].step = "adding" /\ request[r].answer = 0 /\ request[r].accepted > 0
    BY <1>4 DEF ReadSnapshot, AllRead, Steps
  <2>2. \/ request'[r].step = "answered" /\ request'[r].answer \in {400, 503}
        \/ /\ request'[r].step = "copying" /\ request'[r].answer = 0
           /\ request'[r].accepted > 0
    BY <1>0, <1>4, <2>1, ReadingEnds, AnswerChanges, MoveChanges
  <2>3. targets'[r] = {}
    BY <1>4, <2>1 DEF ReadSnapshot, Steps
  <2>4. QED
    BY <2>1, <2>2, <2>3 DEF Published
<1>5. CASE CopyClients(r)
  <2>1. /\ request[r].step = "copying" /\ request'[r].step = "sending"
        /\ request'[r].answer = request[r].answer
        /\ request'[r].accepted = request[r].accepted /\ before' = before
    BY <1>0, <1>5, MoveChanges DEF CopyClients
  <2>2. QED
    BY <2>1 DEF Published, Steps
<1>6. CASE Send(r)
  <2>1. UNCHANGED <<ingestVars, before>> /\ targets[r] # {}
    BY <1>6 DEF Send
  <2>2. QED
    BY <2>1 DEF Published, Steps, ingestVars
<1>7. QED
  BY <1>1, <1>2, <1>3, <1>4, <1>5, <1>6 DEF RequestStep

(* A request becomes one that publishes when it has read its snapshot, and *)
(* keeps that snapshot (AttackMapServer.py:167-177).                       *)
LEMMA OwnSnapshotAfter ==
  ASSUME Typed, Steps, NEW r \in Requests, RequestStep(r)
  PROVE  /\ snapshot'[r].last \in {snapshot[r].last, Len(stream)}
         /\ Published(r)' =>
              /\ UNCHANGED <<stream, before>>
              /\ \/ Published(r) /\ UNCHANGED snapshot
                 \/ snapshot'[r].last = Len(stream)
<1>0. {202, 400, 413, 503} \subseteq Answers /\ {"copying", "sending"} \subseteq Step
  BY DEF Answers, Step
<1>1. CASE Post(r)
  <2>1. \A body \in Bodies : body \in Seq(Lines)
    BY MapServerAssumption
  <2>2. request[r].answer = 0 /\ UNCHANGED snapshot
    BY <1>1 DEF Post, RefuseLength, RefuseBody, Arrive, publication, Steps
  <2>3. \/ request'[r].step = "answered" /\ request'[r].answer \in {400, 413}
        \/ request'[r].step = "adding" /\ request'[r].answer = 0
    BY <1>0, <1>1, <2>1, <2>2, AnswerChanges, ArriveChanges DEF Post, RefuseLength, RefuseBody
  <2>4. QED
    BY <2>2, <2>3 DEF Published
<1>2. CASE Store(r)
  <2>1. request[r].step = "adding" /\ request[r].answer = 0 /\ UNCHANGED snapshot
    BY <1>2 DEF Store, AddLine, RefuseLine, AddFails, AnswerNothing, Unread, AllRead,
       publication, Steps
  <2>2. \/ request'[r].step = "answered" /\ request'[r].answer \in {400, 503}
        \/ request'[r].step = "answered" /\ request'[r].accepted = 0
        \/ request'[r].step = "adding" /\ request'[r].answer = 0
    BY <1>0, <1>2, <2>1, AnswerChanges, AddLineChanges
       DEF Store, RefuseLine, AddFails, AnswerNothing
  <2>3. QED
    BY <2>1, <2>2 DEF Published
<1>3. CASE ReadFails(r)
  <2>1. request'[r].step = "answered" /\ request'[r].answer = 503
    BY <1>0, <1>3, AnswerChanges DEF ReadFails
  <2>2. QED
    BY <1>3, <2>1 DEF ReadFails, publication, Published
<1>4. CASE ReadSnapshot(r)
  <2>1. CASE snapshot' = [snapshot EXCEPT ![r] = Newest(Limit)]
    <3>1. snapshot'[r].last = Len(stream)
      BY <2>1 DEF Newest, Typed
    <3>2. QED
      BY <1>4, <3>1 DEF ReadSnapshot
  <2>2. CASE (\E code \in {400, 503} : Answer(r, code)) /\ UNCHANGED snapshot
    <3>1. request'[r].step = "answered" /\ request'[r].answer \in {400, 503}
      BY <1>0, <2>2, AnswerChanges
    <3>2. QED
      BY <2>2, <3>1 DEF Published
  <2>3. QED
    BY <1>4, <2>1, <2>2, ReadingEnds
<1>5. CASE CopyClients(r)
  <2>1. request[r].step = "copying" /\ request'[r].accepted = request[r].accepted
    BY <1>0, <1>5, MoveChanges DEF CopyClients
  <2>2. QED
    BY <1>5, <2>1 DEF CopyClients, Published
<1>6. CASE Send(r)
  <2>1. UNCHANGED <<ingestVars, snapshot, before>>
    BY <1>6 DEF Send
  <2>2. QED
    BY <2>1 DEF Published, ingestVars
<1>7. CASE Accept(r)
  <2>1. request[r].step = "sending" /\ request'[r].accepted = request[r].accepted
    BY <1>0, <1>7, AnswerChanges DEF Accept
  <2>2. QED
    BY <1>7, <2>1 DEF Accept, publication, Published
<1>8. QED
  BY <1>1, <1>2, <1>3, <1>4, <1>5, <1>6, <1>7 DEF RequestStep

-----------------------------------------------------------------------------
(* Who has an answer keeps it, so that requests answered before another    *)
(* one arrived are still so (AttackMapServer.py:150-181).                  *)
LEMMA StepsKept == Typed /\ Steps /\ [Next]_vars => Steps'
<1> SUFFICES ASSUME Typed, Steps, [Next]_vars PROVE Steps'
  OBVIOUS
<1>1. ASSUME NEW r \in Requests, RequestStep(r) PROVE Steps'
  <2>1. Own(r)
    BY <1>1, RequestsKeepToThemselves
  <2>2. Answered \subseteq Answered'
    BY <2>1 DEF Own, Answered
  <2>3. ASSUME NEW q \in Requests \ {r}
        PROVE  /\ (request'[q].step = "answered") <=> (request'[q].answer # 0)
               /\ request'[q].step \in {"copying", "sending"} => request'[q].accepted > 0
               /\ targets'[q] # {} => request'[q].step = "sending"
               /\ before'[q] \subseteq Answered'
    BY <2>1, <2>2 DEF Own, Steps
  <2>4. before'[r] \subseteq Answered'
    <3>1. before'[r] \in {before[r], Answered}
      BY <1>1 DEF RequestStep, Post, Store, ReadFails, ReadSnapshot, CopyClients, Send,
         Accept, Typed
    <3>2. QED
      BY <2>2, <3>1 DEF Steps
  <2>5. QED
    BY <1>1, <2>3, <2>4, OwnRequestAfter DEF Steps
<1>2. CASE PageStep
  BY <1>2, PagesOnlyWatch DEF RequestsRest, ingestVars, publication, Steps, Answered
<1>3. CASE UNCHANGED vars
  BY <1>3 DEF vars, ingestVars, publication, Steps, Answered
<1>4. QED
  BY <1>1, <1>2, <1>3 DEF Next, Publish, PageStep, RequestStep

(* A line that is stored later than a snapshot was read is of a request    *)
(* that overlaps with the one that read it (AttackMapServer.py:160-176).   *)
LEMMA ViewsKept == Typed /\ Steps /\ Views /\ [Next]_vars => Views'
<1> SUFFICES ASSUME Typed, Steps, Views, [Next]_vars PROVE Views'
  OBVIOUS
<1>1. ASSUME NEW r \in Requests, RequestStep(r) PROVE Views'
  <2>1. Own(r)
    BY <1>1, RequestsKeepToThemselves
  <2>2. /\ Len(stream') \in Nat /\ Len(stream) \in Nat /\ Len(stream') >= Len(stream)
        /\ \A i \in 1..Len(stream) : stream'[i] = stream[i]
        /\ \A i \in 1..Len(stream') : i > Len(stream) =>
             stream'[i].from = r /\ request[r].step = "adding"
    <3>1. CASE stream' = stream
      BY <3>1 DEF Typed
    <3>2. CASE /\ request[r].step = "adding" /\ Unread(r)
               /\ stream' = Append(stream, [from |-> r, line |-> NextLine(r)])
      BY <3>2, AddedLine DEF Typed
    <3>3. QED
      BY <2>1, <3>1, <3>2 DEF Own
  <2>3. ASSUME NEW q \in Requests \ {r}
        PROVE  /\ snapshot'[q].last <= Len(stream')
               /\ Published(q)' =>
                    /\ \A i \in 1..Len(stream') :
                         stream'[i].from \in {q} \cup before'[q] => i <= snapshot'[q].last
                    /\ \A p \in before'[q] : snapshot'[p].last <= snapshot'[q].last
    <3>1. snapshot'[q] = snapshot[q] /\ before'[q] = before[q] /\ request'[q] = request[q]
      BY <2>1 DEF Own
    <3>2. snapshot[q].last \in Int /\ snapshot[q].last <= Len(stream)
      BY DEF Typed, Views
    <3>3. r \notin before[q] /\ before[q] \subseteq Requests
      BY <2>1 DEF Own, Steps, Answered
    <3>4. \A p \in before[q] : snapshot'[p] = snapshot[p]
      BY <2>1, <3>3 DEF Own
    <3>5. Published(q)' => Published(q)
      BY <3>1 DEF Published
    <3>6. ASSUME Published(q), NEW i \in 1..Len(stream'), stream'[i].from \in {q} \cup before[q]
          PROVE  i <= snapshot[q].last
      BY <2>2, <3>3, <3>6 DEF Views
    <3>7. QED
      BY <2>2, <3>1, <3>2, <3>3, <3>4, <3>5, <3>6 DEF Views
  <2>4. /\ snapshot'[r].last <= Len(stream')
        /\ Published(r)' =>
             /\ \A i \in 1..Len(stream') :
                  stream'[i].from \in {r} \cup before'[r] => i <= snapshot'[r].last
             /\ \A p \in before'[r] : snapshot'[p].last <= snapshot'[r].last
    <3>1. snapshot'[r].last <= Len(stream')
      <4>1. snapshot[r].last \in Int /\ snapshot[r].last <= Len(stream)
        BY DEF Typed, Views
      <4>2. snapshot'[r].last = snapshot[r].last \/ snapshot'[r].last = Len(stream)
        BY <1>1, OwnSnapshotAfter
      <4>3. QED
        BY <2>2, <4>1, <4>2
    <3>2. ASSUME Published(r)'
          PROVE  /\ \A i \in 1..Len(stream') :
                      stream'[i].from \in {r} \cup before'[r] => i <= snapshot'[r].last
                 /\ \A p \in before'[r] : snapshot'[p].last <= snapshot'[r].last
      <4>1. stream' = stream /\ before' = before
        BY <1>1, <3>2, OwnSnapshotAfter
      <4>2. CASE Published(r) /\ UNCHANGED snapshot
        BY <4>1, <4>2 DEF Views
      <4>3. CASE snapshot'[r].last = Len(stream)
        <5>1. \A p \in before[r] : snapshot'[p].last <= Len(stream)
          <6>1. r \notin before[r] /\ before[r] \subseteq Requests
            BY <2>1 DEF Own, Steps, Answered
          <6>2. QED
            BY <2>1, <6>1 DEF Own, Views
        <5>2. QED
          BY <2>2, <4>1, <4>3, <5>1
      <4>4. QED
        BY <1>1, <3>2, <4>2, <4>3, OwnSnapshotAfter
    <3>3. QED
      BY <3>1, <3>2
  <2>5. QED
    BY <2>3, <2>4 DEF Views
<1>2. CASE PageStep
  BY <1>2, PagesOnlyWatch DEF RequestsRest, ingestVars, publication, Views, Published
<1>3. CASE UNCHANGED vars
  BY <1>3 DEF vars, ingestVars, publication, Views, Published
<1>4. QED
  BY <1>1, <1>2, <1>3 DEF Next, Publish, PageStep, RequestStep

(* What a page gets is published, and nothing a page has got was sent by a *)
(* request that another one was waited for: an answered request sends no   *)
(* more (AttackMapServer.py:126-135, 168-177).                             *)
LEMMA MessagesKept == Typed /\ Steps /\ Messages /\ [Next]_vars => Messages'
<1> SUFFICES ASSUME Typed, Steps, Messages, [Next]_vars PROVE Messages'
  OBVIOUS
<1>1. ASSUME NEW r \in Requests, RequestStep(r)
      PROVE  \A q \in Requests : Published(q) => Published(q)' /\ before'[q] = before[q]
  <2>1. Own(r)
    BY <1>1, RequestsKeepToThemselves
  <2>2. \A q \in Requests \ {r} : Published(q) => Published(q)' /\ before'[q] = before[q]
    BY <2>1 DEF Own, Published
  <2>3. QED
    BY <1>1, <2>2, OwnRequestAfter
<1>2. ASSUME NEW r \in Requests, RequestStep(r), UNCHANGED <<wire, rendered>>
      PROVE  Messages'
  <2>1. \A p \in Pages :
          /\ \A i \in DOMAIN rendered[p] : rendered[p][i] \in Requests
          /\ \A i \in DOMAIN wire[p] : wire[p][i] \in Requests
    BY DEF Typed
  <2>2. QED
    BY <1>1, <1>2, <2>1 DEF Messages, NotBefore
<1>3. ASSUME NEW r \in Requests, Send(r) PROVE Messages'
  <2>1. UNCHANGED <<rendered, ingestVars, before>> /\ targets[r] # {}
    BY <1>3 DEF Send
  <2>2. Published(r) /\ r \notin Answered
    BY <2>1 DEF Steps, Published, Answered
  <2>3. \A q \in Requests : NotBefore(q, r) /\ (Published(q)' <=> Published(q))
    BY <2>1, <2>2 DEF Steps, NotBefore, Published, ingestVars
  <2>4. \A q, t \in Requests : NotBefore(q, t)' <=> NotBefore(q, t)
    BY <2>1 DEF NotBefore
  <2>5. CASE UNCHANGED wire
    BY <2>1, <2>5 DEF Messages, NotBefore, Published, ingestVars
  <2>6. ASSUME NEW page \in Pages, wire' = [wire EXCEPT ![page] = Append(@, r)]
        PROVE  Messages'
    <3>1. ASSUME NEW p \in Pages
          PROVE  /\ Len(wire'[p]) \in Nat /\ wire'[p] \in Seq(Requests)
                 /\ \A i \in DOMAIN wire'[p] :
                      \/ i \in DOMAIN wire[p] /\ wire'[p][i] = wire[p][i]
                      \/ wire'[p][i] = r /\ \A j \in DOMAIN wire'[p] : j <= i
      <4>1. wire[p] \in Seq(Requests)
        BY DEF Typed
      <4>2. CASE p = page
        BY <2>6, <4>1, <4>2 DEF Typed
      <4>3. CASE p # page
        BY <2>6, <4>1, <4>3 DEF Typed
      <4>4. QED
        BY <4>2, <4>3
    <3>2. ASSUME NEW p \in Pages
          PROVE  /\ \A i \in DOMAIN rendered[p] : rendered[p][i] \in Requests
                 /\ \A i \in DOMAIN wire[p] : wire[p][i] \in Requests
      BY DEF Typed
    <3>3. ASSUME NEW p \in Pages, NEW i \in DOMAIN wire'[p], NEW j \in DOMAIN wire'[p], i < j
          PROVE  NotBefore(wire'[p][i], wire'[p][j])
      <4>1. i \in Int /\ j \in Int /\ i \in DOMAIN wire[p] /\ wire'[p][i] = wire[p][i]
        BY <3>1, <3>3
      <4>2. QED
        BY <2>3, <3>1, <3>2, <3>3, <4>1 DEF Messages
    <3>4. QED
      BY <2>1, <2>2, <2>3, <2>4, <3>1, <3>2, <3>3 DEF Messages, NotBefore
  <2>7. QED
    <3>1. \A c \in targets[r] : c[1] \in Pages
      BY DEF Typed, Connections
    <3>2. QED
      BY <1>3, <2>5, <2>6, <3>1 DEF Send
<1>4. CASE PageStep
  <2>1. \A q \in Requests : (Published(q)' <=> Published(q)) /\ before'[q] = before[q]
    BY <1>4, PagesOnlyWatch DEF RequestsRest, ingestVars, Published
  <2>2. \A p \in Pages :
          /\ \A i \in DOMAIN rendered[p] : rendered[p][i] \in Requests
          /\ \A i \in DOMAIN wire[p] : wire[p][i] \in Requests
    BY DEF Typed
  <2>3. CASE UNCHANGED <<wire, rendered>>
    BY <2>1, <2>2, <2>3 DEF Messages, NotBefore
  <2>4. ASSUME NEW p \in Pages, Disconnect(p) PROVE Messages'
    <3>1. rendered' = rendered /\ wire'[p] = <<>> /\ \A q \in Pages : q # p => wire'[q] = wire[q]
      BY <2>4 DEF Disconnect, Typed
    <3>2. QED
      BY <2>1, <2>2, <3>1 DEF Messages, NotBefore
  <2>5. ASSUME NEW p \in Pages, RenderMessage(p) PROVE Messages'
    <3>1. \A q \in Pages : q # p => wire'[q] = wire[q] /\ rendered'[q] = rendered[q]
      BY <2>5 DEF RenderMessage, Typed
    <3>2. /\ wire[p] \in Seq(Requests) /\ rendered[p] \in Seq(Requests) /\ wire[p] # <<>>
          /\ wire'[p] = Tail(wire[p]) /\ rendered'[p] = Append(rendered[p], wire[p][1])
      BY <2>5 DEF RenderMessage, Typed
    <3>3. /\ \A i \in DOMAIN wire'[p] :
               i \in Int /\ i >= 1 /\ i + 1 \in DOMAIN wire[p] /\ wire'[p][i] = wire[p][i + 1]
          /\ 1 \in DOMAIN wire[p]
      BY <3>2
    <3>4. \A i \in DOMAIN rendered'[p] :
            \/ i \in DOMAIN rendered[p] /\ rendered'[p][i] = rendered[p][i]
            \/ rendered'[p][i] = wire[p][1] /\ \A j \in DOMAIN rendered'[p] : j <= i
      BY <3>2
    <3>5. /\ \A i \in DOMAIN rendered'[p] : Published(rendered'[p][i])
          /\ \A i \in DOMAIN wire'[p] : Published(wire'[p][i])
      BY <3>3, <3>4 DEF Messages
    <3>6. ASSUME NEW i \in DOMAIN rendered'[p], NEW j \in DOMAIN rendered'[p], i < j
          PROVE  NotBefore(rendered'[p][i], rendered'[p][j])
      <4>1. i \in Int /\ j \in Int /\ i \in DOMAIN rendered[p] /\ rendered'[p][i] = rendered[p][i]
        BY <3>2, <3>4, <3>6
      <4>2. QED
        BY <3>3, <3>4, <3>6, <4>1 DEF Messages
    <3>7. ASSUME NEW i \in DOMAIN wire'[p], NEW j \in DOMAIN wire'[p], i < j
          PROVE  NotBefore(wire'[p][i], wire'[p][j])
      BY <3>3, <3>7 DEF Messages
    <3>8. ASSUME NEW i \in DOMAIN rendered'[p], NEW j \in DOMAIN wire'[p]
          PROVE  NotBefore(rendered'[p][i], wire'[p][j])
      BY <3>3, <3>4 DEF Messages
    <3>9. /\ \A i \in DOMAIN rendered'[p] : rendered'[p][i] \in Requests
          /\ \A i \in DOMAIN wire'[p] : wire'[p][i] \in Requests
      BY <2>2, <3>3, <3>4
    <3>10. QED
      BY <2>1, <2>2, <3>1, <3>5, <3>6, <3>7, <3>8, <3>9 DEF Messages, NotBefore
  <2>6. QED
    BY <1>4, <2>3, <2>4, <2>5 DEF PageStep, Register, Unregister, Connect, Load, pageVars
<1>5. CASE UNCHANGED vars
  BY <1>5 DEF vars, ingestVars, pageVars, Messages, NotBefore, Published
<1>6. QED
  BY <1>2, <1>3, <1>4, <1>5
     DEF Next, PageStep, RequestStep, Publish, Post, Store, ReadFails, ReadSnapshot, CopyClients,
         Accept, pageVars

\* Who is registered has a handler that will unregister it, only an open
\* connection carries messages, and a view is of the newest entries.
IsNewest(part, limit) == part.first = 1 \/ part.first = part.last - limit + 1
Sockets ==
  /\ handler \in [Connections -> {"none", "starting", "receiving", "returned"}]
  /\ socket \in [Pages -> [number : 0..MaxConnections, up : BOOLEAN]]
  /\ clients \subseteq {c \in Connections : handler[c] = "receiving"}
  /\ \A c \in Connections : c[2] > socket[c[1]].number => handler[c] = "none"
  /\ \A p \in Pages : wire[p] # <<>> => socket[p].up
  /\ \A r \in Requests :
       snapshot[r].last - snapshot[r].first < Limit /\ IsNewest(snapshot[r], Limit)

(* A connection is in the set of clients from its handler's start to its   *)
(* end, whatever the senders do meanwhile (AttackMapServer.py:112-135).    *)
LEMMA SocketsKept == Typed /\ Steps /\ Sockets /\ [Next]_vars => Sockets'
<1> SUFFICES ASSUME Typed, Steps, Sockets, [Next]_vars PROVE Sockets'
  OBVIOUS
<1>0. Limit \in Nat \ {0} /\ MaxConnections \in Nat
  BY MapServerAssumption
<1>1. ASSUME NEW r \in Requests,
             Post(r) \/ Store(r) \/ ReadFails(r) \/ CopyClients(r) \/ Accept(r)
      PROVE  Sockets'
  BY <1>1 DEF Post, Store, ReadFails, CopyClients, Accept, Sockets, publication, pageVars
<1>2. ASSUME NEW r \in Requests, ReadSnapshot(r) PROVE Sockets'
  <2>1. Newest(Limit).last - Newest(Limit).first < Limit /\ IsNewest(Newest(Limit), Limit)
    BY <1>0 DEF Newest, Typed, IsNewest
  <2>2. UNCHANGED <<clients, handler, pageVars>>
    BY <1>2 DEF ReadSnapshot
  <2>3. \A q \in Requests :
          snapshot'[q].last - snapshot'[q].first < Limit /\ IsNewest(snapshot'[q], Limit)
    <3>1. snapshot' = [snapshot EXCEPT ![r] = Newest(Limit)] \/ snapshot' = snapshot
      BY <1>2, ReadingEnds
    <3>2. snapshot'[r] \in {snapshot[r], Newest(Limit)}
          /\ \A q \in Requests : q # r => snapshot'[q] = snapshot[q]
      BY <3>1 DEF Typed
    <3>3. QED
      BY <2>1, <3>2 DEF Sockets
  <2>4. QED
    BY <2>2, <2>3 DEF Sockets, pageVars
<1>3. ASSUME NEW r \in Requests, Send(r) PROVE Sockets'
  <2>1. /\ clients' \subseteq clients /\ UNCHANGED <<snapshot, handler, socket>>
        /\ \A p \in Pages : wire'[p] # <<>> => wire[p] # <<>> \/ socket[p].up
    <3>1. \A c \in Connections : Up(c) => socket[c[1]].up
      BY DEF Up
    <3>2. targets[r] \subseteq Connections
      BY DEF Typed
    <3>3. QED
      BY <1>3, <3>1, <3>2 DEF Send, Typed
  <2>2. QED
    BY <2>1 DEF Sockets
<1>4. ASSUME NEW c \in Connections, Register(c) \/ Unregister(c) PROVE Sockets'
  <2>1. UNCHANGED <<snapshot, pageVars>> /\ handler[c] # "none"
    BY <1>4 DEF Register, Unregister, publication
  <2>2. handler' \in [Connections -> {"none", "starting", "receiving", "returned"}]
    BY <1>4 DEF Register, Unregister, Sockets
  <2>3. \A d \in Connections : handler[d] = "none" => handler'[d] = "none"
    BY <1>4 DEF Register, Unregister, Sockets
  <2>4. clients' \subseteq {d \in Connections : handler'[d] = "receiving"}
    BY <1>4 DEF Register, Unregister, Sockets
  <2>5. QED
    BY <2>1, <2>2, <2>3, <2>4 DEF Sockets, pageVars
<1>5. ASSUME NEW p \in Pages, Connect(p) PROVE Sockets'
  <2>1. socket[p] \in [number : 0..MaxConnections, up : BOOLEAN]
    BY DEF Sockets
  <2> DEFINE n == socket[p].number + 1
  <2>2. /\ n \in 1..MaxConnections /\ <<p, n>> \in Connections
        /\ socket' = [socket EXCEPT ![p] = [number |-> n, up |-> TRUE]]
        /\ handler' = [handler EXCEPT ![<<p, n>>] = "starting"]
        /\ UNCHANGED <<snapshot, clients, wire>>
    BY <1>0, <1>5, <2>1 DEF Connect, Connections, publication
  <2>3. handler[<<p, n>>] = "none"
    BY <2>1, <2>2 DEF Sockets
  <2>4. handler' \in [Connections -> {"none", "starting", "receiving", "returned"}]
    BY <2>2 DEF Sockets
  <2>5. socket' \in [Pages -> [number : 0..MaxConnections, up : BOOLEAN]]
    BY <2>2 DEF Sockets
  <2>6. clients' \subseteq {d \in Connections : handler'[d] = "receiving"}
    BY <2>2, <2>3 DEF Sockets
  <2>7. ASSUME NEW c \in Connections, c[2] > socket'[c[1]].number PROVE handler'[c] = "none"
    <3>1. c[1] \in Pages /\ c[2] \in 1..MaxConnections
      BY DEF Connections
    <3>2. CASE c[1] = p
      <4>1. c[2] > n
        BY <2>2, <2>7, <3>1, <3>2 DEF Sockets
      <4>2. c # <<p, n>> /\ c[2] > socket[c[1]].number
        BY <2>1, <3>1, <3>2, <4>1
      <4>3. QED
        BY <2>2, <4>2 DEF Sockets
    <3>3. CASE c[1] # p
      <4>1. c # <<p, n>> /\ socket'[c[1]] = socket[c[1]]
        BY <2>2, <3>1, <3>3 DEF Sockets
      <4>2. QED
        BY <2>2, <2>7, <4>1 DEF Sockets
    <3>4. QED
      BY <3>2, <3>3
  <2>8. \A q \in Pages : wire'[q] # <<>> => socket'[q].up
    BY <2>2 DEF Sockets
  <2>9. QED
    BY <2>2, <2>4, <2>5, <2>6, <2>7, <2>8 DEF Sockets
<1>6. ASSUME NEW p \in Pages, Disconnect(p) PROVE Sockets'
  <2>1. /\ \A q \in Pages : q # p => socket'[q] = socket[q] /\ wire'[q] = wire[q]
        /\ wire'[p] = <<>> /\ UNCHANGED <<snapshot, clients, handler>>
    BY <1>6 DEF Disconnect, Typed, Sockets, publication
  <2>2. socket'[p] = [socket[p] EXCEPT !.up = FALSE]
    BY <1>6 DEF Disconnect, Sockets
  <2>3. socket'[p].number = socket[p].number
    BY <2>2 DEF Sockets
  <2>4. socket' \in [Pages -> [number : 0..MaxConnections, up : BOOLEAN]]
    BY <1>6, <2>2 DEF Disconnect, Sockets
  <2>5. \A c \in Connections : socket'[c[1]].number = socket[c[1]].number
    BY <2>1, <2>3 DEF Connections
  <2>6. QED
    BY <2>1, <2>4, <2>5 DEF Sockets
<1>7. ASSUME NEW p \in Pages, RenderMessage(p) \/ Load(p) PROVE Sockets'
  <2>1. UNCHANGED <<snapshot, clients, handler, socket>>
    BY <1>7 DEF RenderMessage, Load, publication
  <2>2. \A q \in Pages : wire'[q] # <<>> => wire[q] # <<>>
    BY <1>7 DEF RenderMessage, Load, Typed
  <2>3. QED
    BY <2>1, <2>2 DEF Sockets
<1>8. CASE UNCHANGED vars
  BY <1>8 DEF vars, publication, pageVars, Sockets
<1>9. QED
  BY <1>1, <1>2, <1>3, <1>4, <1>5, <1>6, <1>7, <1>8 DEF Next, Publish

-----------------------------------------------------------------------------
(* Together: the invariant holds throughout (AttackMapServer.py:112-191).  *)
LEMMA IInvAlways == Spec => []IInv
<1>1. IInv /\ [Next]_vars => IInv'
  BY TypedKept, StepsKept, ViewsKept, MessagesKept DEF IInv
<1>2. QED
  BY <1>1, IInvStarts, PTL DEF Spec

(* For any number of requests, pages and connections: a page goes back to  *)
(* an older view only between requests that overlapped                     *)
(* (AttackMapServer.py:126-135, 168-177).                                  *)
THEOREM MessagesFollow == Spec => []MessagesFollowThePosts
<1>1. IInv => MessagesFollowThePosts
  <2>1. SUFFICES ASSUME IInv, NEW p \in Pages,
                        NEW i \in DOMAIN rendered[p], NEW j \in DOMAIN rendered[p], i < j
                 PROVE  LET one == rendered[p][i]  two == rendered[p][j]
                        IN  /\ two \notin before[one]
                            /\ one \in before[two] => snapshot[one].last <= snapshot[two].last
    BY DEF MessagesFollowThePosts
  <2>2. rendered[p][j] \in Requests
    BY <2>1 DEF IInv, Typed
  <2>3. NotBefore(rendered[p][i], rendered[p][j]) /\ Published(rendered[p][j])
    BY <2>1 DEF IInv, Messages
  <2>4. QED
    BY <2>1, <2>2, <2>3 DEF IInv, Views, NotBefore
<1>2. QED
  BY <1>1, IInvAlways, PTL

(* The same for the invariant of the connections                           *)
(* (AttackMapServer.py:112-135).                                           *)
LEMMA SocketsAlways == Spec => []Sockets
<1>1. Init => Sockets
  BY MapServerAssumption DEF Init, Sockets, Nothing, Connections, IsNewest
<1>2. IInv /\ Sockets /\ [Next]_vars => Sockets'
  BY SocketsKept DEF IInv
<1>3. QED
  BY <1>1, <1>2, IInvAlways, PTL DEF Spec

(* Of an event that was stored when a view was read, the view has it or as *)
(* many newer ones as its limit (AttackMapServer.py:92).                   *)
LEMMA NewestCover ==
  ASSUME NEW limit \in Int, NEW part, part.first \in Int, part.last \in Int,
         IsNewest(part, limit), NEW i \in Nat \ {0}, i <= part.last
  PROVE  Covers(part, limit, i)
BY DEF IsNewest, Covers

(* For any number of concurrent requests, any bodies and limits: what a    *)
(* request publishes has its own lines and all that was stored by requests *)
(* answered before it arrived, but for those older than the Limit newest   *)
(* (AttackMapServer.py:92, 160-176).                                       *)
THEOREM SnapshotsCover == Spec => []SnapshotsCoverTheAnswered
<1>1. IInv /\ Sockets => SnapshotsCoverTheAnswered
  <2>1. SUFFICES ASSUME IInv, Sockets, NEW r \in Requests, Published(r),
                        NEW i \in Stored({r} \cup before[r])
                 PROVE  Covers(snapshot[r], Limit, i)
    BY DEF SnapshotsCoverTheAnswered
  <2>2. i \in Nat \ {0} /\ i <= snapshot[r].last
    BY <2>1 DEF IInv, Views, Stored
  <2>3. /\ snapshot[r].first \in Int /\ snapshot[r].last \in Int /\ Limit \in Int
        /\ IsNewest(snapshot[r], Limit)
    BY <2>1, MapServerAssumption DEF IInv, Typed, Sockets
  <2>4. QED
    BY <2>2, <2>3, NewestCover
<1>2. QED
  BY <1>1, IInvAlways, SocketsAlways, PTL

(* For any number of requests, pages and connections: types, the phases of *)
(* a request, the limit of a snapshot, and that whoever is registered has  *)
(* a handler to unregister it (AttackMapServer.py:112-181).                *)
THEOREM TypeCorrect == Spec => []TypeOK
<1>1. IInv /\ Sockets => TypeOK
  BY DEF IInv, Typed, Steps, Views, Sockets, State, TypeOK
<1>2. QED
  BY <1>1, IInvAlways, SocketsAlways, PTL

-----------------------------------------------------------------------------
(* What a page misses after a load: nothing.                               *)

\* Who has stored a line has counted it, or was answered 503.
Accounted ==
  \A i \in 1..Len(stream) :
    LET r == stream[i].from
    IN  request[r].step # "none" /\ (request[r].accepted > 0 \/ request[r].answer = 503)

\* A page whose last load was on the connection it has is still registered.
Current(p) == socket[p].up /\ loaded[p].on = socket[p].number
Loads ==
  /\ loaded \in [Pages -> [first : Int, last : Nat, on : Nat]]
  /\ \A p \in Pages : IsNewest(loaded[p], PageLimit)
  /\ \A p \in Pages : loaded[p].on <= socket[p].number
  /\ \A p \in Pages : Current(p) => <<p, socket[p].number>> \in clients

\* Whatever was stored after the load, its request tells the page or will.
Told(p, r) == r \in Range(rendered[p]) \/ r \in Range(wire[p])
WillBeTold(p, r) ==
  request[r].step = "sending" \/ request[r].answer = 202 =>
    Told(p, r) \/ <<p, socket[p].number>> \in targets[r]
Informed ==
  \A p \in Pages : Current(p) =>
    \A i \in 1..Len(stream) : loaded[p].last < i => WillBeTold(p, stream[i].from)

(* A thread that stores a line counts it or answers 503, and takes no line *)
(* off its count (AttackMapServer.py:158-181).                             *)
LEMMA OwnCount ==
  ASSUME Typed, Steps, NEW r \in Requests, RequestStep(r)
  PROVE  /\ request'[r].step # "none"
         /\ stream' # stream =>
              /\ request'[r].accepted > 0 \/ request'[r].answer = 503
              /\ request'[r].step # "sending" /\ request'[r].answer # 202
         /\ request[r].step # "none" => request'[r].accepted >= request[r].accepted
         /\ request[r].accepted \in Nat /\ request'[r].accepted \in Int
<1>0. {202, 400, 413, 503} \subseteq Answers /\ {"copying", "sending"} \subseteq Step
  BY DEF Answers, Step
<1>1. request[r] \in State /\ request[r].accepted \in Nat
  BY DEF Typed, State
<1>2. request'[r].accepted \in Int
  <2>1. Typed'
    BY TypedKept DEF Next, RequestStep, Publish
  <2>2. QED
    BY <2>1 DEF Typed, State
<1>3. CASE Post(r)
  <2>1. \A body \in Bodies : body \in Seq(Lines)
    BY MapServerAssumption
  <2>2. request'[r].step \in {"answered", "adding"}
    BY <1>0, <1>3, <2>1, AnswerChanges, ArriveChanges DEF Post, RefuseLength, RefuseBody
  <2>3. stream' = stream /\ request[r].step = "none"
    BY <1>3 DEF Post, RefuseLength, RefuseBody, Arrive
  <2>4. QED
    BY <1>1, <1>2, <2>2, <2>3
<1>4. CASE AddLine(r)
  <2>1. request'[r].accepted = request[r].accepted + 1
    BY <1>1, <1>4 DEF AddLine, Typed, State
  <2>2. request'[r].step = "adding" /\ request'[r].answer = 0
    BY <1>4, AddLineChanges DEF AddLine, Unread, Steps
  <2>3. QED
    BY <1>1, <1>2, <2>1, <2>2
<1>5. CASE RefuseLine(r) \/ AddFails(r) \/ AnswerNothing(r) \/ ReadFails(r) \/ Accept(r)
  <2>1. /\ request'[r].step = "answered" /\ request'[r].accepted = request[r].accepted
        /\ AddFails(r) => request'[r].answer = 503
    BY <1>0, <1>5, AnswerChanges DEF RefuseLine, AddFails, AnswerNothing, ReadFails, Accept
  <2>2. ~AddFails(r) => stream' = stream
    BY <1>5 DEF RefuseLine, AnswerNothing, ReadFails, Accept
  <2>3. QED
    BY <1>1, <1>2, <2>1, <2>2
<1>6. CASE ReadSnapshot(r) \/ CopyClients(r)
  <2>1. /\ request'[r].step # "none" /\ request'[r].accepted = request[r].accepted
    BY <1>0, <1>6, ReadingEnds, AnswerChanges, MoveChanges DEF CopyClients
  <2>2. QED
    BY <1>1, <1>2, <1>6, <2>1 DEF ReadSnapshot, CopyClients
<1>7. CASE Send(r)
  BY <1>1, <1>2, <1>7 DEF Send, Steps, ingestVars
<1>8. QED
  BY <1>3, <1>4, <1>5, <1>6, <1>7 DEF RequestStep, Store

(* An entry of the stream names its request (AttackMapServer.py:164).      *)
LEMMA EntriesAreOfRequests ==
  ASSUME Typed
  PROVE  \A i \in 1..Len(stream) : stream[i].from \in Requests
<1>1. SUFFICES ASSUME NEW i \in 1..Len(stream) PROVE stream[i].from \in Requests
  OBVIOUS
<1> DEFINE Entry == [from : Requests, line : Lines]
<1>2. stream[i] \in Entry
  <2>1. stream \in Seq(Entry)
    BY DEF Typed
  <2> HIDE DEF Entry
  <2>2. QED
    BY <2>1
<1>3. QED
  BY <1>2

(* Lines stay counted (AttackMapServer.py:158-181).                        *)
LEMMA AccountedKept == Typed /\ Steps /\ Accounted /\ [Next]_vars => Accounted'
<1> SUFFICES ASSUME Typed, Steps, Accounted, [Next]_vars PROVE Accounted'
  OBVIOUS
<1>1. ASSUME NEW r \in Requests, RequestStep(r) PROVE Accounted'
  <2>1. Own(r)
    BY <1>1, RequestsKeepToThemselves
  <2>2. SUFFICES ASSUME NEW i \in 1..Len(stream')
                 PROVE  /\ request'[stream'[i].from].step # "none"
                        /\ \/ request'[stream'[i].from].accepted > 0
                           \/ request'[stream'[i].from].answer = 503
    BY DEF Accounted
  <2>3. CASE i \in 1..Len(stream)
    <3>1. stream'[i] = stream[i] /\ stream[i].from \in Requests
      <4>1. stream[i].from \in Requests
        BY <2>3, EntriesAreOfRequests
      <4>2. stream'[i] = stream[i]
        BY <2>1, <2>3, AddedLine DEF Own
      <4>3. QED
        BY <4>1, <4>2
    <3>2. CASE stream[i].from = r
      <4>1. request[r].step # "none" /\ request[r].accepted > 0
        BY <2>1, <2>3, <3>2 DEF Accounted, Own, Steps
      <4>2. request'[r].accepted >= request[r].accepted /\ request'[r].step # "none"
            /\ request[r].accepted \in Nat /\ request'[r].accepted \in Int
        BY <1>1, <4>1, OwnCount
      <4>3. QED
        BY <3>1, <3>2, <4>1, <4>2
    <3>3. CASE stream[i].from # r
      <4>1. request'[stream[i].from] = request[stream[i].from]
        BY <2>1, <3>1, <3>3 DEF Own
      <4>2. QED
        BY <2>3, <3>1, <4>1 DEF Accounted
    <3>4. QED
      BY <3>2, <3>3
  <2>4. CASE i \notin 1..Len(stream)
    <3>1. stream' # stream /\ stream'[i].from = r
      <4>1. /\ Unread(r) /\ stream' = Append(stream, [from |-> r, line |-> NextLine(r)])
        BY <2>1, <2>4 DEF Own
      <4>2. Len(stream') = Len(stream) + 1 /\ stream'[Len(stream) + 1].from = r
        BY <4>1, AddedLine
      <4>3. i = Len(stream) + 1
        BY <2>4, <4>2 DEF Typed
      <4>4. QED
        BY <2>4, <4>2, <4>3
    <3>2. QED
      BY <1>1, <3>1, OwnCount
  <2>5. QED
    BY <2>3, <2>4
<1>2. CASE PageStep
  BY <1>2, PagesOnlyWatch DEF RequestsRest, ingestVars, Accounted
<1>3. CASE UNCHANGED vars
  BY <1>3 DEF vars, ingestVars, Accounted
<1>4. QED
  BY <1>1, <1>2, <1>3 DEF Next, Publish, PageStep, RequestStep

(* A page's connection stays in the set of clients while it is up          *)
(* (AttackMapServer.py:112-135).                                           *)
LEMMA LoadsKept == Typed /\ Sockets /\ Loads /\ [Next]_vars => Loads'
<1> SUFFICES ASSUME Typed, Sockets, Loads, [Next]_vars PROVE Loads'
  OBVIOUS
<1>0. \A p \in Pages : socket[p].up => Up(<<p, socket[p].number>>)
  BY DEF Up, Sockets
<1>1. ASSUME UNCHANGED <<socket, loaded>>,
             \A c \in clients : Up(c) => c \in clients'
      PROVE  Loads'
  BY <1>0, <1>1 DEF Loads, Current
<1>2. ASSUME NEW r \in Requests, RequestStep(r) PROVE Loads'
  BY <1>1, <1>2 DEF RequestStep, Post, Store, ReadFails, ReadSnapshot, CopyClients, Send, Accept,
     pageVars
<1>3. ASSUME NEW c \in Connections, Register(c) \/ Unregister(c) PROVE Loads'
  BY <1>1, <1>3 DEF Register, Unregister, pageVars
<1>4. ASSUME NEW p \in Pages, RenderMessage(p) PROVE Loads'
  BY <1>1, <1>4 DEF RenderMessage
<1>5. ASSUME NEW p \in Pages, Connect(p) \/ Disconnect(p) PROVE Loads'
  <2>1. /\ UNCHANGED <<loaded, clients>>
        /\ \A q \in Pages : q # p => socket'[q] = socket[q]
        /\ \/ socket'[p] = [number |-> socket[p].number + 1, up |-> TRUE]
           \/ socket'[p].number = socket[p].number /\ ~socket'[p].up
    <3>1. socket \in [Pages -> [number : Int, up : BOOLEAN]]
      BY DEF Sockets
    <3>2. CASE Connect(p)
      BY <3>1, <3>2 DEF Connect
    <3>3. CASE Disconnect(p)
      <4>1. /\ socket' = [socket EXCEPT ![p].up = FALSE]
            /\ UNCHANGED <<loaded, clients>>
        BY <3>3 DEF Disconnect
      <4>2. socket'[p] = [socket[p] EXCEPT !.up = FALSE]
        BY <3>1, <4>1
      <4>3. QED
        BY <3>1, <4>1, <4>2
    <3>4. QED
      BY <1>5, <3>2, <3>3
  <2>2. loaded[p].on \in Int /\ loaded[p].on <= socket[p].number /\ socket[p].number \in Int
    BY DEF Loads, Sockets
  <2>3. loaded'[p].on <= socket'[p].number /\ ~Current(p)'
    BY <2>1, <2>2 DEF Current
  <2>4. \A q \in Pages : q # p => (Current(q)' <=> Current(q))
    BY <2>1 DEF Current
  <2>5. QED
    BY <2>1, <2>3, <2>4 DEF Loads
<1>6. ASSUME NEW p \in Pages, Load(p) PROVE Loads'
  <2>1. /\ UNCHANGED <<socket, clients>> /\ socket[p].number \in Nat
        /\ <<p, socket[p].number>> \in clients /\ Len(stream) \in Nat
    BY <1>6 DEF Load, Registered, Sockets, Typed
  <2>2. PICK got \in [first : Int, last : Nat, on : Nat] :
          /\ loaded' = [loaded EXCEPT ![p] = got]
          /\ got.on = socket[p].number /\ IsNewest(got, PageLimit)
    <3> DEFINE view == Newest(PageLimit)
               load == [first |-> view.first, last |-> view.last, on |-> socket[p].number]
    <3>1. view.first \in Int /\ view.last \in Nat /\ IsNewest(view, PageLimit)
      BY MapServerAssumption DEF Newest, IsNewest, Typed
    <3>2. loaded' = [loaded EXCEPT ![p] = load]
      BY <1>6 DEF Load
    <3> HIDE DEF view
    <3>3. load \in [first : Int, last : Nat, on : Nat] /\ IsNewest(load, PageLimit)
      BY <2>1, <3>1 DEF IsNewest
    <3>4. QED
      BY <3>2, <3>3
  <2>3. /\ loaded'[p] = got /\ loaded'[p].on = socket[p].number
        /\ \A q \in Pages : q # p => loaded'[q] = loaded[q]
    BY <2>2 DEF Loads
  <2>7. /\ loaded' \in [Pages -> [first : Int, last : Nat, on : Nat]]
        /\ \A q \in Pages : IsNewest(loaded'[q], PageLimit)
    <3>1. loaded' \in [Pages -> [first : Int, last : Nat, on : Nat]]
      BY <2>2 DEF Loads
    <3>2. ASSUME NEW q \in Pages PROVE IsNewest(loaded'[q], PageLimit)
      BY <2>2, <2>3 DEF Loads, IsNewest
    <3>3. QED
      BY <3>1, <3>2
  <2>8. /\ \A q \in Pages : loaded[q].on <= socket[q].number
        /\ \A q \in Pages : Current(q) => <<q, socket[q].number>> \in clients
    BY DEF Loads
  <2>4. \A q \in Pages : loaded'[q].on <= socket'[q].number
    BY <2>1, <2>3, <2>8
  <2>5. \A q \in Pages : Current(q)' => <<q, socket'[q].number>> \in clients'
    BY <2>1, <2>3, <2>8 DEF Current
  <2>6. QED
    BY <2>7, <2>4, <2>5 DEF Loads
<1>7. CASE UNCHANGED vars
  BY <1>1, <1>7 DEF vars, pageVars
<1>8. QED
  BY <1>2, <1>3, <1>4, <1>5, <1>6, <1>7 DEF Next, Publish, RequestStep

(* A request's messages reach whoever was registered when it copied the    *)
(* clients and is up when it sends (AttackMapServer.py:126-135).           *)
LEMMA OwnTargets ==
  ASSUME Typed, Steps, Sockets, Loads, NEW r \in Requests, RequestStep(r),
         NEW p \in Pages, Current(p),
         request'[r].step = "sending" \/ request'[r].answer = 202, request'[r].accepted > 0
  PROVE  LET c == <<p, socket[p].number>> IN
         \/ request[r].step = "sending" /\ (c \in targets[r] => c \in targets'[r] \/ Told(p, r)')
         \/ c \in targets'[r]
<1> DEFINE c == <<p, socket[p].number>>
<1>0. {202, 400, 413, 503} \subseteq Answers /\ {"copying", "sending"} \subseteq Step
  BY DEF Answers, Step
<1>1. c \in clients /\ Up(c)
  BY DEF Loads, Current, Up, Sockets
<1>2. CASE Post(r) \/ ReadFails(r) \/ ReadSnapshot(r)
  <2>1. \A body \in Bodies : body \in Seq(Lines)
    BY MapServerAssumption
  <2>2. request[r].answer = 0
    BY <1>2 DEF Post, RefuseLength, RefuseBody, Arrive, ReadFails, ReadSnapshot, AllRead, Steps
  <2>3. request'[r].step # "sending" /\ request'[r].answer # 202
    BY <1>0, <1>2, <2>1, <2>2, ReadingEnds, AnswerChanges, ArriveChanges, MoveChanges
       DEF Post, RefuseLength, RefuseBody, ReadFails
  <2>4. QED
    BY <2>3
<1>3. CASE Store(r)
  <2>1. request[r].answer = 0
    BY <1>3 DEF Store, AddLine, RefuseLine, AddFails, AnswerNothing, Unread, AllRead, Steps
  <2>2. AnswerNothing(r) \/ (request'[r].step # "sending" /\ request'[r].answer # 202)
    BY <1>0, <1>3, <2>1, AnswerChanges, AddLineChanges DEF Store, RefuseLine, AddFails
  <2>3. ~AnswerNothing(r)
    BY <1>0, AnswerChanges DEF AnswerNothing
  <2>4. QED
    BY <2>2, <2>3
<1>4. CASE CopyClients(r)
  BY <1>1, <1>4 DEF CopyClients, Typed
<1>5. CASE Send(r)
  <2>1. PICK d \in targets[r] :
          /\ targets' = [targets EXCEPT ![r] = @ \ {d}]
          /\ Up(d) => wire' = [wire EXCEPT ![d[1]] = Append(@, r)]
    BY <1>5 DEF Send
  <2>2. request[r].step = "sending"
    BY <2>1 DEF Steps
  <2>3. CASE c = d
    <3>0. d[1] = p /\ Up(d)
      BY <1>1, <2>3
    <3>1. wire'[p] = Append(wire[p], r) /\ wire[p] \in Seq(Requests)
      <4>1. wire' = [wire EXCEPT ![p] = Append(@, r)]
        BY <2>1, <3>0
      <4>2. QED
        BY <4>1 DEF Typed
    <3>2. wire'[p][Len(wire[p]) + 1] = r /\ Len(wire[p]) + 1 \in DOMAIN wire'[p]
      BY <3>1
    <3>3. Told(p, r)'
      BY <3>2 DEF Told, Range
    <3>4. QED
      BY <2>2, <3>3
  <2>4. CASE c # d
    BY <2>1, <2>2, <2>4 DEF Typed
  <2>5. QED
    BY <2>3, <2>4
<1>6. CASE Accept(r)
  BY <1>6 DEF Accept
<1>7. QED
  BY <1>2, <1>3, <1>4, <1>5, <1>6 DEF RequestStep

(* A page that has loaded is told of every later line by the request that  *)
(* stored it (AttackMapServer.py:126-135, 160-177).                        *)
LEMMA InformedKept ==
  Typed /\ Steps /\ Sockets /\ Accounted /\ Loads /\ Informed /\ [Next]_vars => Informed'
<1> SUFFICES ASSUME Typed, Steps, Sockets, Accounted, Loads, Informed, [Next]_vars
             PROVE  Informed'
  OBVIOUS
<1>1. ASSUME NEW r \in Requests, RequestStep(r) PROVE Informed'
  <2>1. Own(r) /\ Accounted'
    BY <1>1, RequestsKeepToThemselves, AccountedKept
  <2>2. UNCHANGED <<socket, loaded>>
    BY <1>1 DEF RequestStep, Post, Store, ReadFails, ReadSnapshot, CopyClients, Send, Accept,
       pageVars
  <2>3. \A p \in Pages, q \in Requests : Told(p, q) => Told(p, q)'
    <3>1. CASE UNCHANGED <<wire, rendered>>
      BY <3>1 DEF Told
    <3>2. CASE Send(r)
      <4>1. PICK c \in Connections :
              \/ UNCHANGED wire
              \/ c[1] \in Pages /\ wire' = [wire EXCEPT ![c[1]] = Append(@, r)]
        <5>1. targets[r] \subseteq Connections /\ \A c \in Connections : c[1] \in Pages
          BY DEF Typed, Connections
        <5>2. QED
          BY <3>2, <5>1 DEF Send
      <4>2. \A p \in Pages : Range(wire[p]) \subseteq Range(wire'[p])
        <5>1. ASSUME NEW p \in Pages, wire'[p] = Append(wire[p], r)
              PROVE  Range(wire[p]) \subseteq Range(wire'[p])
          <6>1. wire[p] \in Seq(Requests)
            BY DEF Typed
          <6>2. \A k \in DOMAIN wire[p] : k \in DOMAIN wire'[p] /\ wire'[p][k] = wire[p][k]
            BY <5>1, <6>1
          <6>3. QED
            BY <6>2 DEF Range
        <5>2. QED
          BY <4>1, <5>1 DEF Typed
      <4>3. QED
        BY <3>2, <4>2 DEF Send, Told
    <3>3. QED
      BY <1>1, <3>1, <3>2
         DEF RequestStep, Post, Store, ReadFails, ReadSnapshot, CopyClients, Accept, pageVars
  <2>4. SUFFICES ASSUME NEW p \in Pages, Current(p),
                        NEW i \in 1..Len(stream'), loaded[p].last < i,
                        NEW q, q = stream'[i].from,
                        request'[q].step = "sending" \/ request'[q].answer = 202
                 PROVE  Told(p, q)' \/ <<p, socket[p].number>> \in targets'[q]
    <3>1. \A p \in Pages : Current(p)' <=> Current(p)
      BY <2>2 DEF Current
    <3>2. SUFFICES ASSUME NEW p \in Pages, Current(p), NEW i \in 1..Len(stream'), loaded[p].last < i,
                          NEW q, q = stream'[i].from
                   PROVE  WillBeTold(p, q)'
      BY <2>2, <3>1 DEF Informed, WillBeTold, Told
    <3>3. QED
      BY <2>2, <2>4, <3>2 DEF WillBeTold
  <2>5. i \in 1..Len(stream)
    <3>1. CASE stream' = stream
      BY <3>1
    <3>2. CASE stream' # stream
      <4>1. Len(stream') = Len(stream) + 1 /\ stream'[Len(stream) + 1].from = r
        BY <2>1, <3>2, AddedLine DEF Own
      <4>2. stream'[i].from # r
        BY <1>1, <2>4, <3>2, OwnCount
      <4>3. Len(stream) \in Nat
        BY DEF Typed
      <4>4. QED
        BY <4>1, <4>2, <4>3
    <3>3. QED
      BY <3>1, <3>2
  <2>6. q = stream[i].from /\ q \in Requests
    BY <2>1, <2>4, <2>5, AddedLine, EntriesAreOfRequests DEF Own
  <2>7. WillBeTold(p, q)
    BY <2>4, <2>5, <2>6 DEF Informed
  <2>8. CASE q # r
    <3>1. request'[q] = request[q] /\ targets'[q] = targets[q]
      BY <2>1, <2>6, <2>8 DEF Own
    <3>2. Told(p, q) \/ <<p, socket[p].number>> \in targets[q]
      BY <2>4, <2>7, <3>1 DEF WillBeTold
    <3>3. QED
      BY <2>3, <2>6, <3>1, <3>2
  <2>9. CASE q = r
    <3>1. request'[r].accepted > 0
      <4>1. request'[r].accepted > 0 \/ request'[r].answer = 503
        <5>1. \A k \in 1..Len(stream') :
                 request'[stream'[k].from].accepted > 0 \/ request'[stream'[k].from].answer = 503
          BY <2>1 DEF Accounted
        <5>2. i \in 1..Len(stream') /\ stream'[i].from = r
          BY <2>4, <2>9
        <5>3. QED
          BY <5>1, <5>2
      <4>2. request'[r].answer # 503
        <5>1. (request'[r].step = "answered") <=> (request'[r].answer # 0)
          BY <1>1, OwnRequestAfter
        <5>2. request'[r].step = "sending" \/ request'[r].answer = 202
          BY <2>4, <2>9
        <5>3. QED
          BY <5>1, <5>2
      <4>3. QED
        BY <4>1, <4>2
    <3>2. \/ /\ request[r].step = "sending"
             /\ <<p, socket[p].number>> \in targets[r] =>
                  <<p, socket[p].number>> \in targets'[r] \/ Told(p, r)'
          \/ <<p, socket[p].number>> \in targets'[r]
      BY <1>1, <2>4, <2>9, <3>1, OwnTargets
    <3>3. request[r].step = "sending" =>
            Told(p, r) \/ <<p, socket[p].number>> \in targets[r]
      BY <2>7, <2>9 DEF WillBeTold
    <3>4. Told(p, r) => Told(p, r)'
      BY <2>3
    <3>5. QED
      BY <2>9, <3>2, <3>3, <3>4
  <2>10. QED
    BY <2>8, <2>9
<1>2. ASSUME RequestsRest, NEW p \in Pages,
             \A q \in Pages : q # p => /\ Current(q)' => Current(q)
                                       /\ loaded'[q] = loaded[q] /\ socket'[q] = socket[q]
                                       /\ rendered'[q] = rendered[q] /\ wire'[q] = wire[q],
             Current(p)' => \A i \in 1..Len(stream) : loaded'[p].last < i =>
               /\ Current(p) /\ loaded[p].last < i /\ socket'[p] = socket[p]
               /\ \A r \in Requests : Told(p, r) => Told(p, r)'
      PROVE  Informed'
  <2>1. UNCHANGED <<stream, request, targets>>
    BY <1>2 DEF RequestsRest, ingestVars, publication
  <2>2. SUFFICES ASSUME NEW q \in Pages, Current(q)', NEW i \in 1..Len(stream), loaded'[q].last < i,
                        NEW r \in Requests, r = stream[i].from,
                        request[r].step = "sending" \/ request[r].answer = 202
                 PROVE  Told(q, r)' \/ <<q, socket'[q].number>> \in targets[r]
    <3>1. SUFFICES ASSUME NEW q \in Pages, Current(q)', NEW i \in 1..Len(stream), loaded'[q].last < i,
                          NEW r, r = stream[i].from
                   PROVE  WillBeTold(q, r)'
      BY <2>1 DEF Informed, WillBeTold, Told
    <3>2. r \in Requests
      BY <3>1, EntriesAreOfRequests
    <3>3. QED
      BY <2>1, <2>2, <3>1, <3>2 DEF WillBeTold
  <2>3. CASE q = p
    <3>1. Current(p) /\ loaded[p].last < i /\ socket'[p] = socket[p] /\ (Told(p, r) => Told(p, r)')
      BY <1>2, <2>2, <2>3
    <3>2. WillBeTold(p, r)
      BY <2>2, <3>1 DEF Informed
    <3>3. QED
      BY <2>2, <2>3, <3>1, <3>2 DEF WillBeTold
  <2>4. CASE q # p
    <3>1. /\ Current(q) /\ loaded[q].last < i /\ socket'[q] = socket[q]
          /\ rendered'[q] = rendered[q] /\ wire'[q] = wire[q]
      BY <1>2, <2>2, <2>4
    <3>2. WillBeTold(q, r)
      BY <2>2, <3>1 DEF Informed
    <3>3. Told(q, r) => Told(q, r)'
      BY <3>1 DEF Told
    <3>4. QED
      BY <2>2, <3>1, <3>2, <3>3 DEF WillBeTold
  <2>5. QED
    BY <2>3, <2>4
<1>3. ASSUME NEW p \in Pages, Connect(p) \/ Disconnect(p) PROVE Informed'
  <2>1. /\ RequestsRest /\ UNCHANGED <<loaded, rendered>>
        /\ \A q \in Pages : q # p => socket'[q] = socket[q] /\ wire'[q] = wire[q]
        /\ \/ socket'[p] = [number |-> socket[p].number + 1, up |-> TRUE]
           \/ ~socket'[p].up
    <3>1. socket \in [Pages -> [number : Int, up : BOOLEAN]]
      BY DEF Sockets
    <3>2. RequestsRest
      BY <1>3, PagesOnlyWatch DEF PageStep
    <3>3. CASE Connect(p)
      BY <3>1, <3>2, <3>3 DEF Connect
    <3>4. CASE Disconnect(p)
      <4>1. socket' = [socket EXCEPT ![p].up = FALSE] /\ UNCHANGED <<loaded, rendered>>
        BY <3>4 DEF Disconnect
      <4>2. socket'[p] = [socket[p] EXCEPT !.up = FALSE]
        BY <3>1, <4>1
      <4>3. \A q \in Pages : q # p => socket'[q] = socket[q] /\ wire'[q] = wire[q]
        BY <3>1, <3>4, <4>1 DEF Disconnect, Typed
      <4>4. QED
        BY <3>1, <3>2, <4>1, <4>2, <4>3
    <3>5. QED
      BY <1>3, <3>3, <3>4
  <2>2. loaded[p].on \in Int /\ loaded[p].on <= socket[p].number /\ socket[p].number \in Int
    BY DEF Loads, Sockets
  <2>3. ~Current(p)'
    BY <2>1, <2>2 DEF Current
  <2>4. \A q \in Pages : q # p => (Current(q)' => Current(q))
    BY <2>1 DEF Current
  <2>5. QED
    BY <1>2, <2>1, <2>3, <2>4
<1>4. ASSUME NEW p \in Pages, RenderMessage(p) PROVE Informed'
  <2>1. RequestsRest /\ UNCHANGED <<socket, loaded>>
    BY <1>4, PagesOnlyWatch DEF PageStep, RenderMessage
  <2>2. /\ \A q \in Pages : q # p => rendered'[q] = rendered[q] /\ wire'[q] = wire[q]
        /\ rendered'[p] = Append(rendered[p], Head(wire[p])) /\ wire'[p] = Tail(wire[p])
        /\ wire[p] # <<>> /\ wire[p] \in Seq(Requests) /\ rendered[p] \in Seq(Requests)
    BY <1>4 DEF RenderMessage, Typed
  <2>3. \A r \in Requests : Told(p, r) => Told(p, r)'
    <3>1. Range(rendered[p]) \subseteq Range(rendered'[p])
      <4>1. \A k \in DOMAIN rendered[p] :
               k \in DOMAIN rendered'[p] /\ rendered'[p][k] = rendered[p][k]
        BY <2>2
      <4>2. QED
        BY <4>1 DEF Range
    <3>2. ASSUME NEW k \in DOMAIN wire[p]
          PROVE  wire[p][k] \in Range(rendered'[p]) \cup Range(wire'[p])
      <4>1. CASE k = 1
        <5>1. rendered'[p][Len(rendered[p]) + 1] = wire[p][1]
              /\ Len(rendered[p]) + 1 \in DOMAIN rendered'[p]
          BY <2>2
        <5>2. QED
          BY <4>1, <5>1 DEF Range
      <4>2. CASE k # 1
        <5>1. wire'[p][k - 1] = wire[p][k] /\ k - 1 \in DOMAIN wire'[p]
          BY <2>2, <4>2
        <5>2. QED
          BY <5>1 DEF Range
      <4>3. QED
        BY <4>1, <4>2
    <3>3. QED
      BY <3>1, <3>2 DEF Told, Range
  <2>4. \A q \in Pages : Current(q)' <=> Current(q)
    BY <2>1 DEF Current
  <2>5. QED
    BY <1>2, <2>1, <2>2, <2>3, <2>4
<1>5. ASSUME NEW p \in Pages, Load(p) PROVE Informed'
  <2>1. RequestsRest /\ UNCHANGED <<socket, wire, rendered>>
    BY <1>5, PagesOnlyWatch DEF PageStep, Load
  <2>2. /\ loaded'[p].last = Len(stream)
        /\ \A q \in Pages : q # p => loaded'[q] = loaded[q]
    BY <1>5 DEF Load, Loads, Newest
  <2>3. \A i \in 1..Len(stream) : ~(loaded'[p].last < i)
    BY <2>2 DEF Typed
  <2>4. \A q \in Pages : q # p => (Current(q)' => Current(q))
    BY <2>1, <2>2 DEF Current
  <2>5. QED
    BY <1>2, <2>1, <2>2, <2>3, <2>4
<1>6. CASE UNCHANGED vars \/ \E c \in Connections : Register(c) \/ Unregister(c)
  <2>1. UNCHANGED <<ingestVars, publication, pageVars>>
    BY <1>6 DEF vars, Register, Unregister
  <2>2. QED
    BY <2>1 DEF ingestVars, publication, pageVars, Informed, WillBeTold, Current, Told
<1>7. QED
  BY <1>1, <1>3, <1>4, <1>5, <1>6 DEF Next, Publish, RequestStep

(* For any number of requests, pages and connections and any limits,       *)
(* whatever is lost, refused or fails: of a page that loaded while it was  *)
(* registered and has rendered its messages, each accepted event was in    *)
(* the view it loaded or in the message of the event's own request, or     *)
(* older than the newest ones that the limit leaves there                  *)
(* (AttackMapServer.py:38, 92, 112-135, 150-191).                          *)
THEOREM NothingIsMissed == Spec => []NothingMissedAfterALoad
<1> DEFINE Inv == Accounted /\ Loads /\ Informed
<1>1. Init => Inv
  BY DEF Init, IngestInit, Accounted, Loads, Informed, Current, NoLoad, IsNewest
<1>2. IInv /\ Sockets /\ Inv /\ [Next]_vars => Inv'
  BY AccountedKept, LoadsKept, InformedKept DEF IInv
<1>3. IInv /\ Sockets /\ Inv => NothingMissedAfterALoad
  <2>1. SUFFICES ASSUME IInv, Sockets, Inv, NEW p \in Pages, Registered(p), loaded[p].on = socket[p].number,
                        wire[p] = <<>>,
                        NEW i \in Stored({r \in Requests : request[r].answer = 202}),
                        ~Covers(loaded[p], PageLimit, i)
                 PROVE  /\ stream[i].from \in Range(rendered[p])
                        /\ Covers(snapshot[stream[i].from], Limit, i)
    BY DEF NothingMissedAfterALoad
  <2> DEFINE r == stream[i].from
  <2>2. i \in 1..Len(stream) /\ r \in Requests /\ request[r].answer = 202
    BY <2>1 DEF Stored
  <2>3. loaded[p].last < i /\ Current(p)
    <3>1. /\ loaded[p].first \in Int /\ loaded[p].last \in Int /\ PageLimit \in Int
          /\ IsNewest(loaded[p], PageLimit)
      BY <2>1, MapServerAssumption DEF Loads
    <3>2. i \in Nat \ {0}
      BY <2>2
    <3>3. ~(i <= loaded[p].last)
      BY <2>1, <3>1, <3>2, NewestCover
    <3>4. QED
      BY <2>1, <3>1, <3>2, <3>3 DEF Current, Registered
  <2>4. request[r].accepted > 0 /\ targets[r] = {}
    BY <2>1, <2>2 DEF Accounted, IInv, Steps
  <2>5. r \in Range(rendered[p])
    <3>1. Told(p, r)
      BY <2>1, <2>2, <2>3, <2>4 DEF Informed, WillBeTold
    <3>2. Range(<<>>) = {}
      BY DEF Range
    <3>3. QED
      BY <2>1, <3>1, <3>2 DEF Told
  <2>6. Covers(snapshot[r], Limit, i)
    <3>1. i <= snapshot[r].last /\ i \in Nat \ {0}
      BY <2>1, <2>2, <2>4 DEF IInv, Views, Published
    <3>2. \A q \in Requests :
            /\ snapshot[q].first \in Int /\ snapshot[q].last \in Int /\ Limit \in Int
            /\ IsNewest(snapshot[q], Limit)
      BY <2>1, MapServerAssumption DEF IInv, Typed, Sockets
    <3>3. QED
      BY <2>2, <3>1, <3>2, NewestCover
  <2>7. QED
    BY <2>5, <2>6
<1>4. QED
  BY <1>1, <1>2, <1>3, IInvAlways, SocketsAlways, PTL DEF Spec

-----------------------------------------------------------------------------
(* What one request has in a stream, and the lines of its body that these  *)
(* are, as facts about any stream.                                         *)
Entry == [from : Requests, line : Lines]
EntriesIn(s, r) == {i \in 1 .. Len(s) : s[i].from = r}
UpTo(s, r, i) == {j \in EntriesIn(s, r) : j <= i}
Begins(s, r, body) ==
  \A i \in EntriesIn(s, r) :
    /\ Cardinality(UpTo(s, r, i)) \in 1 .. Len(body)
    /\ s[i].line = body[Cardinality(UpTo(s, r, i))]
Adds(s, t, q, line) == t = Append(s, [from |-> q, line |-> line])

LEMMA EntriesFinite ==
  ASSUME NEW s \in Seq(Entry), NEW r
  PROVE  IsFiniteSet(EntriesIn(s, r)) /\ Cardinality(EntriesIn(s, r)) \in Nat
<1>1. IsFiniteSet(1 .. Len(s))
  BY FS_Interval
<1>2. EntriesIn(s, r) \subseteq 1 .. Len(s)
  BY DEF EntriesIn
<1>3. IsFiniteSet(EntriesIn(s, r))
  BY <1>1, <1>2, FS_Subset
<1> QED BY <1>3, FS_CardinalityType

LEMMA EntryAdded ==
  ASSUME NEW s \in Seq(Entry), NEW t, NEW q \in Requests, NEW line \in Lines, Adds(s, t, q, line)
  PROVE  /\ t \in Seq(Entry) /\ Len(t) = Len(s) + 1 /\ t[Len(t)].line = line
         /\ \A i \in 1 .. Len(s) : t[i] = s[i]
         /\ EntriesIn(t, q) = EntriesIn(s, q) \cup {Len(t)}
         /\ Cardinality(EntriesIn(t, q)) = Cardinality(EntriesIn(s, q)) + 1
         /\ UpTo(t, q, Len(t)) = EntriesIn(t, q)
         /\ \A r : r # q => EntriesIn(t, r) = EntriesIn(s, r)
         /\ \A r : \A i \in EntriesIn(s, r) : UpTo(t, r, i) = UpTo(s, r, i)
<1>1. PICK e, n : e = [from |-> q, line |-> line] /\ n = Len(s)
  OBVIOUS
<1>2. e \in Entry /\ e.from = q /\ e.line = line /\ n \in Nat
  BY <1>1 DEF Entry
<1>3. /\ t \in Seq(Entry) /\ Len(t) = n + 1 /\ t[n + 1] = e
      /\ \A i \in 1 .. n : t[i] = s[i]
  BY <1>1, <1>2 DEF Adds
<1>4. 1 .. n + 1 = (1 .. n) \cup {n + 1} /\ n + 1 \notin 1 .. n
  BY <1>2
<1>5. \A r : EntriesIn(s, r) \subseteq 1 .. n
  BY <1>1 DEF EntriesIn
<1>6. EntriesIn(t, q) = EntriesIn(s, q) \cup {n + 1}
  BY <1>1, <1>2, <1>3, <1>4 DEF EntriesIn
<1>7. \A r : r # q => EntriesIn(t, r) = EntriesIn(s, r)
  BY <1>1, <1>2, <1>3, <1>4 DEF EntriesIn
<1>8. Cardinality(EntriesIn(t, q)) = Cardinality(EntriesIn(s, q)) + 1
  <2>1. n + 1 \notin EntriesIn(s, q)
    BY <1>4, <1>5
  <2> QED BY <1>6, <2>1, EntriesFinite, FS_AddElement
<1>9. UpTo(t, q, n + 1) = EntriesIn(t, q)
  <2>1. \A j \in EntriesIn(t, q) : j <= n + 1
    BY <1>3 DEF EntriesIn
  <2> QED BY <2>1 DEF UpTo
<1>10. ASSUME NEW r, NEW i \in EntriesIn(s, r) PROVE UpTo(t, r, i) = UpTo(s, r, i)
  <2>1. i \in 1 .. n
    BY <1>5
  <2>2. \A j : j \in EntriesIn(t, r) /\ j <= i <=> j \in EntriesIn(s, r) /\ j <= i
    BY <1>2, <1>6, <1>7, <2>1
  <2> QED BY <2>2 DEF UpTo
<1> QED BY <1>1, <1>2, <1>3, <1>6, <1>7, <1>8, <1>9, <1>10

LEMMA BeginningGrows ==
  ASSUME NEW s \in Seq(Entry), NEW t, NEW q \in Requests, NEW line \in Lines,
         Adds(s, t, q, line), NEW r \in Requests, NEW body \in Seq(Lines),
         Begins(s, r, body),
         r = q => /\ Cardinality(EntriesIn(s, q)) + 1 <= Len(body)
                  /\ line = body[Cardinality(EntriesIn(s, q)) + 1]
  PROVE  Begins(t, r, body)
<1>1. /\ Len(t) = Len(s) + 1 /\ t[Len(t)].line = line
      /\ \A i \in 1 .. Len(s) : t[i] = s[i]
      /\ EntriesIn(t, q) = EntriesIn(s, q) \cup {Len(t)}
      /\ Cardinality(EntriesIn(t, q)) = Cardinality(EntriesIn(s, q)) + 1
      /\ UpTo(t, q, Len(t)) = EntriesIn(t, q)
      /\ r # q => EntriesIn(t, r) = EntriesIn(s, r)
      /\ \A i \in EntriesIn(s, r) : UpTo(t, r, i) = UpTo(s, r, i)
  BY EntryAdded
<1>2. ASSUME NEW i \in EntriesIn(s, r)
      PROVE  /\ Cardinality(UpTo(t, r, i)) \in 1 .. Len(body)
             /\ t[i].line = body[Cardinality(UpTo(t, r, i))]
  <2>1. i \in 1 .. Len(s)
    BY DEF EntriesIn
  <2>2. t[i] = s[i] /\ UpTo(t, r, i) = UpTo(s, r, i)
    BY <1>1, <2>1
  <2> QED BY <2>2 DEF Begins
<1>3. ASSUME r = q
      PROVE  /\ Cardinality(UpTo(t, q, Len(t))) \in 1 .. Len(body)
             /\ t[Len(t)].line = body[Cardinality(UpTo(t, q, Len(t)))]
  <2>1. PICK c : c = Cardinality(EntriesIn(s, q))
    OBVIOUS
  <2>2. c \in Nat /\ c + 1 <= Len(body) /\ line = body[c + 1]
    BY <1>3, <2>1, EntriesFinite
  <2>3. Cardinality(UpTo(t, q, Len(t))) = c + 1 /\ t[Len(t)].line = line
    BY <1>1, <2>1
  <2> QED BY <2>2, <2>3
<1>4. CASE r = q
  BY <1>1, <1>2, <1>3, <1>4 DEF Begins
<1>5. CASE r # q
  BY <1>1, <1>2, <1>5 DEF Begins
<1> QED BY <1>4, <1>5

-----------------------------------------------------------------------------
(* What the answer of a request says of its lines.  A request that was not *)
(* made has none; a counted line is in the stream; only a failed XADD      *)
(* leaves a line that is not counted; and a 400 has its three reasons.     *)
Refused(s, q) ==
  \/ q.accepted < Len(q.body) /\ q.body[q.accepted + 1] \notin Objects
  \/ q.accepted = 0 /\ q.body = <<>>
  \/ q.accepted = Len(q.body) /\ \E i \in 1 .. Len(s) : s[i].line \in NotNumbers
Accounts(s, r, q) ==
  /\ Begins(s, r, q.body)
  /\ q.accepted <= Len(q.body)
  /\ q.step = "none" => q.accepted = 0 /\ q.body = <<>> /\ q.answer = 0
  /\ q.step \in {"copying", "sending"} \/ q.answer = 202 => q.accepted = Len(q.body)
  /\ q.answer = 400 => Refused(s, q)
  /\ q.answer # 503 => Cardinality(EntriesIn(s, r)) = q.accepted
  /\ q.answer = 503 =>
       Cardinality(EntriesIn(s, r)) \in {q.accepted, q.accepted + 1}

Stores == \A r \in Requests : Accounts(stream, r, request[r])

LEMMA StoresStart == Init => Stores
<1> SUFFICES ASSUME Init, NEW r \in Requests PROVE Accounts(stream, r, request[r])
  BY DEF Stores
<1>1. PICK none, q : none = <<>> /\ q = request[r]
  OBVIOUS
<1>2. stream = none /\ q = [step |-> "none", body |-> none, accepted |-> 0, answer |-> 0]
  BY <1>1 DEF Init, IngestInit, NotMade
<1>3. Len(none) = 0 /\ none = <<>>
  BY <1>1
<1>4. q.step = "none" /\ q.body = none /\ q.accepted = 0 /\ q.answer = 0
  BY <1>2
<1>5. EntriesIn(none, r) = {}
  BY <1>3 DEF EntriesIn
<1>6. Begins(none, r, none) /\ Cardinality(EntriesIn(none, r)) = 0
  BY <1>5, FS_EmptySet DEF Begins
<1> QED BY <1>1, <1>2, <1>3, <1>4, <1>6 DEF Accounts

LEMMA OtherStores ==
  ASSUME Stores, NEW r \in Requests, stream' = stream,
         \A q \in Requests : q # r => request'[q] = request[q],
         Accounts(stream, r, request'[r])
  PROVE  Stores'
<1> SUFFICES ASSUME NEW q \in Requests PROVE Accounts(stream, q, request'[q])
  BY DEF Stores
<1>1. CASE q = r
  BY <1>1
<1>2. CASE q # r
  BY <1>2 DEF Stores
<1> QED BY <1>1, <1>2

LEMMA RequestFields ==
  ASSUME Typed, NEW r \in Requests
  PROVE  /\ request[r].body \in Seq(Lines) /\ request[r].accepted \in Nat
         /\ request[r].answer \in Answers /\ request[r] \in State
         /\ Len(request[r].body) \in Nat
         /\ DOMAIN request = Requests /\ stream \in Seq(Entry)
<1>1. request[r] \in State
  BY DEF Typed
<1>2. request[r].body \in Seq(Lines) /\ request[r].accepted \in Nat /\ request[r].answer \in Answers
  BY <1>1 DEF State
<1>3. Len(request[r].body) \in Nat
  BY <1>2
<1> QED BY <1>1, <1>2, <1>3 DEF Typed, Entry

LEMMA AnswerStores ==
  ASSUME Typed, Steps, Stores, NEW r \in Requests, NEW code, code \in {202, 400, 413, 503},
         request[r].step # "answered", Answer(r, code), stream' = stream,
         code = 202 => request[r].accepted = Len(request[r].body),
         code = 400 => Refused(stream, request[r])
  PROVE  Stores'
<1>1. PICK old, new : old = request[r] /\ new = request'[r]
  OBVIOUS
<1>2. old \in State /\ old.accepted \in Nat
  BY <1>1, RequestFields
<1>3. new = [old EXCEPT !.step = "answered", !.answer = code]
      /\ \A q \in Requests : q # r => request'[q] = request[q]
  <2>1. request' = [request EXCEPT ![r].step = "answered", ![r].answer = code]
    BY DEF Answer
  <2>2. DOMAIN request = Requests
    BY RequestFields
  <2> QED BY <1>1, <2>1, <2>2
<1>4. new.step = "answered" /\ new.answer = code /\ new.body = old.body
      /\ new.accepted = old.accepted
  BY <1>2, <1>3 DEF State
<1>5. old.answer = 0
  BY <1>1 DEF Steps
<1>6. Accounts(stream, r, old)
  BY <1>1 DEF Stores
<1>7. Accounts(stream, r, new)
  <2>1. /\ Begins(stream, r, new.body) /\ new.accepted <= Len(new.body)
        /\ Cardinality(EntriesIn(stream, r)) = new.accepted
    BY <1>4, <1>5, <1>6 DEF Accounts
  <2>2. new.answer = 202 => new.accepted = Len(new.body)
    BY <1>1, <1>4
  <2>3. new.answer = 400 => Refused(stream, new)
    BY <1>1, <1>4 DEF Refused
  <2> QED BY <1>4, <2>1, <2>2, <2>3 DEF Accounts
<1>8. Accounts(stream, r, request'[r])
  BY <1>1, <1>7
<1>9. \A q \in Requests : q # r => request'[q] = request[q]
  BY <1>3
<1> QED BY <1>8, <1>9, OtherStores

LEMMA MoveStores ==
  ASSUME Typed, Steps, Stores, NEW r \in Requests, NEW step \in {"copying", "sending"},
         request[r].step # "answered", Move(r, step), stream' = stream,
         request[r].accepted = Len(request[r].body)
  PROVE  Stores'
<1>1. PICK old, new : old = request[r] /\ new = request'[r]
  OBVIOUS
<1>2. old \in State /\ old.accepted \in Nat
  BY <1>1, RequestFields
<1>3. new = [old EXCEPT !.step = step]
      /\ \A q \in Requests : q # r => request'[q] = request[q]
  BY <1>1, RequestFields DEF Move
<1>4. new.step = step /\ new.answer = old.answer /\ new.body = old.body
      /\ new.accepted = old.accepted
  BY <1>2, <1>3 DEF State
<1>5. old.answer = 0
  BY <1>1 DEF Steps
<1>6. Accounts(stream, r, old)
  BY <1>1 DEF Stores
<1>7. Accounts(stream, r, new)
  BY <1>1, <1>4, <1>5, <1>6 DEF Accounts
<1> QED BY <1>1, <1>3, <1>7, OtherStores

LEMMA ArriveStores ==
  ASSUME Typed, Stores, NEW r \in Requests, NEW body \in Seq(Lines), Arrive(r, body)
  PROVE  Stores'
<1>1. PICK old, new : old = request[r] /\ new = request'[r]
  OBVIOUS
<1>2. old \in State /\ stream \in Seq(Entry)
  BY <1>1, RequestFields
<1>3. /\ new = [old EXCEPT !.step = "adding", !.body = body]
      /\ \A q \in Requests : q # r => request'[q] = request[q]
      /\ old.step = "none" /\ stream' = stream
  BY <1>1, RequestFields DEF Arrive
<1>4. new.step = "adding" /\ new.answer = old.answer /\ new.body = body
      /\ new.accepted = old.accepted
  BY <1>2, <1>3 DEF State
<1>5. Accounts(stream, r, old)
  BY <1>1 DEF Stores
<1>6. old.accepted = 0 /\ old.answer = 0 /\ Cardinality(EntriesIn(stream, r)) = 0
  BY <1>3, <1>5 DEF Accounts
<1>7. EntriesIn(stream, r) = {}
  BY <1>2, <1>6, EntriesFinite, FS_EmptySet
<1>8. Begins(stream, r, body)
  BY <1>7 DEF Begins
<1>9. Accounts(stream, r, new)
  BY <1>4, <1>6, <1>8 DEF Accounts
<1> QED BY <1>1, <1>3, <1>9, OtherStores

\* The request whose line is added, counted or not.
LEMMA AddStores ==
  ASSUME Typed, Steps, Stores, NEW r \in Requests, Unread(r),
         stream' = Append(stream, [from |-> r, line |-> NextLine(r)]),
         \/ request' = [request EXCEPT ![r].accepted = @ + 1]
         \/ Answer(r, 503)
  PROVE  Stores'
<1>1. PICK s, t, line, c : /\ s = stream /\ t = stream' /\ line = NextLine(r)
                           /\ c = Cardinality(EntriesIn(s, r))
  OBVIOUS
<1>2. PICK old, new : old = request[r] /\ new = request'[r]
  OBVIOUS
<1>3. /\ old \in State /\ old.accepted \in Nat /\ old.body \in Seq(Lines) /\ Len(old.body) \in Nat
      /\ DOMAIN request = Requests /\ s \in Seq(Entry)
  BY <1>1, <1>2, RequestFields
<1>4. /\ old.step = "adding" /\ old.accepted < Len(old.body) /\ line = old.body[old.accepted + 1]
      /\ old.answer = 0
  BY <1>1, <1>2 DEF Unread, NextLine, Steps
<1>5. line \in Lines
  BY <1>3, <1>4
<1>6. Adds(s, t, r, line)
  BY <1>1 DEF Adds
<1>7. Accounts(s, r, old) /\ c = old.accepted
  BY <1>1, <1>2, <1>4 DEF Stores, Accounts
<1>8. \A q \in Requests : q # r => request'[q] = request[q]
  BY <1>3 DEF Answer
<1>9. ASSUME NEW q \in Requests, q # r PROVE Accounts(t, q, request'[q])
  <2>1. Accounts(s, q, request[q]) /\ request[q].body \in Seq(Lines)
    BY <1>1, RequestFields DEF Stores
  <2>2. PICK b : b = request[q].body
    OBVIOUS
  <2>3. Begins(s, q, b) /\ b \in Seq(Lines)
    BY <2>1, <2>2 DEF Accounts
  <2>4. Begins(t, q, b)
    BY <1>3, <1>5, <1>6, <1>9, <2>3, BeginningGrows
  <2>6. \A p : p # r => EntriesIn(t, p) = EntriesIn(s, p)
    <3>1. s \in Seq(Entry)
      BY <1>3
    <3> QED BY <1>5, <1>6, <3>1, EntryAdded
  <2>5. EntriesIn(t, q) = EntriesIn(s, q)
    BY <1>9, <2>6
  <2>7. Refused(s, request[q]) => Refused(t, request[q])
    <3>1. Len(t) = Len(s) + 1 /\ \A i \in 1 .. Len(s) : t[i] = s[i]
      BY <1>3, <1>5, <1>6, EntryAdded
    <3>2. Len(s) \in Nat
      BY <1>3
    <3> QED BY <3>1, <3>2 DEF Refused
  <2> QED BY <1>8, <1>9, <2>1, <2>2, <2>4, <2>5, <2>7 DEF Accounts
<1>10. Accounts(t, r, new)
  <2>1. PICK b : b = old.body
    OBVIOUS
  <2>2. Begins(s, r, b) /\ b \in Seq(Lines)
    BY <1>3, <1>7, <2>1 DEF Accounts
  <2>3. c + 1 <= Len(b) /\ line = b[c + 1]
    BY <1>3, <1>4, <1>7, <2>1
  <2>4. Begins(t, r, b)
    BY <1>1, <1>3, <1>5, <1>6, <2>2, <2>3, BeginningGrows
  <2>5. Cardinality(EntriesIn(t, r)) = Cardinality(EntriesIn(s, r)) + 1
    BY <1>3, <1>5, <1>6, EntryAdded
  <2>6. PICK d : d = Cardinality(EntriesIn(t, r))
    OBVIOUS
  <2>7. d = old.accepted + 1
    BY <1>1, <1>7, <2>5, <2>6
  <2>8. CASE request' = [request EXCEPT ![r].accepted = @ + 1]
    <3>1. new = [old EXCEPT !.accepted = old.accepted + 1]
      BY <1>2, <1>3, <2>8
    <3>2. new.step = "adding" /\ new.answer = 0 /\ new.body = b
          /\ new.accepted = old.accepted + 1
      BY <1>3, <1>4, <2>1, <3>1 DEF State
    <3> QED BY <1>3, <1>7, <2>3, <2>4, <2>6, <2>7, <3>2 DEF Accounts
  <2>9. CASE Answer(r, 503)
    <3>1. new = [old EXCEPT !.step = "answered", !.answer = 503]
      BY <1>2, <1>3, <2>9 DEF Answer
    <3>2. new.step = "answered" /\ new.answer = 503 /\ new.body = b
          /\ new.accepted = old.accepted
      BY <1>3, <2>1, <3>1 DEF State
    <3> QED BY <1>3, <1>4, <2>1, <2>4, <2>6, <2>7, <3>2 DEF Accounts
  <2> QED BY <2>8, <2>9
<1> QED BY <1>1, <1>2, <1>9, <1>10 DEF Stores

LEMMA StoresKept == IInv /\ Stores /\ [Next]_vars => Stores'
<1> SUFFICES ASSUME IInv, Stores, [Next]_vars PROVE Stores'
  OBVIOUS
<1>0. Typed /\ Steps
  BY DEF IInv
<1>1. ASSUME NEW r \in Requests, Post(r) PROVE Stores'
  <2>1. \A body \in Bodies : body \in Seq(Lines)
    BY MapServerAssumption
  <2>2. CASE RefuseLength(r) \/ RefuseBody(r)
    <3>1. /\ Answer(r, 413) \/ Answer(r, 400)
          /\ request[r].step = "none" /\ stream' = stream
      BY <2>2 DEF RefuseLength, RefuseBody
    <3>2. Refused(stream, request[r])
      BY <3>1 DEF Stores, Accounts, Refused
    <3> QED BY <1>0, <3>1, <3>2, AnswerStores
  <2>3. ASSUME NEW body \in Bodies, Arrive(r, body) PROVE Stores'
    BY <1>0, <2>1, <2>3, ArriveStores
  <2> QED BY <1>1, <2>2, <2>3 DEF Post
<1>2. ASSUME NEW r \in Requests, Store(r) PROVE Stores'
  <2>1. CASE AddLine(r)
    BY <1>0, <2>1, AddStores DEF AddLine
  <2>2. CASE RefuseLine(r)
    <3>1. /\ request[r].step = "adding" /\ Answer(r, 400) /\ stream' = stream
          /\ Refused(stream, request[r])
      BY <2>2 DEF RefuseLine, Unread, NextLine, Refused
    <3> QED BY <1>0, <3>1, AnswerStores
  <2>3. CASE AddFails(r)
    <3>1. CASE stream' = stream
      BY <1>0, <2>3, <3>1, AnswerStores DEF AddFails, Unread
    <3>2. CASE stream' # stream
      BY <1>0, <2>3, <3>2, AddStores DEF AddFails
    <3> QED BY <3>1, <3>2
  <2>4. CASE AnswerNothing(r)
    <3>1. /\ request[r].step = "adding" /\ request[r].accepted = Len(request[r].body)
          /\ Answer(r, 202) /\ stream' = stream
      BY <2>4 DEF AnswerNothing, AllRead
    <3> QED BY <1>0, <3>1, AnswerStores
  <2> QED BY <1>2, <2>1, <2>2, <2>3, <2>4 DEF Store
<1>3. ASSUME NEW r \in Requests, ReadFails(r) PROVE Stores'
  BY <1>0, <1>3, AnswerStores DEF ReadFails, AllRead
<1>4. ASSUME NEW r \in Requests, ReadSnapshot(r) PROVE Stores'
  <2>1. /\ request[r].step = "adding" /\ request[r].accepted = Len(request[r].body)
        /\ stream' = stream
    BY <1>4 DEF ReadSnapshot, AllRead
  <2>2. CASE Move(r, "copying")
    BY <1>0, <2>1, <2>2, MoveStores
  <2>3. CASE Answer(r, 503)
    BY <1>0, <2>1, <2>3, AnswerStores
  <2>4. CASE Answer(r, 400) /\ 400 \in Raised(Newest(Limit))
    <3>1. PICK i \in Newest(Limit).first .. Newest(Limit).last : stream[i].line \in NotNumbers
      BY <2>4 DEF Raised
    <3>2. i \in 1 .. Len(stream)
      BY <1>0, MapServerAssumption DEF Newest, Typed
    <3>3. Refused(stream, request[r])
      BY <2>1, <3>1, <3>2 DEF Refused
    <3> QED BY <1>0, <2>1, <2>4, <3>3, AnswerStores
  <2>5. Raised(Newest(Limit)) \subseteq {400, 503}
    BY DEF Raised
  <2> QED BY <1>4, <2>2, <2>3, <2>4, <2>5 DEF ReadSnapshot
<1>5. ASSUME NEW r \in Requests, CopyClients(r) PROVE Stores'
  <2>1. request[r].step = "copying" /\ Move(r, "sending") /\ stream' = stream
    BY <1>5 DEF CopyClients
  <2>2. request[r].accepted = Len(request[r].body)
    BY <2>1 DEF Stores, Accounts
  <2> QED BY <1>0, <2>1, <2>2, MoveStores
<1>6. ASSUME NEW r \in Requests, Accept(r) PROVE Stores'
  <2>1. request[r].step = "sending" /\ Answer(r, 202) /\ stream' = stream
    BY <1>6 DEF Accept
  <2>2. request[r].accepted = Len(request[r].body)
    BY <2>1 DEF Stores, Accounts
  <2> QED BY <1>0, <2>1, <2>2, AnswerStores
<1>7. CASE (\E r \in Requests : Send(r)) \/ PageStep \/ UNCHANGED vars
  <2>1. stream' = stream /\ request' = request
    BY <1>7, PagesOnlyWatch DEF Send, ingestVars, RequestsRest, vars
  <2> QED BY <2>1 DEF Stores
<1> QED
  BY <1>1, <1>2, <1>3, <1>4, <1>5, <1>6, <1>7 DEF Next, Publish, PageStep

(* For any number of requests, any lines and any limit, whatever is        *)
(* refused, fails or is given up: what a request put in the stream is a    *)
(* beginning of its body, in order, each line once.  A 202 means all of    *)
(* it, a 503 at most one line that was not counted, and a 400 has three    *)
(* meanings (AttackMapServer.py:154-181).                                  *)
THEOREM StoredBeginning == Spec => []StoredIsABeginning
<1>1. ASSUME IInv, Stores PROVE StoredIsABeginning
  <2> SUFFICES ASSUME NEW r \in Requests
      PROVE  /\ \A i \in EntriesOf(r) :
                  /\ Cardinality({j \in EntriesOf(r) : j <= i}) <= Len(request[r].body)
                  /\ stream[i].line
                       = request[r].body[Cardinality({j \in EntriesOf(r) : j <= i})]
             /\ Cardinality(EntriesOf(r)) - request[r].accepted
                  \in (IF request[r].answer = 503 THEN {0, 1} ELSE {0})
             /\ request[r].answer = 202 => Cardinality(EntriesOf(r)) = Len(request[r].body)
             /\ request[r].answer = 400 =>
                  \/ /\ Cardinality(EntriesOf(r)) < Len(request[r].body)
                     /\ request[r].body[Cardinality(EntriesOf(r)) + 1] \notin Objects
                  \/ Cardinality(EntriesOf(r)) = 0 /\ request[r].body = <<>>
                  \/ /\ Cardinality(EntriesOf(r)) = Len(request[r].body)
                     /\ \E i \in DOMAIN stream : stream[i].line \in NotNumbers
    BY Zenon DEF StoredIsABeginning
  <2>1. /\ stream \in Seq(Entry) /\ request[r].accepted \in Nat
        /\ request[r].body \in Seq(Lines) /\ Len(request[r].body) \in Nat
        /\ Accounts(stream, r, request[r])
    BY <1>1, RequestFields DEF IInv, Stores
  <2>2. EntriesOf(r) = EntriesIn(stream, r)
    <3>1. DOMAIN stream = 1 .. Len(stream)
      BY <2>1
    <3> QED BY <3>1 DEF EntriesOf, EntriesIn
  <2>3. ASSUME NEW i \in EntriesOf(r)
        PROVE  /\ Cardinality({j \in EntriesOf(r) : j <= i}) <= Len(request[r].body)
               /\ stream[i].line
                    = request[r].body[Cardinality({j \in EntriesOf(r) : j <= i})]
    <3>1. {j \in EntriesOf(r) : j <= i} = UpTo(stream, r, i)
      BY <2>2 DEF UpTo
    <3>2. /\ Cardinality(UpTo(stream, r, i)) \in 1 .. Len(request[r].body)
          /\ stream[i].line = request[r].body[Cardinality(UpTo(stream, r, i))]
      BY <2>1, <2>2 DEF Accounts, Begins
    <3>3. Cardinality(UpTo(stream, r, i)) <= Len(request[r].body)
      BY <2>1, <3>2
    <3> QED BY <3>1, <3>2, <3>3
  <2>4. PICK c, a : c = Cardinality(EntriesIn(stream, r)) /\ a = request[r].accepted
    OBVIOUS
  <2>5. /\ c \in Nat /\ a \in Nat
        /\ request[r].answer # 503 => c = a
        /\ request[r].answer = 503 => c = a \/ c = a + 1
        /\ request[r].answer = 202 => c = Len(request[r].body)
    BY <2>1, <2>4, EntriesFinite DEF Accounts
  <2>6. c - a \in (IF request[r].answer = 503 THEN {0, 1} ELSE {0})
    BY <2>5
  <2>7. ASSUME request[r].answer = 400
        PROVE  \/ /\ Cardinality(EntriesOf(r)) < Len(request[r].body)
                  /\ request[r].body[Cardinality(EntriesOf(r)) + 1] \notin Objects
               \/ Cardinality(EntriesOf(r)) = 0 /\ request[r].body = <<>>
               \/ /\ Cardinality(EntriesOf(r)) = Len(request[r].body)
                  /\ \E i \in DOMAIN stream : stream[i].line \in NotNumbers
    <3>1. Refused(stream, request[r]) /\ c = a
      BY <2>1, <2>5, <2>7 DEF Accounts
    <3>2. /\ Cardinality(EntriesOf(r)) = request[r].accepted
          /\ DOMAIN stream = 1 .. Len(stream)
      BY <2>1, <2>2, <2>4, <3>1
    <3> QED BY <3>1, <3>2 DEF Refused
  <2> QED BY <2>2, <2>3, <2>4, <2>5, <2>6, <2>7
<1> QED BY IInvAlways, StoresStart, StoresKept, <1>1, PTL DEF Spec
=============================================================================
