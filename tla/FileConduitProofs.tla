-------------------------- MODULE FileConduitProofs --------------------------
(***************************************************************************)
(* That an answer of the file conduit is taken by the call that asked,     *)
(* that a copy uses no handle but its own, and that it leaves none open,   *)
(* for any threads, files and bounds.                                      *)
(*                                                                         *)
(* AnswerIsOwn is not inductive: it holds because only the operation at    *)
(* the front of the queue has a request out, and because a connection that *)
(* is down has none on its way.  The handles stand on that: a handle the   *)
(* conduit has open is known by the file it is open for, the call it was   *)
(* opened for holds it, or is about to receive it, until its request to    *)
(* close it is answered.                                                   *)
(*                                                                         *)
(* Then the types, with what a call may be at in each of its states, and   *)
(* what the copies are: a file of the conduit has as much of the local one *)
(* as the packets sent cover and its handle stands at its end, a fetched   *)
(* file is as much of the conduit's as the packets asked for cover, and a  *)
(* file is closed only when the packets cover all of it, as long as no     *)
(* answer about the file refused what was asked.                           *)
(***************************************************************************)
EXTENDS FileConduit, SequenceTheorems, TLAPS

Fields == {"op", "step", "files", "path", "handle", "index", "local", "at",
           "failed", "sure", "asking"}
LinkFields == {"wifi", "up", "full", "todo", "in", "torn", "outside", "waited", "late"}

\* Calls and the link are records
Shapes ==
    /\ DOMAIN call = Threads
    /\ \A t \in Threads : DOMAIN call[t] = Fields /\ call[t].asking \in BOOLEAN
    /\ DOMAIN link = LinkFields /\ link.waited \in BOOLEAN /\ link.up \in BOOLEAN
    /\ ssl \in BOOLEAN
    /\ queue \in Seq(Threads)

\* Who has a request out is at the front, in an exchange
AskingIsAtFront ==
    \A t \in Threads : call[t].asking => AtFront(t) /\ call[t].step \in Exchanges

\* Nothing is on its way to a conduit that has hung up
LinkInv == ~link.up => link.todo = <<>>

\* What is on its way is nothing, or the request of the operation at the front,
\* or its answer
Asks(t) == t \in Threads /\ AtFront(t) /\ call[t].asking

OnItsWay ==
    \/ link.todo = <<>> /\ link.in = <<>>
    \/ \E r : link.todo = <<r>> /\ link.in = <<>> /\ Asks(r.by)
    \/ \E a : link.todo = <<>> /\ link.in = <<a>> /\ Asks(a.to)

IInv == Shapes /\ AskingIsAtFront /\ LinkInv /\ (Trusted => OnItsWay)

-----------------------------------------------------------------------------
(* Lemmas on the operators of the module.                                  *)

\* One element is appended to the empty sequence, and taken from it
LEMMA Single ==
    ASSUME NEW x
    PROVE  /\ Append(<<>>, x) = <<x>>
           /\ Tail(<<x>>) = <<>> /\ Head(<<x>>) = x /\ <<x>> # <<>>
OBVIOUS

LEMMA QueueGrows ==
    ASSUME NEW q \in Seq(Threads), NEW t \in Threads
    PROVE  /\ Append(q, t) \in Seq(Threads) /\ Append(q, t) # <<>>
           /\ q # <<>> => Head(Append(q, t)) = Head(q)
BY AppendProperties, HeadTailAppend

LEMMA QueueShrinks ==
    ASSUME NEW q \in Seq(Threads), q # <<>>
    PROVE  Tail(q) \in Seq(Threads)
OBVIOUS

\* The loop over packets, and the end of a file, leave a record a record
LEMMA LoopShape ==
    ASSUME NEW c, DOMAIN c = Fields
    PROVE  DOMAIN Loop(c) = Fields /\ Loop(c).asking = c.asking
BY DEF Loop, Fields

LEMMA DoneWithShape ==
    ASSUME NEW c, DOMAIN c = Fields, NEW failed
    PROVE  DOMAIN DoneWith(c, failed) = Fields /\ DoneWith(c, failed).asking = c.asking
BY DEF DoneWith, Fields

\* So does what comes of an exchange
LEMMA SucceededShape ==
    ASSUME NEW c, DOMAIN c = Fields, c.step \in Exchanges, NEW body
    PROVE  DOMAIN Succeeded(c, body) = Fields /\ Succeeded(c, body).asking = c.asking
<1>1. CASE c.step = "mkdir"
  BY <1>1 DEF Succeeded, Fields
<1>2. CASE c.step = "open"
  <2> DEFINE d == [c EXCEPT !.handle = body.word]
  <2>1. DOMAIN d = Fields /\ d.asking = c.asking
    BY DEF Fields
  <2>2. Succeeded(c, body) = Loop(d)
    BY <1>2 DEF Succeeded
  <2> QED BY <2>1, <2>2, LoopShape
<1>3. CASE c.step = "write"
  <2> DEFINE d == [c EXCEPT !.index = @ + 1]
  <2>1. DOMAIN d = Fields /\ d.asking = c.asking
    BY DEF Fields
  <2>2. Succeeded(c, body) = Loop(d)
    BY <1>3 DEF Succeeded
  <2> QED BY <2>1, <2>2, LoopShape
<1>4. CASE c.step = "read"
  <2> DEFINE d == [c EXCEPT !.index = @ + 1,
                            !.local = Overwrite(@, c.at, body.data),
                            !.at = @ + Len(body.data)]
  <2>1. DOMAIN d = Fields /\ d.asking = c.asking
    BY DEF Fields
  <2>2. Succeeded(c, body) = Loop(d)
    BY <1>4 DEF Succeeded
  <2> QED BY <2>1, <2>2, LoopShape
<1>5. CASE c.step = "close"
  BY <1>5, DoneWithShape DEF Succeeded
<1>6. CASE c.step = "single"
  BY <1>6 DEF Succeeded, Fields
<1> QED BY <1>1, <1>2, <1>3, <1>4, <1>5, <1>6 DEF Exchanges

LEMMA UnsentShape ==
    ASSUME NEW c, DOMAIN c = Fields, c.step \in Exchanges
    PROVE  DOMAIN Unsent(c) = Fields /\ Unsent(c).asking = c.asking
<1>1. CASE c.step = "mkdir"
  BY <1>1 DEF Unsent, Fields
<1>2. CASE c.step = "open"
  BY <1>2, DoneWithShape DEF Unsent
<1>3. CASE c.step \in {"write", "read"}
  BY <1>3 DEF Unsent, Fields
<1>4. CASE c.step = "close"
  BY <1>4, DoneWithShape DEF Unsent
<1>5. CASE c.step = "single"
  BY <1>5 DEF Unsent, Fields
<1> QED BY <1>1, <1>2, <1>3, <1>4, <1>5 DEF Exchanges

-----------------------------------------------------------------------------
(* One lemma for each kind of step.                                        *)

LEMMA InitInv == Init => IInv
<1> SUFFICES ASSUME Init PROVE IInv
  OBVIOUS
<1>1. Shapes
  <2>1. DOMAIN call = Threads
    BY DEF Init
  <2>2. \A t \in Threads : DOMAIN call[t] = Fields /\ call[t].asking \in BOOLEAN
    BY DEF Init, NoCall, Fields
  <2>3. DOMAIN link = LinkFields /\ link.waited \in BOOLEAN /\ link.up \in BOOLEAN
    BY DEF Init, LinkFields
  <2> QED BY <2>1, <2>2, <2>3 DEF Init, Shapes
<1>2. AskingIsAtFront
  BY DEF Init, AskingIsAtFront, NoCall
<1>3. LinkInv /\ OnItsWay
  BY DEF Init, LinkInv, OnItsWay
<1> QED BY <1>1, <1>2, <1>3 DEF IInv

\* When nobody at the front asks, nothing is on its way
LEMMA NothingOnItsWay ==
    ASSUME IInv, Trusted, NEW t \in Threads, AtFront(t) \/ queue = <<>>, ~call[t].asking
    PROVE  link.todo = <<>> /\ link.in = <<>>
BY DEF IInv, OnItsWay, Asks, AtFront

\* After frames are torn nothing on its way is believed
LEMMA TornLink ==
    ASSUME DOMAIN link = LinkFields,
           link' = Torn \/ link' = [Torn EXCEPT !.outside = TRUE]
    PROVE  /\ DOMAIN link' = LinkFields /\ LinkInv' /\ ~Trusted'
           /\ link'.up = link.up /\ link'.waited = TRUE
           /\ link'.wifi = link.wifi /\ link'.full = link.full
           /\ link'.todo = <<>> /\ link'.in = <<>> /\ link'.late = link.late
           /\ link'.torn = TRUE /\ link'.outside \in BOOLEAN
<1>1. DOMAIN Torn = LinkFields
  BY DEF Torn, LinkFields
<1>2. /\ Torn.up = link.up /\ Torn.waited = TRUE /\ Torn.outside = FALSE
      /\ Torn.wifi = link.wifi /\ Torn.full = link.full
      /\ Torn.todo = <<>> /\ Torn.in = <<>> /\ Torn.late = link.late /\ Torn.torn = TRUE
  BY DEF Torn, LinkFields
<1> DEFINE new == Torn
<1> HIDE DEF new
<1>3. /\ DOMAIN link' = LinkFields
      /\ link'.up = link.up /\ link'.waited = TRUE
      /\ link'.wifi = link.wifi /\ link'.full = link.full
      /\ link'.todo = <<>> /\ link'.in = <<>> /\ link'.late = link.late
      /\ link'.torn = TRUE /\ link'.outside \in BOOLEAN
  BY <1>1, <1>2 DEF LinkFields
<1> QED BY <1>3 DEF LinkInv, Trusted

\* A call that asks nothing changes without a word to the conduit
LEMMA CallChanges ==
    ASSUME IInv, NEW t \in Threads, NEW c,
           ~call[t].asking, DOMAIN c = Fields, ~c.asking, c.asking \in BOOLEAN,
           call' = [call EXCEPT ![t] = c],
           UNCHANGED <<ssl, link, queue>>
    PROVE  IInv'
<1>1. /\ DOMAIN call' = Threads /\ call'[t] = c
      /\ \A u \in Threads : u # t => call'[u] = call[u]
  BY DEF IInv, Shapes
<1>2. Shapes'
  BY <1>1 DEF IInv, Shapes
<1>3. AskingIsAtFront'
  BY <1>1 DEF IInv, AskingIsAtFront, AtFront
<1>4. LinkInv'
  BY DEF IInv, LinkInv
<1>5. \A u : Asks(u) => Asks(u)'
  BY <1>1 DEF Asks, AtFront
<1>6. Trusted' => OnItsWay'
  BY <1>5 DEF IInv, Trusted, OnItsWay
<1> QED BY <1>2, <1>3, <1>4, <1>6 DEF IInv

\* The operation at the front leaves the queue with nothing on its way, or with
\* a connection whose answers are no longer trusted
LEMMA FrontLeaves ==
    ASSUME IInv, NEW t \in Threads, AtFront(t), NEW c,
           DOMAIN c = Fields, ~c.asking, c.asking \in BOOLEAN,
           call' = [call EXCEPT ![t] = c],
           queue' = Tail(queue), UNCHANGED ssl,
           DOMAIN link' = LinkFields, link'.waited \in BOOLEAN, link'.up \in BOOLEAN,
           LinkInv', Trusted' => link'.todo = <<>> /\ link'.in = <<>>
    PROVE  IInv'
<1>1. /\ DOMAIN call' = Threads /\ call'[t] = c
      /\ \A u \in Threads : u # t => call'[u] = call[u]
  BY DEF IInv, Shapes
<1>2. queue' \in Seq(Threads)
  BY QueueShrinks DEF IInv, Shapes, AtFront
<1>3. Shapes'
  BY <1>1, <1>2 DEF IInv, Shapes
<1>4. \A u \in Threads : ~call'[u].asking
  BY <1>1 DEF IInv, AskingIsAtFront, AtFront
<1>5. AskingIsAtFront'
  BY <1>4 DEF AskingIsAtFront
<1> QED BY <1>3, <1>5 DEF IInv, OnItsWay

LEMMA BeginInv ==
    ASSUME IInv, NEW t \in Threads, Begin(t)
    PROVE  IInv'
<1>1. ~call[t].asking
  BY DEF IInv, AskingIsAtFront, Begin, Exchanges
<1>2. PICK w \in Works[t] :
        call' = [call EXCEPT ![t] =
              [NoCall EXCEPT !.op = w.op, !.files = w.files,
                             !.step = CASE w.op = "Tree" -> "mkdir"
                                        [] w.op \in {"File", "Fetch"} -> "next"
                                        [] OTHER -> "single"]]
  BY DEF Begin
<1> DEFINE c == [NoCall EXCEPT !.op = w.op, !.files = w.files,
                             !.step = CASE w.op = "Tree" -> "mkdir"
                                        [] w.op \in {"File", "Fetch"} -> "next"
                                        [] OTHER -> "single"]
<1>3. DOMAIN c = Fields /\ c.asking = FALSE
  BY DEF NoCall, Fields
<1>4. call' = [call EXCEPT ![t] = c] /\ UNCHANGED <<ssl, link, queue>>
  BY <1>2 DEF Begin
<1> HIDE DEF c
<1> QED BY <1>1, <1>3, <1>4, CallChanges

LEMMA NextFileInv ==
    ASSUME IInv, NEW t \in Threads, NextFile(t)
    PROVE  IInv'
<1>1. ~call[t].asking /\ DOMAIN call[t] = Fields /\ call[t].asking \in BOOLEAN
  BY DEF IInv, Shapes, AskingIsAtFront, NextFile, Exchanges
<1> DEFINE c == call[t]
           d == IF c.files = <<>> THEN [c EXCEPT !.step = "returned"]
                ELSE IF Length(c) = Missing THEN DoneWith(c, TRUE)
                ELSE [c EXCEPT !.step = "open", !.failed = FALSE, !.sure = TRUE,
                         !.local = IF c.op = "Fetch" THEN HostFile(Length(c)) ELSE <<>>]
<1>2. DOMAIN d = Fields /\ d.asking = c.asking
  BY <1>1, DoneWithShape DEF Fields
<1>3. call' = [call EXCEPT ![t] = d] /\ UNCHANGED <<ssl, link, queue>>
  BY DEF NextFile
<1> HIDE DEF d
<1> QED BY <1>1, <1>2, <1>3, CallChanges

LEMMA SubmitInv ==
    ASSUME IInv, NEW t \in Threads, Submit(t)
    PROVE  IInv'
<1>1. /\ queue' = Append(queue, t) /\ queue' \in Seq(Threads) /\ queue' # <<>>
      /\ queue # <<>> => Head(queue') = Head(queue)
      /\ UNCHANGED <<ssl, link, call>>
  BY QueueGrows DEF IInv, Shapes, Submit
<1>2. \A u \in Threads : AtFront(u) => AtFront(u)'
  BY <1>1 DEF AtFront
<1>3. Shapes' /\ LinkInv' /\ AskingIsAtFront'
  BY <1>1, <1>2 DEF IInv, Shapes, LinkInv, AskingIsAtFront
<1>4. \A u : Asks(u) => Asks(u)'
  BY <1>1, <1>2 DEF Asks
<1>5. Trusted' => OnItsWay'
  BY <1>1, <1>4 DEF IInv, Trusted, OnItsWay
<1> QED BY <1>3, <1>5 DEF IInv

LEMMA SendInv ==
    ASSUME IInv, NEW t \in Threads, Send(t), call[t].step \in Exchanges
    PROVE  IInv'
<1>1. /\ DOMAIN call' = Threads
      /\ call'[t].asking = TRUE /\ DOMAIN call'[t] = Fields
      /\ call'[t].step = call[t].step
      /\ \A u \in Threads : u # t => call'[u] = call[u]
      /\ AtFront(t) /\ ~call[t].asking /\ UNCHANGED <<ssl, queue>>
  BY DEF IInv, Shapes, Send, Fields
<1>2. /\ DOMAIN link' = LinkFields /\ link'.waited = link.waited /\ link'.up = link.up
      /\ link'.torn = link.torn /\ link'.in = link.in
      /\ link'.todo = IF link.up /\ ~link.torn THEN Append(link.todo, Request(t))
                       ELSE link.todo
  BY DEF IInv, Shapes, Send, LinkFields
<1>3. Shapes'
  BY <1>1, <1>2 DEF IInv, Shapes
<1>4. AskingIsAtFront'
  BY <1>1 DEF IInv, AskingIsAtFront, AtFront
<1>5. LinkInv'
  BY <1>1, <1>2 DEF IInv, LinkInv
<1>6. ASSUME Trusted' PROVE OnItsWay'
  <2>1. link.todo = <<>> /\ link.in = <<>>
    BY <1>1, <1>2, <1>6, NothingOnItsWay DEF Trusted
  <2>2. Request(t).by = t
    BY DEF Request
  <2>3. Asks(t)'
    BY <1>1 DEF Asks, AtFront
  <2> QED BY <1>2, <2>1, <2>2, <2>3, Single DEF OnItsWay
<1> QED BY <1>3, <1>4, <1>5, <1>6 DEF IInv

LEMMA SendFailsInv ==
    ASSUME IInv, NEW t \in Threads, SendFails(t), call[t].step \in Exchanges
    PROVE  IInv'
<1> DEFINE c == call[t]
           d == [Unsent(c) EXCEPT !.sure = FALSE]
<1>1. AtFront(t) /\ ~c.asking /\ DOMAIN c = Fields /\ c.asking \in BOOLEAN
  BY DEF SendFails, IInv, Shapes
<1>2. DOMAIN d = Fields /\ d.asking = c.asking
  BY <1>1, UnsentShape DEF Fields
<1>3. /\ call' = [call EXCEPT ![t] = d] /\ queue' = Tail(queue)
      /\ UNCHANGED <<ssl, link>>
  BY DEF SendFails
<1>4. LinkInv' /\ DOMAIN link' = LinkFields /\ link'.waited \in BOOLEAN /\ link'.up \in BOOLEAN
  BY <1>3 DEF IInv, Shapes, LinkInv
<1>5. Trusted' => link'.todo = <<>> /\ link'.in = <<>>
  BY <1>1, <1>3, NothingOnItsWay DEF Trusted
<1> HIDE DEF d
<1> QED BY <1>1, <1>2, <1>3, <1>4, <1>5, FrontLeaves

\* What Completes does with the call and the queue
LEMMA CompletesLeaves ==
    ASSUME IInv, NEW t \in Threads, AtFront(t), call[t].asking,
           NEW granted, NEW body, Completes(t, granted, body), UNCHANGED ssl,
           DOMAIN link' = LinkFields, link'.waited \in BOOLEAN, link'.up \in BOOLEAN,
           LinkInv', Trusted' => link'.todo = <<>> /\ link'.in = <<>>
    PROVE  IInv'
<1> DEFINE c == [call[t] EXCEPT !.sure = @ /\ granted, !.asking = FALSE]
           d == Succeeded(c, body)
<1>1. DOMAIN c = Fields /\ c.asking = FALSE /\ c.step = call[t].step
  BY DEF IInv, Shapes, Fields
<1>2. c.step \in Exchanges
  BY <1>1 DEF IInv, AskingIsAtFront
<1>3. call' = [call EXCEPT ![t] = d] /\ queue' = Tail(queue)
  BY DEF Completes
<1> HIDE DEF c
<1>4. DOMAIN d = Fields /\ d.asking = c.asking
  BY <1>1, <1>2, SucceededShape
<1> HIDE DEF d
<1> QED BY <1>1, <1>3, <1>4, FrontLeaves

LEMMA ReceiveInv ==
    ASSUME IInv, NEW t \in Threads, Receive(t)
    PROVE  IInv'
<1>1. AtFront(t) /\ call[t].asking /\ ~link.torn /\ link.in # <<>> /\ UNCHANGED ssl
  BY DEF Receive
<1>2. PICK granted, body : Completes(t, granted, body)
  BY DEF Receive
<1>3. /\ DOMAIN link' = LinkFields /\ link'.waited = link.waited /\ link'.up = link.up
      /\ link'.torn = link.torn /\ link'.todo = link.todo /\ link'.in = Tail(link.in)
  BY DEF IInv, Shapes, Receive, LinkFields
<1>4. LinkInv'
  BY <1>1, <1>3 DEF IInv, LinkInv
<1>5. Trusted' => link'.todo = <<>> /\ link'.in = <<>>
  BY <1>1, <1>3, Single DEF IInv, Trusted, OnItsWay
<1> QED BY <1>1, <1>2, <1>3, <1>4, <1>5, CompletesLeaves DEF IInv, Shapes

LEMMA ReceiveNothingInv ==
    ASSUME IInv, NEW t \in Threads, ReceiveNothing(t)
    PROVE  IInv'
<1>1. /\ AtFront(t) /\ call[t].asking /\ ~link.torn /\ link.in = <<>>
      /\ ~link.up \/ ~ssl
      /\ Completes(t, FALSE, Null) /\ UNCHANGED ssl
  BY DEF ReceiveNothing
<1>2. /\ DOMAIN link' = LinkFields /\ link'.up = link.up
      /\ link'.waited = (link.waited \/ link.up)
      /\ link'.torn = link.torn /\ link'.todo = link.todo /\ link'.in = link.in
  BY DEF IInv, Shapes, ReceiveNothing, LinkFields
<1>3. LinkInv' /\ link'.waited \in BOOLEAN /\ link'.up \in BOOLEAN
  BY <1>1, <1>2 DEF IInv, Shapes, LinkInv
<1>4. Trusted' => link'.todo = <<>> /\ link'.in = <<>>
  BY <1>1, <1>2 DEF IInv, Trusted, LinkInv
<1> QED BY <1>1, <1>2, <1>3, <1>4, CompletesLeaves

LEMMA ReceiveTornInv ==
    ASSUME IInv, NEW t \in Threads, ReceiveTorn(t)
    PROVE  IInv'
<1>1. /\ AtFront(t) /\ call[t].asking
      /\ Completes(t, FALSE, Zeros) /\ link' = Torn /\ UNCHANGED ssl
  BY DEF ReceiveTorn
<1>2. DOMAIN link = LinkFields /\ link.up \in BOOLEAN
  BY DEF IInv, Shapes
<1> QED BY <1>1, <1>2, TornLink, CompletesLeaves

LEMMA ReceiveStallsInv ==
    ASSUME IInv, NEW t \in Threads, ReceiveStalls(t)
    PROVE  IInv'
<1>1. link' = [Torn EXCEPT !.outside = TRUE] /\ UNCHANGED <<ssl, queue, call>>
  BY DEF ReceiveStalls
<1>2. DOMAIN link = LinkFields /\ link.up \in BOOLEAN
  BY DEF IInv, Shapes
<1> QED BY <1>1, <1>2, TornLink DEF IInv, Shapes, AskingIsAtFront, AtFront

LEMMA ReceiveGarbageInv ==
    ASSUME IInv, NEW t \in Threads, ReceiveGarbage(t)
    PROVE  IInv'
<1>1. AtFront(t) /\ call[t].asking /\ link' = Torn /\ UNCHANGED ssl
  BY DEF ReceiveGarbage
<1>2. PICK body \in {Null, Zeros} : Completes(t, FALSE, body)
  BY DEF ReceiveGarbage
<1>3. DOMAIN link = LinkFields /\ link.up \in BOOLEAN
  BY DEF IInv, Shapes
<1> QED BY <1>1, <1>2, <1>3, TornLink, CompletesLeaves

LEMMA ReceiveOutsideInv ==
    ASSUME IInv, NEW t \in Threads, ReceiveOutside(t)
    PROVE  IInv'
<1>1. AtFront(t) /\ call[t].asking /\ link' = Torn /\ UNCHANGED ssl
  BY DEF ReceiveOutside
<1>2. DOMAIN link = LinkFields /\ link.up \in BOOLEAN
  BY DEF IInv, Shapes
<1>3. CASE \E body \in {Null, Zeros} : Completes(t, FALSE, body)
  BY <1>1, <1>2, <1>3, TornLink, CompletesLeaves
<1>4. CASE UNCHANGED <<queue, call>>
  BY <1>1, <1>2, <1>4, TornLink DEF IInv, Shapes, AskingIsAtFront, AtFront
<1> QED BY <1>3, <1>4 DEF ReceiveOutside

\* The conduit turns a request into its answer
LEMMA ServeInv ==
    ASSUME IInv, Serve
    PROVE  IInv'
<1>1. /\ link.up /\ link.todo # <<>> /\ UNCHANGED <<ssl, queue, call>>
      /\ \E granted, body : Reply(Head(link.todo), granted, body)
  BY DEF Serve, ServeOpen, ServeWrite, ServeRead, ServeClose, ServeOther, Refuse
<1>2. PICK granted, body : Reply(Head(link.todo), granted, body)
  BY <1>1
<1>3. /\ DOMAIN link' = LinkFields /\ link'.up = link.up /\ link'.waited = link.waited
      /\ link'.torn = link.torn /\ link'.todo = Tail(link.todo)
      /\ link'.in = Append(link.in, Answer(Head(link.todo).by, granted, body))
  BY <1>2 DEF IInv, Shapes, Reply, LinkFields
<1>4. Shapes' /\ AskingIsAtFront' /\ LinkInv'
  BY <1>1, <1>3 DEF IInv, Shapes, AskingIsAtFront, AtFront, LinkInv
<1>5. ASSUME Trusted' PROVE OnItsWay'
  <2>1. PICK r : link.todo = <<r>> /\ link.in = <<>> /\ Asks(r.by)
    BY <1>1, <1>3, <1>5 DEF IInv, Trusted, OnItsWay
  <2>2. link'.todo = <<>> /\ link'.in = <<Answer(r.by, granted, body)>>
    BY <1>3, <2>1, Single
  <2>3. Answer(r.by, granted, body).to = r.by /\ Asks(r.by)'
    BY <1>1, <2>1 DEF Answer, Asks, AtFront
  <2> QED BY <2>2, <2>3 DEF OnItsWay
<1> QED BY <1>4, <1>5 DEF IInv

LEMMA HangUpInv ==
    ASSUME IInv, HangUp
    PROVE  IInv'
<1>1. /\ UNCHANGED <<ssl, queue, call>>
      /\ DOMAIN link' = LinkFields /\ link'.up = FALSE /\ link'.waited = link.waited
      /\ link'.torn = link.torn /\ link'.todo = <<>> /\ link'.in = link.in
  BY DEF IInv, Shapes, HangUp, LinkFields
<1>2. Shapes' /\ AskingIsAtFront' /\ LinkInv'
  BY <1>1 DEF IInv, Shapes, AskingIsAtFront, AtFront, LinkInv
<1>3. Trusted' => OnItsWay'
  BY <1>1 DEF IInv, Trusted, OnItsWay, Asks, AtFront
<1> QED BY <1>2, <1>3 DEF IInv

\* Nothing on its way is lost when the conduit reads no more
LEMMA StopReadingInv ==
    ASSUME IInv, StopReading
    PROVE  IInv'
<1>1. /\ UNCHANGED <<ssl, queue, call>>
      /\ DOMAIN link' = LinkFields /\ link'.up = link.up /\ link'.waited = link.waited
      /\ link'.torn = link.torn /\ link'.todo = link.todo /\ link'.in = link.in
  BY DEF IInv, Shapes, StopReading, LinkFields
<1>2. Shapes' /\ AskingIsAtFront' /\ LinkInv'
  BY <1>1 DEF IInv, Shapes, AskingIsAtFront, AtFront, LinkInv
<1>3. Trusted' => OnItsWay'
  BY <1>1 DEF IInv, Trusted, OnItsWay, Asks, AtFront
<1> QED BY <1>2, <1>3 DEF IInv

-----------------------------------------------------------------------------
(* The step of the front operation belongs to an exchange.                 *)

\* Who is in the queue is there once, and in an exchange: a call's step changes
\* only when it leaves
Line ==
    /\ \A i \in 1..Len(queue) : call[queue[i]].step \in Exchanges
    /\ \A i, j \in 1..Len(queue) : queue[i] = queue[j] => i = j

InvAndLine == IInv /\ Line

\* The front is one of the queue
LEMMA FrontIsInLine ==
    ASSUME IInv, Line, NEW t \in Threads, AtFront(t)
    PROVE  /\ call[t].step \in Exchanges
           /\ Len(queue) \in Nat /\ 1 \in 1..Len(queue) /\ queue[1] = t
<1>1. Len(queue) \in Nat /\ 1 \in 1..Len(queue) /\ queue[1] = t
  BY DEF IInv, Shapes, AtFront
<1> QED BY <1>1 DEF Line

LEMMA LineStays ==
    ASSUME IInv, Line, NEW t \in Threads, UNCHANGED queue,
           \A u \in Threads : u # t => call'[u] = call[u],
           call[t].step \in Exchanges => call'[t].step = call[t].step
    PROVE  Line'
<1>1. ASSUME NEW i \in 1..Len(queue) PROVE queue[i] \in Threads
  BY DEF IInv, Shapes
<1> QED BY <1>1 DEF Line

LEMMA LineGrows ==
    ASSUME IInv, Line, NEW t \in Threads, Submit(t)
    PROVE  Line'
<1>1. /\ call[t].step \in Exchanges /\ \A i \in 1..Len(queue) : queue[i] # t
      /\ queue' = Append(queue, t) /\ UNCHANGED call
  BY DEF Submit
<1>2. /\ Len(queue) \in Nat /\ Len(queue') = Len(queue) + 1
      /\ \A i \in 1..Len(queue) : queue'[i] = queue[i]
      /\ queue'[Len(queue) + 1] = t
  BY <1>1, AppendProperties DEF IInv, Shapes
<1>3. \A i \in 1..Len(queue') : i \in 1..Len(queue) \/ i = Len(queue) + 1
  BY <1>2
<1> QED BY <1>1, <1>2, <1>3 DEF Line

LEMMA LineShrinks ==
    ASSUME IInv, Line, NEW t \in Threads, AtFront(t), queue' = Tail(queue),
           \A u \in Threads : u # t => call'[u] = call[u]
    PROVE  Line'
<1>1. Len(queue) \in Nat /\ 1 \in 1..Len(queue) /\ queue[1] = t
  BY FrontIsInLine
<1>2. /\ Len(queue') = Len(queue) - 1
      /\ \A i \in 1..Len(queue') : i + 1 \in 1..Len(queue) /\ queue'[i] = queue[i + 1]
  BY <1>1 DEF IInv, Shapes
<1>3. ASSUME NEW i \in 1..Len(queue')
      PROVE  queue'[i] \in Threads /\ queue'[i] # t
  <2>1. i + 1 \in 1..Len(queue) /\ queue'[i] = queue[i + 1] /\ i + 1 # 1
    BY <1>1, <1>2
  <2>2. queue[i + 1] \in Threads /\ queue[i + 1] # queue[1]
    BY <1>1, <2>1 DEF IInv, Shapes, Line
  <2> QED BY <1>1, <2>1, <2>2
<1>4. ASSUME NEW i \in 1..Len(queue')
      PROVE  call'[queue'[i]].step \in Exchanges
  <2>1. call'[queue'[i]] = call[queue'[i]]
    BY <1>3
  <2> QED BY <1>2, <2>1 DEF Line
<1>5. ASSUME NEW i \in 1..Len(queue'), NEW j \in 1..Len(queue'), queue'[i] = queue'[j]
      PROVE  i = j
  <2>1. i + 1 = j + 1
    BY <1>2, <1>5 DEF Line
  <2> QED BY <2>1, <1>1, <1>2
<1> QED BY <1>4, <1>5 DEF Line

\* Completes changes the call at the front, and lets it leave
LEMMA CompletesLine ==
    ASSUME IInv, Line, NEW t \in Threads, AtFront(t), NEW granted, NEW body,
           Completes(t, granted, body)
    PROVE  Line'
<1>1. queue' = Tail(queue) /\ \A u \in Threads : u # t => call'[u] = call[u]
  BY DEF IInv, Shapes, Completes
<1> QED BY <1>1, LineShrinks

-----------------------------------------------------------------------------
(* The inductive invariant.                                                *)

LEMMA ThreadInv ==
    ASSUME InvAndLine, NEW t \in Threads,
           Begin(t) \/ ThreadStep(t) \/ ReceiveOutside(t)
    PROVE  InvAndLine'
<1> USE DEF InvAndLine
<1>0. DOMAIN call = Threads
  BY DEF IInv, Shapes
<1>1. CASE Begin(t)
  <2>1. /\ \A u \in Threads : u # t => call'[u] = call[u]
        /\ UNCHANGED queue /\ call[t].step \notin Exchanges
    BY <1>0, <1>1 DEF Begin, Exchanges
  <2> QED BY <1>1, <2>1, BeginInv, LineStays
<1>2. CASE NextFile(t)
  <2>1. /\ \A u \in Threads : u # t => call'[u] = call[u]
        /\ UNCHANGED queue /\ call[t].step \notin Exchanges
    BY <1>0, <1>2 DEF NextFile, Exchanges
  <2> QED BY <1>2, <2>1, NextFileInv, LineStays
<1>3. CASE Submit(t)
  BY <1>3, SubmitInv, LineGrows
<1>4. CASE Send(t)
  <2>1. call[t].step \in Exchanges
    BY <1>4, FrontIsInLine DEF Send
  <2>2. /\ \A u \in Threads : u # t => call'[u] = call[u]
        /\ UNCHANGED queue /\ call'[t].step = call[t].step
    BY <1>0, <1>4 DEF Send, IInv, Shapes, Fields
  <2> QED BY <1>4, <2>1, <2>2, SendInv, LineStays
<1>5. CASE SendFails(t)
  <2>1. call[t].step \in Exchanges
    BY <1>5, FrontIsInLine DEF SendFails
  <2>2. /\ AtFront(t) /\ queue' = Tail(queue)
        /\ \A u \in Threads : u # t => call'[u] = call[u]
    BY <1>0, <1>5 DEF SendFails
  <2> QED BY <1>5, <2>1, <2>2, SendFailsInv, LineShrinks
<1>6. CASE Receive(t)
  BY <1>6, ReceiveInv, CompletesLine DEF Receive
<1>7. CASE ReceiveNothing(t)
  BY <1>7, ReceiveNothingInv, CompletesLine DEF ReceiveNothing
<1>8. CASE ReceiveTorn(t)
  BY <1>8, ReceiveTornInv, CompletesLine DEF ReceiveTorn
<1>9. CASE ReceiveGarbage(t)
  BY <1>9, ReceiveGarbageInv, CompletesLine DEF ReceiveGarbage
<1>10. CASE ReceiveOutside(t)
  <2>1. CASE \E body \in {Null, Zeros} : Completes(t, FALSE, body)
    BY <1>10, <2>1, ReceiveOutsideInv, CompletesLine DEF ReceiveOutside
  <2>2. CASE UNCHANGED <<queue, call>>
    BY <1>10, <2>2, ReceiveOutsideInv DEF Line
  <2> QED BY <1>10, <2>1, <2>2 DEF ReceiveOutside
<1>11. CASE ReceiveStalls(t)
  BY <1>11, ReceiveStallsInv DEF ReceiveStalls, Line
<1> QED BY <1>1, <1>2, <1>3, <1>4, <1>5, <1>6, <1>7, <1>8, <1>9, <1>10, <1>11
        DEF ThreadStep

LEMMA NextInv == InvAndLine /\ [Next]_vars => InvAndLine'
<1> SUFFICES ASSUME InvAndLine, [Next]_vars PROVE InvAndLine'
  OBVIOUS
<1>1. CASE \E t \in Threads : Begin(t) \/ ThreadStep(t) \/ ReceiveOutside(t)
  BY <1>1, ThreadInv
<1>2. CASE Serve
  BY <1>2, ServeInv DEF InvAndLine, Serve, Line
<1>3. CASE HangUp
  BY <1>3, HangUpInv DEF InvAndLine, HangUp, Line
<1>4. CASE StopReading
  BY <1>4, StopReadingInv DEF InvAndLine, StopReading, Line
<1>5. CASE UNCHANGED vars
  BY <1>5 DEF vars, InvAndLine, IInv, Shapes, AskingIsAtFront, LinkInv, Trusted,
              OnItsWay, Asks, AtFront, Line
<1> QED BY <1>1, <1>2, <1>3, <1>4, <1>5 DEF Next, Rest

LEMMA InitLine == Init => InvAndLine
<1> SUFFICES ASSUME Init PROVE Line
  BY InitInv DEF InvAndLine
<1>1. Len(queue) = 0 /\ 1..Len(queue) = {}
  BY DEF Init
<1> QED BY <1>1 DEF Line

LEMMA InvariantHolds == Spec => []InvAndLine
BY InitLine, NextInv, PTL DEF Spec

\* An answer is taken by the call that asked (SDMMD_AFCReceiveOperation, which
\* does not look at the number of a packet), whatever threads, files, handles
\* and status codes there are, until a receive over a plain socket waits in vain
\* or an answer is stored where it does not belong.
THEOREM AnswersAreOwn == Spec => []AnswerIsOwn
<1>1. IInv => AnswerIsOwn
  <2> SUFFICES ASSUME IInv, Trusted
               PROVE  /\ Len(link.todo) + Len(link.in) <= 1
                      /\ \A i \in 1..Len(link.todo) :
                            AtFront(link.todo[i].by) /\ call[link.todo[i].by].asking
                      /\ \A i \in 1..Len(link.in) :
                            AtFront(link.in[i].to) /\ call[link.in[i].to].asking
    BY DEF AnswerIsOwn, Trusted
  <2>1. CASE link.todo = <<>> /\ link.in = <<>>
    BY <2>1
  <2>2. ASSUME NEW r, link.todo = <<r>>, link.in = <<>>, Asks(r.by)
        PROVE  /\ Len(link.todo) + Len(link.in) <= 1
               /\ \A i \in 1..Len(link.todo) : link.todo[i] = r
               /\ \A i \in 1..Len(link.in) : FALSE
    BY <2>2
  <2>3. ASSUME NEW a, link.todo = <<>>, link.in = <<a>>, Asks(a.to)
        PROVE  /\ Len(link.todo) + Len(link.in) <= 1
               /\ \A i \in 1..Len(link.in) : link.in[i] = a
               /\ \A i \in 1..Len(link.todo) : FALSE
    BY <2>3
  <2> QED BY ZenonT(60), <2>1, <2>2, <2>3 DEF IInv, OnItsWay, Asks
<1> QED BY <1>1, InvariantHolds, PTL DEF InvAndLine

-----------------------------------------------------------------------------
(* Whose the handles are.                                                  *)

\* While requests get to the conduit, its answers are believed and it opened what
\* it was asked to, a handle is known by the file it is open for.
Clear == Trusted /\ ~device.misled /\ link.up /\ ~link.full

Owns(t, h) == h \in Open /\ device.file[h] = <<t, call[t].path>>
UsesHandle(t) == call[t].step \in {"write", "read", "close"}
Replied(t) == call[t].asking /\ link.in # <<>>
OpenReplied(t) == Replied(t) /\ call[t].step = "open"
CloseReplied(t) == Replied(t) /\ call[t].step = "close"

\* The request on its way is what its call asks.
RequestIsCalls ==
    link.todo # <<>> => Head(link.todo) = Request(Head(link.todo).by)

\* A call's handle is its own until the conduit has closed it; the handle in an
\* answer to its open will be.
HandleOf(t) ==
    /\ OpenReplied(t) => Owns(t, Head(link.in).body.word)
    /\ UsesHandle(t) =>
          /\ call[t].handle \in Open => Owns(t, call[t].handle)
          /\ call[t].handle \in Open \/ CloseReplied(t)

\* Handle h is open because of call t.
Holds(t, h) ==
    \/ OpenReplied(t) /\ Head(link.in).body.word = h
    \/ UsesHandle(t) /\ ~CloseReplied(t) /\ call[t].handle = h

HandleInv ==
    /\ ~link.up => Open = {}
    /\ Clear =>
          /\ RequestIsCalls
          /\ \A t \in Threads : HandleOf(t)
          /\ \A h \in Open \ device.kept : \E t \in Threads : Holds(t, h)

DeviceFields == {"files", "file", "at", "misled", "kept", "refusals"}
DeviceShape ==
    /\ DOMAIN device = DeviceFields /\ DOMAIN device.file = Handles
    /\ device.misled \in BOOLEAN
    /\ \A t \in Threads : call[t].step = "single" => call[t].op \in Operations

\* The handles' invariant stands on that of the queue.
Inv == InvAndLine /\ DeviceShape /\ HandleInv

\* At most one request or answer is on its way, that of the front.
LEMMA OneOnItsWay ==
    ASSUME IInv, Trusted
    PROVE  /\ link.todo # <<>> =>
                 /\ \E r : link.todo = <<r>> /\ Head(link.todo) = r /\ Tail(link.todo) = <<>>
                 /\ link.in = <<>> /\ Asks(Head(link.todo).by)
           /\ link.in # <<>> => link.todo = <<>> /\ Tail(link.in) = <<>>
<1>1. CASE link.todo = <<>> /\ link.in = <<>>
  BY <1>1
<1>2. ASSUME NEW r, link.todo = <<r>>, link.in = <<>>, Asks(r.by)
      PROVE  Head(link.todo) = r /\ Tail(link.todo) = <<>>
  BY <1>2, Single
<1>3. ASSUME NEW a, link.todo = <<>>, link.in = <<a>>, Asks(a.to)
      PROVE  Tail(link.in) = <<>>
  BY <1>3, Single
<1> QED BY <1>1, <1>2, <1>3 DEF IInv, OnItsWay

\* Only the front asks.
LEMMA OneAsks ==
    ASSUME IInv, NEW t \in Threads, NEW u \in Threads, call[u].asking,
           AtFront(t) \/ call[t].asking
    PROVE  u = t
BY DEF IInv, AskingIsAtFront, AtFront

\* A call that asks nothing and has no handle changes.
LEMMA HandlesAside ==
    ASSUME Inv, NEW t \in Threads, NEW c, DOMAIN call = Threads,
           ~call[t].asking, ~c.asking, ~UsesHandle(t),
           c.step \notin {"write", "read", "close"},
           c.step = "single" => c.op \in Operations,
           call' = [call EXCEPT ![t] = c], UNCHANGED <<ssl, link, device>>
    PROVE  DeviceShape' /\ HandleInv'
<1>1. /\ call'[t] = c /\ \A u \in Threads : u # t => call'[u] = call[u]
      /\ Open' = Open /\ (Clear' <=> Clear)
  BY DEF Open, Clear, Trusted
<1>2. DeviceShape'
  BY <1>1 DEF Inv, DeviceShape
<1>3. ASSUME Clear PROVE RequestIsCalls'
  <2> SUFFICES ASSUME link.todo # <<>>
               PROVE  Head(link.todo) = Request(Head(link.todo).by)'
    BY DEF RequestIsCalls
  <2>1. Asks(Head(link.todo).by)
    BY <1>3, OneOnItsWay DEF Inv, InvAndLine, Clear
  <2> DEFINE u == Head(link.todo).by
  <2>2. call'[u] = call[u]
    BY <1>1, <2>1 DEF Asks
  <2>3. Head(link.todo) = Request(u)
    BY <1>3 DEF Inv, HandleInv, RequestIsCalls
  <2> QED BY <2>2, <2>3 DEF Request, Block, Offset, Remainder, Length
<1>4. ASSUME NEW u \in Threads, u # t
      PROVE  /\ HandleOf(u) => HandleOf(u)'
             /\ \A h : Holds(u, h) => Holds(u, h)'
  BY <1>1, <1>4 DEF HandleOf, Holds, OpenReplied, CloseReplied, Replied, UsesHandle, Owns
<1>5. HandleOf(t)' /\ \A h : ~Holds(t, h)
  BY <1>1 DEF HandleOf, Holds, OpenReplied, CloseReplied, Replied, UsesHandle
<1>6. HandleInv'
  BY <1>1, <1>3, <1>4, <1>5 DEF Inv, HandleInv
<1> QED BY <1>2, <1>6


\* The loop over the packets keeps the handle.
LEMMA LoopKeeps ==
    ASSUME NEW c, DOMAIN c = Fields
    PROVE  /\ Loop(c).step \in {"write", "read", "close"}
           /\ Loop(c).handle = c.handle /\ Loop(c).path = c.path
BY DEF Loop, Fields

\* What came to an open is the handle, the loop keeps it, and nothing else has one.
LEMMA SucceededKeeps ==
    ASSUME NEW c, DOMAIN c = Fields, c.step \in Exchanges, NEW body
    PROVE  /\ c.step \in {"open", "write", "read"} =>
                 /\ Succeeded(c, body).step \in {"write", "read", "close"}
                 /\ Succeeded(c, body).path = c.path
                 /\ Succeeded(c, body).handle = IF c.step = "open" THEN body.word ELSE c.handle
           /\ c.step \notin {"open", "write", "read"} =>
                 Succeeded(c, body).step \in {"next", "returned"}
<1>1. CASE c.step = "open"
  <2> DEFINE d == [c EXCEPT !.handle = body.word]
  <2>1. DOMAIN d = Fields /\ d.handle = body.word /\ d.path = c.path
    BY DEF Fields
  <2>2. Succeeded(c, body) = Loop(d)
    BY <1>1 DEF Succeeded
  <2> HIDE DEF d
  <2> QED BY <1>1, <2>1, <2>2, LoopKeeps
<1>2. CASE c.step = "write"
  <2> DEFINE d == [c EXCEPT !.index = @ + 1]
  <2>1. DOMAIN d = Fields /\ d.handle = c.handle /\ d.path = c.path
    BY DEF Fields
  <2>2. Succeeded(c, body) = Loop(d)
    BY <1>2 DEF Succeeded
  <2> HIDE DEF d
  <2> QED BY <1>2, <2>1, <2>2, LoopKeeps
<1>3. CASE c.step = "read"
  <2> DEFINE d == [c EXCEPT !.index = @ + 1,
                            !.local = Overwrite(@, c.at, body.data),
                            !.at = @ + Len(body.data)]
  <2>1. DOMAIN d = Fields /\ d.handle = c.handle /\ d.path = c.path
    BY DEF Fields
  <2>2. Succeeded(c, body) = Loop(d)
    BY <1>3 DEF Succeeded
  <2> HIDE DEF d
  <2> QED BY <1>3, <2>1, <2>2, LoopKeeps
<1>4. CASE c.step \in {"mkdir", "close", "single"}
  BY <1>4 DEF Succeeded, DoneWith, Fields
<1> QED BY <1>1, <1>2, <1>3, <1>4 DEF Exchanges

LEMMA UnsentKeeps ==
    ASSUME NEW c, DOMAIN c = Fields, c.step \in Exchanges
    PROVE  Unsent(c).step # "single"
BY DEF Unsent, DoneWith, Fields, Exchanges

\* A call steps and the conduit does not: the record of the conduit is one still.
LEMMA ShapeStays ==
    ASSUME DeviceShape, DOMAIN call = Threads, NEW t \in Threads, UNCHANGED device,
           \A u \in Threads : u # t => call'[u] = call[u],
           call'[t].step # "single" \/ (call'[t].step = call[t].step /\ call'[t].op = call[t].op)
    PROVE  DeviceShape'
BY DEF DeviceShape

\* When the connection cannot be trusted any more there is little to keep.
LEMMA Unclear ==
    ASSUME HandleInv, ~Clear', UNCHANGED device, link'.up = link.up
    PROVE  HandleInv'
BY DEF HandleInv, Open

-----------------------------------------------------------------------------
(* What each step does to the handles.                                     *)

LEMMA BeginHandles ==
    ASSUME Inv, NEW t \in Threads, Begin(t)
    PROVE  DeviceShape' /\ HandleInv'
<1>1. /\ ~call[t].asking /\ ~UsesHandle(t) /\ DOMAIN call = Threads
  BY DEF Inv, InvAndLine, IInv, Shapes, AskingIsAtFront, Begin, Exchanges, UsesHandle
<1>2. PICK w \in Works[t] :
        call' = [call EXCEPT ![t] =
              [NoCall EXCEPT !.op = w.op, !.files = w.files,
                             !.step = CASE w.op = "Tree" -> "mkdir"
                                        [] w.op \in {"File", "Fetch"} -> "next"
                                        [] OTHER -> "single"]]
  BY DEF Begin
<1> DEFINE c == [NoCall EXCEPT !.op = w.op, !.files = w.files,
                             !.step = CASE w.op = "Tree" -> "mkdir"
                                        [] w.op \in {"File", "Fetch"} -> "next"
                                        [] OTHER -> "single"]
<1>3. w.op \in Operations
  BY WorksAssumption
<1>4. /\ c.asking = FALSE /\ c.op = w.op
      /\ c.step \notin {"write", "read", "close"}
  BY DEF NoCall
<1>5. call' = [call EXCEPT ![t] = c] /\ UNCHANGED <<ssl, link, device>>
  BY <1>2 DEF Begin
<1> HIDE DEF c
<1> QED BY <1>1, <1>3, <1>4, <1>5, HandlesAside

LEMMA NextFileHandles ==
    ASSUME Inv, NEW t \in Threads, NextFile(t)
    PROVE  DeviceShape' /\ HandleInv'
<1>1. /\ ~call[t].asking /\ ~UsesHandle(t) /\ DOMAIN call = Threads
      /\ DOMAIN call[t] = Fields
  BY DEF Inv, InvAndLine, IInv, Shapes, AskingIsAtFront, NextFile, Exchanges, UsesHandle
<1> DEFINE c == call[t]
           d == IF c.files = <<>> THEN [c EXCEPT !.step = "returned"]
                ELSE IF Length(c) = Missing THEN DoneWith(c, TRUE)
                ELSE [c EXCEPT !.step = "open", !.failed = FALSE, !.sure = TRUE,
                         !.local = IF c.op = "Fetch" THEN HostFile(Length(c)) ELSE <<>>]
<1>2. d.asking = c.asking /\ d.step \in {"returned", "next", "open"}
  BY <1>1 DEF Fields, DoneWith
<1>3. call' = [call EXCEPT ![t] = d] /\ UNCHANGED <<ssl, link, device>>
  BY DEF NextFile
<1> HIDE DEF d
<1> QED BY <1>1, <1>2, <1>3, HandlesAside

LEMMA SubmitHandles ==
    ASSUME Inv, NEW t \in Threads, Submit(t)
    PROVE  DeviceShape' /\ HandleInv'
<1>1. UNCHANGED <<ssl, link, call, device>>
  BY DEF Submit
<1>2. /\ Open' = Open /\ (Clear' <=> Clear) /\ (RequestIsCalls' <=> RequestIsCalls)
      /\ \A u \in Threads : HandleOf(u)' <=> HandleOf(u)
      /\ \A u \in Threads : \A h : Holds(u, h)' <=> Holds(u, h)
  BY <1>1 DEF Open, Clear, Trusted, RequestIsCalls, Request, Block, Offset, Remainder,
              Length, HandleOf, Holds, OpenReplied, CloseReplied, Replied, UsesHandle, Owns
<1> QED BY <1>1, <1>2 DEF Inv, DeviceShape, HandleInv

LEMMA SendHandles ==
    ASSUME Inv, NEW t \in Threads, Send(t), call[t].step \in Exchanges
    PROVE  DeviceShape' /\ HandleInv'
<1>1. /\ DOMAIN call = Threads /\ DOMAIN call[t] = Fields /\ DOMAIN link = LinkFields
      /\ AtFront(t) /\ ~call[t].asking /\ UNCHANGED <<ssl, queue, device>>
      /\ call' = [call EXCEPT ![t].asking = TRUE]
      /\ link' = IF link.up /\ ~link.torn THEN [link EXCEPT !.todo = Append(@, Request(t))]
                 ELSE link
  BY DEF Inv, InvAndLine, IInv, Shapes, Send
<1>2. /\ \A u \in Threads : u # t => call'[u] = call[u]
      /\ call'[t] = [call[t] EXCEPT !.asking = TRUE]
  BY <1>1
<1>3. /\ call'[t].step = call[t].step /\ call'[t].op = call[t].op
      /\ call'[t].handle = call[t].handle /\ call'[t].path = call[t].path
      /\ call'[t].files = call[t].files /\ call'[t].index = call[t].index
  BY <1>1, <1>2 DEF Fields
<1>4. /\ link'.up = link.up /\ link'.waited = link.waited /\ link'.in = link.in
      /\ link'.full = link.full /\ link'.torn = link.torn
      /\ link'.todo = IF link.up /\ ~link.torn THEN Append(link.todo, Request(t))
                      ELSE link.todo
  BY <1>1 DEF LinkFields
<1>5. DeviceShape'
  BY <1>1, <1>2, <1>3, ShapeStays DEF Inv
<1>6. Open' = Open /\ (Clear' <=> Clear)
  BY <1>1, <1>4 DEF Open, Clear, Trusted
<1>7. ASSUME Clear PROVE link.todo = <<>> /\ link.in = <<>> /\ link'.todo = <<Request(t)>>
  <2>1. link.todo = <<>> /\ link.in = <<>> /\ ~link.torn
    BY <1>1, <1>7, NothingOnItsWay DEF Inv, InvAndLine, Clear, Trusted
  <2> QED BY <1>4, <1>7, <2>1, Single DEF Clear
<1>8. Request(t)' = Request(t) /\ Request(t).by = t
  BY <1>3 DEF Request, Block, Offset, Remainder, Length
<1>9. ASSUME Clear PROVE RequestIsCalls'
  BY <1>7, <1>8, <1>9, Single DEF RequestIsCalls
<1>10. ASSUME Clear, NEW u \in Threads
       PROVE  (HandleOf(u) => HandleOf(u)') /\ \A h : Holds(u, h) => Holds(u, h)'
  BY <1>1, <1>2, <1>3, <1>4, <1>6, <1>7, <1>10
     DEF HandleOf, Holds, OpenReplied, CloseReplied, Replied, UsesHandle, Owns
<1> QED BY <1>1, <1>4, <1>5, <1>6, <1>9, <1>10 DEF Inv, HandleInv

LEMMA SendFailsHandles ==
    ASSUME Inv, NEW t \in Threads, SendFails(t), call[t].step \in Exchanges
    PROVE  DeviceShape' /\ HandleInv'
<1>1. /\ DOMAIN call = Threads /\ DOMAIN call[t] = Fields
      /\ ~link.up \/ link.full
      /\ UNCHANGED <<ssl, link, device>>
      /\ call' = [call EXCEPT ![t] = [Unsent(@) EXCEPT !.sure = FALSE]]
  BY DEF Inv, InvAndLine, IInv, Shapes, SendFails, Full
<1>2. DOMAIN Unsent(call[t]) = Fields /\ Unsent(call[t]).step # "single"
  BY <1>1, UnsentShape, UnsentKeeps
<1>3. call'[t].step # "single" /\ \A u \in Threads : u # t => call'[u] = call[u]
  BY <1>1, <1>2 DEF Fields
<1>4. DeviceShape'
  BY <1>1, <1>3, ShapeStays DEF Inv
<1>5. HandleInv'
  BY <1>1, Unclear DEF Inv, Clear
<1> QED BY <1>4, <1>5

\* What Completes does with the calls.
LEMMA CompletesCalls ==
    ASSUME Inv, NEW t \in Threads, AtFront(t), NEW granted, NEW body,
           Completes(t, granted, body), UNCHANGED device
    PROVE  /\ DeviceShape'
           /\ \A u \in Threads : u # t => call'[u] = call[u]
           /\ ~call'[t].asking
           /\ call[t].step \in {"open", "write", "read"} =>
                 /\ UsesHandle(t)' /\ call'[t].path = call[t].path
                 /\ call'[t].handle = IF call[t].step = "open" THEN body.word
                                      ELSE call[t].handle
           /\ call[t].step \notin {"open", "write", "read"} => ~UsesHandle(t)' /\ call'[t].step # "open"
<1> DEFINE c == [call[t] EXCEPT !.sure = @ /\ granted, !.asking = FALSE]
           d == Succeeded(c, body)
<1>1. /\ DOMAIN c = Fields /\ c.asking = FALSE /\ c.step = call[t].step
      /\ c.path = call[t].path /\ c.handle = call[t].handle
  BY DEF Inv, InvAndLine, IInv, Shapes, Fields
<1>2. c.step \in Exchanges
  BY <1>1, FrontIsInLine DEF Inv, InvAndLine
<1>3. DOMAIN call = Threads /\ call' = [call EXCEPT ![t] = d]
  BY DEF Completes, Inv, InvAndLine, IInv, Shapes
<1> HIDE DEF c
<1>4. /\ d.asking = c.asking
      /\ c.step \in {"open", "write", "read"} =>
            /\ d.step \in {"write", "read", "close"} /\ d.path = c.path
            /\ d.handle = IF c.step = "open" THEN body.word ELSE c.handle
      /\ c.step \notin {"open", "write", "read"} => d.step \in {"next", "returned"}
  <2>1. d.asking = c.asking
    BY <1>1, <1>2, SucceededShape
  <2> QED BY <1>1, <1>2, <2>1, SucceededKeeps
<1> HIDE DEF d
<1>5. call'[t] = d /\ \A u \in Threads : u # t => call'[u] = call[u]
  BY <1>3
<1>6. d.step # "single"
  BY <1>4
<1>7. DeviceShape'
  BY <1>3, <1>5, <1>6, ShapeStays DEF Inv
<1> QED BY <1>1, <1>4, <1>5, <1>7 DEF UsesHandle

LEMMA ReceiveHandles ==
    ASSUME Inv, NEW t \in Threads, Receive(t)
    PROVE  DeviceShape' /\ HandleInv'
<1>1. /\ AtFront(t) /\ call[t].asking /\ link.in # <<>> /\ UNCHANGED <<ssl, device>>
      /\ Completes(t, Head(link.in).granted, Head(link.in).body)
      /\ link' = [link EXCEPT !.in = Tail(@)]
      /\ DOMAIN link = LinkFields
  BY DEF Receive, Inv, InvAndLine, IInv, Shapes
<1>2. /\ link'.up = link.up /\ link'.waited = link.waited /\ link'.todo = link.todo
      /\ link'.full = link.full /\ link'.torn = link.torn
      /\ link'.in = Tail(link.in)
  BY <1>1 DEF LinkFields
<1> DEFINE word == Head(link.in).body.word
<1>3. /\ DeviceShape'
      /\ \A u \in Threads : u # t => call'[u] = call[u]
      /\ ~call'[t].asking
      /\ call[t].step \in {"open", "write", "read"} =>
            /\ UsesHandle(t)' /\ call'[t].path = call[t].path
            /\ call'[t].handle = IF call[t].step = "open" THEN word ELSE call[t].handle
      /\ call[t].step \notin {"open", "write", "read"} => ~UsesHandle(t)' /\ call'[t].step # "open"
  BY <1>1, CompletesCalls
<1>4. /\ Open' = Open /\ (Clear' <=> Clear)
      /\ \A u \in Threads : \A h : u # t => (Owns(u, h)' <=> Owns(u, h))
  BY <1>1, <1>2, <1>3 DEF Open, Clear, Trusted, Owns
<1>5. ASSUME NEW u \in Threads, u # t PROVE ~call[u].asking /\ ~Replied(u) /\ ~Replied(u)'
  BY <1>1, <1>3, <1>5, OneAsks DEF Inv, InvAndLine, Replied
<1>6. Replied(t) /\ ~Replied(t)'
  BY <1>1, <1>3 DEF Replied
<1>7. ASSUME Clear PROVE RequestIsCalls'
  <2>1. link'.todo = <<>>
    BY <1>1, <1>2, <1>7, OneOnItsWay DEF Inv, InvAndLine, Clear
  <2> QED BY <2>1 DEF RequestIsCalls
<1>8. ASSUME NEW u \in Threads, u # t, HandleOf(u) PROVE HandleOf(u)'
  BY <1>3, <1>4, <1>5, <1>8 DEF HandleOf, OpenReplied, CloseReplied, UsesHandle
<1>9. ASSUME NEW u \in Threads, u # t, NEW h, Holds(u, h) PROVE Holds(u, h)'
  BY <1>3, <1>5, <1>9 DEF Holds, OpenReplied, CloseReplied, UsesHandle
<1>10. ASSUME HandleOf(t) PROVE HandleOf(t)'
  <2>1. CASE call[t].step = "open"
    <3>1. Owns(t, word)
      BY <1>6, <1>10, <2>1 DEF HandleOf, OpenReplied
    <3>2. call'[t].handle = word /\ call'[t].path = call[t].path
      BY <1>3, <2>1
    <3> QED BY <1>1, <1>4, <1>6, <3>1, <3>2 DEF HandleOf, OpenReplied, Owns
  <2>2. CASE call[t].step \in {"write", "read"}
    <3>1. call[t].handle \in Open /\ Owns(t, call[t].handle)
      BY <1>10, <2>2 DEF HandleOf, UsesHandle, CloseReplied
    <3>2. call'[t].handle = call[t].handle /\ call'[t].path = call[t].path
      BY <1>3, <2>2
    <3> QED BY <1>1, <1>4, <1>6, <3>1, <3>2 DEF HandleOf, OpenReplied, Owns
  <2>3. CASE call[t].step \notin {"open", "write", "read"}
    BY <1>3, <1>6, <2>3 DEF HandleOf, OpenReplied
  <2> QED BY <2>1, <2>2, <2>3
<1>11. ASSUME NEW h, Holds(t, h) PROVE Holds(t, h)'
  <2>1. CASE OpenReplied(t) /\ word = h
    BY <1>3, <1>6, <2>1 DEF Holds, OpenReplied, CloseReplied
  <2>2. CASE UsesHandle(t) /\ ~CloseReplied(t) /\ call[t].handle = h
    <3>1. call[t].step \in {"write", "read"}
      BY <1>6, <2>2 DEF UsesHandle, CloseReplied
    <3> QED BY <1>3, <1>6, <2>2, <3>1 DEF Holds, CloseReplied
  <2> QED BY <1>11, <2>1, <2>2 DEF Holds
<1>12. ASSUME Clear
       PROVE  /\ \A u \in Threads : HandleOf(u)'
              /\ \A h \in Open \ device.kept : \E u \in Threads : Holds(u, h)'
  BY <1>8, <1>9, <1>10, <1>11, <1>12 DEF Inv, HandleInv
<1>13. HandleInv'
  BY <1>1, <1>2, <1>4, <1>7, <1>12 DEF Inv, HandleInv
<1> QED BY <1>3, <1>13

\* A receive that waited in vain, met the end of the stream or tore the frames
LEMMA VainHandles ==
    ASSUME Inv, NEW t \in Threads,
           ReceiveNothing(t) \/ ReceiveTorn(t) \/ ReceiveGarbage(t)
    PROVE  DeviceShape' /\ HandleInv'
<1>1. /\ AtFront(t) /\ UNCHANGED <<ssl, device>>
      /\ \E body : Completes(t, FALSE, body)
      /\ DOMAIN link = LinkFields
  BY DEF ReceiveNothing, ReceiveTorn, ReceiveGarbage, Inv, InvAndLine, IInv, Shapes
<1>2. DeviceShape'
  BY <1>1, CompletesCalls
<1>3. CASE ReceiveNothing(t)
  <2>1. link' = [link EXCEPT !.waited = @ \/ link.up] /\ (~link.up \/ ~ssl)
    BY <1>3 DEF ReceiveNothing
  <2>2. link'.up = link.up /\ (link.up => link'.waited)
    BY <1>1, <2>1 DEF LinkFields
  <2> QED BY <1>1, <1>2, <2>1, <2>2, Unclear DEF Inv, Clear, Trusted
<1>4. CASE ReceiveTorn(t) \/ ReceiveGarbage(t)
  <2>1. link' = Torn
    BY <1>4 DEF ReceiveTorn, ReceiveGarbage
  <2>2. link'.up = link.up /\ ~Trusted'
    BY <1>1, <2>1, TornLink
  <2> QED BY <1>1, <1>2, <2>2, Unclear DEF Inv, Clear
<1> QED BY <1>3, <1>4

LEMMA ReceiveOutsideHandles ==
    ASSUME Inv, NEW t \in Threads, ReceiveOutside(t) \/ ReceiveStalls(t)
    PROVE  DeviceShape' /\ HandleInv'
<1>1. /\ link' = Torn \/ link' = [Torn EXCEPT !.outside = TRUE]
      /\ DOMAIN link = LinkFields /\ UNCHANGED device
      /\ (AtFront(t) /\ \E body : Completes(t, FALSE, body)) \/ UNCHANGED call
  BY DEF ReceiveOutside, ReceiveStalls, Inv, InvAndLine, IInv, Shapes
<1>2. link'.up = link.up /\ ~Trusted'
  BY <1>1, TornLink
<1>3. DeviceShape'
  <2>1. CASE AtFront(t) /\ \E body : Completes(t, FALSE, body)
    BY <1>1, <2>1, CompletesCalls
  <2>2. CASE UNCHANGED call
    BY <1>1, <2>2 DEF Inv, DeviceShape
  <2> QED BY <1>1, <2>1, <2>2
<1> QED BY <1>1, <1>2, <1>3, Unclear DEF Inv, Clear

\* The conduit's step takes a call's request for what it is, and its answer is
\* the one on its way.
ServedFor(t, body) ==
    /\ t \in Threads /\ Head(link.todo) = Request(t)
    /\ \A u \in Threads : ~Replied(u) /\ (u # t => ~call[u].asking)
    /\ link'.up = link.up /\ link'.full = link.full /\ UNCHANGED <<ssl, call>>
    /\ link'.todo = <<>> /\ link'.in # <<>> /\ Head(link'.in).body = body
    /\ Replied(t)'

LEMMA Served ==
    ASSUME Inv, Clear, link.todo # <<>>, NEW granted, NEW body,
           Reply(Head(link.todo), granted, body), UNCHANGED <<ssl, queue, call>>
    PROVE  \E t \in Threads : ServedFor(t, body)
<1>1. /\ \E r : link.todo = <<r>> /\ Head(link.todo) = r /\ Tail(link.todo) = <<>>
      /\ link.in = <<>> /\ Asks(Head(link.todo).by)
  BY OneOnItsWay DEF Inv, InvAndLine, Clear
<1> DEFINE t == Head(link.todo).by
           a == Answer(t, granted, body)
<1>2. t \in Threads /\ call[t].asking /\ Head(link.todo) = Request(t)
  BY <1>1 DEF Asks, Inv, HandleInv, RequestIsCalls
<1>3. DOMAIN link = LinkFields
  BY DEF Inv, InvAndLine, IInv, Shapes
<1>4. /\ link'.up = link.up /\ link'.full = link.full
      /\ link'.todo = Tail(link.todo) /\ link'.in = Append(link.in, a)
  BY <1>3 DEF Reply, LinkFields
<1>5. link'.todo = <<>> /\ link'.in # <<>> /\ Head(link'.in) = a /\ a.body = body
  BY <1>1, <1>4, Single DEF Answer
<1>6. \A u \in Threads : ~Replied(u) /\ (u # t => ~call[u].asking)
  BY <1>1, <1>2, OneAsks DEF Replied, Inv, InvAndLine
<1>7. \A u \in Threads : u = t => Replied(u)'
  BY <1>2, <1>5 DEF Replied
<1> HIDE DEF t
<1> QED BY <1>2, <1>4, <1>5, <1>6, <1>7 DEF ServedFor

\* What the kind of a request says of its call.
LEMMA KindOfRequest ==
    ASSUME DeviceShape, NEW t \in Threads
    PROVE  /\ Request(t).by = t /\ Request(t).path = call[t].path
           /\ Request(t).kind \in {"open", "write", "read", "close"} =>
                 call[t].step = Request(t).kind
           /\ call[t].step \in {"open", "write", "read", "close"} =>
                 Request(t).kind = call[t].step
           /\ call[t].step \in {"write", "read", "close"} => Request(t).handle = call[t].handle
BY DEF Request, DeviceShape, Operations

\* An answer that opens and closes nothing: a refusal to open misleads, and a
\* handle it refused to close is kept.
LEMMA FilesStay ==
    ASSUME Inv, Clear, NEW t, NEW body, ServedFor(t, body),
           Open' = Open, device'.file = device.file,
           device.kept \subseteq device'.kept,
           call[t].step # "open",
           call[t].step = "close" => call[t].handle \in device'.kept
    PROVE  HandleInv'
<1> USE DEF ServedFor
<1>1. RequestIsCalls'
  BY DEF RequestIsCalls
<1>2. ASSUME NEW u \in Threads PROVE HandleOf(u)'
  <2>1. HandleOf(u)
    BY DEF Inv, HandleInv
  <2>2. /\ ~OpenReplied(u)' /\ ~CloseReplied(u) /\ (UsesHandle(u)' <=> UsesHandle(u))
        /\ call'[u] = call[u]
    BY DEF OpenReplied, CloseReplied, Replied, UsesHandle
  <2> QED BY <2>1, <2>2 DEF HandleOf, Owns
<1>3. ASSUME NEW h \in Open' \ device'.kept PROVE \E u \in Threads : Holds(u, h)'
  <2>1. PICK u \in Threads : Holds(u, h)
    BY <1>3 DEF Inv, HandleInv
  <2>2. UsesHandle(u) /\ call[u].handle = h /\ ~CloseReplied(u)'
    BY <1>3, <2>1 DEF Holds, OpenReplied, CloseReplied, Replied, UsesHandle
  <2> QED BY <2>2 DEF Holds, UsesHandle
<1>4. link'.up
  BY DEF Clear
<1> QED BY <1>1, <1>2, <1>3, <1>4 DEF HandleInv

LEMMA ServeOpenHandles ==
    ASSUME Inv, Clear, link.todo # <<>>, ServeOpen(Head(link.todo)),
           UNCHANGED <<ssl, queue, call>>
    PROVE  HandleInv'
<1> DEFINE r == Head(link.todo)
<1>1. PICK g \in Handles \ Open :
         /\ device' = [device EXCEPT !.file[g] = <<r.by, r.path>>]
         /\ Reply(r, TRUE, Status(g))
  BY DEF ServeOpen
<1>2. PICK t \in Threads : ServedFor(t, Status(g))
  BY <1>1, Served
<1>3. r.by = t /\ r.path = call[t].path /\ call[t].step = "open"
  BY <1>2, KindOfRequest DEF ServedFor, ServeOpen, Inv
<1>4. DOMAIN device = DeviceFields /\ DOMAIN device.file = Handles
  BY DEF Inv, DeviceShape
<1>5. /\ device'.file[g] = <<t, call[t].path>> /\ device'.kept = device.kept
      /\ \A h \in Handles : h # g => device'.file[h] = device.file[h]
  BY <1>1, <1>3, <1>4 DEF DeviceFields
<1>6. Open' = Open \union {g}
  BY SMTT(30), <1>5 DEF Open, NoFile
<1>7. Status(g).word = g
  BY DEF Status, Body
<1>8. RequestIsCalls' /\ link'.up
  BY <1>2 DEF RequestIsCalls, ServedFor, Clear
<1>9. /\ OpenReplied(t)' /\ Head(link'.in).body.word = g
      /\ \A u \in Threads : u # t => ~Replied(u)'
      /\ UNCHANGED call /\ \A u \in Threads : ~Replied(u)
  BY <1>2, <1>3, <1>7 DEF ServedFor, OpenReplied, Replied
<1>10. ASSUME NEW u \in Threads PROVE HandleOf(u)'
  <2>1. CASE u = t
    BY <1>3, <1>5, <1>6, <1>9, <2>1 DEF HandleOf, Owns, UsesHandle
  <2>2. CASE u # t
    <3>1. HandleOf(u)
      BY DEF Inv, HandleInv
    <3>2. UsesHandle(u) => Owns(u, call[u].handle)
      BY <1>9, <3>1 DEF HandleOf, CloseReplied
    <3>3. UsesHandle(u) => call[u].handle \in Handles /\ call[u].handle # g
      BY <1>1, <3>2 DEF Owns, Open
    <3>4. ~OpenReplied(u)' /\ (UsesHandle(u)' <=> UsesHandle(u)) /\ call'[u] = call[u]
      BY <1>9, <2>2 DEF OpenReplied, UsesHandle
    <3> QED BY <1>5, <1>6, <3>2, <3>3, <3>4 DEF HandleOf, Owns
  <2> QED BY <2>1, <2>2
<1>11. ASSUME NEW h \in Open' \ device'.kept PROVE \E u \in Threads : Holds(u, h)'
  <2>1. CASE h = g
    BY <1>9, <2>1 DEF Holds
  <2>2. CASE h # g
    <3>1. PICK u \in Threads : Holds(u, h)
      BY <1>5, <1>6, <1>11, <2>2 DEF Inv, HandleInv
    <3>2. UsesHandle(u) /\ call[u].handle = h
      BY <1>9, <3>1 DEF Holds, OpenReplied
    <3>3. ~CloseReplied(u)'
      BY <1>3, <1>9, <3>2 DEF UsesHandle, CloseReplied
    <3> QED BY <1>9, <3>2, <3>3 DEF Holds, UsesHandle
  <2> QED BY <2>1, <2>2
<1> QED BY <1>8, <1>10, <1>11 DEF HandleInv

LEMMA ServeCloseHandles ==
    ASSUME Inv, Clear, link.todo # <<>>, ServeClose(Head(link.todo)),
           UNCHANGED <<ssl, queue, call>>
    PROVE  HandleInv'
<1> DEFINE r == Head(link.todo)
<1>1. /\ r.kind = "close" /\ r.handle \in Open
      /\ device' = [device EXCEPT !.file[r.handle] = NoFile, !.at[r.handle] = 0]
      /\ Reply(r, TRUE, Zeros)
  BY DEF ServeClose
<1>2. PICK t \in Threads : ServedFor(t, Zeros)
  BY <1>1, Served
<1>3. r.handle = call[t].handle /\ call[t].step = "close"
  BY <1>1, <1>2, KindOfRequest DEF ServedFor, Inv
<1> DEFINE g == call[t].handle
<1>4. DOMAIN device = DeviceFields /\ DOMAIN device.file = Handles /\ g \in Handles
  BY <1>1, <1>3 DEF Inv, DeviceShape, Open
<1>5. /\ device'.file[g] = NoFile /\ device'.kept = device.kept
      /\ \A h \in Handles : h # g => device'.file[h] = device.file[h]
  BY <1>1, <1>3, <1>4 DEF DeviceFields
<1>6. Open' = Open \ {g}
  BY <1>5 DEF Open
<1>7. RequestIsCalls' /\ link'.up
  BY <1>2 DEF RequestIsCalls, ServedFor, Clear
<1>8. /\ CloseReplied(t)' /\ UNCHANGED call
      /\ \A u \in Threads : u # t => ~Replied(u)'
      /\ \A u \in Threads : ~Replied(u)
  BY <1>2, <1>3 DEF ServedFor, CloseReplied, Replied
<1>9. Owns(t, g)
  BY <1>1, <1>3 DEF Inv, HandleInv, HandleOf, UsesHandle
<1>10. ASSUME NEW u \in Threads PROVE HandleOf(u)'
  <2>1. CASE u = t
    BY <1>3, <1>6, <1>8, <2>1 DEF HandleOf, OpenReplied
  <2>2. CASE u # t
    <3>1. HandleOf(u)
      BY DEF Inv, HandleInv
    <3>2. UsesHandle(u) => Owns(u, call[u].handle)
      BY <1>8, <3>1 DEF HandleOf, CloseReplied
    <3>3. UsesHandle(u) => call[u].handle \in Handles /\ call[u].handle # g
      BY <1>9, <2>2, <3>2 DEF Owns, Open
    <3>4. ~OpenReplied(u)' /\ (UsesHandle(u)' <=> UsesHandle(u)) /\ call'[u] = call[u]
      BY <1>8, <2>2 DEF OpenReplied, UsesHandle
    <3> QED BY <1>5, <1>6, <3>2, <3>3, <3>4 DEF HandleOf, Owns
  <2> QED BY <2>1, <2>2
<1>11. ASSUME NEW h \in Open' \ device'.kept PROVE \E u \in Threads : Holds(u, h)'
  <2>1. h \in Open \ device.kept /\ h # g
    BY <1>5, <1>6, <1>11
  <2>2. PICK u \in Threads : Holds(u, h)
    BY <2>1 DEF Inv, HandleInv
  <2>3. UsesHandle(u) /\ call[u].handle = h /\ u # t
    BY <1>8, <2>1, <2>2 DEF Holds, OpenReplied
  <2> QED BY <1>8, <2>3 DEF Holds, UsesHandle, CloseReplied
<1> QED BY <1>7, <1>10, <1>11 DEF HandleInv

\* Whatever the conduit does, it stays a record, and forgets no refusal.
LEMMA ServedShape ==
    ASSUME DeviceShape, Serve
    PROVE  /\ DeviceShape'
           /\ device.misled => device'.misled
           /\ device.kept \subseteq device'.kept
<1> DEFINE r == Head(link.todo)
<1>1. UNCHANGED call /\ DOMAIN device = DeviceFields /\ DOMAIN device.file = Handles
      /\ device.misled \in BOOLEAN
  BY DEF Serve, DeviceShape
<1>2. CASE ServeOpen(r)
  BY <1>1, <1>2 DEF ServeOpen, DeviceShape, DeviceFields
<1>3. CASE ServeWrite(r)
  BY <1>1, <1>3 DEF ServeWrite, DeviceShape, DeviceFields
<1>4. CASE ServeRead(r)
  BY <1>1, <1>4 DEF ServeRead, DeviceShape, DeviceFields
<1>5. CASE ServeClose(r)
  BY <1>1, <1>5 DEF ServeClose, DeviceShape, DeviceFields
<1>6. CASE ServeOther(r)
  BY <1>1, <1>6 DEF ServeOther, DeviceShape
<1>7. CASE Refuse(r)
  <2>1. /\ DOMAIN device' = DeviceFields /\ device'.file = device.file
        /\ device'.misled = (device.misled \/ r.kind = "open")
        /\ device'.kept = IF r.kind = "close" THEN device.kept \union {r.handle}
                          ELSE device.kept
    BY <1>1, <1>7 DEF Refuse, DeviceFields
  <2> QED BY <1>1, <2>1 DEF DeviceShape
<1> QED BY <1>2, <1>3, <1>4, <1>5, <1>6, <1>7 DEF Serve

LEMMA ServeHandles ==
    ASSUME Inv, Serve
    PROVE  DeviceShape' /\ HandleInv'
<1> DEFINE r == Head(link.todo)
<1>1. /\ DeviceShape' /\ (device.misled => device'.misled)
      /\ device.kept \subseteq device'.kept
  BY ServedShape DEF Inv
<1>2. /\ link.up /\ link.todo # <<>> /\ UNCHANGED <<ssl, queue, call>>
      /\ DOMAIN device = DeviceFields /\ DOMAIN link = LinkFields
  BY DEF Serve, Inv, DeviceShape, InvAndLine, IInv, Shapes
<1>3. \E granted, body : Reply(r, granted, body)
  BY DEF Serve, ServeOpen, ServeWrite, ServeRead, ServeClose, ServeOther, Refuse
<1>4. /\ link'.up = link.up /\ link'.waited = link.waited
      /\ link'.full = link.full /\ link'.torn = link.torn
  BY <1>2, <1>3 DEF Reply, LinkFields
<1>5. CASE ~Clear'
  BY <1>1, <1>2, <1>4, <1>5 DEF HandleInv
<1>6. CASE Clear'
  <2>0. Clear
    BY <1>1, <1>2, <1>4, <1>6 DEF Clear, Trusted
  <2>1. CASE ServeOpen(r)
    BY <1>1, <1>2, <2>0, <2>1, ServeOpenHandles
  <2>2. CASE ServeClose(r)
    BY <1>1, <1>2, <2>0, <2>2, ServeCloseHandles
  <2>3. CASE ServeWrite(r) \/ ServeRead(r) \/ ServeOther(r)
    <3>1. device'.file = device.file
      BY <1>2, <2>3 DEF ServeWrite, ServeRead, ServeOther, DeviceFields
    <3>2. Open' = Open
      BY <3>1 DEF Open
    <3>3. PICK granted, body : Reply(r, granted, body)
      BY <1>3
    <3>4. PICK t \in Threads : ServedFor(t, body)
      BY <1>2, <2>0, <3>3, Served
    <3>5. r.kind \in {"write", "read", "mkdir", "Touch", "List", "Remove"}
      BY <2>3 DEF ServeWrite, ServeRead, ServeOther
    <3>6. call[t].step \notin {"open", "close"}
      BY <3>4, <3>5, KindOfRequest DEF ServedFor, Inv
    <3> QED BY <1>1, <2>0, <3>1, <3>2, <3>4, <3>6, FilesStay
  <2>4. CASE Refuse(r)
    <3>1. /\ device'.file = device.file
          /\ device'.misled = (device.misled \/ r.kind = "open")
          /\ device'.kept = IF r.kind = "close" THEN device.kept \union {r.handle}
                            ELSE device.kept
      BY <1>2, <2>4 DEF Refuse, DeviceFields
    <3>2. Open' = Open
      BY <3>1 DEF Open
    <3>3. PICK granted, body : Reply(r, granted, body)
      BY <1>3
    <3>4. PICK t \in Threads : ServedFor(t, body)
      BY <1>2, <2>0, <3>3, Served
    <3>5. r.kind # "open"
      BY <1>6, <3>1 DEF Clear
    <3>6. call[t].step # "open"
      BY <3>4, <3>5, KindOfRequest DEF ServedFor, Inv
    <3>7. call[t].step = "close" => call[t].handle \in device'.kept
      BY <3>1, <3>4, KindOfRequest DEF ServedFor, Inv
    <3> QED BY <1>1, <2>0, <3>1, <3>2, <3>4, <3>6, <3>7, FilesStay
  <2> QED BY <2>1, <2>2, <2>3, <2>4 DEF Serve
<1> QED BY <1>1, <1>5, <1>6

LEMMA HangUpHandles ==
    ASSUME Inv, HangUp
    PROVE  DeviceShape' /\ HandleInv'
<1>1. /\ UNCHANGED call /\ DOMAIN device = DeviceFields /\ DOMAIN link = LinkFields
      /\ link' = [link EXCEPT !.up = FALSE, !.todo = <<>>]
      /\ device' = [device EXCEPT !.file = [h \in Handles |-> NoFile],
                                  !.at = [h \in Handles |-> 0]]
  BY DEF HangUp, Inv, DeviceShape, InvAndLine, IInv, Shapes
<1>2. ~link'.up
  BY <1>1 DEF LinkFields
<1>3. /\ device'.file = [h \in Handles |-> NoFile] /\ device'.misled = device.misled
      /\ DOMAIN device' = DeviceFields
  BY <1>1 DEF DeviceFields
<1>4. Open' = {}
  BY <1>3 DEF Open
<1>5. DeviceShape'
  BY <1>1, <1>3 DEF Inv, DeviceShape
<1> QED BY <1>2, <1>4, <1>5 DEF HandleInv, Clear

\* What is open stays open when requests no longer get there
LEMMA StopReadingHandles ==
    ASSUME Inv, StopReading
    PROVE  DeviceShape' /\ HandleInv'
<1>1. /\ UNCHANGED <<call, device>> /\ DOMAIN link = LinkFields
      /\ link' = [link EXCEPT !.full = TRUE]
  BY DEF StopReading, Inv, InvAndLine, IInv, Shapes
<1>2. link'.up = link.up /\ link'.full
  BY <1>1 DEF LinkFields
<1>3. DeviceShape'
  BY <1>1 DEF Inv, DeviceShape
<1> QED BY <1>1, <1>2, <1>3, Unclear DEF Inv, Clear

-----------------------------------------------------------------------------
(* The inductive invariant of the handles.                                 *)

LEMMA InitHandles == Init => DeviceShape /\ HandleInv
<1> SUFFICES ASSUME Init PROVE DeviceShape /\ HandleInv
  OBVIOUS
<1>1. /\ DOMAIN device = DeviceFields /\ device.file = [h \in Handles |-> NoFile]
      /\ device.misled = FALSE
  BY DEF Init, DeviceFields
<1>2. Open = {}
  BY <1>1 DEF Open
<1>3. \A t \in Threads : call[t].step = "none" /\ call[t].asking = FALSE
  BY DEF Init, NoCall
<1>4. link.up /\ link.todo = <<>>
  BY DEF Init
<1>5. \A t \in Threads : HandleOf(t)
  BY <1>3 DEF HandleOf, OpenReplied, Replied, UsesHandle
<1> QED BY <1>1, <1>2, <1>3, <1>4, <1>5 DEF DeviceShape, HandleInv, RequestIsCalls

LEMMA ThreadHandles ==
    ASSUME Inv, NEW t \in Threads, Begin(t) \/ ThreadStep(t) \/ ReceiveOutside(t)
    PROVE  DeviceShape' /\ HandleInv'
<1>1. AtFront(t) => call[t].step \in Exchanges
  BY FrontIsInLine DEF Inv, InvAndLine
<1>2. CASE Send(t)
  BY <1>1, <1>2, SendHandles DEF Send
<1>3. CASE SendFails(t)
  BY <1>1, <1>3, SendFailsHandles DEF SendFails
<1> QED
  BY <1>2, <1>3, BeginHandles, NextFileHandles, SubmitHandles, ReceiveHandles, VainHandles,
     ReceiveOutsideHandles DEF ThreadStep

LEMMA NextHandles == Inv /\ [Next]_vars => Inv'
<1> SUFFICES ASSUME Inv, [Next]_vars PROVE Inv'
  OBVIOUS
<1>1. InvAndLine'
  BY NextInv DEF Inv
<1>2. CASE \E t \in Threads : Begin(t) \/ ThreadStep(t) \/ ReceiveOutside(t)
  BY <1>1, <1>2, ThreadHandles DEF Inv
<1>3. CASE Serve
  BY <1>1, <1>3, ServeHandles DEF Inv
<1>4. CASE HangUp
  BY <1>1, <1>4, HangUpHandles DEF Inv
<1>5. CASE StopReading
  BY <1>1, <1>5, StopReadingHandles DEF Inv
<1>6. CASE UNCHANGED vars
  <2>1. UNCHANGED <<ssl, link, queue, call, device>>
    BY <1>6 DEF vars
  <2>2. /\ Open' = Open /\ (Clear' <=> Clear) /\ (RequestIsCalls' <=> RequestIsCalls)
        /\ \A u \in Threads : HandleOf(u)' <=> HandleOf(u)
        /\ \A u \in Threads : \A h : Holds(u, h)' <=> Holds(u, h)
    BY <2>1 DEF Open, Clear, Trusted, RequestIsCalls, Request, Block, Offset, Remainder,
                Length, HandleOf, Holds, OpenReplied, CloseReplied, Replied, UsesHandle, Owns
  <2> QED BY <1>1, <2>1, <2>2 DEF Inv, DeviceShape, HandleInv
<1> QED BY <1>2, <1>3, <1>4, <1>5, <1>6 DEF Next, Rest

LEMMA HandlesHold == Spec => []Inv
<1>1. Init => Inv
  BY InitLine, InitHandles DEF Inv
<1> QED BY <1>1, NextHandles, PTL DEF Spec

\* A call never writes to, reads or closes the file of another (the handle that
\* SDMMD_AMDeviceCopyFile and SDMMD_AMDeviceRemoteCopyFile read from an answer
\* they do not check is their own), however many threads copy files at once, as
\* long as requests get to the conduit, its answers come in time and to their
\* place, and it refused to open no file.
THEOREM HandlesAreOwn == Spec => []HandleIsOwn
<1>1. Inv => HandleIsOwn
  <2> SUFFICES ASSUME Inv, Trusted, ~device.misled, Reads, NEW t \in Threads, UsesHandle(t)
               PROVE  /\ call[t].handle \in Open
                           \/ (call[t].step = "close" /\ call[t].asking)
                      /\ call[t].handle \in Open =>
                           device.file[call[t].handle] = <<t, call[t].path>>
    BY DEF HandleIsOwn, Trusted, UsesHandle
  <2> QED BY DEF Reads, Inv, HandleInv, Clear, HandleOf, Owns, CloseReplied, Replied
<1> QED BY <1>1, HandlesHold, PTL

\* When no copy is under way the conduit has no file open but those it refused to
\* close: SDMMD_AMDeviceCopyFile and SDMMD_AMDeviceRemoteCopyFile close what they
\* opened on every path, for any threads, files and lengths, where requests get
\* to the conduit, its answers come in time and to their place, and no open was
\* refused.
THEOREM FilesGetClosed == Spec => []FilesAreClosed
<1>1. Inv => FilesAreClosed
  <2> SUFFICES ASSUME Inv, Trusted, ~Full, ~device.misled, \A t \in Threads : ~InCall(t)
               PROVE  Open \subseteq device.kept
    BY DEF FilesAreClosed, Trusted
  <2>1. CASE ~link.up
    BY <2>1 DEF Inv, HandleInv
  <2>2. CASE link.up
    <3>1. \A t \in Threads : \A h : ~Holds(t, h)
      BY DEF Holds, OpenReplied, UsesHandle, InCall
    <3> QED BY <2>2, <3>1 DEF Inv, HandleInv, Clear, Full
  <2> QED BY <2>1, <2>2
<1> QED BY <1>1, HandlesHold, PTL
-----------------------------------------------------------------------------
(* The types of the variables.                                             *)

CallRecords ==
    [op : Operations \union {"none"},
     step : Exchanges \union {"none", "next", "returned"},
     files : Seq(Nat \union {Missing}), path : Nat, handle : Nat,
     index : Nat, local : Seq(Int), at : Nat, failed : BOOLEAN,
     sure : BOOLEAN, asking : BOOLEAN]
Answers == [to : Threads, granted : BOOLEAN, body : Bodies]
LinkRecords ==
    [wifi : BOOLEAN, up : BOOLEAN, full : BOOLEAN, todo : Seq(Requests),
     torn : BOOLEAN, outside : BOOLEAN, waited : BOOLEAN, late : 0..MaxLate,
     in : Seq(Answers)]
DeviceRecords ==
    [files : [Paths -> Seq(Int)], file : [Handles -> Paths \union {NoFile}],
     at : [Handles -> Nat], misled : BOOLEAN, kept : SUBSET Nat,
     refusals : 0..MaxRefusals]

\* Where a call stands fits its files: the file at hand is there and one of the
\* directory's, and a packet is sent or asked for only if it is one of the file's.
WithFile == {"open", "write", "read", "close"}
Standing(c) ==
    /\ 1 <= c.path /\ c.path + Len(c.files) <= Width + 1
    /\ c.step \in WithFile => c.files # <<>> /\ Length(c) \in Nat
    /\ c.step \in {"write", "read"} => c.index < Packets(c)
    /\ c.step \in {"mkdir", "single"} => c.path = 1
    /\ c.step = "single" => c.op \in Operations

TypeInv ==
    /\ ssl \in BOOLEAN /\ crashed \in BOOLEAN
    /\ link \in LinkRecords
    /\ queue \in Seq(Threads)
    /\ call \in [Threads -> CallRecords]
    /\ device \in DeviceRecords
    /\ \A t \in Threads : Standing(call[t])

\* Whole packets, and what is left over
LEMMA Division ==
    ASSUME NEW d \in Nat \ {0}, NEW n \in Nat
    PROVE  /\ n \div d \in Nat /\ d * (n \div d) <= n /\ n < d * (n \div d) + d
OBVIOUS

LEMMA Multiples ==
    ASSUME NEW d \in Nat \ {0}, NEW a \in Nat, NEW b \in Nat
    PROVE  /\ d * a \in Nat /\ d * (a + 1) = d * a + d
           /\ a < b => d * a + d <= d * b
           /\ a <= b => d * a <= d * b
OBVIOUS

LEMMA Modulo ==
    ASSUME NEW d \in Nat \ {0}, NEW n \in Nat
    PROVE  n % d \in Nat /\ n % d <= n /\ (n < d => n % d = n)
OBVIOUS

\* A packet of the file begins before its end, and no other does
LEMMA PacketsOfFile ==
    ASSUME NEW c, Length(c) \in Nat, c.index \in Nat
    PROVE  /\ Packets(c) \in Nat
           /\ c.index < Packets(c) <=> TransferSize * c.index < Length(c)
<1> DEFINE d == TransferSize
           n == Length(c) + d - 1
           q == n \div d
           i == c.index
<1>1. d \in Nat \ {0} /\ n \in Nat /\ i \in Nat
  BY SizesAssumption
<1>2. q \in Nat /\ d * q <= n /\ n < d * q + d
  BY <1>1, Division
<1>3. /\ d * i \in Nat /\ d * q \in Nat
      /\ i < q => d * i + d <= d * q
      /\ q <= i => d * q <= d * i
  BY <1>1, <1>2, Multiples
<1>4. Packets(c) = q
  BY DEF Packets
<1>5. n = Length(c) + d - 1
  OBVIOUS
<1> HIDE DEF q, n, d, i
<1>6. i < q <=> d * i < Length(c)
  BY <1>1, <1>2, <1>3, <1>5
<1> QED BY <1>2, <1>4, <1>6 DEF d, i

\* A packet is of the file: it has a length
LEMMA RemainderOfFile ==
    ASSUME NEW c, Length(c) \in Nat, c.index \in Nat, c.index < Packets(c)
    PROVE  /\ Offset(c) \in Nat /\ Remainder(c) \in Nat
           /\ Offset(c) <= TransferSize * c.index
           /\ Offset(c) + Remainder(c) <= Length(c)
<1>1. TransferSize * c.index \in Nat /\ TransferSize * c.index < Length(c)
  BY PacketsOfFile, Multiples, SizesAssumption
<1>2. Offset(c) \in Nat /\ Offset(c) <= TransferSize * c.index
  BY <1>1, Modulo, SizesAssumption DEF Offset
<1>3. Offset(c) < Length(c)
  <2>1. \A a, b, l \in Nat : a <= b /\ b < l => a < l
    OBVIOUS
  <2> QED BY <1>1, <1>2, <2>1
<1>4. Remainder(c) \in Nat /\ Offset(c) + Remainder(c) <= Length(c)
  BY <1>2, <1>3, SizesAssumption DEF Remainder, Smaller
<1> QED BY <1>2, <1>4

LEMMA BlockType ==
    ASSUME NEW c, Offset(c) \in Nat, Remainder(c) \in Nat
    PROVE  Block(c) \in Seq(Int) /\ Len(Block(c)) = Remainder(c)
BY DEF Block

LEMMA OverwriteType ==
    ASSUME NEW file \in Seq(Int), NEW at \in Nat, NEW data \in Seq(Int)
    PROVE  Overwrite(file, at, data) \in Seq(Int)
<1> DEFINE n == Greater(Len(file), at + Len(data))
           x(i) == IF i \in (at + 1)..(at + Len(data)) THEN data[i - at]
                   ELSE IF i <= Len(file) THEN file[i] ELSE 0
<1>1. n \in Nat
  BY DEF Greater
<1>2. ASSUME NEW i \in 1..n PROVE x(i) \in Int
  <2>1. CASE i \in (at + 1)..(at + Len(data))
    <3>1. i - at \in 1..Len(data)
      BY <2>1
    <3> QED BY <2>1, <3>1
  <2>2. CASE i \notin (at + 1)..(at + Len(data)) /\ i <= Len(file)
    <3>1. i \in 1..Len(file)
      BY <1>1, <2>2
    <3> QED BY <2>2, <3>1
  <2> QED BY <2>1, <2>2
<1>3. Overwrite(file, at, data) = [i \in 1..n |-> x(i)]
  BY DEF Overwrite
<1> HIDE DEF n, x
<1> QED BY <1>1, <1>2, <1>3

LEMMA HostFileType ==
    ASSUME NEW n \in Nat
    PROVE  /\ HostFile(n) \in Seq(Int) /\ Len(HostFile(n)) = n
           /\ DeviceFile(n) \in Seq(Int)
BY DEF HostFile, DeviceFile

LEMMA BodyTypes ==
    /\ Null \in Bodies /\ Zeros \in Bodies
    /\ \A n \in Nat : Status(n) \in Bodies
BY DEF Null, Zeros, Status, Body, Bodies

\* The file at hand is one of the directory's
LEMMA PathInRange ==
    ASSUME NEW c \in CallRecords, Standing(c), c.step \in Exchanges
    PROVE  c.path \in 1..Width
<1>1. c.path \in Nat /\ c.files \in Seq(Nat \union {Missing}) /\ Width \in Nat \ {0}
  BY WorksAssumption DEF CallRecords
<1>2. CASE c.step \in WithFile
  <2>1. Len(c.files) \in Nat \ {0}
    BY <1>1, <1>2 DEF Standing
  <2> QED BY <1>1, <2>1 DEF Standing
<1>3. CASE c.step \in {"mkdir", "single"}
  BY <1>1, <1>3 DEF Standing
<1> QED BY <1>2, <1>3 DEF Exchanges, WithFile

LEMMA RequestType ==
    ASSUME NEW t \in Threads, call[t] \in CallRecords, Standing(call[t]),
           call[t].step \in Exchanges
    PROVE  Request(t) \in Requests
<1> DEFINE c == call[t]
<1>1. c.path \in 1..Width /\ c.handle \in Nat /\ c.index \in Nat
  BY PathInRange DEF CallRecords
<1>2. c.step \in {"write", "read"} => Remainder(c) \in Nat /\ Block(c) \in Seq(Int)
  BY <1>1, RemainderOfFile, BlockType DEF Standing, WithFile
<1> DEFINE k == IF c.step = "single" THEN c.op ELSE c.step
           d == IF c.step = "write" THEN Block(c) ELSE <<>>
           n == IF c.step = "read" THEN Remainder(c) ELSE 0
           h == IF c.step \in {"write", "read", "close"} THEN c.handle ELSE 0
<1>3. k \in Exchanges \union Operations /\ d \in Seq(Int) /\ n \in Nat /\ h \in Nat
  BY <1>1, <1>2 DEF Standing
<1>4. Request(t) = [by |-> t, kind |-> k, path |-> c.path, handle |-> h,
                    data |-> d, size |-> n]
  BY DEF Request
<1> HIDE DEF k, d, n, h, c
<1> QED BY <1>1, <1>3, <1>4 DEF Requests

\* A call whose file is at hand
FileAtHand(c) ==
    /\ 1 <= c.path /\ c.path + Len(c.files) <= Width + 1
    /\ c.files # <<>> /\ Length(c) \in Nat

LEMMA LoopType ==
    ASSUME NEW c \in CallRecords, FileAtHand(c)
    PROVE  Loop(c) \in CallRecords /\ Standing(Loop(c))
<1> DEFINE s == IF c.index < Packets(c)
                THEN IF c.op = "Fetch" THEN "read" ELSE "write"
                ELSE "close"
           d == [c EXCEPT !.step = s]
<1>1. /\ s \in {"read", "write", "close"}
      /\ s \in {"read", "write"} => c.index < Packets(c)
  OBVIOUS
<1>2. Loop(c) = d
  BY DEF Loop
<1> HIDE DEF s
<1>3. d \in CallRecords
  BY <1>1 DEF CallRecords, Exchanges
<1>4. d.step = s /\ d.files = c.files /\ d.path = c.path /\ d.index = c.index
  BY DEF CallRecords
<1>5. Length(d) = Length(c) /\ Packets(d) = Packets(c)
  BY <1>4 DEF Length, Packets
<1> HIDE DEF d
<1> QED BY <1>1, <1>2, <1>3, <1>4, <1>5 DEF Standing, FileAtHand, WithFile

LEMMA FilesShorten ==
    ASSUME NEW f \in Seq(Nat \union {Missing}), f # <<>>
    PROVE  Tail(f) \in Seq(Nat \union {Missing}) /\ Len(Tail(f)) = Len(f) - 1
OBVIOUS

LEMMA DoneWithType ==
    ASSUME NEW c \in CallRecords, NEW failed \in BOOLEAN,
           1 <= c.path, c.path + Len(c.files) <= Width + 1, c.files # <<>>
    PROVE  DoneWith(c, failed) \in CallRecords /\ Standing(DoneWith(c, failed))
<1> DEFINE f == Tail(c.files)
           d == [c EXCEPT !.step = "next", !.files = f, !.path = c.path + 1,
                          !.handle = 0, !.index = 0, !.at = 0, !.local = <<>>,
                          !.failed = failed]
<1>1. /\ f \in Seq(Nat \union {Missing}) /\ Len(f) = Len(c.files) - 1
      /\ c.path \in Nat /\ Len(c.files) \in Nat /\ c.path + 1 \in Nat
  BY FilesShorten DEF CallRecords
<1>2. DoneWith(c, failed) = d
  BY DEF DoneWith, CallRecords
<1>3. <<>> \in Seq(Int)
  OBVIOUS
<1> HIDE DEF f
<1>4. d \in CallRecords
  BY <1>1, <1>3 DEF CallRecords
<1>5. d.step = "next" /\ d.files = f /\ d.path = c.path + 1
  BY DEF CallRecords
<1> HIDE DEF d
<1>6. 1 <= d.path /\ d.path + Len(d.files) <= Width + 1
  <2> DEFINE l == Len(c.files)
             m == Len(f)
             p == c.path
  <2>1. l \in Nat /\ p \in Nat /\ m = l - 1 /\ 1 <= p /\ p + l <= Width + 1
    BY <1>1
  <2> HIDE DEF l, m, p
  <2>2. 1 <= p + 1 /\ p + 1 + m <= Width + 1
    BY <2>1, WorksAssumption
  <2> QED BY <1>5, <2>2 DEF p, m
<1> QED BY <1>2, <1>4, <1>5, <1>6 DEF Standing, WithFile

LEMMA SucceededType ==
    ASSUME NEW c \in CallRecords, Standing(c), c.step \in Exchanges,
           NEW body \in Bodies
    PROVE  Succeeded(c, body) \in CallRecords /\ Standing(Succeeded(c, body))
<1>0. c.step \in WithFile => FileAtHand(c)
  BY DEF Standing, FileAtHand
<1>1. CASE c.step = "mkdir"
  <2> DEFINE d == [c EXCEPT !.step = "next"]
  <2>1. d \in CallRecords /\ d.step = "next" /\ d.files = c.files /\ d.path = c.path
    BY DEF CallRecords
  <2>2. Succeeded(c, body) = d
    BY <1>1 DEF Succeeded
  <2> HIDE DEF d
  <2> QED BY <2>1, <2>2 DEF Standing, WithFile
<1>2. CASE c.step = "open"
  <2> DEFINE d == [c EXCEPT !.handle = body.word]
  <2>1. d \in CallRecords /\ d.files = c.files /\ d.path = c.path
    BY DEF CallRecords, Bodies
  <2>2. Succeeded(c, body) = Loop(d)
    BY <1>2 DEF Succeeded
  <2> HIDE DEF d
  <2>3. FileAtHand(d)
    BY <1>0, <1>2, <2>1 DEF FileAtHand, Length, WithFile
  <2> QED BY <2>1, <2>2, <2>3, LoopType
<1>3. CASE c.step = "write"
  <2> DEFINE i == c.index + 1
             d == [c EXCEPT !.index = i]
  <2>0. i \in Nat
    BY DEF CallRecords
  <2>2. Succeeded(c, body) = Loop(d)
    BY <1>3 DEF Succeeded, CallRecords
  <2> HIDE DEF i
  <2>1. d \in CallRecords /\ d.files = c.files /\ d.path = c.path
    BY <2>0 DEF CallRecords
  <2> HIDE DEF d
  <2>3. FileAtHand(d)
    BY <1>0, <1>3, <2>1 DEF FileAtHand, Length, WithFile
  <2> QED BY <2>1, <2>2, <2>3, LoopType
<1>4. CASE c.step = "read"
  <2> DEFINE l == Overwrite(c.local, c.at, body.data)
             n == c.at + Len(body.data)
             i == c.index + 1
             d == [c EXCEPT !.index = i, !.local = l, !.at = n]
  <2>1. l \in Seq(Int) /\ n \in Nat /\ i \in Nat
    BY OverwriteType DEF CallRecords, Bodies
  <2>2. Succeeded(c, body) = Loop(d)
    BY <1>4 DEF Succeeded, CallRecords
  <2> HIDE DEF l, n, i
  <2>3. d \in CallRecords /\ d.files = c.files /\ d.path = c.path
    BY <2>1 DEF CallRecords
  <2> HIDE DEF d
  <2>4. FileAtHand(d)
    BY <1>0, <1>4, <2>3 DEF FileAtHand, Length, WithFile
  <2> QED BY <2>2, <2>3, <2>4, LoopType
<1>5. CASE c.step = "close"
  BY <1>0, <1>5, DoneWithType DEF Succeeded, FileAtHand, WithFile, CallRecords
<1>6. CASE c.step = "single"
  <2> DEFINE f == (c.op = "List" /\ body = Null)
             d == [c EXCEPT !.step = "returned", !.failed = f]
  <2>1. f \in BOOLEAN
    OBVIOUS
  <2>2. Succeeded(c, body) = d
    BY <1>6 DEF Succeeded
  <2> HIDE DEF f
  <2>3. d \in CallRecords /\ d.step = "returned" /\ d.files = c.files /\ d.path = c.path
    BY <2>1 DEF CallRecords
  <2> HIDE DEF d
  <2> QED BY <2>2, <2>3 DEF Standing, WithFile
<1> QED BY <1>1, <1>2, <1>3, <1>4, <1>5, <1>6 DEF Exchanges

LEMMA UnsentType ==
    ASSUME NEW c \in CallRecords, Standing(c), c.step \in Exchanges
    PROVE  Unsent(c) \in CallRecords /\ Standing(Unsent(c))
<1>0. c.step \in WithFile => FileAtHand(c)
  BY DEF Standing, FileAtHand
<1>1. CASE c.step = "mkdir"
  <2> DEFINE d == [c EXCEPT !.step = "returned", !.failed = TRUE]
  <2>1. d \in CallRecords /\ d.step = "returned" /\ d.files = c.files /\ d.path = c.path
    BY DEF CallRecords
  <2>2. Unsent(c) = d
    BY <1>1 DEF Unsent
  <2> HIDE DEF d
  <2> QED BY <2>1, <2>2 DEF Standing, WithFile
<1>2. CASE c.step = "open"
  BY <1>0, <1>2, DoneWithType DEF Unsent, FileAtHand, WithFile
<1>3. CASE c.step \in {"write", "read"}
  <2> DEFINE d == [c EXCEPT !.step = "close", !.failed = TRUE]
  <2>1. d \in CallRecords /\ d.step = "close" /\ d.files = c.files /\ d.path = c.path
    BY DEF CallRecords, Exchanges
  <2>2. Unsent(c) = d
    BY <1>3 DEF Unsent
  <2> HIDE DEF d
  <2> QED BY <1>0, <1>3, <2>1, <2>2 DEF Standing, FileAtHand, WithFile, Length
<1>4. CASE c.step = "close"
  BY <1>0, <1>4, DoneWithType DEF Unsent, FileAtHand, WithFile, CallRecords
<1>5. CASE c.step = "single"
  <2> DEFINE f == (c.op # "Touch")
             d == [c EXCEPT !.step = "returned", !.failed = f]
  <2>1. f \in BOOLEAN
    OBVIOUS
  <2>2. Unsent(c) = d
    BY <1>5 DEF Unsent
  <2> HIDE DEF f
  <2>3. d \in CallRecords /\ d.step = "returned" /\ d.files = c.files /\ d.path = c.path
    BY <2>1 DEF CallRecords
  <2> HIDE DEF d
  <2> QED BY <2>2, <2>3 DEF Standing, WithFile
<1> QED BY <1>1, <1>2, <1>3, <1>4, <1>5 DEF Exchanges

-----------------------------------------------------------------------------
(* What each step does to the types.                                       *)

LEMMA CallsType ==
    ASSUME TypeInv, NEW t \in Threads, NEW c \in CallRecords, Standing(c),
           call' = [call EXCEPT ![t] = c]
    PROVE  /\ call' \in [Threads -> CallRecords]
           /\ \A u \in Threads : Standing(call'[u])
<1>1. call \in [Threads -> CallRecords] /\ \A u \in Threads : Standing(call[u])
  BY DEF TypeInv
<1>2. call' \in [Threads -> CallRecords]
  BY <1>1
<1>3. ASSUME NEW u \in Threads PROVE Standing(call'[u])
  <2>1. CASE u = t
    <3>1. call'[u] = c
      BY <1>1, <2>1
    <3> QED BY <3>1
  <2>2. CASE u # t
    <3>1. call'[u] = call[u]
      BY <1>1, <2>2
    <3> QED BY <1>1, <3>1
  <2> QED BY <2>1, <2>2
<1> QED BY <1>2, <1>3

LEMMA InitType == Init => TypeInv
<1> SUFFICES ASSUME Init PROVE TypeInv
  OBVIOUS
<1>1. NoCall \in CallRecords /\ Standing(NoCall)
  <2>1. NoCall \in CallRecords
    BY DEF NoCall, CallRecords
  <2>2. NoCall.step = "none" /\ NoCall.path = 1 /\ NoCall.files = <<>> /\ Len(NoCall.files) = 0
    BY DEF NoCall
  <2> QED BY <2>1, <2>2, WorksAssumption DEF Standing, WithFile
<1>2. link \in LinkRecords
  <2>1. /\ ssl \in BOOLEAN
        /\ link \in [wifi : IF ssl THEN {TRUE} ELSE BOOLEAN,
                     up : {TRUE}, full : {FALSE}, todo : {<<>>}, in : {<<>>}, torn : {FALSE},
                     outside : {FALSE}, waited : {FALSE}, late : {0}]
    BY DEF Init
  <2>2. /\ (IF ssl THEN {TRUE} ELSE BOOLEAN) \subseteq BOOLEAN
        /\ <<>> \in Seq(Requests) /\ <<>> \in Seq(Answers) /\ 0 \in 0..MaxLate
    <3>1. (IF ssl THEN {TRUE} ELSE BOOLEAN) \subseteq BOOLEAN
      OBVIOUS
    <3>2. <<>> \in Seq(Requests) /\ <<>> \in Seq(Answers)
      OBVIOUS
    <3>3. 0 \in 0..MaxLate
      BY BoundsAssumption
    <3> QED BY <3>1, <3>2, <3>3
  <2> DEFINE someWifi == IF ssl THEN {TRUE} ELSE BOOLEAN
             someTodo == Seq(Requests)
             someIn == Seq(Answers)
             someLate == 0..MaxLate
  <2>3. /\ someWifi \subseteq BOOLEAN /\ <<>> \in someTodo /\ <<>> \in someIn
        /\ 0 \in someLate
        /\ link \in [wifi : someWifi,
                     up : {TRUE}, full : {FALSE}, todo : {<<>>}, in : {<<>>}, torn : {FALSE},
                     outside : {FALSE}, waited : {FALSE}, late : {0}]
    BY <2>1, <2>2
  <2> HIDE DEF someWifi, someTodo, someIn, someLate
  <2>4. link \in [wifi : BOOLEAN, up : BOOLEAN, full : BOOLEAN, todo : someTodo,
                  torn : BOOLEAN, outside : BOOLEAN, waited : BOOLEAN, late : someLate,
                  in : someIn]
    BY <2>3
  <2> QED BY <2>4 DEF LinkRecords, someTodo, someIn, someLate
<1>3. device \in DeviceRecords
  <2>1. PICK n \in Lengths :
          device = [files |-> [p \in Paths |-> DeviceFile(n)],
                    file |-> [h \in Handles |-> NoFile],
                    at |-> [h \in Handles |-> 0], misled |-> FALSE, kept |-> {},
                    refusals |-> 0]
    BY DEF Init
  <2>2. DeviceFile(n) \in Seq(Int)
    BY HostFileType, WorksAssumption
  <2>3. /\ [p \in Paths |-> DeviceFile(n)] \in [Paths -> Seq(Int)]
        /\ [h \in Handles |-> NoFile] \in [Handles -> Paths \union {NoFile}]
        /\ [h \in Handles |-> 0] \in [Handles -> Nat]
        /\ 0 \in 0..MaxRefusals
    BY <2>2, BoundsAssumption
  <2> QED BY <2>1, <2>3 DEF DeviceRecords
<1>4. /\ call \in [Threads -> CallRecords]
      /\ \A u \in Threads : call[u] = NoCall
  BY <1>1 DEF Init
<1>5. ssl \in BOOLEAN /\ crashed = FALSE /\ queue = <<>>
  BY DEF Init
<1>6. <<>> \in Seq(Threads)
  OBVIOUS
<1> QED BY <1>1, <1>2, <1>3, <1>4, <1>5, <1>6 DEF TypeInv

LEMMA BeginType ==
    ASSUME TypeInv, NEW t \in Threads, Begin(t)
    PROVE  TypeInv'
<1>1. PICK w \in Works[t] :
        call' = [call EXCEPT ![t] =
              [NoCall EXCEPT !.op = w.op, !.files = w.files,
                             !.step = CASE w.op = "Tree" -> "mkdir"
                                        [] w.op \in {"File", "Fetch"} -> "next"
                                        [] OTHER -> "single"]]
  BY DEF Begin
<1> DEFINE s == CASE w.op = "Tree" -> "mkdir"
                  [] w.op \in {"File", "Fetch"} -> "next"
                  [] OTHER -> "single"
           c == [NoCall EXCEPT !.op = w.op, !.files = w.files, !.step = s]
<1>2. /\ w.op \in Operations /\ w.files \in Seq(Nat \union {Missing})
      /\ Len(w.files) <= Width /\ Len(w.files) \in Nat
  BY WorksAssumption
<1>3. s \in {"mkdir", "next", "single"}
  OBVIOUS
<1>4. call' = [call EXCEPT ![t] = c]
  BY <1>1
<1> HIDE DEF s
<1>5. NoCall \in CallRecords /\ NoCall.path = 1
  BY DEF NoCall, CallRecords
<1>6. c \in CallRecords
  BY <1>2, <1>3, <1>5 DEF CallRecords, Exchanges
<1>7. c.step = s /\ c.op = w.op /\ c.files = w.files /\ c.path = 1
  BY <1>5 DEF CallRecords
<1> HIDE DEF c
<1>8. Standing(c)
  BY <1>2, <1>3, <1>7, WorksAssumption DEF Standing, WithFile
<1>9. call' \in [Threads -> CallRecords] /\ \A u \in Threads : Standing(call'[u])
  BY <1>4, <1>6, <1>8, CallsType
<1> QED BY <1>9 DEF TypeInv, Begin

LEMMA NextFileType ==
    ASSUME TypeInv, NEW t \in Threads, NextFile(t)
    PROVE  TypeInv'
<1> DEFINE c == call[t]
           l == IF c.op = "Fetch" THEN HostFile(Length(c)) ELSE <<>>
           d == IF c.files = <<>> THEN [c EXCEPT !.step = "returned"]
                ELSE IF Length(c) = Missing THEN DoneWith(c, TRUE)
                ELSE [c EXCEPT !.step = "open", !.failed = FALSE, !.sure = TRUE,
                               !.local = l]
<1>1. c \in CallRecords /\ Standing(c)
  BY DEF TypeInv
<1>2. call' = [call EXCEPT ![t] = d] /\ UNCHANGED <<ssl, link, queue, device, crashed>>
  BY DEF NextFile
<1>3. CASE c.files = <<>>
  <2> DEFINE e == [c EXCEPT !.step = "returned"]
  <2>1. e \in CallRecords /\ e.step = "returned" /\ e.files = c.files /\ e.path = c.path
    BY <1>1 DEF CallRecords
  <2>2. d = e
    BY <1>3
  <2> HIDE DEF e, d
  <2>3. Standing(e)
    BY <1>1, <2>1 DEF Standing, WithFile
  <2> QED BY <1>2, <2>1, <2>2, <2>3, CallsType DEF TypeInv
<1>4. CASE c.files # <<>> /\ Length(c) = Missing
  <2>1. DoneWith(c, TRUE) \in CallRecords /\ Standing(DoneWith(c, TRUE))
    BY <1>1, <1>4, DoneWithType DEF Standing
  <2>2. d = DoneWith(c, TRUE)
    BY <1>4
  <2> HIDE DEF d
  <2> QED BY <1>2, <2>1, <2>2, CallsType DEF TypeInv
<1>5. CASE c.files # <<>> /\ Length(c) # Missing
  <2>1. Length(c) \in Nat
    BY <1>1, <1>5 DEF Length, CallRecords
  <2>2. l \in Seq(Int)
    BY <2>1, HostFileType
  <2> DEFINE e == [c EXCEPT !.step = "open", !.failed = FALSE, !.sure = TRUE, !.local = l]
  <2>3. d = e
    BY <1>5
  <2> HIDE DEF l, d
  <2>4. e \in CallRecords /\ e.step = "open" /\ e.files = c.files /\ e.path = c.path
    BY <1>1, <2>2 DEF CallRecords, Exchanges
  <2> HIDE DEF e
  <2>5. Standing(e)
    BY <1>1, <1>5, <2>1, <2>4 DEF Standing, WithFile, Length
  <2> QED BY <1>2, <2>3, <2>4, <2>5, CallsType DEF TypeInv
<1> QED BY <1>3, <1>4, <1>5

LEMMA SubmitType ==
    ASSUME TypeInv, NEW t \in Threads, Submit(t)
    PROVE  TypeInv'
<1>1. queue' \in Seq(Threads)
  BY QueueGrows DEF Submit, TypeInv
<1> QED BY <1>1 DEF Submit, TypeInv

LEMMA SendType ==
    ASSUME TypeInv, NEW t \in Threads, Send(t), call[t].step \in Exchanges
    PROVE  TypeInv'
<1>1. call[t] \in CallRecords /\ Standing(call[t]) /\ link \in LinkRecords
  BY DEF TypeInv
<1>2. Request(t) \in Requests
  BY <1>1, RequestType
<1>3. link' \in LinkRecords
  <2>1. link.todo \in Seq(Requests)
    BY <1>1 DEF LinkRecords
  <2> DEFINE q == Append(link.todo, Request(t))
  <2>2. q \in Seq(Requests)
    BY <1>2, <2>1, AppendProperties
  <2>3. link' = link \/ link' = [link EXCEPT !.todo = q]
    BY DEF Send
  <2> HIDE DEF q
  <2> QED BY <1>1, <2>2, <2>3 DEF LinkRecords
<1> DEFINE d == [call[t] EXCEPT !.asking = TRUE]
<1>4. /\ d \in CallRecords /\ d.step = call[t].step /\ d.files = call[t].files
      /\ d.path = call[t].path /\ d.index = call[t].index /\ d.op = call[t].op
  BY <1>1 DEF CallRecords
<1>5. call' = [call EXCEPT ![t] = d]
  BY DEF Send
<1> HIDE DEF d
<1>6. Standing(d)
  BY <1>1, <1>4 DEF Standing, Length, Packets
<1>7. call' \in [Threads -> CallRecords] /\ \A u \in Threads : Standing(call'[u])
  BY <1>4, <1>5, <1>6, CallsType
<1> QED BY <1>3, <1>7 DEF TypeInv, Send

LEMMA SendFailsType ==
    ASSUME TypeInv, NEW t \in Threads, SendFails(t), call[t].step \in Exchanges
    PROVE  TypeInv'
<1> DEFINE c == Unsent(call[t])
           d == [c EXCEPT !.sure = FALSE]
<1>1. c \in CallRecords /\ Standing(c)
  BY UnsentType DEF TypeInv
<1>2. call' = [call EXCEPT ![t] = d]
  BY DEF SendFails
<1> HIDE DEF c
<1>3. /\ d \in CallRecords /\ d.step = c.step /\ d.files = c.files
      /\ d.path = c.path /\ d.index = c.index /\ d.op = c.op
  BY <1>1 DEF CallRecords
<1> HIDE DEF d
<1>4. Standing(d)
  BY <1>1, <1>3 DEF Standing, Length, Packets
<1>5. call' \in [Threads -> CallRecords] /\ \A u \in Threads : Standing(call'[u])
  BY <1>1, <1>2, <1>3, <1>4, CallsType
<1>6. queue' \in Seq(Threads) /\ crashed' \in BOOLEAN
  BY QueueShrinks DEF SendFails, AtFront, TypeInv
<1> QED BY <1>5, <1>6 DEF TypeInv, SendFails

LEMMA CompletesType ==
    ASSUME TypeInv, NEW t \in Threads, AtFront(t), call[t].step \in Exchanges,
           NEW granted \in BOOLEAN, NEW body \in Bodies, Completes(t, granted, body)
    PROVE  /\ call' \in [Threads -> CallRecords]
           /\ \A u \in Threads : Standing(call'[u])
           /\ queue' \in Seq(Threads) /\ crashed' \in BOOLEAN
<1> DEFINE b == call[t].sure /\ granted
           c == [call[t] EXCEPT !.sure = b, !.asking = FALSE]
           d == Succeeded(c, body)
<1>1. call[t] \in CallRecords /\ Standing(call[t]) /\ b \in BOOLEAN
  BY DEF TypeInv, CallRecords
<1>2. call' = [call EXCEPT ![t] = d]
  BY <1>1 DEF Completes, CallRecords
<1>3. queue' \in Seq(Threads) /\ crashed' \in BOOLEAN
  BY QueueShrinks DEF Completes, AtFront, TypeInv, Dereferences
<1> HIDE DEF b
<1>4. /\ c \in CallRecords /\ c.step = call[t].step /\ c.files = call[t].files
      /\ c.path = call[t].path /\ c.index = call[t].index /\ c.op = call[t].op
  BY <1>1 DEF CallRecords
<1> HIDE DEF c
<1>5. Standing(c)
  BY <1>1, <1>4 DEF Standing, Length, Packets
<1>6. d \in CallRecords /\ Standing(d)
  BY <1>4, <1>5, SucceededType
<1> HIDE DEF d
<1> QED BY <1>2, <1>3, <1>6, CallsType

\* Whatever comes to a receive, or does not, is a body.
LEMMA ReceivesType ==
    ASSUME TypeInv, NEW t \in Threads, call[t].step \in Exchanges,
           \/ Receive(t) \/ ReceiveNothing(t) \/ ReceiveTorn(t) \/ ReceiveStalls(t)
           \/ ReceiveGarbage(t) \/ ReceiveOutside(t)
    PROVE  TypeInv'
<1>1. link \in LinkRecords /\ link.in \in Seq(Answers) /\ link.todo \in Seq(Requests)
  BY DEF TypeInv, LinkRecords
<1>2. CASE Receive(t)
  <2>1. link.in # <<>> /\ AtFront(t)
    BY <1>2 DEF Receive
  <2>2. Head(link.in) \in Answers /\ Tail(link.in) \in Seq(Answers)
    BY <1>1, <2>1
  <2>3. Head(link.in).granted \in BOOLEAN /\ Head(link.in).body \in Bodies
    BY <2>2 DEF Answers
  <2> DEFINE q == Tail(link.in)
  <2>4. /\ Completes(t, Head(link.in).granted, Head(link.in).body)
        /\ link' = [link EXCEPT !.in = q] /\ UNCHANGED <<ssl, device>>
    BY <1>2 DEF Receive
  <2>5. /\ call' \in [Threads -> CallRecords] /\ \A u \in Threads : Standing(call'[u])
        /\ queue' \in Seq(Threads) /\ crashed' \in BOOLEAN
    BY <2>1, <2>3, <2>4, CompletesType
  <2>6. q \in Seq(Answers)
    BY <2>2
  <2> HIDE DEF q
  <2>7. link' \in LinkRecords
    BY <1>1, <2>4, <2>6 DEF LinkRecords
  <2> QED BY <2>4, <2>5, <2>7 DEF TypeInv
<1>3. ASSUME NEW body \in Bodies, AtFront(t), Completes(t, FALSE, body),
             link' \in LinkRecords, UNCHANGED <<ssl, device>>
      PROVE  TypeInv'
  <2>1. /\ call' \in [Threads -> CallRecords] /\ \A u \in Threads : Standing(call'[u])
        /\ queue' \in Seq(Threads) /\ crashed' \in BOOLEAN
    BY <1>3, CompletesType
  <2> QED BY <1>3, <2>1 DEF TypeInv
<1>4. CASE ReceiveNothing(t)
  <2> DEFINE b == link.waited \/ link.up
  <2>1. /\ AtFront(t) /\ Completes(t, FALSE, Null) /\ UNCHANGED <<ssl, device>>
        /\ link' = [link EXCEPT !.waited = b]
    BY <1>1, <1>4 DEF ReceiveNothing, LinkRecords
  <2>2. b \in BOOLEAN
    OBVIOUS
  <2> HIDE DEF b
  <2>3. link' \in LinkRecords
    BY <1>1, <2>1, <2>2 DEF LinkRecords
  <2> QED BY <1>3, <2>1, <2>3, BodyTypes
<1>5. Torn \in LinkRecords /\ [Torn EXCEPT !.outside = TRUE] \in LinkRecords
  <2>1. <<>> \in Seq(Answers) /\ <<>> \in Seq(Requests)
    OBVIOUS
  <2> QED BY <1>1, <2>1 DEF Torn, LinkRecords
<1>6. CASE ReceiveTorn(t)
  <2>1. /\ AtFront(t) /\ Completes(t, FALSE, Zeros) /\ UNCHANGED <<ssl, device>>
        /\ link' = Torn
    BY <1>6 DEF ReceiveTorn
  <2> QED BY <1>3, <1>5, <2>1, BodyTypes
<1>7. CASE ReceiveStalls(t)
  <2>1. /\ link' = [Torn EXCEPT !.outside = TRUE]
        /\ UNCHANGED <<ssl, queue, call, device, crashed>>
    BY <1>7 DEF ReceiveStalls
  <2> QED BY <1>5, <2>1 DEF TypeInv
<1>8. CASE ReceiveGarbage(t)
  <2>1. PICK body \in {Null, Zeros} : Completes(t, FALSE, body)
    BY <1>8 DEF ReceiveGarbage
  <2>2. /\ AtFront(t) /\ UNCHANGED <<ssl, device>> /\ body \in Bodies
        /\ link' = Torn
    BY <1>8, BodyTypes DEF ReceiveGarbage
  <2> QED BY <1>3, <1>5, <2>1, <2>2
<1>9. CASE ReceiveOutside(t)
  <2>1. link' = Torn /\ AtFront(t) /\ UNCHANGED <<ssl, device>>
    BY <1>9 DEF ReceiveOutside
  <2>2. ASSUME NEW body \in {Null, Zeros}, Completes(t, FALSE, body) PROVE TypeInv'
    BY <1>3, <1>5, <2>1, <2>2, BodyTypes
  <2>3. CASE crashed' = TRUE /\ UNCHANGED <<queue, call>>
    BY <1>5, <2>1, <2>3 DEF TypeInv
  <2> QED BY <1>9, <2>2, <2>3 DEF ReceiveOutside
<1> QED BY <1>2, <1>4, <1>6, <1>7, <1>8, <1>9

\* Reply takes the first request, and its answer is counted if it may be late.
LEMMA ReplyType ==
    ASSUME TypeInv, link.todo # <<>>, link.waited => link.late < MaxLate,
           NEW granted \in BOOLEAN, NEW body \in Bodies,
           Reply(Head(link.todo), granted, body)
    PROVE  link' \in LinkRecords
<1>1. /\ link \in LinkRecords /\ link.in \in Seq(Answers) /\ link.todo \in Seq(Requests)
      /\ link.late \in 0..MaxLate
  BY DEF TypeInv, LinkRecords
<1> DEFINE r == Head(link.todo)
           a == Answer(r.by, granted, body)
           todo == Tail(link.todo)
           in == Append(link.in, a)
           late == IF link.waited THEN link.late + 1 ELSE link.late
<1>2. r \in Requests /\ todo \in Seq(Requests)
  BY <1>1
<1>3. a \in Answers
  BY <1>2 DEF Answer, Answers, Requests
<1>4. in \in Seq(Answers)
  BY <1>1, <1>3, AppendProperties
<1>5. late \in 0..MaxLate
  BY <1>1, BoundsAssumption
<1>6. link' = [link EXCEPT !.todo = todo, !.late = late, !.in = in]
  BY <1>1 DEF Reply, LinkRecords
<1> HIDE DEF a, todo, in, late, r
<1> QED BY <1>1, <1>2, <1>4, <1>5, <1>6 DEF LinkRecords

\* The part of a file that a read asks for
LEMMA PartType ==
    ASSUME NEW file \in Seq(Int), NEW at \in Nat, NEW size \in Nat
    PROVE  SubSeq(file, at + 1, Smaller(at + size, Len(file))) \in Seq(Int)
<1> DEFINE n == Smaller(at + size, Len(file))
<1>1. n \in Nat /\ n <= Len(file) /\ at + 1 \in 1..(at + 1)
  BY DEF Smaller
<1>2. \A i \in (at + 1)..n : file[i] \in Int
  BY <1>1
<1> HIDE DEF n
<1> QED BY <1>1, <1>2, SubSeqProperties DEF n

LEMMA ServeType ==
    ASSUME TypeInv, Serve
    PROVE  TypeInv'
<1> DEFINE r == Head(link.todo)
<1>1. /\ device \in DeviceRecords
      /\ device.files \in [Paths -> Seq(Int)]
      /\ device.file \in [Handles -> Paths \union {NoFile}]
      /\ device.at \in [Handles -> Nat] /\ device.misled \in BOOLEAN
      /\ device.kept \in SUBSET Nat /\ device.refusals \in 0..MaxRefusals
  BY DEF TypeInv, DeviceRecords
<1>2. /\ link.todo # <<>> /\ (link.waited => link.late < MaxLate)
      /\ UNCHANGED <<ssl, queue, call, crashed>>
  BY DEF Serve
<1>3. r \in Requests
  BY <1>2 DEF TypeInv, LinkRecords
<1>4. ASSUME NEW granted \in BOOLEAN, NEW body \in Bodies, Reply(r, granted, body),
             device' \in DeviceRecords
      PROVE  TypeInv'
  BY <1>2, <1>4, ReplyType DEF TypeInv
<1>5. ASSUME NEW h \in Open
      PROVE  h \in Handles /\ device.file[h] \in Paths /\ device.at[h] \in Nat
  BY <1>1 DEF Open
<1>6. CASE ServeOpen(r)
  <2>1. PICK h \in Handles \ Open :
          /\ device' = [device EXCEPT !.file[h] = <<r.by, r.path>>]
          /\ Reply(r, TRUE, Status(h))
    BY <1>6 DEF ServeOpen
  <2> DEFINE f == [device.file EXCEPT ![h] = <<r.by, r.path>>]
  <2>2. <<r.by, r.path>> \in Paths
    BY <1>3 DEF Requests, Paths
  <2>3. f \in [Handles -> Paths \union {NoFile}]
    BY <1>1, <2>2
  <2>4. device' = [device EXCEPT !.file = f]
    BY <1>1, <2>1 DEF DeviceRecords
  <2> HIDE DEF f
  <2>5. device' \in DeviceRecords
    BY <1>1, <2>3, <2>4 DEF DeviceRecords
  <2>6. Status(h) \in Bodies
    BY BodyTypes, NumbersAssumption
  <2> QED BY <1>4, <2>1, <2>5, <2>6
<1>7. CASE ServeWrite(r)
  <2> DEFINE h == r.handle
             p == device.file[h]
             x == Overwrite(device.files[p], device.at[h], r.data)
             n == device.at[h] + Len(r.data)
             f == [device.files EXCEPT ![p] = x]
             a == [device.at EXCEPT ![h] = n]
  <2>1. h \in Handles /\ p \in Paths /\ device.at[h] \in Nat /\ Reply(r, TRUE, Zeros)
    BY <1>5, <1>7 DEF ServeWrite
  <2>2. r.data \in Seq(Int)
    BY <1>3 DEF Requests
  <2>3. x \in Seq(Int) /\ n \in Nat
    BY SMTT(30), <1>1, <2>1, <2>2, OverwriteType
  <2>4. device' = [device EXCEPT !.files = f, !.at = a]
    BY <1>1, <1>7 DEF ServeWrite, DeviceRecords
  <2> HIDE DEF x, n, h, p
  <2>5. f \in [Paths -> Seq(Int)] /\ a \in [Handles -> Nat]
    BY <1>1, <2>1, <2>3
  <2> HIDE DEF f, a
  <2>6. device' \in DeviceRecords
    BY <1>1, <2>4, <2>5 DEF DeviceRecords
  <2> QED BY <1>4, <2>1, <2>6, BodyTypes
<1>8. CASE ServeRead(r)
  <2> DEFINE h == r.handle
             file == device.files[device.file[h]]
             data == SubSeq(file, device.at[h] + 1, Smaller(device.at[h] + r.size, Len(file)))
             n == device.at[h] + Len(data)
             a == [device.at EXCEPT ![h] = n]
  <2>1. /\ h \in Handles /\ device.file[h] \in Paths /\ device.at[h] \in Nat
        /\ Reply(r, TRUE, Body(0, data))
    BY <1>5, <1>8 DEF ServeRead
  <2>2. file \in Seq(Int) /\ r.size \in Nat
    BY <1>1, <1>3, <2>1 DEF Requests
  <2>3. data \in Seq(Int)
    BY <2>1, <2>2, PartType
  <2>4. device' = [device EXCEPT !.at = a]
    BY <1>1, <1>8 DEF ServeRead, DeviceRecords
  <2> HIDE DEF data
  <2>5. n \in Nat /\ Body(0, data) \in Bodies
    BY <2>1, <2>3 DEF Body, Bodies
  <2> HIDE DEF n, h
  <2>6. a \in [Handles -> Nat]
    BY <1>1, <2>1, <2>5
  <2> HIDE DEF a
  <2>7. device' \in DeviceRecords
    BY <1>1, <2>4, <2>6 DEF DeviceRecords
  <2> QED BY <1>4, <2>1, <2>5, <2>7
<1>9. CASE ServeClose(r)
  <2> DEFINE h == r.handle
             f == [device.file EXCEPT ![h] = NoFile]
             a == [device.at EXCEPT ![h] = 0]
  <2>1. Reply(r, TRUE, Zeros) /\ device' = [device EXCEPT !.file = f, !.at = a]
    BY <1>1, <1>9 DEF ServeClose, DeviceRecords
  <2>2. f \in [Handles -> Paths \union {NoFile}] /\ a \in [Handles -> Nat]
    BY <1>1
  <2> HIDE DEF f, a
  <2>3. device' \in DeviceRecords
    BY <1>1, <2>1, <2>2 DEF DeviceRecords
  <2> QED BY <1>4, <2>1, <2>3, BodyTypes
<1>10. CASE ServeOther(r)
  BY <1>1, <1>4, <1>10, BodyTypes DEF ServeOther
<1>11. CASE Refuse(r)
  <2>1. PICK code \in Codes : Reply(r, FALSE, Status(code))
    BY <1>11 DEF Refuse
  <2> DEFINE m == device.misled \/ r.kind = "open"
             k == IF r.kind = "close" THEN device.kept \union {r.handle} ELSE device.kept
             n == device.refusals + 1
  <2>2. m \in BOOLEAN /\ k \in SUBSET Nat
    BY <1>1, <1>3 DEF Requests
  <2>3. n \in 0..MaxRefusals
    BY <1>1, <1>11, BoundsAssumption DEF Refuse
  <2>4. device' = [device EXCEPT !.refusals = n, !.misled = m, !.kept = k]
    BY <1>1, <1>11 DEF Refuse, DeviceRecords
  <2> HIDE DEF m, k, n
  <2>5. device' \in DeviceRecords
    BY <1>1, <2>2, <2>3, <2>4 DEF DeviceRecords
  <2>6. Status(code) \in Bodies
    BY BodyTypes, NumbersAssumption
  <2> QED BY <1>4, <2>1, <2>5, <2>6
<1> QED BY <1>6, <1>7, <1>8, <1>9, <1>10, <1>11 DEF Serve

LEMMA HangUpType ==
    ASSUME TypeInv, HangUp
    PROVE  TypeInv'
<1> DEFINE f == [h \in Handles |-> NoFile]
           a == [h \in Handles |-> 0]
<1>1. /\ link \in LinkRecords /\ device \in DeviceRecords
      /\ link' = [link EXCEPT !.up = FALSE, !.todo = <<>>]
      /\ device' = [device EXCEPT !.file = f, !.at = a]
      /\ UNCHANGED <<ssl, queue, call, crashed>>
  BY DEF HangUp, TypeInv
<1>2. /\ f \in [Handles -> Paths \union {NoFile}] /\ a \in [Handles -> Nat]
      /\ <<>> \in Seq(Requests)
  OBVIOUS
<1> HIDE DEF f, a
<1>3. link' \in LinkRecords
  BY <1>1, <1>2 DEF LinkRecords
<1>4. device' \in DeviceRecords
  BY <1>1, <1>2 DEF DeviceRecords
<1> QED BY <1>1, <1>3, <1>4 DEF TypeInv

LEMMA StopReadingType ==
    ASSUME TypeInv, StopReading
    PROVE  TypeInv'
<1>1. /\ link \in LinkRecords /\ link' = [link EXCEPT !.full = TRUE]
      /\ UNCHANGED <<ssl, queue, call, device, crashed>>
  BY DEF StopReading, TypeInv
<1>2. link' \in LinkRecords
  BY <1>1 DEF LinkRecords
<1> QED BY <1>1, <1>2 DEF TypeInv

LEMMA NextType == InvAndLine /\ TypeInv /\ [Next]_vars => TypeInv'
<1> SUFFICES ASSUME InvAndLine, TypeInv, [Next]_vars PROVE TypeInv'
  OBVIOUS
<1>1. ASSUME NEW t \in Threads, Begin(t) \/ ThreadStep(t) \/ ReceiveOutside(t)
      PROVE  TypeInv'
  <2>1. AtFront(t) => call[t].step \in Exchanges
    BY FrontIsInLine DEF InvAndLine
  <2>2. CASE Begin(t) \/ NextFile(t) \/ Submit(t)
    BY <2>2, BeginType, NextFileType, SubmitType
  <2>3. CASE Send(t)
    BY <2>1, <2>3, SendType DEF Send
  <2>4. CASE SendFails(t)
    BY <2>1, <2>4, SendFailsType DEF SendFails
  <2>5. CASE \/ Receive(t) \/ ReceiveNothing(t) \/ ReceiveTorn(t) \/ ReceiveStalls(t)
             \/ ReceiveGarbage(t) \/ ReceiveOutside(t)
    <3>1. AtFront(t)
      BY <2>5 DEF Receive, ReceiveNothing, ReceiveTorn, ReceiveStalls, ReceiveGarbage,
                  ReceiveOutside
    <3> QED BY <2>1, <2>5, <3>1, ReceivesType
  <2> QED BY <1>1, <2>2, <2>3, <2>4, <2>5 DEF ThreadStep
<1>2. CASE UNCHANGED vars
  <2>1. UNCHANGED <<ssl, link, queue, call, device, crashed>>
    BY <1>2 DEF vars
  <2> QED BY <2>1 DEF TypeInv
<1> QED BY <1>1, <1>2, ServeType, StopReadingType, HangUpType DEF Next, Rest

\* The variables keep their types, for any threads, files, bounds and packet
\* size: no call asks for a packet its file does not have, or goes on with a file
\* that is not there (the loops of SDMMD_AMDeviceCopyFile and
\* SDMMD_AMDeviceRemoteCopyFile over the packets, and those over the entries).
THEOREM TypeCorrect == Spec => []TypeOK
<1>1. TypeInv => TypeOK
  BY DEF TypeInv, TypeOK, LinkRecords, CallRecords, DeviceRecords, Answers
<1> QED BY <1>1, InitType, NextType, InvariantHolds, PTL DEF Spec
-----------------------------------------------------------------------------
(* What the copies are.                                                    *)

\* The packet a call is at is answered.
PacketReplied(t) == Replied(t) /\ call[t].step \in {"write", "read"}

\* Every answer about the file, the one on its way too, granted what was asked.
Good(t) == call[t].sure /\ (PacketReplied(t) => Head(link.in).granted)

FileOf(t) == device.files[<<t, call[t].path>>]

\* How much of a file of length n the first k packets are
Covered(n, k) == Smaller(n, TransferSize * k)

\* How much of the local file the conduit has seen written or asked for, and so
\* where it is in its own
Units(t) ==
    LET c == call[t] IN
    Covered(Length(c), IF PacketReplied(t) THEN c.index + 1 ELSE c.index)
Position(t) == Smaller(Units(t), Len(FileOf(t)))

\* Those units of the device's file are what they are here.
Sent(t) ==
    /\ Units(t) <= Len(FileOf(t))
    /\ \A i \in 1..Units(t) : FileOf(t)[i] = i

\* The local file has as much of the device's as was received, and the part on
\* its way goes on from there.
Fetched(t) ==
    LET c == call[t]
        file == FileOf(t)
        data == Head(link.in).body.data
    IN /\ Len(c.local) = Length(c)
       /\ c.at = Smaller(Covered(Length(c), c.index), Len(file))
       /\ \A i \in 1..c.at : c.local[i] = file[i]
       /\ PacketReplied(t) =>
             /\ c.at + Len(data) = Position(t)
             /\ \A j \in 1..Len(data) : data[j] = file[c.at + j]

CopyOf(t) ==
    LET c == call[t] IN
    UsesHandle(t) /\ Good(t) /\ Length(c) <= OffsetLimit =>
        /\ c.op # "Fetch" => Sent(t)
        /\ c.op = "Fetch" => Fetched(t)
        /\ link.up /\ c.step # "close" => device.at[c.handle] = Position(t)

\* A file is opened at its beginning.
StartsAtZero(t) ==
    OpenReplied(t) /\ link.up => device.at[Head(link.in).body.word] = 0

\* A call begins a file with its first packet, and closes it, if it is sure of
\* the file, after the last.
InOrder(c) ==
    /\ c.step \in {"none", "mkdir", "next", "open"} => c.index = 0 /\ c.at = 0
    /\ c.step = "open" /\ c.op = "Fetch" => c.local = HostFile(Length(c))
    /\ c.step = "write" => c.op # "Fetch"
    /\ c.step = "read" => c.op = "Fetch"
    /\ c.step = "close" /\ c.sure => ~(c.index < Packets(c))

CopyInv ==
    /\ \A h \in Handles \ Open : device.at[h] = 0
    /\ \A t \in Threads : InOrder(call[t])
    /\ Trusted /\ ~device.misled => \A t \in Threads : StartsAtZero(t) /\ CopyOf(t)

-----------------------------------------------------------------------------
(* Lemmas on packets and their contents.                                   *)

LEMMA SmallerType ==
    ASSUME NEW a \in Nat, NEW b \in Nat
    PROVE  Smaller(a, b) \in Nat /\ Smaller(a, b) <= a /\ Smaller(a, b) <= b
BY DEF Smaller

LEMMA CoveredType ==
    ASSUME NEW n \in Nat, NEW k \in Nat
    PROVE  Covered(n, k) \in Nat /\ Covered(n, k) <= n
<1>1. TransferSize * k \in Nat
  BY Multiples, SizesAssumption
<1> QED BY <1>1, SmallerType DEF Covered

\* No packet is nothing, and all of them are the file.
LEMMA CoveredEnds ==
    ASSUME NEW c, Length(c) \in Nat, c.index \in Nat
    PROVE  /\ Covered(Length(c), 0) = 0
           /\ ~(c.index < Packets(c)) => Covered(Length(c), c.index) = Length(c)
<1>1. TransferSize * 0 = 0 /\ TransferSize * c.index \in Nat
  BY SizesAssumption, Multiples
<1>2. ~(c.index < Packets(c)) => ~(TransferSize * c.index < Length(c))
  BY PacketsOfFile
<1> QED BY <1>1, <1>2 DEF Covered, Smaller

\* A packet goes on where the ones before it end, as far as the offset can say.
LEMMA CoveredNext ==
    ASSUME NEW c, Length(c) \in Nat, c.index \in Nat, c.index < Packets(c),
           Length(c) <= OffsetLimit
    PROVE  /\ Offset(c) = Covered(Length(c), c.index)
           /\ Offset(c) \in Nat /\ Remainder(c) \in Nat
           /\ Covered(Length(c), c.index + 1) = Offset(c) + Remainder(c)
<1> DEFINE d == TransferSize
           i == c.index
           L == Length(c)
           p == d * i
<1>1. /\ d \in Nat \ {0} /\ i \in Nat /\ L \in Nat /\ p \in Nat /\ p < L
      /\ d * (i + 1) = p + d /\ OffsetLimit \in Nat \ {0} /\ L <= OffsetLimit
  BY SizesAssumption, PacketsOfFile, Multiples
<1>2. p < OffsetLimit
  BY <1>1
<1>3. Offset(c) = p
  BY <1>1, <1>2, Modulo DEF Offset
<1>4. Covered(L, i) = p
  BY <1>1 DEF Covered, Smaller
<1>5. Covered(L, i + 1) = Smaller(L, p + d)
  BY <1>1 DEF Covered
<1>6. Remainder(c) = Smaller(L - p, d)
  BY <1>3 DEF Remainder
<1> HIDE DEF d, i, L, p
<1>7. Smaller(L - p, d) \in Nat /\ Smaller(L, p + d) = p + Smaller(L - p, d)
  BY <1>1 DEF Smaller
<1> QED BY <1>1, <1>3, <1>4, <1>5, <1>6, <1>7 DEF L, i

\* What a write leaves in a file
LEMMA OverwriteElements ==
    ASSUME NEW file \in Seq(Int), NEW at \in Nat, NEW data \in Seq(Int)
    PROVE  /\ Len(Overwrite(file, at, data)) = Greater(Len(file), at + Len(data))
           /\ \A i \in 1..Greater(Len(file), at + Len(data)) :
                 Overwrite(file, at, data)[i] =
                    IF i \in (at + 1)..(at + Len(data)) THEN data[i - at]
                    ELSE IF i <= Len(file) THEN file[i] ELSE 0
<1> DEFINE n == Greater(Len(file), at + Len(data))
           x(i) == IF i \in (at + 1)..(at + Len(data)) THEN data[i - at]
                   ELSE IF i <= Len(file) THEN file[i] ELSE 0
<1>1. n \in Nat
  BY DEF Greater
<1>2. Overwrite(file, at, data) = [i \in 1..n |-> x(i)]
  BY DEF Overwrite
<1>3. Overwrite(file, at, data) \in Seq(Int)
  BY OverwriteType
<1> HIDE DEF n, x
<1>4. Len(Overwrite(file, at, data)) = n
  BY <1>1, <1>2, <1>3
<1>5. \A i \in 1..n : Overwrite(file, at, data)[i] = x(i)
  BY <1>2
<1> QED BY <1>4, <1>5 DEF n, x

\* Writing at most where the file ends goes on with what is there.
LEMMA OverwriteGoesOn ==
    ASSUME NEW file \in Seq(Int), NEW at \in Nat, NEW data \in Seq(Int),
           at <= Len(file)
    PROVE  /\ at + Len(data) <= Len(Overwrite(file, at, data))
           /\ Len(Overwrite(file, at, data)) = Greater(Len(file), at + Len(data))
           /\ \A i \in 1..at : Overwrite(file, at, data)[i] = file[i]
           /\ \A j \in 1..Len(data) : Overwrite(file, at, data)[at + j] = data[j]
<1> DEFINE o == Overwrite(file, at, data)
           n == Greater(Len(file), at + Len(data))
<1>1. /\ Len(o) = n
      /\ \A i \in 1..n : o[i] = IF i \in (at + 1)..(at + Len(data)) THEN data[i - at]
                                ELSE IF i <= Len(file) THEN file[i] ELSE 0
  BY OverwriteElements
<1>2. Len(file) \in Nat /\ Len(data) \in Nat /\ n \in Nat /\ at + Len(data) <= n /\ Len(file) <= n
  BY DEF Greater
<1> HIDE DEF o, n
<1>3. ASSUME NEW i \in 1..at PROVE o[i] = file[i]
  <2>1. i \in 1..n /\ i \notin (at + 1)..(at + Len(data)) /\ i <= Len(file)
    BY <1>2
  <2> QED BY <1>1, <2>1
<1>4. ASSUME NEW j \in 1..Len(data) PROVE o[at + j] = data[j]
  <2>1. at + j \in 1..n /\ at + j \in (at + 1)..(at + Len(data)) /\ (at + j) - at = j
    BY <1>2
  <2> QED BY <1>1, <2>1
<1> QED BY <1>1, <1>2, <1>3, <1>4 DEF o, n

\* What a read returns
LEMMA PartElements ==
    ASSUME NEW file \in Seq(Int), NEW at \in Nat, NEW size \in Nat, at <= Len(file)
    PROVE  LET m == Smaller(at + size, Len(file))
               data == SubSeq(file, at + 1, m)
           IN /\ data \in Seq(Int) /\ m \in Nat /\ at + Len(data) = m
              /\ \A j \in 1..Len(data) : data[j] = file[at + j]
<1> DEFINE m == Smaller(at + size, Len(file))
           data == SubSeq(file, at + 1, m)
<1>1. data \in Seq(Int)
  BY PartType
<1>2. Len(file) \in Nat /\ m \in Nat /\ at <= m /\ m <= Len(file)
  BY DEF Smaller
<1> HIDE DEF m
<1>3. data = [j \in 1..(m - at) |-> file[at + j]]
  BY <1>2
<1>4. Len(data) = m - at
  BY <1>2
<1> HIDE DEF data
<1>5. \A j \in 1..(m - at) : data[j] = file[at + j]
  BY <1>3
<1>6. at + Len(data) = m /\ \A j \in 1..Len(data) : data[j] = file[at + j]
  <2> HIDE DEF m
  <2> QED BY <1>2, <1>4, <1>5
<1> QED BY <1>1, <1>2, <1>6 DEF m, data

-----------------------------------------------------------------------------
(* What becomes of the calls.                                              *)

LEMMA LoopInOrder ==
    ASSUME NEW c \in CallRecords
    PROVE  /\ InOrder(Loop(c))
           /\ Loop(c).index = c.index /\ Loop(c).local = c.local /\ Loop(c).at = c.at
           /\ Loop(c).files = c.files /\ Loop(c).op = c.op /\ Loop(c).path = c.path
           /\ Loop(c).sure = c.sure /\ Loop(c).handle = c.handle
           /\ Loop(c).asking = c.asking
           /\ Loop(c).step \in {"write", "read", "close"}
<1> DEFINE s == IF c.index < Packets(c)
                THEN IF c.op = "Fetch" THEN "read" ELSE "write"
                ELSE "close"
           d == [c EXCEPT !.step = s]
<1>1. /\ s \in {"write", "read", "close"}
      /\ s = "write" => c.op # "Fetch"
      /\ s = "read" => c.op = "Fetch"
      /\ s = "close" => ~(c.index < Packets(c))
  OBVIOUS
<1>2. Loop(c) = d
  BY DEF Loop
<1> HIDE DEF s
<1>3. /\ d.step = s /\ d.index = c.index /\ d.local = c.local /\ d.at = c.at
      /\ d.files = c.files /\ d.op = c.op /\ d.path = c.path
      /\ d.sure = c.sure /\ d.handle = c.handle /\ d.asking = c.asking
  BY DEF CallRecords
<1> HIDE DEF d
<1>4. Packets(d) = Packets(c)
  BY <1>3 DEF Packets, Length
<1>5. InOrder(d)
  BY <1>1, <1>3, <1>4 DEF InOrder
<1> QED BY <1>1, <1>2, <1>3, <1>5

LEMMA DoneWithInOrder ==
    ASSUME NEW c \in CallRecords, NEW failed
    PROVE  InOrder(DoneWith(c, failed)) /\ DoneWith(c, failed).step = "next"
<1>1. /\ DoneWith(c, failed).step = "next"
      /\ DoneWith(c, failed).index = 0 /\ DoneWith(c, failed).at = 0
  BY DEF DoneWith, CallRecords
<1> QED BY <1>1 DEF InOrder

LEMMA SucceededInOrder ==
    ASSUME NEW c \in CallRecords, InOrder(c), c.step \in Exchanges, NEW body \in Bodies
    PROVE  InOrder(Succeeded(c, body))
<1>1. CASE c.step = "mkdir"
  <2> DEFINE d == [c EXCEPT !.step = "next"]
  <2>1. d.step = "next" /\ d.index = c.index /\ d.at = c.at
    BY DEF CallRecords
  <2>2. Succeeded(c, body) = d
    BY <1>1 DEF Succeeded
  <2> HIDE DEF d
  <2> QED BY <1>1, <2>1, <2>2 DEF InOrder
<1>2. CASE c.step = "open"
  <2> DEFINE d == [c EXCEPT !.handle = body.word]
  <2>1. d \in CallRecords
    BY DEF CallRecords, Bodies
  <2>2. Succeeded(c, body) = Loop(d)
    BY <1>2 DEF Succeeded
  <2> HIDE DEF d
  <2> QED BY <2>1, <2>2, LoopInOrder
<1>3. CASE c.step = "write"
  <2> DEFINE i == c.index + 1
             d == [c EXCEPT !.index = i]
  <2>1. i \in Nat
    BY DEF CallRecords
  <2>2. Succeeded(c, body) = Loop(d)
    BY <1>3 DEF Succeeded, CallRecords
  <2> HIDE DEF i
  <2>3. d \in CallRecords
    BY <2>1 DEF CallRecords
  <2> HIDE DEF d
  <2> QED BY <2>2, <2>3, LoopInOrder
<1>4. CASE c.step = "read"
  <2> DEFINE l == Overwrite(c.local, c.at, body.data)
             n == c.at + Len(body.data)
             i == c.index + 1
             d == [c EXCEPT !.index = i, !.local = l, !.at = n]
  <2>1. l \in Seq(Int) /\ n \in Nat /\ i \in Nat
    BY OverwriteType DEF CallRecords, Bodies
  <2>2. Succeeded(c, body) = Loop(d)
    BY <1>4 DEF Succeeded, CallRecords
  <2> HIDE DEF l, n, i
  <2>3. d \in CallRecords
    BY <2>1 DEF CallRecords
  <2> HIDE DEF d
  <2> QED BY <2>2, <2>3, LoopInOrder
<1>5. CASE c.step = "close"
  BY <1>5, DoneWithInOrder DEF Succeeded
<1>6. CASE c.step = "single"
  <2> DEFINE f == (c.op = "List" /\ body = Null)
             d == [c EXCEPT !.step = "returned", !.failed = f]
  <2>1. Succeeded(c, body) = d
    BY <1>6 DEF Succeeded
  <2> HIDE DEF f
  <2>2. d.step = "returned"
    BY DEF CallRecords
  <2> HIDE DEF d
  <2> QED BY <2>1, <2>2 DEF InOrder
<1> QED BY <1>1, <1>2, <1>3, <1>4, <1>5, <1>6 DEF Exchanges

LEMMA UnsentInOrder ==
    ASSUME NEW c \in CallRecords, InOrder(c), c.step \in Exchanges
    PROVE  /\ Unsent(c).step \in {"next", "returned", "close"}
           /\ Unsent(c).step = "next" => Unsent(c).index = 0 /\ Unsent(c).at = 0
<1>1. CASE c.step = "mkdir"
  BY <1>1 DEF Unsent, CallRecords
<1>2. CASE c.step = "open"
  BY <1>2 DEF Unsent, DoneWith, CallRecords
<1>3. CASE c.step \in {"write", "read"}
  BY <1>3 DEF Unsent, CallRecords
<1>4. CASE c.step = "close"
  BY <1>4 DEF Unsent, DoneWith, CallRecords
<1>5. CASE c.step = "single"
  BY <1>5 DEF Unsent, CallRecords
<1> QED BY <1>1, <1>2, <1>3, <1>4, <1>5 DEF Exchanges

\* A call that goes on as it is, its file and position too, is still right.
LEMMA CopyStays ==
    ASSUME NEW u \in Threads, CopyOf(u),
           call'[u].step = call[u].step, call'[u].op = call[u].op,
           call'[u].files = call[u].files, call'[u].path = call[u].path,
           call'[u].handle = call[u].handle, call'[u].index = call[u].index,
           call'[u].local = call[u].local, call'[u].at = call[u].at,
           call'[u].sure = call[u].sure,
           PacketReplied(u)' <=> PacketReplied(u),
           PacketReplied(u) => Head(link'.in) = Head(link.in),
           FileOf(u)' = FileOf(u),
           link'.up => link.up,
           call[u].step \in {"write", "read"} /\ link'.up =>
              device'.at[call[u].handle] = device.at[call[u].handle]
    PROVE  CopyOf(u)'
<1>1. /\ Length(call[u])' = Length(call[u])
      /\ Units(u)' = Units(u) /\ Position(u)' = Position(u)
  BY DEF Length, Units, Position, Covered
<1>2. (Good(u)' <=> Good(u)) /\ (UsesHandle(u)' <=> UsesHandle(u))
  BY DEF Good, UsesHandle
<1>3. Sent(u) => Sent(u)'
  BY <1>1 DEF Sent
<1>4. Fetched(u) => Fetched(u)'
  BY <1>1 DEF Fetched, Covered
<1> QED BY <1>1, <1>2, <1>3, <1>4 DEF CopyOf, UsesHandle

-----------------------------------------------------------------------------
(* What each step does to the copies.                                      *)

LEMMA InitCopy == Init => CopyInv
<1> SUFFICES ASSUME Init PROVE CopyInv
  OBVIOUS
<1>1. \A h \in Handles : device.at[h] = 0
  BY DEF Init
<1>2. \A t \in Threads : call[t] = NoCall
  BY DEF Init
<1>3. InOrder(NoCall)
  BY DEF InOrder, NoCall
<1>4. \A t \in Threads : call[t].step = "none" /\ ~call[t].asking
  BY <1>2 DEF NoCall
<1>5. \A t \in Threads : StartsAtZero(t) /\ CopyOf(t)
  BY <1>4 DEF StartsAtZero, OpenReplied, Replied, CopyOf, UsesHandle
<1> QED BY <1>1, <1>2, <1>3, <1>5 DEF CopyInv

LEMMA OneCall ==
    ASSUME TypeInv, CopyInv, NEW t \in Threads, NEW c, InOrder(c),
           call' = [call EXCEPT ![t] = c]
    PROVE  /\ call'[t] = c /\ \A u \in Threads : u # t => call'[u] = call[u]
           /\ \A u \in Threads : InOrder(call'[u])
<1>1. call'[t] = c /\ \A u \in Threads : u # t => call'[u] = call[u]
  BY DEF TypeInv
<1> QED BY <1>1 DEF CopyInv

\* A call that asks nothing goes on without a file.
LEMMA CopiesAside ==
    ASSUME TypeInv, CopyInv, NEW t \in Threads, NEW c, InOrder(c),
           ~c.asking, c.step \notin {"write", "read", "close"},
           call' = [call EXCEPT ![t] = c], UNCHANGED <<ssl, link, device>>
    PROVE  CopyInv'
<1>1. /\ call'[t] = c /\ \A u \in Threads : u # t => call'[u] = call[u]
      /\ \A u \in Threads : InOrder(call'[u])
  BY OneCall
<1>2. /\ Open' = Open /\ (Trusted' <=> Trusted) /\ device' = device /\ link' = link
  BY DEF Open, Trusted
<1>3. StartsAtZero(t)' /\ CopyOf(t)'
  BY <1>1 DEF StartsAtZero, OpenReplied, Replied, CopyOf, UsesHandle
<1>4. ASSUME NEW u \in Threads, u # t, StartsAtZero(u), CopyOf(u)
      PROVE  StartsAtZero(u)' /\ CopyOf(u)'
  <2>1. call'[u] = call[u]
    BY <1>1, <1>4
  <2>2. (Replied(u)' <=> Replied(u)) /\ (PacketReplied(u)' <=> PacketReplied(u))
    BY <1>2, <2>1 DEF Replied, PacketReplied
  <2>3. StartsAtZero(u)'
    BY <1>2, <1>4, <2>1, <2>2 DEF StartsAtZero, OpenReplied
  <2>4. FileOf(u)' = FileOf(u)
    BY <1>2, <2>1 DEF FileOf
  <2> QED BY <1>2, <1>4, <2>1, <2>2, <2>3, <2>4, CopyStays
<1> QED BY <1>1, <1>2, <1>3, <1>4 DEF CopyInv

LEMMA BeginCopy ==
    ASSUME TypeInv, CopyInv, NEW t \in Threads, Begin(t)
    PROVE  CopyInv'
<1>1. PICK w \in Works[t] :
        call' = [call EXCEPT ![t] =
              [NoCall EXCEPT !.op = w.op, !.files = w.files,
                             !.step = CASE w.op = "Tree" -> "mkdir"
                                        [] w.op \in {"File", "Fetch"} -> "next"
                                        [] OTHER -> "single"]]
  BY DEF Begin
<1> DEFINE s == CASE w.op = "Tree" -> "mkdir"
                  [] w.op \in {"File", "Fetch"} -> "next"
                  [] OTHER -> "single"
           c == [NoCall EXCEPT !.op = w.op, !.files = w.files, !.step = s]
<1>2. s \in {"mkdir", "next", "single"}
  OBVIOUS
<1>3. call' = [call EXCEPT ![t] = c] /\ UNCHANGED <<ssl, link, device>>
  BY <1>1 DEF Begin
<1> HIDE DEF s
<1>4. c.step = s /\ ~c.asking /\ c.index = 0 /\ c.at = 0
  BY DEF NoCall
<1> HIDE DEF c
<1>5. InOrder(c)
  BY <1>2, <1>4 DEF InOrder
<1> QED BY <1>2, <1>3, <1>4, <1>5, CopiesAside

LEMMA NextFileCopy ==
    ASSUME Inv, TypeInv, CopyInv, NEW t \in Threads, NextFile(t)
    PROVE  CopyInv'
<1> DEFINE c == call[t]
           l == IF c.op = "Fetch" THEN HostFile(Length(c)) ELSE <<>>
           d == IF c.files = <<>> THEN [c EXCEPT !.step = "returned"]
                ELSE IF Length(c) = Missing THEN DoneWith(c, TRUE)
                ELSE [c EXCEPT !.step = "open", !.failed = FALSE, !.sure = TRUE,
                               !.local = l]
<1>1. c \in CallRecords /\ c.index = 0 /\ c.at = 0 /\ c.step = "next"
  BY DEF TypeInv, CopyInv, InOrder, NextFile
<1>2. ~c.asking
  BY DEF Inv, InvAndLine, IInv, AskingIsAtFront, NextFile, Exchanges
<1>3. call' = [call EXCEPT ![t] = d] /\ UNCHANGED <<ssl, link, device>>
  BY DEF NextFile
<1>4. CASE c.files = <<>>
  <2> DEFINE e == [c EXCEPT !.step = "returned"]
  <2>1. e.step = "returned" /\ ~e.asking
    BY <1>1, <1>2 DEF CallRecords
  <2>2. d = e
    BY <1>4
  <2> HIDE DEF e, d, c
  <2>3. InOrder(e)
    BY <2>1 DEF InOrder
  <2> QED BY <1>3, <2>1, <2>2, <2>3, CopiesAside
<1>5. CASE c.files # <<>> /\ Length(c) = Missing
  <2> DEFINE e == DoneWith(c, TRUE)
  <2>1. InOrder(e) /\ e.step = "next"
    BY <1>1, DoneWithInOrder
  <2>2. ~e.asking
    BY <1>1, <1>2 DEF DoneWith, CallRecords
  <2>3. d = e
    BY <1>5
  <2> HIDE DEF e, d, c
  <2> QED BY <1>3, <2>1, <2>2, <2>3, CopiesAside
<1>6. CASE c.files # <<>> /\ Length(c) # Missing
  <2> DEFINE e == [c EXCEPT !.step = "open", !.failed = FALSE, !.sure = TRUE, !.local = l]
  <2>1. d = e
    BY <1>6
  <2> HIDE DEF l
  <2>2. /\ e.step = "open" /\ ~e.asking /\ e.index = 0 /\ e.at = 0 /\ e.local = l
        /\ e.files = c.files /\ e.op = c.op
    BY <1>1, <1>2 DEF CallRecords
  <2> HIDE DEF e, d
  <2>3. InOrder(e)
    BY <2>2 DEF InOrder, Length, l
  <2> HIDE DEF c
  <2> QED BY <1>3, <2>1, <2>2, <2>3, CopiesAside
<1> QED BY <1>4, <1>5, <1>6

\* The calls, the connection's answers and the conduit stay.
LEMMA CopiesStay ==
    ASSUME CopyInv, UNCHANGED <<ssl, call, device>>, link'.in = link.in,
           link'.up => link.up, Trusted' => Trusted
    PROVE  CopyInv'
<1>1. Open' = Open
  BY DEF Open
<1>2. ASSUME NEW u \in Threads, StartsAtZero(u), CopyOf(u)
      PROVE  StartsAtZero(u)' /\ CopyOf(u)'
  <2>1. (Replied(u)' <=> Replied(u)) /\ (PacketReplied(u)' <=> PacketReplied(u))
    BY DEF Replied, PacketReplied
  <2>2. StartsAtZero(u)'
    BY <1>2, <2>1 DEF StartsAtZero, OpenReplied
  <2>3. FileOf(u)' = FileOf(u)
    BY DEF FileOf
  <2> QED BY <1>2, <2>1, <2>2, <2>3, CopyStays
<1> QED BY <1>1, <1>2 DEF CopyInv, InOrder, Packets, Length

LEMMA SubmitCopy ==
    ASSUME CopyInv, NEW t \in Threads, Submit(t)
    PROVE  CopyInv'
<1>1. Trusted' => Trusted
  BY DEF Submit, Trusted
<1> QED BY <1>1, CopiesStay DEF Submit

\* When nothing on its way is believed any more
LEMMA CopiesLost ==
    ASSUME CopyInv, UNCHANGED <<call, device>>, ~Trusted'
    PROVE  CopyInv'
BY DEF CopyInv, InOrder, Packets, Length, Open

LEMMA StopReadingCopy ==
    ASSUME Inv, CopyInv, StopReading
    PROVE  CopyInv'
<1>1. /\ UNCHANGED <<ssl, call, device>> /\ DOMAIN link = LinkFields
      /\ link' = [link EXCEPT !.full = TRUE]
  BY DEF StopReading, Inv, InvAndLine, IInv, Shapes
<1>2. /\ link'.in = link.in /\ link'.up = link.up
      /\ link'.torn = link.torn /\ link'.waited = link.waited
  BY <1>1 DEF LinkFields
<1>3. Trusted' => Trusted
  BY <1>1, <1>2 DEF Trusted
<1> QED BY <1>1, <1>2, <1>3, CopiesStay

LEMMA SendCopy ==
    ASSUME Inv, TypeInv, CopyInv, NEW t \in Threads, Send(t)
    PROVE  CopyInv'
<1>1. /\ AtFront(t) /\ ~call[t].asking /\ UNCHANGED <<ssl, queue, device>>
      /\ call[t] \in CallRecords /\ link \in LinkRecords
  BY DEF Send, TypeInv
<1> DEFINE d == [call[t] EXCEPT !.asking = TRUE]
<1>2. /\ d.step = call[t].step /\ d.op = call[t].op
      /\ d.files = call[t].files /\ d.path = call[t].path
      /\ d.handle = call[t].handle /\ d.index = call[t].index
      /\ d.local = call[t].local /\ d.at = call[t].at
      /\ d.sure = call[t].sure
  BY <1>1 DEF CallRecords
<1>3. call' = [call EXCEPT ![t] = d]
  BY DEF Send
<1> HIDE DEF d
<1>4. InOrder(d)
  BY <1>2 DEF CopyInv, InOrder, Packets, Length
<1>5. /\ call'[t] = d /\ \A u \in Threads : u # t => call'[u] = call[u]
      /\ \A u \in Threads : InOrder(call'[u])
  BY <1>3, <1>4, OneCall
<1>6. link'.in = link.in /\ link'.up = link.up /\ link'.waited = link.waited
      /\ link'.torn = link.torn
  BY <1>1 DEF Send, LinkRecords
<1>7. Open' = Open /\ (Trusted' <=> Trusted)
  BY <1>1, <1>6 DEF Open, Trusted
<1>8. Trusted => link.in = <<>>
  BY <1>1, NothingOnItsWay DEF Inv, InvAndLine
<1>9. ASSUME Trusted, NEW u \in Threads, StartsAtZero(u), CopyOf(u)
      PROVE  StartsAtZero(u)' /\ CopyOf(u)'
  <2>1. ~Replied(u) /\ ~Replied(u)'
    BY <1>6, <1>8, <1>9 DEF Replied
  <2>2. StartsAtZero(u)' /\ ~PacketReplied(u) /\ ~PacketReplied(u)'
    BY <2>1 DEF StartsAtZero, OpenReplied, PacketReplied
  <2>3. /\ call'[u].step = call[u].step /\ call'[u].op = call[u].op
        /\ call'[u].files = call[u].files /\ call'[u].path = call[u].path
        /\ call'[u].handle = call[u].handle /\ call'[u].index = call[u].index
        /\ call'[u].local = call[u].local /\ call'[u].at = call[u].at
        /\ call'[u].sure = call[u].sure
    BY <1>2, <1>5
  <2>4. FileOf(u)' = FileOf(u)
    BY <1>1, <2>3 DEF FileOf
  <2> QED BY <1>1, <1>6, <1>9, <2>2, <2>3, <2>4, CopyStays
<1> QED BY <1>1, <1>5, <1>7, <1>9 DEF CopyInv

\* Those who do not ask are not touched by what another receives.
LEMMA OthersStay ==
    ASSUME CopyInv, NEW u \in Threads, ~call[u].asking, call'[u] = call[u],
           UNCHANGED device, link'.up = link.up, CopyOf(u)
    PROVE  StartsAtZero(u)' /\ CopyOf(u)'
<1>1. ~Replied(u) /\ ~Replied(u)'
  BY DEF Replied
<1>2. StartsAtZero(u)' /\ ~PacketReplied(u) /\ ~PacketReplied(u)'
  BY <1>1 DEF StartsAtZero, OpenReplied, PacketReplied
<1>3. FileOf(u)' = FileOf(u)
  BY DEF FileOf
<1> QED BY <1>2, <1>3, CopyStays

LEMMA SendFailsCopy ==
    ASSUME Inv, TypeInv, CopyInv, NEW t \in Threads, SendFails(t),
           call[t].step \in Exchanges
    PROVE  CopyInv'
<1> DEFINE c == Unsent(call[t])
           d == [c EXCEPT !.sure = FALSE]
<1>1. /\ AtFront(t) /\ ~call[t].asking /\ UNCHANGED <<ssl, link, device>>
      /\ call[t] \in CallRecords /\ InOrder(call[t]) /\ Standing(call[t])
  BY DEF SendFails, TypeInv, CopyInv
<1>2. /\ c.step \in {"next", "returned", "close"}
      /\ c.step = "next" => c.index = 0 /\ c.at = 0
  BY <1>1, UnsentInOrder
<1>3. c \in CallRecords
  BY <1>1, UnsentType
<1>4. c.asking = call[t].asking
  <2>1. DOMAIN call[t] = Fields
    BY DEF Inv, InvAndLine, IInv, Shapes
  <2> QED BY <2>1, UnsentShape
<1>5. call' = [call EXCEPT ![t] = d]
  BY DEF SendFails
<1> HIDE DEF c
<1>6. d.step = c.step /\ d.index = c.index /\ d.at = c.at /\ ~d.asking /\ d.sure = FALSE
  BY <1>1, <1>3, <1>4 DEF CallRecords
<1> HIDE DEF d
<1>7. InOrder(d)
  BY <1>2, <1>6 DEF InOrder
<1>8. /\ call'[t] = d /\ \A u \in Threads : u # t => call'[u] = call[u]
      /\ \A u \in Threads : InOrder(call'[u])
  BY <1>5, <1>7, OneCall
<1>9. Open' = Open /\ (Trusted' <=> Trusted)
  BY <1>1 DEF Open, Trusted
<1>10. StartsAtZero(t)' /\ CopyOf(t)'
  BY <1>6, <1>8 DEF StartsAtZero, OpenReplied, Replied, CopyOf, Good
<1>11. ASSUME NEW u \in Threads, u # t, CopyOf(u)
       PROVE  StartsAtZero(u)' /\ CopyOf(u)'
  <2>1. ~call[u].asking
    BY <1>1, <1>11, OneAsks DEF Inv, InvAndLine
  <2> QED BY <1>1, <1>8, <1>11, <2>1, OthersStay
<1> QED BY <1>1, <1>8, <1>9, <1>10, <1>11 DEF CopyInv

LEMMA HangUpCopy ==
    ASSUME TypeInv, CopyInv, HangUp
    PROVE  CopyInv'
<1> DEFINE f == [h \in Handles |-> NoFile]
           a == [h \in Handles |-> 0]
<1>1. /\ UNCHANGED <<ssl, call>> /\ device \in DeviceRecords /\ link \in LinkRecords
      /\ link' = [link EXCEPT !.up = FALSE, !.todo = <<>>]
      /\ device' = [device EXCEPT !.file = f, !.at = a]
  BY DEF HangUp, TypeInv
<1>2. link'.in = link.in /\ ~link'.up /\ link'.waited = link.waited
      /\ link'.torn = link.torn
  BY <1>1 DEF LinkRecords
<1>3. /\ device'.at = a /\ device'.files = device.files /\ device'.misled = device.misled
  BY <1>1 DEF DeviceRecords
<1>4. Trusted' <=> Trusted
  BY <1>1, <1>2 DEF Trusted
<1>5. ASSUME NEW u \in Threads, StartsAtZero(u), CopyOf(u)
      PROVE  StartsAtZero(u)' /\ CopyOf(u)'
  <2>1. (Replied(u)' <=> Replied(u)) /\ (PacketReplied(u)' <=> PacketReplied(u))
    BY <1>1, <1>2 DEF Replied, PacketReplied
  <2>2. StartsAtZero(u)'
    BY <1>2 DEF StartsAtZero
  <2>3. FileOf(u)' = FileOf(u)
    BY <1>1, <1>3 DEF FileOf
  <2> QED BY <1>1, <1>2, <1>5, <2>1, <2>2, <2>3, CopyStays
<1>6. \A u \in Threads : InOrder(call'[u])
  BY <1>1 DEF CopyInv
<1>7. \A h \in Handles : device'.at[h] = 0
  BY <1>3
<1> QED BY <1>3, <1>4, <1>5, <1>6, <1>7 DEF CopyInv

\* What a call makes of an answer: it is at the file's first packet, at the next
\* one, or done with the file.
LEMMA SucceededCopy ==
    ASSUME NEW c \in CallRecords, c.step \in Exchanges, NEW body \in Bodies
    PROVE  LET d == Succeeded(c, body) IN
           /\ d.sure = c.sure
           /\ c.step \in {"open", "write", "read"} =>
                 /\ d.files = c.files /\ d.op = c.op /\ d.path = c.path
                 /\ d.index = IF c.step = "open" THEN c.index ELSE c.index + 1
                 /\ d.handle = IF c.step = "open" THEN body.word ELSE c.handle
                 /\ d.local = IF c.step = "read" THEN Overwrite(c.local, c.at, body.data)
                              ELSE c.local
                 /\ d.at = IF c.step = "read" THEN c.at + Len(body.data) ELSE c.at
<1>1. CASE c.step = "open"
  <2> DEFINE d == [c EXCEPT !.handle = body.word]
  <2>1. /\ d \in CallRecords
        /\ d.sure = c.sure /\ d.files = c.files /\ d.op = c.op /\ d.path = c.path
        /\ d.index = c.index /\ d.handle = body.word /\ d.local = c.local /\ d.at = c.at
    BY DEF CallRecords, Bodies
  <2>2. Succeeded(c, body) = Loop(d)
    BY <1>1 DEF Succeeded
  <2> HIDE DEF d
  <2> QED BY <1>1, <2>1, <2>2, LoopInOrder
<1>2. CASE c.step = "write"
  <2> DEFINE i == c.index + 1
             d == [c EXCEPT !.index = i]
  <2>1. i \in Nat
    BY DEF CallRecords
  <2>2. Succeeded(c, body) = Loop(d)
    BY <1>2 DEF Succeeded, CallRecords
  <2> HIDE DEF i
  <2>3. /\ d \in CallRecords
        /\ d.sure = c.sure /\ d.files = c.files /\ d.op = c.op /\ d.path = c.path
        /\ d.index = i /\ d.handle = c.handle /\ d.local = c.local /\ d.at = c.at
    BY <2>1 DEF CallRecords
  <2> HIDE DEF d
  <2> QED BY <1>2, <2>2, <2>3, LoopInOrder DEF i
<1>3. CASE c.step = "read"
  <2> DEFINE l == Overwrite(c.local, c.at, body.data)
             n == c.at + Len(body.data)
             i == c.index + 1
             d == [c EXCEPT !.index = i, !.local = l, !.at = n]
  <2>1. l \in Seq(Int) /\ n \in Nat /\ i \in Nat
    BY OverwriteType DEF CallRecords, Bodies
  <2>2. Succeeded(c, body) = Loop(d)
    BY <1>3 DEF Succeeded, CallRecords
  <2> HIDE DEF l, n, i
  <2>3. /\ d \in CallRecords
        /\ d.sure = c.sure /\ d.files = c.files /\ d.op = c.op /\ d.path = c.path
        /\ d.index = i /\ d.handle = c.handle /\ d.local = l /\ d.at = n
    BY <2>1 DEF CallRecords
  <2> HIDE DEF d
  <2> QED BY <1>3, <2>2, <2>3, LoopInOrder DEF l, n, i
<1>4. CASE c.step \in {"mkdir", "close", "single"}
  BY <1>4 DEF Succeeded, DoneWith, CallRecords
<1> QED BY <1>1, <1>2, <1>3, <1>4 DEF Exchanges

\* What Completes leaves to be shown: that the call at the front is still right.
LEMMA CompletesCopy ==
    ASSUME Inv, TypeInv, CopyInv, NEW t \in Threads, AtFront(t), call[t].asking,
           NEW granted \in BOOLEAN, NEW body \in Bodies, Completes(t, granted, body),
           UNCHANGED <<ssl, device>>, link'.up = link.up, Trusted' => Trusted,
           Trusted /\ ~device.misled /\ StartsAtZero(t) /\ CopyOf(t) => CopyOf(t)'
    PROVE  CopyInv'
<1> DEFINE b == call[t].sure /\ granted
           c == [call[t] EXCEPT !.sure = b, !.asking = FALSE]
           d == Succeeded(c, body)
<1>1. /\ call[t] \in CallRecords /\ b \in BOOLEAN
      /\ InOrder(call[t]) /\ call[t].step \in Exchanges
  BY FrontIsInLine DEF TypeInv, CallRecords, CopyInv, Inv, InvAndLine
<1>2. call' = [call EXCEPT ![t] = d]
  BY <1>1 DEF Completes, CallRecords
<1>3. c.sure => call[t].sure
  BY <1>1 DEF CallRecords
<1> HIDE DEF b
<1>4. /\ c \in CallRecords /\ c.step = call[t].step /\ c.files = call[t].files
      /\ c.index = call[t].index /\ c.op = call[t].op /\ c.at = call[t].at
      /\ c.local = call[t].local
  BY <1>1 DEF CallRecords
<1> HIDE DEF c
<1>5. InOrder(c)
  BY <1>1, <1>3, <1>4 DEF InOrder, Length, Packets
<1>6. InOrder(d)
  BY <1>1, <1>4, <1>5, SucceededInOrder
<1> HIDE DEF d
<1>7. /\ call'[t] = d /\ \A u \in Threads : u # t => call'[u] = call[u]
      /\ \A u \in Threads : InOrder(call'[u])
  BY <1>2, <1>6, OneCall
<1>8. ~call'[t].asking
  BY CompletesCalls
<1>9. StartsAtZero(t)'
  BY <1>8 DEF StartsAtZero, OpenReplied, Replied
<1>10. ASSUME NEW u \in Threads, u # t, CopyOf(u)
       PROVE  StartsAtZero(u)' /\ CopyOf(u)'
  <2>1. ~call[u].asking
    BY <1>10, OneAsks DEF Inv, InvAndLine
  <2> QED BY <1>7, <1>10, <2>1, OthersStay
<1>11. Open' = Open
  BY DEF Open
<1> QED BY <1>7, <1>9, <1>10, <1>11 DEF CopyInv

\* What Completes makes of the call.
LEMMA CompletesCall ==
    ASSUME Inv, TypeInv, NEW t \in Threads, AtFront(t), call[t].asking,
           NEW granted \in BOOLEAN, NEW body \in Bodies, Completes(t, granted, body),
           UNCHANGED device
    PROVE  LET c == call[t] IN
           /\ ~call'[t].asking
           /\ call'[t].sure => c.sure /\ granted
           /\ UsesHandle(t)' => c.step \in {"open", "write", "read"}
           /\ c.step \in {"open", "write", "read"} =>
                 /\ call'[t].files = c.files /\ call'[t].op = c.op /\ call'[t].path = c.path
                 /\ call'[t].index = IF c.step = "open" THEN c.index ELSE c.index + 1
                 /\ call'[t].handle = IF c.step = "open" THEN body.word ELSE c.handle
                 /\ call'[t].local = IF c.step = "read" THEN Overwrite(c.local, c.at, body.data)
                                     ELSE c.local
                 /\ call'[t].at = IF c.step = "read" THEN c.at + Len(body.data) ELSE c.at
<1> DEFINE b == call[t].sure /\ granted
           c == [call[t] EXCEPT !.sure = b, !.asking = FALSE]
           d == Succeeded(c, body)
<1>1. call[t] \in CallRecords /\ b \in BOOLEAN /\ call[t].step \in Exchanges
  BY FrontIsInLine DEF TypeInv, CallRecords, Inv, InvAndLine
<1>2. call' = [call EXCEPT ![t] = d]
  BY <1>1 DEF Completes, CallRecords
<1>3. call'[t] = d
  BY <1>2 DEF TypeInv
<1>4. ~call'[t].asking /\ (UsesHandle(t)' => call[t].step \in {"open", "write", "read"})
  BY CompletesCalls
<1>5. /\ c \in CallRecords /\ c.step = call[t].step /\ c.files = call[t].files
      /\ c.index = call[t].index /\ c.op = call[t].op /\ c.at = call[t].at
      /\ c.local = call[t].local /\ c.path = call[t].path /\ c.handle = call[t].handle
      /\ c.sure = b
  BY <1>1 DEF CallRecords
<1> HIDE DEF c
<1>6. /\ d.sure = c.sure
      /\ c.step \in {"open", "write", "read"} =>
            /\ d.files = c.files /\ d.op = c.op /\ d.path = c.path
            /\ d.index = IF c.step = "open" THEN c.index ELSE c.index + 1
            /\ d.handle = IF c.step = "open" THEN body.word ELSE c.handle
            /\ d.local = IF c.step = "read" THEN Overwrite(c.local, c.at, body.data)
                         ELSE c.local
            /\ d.at = IF c.step = "read" THEN c.at + Len(body.data) ELSE c.at
  BY <1>1, <1>5, SucceededCopy
<1> HIDE DEF d
<1> QED BY <1>1, <1>3, <1>4, <1>5, <1>6

LEMMA VainCopy ==
    ASSUME Inv, TypeInv, CopyInv, NEW t \in Threads,
           ReceiveNothing(t) \/ ReceiveTorn(t) \/ ReceiveGarbage(t) \/ ReceiveOutside(t),
           \E body \in {Null, Zeros} : Completes(t, FALSE, body)
    PROVE  CopyInv'
<1>1. /\ AtFront(t) /\ call[t].asking /\ UNCHANGED <<ssl, device>>
      /\ \E body \in {Null, Zeros} : Completes(t, FALSE, body)
      /\ link \in LinkRecords
  BY DEF ReceiveNothing, ReceiveTorn, ReceiveGarbage, ReceiveOutside, TypeInv
<1>2. PICK body \in Bodies : Completes(t, FALSE, body)
  BY <1>1, BodyTypes
<1>3. link'.up = link.up /\ (Trusted' => Trusted)
  <2>1. DOMAIN link = LinkFields
    BY DEF Inv, InvAndLine, IInv, Shapes
  <2>2. CASE ReceiveNothing(t)
    BY <1>1, <2>2 DEF ReceiveNothing, LinkRecords, Trusted
  <2>3. CASE ReceiveTorn(t) \/ ReceiveGarbage(t) \/ ReceiveOutside(t)
    BY <2>1, <2>3, TornLink DEF ReceiveTorn, ReceiveGarbage, ReceiveOutside
  <2> QED BY <2>2, <2>3
<1>4. ~call'[t].sure
  BY <1>1, <1>2, CompletesCall
<1>5. CopyOf(t)'
  BY <1>4 DEF CopyOf, Good
<1> QED BY <1>1, <1>2, <1>3, <1>5, CompletesCopy

\* The process may end when bytes are stored outside a buffer
LEMMA OutsideCopy ==
    ASSUME Inv, TypeInv, CopyInv, NEW t \in Threads, ReceiveOutside(t) \/ ReceiveStalls(t)
    PROVE  CopyInv'
<1>1. /\ link' = Torn \/ link' = [Torn EXCEPT !.outside = TRUE]
      /\ DOMAIN link = LinkFields /\ UNCHANGED device
  BY DEF ReceiveOutside, ReceiveStalls, Inv, InvAndLine, IInv, Shapes
<1>2. ~Trusted'
  BY <1>1, TornLink
<1>3. CASE UNCHANGED call
  BY <1>1, <1>2, <1>3, CopiesLost
<1>4. CASE ReceiveOutside(t) /\ \E body \in {Null, Zeros} : Completes(t, FALSE, body)
  BY <1>4, VainCopy
<1> QED BY <1>3, <1>4 DEF ReceiveOutside, ReceiveStalls

LEMMA ReceiveCopy ==
    ASSUME Inv, TypeInv, CopyInv, NEW t \in Threads, Receive(t)
    PROVE  CopyInv'
<1> DEFINE granted == Head(link.in).granted
           body == Head(link.in).body
           c == call[t]
           e == call'[t]
<1>1. /\ AtFront(t) /\ call[t].asking /\ link.in # <<>> /\ UNCHANGED <<ssl, device>>
      /\ Completes(t, granted, body)
      /\ link' = [link EXCEPT !.in = Tail(@)]
      /\ link \in LinkRecords
  BY DEF Receive, TypeInv
<1>2. granted \in BOOLEAN /\ body \in Bodies
  <2>1. Head(link.in) \in Answers
    BY <1>1 DEF LinkRecords
  <2> QED BY <2>1 DEF Answers
<1>3. link'.up = link.up /\ link'.waited = link.waited /\ link'.torn = link.torn
  BY <1>1 DEF LinkRecords
<1>4. Trusted' <=> Trusted
  BY <1>1, <1>3 DEF Trusted
<1>5. /\ ~e.asking /\ (e.sure => c.sure /\ granted)
      /\ UsesHandle(t)' => c.step \in {"open", "write", "read"}
      /\ c.step \in {"open", "write", "read"} =>
            /\ e.files = c.files /\ e.op = c.op /\ e.path = c.path
            /\ e.index = IF c.step = "open" THEN c.index ELSE c.index + 1
            /\ e.handle = IF c.step = "open" THEN body.word ELSE c.handle
            /\ e.local = IF c.step = "read" THEN Overwrite(c.local, c.at, body.data)
                         ELSE c.local
            /\ e.at = IF c.step = "read" THEN c.at + Len(body.data) ELSE c.at
  BY <1>1, <1>2, CompletesCall
<1>6. /\ c \in CallRecords /\ Standing(c) /\ InOrder(c)
      /\ c.index \in Nat /\ c.at \in Nat /\ c.local \in Seq(Int)
  BY DEF TypeInv, CopyInv, CallRecords
<1>7. Replied(t) /\ ~Replied(t)' /\ ~PacketReplied(t)'
  BY <1>1, <1>5 DEF Replied, PacketReplied
<1>8. ASSUME StartsAtZero(t), CopyOf(t), UsesHandle(t)', Good(t)',
             Length(call[t])' <= OffsetLimit
      PROVE  /\ e.op # "Fetch" => Sent(t)'
             /\ e.op = "Fetch" => Fetched(t)'
             /\ link'.up /\ e.step # "close" => device'.at[e.handle] = Position(t)'
  <2>1. /\ e.sure /\ c.sure /\ granted /\ c.step \in {"open", "write", "read"}
        /\ e.files = c.files /\ e.op = c.op /\ e.path = c.path
    BY <1>5, <1>8 DEF Good
  <2>2. Length(e) = Length(c) /\ Length(c) <= OffsetLimit /\ Length(c) \in Nat
    BY <1>6, <1>8, <2>1 DEF Length, Standing, WithFile
  <2>3. c.path \in 1..Width
    BY <1>6, <2>1, PathInRange DEF Exchanges
  <2>4. FileOf(t)' = FileOf(t) /\ FileOf(t) \in Seq(Int) /\ Len(FileOf(t)) \in Nat
    BY <1>1, <2>1, <2>3 DEF FileOf, TypeInv, DeviceRecords, Paths
  <2>5. Units(t)' = Covered(Length(c), e.index)
    BY <1>7, <2>2 DEF Units
  <2>6. CASE c.step = "open"
    <3>1. c.op = "Fetch" => e.local = HostFile(Length(c))
      BY <1>5, <1>6, <2>6 DEF InOrder
    <3>2. e.index = 0 /\ e.at = 0
      BY <1>5, <1>6, <2>6 DEF InOrder
    <3>3. Units(t)' = 0 /\ Covered(Length(c), 0) = 0
      BY <1>6, <2>2, <2>5, <3>2, CoveredEnds
    <3>4. Position(t)' = 0
      BY <2>4, <3>3 DEF Position, Smaller
    <3>5. Sent(t)'
      BY <2>4, <3>3 DEF Sent
    <3>6. c.op = "Fetch" => Fetched(t)'
      <4>1. ASSUME c.op = "Fetch" PROVE Len(e.local) = Length(c)
        BY <2>2, <3>1, <3>2, <4>1, HostFileType
      <4>2. Smaller(Covered(Length(c), e.index), Len(FileOf(t)')) = 0
        BY <2>4, <3>2, <3>3 DEF Smaller
      <4> QED BY <1>7, <2>2, <3>2, <4>1, <4>2 DEF Fetched
    <3>7. link'.up => device'.at[e.handle] = 0
      BY <1>1, <1>3, <1>5, <1>7, <1>8, <2>6 DEF StartsAtZero, OpenReplied
    <3> QED BY <2>1, <3>4, <3>5, <3>6, <3>7
  <2>7. CASE c.step \in {"write", "read"}
    <3>1. PacketReplied(t) /\ Good(t) /\ UsesHandle(t)
      BY <1>7, <2>1, <2>7 DEF PacketReplied, Good, UsesHandle
    <3>2. /\ c.op # "Fetch" => Sent(t)
          /\ c.op = "Fetch" => Fetched(t)
          /\ link.up => device.at[c.handle] = Position(t)
      BY <1>8, <2>2, <2>7, <3>1 DEF CopyOf
    <3>3. e.index = c.index + 1 /\ e.handle = c.handle
      BY <1>5, <2>7
    <3>4. Units(t)' = Units(t) /\ Units(t) = Covered(Length(c), c.index + 1)
      BY <2>5, <3>1, <3>3 DEF Units
    <3>5. Position(t)' = Position(t)
      BY <2>4, <3>4 DEF Position
    <3>6. Sent(t) => Sent(t)'
      BY <2>4, <3>4 DEF Sent
    <3>7. link'.up => device'.at[e.handle] = Position(t)'
      BY <1>1, <1>3, <3>2, <3>3, <3>5
    <3>8. ASSUME c.op = "Fetch" PROVE Fetched(t)'
      <4>1. c.step = "read"
        BY <1>6, <2>7, <3>8 DEF InOrder
      <4> DEFINE data == body.data
                 file == FileOf(t)
                 L == Length(c)
      <4>2. /\ e.local = Overwrite(c.local, c.at, data) /\ e.at = c.at + Len(data)
            /\ data \in Seq(Int) /\ Len(data) \in Nat
        BY <1>2, <1>5, <4>1 DEF Bodies
      <4>3. /\ Len(c.local) = L /\ \A i \in 1..c.at : c.local[i] = file[i]
            /\ c.at = Smaller(Covered(L, c.index), Len(file))
            /\ c.at + Len(data) = Position(t)
            /\ \A j \in 1..Len(data) : data[j] = file[c.at + j]
        BY <3>1, <3>2, <3>8 DEF Fetched
      <4>4. Covered(L, c.index) \in Nat /\ Covered(L, c.index) <= L
            /\ Units(t) \in Nat /\ Units(t) <= L
        BY <1>6, <2>2, <3>4, CoveredType
      <4>5. c.at <= L /\ Position(t) \in Nat /\ Position(t) <= L
        BY <2>4, <4>3, <4>4 DEF Position, Smaller
      <4> HIDE DEF data, file, L
      <4>6. /\ Len(e.local) = Greater(L, Position(t))
            /\ \A i \in 1..c.at : e.local[i] = c.local[i]
            /\ \A j \in 1..Len(data) : e.local[c.at + j] = data[j]
        <5> DEFINE l == c.local
                   a == c.at
        <5>1. l \in Seq(Int) /\ a \in Nat /\ data \in Seq(Int) /\ a <= Len(l)
          BY <1>6, <4>2, <4>3, <4>5
        <5>2. e.local = Overwrite(l, a, data) /\ a + Len(data) = Position(t) /\ Len(l) = L
          BY <4>2, <4>3
        <5> HIDE DEF l, a, c, e
        <5>3. /\ Len(Overwrite(l, a, data)) = Greater(Len(l), a + Len(data))
              /\ \A i \in 1..a : Overwrite(l, a, data)[i] = l[i]
              /\ \A j \in 1..Len(data) : Overwrite(l, a, data)[a + j] = data[j]
          BY <5>1, OverwriteGoesOn
        <5> QED BY <5>2, <5>3 DEF l, a
      <4>7. Len(e.local) = L
        <5>1. L \in Nat
          BY <2>2 DEF L
        <5> QED BY <4>5, <4>6, <5>1 DEF Greater
      <4>8. ASSUME NEW i \in 1..e.at PROVE e.local[i] = file[i]
        <5>1. CASE i \in 1..c.at
          BY <4>3, <4>6, <5>1
        <5>2. CASE i \notin 1..c.at
          <6>1. i - c.at \in 1..Len(data) /\ c.at + (i - c.at) = i
            BY <1>6, <4>2, <4>8, <5>2
          <6> QED BY <4>3, <4>6, <6>1
        <5> QED BY <5>1, <5>2
      <4>9. e.at = Smaller(Covered(L, e.index), Len(file))
        BY <3>3, <3>4, <4>2, <4>3 DEF Position, L, file
      <4> QED BY <1>7, <2>2, <2>4, <4>7, <4>8, <4>9 DEF Fetched, L, file
    <3> QED BY <2>1, <3>2, <3>6, <3>7, <3>8
  <2> QED BY <2>1, <2>6, <2>7
<1>9. StartsAtZero(t) /\ CopyOf(t) => CopyOf(t)'
  BY <1>8 DEF CopyOf
<1> QED BY <1>1, <1>2, <1>3, <1>4, <1>9, CompletesCopy

\* The answer of the conduit is the one on its way, and grants what Reply says.
LEMMA ServedAnswer ==
    ASSUME Inv, TypeInv, Clear, link.todo # <<>>, NEW granted, NEW body,
           Reply(Head(link.todo), granted, body), UNCHANGED <<ssl, queue, call>>
    PROVE  /\ \E t \in Threads : ServedFor(t, body)
           /\ Head(link'.in).granted = granted
<1>1. link.in = <<>> /\ link \in LinkRecords
  BY OneOnItsWay DEF Inv, InvAndLine, Clear, TypeInv
<1> DEFINE a == Answer(Head(link.todo).by, granted, body)
<1>2. link'.in = Append(link.in, a)
  BY <1>1 DEF Reply, LinkRecords
<1>3. a.granted = granted
  BY DEF Answer
<1> HIDE DEF a
<1>4. Head(link'.in) = a
  BY <1>1, <1>2, Single
<1> QED BY <1>3, <1>4, Served

\* A call that the conduit does not serve is right as long as its file and the
\* position of its handle stay.
LEMMA NotServed ==
    ASSUME NEW t, NEW body, ServedFor(t, body), NEW u \in Threads, CopyOf(u),
           u # t \/ call[u].step \notin {"write", "read"},
           FileOf(u)' = FileOf(u),
           call[u].step \in {"write", "read"} =>
              device'.at[call[u].handle] = device.at[call[u].handle]
    PROVE  CopyOf(u)'
<1>1. call'[u] = call[u] /\ link'.up = link.up
  BY DEF ServedFor
<1>2. ~PacketReplied(u) /\ ~PacketReplied(u)'
  BY <1>1 DEF ServedFor, PacketReplied, Replied
<1> QED BY <1>1, <1>2, CopyStays

LEMMA NotOpened ==
    ASSUME NEW t, NEW body, ServedFor(t, body), NEW u \in Threads,
           u # t \/ call[u].step # "open"
    PROVE  StartsAtZero(u)'
BY DEF ServedFor, StartsAtZero, OpenReplied, Replied

\* The handles of two calls are two.
LEMMA OwnHandle ==
    ASSUME Inv, TypeInv, Clear, NEW u \in Threads, ~Replied(u),
           call[u].step \in {"write", "read", "close"}
    PROVE  call[u].handle \in Open /\ device.file[call[u].handle] = <<u, call[u].path>>
BY DEF Inv, HandleInv, HandleOf, UsesHandle, CloseReplied, Owns

LEMMA ServeOpenCopy ==
    ASSUME Inv, TypeInv, CopyInv, Clear, link.todo # <<>>, ServeOpen(Head(link.todo)),
           UNCHANGED <<ssl, queue, call>>
    PROVE  CopyInv'
<1> DEFINE r == Head(link.todo)
<1>1. PICK g \in Handles \ Open :
         /\ device' = [device EXCEPT !.file[g] = <<r.by, r.path>>]
         /\ Reply(r, TRUE, Status(g))
  BY DEF ServeOpen
<1>2. PICK t \in Threads : ServedFor(t, Status(g))
  BY <1>1, ServedAnswer
<1>3. call[t].step = "open"
  BY <1>2, KindOfRequest DEF ServedFor, ServeOpen, Inv
<1>4. device \in DeviceRecords
  BY DEF TypeInv
<1>5. /\ device'.files = device.files /\ device'.at = device.at
      /\ \A h \in Handles : h # g => device'.file[h] = device.file[h]
  BY <1>1, <1>4 DEF DeviceRecords
<1>6. Open \subseteq Open'
  BY <1>1, <1>5 DEF Open
<1>7. \A h \in Handles \ Open' : device'.at[h] = 0
  BY <1>5, <1>6 DEF CopyInv
<1>8. Trusted /\ ~device.misled /\ UNCHANGED call
  BY DEF Clear
<1>9. ASSUME NEW u \in Threads PROVE StartsAtZero(u)' /\ CopyOf(u)'
  <2>1. CopyOf(u)
    BY <1>8 DEF CopyInv
  <2>2. FileOf(u)' = FileOf(u)
    BY <1>5, <1>8 DEF FileOf
  <2>3. CopyOf(u)'
    <3>1. u # t \/ call[u].step \notin {"write", "read"}
      BY <1>3
    <3>2. device'.at[call[u].handle] = device.at[call[u].handle]
      BY <1>5
    <3> QED BY <1>2, <2>1, <2>2, <3>1, <3>2, NotServed
  <2>4. CASE u = t
    <3>1. Head(link'.in).body.word = g /\ device'.at[g] = 0
      <4>1. device.at[g] = 0
        BY <1>1 DEF CopyInv
      <4> QED BY <1>2, <1>5, <4>1 DEF ServedFor, Status, Body
    <3> QED BY <2>3, <2>4, <3>1 DEF StartsAtZero
  <2>5. CASE u # t
    BY <1>2, <2>3, <2>5, NotOpened
  <2> QED BY <2>4, <2>5
<1> QED BY <1>7, <1>8, <1>9 DEF CopyInv

LEMMA ServeCloseCopy ==
    ASSUME Inv, TypeInv, CopyInv, Clear, link.todo # <<>>, ServeClose(Head(link.todo)),
           UNCHANGED <<ssl, queue, call>>
    PROVE  CopyInv'
<1> DEFINE r == Head(link.todo)
           g == r.handle
<1>1. /\ r.kind = "close" /\ g \in Open
      /\ device' = [device EXCEPT !.file[g] = NoFile, !.at[g] = 0]
      /\ Reply(r, TRUE, Zeros)
  BY DEF ServeClose
<1>2. PICK t \in Threads : ServedFor(t, Zeros)
  BY <1>1, ServedAnswer
<1>3. g = call[t].handle /\ call[t].step = "close"
  BY <1>1, <1>2, KindOfRequest DEF ServedFor, Inv
<1>4. device \in DeviceRecords /\ g \in Handles
  BY <1>1 DEF TypeInv, Open
<1> HIDE DEF g
<1>5. /\ device'.files = device.files /\ device'.at[g] = 0
      /\ \A h \in Handles : h # g => /\ device'.file[h] = device.file[h]
                                     /\ device'.at[h] = device.at[h]
  BY <1>1, <1>4 DEF DeviceRecords
<1>6. \A h \in Handles \ Open' : device'.at[h] = 0
  BY <1>5 DEF CopyInv, Open
<1>7. Trusted /\ ~device.misled /\ UNCHANGED call
  BY DEF Clear
<1>8. ASSUME NEW u \in Threads PROVE StartsAtZero(u)' /\ CopyOf(u)'
  <2>1. CopyOf(u)
    BY <1>7 DEF CopyInv
  <2>2. FileOf(u)' = FileOf(u)
    BY <1>5, <1>7 DEF FileOf
  <2>3. ASSUME call[u].step \in {"write", "read"}
        PROVE  device'.at[call[u].handle] = device.at[call[u].handle]
    <3>1. ~Replied(u) /\ ~Replied(t) /\ u # t
      BY <1>2, <1>3, <2>3 DEF ServedFor
    <3>2. /\ call[u].handle \in Open /\ device.file[call[u].handle] = <<u, call[u].path>>
          /\ device.file[g] = <<t, call[t].path>>
      BY <1>3, <2>3, <3>1, OwnHandle
    <3>3. call[u].handle # g /\ call[u].handle \in Handles
      BY <3>1, <3>2 DEF Open
    <3> QED BY <1>5, <3>3
  <2>4. u # t \/ call[u].step \notin {"write", "read"}
    BY <1>3
  <2>5. u # t \/ call[u].step # "open"
    BY <1>3
  <2> QED BY <1>2, <2>1, <2>2, <2>3, <2>4, <2>5, NotServed, NotOpened
<1> QED BY <1>6, <1>7, <1>8 DEF CopyInv

\* An answer that leaves the conduit's files and handles as they are, refused if
\* it is a packet's
LEMMA RefusedCopy ==
    ASSUME Inv, TypeInv, CopyInv, Clear, NEW t, NEW body, ServedFor(t, body),
           device'.files = device.files, device'.file = device.file,
           device'.at = device.at, call[t].step # "open",
           call[t].step \in {"write", "read"} => ~Head(link'.in).granted
    PROVE  CopyInv'
<1>1. Open' = Open /\ UNCHANGED call /\ Trusted /\ ~device.misled /\ t \in Threads
  BY DEF Open, ServedFor, Clear
<1>2. ASSUME NEW u \in Threads PROVE StartsAtZero(u)' /\ CopyOf(u)'
  <2>1. CopyOf(u)
    BY <1>1 DEF CopyInv
  <2>2. FileOf(u)' = FileOf(u)
    BY <1>1 DEF FileOf
  <2>3. StartsAtZero(u)'
    BY NotOpened
  <2>4. CASE u # t \/ call[u].step \notin {"write", "read"}
    BY <2>1, <2>2, <2>3, <2>4, NotServed
  <2>5. CASE u = t /\ call[u].step \in {"write", "read"}
    <3>1. ~Good(u)'
      BY <1>1, <2>5 DEF Good, PacketReplied, ServedFor
    <3> QED BY <2>3, <3>1 DEF CopyOf
  <2> QED BY <2>4, <2>5
<1> QED BY <1>1, <1>2 DEF CopyInv

LEMMA ServeWriteCopy ==
    ASSUME Inv, TypeInv, CopyInv, Clear, link.todo # <<>>, ServeWrite(Head(link.todo)),
           UNCHANGED <<ssl, queue, call>>
    PROVE  CopyInv'
<1> DEFINE r == Head(link.todo)
<1>1. r.kind = "write" /\ r.handle \in Open /\ Reply(r, TRUE, Zeros)
  BY DEF ServeWrite
<1>2. PICK t \in Threads : ServedFor(t, Zeros)
  BY <1>1, ServedAnswer
<1> DEFINE c == call[t]
           g == c.handle
           p == <<t, c.path>>
           file == device.files[p]
           at == device.at[g]
           data == Block(c)
<1>3. c.step = "write"
  BY <1>1, <1>2, KindOfRequest DEF ServedFor, Inv
<1>4. r.handle = g /\ r.data = data
  BY <1>2, <1>3 DEF ServedFor, Request
<1>5. g \in Open /\ device.file[g] = p
  BY <1>2, <1>3, OwnHandle DEF ServedFor
<1>6. /\ device \in DeviceRecords /\ c \in CallRecords /\ Standing(c) /\ InOrder(c)
      /\ g \in Handles /\ UNCHANGED call
  BY <1>5 DEF TypeInv, CopyInv, Open
<1>7. c.path \in 1..Width /\ p \in Paths
  BY <1>3, <1>6, PathInRange DEF Exchanges, Paths
<1>8. /\ file \in Seq(Int) /\ at \in Nat /\ c.index \in Nat /\ Length(c) \in Nat
      /\ c.index < Packets(c)
  BY <1>3, <1>6, <1>7 DEF DeviceRecords, CallRecords, Standing, WithFile
<1>9. data \in Seq(Int) /\ Len(data) = Remainder(c) /\ Remainder(c) \in Nat
      /\ \A j \in 1..Len(data) : data[j] = Offset(c) + j
  <2>1. Remainder(c) \in Nat /\ Offset(c) \in Nat
    BY <1>8, RemainderOfFile
  <2> QED BY <2>1, BlockType DEF Block
<1>10. device' = [device EXCEPT !.files[p] = Overwrite(file, at, data),
                                !.at[g] = at + Len(data)]
  BY <1>4, <1>5, <1>6, <1>7 DEF ServeWrite, DeviceRecords
<1> HIDE DEF data, file, at
<1>11. /\ device'.file = device.file
       /\ device'.files[p] = Overwrite(file, at, data)
       /\ \A q \in Paths : q # p => device'.files[q] = device.files[q]
       /\ device'.at[g] = at + Len(data)
       /\ \A h \in Handles : h # g => device'.at[h] = device.at[h]
  BY <1>6, <1>7, <1>10 DEF DeviceRecords
<1>12. Open' = Open /\ \A h \in Handles \ Open' : device'.at[h] = 0
  BY <1>5, <1>11 DEF CopyInv, Open
<1>13. Trusted /\ ~device.misled /\ link'.up = link.up /\ link.up
  BY <1>2 DEF Clear, ServedFor
<1>14. Head(link'.in).granted /\ PacketReplied(t)' /\ ~PacketReplied(t)
  <2>1. Head(link'.in).granted = TRUE
    BY <1>1, ServedAnswer
  <2> QED BY <1>2, <1>3, <1>6, <2>1 DEF ServedFor, PacketReplied
<1>15. ASSUME CopyOf(t), c.sure, Length(c) <= OffsetLimit
       PROVE  Sent(t)' /\ device'.at[g] = Position(t)'
  <2> DEFINE n == Covered(Length(c), c.index)
             m == Remainder(c)
             new == Overwrite(file, at, data)
  <2>1. Units(t) = n /\ Units(t)' = Covered(Length(c), c.index + 1)
    BY <1>6, <1>14 DEF Units, Length
  <2>2. Sent(t) /\ at = Position(t)
    BY <1>3, <1>6, <1>13, <1>14, <1>15 DEF CopyOf, UsesHandle, Good, InOrder, at
  <2>3. n \in Nat /\ Offset(c) = n /\ Units(t)' = n + m
    BY <1>8, <1>15, <2>1, CoveredNext
  <2>4. FileOf(t) = file /\ FileOf(t)' = new
    BY <1>6, <1>11 DEF FileOf, file
  <2>5. n <= Len(file) /\ \A i \in 1..n : file[i] = i
    BY <2>1, <2>2, <2>4 DEF Sent
  <2>6. at = n /\ Len(file) \in Nat
    BY <1>8, <2>1, <2>2, <2>3, <2>4, <2>5 DEF Position, Smaller
  <2>7. /\ at + Len(data) <= Len(new) /\ Len(new) = Greater(Len(file), at + Len(data))
        /\ \A i \in 1..at : new[i] = file[i]
        /\ \A j \in 1..Len(data) : new[at + j] = data[j]
    BY ZenonT(60), <1>8, <1>9, <2>5, <2>6, OverwriteGoesOn
  <2> HIDE DEF n, m, new, c
  <2>8. n + m <= Len(new) /\ Len(new) \in Nat /\ m \in Nat /\ Len(data) = m
    BY <1>9, <2>3, <2>6, <2>7 DEF Greater, m
  <2>9. ASSUME NEW i \in 1..(n + m) PROVE new[i] = i
    <3>1. CASE i \in 1..n
      BY <2>5, <2>6, <2>7, <3>1
    <3>2. CASE i \notin 1..n
      <4>1. i - n \in 1..m /\ n + (i - n) = i
        BY <2>3, <2>8, <2>9, <3>2
      <4>2. new[n + (i - n)] = data[i - n] /\ data[i - n] = n + (i - n)
        BY <1>9, <2>3, <2>6, <2>7, <2>8, <4>1
      <4> QED BY <4>1, <4>2
    <3> QED BY <3>1, <3>2
  <2>10. Sent(t)'
    BY <2>3, <2>4, <2>8, <2>9 DEF Sent
  <2>11. Position(t)' = n + m
    BY <2>3, <2>4, <2>8 DEF Position, Smaller
  <2> QED BY <1>11, <2>6, <2>8, <2>10, <2>11
<1>16. CopyOf(t)'
  <2>1. CopyOf(t) /\ c.op # "Fetch"
    BY <1>3, <1>6, <1>13 DEF CopyInv, InOrder
  <2>2. Good(t)' => c.sure
    BY <1>6 DEF Good
  <2>3. Length(call[t])' = Length(c)
    BY <1>6
  <2> QED BY <1>6, <1>15, <2>1, <2>2, <2>3 DEF CopyOf
<1>17. ASSUME NEW u \in Threads, u # t PROVE CopyOf(u)'
  <2>1. CopyOf(u)
    BY <1>13 DEF CopyInv
  <2>2. ASSUME call[u].step \in {"write", "read"}
        PROVE  /\ FileOf(u)' = FileOf(u)
               /\ device'.at[call[u].handle] = device.at[call[u].handle]
    <3>1. call[u].handle \in Open /\ device.file[call[u].handle] = <<u, call[u].path>>
      BY <1>2, <2>2, OwnHandle DEF ServedFor
    <3>2. call[u].handle # g /\ call[u].handle \in Handles
      BY <1>5, <1>17, <3>1 DEF Open
    <3>3. <<u, call[u].path>> \in Paths /\ <<u, call[u].path>> # p
      <4>1. call[u].path \in 1..Width
        BY <2>2, PathInRange DEF TypeInv, Exchanges
      <4> QED BY <1>17, <4>1 DEF Paths
    <3> QED BY <1>6, <1>11, <3>2, <3>3 DEF FileOf
  <2>3. CASE call[u].step \in {"write", "read"}
    BY <1>2, <1>17, <2>1, <2>2, <2>3, NotServed
  <2>4. CASE call[u].step = "close"
    <3>1. call[u].path \in 1..Width
      BY <2>4, PathInRange DEF TypeInv, Exchanges
    <3>2. <<u, call[u].path>> \in Paths /\ <<u, call[u].path>> # p
      BY <1>17, <3>1 DEF Paths
    <3>3. FileOf(u)' = FileOf(u)
      BY <1>6, <1>11, <3>2 DEF FileOf
    <3> QED BY <1>2, <1>17, <2>1, <2>4, <3>3, NotServed
  <2>5. CASE call[u].step \notin {"write", "read", "close"}
    BY <1>6, <2>5 DEF CopyOf, UsesHandle
  <2> QED BY <2>3, <2>4, <2>5
<1>18. ASSUME NEW u \in Threads PROVE StartsAtZero(u)'
  <2>1. u # t \/ call[u].step # "open"
    BY <1>3
  <2> QED BY <1>2, <2>1, NotOpened
<1>19. \A u \in Threads : CopyOf(u)'
  BY <1>16, <1>17
<1>20. \A u \in Threads : InOrder(call'[u])
  BY <1>6 DEF CopyInv
<1> QED BY <1>12, <1>18, <1>19, <1>20 DEF CopyInv

LEMMA ServeReadCopy ==
    ASSUME Inv, TypeInv, CopyInv, Clear, link.todo # <<>>, ServeRead(Head(link.todo)),
           UNCHANGED <<ssl, queue, call>>
    PROVE  CopyInv'
<1> DEFINE r == Head(link.todo)
           f == device.files[device.file[r.handle]]
           part == SubSeq(f, device.at[r.handle] + 1,
                          Smaller(device.at[r.handle] + r.size, Len(f)))
<1>1. /\ r.kind = "read" /\ r.handle \in Open /\ Reply(r, TRUE, Body(0, part))
      /\ device' = [device EXCEPT !.at[r.handle] = @ + Len(part)]
  BY DEF ServeRead
<1> HIDE DEF part
<1>2. PICK t \in Threads : ServedFor(t, Body(0, part))
  BY <1>1, ServedAnswer
<1> DEFINE c == call[t]
           g == c.handle
           p == <<t, c.path>>
           file == device.files[p]
           at == device.at[g]
           size == Remainder(c)
           data == SubSeq(file, at + 1, Smaller(at + size, Len(file)))
<1>3. c.step = "read"
  BY <1>1, <1>2, KindOfRequest DEF ServedFor, Inv
<1>4. r.handle = g /\ r.size = size
  BY <1>2, <1>3 DEF ServedFor, Request
<1>5. g \in Open /\ device.file[g] = p
  BY <1>2, <1>3, OwnHandle DEF ServedFor
<1>6. /\ device \in DeviceRecords /\ c \in CallRecords /\ Standing(c) /\ InOrder(c)
      /\ g \in Handles /\ UNCHANGED call
  BY <1>5 DEF TypeInv, CopyInv, Open
<1>7. c.path \in 1..Width /\ p \in Paths
  BY <1>3, <1>6, PathInRange DEF Exchanges, Paths
<1>8. /\ file \in Seq(Int) /\ at \in Nat /\ c.index \in Nat /\ Length(c) \in Nat
      /\ c.index < Packets(c)
  BY <1>3, <1>6, <1>7 DEF DeviceRecords, CallRecords, Standing, WithFile
<1>9. size \in Nat
  BY <1>8, RemainderOfFile
<1>10. part = data
  BY <1>4, <1>5 DEF part
<1>11. device'.at[g] = at + Len(data) /\ Body(0, part).data = data
  BY <1>1, <1>4, <1>6, <1>10 DEF DeviceRecords, Body
<1>12. /\ device'.file = device.file /\ device'.files = device.files
       /\ \A h \in Handles : h # g => device'.at[h] = device.at[h]
  BY <1>1, <1>4, <1>6 DEF DeviceRecords
<1>13. Open' = Open /\ \A h \in Handles \ Open' : device'.at[h] = 0
  BY <1>5, <1>12 DEF CopyInv, Open
<1>14. Trusted /\ ~device.misled /\ link'.up = link.up /\ link.up
  BY <1>2 DEF Clear, ServedFor
<1>15. /\ Head(link'.in).body.data = data /\ PacketReplied(t)' /\ ~PacketReplied(t)
  BY <1>2, <1>3, <1>6, <1>11 DEF ServedFor, PacketReplied
<1> HIDE DEF data, file, at, size
<1>16. ASSUME CopyOf(t), c.sure, Length(c) <= OffsetLimit
       PROVE  Fetched(t)' /\ device'.at[g] = Position(t)'
  <2> DEFINE n == Covered(Length(c), c.index)
             l == Len(file)
  <2>1. Units(t) = n /\ Units(t)' = Covered(Length(c), c.index + 1)
    BY <1>6, <1>15 DEF Units, Length
  <2>2. Fetched(t) /\ at = Position(t)
    BY <1>3, <1>6, <1>14, <1>15, <1>16 DEF CopyOf, UsesHandle, Good, InOrder, at
  <2>3. n \in Nat /\ Units(t)' = n + size /\ l \in Nat
    BY <1>8, <1>16, <2>1, CoveredNext DEF size
  <2>4. FileOf(t) = file /\ FileOf(t)' = file
    BY <1>6, <1>12 DEF FileOf, file
  <2>5. at = Smaller(n, l) /\ Position(t)' = Smaller(n + size, l)
    BY <2>1, <2>2, <2>3, <2>4 DEF Position
  <2>6. at <= l
    BY <2>3, <2>5, SmallerType
  <2>7. /\ at + Len(data) = Smaller(at + size, l)
        /\ \A j \in 1..Len(data) : data[j] = file[at + j]
    BY <1>8, <1>9, <2>6, PartElements DEF data
  <2>8. at + Len(data) = Position(t)'
    <3>1. Smaller(Smaller(n, l) + size, l) = Smaller(n + size, l)
      BY <1>9, <2>3 DEF Smaller
    <3> QED BY <2>5, <2>7, <3>1
  <2>9. /\ Len(c.local) = Length(c)
        /\ c.at = Smaller(n, l)
        /\ \A i \in 1..c.at : c.local[i] = file[i]
    BY <2>2, <2>4 DEF Fetched
  <2>10. call'[t] = c
    BY <1>6
  <2> HIDE DEF c
  <2>11. Fetched(t)'
    BY <1>15, <2>4, <2>5, <2>7, <2>8, <2>9, <2>10 DEF Fetched, n, l, Length
  <2> QED BY <1>11, <2>8, <2>11
<1>17. CopyOf(t)'
  <2>1. CopyOf(t) /\ c.op = "Fetch"
    BY <1>3, <1>6, <1>14 DEF CopyInv, InOrder
  <2>2. Good(t)' => c.sure
    BY <1>6 DEF Good
  <2>3. Length(call[t])' = Length(c)
    BY <1>6
  <2> QED BY <1>6, <1>16, <2>1, <2>2, <2>3 DEF CopyOf
<1>18. ASSUME NEW u \in Threads, u # t PROVE CopyOf(u)'
  <2>1. CopyOf(u)
    BY <1>14 DEF CopyInv
  <2>2. FileOf(u)' = FileOf(u)
    BY <1>6, <1>12 DEF FileOf
  <2>3. ASSUME call[u].step \in {"write", "read"}
        PROVE  device'.at[call[u].handle] = device.at[call[u].handle]
    <3>1. call[u].handle \in Open /\ device.file[call[u].handle] = <<u, call[u].path>>
      BY <1>2, <2>3, OwnHandle DEF ServedFor
    <3>2. call[u].handle # g /\ call[u].handle \in Handles
      BY <1>5, <1>18, <3>1 DEF Open
    <3> QED BY <1>12, <3>2
  <2> QED BY <1>2, <1>18, <2>1, <2>2, <2>3, NotServed
<1>19. ASSUME NEW u \in Threads PROVE StartsAtZero(u)'
  <2>1. u # t \/ call[u].step # "open"
    BY <1>3
  <2> QED BY <1>2, <2>1, NotOpened
<1>20. \A u \in Threads : CopyOf(u)'
  BY <1>17, <1>18
<1>21. \A u \in Threads : InOrder(call'[u])
  BY <1>6 DEF CopyInv
<1> QED BY <1>13, <1>19, <1>20, <1>21 DEF CopyInv

\* A refusal moves no handle.
LEMMA RefusalMoves ==
    ASSUME TypeInv, Refuse(Head(link.todo))
    PROVE  /\ device'.files = device.files /\ device'.file = device.file
           /\ device'.at = device.at
           /\ device'.misled = (device.misled \/ Head(link.todo).kind = "open")
BY DEF TypeInv, Refuse, DeviceRecords

\* A request that is on its way to a conduit that reads no more is a late one
Unread == Trusted /\ link.full => link.todo = <<>>

LEMMA NextUnread ==
    ASSUME Inv, Unread, [Next]_vars
    PROVE  Unread'
<1>1. DOMAIN link = LinkFields /\ (~link.up => link.todo = <<>>)
  BY DEF Inv, InvAndLine, IInv, Shapes, LinkInv
<1>2. CASE \E t \in Threads : Begin(t) \/ NextFile(t) \/ Submit(t) \/ SendFails(t)
  BY <1>2 DEF Begin, NextFile, Submit, SendFails, Unread, Trusted
<1>3. CASE \E t \in Threads : Send(t)
  BY <1>1, <1>3 DEF Send, Full, LinkFields, Unread, Trusted
<1>4. CASE \E t \in Threads : Receive(t) \/ ReceiveNothing(t)
  BY <1>1, <1>4 DEF Receive, ReceiveNothing, LinkFields, Unread, Trusted
<1>5. CASE \E t \in Threads : \/ ReceiveTorn(t) \/ ReceiveStalls(t)
                              \/ ReceiveGarbage(t) \/ ReceiveOutside(t)
  BY <1>1, <1>5, TornLink
     DEF ReceiveTorn, ReceiveStalls, ReceiveGarbage, ReceiveOutside, Unread
<1>6. CASE Serve
  <2>1. link.todo # <<>> /\ \E granted, body : Reply(Head(link.todo), granted, body)
    BY <1>6 DEF Serve, ServeOpen, ServeWrite, ServeRead, ServeClose, ServeOther, Refuse
  <2>2. link'.full = link.full /\ link'.torn = link.torn /\ link'.waited = link.waited
    BY <1>1, <2>1 DEF Reply, LinkFields
  <2> QED BY <1>6, <2>1, <2>2 DEF Serve, Unread, Trusted
<1>7. CASE StopReading
  <2>1. PICK t \in Threads : AtFront(t) /\ ~call[t].asking
    BY <1>7 DEF StopReading
  <2>2. Trusted => link.todo = <<>>
    BY <2>1, NothingOnItsWay DEF Inv, InvAndLine
  <2> QED BY <1>1, <1>7, <2>2 DEF StopReading, LinkFields, Unread, Trusted
<1>8. CASE HangUp
  BY <1>1, <1>8 DEF HangUp, LinkFields, Unread
<1>9. CASE UNCHANGED vars
  BY <1>9 DEF vars, Unread, Trusted
<1> QED
  BY <1>2, <1>3, <1>4, <1>5, <1>6, <1>7, <1>8, <1>9 DEF Next, ThreadStep, Rest

LEMMA ServeCopy ==
    ASSUME Inv, TypeInv, CopyInv, Unread, Serve
    PROVE  CopyInv'
<1> DEFINE r == Head(link.todo)
<1>1. /\ link.up /\ link.todo # <<>> /\ UNCHANGED <<ssl, queue, call>>
      /\ device \in DeviceRecords /\ link \in LinkRecords
  BY DEF Serve, TypeInv
<1>2. PICK granted, body : Reply(r, granted, body)
  BY DEF Serve, ServeOpen, ServeWrite, ServeRead, ServeClose, ServeOther, Refuse
<1>3. link'.waited = link.waited /\ link'.torn = link.torn
  BY <1>1, <1>2 DEF Reply, LinkRecords
<1>4. device.misled => device'.misled
  BY ServedShape DEF Inv
<1>5. \A u \in Threads : InOrder(call'[u])
  BY <1>1 DEF CopyInv
<1>6. CASE ~Trusted \/ device'.misled
  <2>1. \A h \in Handles \ Open' : device'.at[h] = 0
    <3>1. CASE ServeOpen(r)
      <4>1. PICK g \in Handles \ Open : device' = [device EXCEPT !.file[g] = <<r.by, r.path>>]
        BY <3>1 DEF ServeOpen
      <4>2. /\ device'.at = device.at
            /\ \A h \in Handles : h # g => device'.file[h] = device.file[h]
        BY <1>1, <4>1 DEF DeviceRecords
      <4>3. Open \subseteq Open'
        BY <4>1, <4>2 DEF Open
      <4> QED BY <4>2, <4>3 DEF CopyInv
    <3>2. CASE ServeWrite(r) \/ ServeRead(r)
      <4>1. /\ r.handle \in Open /\ device'.file = device.file
            /\ \A h \in Handles : h # r.handle => device'.at[h] = device.at[h]
        BY ZenonT(60), <1>1, <3>2 DEF ServeWrite, ServeRead, DeviceRecords
      <4> QED BY <4>1 DEF CopyInv, Open
    <3>3. CASE ServeClose(r)
      <4>1. /\ r.handle \in Open
            /\ device' = [device EXCEPT !.file[r.handle] = NoFile, !.at[r.handle] = 0]
        BY <3>3 DEF ServeClose
      <4>2. /\ device'.at[r.handle] = 0
            /\ \A h \in Handles : h # r.handle => /\ device'.at[h] = device.at[h]
                                                  /\ device'.file[h] = device.file[h]
        BY <1>1, <4>1 DEF DeviceRecords, Open
      <4> QED BY <4>2 DEF CopyInv, Open
    <3>4. CASE ServeOther(r)
      BY <3>4 DEF ServeOther, CopyInv, Open
    <3>5. CASE Refuse(r)
      BY <3>5, RefusalMoves DEF CopyInv, Open
    <3> QED BY <3>1, <3>2, <3>3, <3>4, <3>5 DEF Serve
  <2>2. ~(Trusted' /\ ~device'.misled)
    BY <1>1, <1>3, <1>6 DEF Trusted
  <2> QED BY <1>5, <2>1, <2>2 DEF CopyInv
<1>7. CASE Trusted /\ ~device'.misled
  <2>1. Clear
    BY <1>1, <1>4, <1>7 DEF Clear, Unread
  <2>2. CASE ServeOther(r) \/ Refuse(r)
    <3>1. /\ device'.files = device.files /\ device'.file = device.file
          /\ device'.at = device.at
      BY <2>2, RefusalMoves DEF ServeOther
    <3>2. PICK t \in Threads : ServedFor(t, body)
      BY <1>1, <1>2, <2>1, ServedAnswer
    <3>3. call[t].step # "open"
      <4>1. r.kind # "open"
        BY <1>7, <2>2, RefusalMoves DEF ServeOther
      <4> QED BY <3>2, <4>1, KindOfRequest DEF ServedFor, Inv
    <3>4. call[t].step \in {"write", "read"} => ~Head(link'.in).granted
      <4>1. CASE ServeOther(r)
        <5>1. r.kind \notin {"write", "read"}
          BY <4>1 DEF ServeOther
        <5> QED BY <3>2, <5>1, KindOfRequest DEF ServedFor, Inv
      <4>2. CASE Refuse(r)
        <5>1. PICK code \in Codes : Reply(r, FALSE, Status(code))
          BY <4>2 DEF Refuse
        <5>2. Head(link'.in).granted = FALSE
          BY <1>1, <2>1, <5>1, ServedAnswer
        <5> QED BY <5>2
      <4> QED BY <2>2, <4>1, <4>2
    <3> QED BY <2>1, <3>1, <3>2, <3>3, <3>4, RefusedCopy
  <2> QED
    BY <1>1, <2>1, <2>2, ServeOpenCopy, ServeWriteCopy, ServeReadCopy, ServeCloseCopy
       DEF Serve
<1> QED BY <1>6, <1>7

-----------------------------------------------------------------------------
(* The inductive invariant of the copies.                                  *)

CopiesInv == Inv /\ TypeInv /\ CopyInv /\ Unread

LEMMA NextCopies == CopiesInv /\ [Next]_vars => CopiesInv'
<1> SUFFICES ASSUME CopiesInv, [Next]_vars PROVE CopiesInv'
  OBVIOUS
<1> USE DEF CopiesInv
<1>1. Inv' /\ TypeInv' /\ Unread'
  BY NextHandles, NextType, NextUnread DEF Inv
<1>2. ASSUME NEW t \in Threads, Begin(t) \/ ThreadStep(t) \/ ReceiveOutside(t)
      PROVE  CopyInv'
  <2>1. AtFront(t) => call[t].step \in Exchanges
    BY FrontIsInLine DEF Inv, InvAndLine
  <2>2. CASE SendFails(t)
    BY <2>1, <2>2, SendFailsCopy DEF SendFails
  <2>3. CASE ReceiveNothing(t) \/ ReceiveTorn(t) \/ ReceiveGarbage(t)
    BY <2>3, VainCopy DEF ReceiveNothing, ReceiveTorn, ReceiveGarbage
  <2> QED
    BY <1>2, <2>2, <2>3, BeginCopy, NextFileCopy, SubmitCopy, SendCopy, ReceiveCopy,
       OutsideCopy DEF ThreadStep
<1>3. CASE UNCHANGED vars
  <2>1. UNCHANGED <<ssl, link, queue, call, device, crashed>>
    BY <1>3 DEF vars
  <2>2. Trusted' => Trusted
    BY <2>1 DEF Trusted
  <2> QED BY <1>1, <2>1, <2>2, CopiesStay
<1> QED BY <1>1, <1>2, <1>3, ServeCopy, StopReadingCopy, HangUpCopy DEF Next, Rest

LEMMA CopiesHold == Spec => []CopiesInv
<1>1. Init => CopiesInv
  <2>1. Init => Unread
    BY DEF Init, Unread
  <2> QED BY <2>1, InitLine, InitHandles, InitType, InitCopy DEF CopiesInv, Inv
<1> QED BY <1>1, NextCopies, PTL DEF Spec

\* A call that closes a file it is sure of has been through all its packets.
LEMMA AllCovered ==
    ASSUME CopiesInv, NEW t \in Threads, call[t].step = "close", call[t].sure
    PROVE  /\ Length(call[t]) \in Nat /\ Units(t) = Length(call[t])
           /\ Covered(Length(call[t]), call[t].index) = Length(call[t])
           /\ ~PacketReplied(t) /\ Good(t) /\ UsesHandle(t)
           /\ FileOf(t) \in Seq(Int) /\ Len(FileOf(t)) \in Nat
           /\ call[t].local \in Seq(Int)
<1> DEFINE c == call[t]
<1>1. /\ c \in CallRecords /\ Standing(c) /\ InOrder(c) /\ c.index \in Nat
      /\ c.local \in Seq(Int)
  BY DEF CopiesInv, TypeInv, CopyInv, CallRecords
<1>2. ~PacketReplied(t) /\ Good(t) /\ UsesHandle(t)
  BY DEF PacketReplied, Good, UsesHandle
<1>3. Length(c) \in Nat /\ ~(c.index < Packets(c))
  BY <1>1 DEF Standing, InOrder, WithFile
<1>4. Covered(Length(c), c.index) = Length(c)
  BY <1>1, <1>3, CoveredEnds
<1>5. Units(t) = Length(c)
  BY <1>2, <1>4 DEF Units
<1>6. c.path \in 1..Width
  BY <1>1, PathInRange DEF Exchanges
<1>7. FileOf(t) \in Seq(Int)
  BY <1>6 DEF FileOf, CopiesInv, TypeInv, DeviceRecords, Paths
<1> QED BY <1>1, <1>2, <1>3, <1>4, <1>5, <1>7

\* Two sequences that agree up to n begin the same.
LEMMA SameBeginning ==
    ASSUME NEW a \in Seq(Int), NEW b \in Seq(Int), NEW n \in Nat,
           n <= Len(a), n <= Len(b), \A i \in 1..n : a[i] = b[i]
    PROVE  SubSeq(a, 1, n) = SubSeq(b, 1, n)
<1>1. SubSeq(a, 1, n) = [i \in 1..n |-> a[i]]
  OBVIOUS
<1>2. SubSeq(b, 1, n) = [i \in 1..n |-> b[i]]
  OBVIOUS
<1>3. [i \in 1..n |-> a[i]] = [i \in 1..n |-> b[i]]
  OBVIOUS
<1> QED BY <1>1, <1>2, <1>3

LEMMA SentWhole == CopiesInv => SentFileIsWhole
<1> SUFFICES ASSUME CopiesInv, Trusted, ~device.misled, NEW t \in Threads,
                    call[t].op \in {"File", "Tree"}, call[t].step = "close", call[t].sure,
                    Length(call[t]) <= OffsetLimit
             PROVE  LET c == call[t]
                        file == device.files[<<t, c.path>>]
                    IN /\ Len(file) >= Length(c)
                       /\ SubSeq(file, 1, Length(c)) = HostFile(Length(c))
  BY DEF SentFileIsWhole, Trusted
<1> DEFINE n == Length(call[t])
           file == FileOf(t)
<1>1. /\ n \in Nat /\ Units(t) = n /\ Good(t) /\ UsesHandle(t)
      /\ file \in Seq(Int) /\ Len(file) \in Nat
  BY AllCovered
<1>2. Sent(t)
  BY <1>1 DEF CopiesInv, CopyInv, CopyOf
<1>3. n <= Len(file) /\ \A i \in 1..n : file[i] = i
  BY <1>1, <1>2 DEF Sent
<1>4. file = device.files[<<t, call[t].path>>]
  BY DEF FileOf
<1> HIDE DEF n, file
<1>5. /\ HostFile(n) \in Seq(Int) /\ Len(HostFile(n)) = n
      /\ \A i \in 1..n : HostFile(n)[i] = i
      /\ SubSeq(HostFile(n), 1, n) = HostFile(n)
  BY <1>1, HostFileType DEF HostFile
<1>6. SubSeq(file, 1, n) = HostFile(n)
  <2>1. SubSeq(file, 1, n) = SubSeq(HostFile(n), 1, n)
    BY <1>1, <1>3, <1>5, SameBeginning
  <2> QED BY <1>5, <2>1
<1>7. Len(file) >= n
  BY <1>1, <1>3
<1> QED BY <1>4, <1>6, <1>7 DEF n

LEMMA FetchedPrefix == CopiesInv => FetchedFileIsPrefix
<1> SUFFICES ASSUME CopiesInv, Trusted, ~device.misled, NEW t \in Threads,
                    call[t].op = "Fetch", call[t].step = "close", call[t].sure,
                    Length(call[t]) <= OffsetLimit
             PROVE  LET c == call[t]
                        file == device.files[<<t, c.path>>]
                        both == Smaller(Length(c), Len(file))
                    IN /\ SubSeq(c.local, 1, both) = SubSeq(file, 1, both)
                       /\ Len(c.local) = Length(c)
  BY DEF FetchedFileIsPrefix, Trusted
<1> DEFINE c == call[t]
           n == Length(c)
           file == FileOf(t)
           both == Smaller(n, Len(file))
<1>1. /\ n \in Nat /\ Covered(n, c.index) = n /\ Good(t) /\ UsesHandle(t)
      /\ file \in Seq(Int) /\ Len(file) \in Nat /\ c.local \in Seq(Int)
  BY AllCovered
<1>2. Fetched(t)
  BY <1>1 DEF CopiesInv, CopyInv, CopyOf
<1>3. Len(c.local) = n /\ \A i \in 1..both : c.local[i] = file[i]
  BY <1>1, <1>2 DEF Fetched
<1>4. both \in Nat /\ both <= n /\ both <= Len(file)
  BY <1>1, SmallerType
<1>5. file = device.files[<<t, c.path>>]
  BY DEF FileOf
<1>6. SubSeq(c.local, 1, both) = SubSeq(file, 1, both)
  <2> DEFINE l == c.local
  <2>1. l \in Seq(Int) /\ both <= Len(l) /\ \A i \in 1..both : l[i] = file[i]
    BY <1>1, <1>3, <1>4
  <2> HIDE DEF l, both, file
  <2> QED BY <1>1, <1>4, <2>1, SameBeginning DEF l
<1> QED BY <1>3, <1>5, <1>6

\* What SDMMD_AMDeviceCopyFile sends is on the device what it is here, and what
\* SDMMD_AMDeviceRemoteCopyFile fetches is here what it is there, for any threads,
\* files, packet size and width of the offset, where every packet was granted, the
\* file is not longer than the offset can say, the answers came in time and to
\* their place, and no open was refused.
THEOREM CopiesAreRight == Spec => []CopiesAreFaithful
BY CopiesHold, SentWhole, FetchedPrefix, PTL DEF CopiesAreFaithful
=============================================================================
