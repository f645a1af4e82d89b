--------------------------- MODULE LockdownProofs ---------------------------
(***************************************************************************)
(* Proofs about Lockdown, for any number of sockets and of requests.       *)
(***************************************************************************)
EXTENDS Lockdown, SequenceTheorems, TLAPS

-----------------------------------------------------------------------------
(* The inductive invariant.                                                *)

\* A connection; lockdownd's end has no request when it is down, and it is
\* down where the connect was refused.
Links ==
    {l \in [open : BOOLEAN, up : BOOLEAN, req : Seq(Requested), rep : Seq(Replied),
            mode : {"plain", "await", "tls", "refused"}, session : Numbers, late : Nat] :
        /\ ~l.up => l.req = <<>>
        /\ l.mode = "refused" => ~l.up}

DeviceObjects ==
    [active : BOOLEAN, conn : 0..MaxSockets, ssl : BOOLEAN, session : Numbers]

Calls == [op : Ops \cup {"none"}, at : Ops \cup Places, want : Numbers, about : Numbers,
          result : {"none", "success", "failed", "Disconnected", "SessionInactive"},
          got : Numbers]

Records == [id : Numbers, clean : BOOLEAN]

Types ==
    /\ attached \in BOOLEAN /\ listed \in BOOLEAN
    /\ device \in DeviceObjects
    /\ call \in Calls
    /\ link \in [Sockets -> Links]
    /\ sent \in Numbers
    /\ record \in Records
    /\ trusted \subseteq Requests /\ accepted \subseteq Requests

\* A call that waits has a connection, one that reconnects has none, and the
\* requests it may still send are within the bound.
Placed ==
    /\ Idle => call.at \in Ops \cup {"none"}
    /\ ~Idle => (Connected <=> call.at # "reconnect")
    /\ At("Pair", "wifi") => Room(2)
    /\ At("Pair", "key") => Room(1)
    /\ call.op = "StartSession" /\ call.at \in {"session", "reconnect", "bag"} => Room(1)

\* Nothing is under way on connection l, unless a receive gave up on it; or no
\* more than request n and no more than the reply to it.
Clear(l) == l.late = 0 => l.req = <<>> /\ l.rep = <<>>
Awaits(l, n) ==
    l.late = 0 =>
        \/ l.req = <<>> /\ l.rep = <<>>
        \/ l.req = <<>> /\ Len(l.rep) = 1 /\ l.rep[1].n = n
        \/ l.rep = <<>> /\ Len(l.req) = 1 /\ l.req[1].n = n

Resting == Idle \/ call.at \in {"bag", "reconnect"}

InStep ==
    Connected => IF Resting THEN Clear(Conn) ELSE Awaits(Conn, call.want)

\* A pairing lockdownd says it made, it made.
PairsHold ==
    \A s \in Sockets : \A i \in 1..Len(link[s].rep) :
        link[s].rep[i].kind = "Pair" /\ link[s].rep[i].verdict = "good"
            => link[s].rep[i].n \in accepted

IInv ==
    /\ Types /\ Placed /\ InStep
    /\ OneConnection
    /\ PairsHold /\ RecordIsAccepted

-----------------------------------------------------------------------------
(* What becomes of a connection.                                           *)

LEMMA RequestType ==
    ASSUME Types, Room(1), NEW kind \in Kinds, NEW about \in Numbers
    PROVE  /\ Request(kind, about) \in Requested
           /\ Request(kind, about).n = sent + 1
           /\ Request(kind, about).kind = kind
           /\ sent + 1 \in Numbers
  BY BoundsAssumption DEF Types, Room, Request, Requested, Requests, Numbers, DeviceObjects

LEMMA SentLink ==
    ASSUME NEW l \in Links, NEW q \in Requested
    PROVE  /\ Sent(l, q) \in Links
           /\ Sent(l, q).open = l.open /\ Sent(l, q).up = l.up
           /\ Sent(l, q).rep = l.rep /\ Sent(l, q).late = l.late
           /\ Sent(l, q).mode = l.mode /\ Sent(l, q).session = l.session
           /\ Sent(l, q).req = IF l.up THEN Append(l.req, q) ELSE l.req
           /\ Clear(l) => Awaits(Sent(l, q), q.n)
<1>1. Append(l.req, q) \in Seq(Requested)
  BY AppendProperties DEF Links
<1>2. /\ Sent(l, q) \in Links
      /\ Sent(l, q).open = l.open /\ Sent(l, q).up = l.up
      /\ Sent(l, q).rep = l.rep /\ Sent(l, q).late = l.late
      /\ Sent(l, q).mode = l.mode /\ Sent(l, q).session = l.session
      /\ Sent(l, q).req = IF l.up THEN Append(l.req, q) ELSE l.req
  BY <1>1 DEF Sent, Links
<1>3. ASSUME Clear(l) PROVE Awaits(Sent(l, q), q.n)
  <2> SUFFICES ASSUME l.late = 0
               PROVE  Awaits(Sent(l, q), q.n)
    BY <1>2 DEF Awaits
  <2>1. l.req = <<>> /\ l.rep = <<>>
    BY <1>3 DEF Clear
  <2>2. CASE l.up
    <3>1. Sent(l, q).req = Append(<<>>, q)
      BY <1>2, <2>1, <2>2
    <3>2. Len(Append(<<>>, q)) = 1 /\ Append(<<>>, q)[1] = q
      OBVIOUS
    <3> QED
      BY <1>2, <2>1, <3>1, <3>2 DEF Awaits
  <2>3. CASE ~l.up
    BY <1>2, <2>1, <2>3 DEF Awaits
  <2> QED
    BY <2>2, <2>3
<1> QED
  BY <1>2, <1>3

\* A receive takes the reply that stands first, or it is given up for good.
LEMMA ReceiptLink ==
    ASSUME NEW l \in Links, NEW r \in Receipts(l)
    PROVE  /\ r.link \in Links
           /\ r.link.open = l.open /\ r.link.up = l.up /\ r.link.req = l.req
           /\ r.link.mode = l.mode /\ r.link.session = l.session
           /\ \/ r.link.late = l.late + 1
              \/ r.link.late = l.late /\ ~l.up /\ l.rep = <<>> /\ r.link = l
              \/ r.link.late = l.late /\ l.rep # <<>> /\ r.link.rep = Tail(l.rep)
           /\ \/ r.reply = NoReply
              \/ /\ l.rep # <<>> /\ r.reply = l.rep[1] /\ r.reply \in Replied
                 /\ r.link.late = l.late /\ r.reply.tls = device.ssl
           /\ \A i \in 1..Len(r.link.rep) : \E j \in 1..Len(l.rep) :
                 r.link.rep[i] = l.rep[j]
           /\ \A n : Awaits(l, n) => Clear(r.link)
<1>1. CASE l.rep # <<>> /\ Head(l.rep).tls = device.ssl
  <2>1. /\ r.reply = Head(l.rep) /\ r.link = [l EXCEPT !.rep = Tail(l.rep)]
    BY <1>1 DEF Receipts
  <2>2. /\ Head(l.rep) = l.rep[1] /\ l.rep[1] \in Replied
        /\ Tail(l.rep) \in Seq(Replied) /\ Len(l.rep) \in Nat /\ Len(l.rep) > 0
        /\ Len(Tail(l.rep)) = Len(l.rep) - 1
        /\ \A i \in 1..(Len(l.rep) - 1) : Tail(l.rep)[i] = l.rep[i + 1]
    BY <1>1, HeadTailProperties, LenProperties, EmptySeq DEF Links
  <2>3. /\ r.link \in Links /\ r.link.rep = Tail(l.rep)
        /\ r.link.open = l.open /\ r.link.up = l.up /\ r.link.req = l.req
        /\ r.link.mode = l.mode /\ r.link.session = l.session
        /\ r.link.late = l.late
    BY <2>1, <2>2 DEF Links
  <2>4. \A i \in 1..Len(r.link.rep) : i + 1 \in 1..Len(l.rep) /\ r.link.rep[i] = l.rep[i + 1]
    BY <2>2, <2>3
  <2>5. ASSUME NEW n, Awaits(l, n) PROVE Clear(r.link)
    <3>1. Len(l.rep) = 1 => Tail(l.rep) = <<>>
      <4>1. Tail(l.rep) # <<>> => Len(Tail(l.rep)) \in Nat \ {0}
        BY <2>2, EmptySeq
      <4> QED
        BY <2>2, <4>1
    <3> QED
      BY <1>1, <2>3, <2>5, <3>1 DEF Awaits, Clear
  <2> QED
    BY <1>1, <2>1, <2>2, <2>3, <2>4, <2>5
<1>2. CASE l.rep # <<>> /\ Head(l.rep).tls # device.ssl
  <2>1. /\ r.reply = NoReply /\ r.link = [l EXCEPT !.rep = <<>>, !.late = @ + 1]
    BY <1>2 DEF Receipts
  <2>2. /\ r.link \in Links /\ r.link.rep = <<>>
        /\ r.link.open = l.open /\ r.link.up = l.up /\ r.link.req = l.req
        /\ r.link.mode = l.mode /\ r.link.session = l.session
        /\ r.link.late = l.late + 1
    <3>1. <<>> \in Seq(Replied) /\ l.late + 1 \in Nat
      BY EmptySeq DEF Links
    <3>2. r.link = [open |-> l.open, up |-> l.up, req |-> l.req, rep |-> <<>>,
                    mode |-> l.mode, session |-> l.session, late |-> l.late + 1]
      BY <2>1 DEF Links
    <3> QED
      BY <3>1, <3>2 DEF Links
  <2>3. l.late \in Nat
    BY DEF Links
  <2> QED
    BY <2>1, <2>2, <2>3 DEF Clear
<1>3. CASE l.rep = <<>> /\ l.up
  <2>1. /\ r.reply = NoReply /\ r.link = [l EXCEPT !.late = @ + 1]
    BY <1>3 DEF Receipts
  <2>2. /\ r.link \in Links /\ r.link.rep = l.rep
        /\ r.link.open = l.open /\ r.link.up = l.up /\ r.link.req = l.req
        /\ r.link.mode = l.mode /\ r.link.session = l.session
        /\ r.link.late = l.late + 1
    BY <2>1 DEF Links
  <2>3. l.late \in Nat
    BY DEF Links
  <2> QED
    BY <2>1, <2>2, <2>3 DEF Clear
<1>4. CASE l.rep = <<>> /\ ~l.up
  <2>1. r.reply = NoReply /\ r.link = l
    BY <1>4 DEF Receipts
  <2>2. l.req = <<>>
    BY <1>4 DEF Links
  <2> QED
    BY <1>4, <2>1, <2>2 DEF Clear
<1> QED
  BY <1>1, <1>2, <1>3, <1>4

-----------------------------------------------------------------------------
(* What becomes of the host's sockets.                                     *)

\* The device's connection changes and stays.
LEMMA OnConnection ==
    ASSUME IInv, Connected, NEW l \in Links, l.open = Conn.open, l.mode # "refused",
           \A i \in 1..Len(l.rep) : \E j \in 1..Len(Conn.rep) : l.rep[i] = Conn.rep[j],
           link' = [link EXCEPT ![device.conn] = l],
           device'.conn = device.conn, UNCHANGED accepted
    PROVE  /\ link' \in [Sockets -> Links]
           /\ Connected' /\ Conn' = l
           /\ OneConnection' /\ PairsHold'
<1>1. device.conn \in Sockets /\ link \in [Sockets -> Links]
  BY BoundsAssumption DEF IInv, Types, DeviceObjects, Connected, None, Sockets
<1>2. /\ link' \in [Sockets -> Links] /\ link'[device.conn] = l
      /\ \A s \in Sockets : s # device.conn => link'[s] = link[s]
  BY <1>1
<1>3. Connected' /\ Conn' = l
  BY <1>2 DEF Connected, Conn
<1>4. OneConnection'
  BY <1>1, <1>2, <1>3 DEF IInv, OneConnection, Conn
<1>5. PairsHold'
  <2> SUFFICES ASSUME NEW s \in Sockets, NEW i \in 1..Len(link'[s].rep),
                      link'[s].rep[i].kind = "Pair", link'[s].rep[i].verdict = "good"
               PROVE  link'[s].rep[i].n \in accepted
    BY DEF PairsHold
  <2>1. PICK j \in 1..Len(link[s].rep) : link'[s].rep[i] = link[s].rep[j]
    <3>1. CASE s = device.conn
      BY <1>2, <3>1 DEF Conn
    <3>2. CASE s # device.conn
      BY <1>2, <3>2
    <3> QED
      BY <3>1, <3>2
  <2> QED
    BY <2>1 DEF IInv, PairsHold
<1> QED
  BY <1>2, <1>3, <1>4, <1>5

\* The connection is closed and forgotten, if there is one.
LEMMA ClosingConnection ==
    ASSUME IInv, link' = Closed, device'.conn = None, UNCHANGED accepted
    PROVE  /\ link' \in [Sockets -> Links]
           /\ ~Connected'
           /\ OneConnection' /\ PairsHold'
<1>1. link \in [Sockets -> Links] /\ device.conn \in 0..MaxSockets
  BY DEF IInv, Types, DeviceObjects
<1>2. CASE ~Connected
  <2>1. link' = link
    BY <1>2 DEF Closed
  <2> QED
    BY <1>1, <1>2, <2>1 DEF IInv, OneConnection, PairsHold, Connected, None
<1>3. CASE Connected
  <2>1. device.conn \in Sockets
    BY <1>1, <1>3, BoundsAssumption DEF Connected, None, Sockets
  <2> DEFINE l == [link[device.conn] EXCEPT !.open = FALSE, !.rep = <<>>]
  <2>2. link' = [link EXCEPT ![device.conn] = l]
    BY <1>1, <1>3, <2>1 DEF Closed
  <2>3. l \in Links /\ l.open = FALSE /\ l.rep = <<>>
    <3>1. <<>> \in Seq(Replied) /\ link[device.conn] \in Links
      BY <1>1, <2>1, EmptySeq
    <3> QED
      BY <3>1 DEF Links
  <2> HIDE DEF l
  <2>4. /\ link' \in [Sockets -> Links] /\ link'[device.conn] = l
        /\ \A s \in Sockets : s # device.conn => link'[s] = link[s]
    BY <1>1, <2>1, <2>2, <2>3
  <2>5. ~Connected'
    BY DEF Connected
  <2>6. OneConnection'
    BY <2>3, <2>4, <2>5 DEF IInv, OneConnection
  <2>7. PairsHold'
    <3>1. \A s \in Sockets : s # device.conn => \A i \in 1..Len(link'[s].rep) :
             link'[s].rep[i].kind = "Pair" /\ link'[s].rep[i].verdict = "good"
                => link'[s].rep[i].n \in accepted'
      BY <2>4 DEF IInv, PairsHold
    <3>2. 1..Len(link'[device.conn].rep) = {}
      <4>1. link'[device.conn].rep = <<>> /\ Len(<<>>) = 0
        BY <2>3, <2>4, EmptySeq
      <4> QED
        BY <4>1
    <3> QED
      BY <3>1, <3>2 DEF PairsHold
  <2> QED
    BY <2>4, <2>5, <2>6, <2>7
<1> QED
  BY <1>2, <1>3

\* A socket that is closed on both ends is opened, and the daemon asked its name.
LEMMA OpeningConnection ==
    ASSUME IInv, ~Connected, Room(1), NEW op \in Ops, ConnectToPort(op), UNCHANGED accepted
    PROVE  /\ link' \in [Sockets -> Links] /\ device' \in DeviceObjects
           /\ call' \in Calls /\ call'.op = op /\ call'.at = "daemon" /\ sent' \in Numbers
           /\ Connected' /\ Awaits(Conn', call'.want)
           /\ OneConnection' /\ PairsHold'
<1>1. /\ link \in [Sockets -> Links] /\ device \in DeviceObjects
      /\ sent \in Nat /\ sent + 1 \in Requests /\ sent + 1 \in Numbers /\ 0 \in Numbers
  BY BoundsAssumption DEF IInv, Types, Room, Numbers, Requests
<1> DEFINE q == [n |-> sent + 1, kind |-> "QueryType", about |-> None, tls |-> FALSE]
           l == Sent(Silent(TRUE, TRUE), q)
<1>2. PICK s \in Sockets :
         /\ ~link[s].open
         /\ device' = [device EXCEPT !.conn = s, !.ssl = FALSE]
         /\ link' = [link EXCEPT ![s] = l]
         /\ sent' = sent + 1
         /\ call' = Waiting(op, "daemon", None)
  BY DEF ConnectToPort, NextFree, Free
<1>3. q \in Requested /\ q.n = sent + 1
  BY <1>1 DEF Requested, Kinds, None
<1>4. /\ Silent(TRUE, TRUE) \in Links /\ Silent(TRUE, TRUE).open
      /\ Silent(TRUE, TRUE).mode # "refused"
      /\ Silent(TRUE, TRUE).rep = <<>> /\ Clear(Silent(TRUE, TRUE))
  <2>1. <<>> \in Seq(Replied) /\ <<>> \in Seq(Requested)
    BY EmptySeq
  <2> QED
    BY <1>1, <2>1 DEF Silent, Links, Clear, None
<1>5. /\ l \in Links /\ l.open /\ l.mode # "refused"
      /\ l.rep = <<>> /\ Awaits(l, sent + 1)
  BY <1>3, <1>4, SentLink
<1> HIDE DEF q, l
<1>6. /\ link' \in [Sockets -> Links] /\ link'[s] = l
      /\ \A u \in Sockets : u # s => link'[u] = link[u]
  BY <1>1, <1>2, <1>5
<1>7. device' \in DeviceObjects /\ device'.conn = s
  <2>1. s \in 0..MaxSockets /\ device' = [device EXCEPT !.conn = s, !.ssl = FALSE]
    BY <1>2, BoundsAssumption DEF Sockets
  <2> QED
    BY <1>1, <2>1 DEF DeviceObjects
<1>8. Connected' /\ Conn' = l
  BY <1>6, <1>7 DEF Connected, Conn, None, Sockets
<1>9. /\ call' \in Calls /\ call'.op = op /\ call'.at = "daemon" /\ call'.want = sent + 1
      /\ sent' \in Numbers
  BY <1>1, <1>2 DEF Waiting, Calls, Places, None
<1>10. OneConnection'
  <2>1. \A u \in Sockets : ~link[u].open \/ link[u].mode = "refused"
    BY DEF IInv, OneConnection, Connected, None, Sockets
  <2>2. \A u \in Sockets : link'[u].open /\ link'[u].mode # "refused" => u = s
    BY <1>6, <2>1
  <2> QED
    BY <1>5, <1>7, <1>8, <2>2 DEF OneConnection
<1>11. PairsHold'
  <2>1. \A u \in Sockets : u # s => \A i \in 1..Len(link'[u].rep) :
           link'[u].rep[i].kind = "Pair" /\ link'[u].rep[i].verdict = "good"
              => link'[u].rep[i].n \in accepted'
    BY <1>6 DEF IInv, PairsHold
  <2>2. 1..Len(link'[s].rep) = {}
    <3>1. link'[s].rep = <<>> /\ Len(<<>>) = 0
      BY <1>5, <1>6, EmptySeq
    <3> QED
      BY <3>1
  <2> QED
    BY <2>1, <2>2 DEF PairsHold
<1> QED
  BY <1>5, <1>6, <1>7, <1>8, <1>9, <1>10, <1>11

-----------------------------------------------------------------------------
(* The steps.                                                              *)

LEMMA NoneTypes ==
    /\ NoRecord \in Records /\ NoRecord.id = None
    /\ NewDevice \in DeviceObjects /\ NewDevice.conn = None
    /\ NoCall \in Calls /\ NoCall.op = "none" /\ NoCall.at = "none"
<1>1. 0 \in Numbers
  BY BoundsAssumption DEF Numbers
<1>2. NoRecord \in Records /\ NoRecord.id = None
  BY <1>1 DEF NoRecord, Records, None
<1>3. NewDevice \in DeviceObjects /\ NewDevice.conn = None
  BY <1>1, BoundsAssumption DEF NewDevice, DeviceObjects, None
<1>4. NoCall \in Calls /\ NoCall.op = "none" /\ NoCall.at = "none"
  BY <1>1 DEF NoCall, Calls, None, Places
<1> QED
  BY <1>2, <1>3, <1>4

\* A request is sent on the device's connection.
LEMMA AskStep ==
    ASSUME IInv, Connected, NEW l \in Links, Clear(l), l.open = Conn.open,
           \A i \in 1..Len(l.rep) : \E j \in 1..Len(Conn.rep) : l.rep[i] = Conn.rep[j],
           NEW op \in Ops, NEW at \in Places, at \notin {"none", "reconnect", "bag"},
           NEW kind \in Kinds, NEW about \in Numbers, Room(1),
           op = "Pair" /\ at = "wifi" => Room(3),
           op = "Pair" /\ at = "key" => Room(2),
           op = "StartSession" /\ at = "session" => Room(2),
           Ask(l, op, at, kind, about), l.mode = Conn.mode,
           UNCHANGED <<outside, device>>,
           record' = record \/ record' = NoRecord
    PROVE  IInv'
<1>1. Request(kind, about) \in Requested /\ Request(kind, about).n = sent + 1
  BY RequestType DEF IInv
<1>2. /\ Sent(l, Request(kind, about)) \in Links
      /\ Sent(l, Request(kind, about)).open = Conn.open
      /\ Sent(l, Request(kind, about)).mode # "refused"
      /\ Sent(l, Request(kind, about)).rep = l.rep
      /\ Awaits(Sent(l, Request(kind, about)), sent + 1)
  BY <1>1, SentLink DEF IInv, OneConnection
<1>3. /\ link' = [link EXCEPT ![device.conn] = Sent(l, Request(kind, about))]
      /\ sent' = sent + 1 /\ call' = Waiting(op, at, about)
      /\ attached' = attached /\ listed' = listed /\ device' = device
      /\ trusted' = trusted /\ accepted' = accepted
  BY DEF Ask, outside
<1>4. /\ link' \in [Sockets -> Links]
      /\ Connected' /\ Conn' = Sent(l, Request(kind, about))
      /\ OneConnection' /\ PairsHold'
  BY <1>2, <1>3, OnConnection
<1>5. sent + 1 \in Numbers /\ sent \in Nat /\ 0 \in Numbers
  BY BoundsAssumption DEF IInv, Types, Room, Numbers
<1>6. call' \in Calls /\ call'.op = op /\ call'.at = at /\ call'.want = sent + 1
  BY <1>3, <1>5 DEF Waiting, Calls
<1>7. op # "none"
  BY DEF Ops, PlainCalls
<1>8. Types'
  <2>1. record' \in Records
    BY NoneTypes DEF IInv, Types
  <2> QED
    BY <1>3, <1>4, <1>5, <1>6, <2>1 DEF IInv, Types
<1>9. Placed'
  BY <1>3, <1>4, <1>5, <1>6, <1>7, BoundsAssumption DEF Placed, Idle, At, Room
<1>10. InStep'
  BY <1>2, <1>4, <1>6, <1>7 DEF InStep, Resting, Idle
<1>11. RecordIsAccepted'
  BY <1>3 DEF IInv, RecordIsAccepted, NoRecord, None
<1> QED
  BY <1>4, <1>8, <1>9, <1>10, <1>11 DEF IInv

\* A call that waited ends with what it received.
LEMMA TakeStep ==
    ASSUME IInv, ~Resting, NEW r \in Receipts(Conn), Take(r),
           call' \in Calls, call'.op = "none", call'.at \in Ops \cup {"none"},
           device' \in DeviceObjects, device'.conn = device.conn,
           UNCHANGED <<outside, sent>>,
           record' \in Records, RecordIsAccepted'
    PROVE  IInv'
<1>1. Connected /\ Awaits(Conn, call.want)
  BY DEF IInv, Placed, InStep, Resting, Idle
<1>2. Conn \in Links
  BY <1>1, BoundsAssumption DEF IInv, Types, Conn, DeviceObjects, Connected, None, Sockets
<1>3. /\ r.link \in Links /\ r.link.open = Conn.open /\ r.link.mode = Conn.mode
      /\ Clear(r.link)
      /\ \A i \in 1..Len(r.link.rep) : \E j \in 1..Len(Conn.rep) :
            r.link.rep[i] = Conn.rep[j]
  BY <1>1, <1>2, ReceiptLink
<1>4. /\ link' = [link EXCEPT ![device.conn] = r.link]
      /\ attached' = attached /\ listed' = listed /\ sent' = sent
      /\ trusted' = trusted /\ accepted' = accepted
  BY DEF Take, outside
<1>5. /\ link' \in [Sockets -> Links]
      /\ Connected' /\ Conn' = r.link
      /\ OneConnection' /\ PairsHold'
  BY <1>1, <1>3, <1>4, OnConnection DEF IInv, OneConnection
<1>6. Types'
  BY <1>4, <1>5 DEF IInv, Types
<1>7. Placed'
  BY DEF Placed, Idle, At
<1>8. InStep'
  BY <1>3, <1>5 DEF InStep, Resting, Idle
<1> QED
  BY <1>5, <1>6, <1>7, <1>8 DEF IInv

\* A call that never sends, or returns without having received.
LEMMA StayStep ==
    ASSUME IInv, Resting, call.at # "reconnect" \/ ~Connected,
           call' \in Calls, call'.op = "none", call'.at \in Ops \cup {"none"},
           device' \in DeviceObjects, device'.conn = device.conn,
           UNCHANGED <<outside, sent, link>>,
           record' = record \/ record' = NoRecord
    PROVE  IInv'
<1>1. /\ attached' = attached /\ listed' = listed /\ sent' = sent /\ link' = link
      /\ trusted' = trusted /\ accepted' = accepted
  BY DEF outside
<1>2. Types'
  <2>1. record' \in Records
    BY NoneTypes DEF IInv, Types
  <2> QED
    BY <1>1, <2>1 DEF IInv, Types
<1>3. Placed'
  BY DEF Placed, Idle, At
<1>4. InStep'
  BY <1>1 DEF IInv, InStep, Resting, Idle, Conn, Connected
<1>5. OneConnection' /\ PairsHold' /\ RecordIsAccepted'
  BY <1>1 DEF IInv, OneConnection, PairsHold, RecordIsAccepted, NoRecord, None,
              Connected, Conn
<1> QED
  BY <1>2, <1>3, <1>4, <1>5 DEF IInv

\* A connect that is refused leaves its socket to nobody.
LEMMA RefusedStep ==
    ASSUME IInv, Resting, ~Connected, RefusedToPort,
           call' \in Calls, call'.op = "none", call'.at \in Ops \cup {"none"},
           UNCHANGED <<outside, device, sent, record>>
    PROVE  IInv'
<1>1. /\ attached' = attached /\ listed' = listed /\ sent' = sent /\ record' = record
      /\ trusted' = trusted /\ accepted' = accepted /\ device' = device
  BY DEF outside
<1>2. CASE link' = link
  BY <1>1, <1>2, StayStep DEF IInv, Types, outside
<1>3. ASSUME NEW s \in Sockets, link' = [link EXCEPT ![s] = Refused]
      PROVE  IInv'
  <2>1. link \in [Sockets -> Links] /\ 0 \in Numbers
    BY BoundsAssumption DEF IInv, Types, Numbers
  <2>2. Refused \in Links /\ Refused.mode = "refused" /\ Refused.rep = <<>>
    <3>1. <<>> \in Seq(Replied) /\ <<>> \in Seq(Requested)
      BY EmptySeq
    <3> QED
      BY <2>1, <3>1 DEF Refused, Silent, Links, None
  <2>3. /\ link' \in [Sockets -> Links] /\ link'[s] = Refused
        /\ \A u \in Sockets : u # s => link'[u] = link[u]
    BY <1>3, <2>1, <2>2
  <2>4. ~Connected'
    BY <1>1 DEF Connected
  <2>5. Types'
    BY <1>1, <2>3 DEF IInv, Types
  <2>6. Placed' /\ InStep' /\ RecordIsAccepted'
    BY <1>1, <2>4 DEF IInv, Placed, Idle, At, InStep, RecordIsAccepted
  <2>7. OneConnection'
    BY <1>1, <2>2, <2>3, <2>4 DEF IInv, OneConnection
  <2>8. PairsHold'
    <3>1. 1..Len(link'[s].rep) = {}
      <4>1. link'[s].rep = <<>> /\ Len(<<>>) = 0
        BY <2>2, <2>3, EmptySeq
      <4> QED
        BY <4>1
    <3>2. \A u \in Sockets : u # s => \A i \in 1..Len(link'[u].rep) :
             link'[u].rep[i].kind = "Pair" /\ link'[u].rep[i].verdict = "good"
                => link'[u].rep[i].n \in accepted'
      BY <1>1, <2>3 DEF IInv, PairsHold
    <3> QED
      BY <3>1, <3>2 DEF PairsHold
  <2> QED
    BY <2>5, <2>6, <2>7, <2>8 DEF IInv
<1> QED
  BY <1>2, <1>3 DEF RefusedToPort

\* The connection is closed, for good or to be opened anew.
LEMMA CloseStep ==
    ASSUME IInv, link' = Closed, device' \in DeviceObjects, device'.conn = None,
           call' \in Calls,
           \/ call'.op = "none" /\ call'.at \in Ops \cup {"none"}
           \/ call'.op = "StartSession" /\ call'.at = "reconnect" /\ Room(1),
           attached' \in BOOLEAN, listed' \in BOOLEAN,
           UNCHANGED <<sent, record, trusted, accepted>>
    PROVE  IInv'
<1>1. /\ link' \in [Sockets -> Links]
      /\ ~Connected' /\ OneConnection' /\ PairsHold'
  BY ClosingConnection
<1>2. Types'
  BY <1>1 DEF IInv, Types
<1>3. Placed'
  BY <1>1 DEF Placed, Idle, At, Room
<1>4. InStep'
  BY <1>1 DEF InStep
<1>5. RecordIsAccepted'
  BY DEF IInv, RecordIsAccepted
<1> QED
  BY <1>1, <1>2, <1>3, <1>4, <1>5 DEF IInv

LEMMA RestartStep ==
    ASSUME IInv, Restarted
    PROVE  IInv'
<1>1. /\ attached' = TRUE /\ listed' = TRUE /\ device' = NewDevice /\ call' = NoCall
      /\ link' = [s \in Sockets |-> [link[s] EXCEPT !.open = FALSE, !.rep = <<>>]]
      /\ sent' = sent /\ record' = record /\ trusted' = trusted /\ accepted' = accepted
  BY DEF Restarted
<1>2. link \in [Sockets -> Links]
  BY DEF IInv, Types
<1>3. \A s \in Sockets :
         link'[s] \in Links /\ link'[s].open = FALSE /\ link'[s].rep = <<>>
  <2>1. <<>> \in Seq(Replied)
    BY EmptySeq
  <2>2. TAKE s \in Sockets
  <2>3. link[s] \in Links /\ link'[s] = [link[s] EXCEPT !.open = FALSE, !.rep = <<>>]
    BY <1>1, <1>2
  <2> QED
    BY ZenonT(60), <2>1, <2>3 DEF Links
<1>4. ~Connected'
  BY <1>1, NoneTypes DEF Connected
<1>5. link' \in [Sockets -> Links]
  BY <1>1, <1>3
<1>6. Types'
  BY <1>1, <1>5, NoneTypes DEF IInv, Types
<1>7. Placed' /\ InStep' /\ RecordIsAccepted'
  BY <1>1, <1>4, NoneTypes DEF IInv, Placed, Idle, At, InStep, RecordIsAccepted
<1>8. OneConnection'
  BY <1>3, <1>4 DEF OneConnection
<1>9. PairsHold'
  <2>1. \A s \in Sockets : 1..Len(link'[s].rep) = {}
    <3>1. Len(<<>>) = 0
      BY EmptySeq
    <3> QED
      BY <1>3, <3>1
  <2> QED
    BY <2>1 DEF PairsHold
<1> QED
  BY <1>6, <1>7, <1>8, <1>9 DEF IInv

LEMMA ReturnedType ==
    ASSUME NEW op \in Ops,
           NEW result \in {"none", "success", "failed", "Disconnected", "SessionInactive"}
    PROVE  /\ Returned(op, result) \in Calls
           /\ Returned(op, result).op = "none" /\ Returned(op, result).at = op
           /\ Returned(op, result).result = result
<1>1. Returned(op, result) = [NoCall EXCEPT !.at = op, !.result = result]
  BY DEF Returned
<1> QED
  BY <1>1, NoneTypes DEF Calls

\* What a call leaves of the device object.
LEMMA DeviceTypes ==
    ASSUME Types
    PROVE  /\ Disconnected \in DeviceObjects /\ Disconnected.conn = None
           /\ Validated \in DeviceObjects /\ Validated.conn = device.conn
           /\ [Disconnected EXCEPT !.active = FALSE] \in DeviceObjects
           /\ [Disconnected EXCEPT !.active = FALSE].conn = None
           /\ [Validated EXCEPT !.session = None] \in DeviceObjects
           /\ [Validated EXCEPT !.session = None].conn = device.conn
           /\ \A n \in Numbers : [device EXCEPT !.ssl = TRUE, !.session = n] \in DeviceObjects
           /\ \A b \in BOOLEAN : [device EXCEPT !.ssl = b, !.session = None] \in DeviceObjects
           /\ [device EXCEPT !.session = None] \in DeviceObjects
<1>1. device \in DeviceObjects /\ listed \in BOOLEAN /\ 0 \in Numbers /\ 0 \in 0..MaxSockets
  BY BoundsAssumption DEF Types, Numbers
<1>2. Disconnected \in DeviceObjects /\ Disconnected.conn = None
  BY <1>1 DEF Disconnected, DeviceObjects, None
<1>3. Validated \in DeviceObjects /\ Validated.conn = device.conn
  BY <1>1 DEF Validated, DeviceObjects
<1> QED
  BY <1>1, <1>2, <1>3 DEF DeviceObjects, None

\* Between calls nothing is waited for.
LEMMA IdleRests ==
    ASSUME IInv, Idle
    PROVE  /\ Resting /\ call.at # "reconnect"
           /\ Connected => Conn \in Links /\ Clear(Conn)
<1>1. Resting /\ call.at # "reconnect"
  BY DEF IInv, Placed, Resting, Ops, PlainCalls
<1>2. Connected => Conn \in Links
  BY BoundsAssumption DEF IInv, Types, Conn, DeviceObjects, Connected, None, Sockets
<1> QED
  BY <1>1, <1>2 DEF IInv, InStep

LEMMA ConnectNext ==
    ASSUME IInv,
           \/ CallConnect \/ ConnectRefused \/ ConnectAgain \/ ConnectEnds
           \/ CallDisconnect \/ CallIsValid
    PROVE  IInv'
<1> USE DEF IInv
<1>1. {"Connect", "Disconnect", "IsValid"} \subseteq Ops
  BY DEF Ops
<1>2. CASE CallConnect
  <2>1. /\ ~Connected /\ Room(1) /\ ConnectToPort("Connect")
        /\ UNCHANGED outside /\ record' = record
    BY <1>2 DEF CallConnect
  <2>2. UNCHANGED <<attached, listed, trusted, accepted>>
    BY <2>1 DEF outside
  <2>3. /\ link' \in [Sockets -> Links] /\ device' \in DeviceObjects
        /\ call' \in Calls /\ call'.op = "Connect" /\ call'.at = "daemon" /\ sent' \in Numbers
        /\ Connected' /\ Awaits(Conn', call'.want)
        /\ OneConnection' /\ PairsHold'
    BY <1>1, <2>1, <2>2, OpeningConnection
  <2>4. Types' /\ Placed' /\ InStep' /\ RecordIsAccepted'
    BY <2>1, <2>2, <2>3 DEF Types, Placed, InStep, Resting, Idle, At, RecordIsAccepted
  <2> QED
    BY <2>3, <2>4
<1>3. CASE ConnectRefused
  <2>1. call' \in Calls /\ call'.op = "none" /\ call'.at \in Ops
    BY <1>1, <1>3, ReturnedType DEF ConnectRefused, Return
  <2> QED
    BY <1>3, <2>1, IdleRests, RefusedStep DEF ConnectRefused
<1>4. CASE ConnectAgain
  <2>1. CASE IsValid
    BY <1>1, <1>4, <2>1, IdleRests, ReturnedType, StayStep DEF ConnectAgain, Return, Types
  <2>2. CASE ~IsValid
    <3>1. UNCHANGED <<attached, listed, trusted, accepted>>
      BY <1>4 DEF ConnectAgain, outside
    <3>2. call' \in Calls /\ call'.op = "none" /\ call'.at \in Ops
      BY <1>1, <1>4, ReturnedType DEF ConnectAgain, Return
    <3>3. device' \in DeviceObjects /\ device'.conn = None
      BY <1>4, <2>2, DeviceTypes DEF ConnectAgain
    <3>4. link' = Closed /\ UNCHANGED <<sent, record>>
      BY <1>4, <2>2 DEF ConnectAgain
    <3> QED
      BY <3>1, <3>2, <3>3, <3>4, CloseStep DEF Types
  <2> QED
    BY <2>1, <2>2
<1>5. CASE ConnectEnds
  <2>1. ~Resting /\ call.op \in Ops
    BY <1>5 DEF ConnectEnds, Placed, Resting, Types, Calls, Idle, Ops, PlainCalls
  <2>2. PICK r \in Receipts(Conn) :
           /\ IF r.reply.verdict = "other"
              THEN device' = Disconnected /\ link' = Closed
              ELSE device' = device /\ Take(r)
           /\ Return(call.op, IF call.op = "Connect" /\ Good(r.reply, "QueryType")
                              THEN "success" ELSE "failed")
    BY <1>5 DEF ConnectEnds
  <2>3. call' \in Calls /\ call'.op = "none" /\ call'.at \in Ops
    BY <2>1, <2>2, ReturnedType DEF Return
  <2>4. /\ UNCHANGED <<outside, sent, record>>
        /\ UNCHANGED <<attached, listed, trusted, accepted>>
    BY <1>5 DEF ConnectEnds, outside
  <2>5. CASE r.reply.verdict = "other"
    BY <2>2, <2>3, <2>4, <2>5, DeviceTypes, CloseStep DEF Types
  <2>6. CASE r.reply.verdict # "other"
    <3>1. record' \in Records /\ RecordIsAccepted'
      BY <2>4 DEF Types, RecordIsAccepted
    <3> QED
      BY <2>1, <2>2, <2>3, <2>4, <2>6, <3>1, TakeStep DEF Types
  <2> QED
    BY <2>5, <2>6
<1>6. CASE CallDisconnect
  <2>1. UNCHANGED <<attached, listed, trusted, accepted>>
    BY <1>6 DEF CallDisconnect, outside
  <2> QED
    <3>1. call' \in Calls /\ call'.op = "none" /\ call'.at \in Ops
      BY <1>1, <1>6, ReturnedType DEF CallDisconnect, Return
    <3>2. device' \in DeviceObjects /\ device'.conn = None
      BY <1>6, DeviceTypes DEF CallDisconnect
    <3> QED
      BY <1>6, <2>1, <3>1, <3>2, CloseStep DEF CallDisconnect, Types
<1>7. CASE CallIsValid
  <2>1. call' \in Calls /\ call'.op = "none" /\ call'.at \in Ops
    BY <1>1, <1>7, ReturnedType DEF CallIsValid, Return
  <2> QED
    BY <1>7, <2>1, DeviceTypes, IdleRests, StayStep DEF CallIsValid, Types
<1> QED
  BY <1>2, <1>3, <1>4, <1>5, <1>6, <1>7

\* A call that ends with what it received and changes nothing else of the host.
LEMMA TakenReturn ==
    ASSUME IInv, ~Resting, NEW r \in Receipts(Conn), Take(r),
           call' \in Calls, call'.op = "none", call'.at \in Ops \cup {"none"},
           UNCHANGED <<outside, device, sent, record>>
    PROVE  IInv'
<1>1. record' \in Records /\ RecordIsAccepted'
  BY DEF IInv, Types, RecordIsAccepted, outside
<1>2. device' \in DeviceObjects /\ device'.conn = device.conn
  BY DEF IInv, Types
<1> QED
  BY <1>1, <1>2, TakeStep

\* What is received comes from the device's connection, and is a reply of it.
LEMMA Received ==
    ASSUME IInv, ~Resting, NEW r \in Receipts(Conn)
    PROVE  /\ Connected /\ Conn \in Links /\ r.link \in Links
           /\ r.link.open = Conn.open /\ r.link.mode = Conn.mode /\ Clear(r.link)
           /\ \A i \in 1..Len(r.link.rep) : \E j \in 1..Len(Conn.rep) :
                 r.link.rep[i] = Conn.rep[j]
           /\ NoError(r.reply) => r.reply \in Replied /\ r.reply.n \in Numbers
           /\ NoError(r.reply) /\ r.link.late = 0 => r.reply.n = call.want
           /\ NoError(r.reply) => Conn.rep # <<>> /\ r.reply = Conn.rep[1]
                                 /\ r.link.late = Conn.late
<1>1. Connected /\ Awaits(Conn, call.want)
  BY DEF IInv, Placed, InStep, Resting, Idle
<1>2. Conn \in Links
  BY <1>1, BoundsAssumption DEF IInv, Types, Conn, DeviceObjects, Connected, None, Sockets
<1>3. /\ r.link \in Links /\ r.link.open = Conn.open /\ r.link.mode = Conn.mode
      /\ Clear(r.link)
      /\ \A i \in 1..Len(r.link.rep) : \E j \in 1..Len(Conn.rep) :
            r.link.rep[i] = Conn.rep[j]
      /\ \/ r.reply = NoReply
         \/ /\ Conn.rep # <<>> /\ r.reply = Conn.rep[1] /\ r.reply \in Replied
            /\ r.link.late = Conn.late
  BY <1>1, <1>2, ReceiptLink
<1>4. ASSUME NoError(r.reply)
      PROVE  /\ Conn.rep # <<>> /\ r.reply = Conn.rep[1] /\ r.link.late = Conn.late
             /\ r.reply \in Replied
  BY <1>3, <1>4 DEF NoError, NoReply
<1>5. ASSUME NoError(r.reply) PROVE r.reply.n \in Numbers
  BY <1>4, <1>5, BoundsAssumption DEF Replied, Requests, Numbers
<1>6. ASSUME NoError(r.reply), r.link.late = 0 PROVE r.reply.n = call.want
  BY <1>1, <1>4, <1>6 DEF Awaits
<1> QED
  BY <1>1, <1>2, <1>3, <1>4, <1>5, <1>6

LEMMA RequestsNext ==
    ASSUME IInv,
           \/ CallCopyValue \/ CopyValueEnds
           \/ \E op \in PlainCalls : CallPlain(op) \/ PlainEnds(op)
    PROVE  IInv'
<1>0. /\ PlainCalls \subseteq Ops /\ "CopyValue" \in Ops
      /\ "none" \notin PlainCalls
      /\ PlainCalls \subseteq Kinds /\ "GetValue" \in Kinds
      /\ 0 \in Numbers
  BY BoundsAssumption DEF Ops, PlainCalls, Kinds, Numbers
<1>1. CASE CallCopyValue
  <2>1. /\ Connected /\ Idle /\ Room(1) /\ UNCHANGED <<outside, device, record>>
        /\ Ask(Conn, "CopyValue", "value", "GetValue", None)
    BY <1>1 DEF CallCopyValue
  <2>2. Conn \in Links /\ Clear(Conn)
    BY <2>1, IdleRests
  <2>3. "value" \in Places /\ None \in Numbers
    BY <1>0 DEF Places, None
  <2> QED
    BY <1>0, <2>1, <2>2, <2>3, AskStep
<1>2. CASE CopyValueEnds
  <2>1. ~Resting
    BY <1>2 DEF CopyValueEnds, At, Resting, Idle
  <2>2. PICK r \in Receipts(Conn) :
           IF Valueless(r.reply)
           THEN Restarted
           ELSE /\ Take(r)
                /\ call' = IF Good(r.reply, "GetValue")
                           THEN [Returned("CopyValue", "success") EXCEPT
                                   !.want = call.want, !.got = r.reply.n]
                           ELSE Returned("CopyValue", "failed")
                /\ UNCHANGED <<outside, device, sent, record>>
    BY <1>2 DEF CopyValueEnds
  <2>3. CASE Valueless(r.reply)
    BY <2>2, <2>3, RestartStep
  <2>4. CASE ~Valueless(r.reply)
    <3>1. Good(r.reply, "GetValue") => r.reply.n \in Numbers
      BY <2>1, Received DEF Good, NoError
    <3>2. /\ Returned("CopyValue", "success") \in Calls
          /\ Returned("CopyValue", "failed") \in Calls
          /\ Returned("CopyValue", "success").op = "none"
          /\ Returned("CopyValue", "success").at = "CopyValue"
          /\ Returned("CopyValue", "failed").op = "none"
          /\ Returned("CopyValue", "failed").at = "CopyValue"
      BY <1>0, ReturnedType
    <3>3. call.want \in Numbers
      BY DEF IInv, Types, Calls
    <3>4. call' \in Calls /\ call'.op = "none" /\ call'.at = "CopyValue"
      <4>1. CASE Good(r.reply, "GetValue")
        BY <2>2, <2>4, <3>1, <3>2, <3>3, <4>1 DEF Calls
      <4>2. CASE ~Good(r.reply, "GetValue")
        BY <2>2, <2>4, <3>2, <4>2
      <4> QED
        BY <4>1, <4>2
    <3> QED
      BY <1>0, <2>1, <2>2, <2>4, <3>4, TakenReturn
  <2> QED
    BY <2>3, <2>4
<1>3. ASSUME NEW op \in PlainCalls, CallPlain(op)
      PROVE  IInv'
  <2>1. Resting /\ call.at # "reconnect" /\ (Connected => Conn \in Links /\ Clear(Conn))
    BY <1>3, IdleRests DEF CallPlain
  <2>2. record' = record \/ record' = NoRecord
    BY <1>3 DEF CallPlain
  <2>3. CASE Connected
    <3>1. PICK about \in Numbers :
             Room(1) /\ Ask(Conn, op, "reply", op, about) /\ device' = device
      BY <1>0, <1>3, <2>3 DEF CallPlain, IInv, Types, Records, None
    <3>2. "reply" \in Places /\ UNCHANGED <<outside, device>>
      BY <1>3, <3>1 DEF CallPlain, Places
    <3> QED
      BY <1>0, <2>1, <2>2, <2>3, <3>1, <3>2, AskStep
  <2>4. CASE ~Connected
    <3>1. /\ device' = IF op = "Activate" THEN Validated ELSE device
          /\ Return(op, "failed")
          /\ UNCHANGED <<link, sent>> /\ UNCHANGED outside
      BY <1>3, <2>4 DEF CallPlain
    <3>2. device' \in DeviceObjects /\ device'.conn = device.conn
      BY <3>1, DeviceTypes DEF IInv, Types
    <3>3. call' \in Calls /\ call'.op = "none" /\ call'.at \in Ops
      BY <1>0, <3>1, ReturnedType DEF Return
    <3> QED
      BY <2>1, <2>2, <3>1, <3>2, <3>3, StayStep
  <2> QED
    BY <2>3, <2>4
<1>4. ASSUME NEW op \in PlainCalls, PlainEnds(op)
      PROVE  IInv'
  <2>1. ~Resting
    BY <1>0, <1>4 DEF PlainEnds, At, Resting, Idle
  <2>2. PICK r \in Receipts(Conn) :
           /\ Take(r)
           /\ call' = IF NoError(r.reply)
                      THEN [Returned(op, "success") EXCEPT !.about = call.about]
                      ELSE Returned(op, "failed")
    BY <1>4 DEF PlainEnds
  <2>3. /\ Returned(op, "success") \in Calls /\ Returned(op, "failed") \in Calls
        /\ Returned(op, "success").op = "none" /\ Returned(op, "success").at = op
        /\ Returned(op, "failed").op = "none" /\ Returned(op, "failed").at = op
    BY <1>0, ReturnedType
  <2>4. call.about \in Numbers
    BY DEF IInv, Types, Calls
  <2>5. call' \in Calls /\ call'.op = "none" /\ call'.at = op
    <3>1. CASE NoError(r.reply)
      BY <2>2, <2>3, <2>4, <3>1 DEF Calls
    <3>2. CASE ~NoError(r.reply)
      BY <2>2, <2>3, <3>2
    <3> QED
      BY <3>1, <3>2
  <2>6. UNCHANGED <<outside, device, sent, record>>
    BY <1>4 DEF PlainEnds
  <2> QED
    BY <1>0, <2>1, <2>2, <2>5, <2>6, TakenReturn
<1> QED
  BY <1>1, <1>2, <1>3, <1>4

LEMMA SessionNext ==
    ASSUME IInv,
           \/ CallStartSession \/ StartSessionLacksRecord
           \/ SessionOpens \/ SessionFails \/ HandshakeFails
           \/ Reconnect \/ ReconnectRefused \/ CopyBag \/ BagEnds
           \/ CallStopSession \/ StopSessionHasNone \/ StopSessionEnds
    PROVE  IInv'
<1>0. /\ {"StartSession", "StopSession"} \subseteq Ops
      /\ {"StartSession", "StopSession", "GetValue"} \subseteq Kinds
      /\ {"session", "wifi", "stopped"} \subseteq Places
      /\ None \in Numbers /\ device \in DeviceObjects /\ record \in Records /\ call \in Calls
  BY BoundsAssumption DEF Ops, Kinds, Places, Numbers, None, IInv, Types
<1>1. CASE CallStartSession
  <2>1. /\ Connected /\ Idle /\ Room(2) /\ UNCHANGED <<outside, device, record>>
        /\ Ask(Conn, "StartSession", "session", "StartSession", record.id)
    BY <1>1 DEF CallStartSession
  <2>2. Conn \in Links /\ Clear(Conn) /\ record.id \in Numbers
    BY <1>0, <2>1, IdleRests DEF Records
  <2>3. Room(1)
    BY <2>1, BoundsAssumption DEF Room, IInv, Types, Numbers
  <2> QED
    BY <1>0, <2>1, <2>2, <2>3, AskStep
<1>2. CASE StartSessionLacksRecord \/ StopSessionHasNone
  <2>1. /\ Idle /\ call' \in Calls /\ call'.op = "none" /\ call'.at \in Ops
        /\ UNCHANGED <<outside, device, link, sent, record>>
    BY <1>0, <1>2, ReturnedType DEF StartSessionLacksRecord, StopSessionHasNone, Return
  <2> QED
    BY <1>0, <2>1, IdleRests, StayStep
<1>3. CASE SessionOpens
  <2>1. ~Resting /\ call.op = "StartSession" /\ call.at = "session"
    BY <1>3 DEF SessionOpens, At, Resting, Idle
  <2>2. PICK r \in Receipts(Conn) :
           /\ Good(r.reply, "StartSession") /\ MayShakeHands(r.link)
           /\ link' = [link EXCEPT ![device.conn] = [r.link EXCEPT !.mode = "tls"]]
           /\ device' = [device EXCEPT !.ssl = TRUE, !.session = r.reply.n]
    BY <1>3 DEF SessionOpens
  <2>3. /\ Connected /\ r.link \in Links /\ r.link.open = Conn.open
        /\ r.link.mode = Conn.mode /\ Clear(r.link)
        /\ \A i \in 1..Len(r.link.rep) : \E j \in 1..Len(Conn.rep) :
              r.link.rep[i] = Conn.rep[j]
        /\ r.reply.n \in Numbers
    BY <2>1, <2>2, Received DEF Good, NoError
  <2> DEFINE l == [r.link EXCEPT !.mode = "tls"]
  <2>4. /\ l \in Links /\ l.open = Conn.open /\ l.rep = r.link.rep /\ Clear(l)
        /\ l.mode # "refused"
        /\ link' = [link EXCEPT ![device.conn] = l]
    BY <2>2, <2>3 DEF Links, Clear
  <2> HIDE DEF l
  <2>5. device' \in DeviceObjects /\ device'.conn = device.conn
    BY <1>0, <2>2, <2>3 DEF DeviceObjects
  <2>6. /\ call' = [call EXCEPT !.at = "bag"] /\ record' = record /\ sent' = sent
        /\ attached' = attached /\ listed' = listed
        /\ trusted' = trusted /\ accepted' = accepted
    BY <1>3 DEF SessionOpens, outside
  <2>7. /\ link' \in [Sockets -> Links]
        /\ Connected' /\ Conn' = l
        /\ OneConnection' /\ PairsHold'
    BY <2>3, <2>4, <2>5, <2>6, OnConnection
  <2>8. call' \in Calls /\ call'.op = "StartSession" /\ call'.at = "bag"
    BY <1>0, <2>1, <2>6 DEF Calls, Places
  <2>9. Types'
    BY <2>5, <2>6, <2>7, <2>8 DEF IInv, Types
  <2>10. Placed'
    BY <2>1, <2>6, <2>7, <2>8 DEF IInv, Placed, Idle, At, Room
  <2>11. InStep'
    BY <2>4, <2>7, <2>8 DEF InStep, Resting
  <2>12. RecordIsAccepted'
    BY <2>6 DEF IInv, RecordIsAccepted
  <2> QED
    BY <2>7, <2>9, <2>10, <2>11, <2>12 DEF IInv
<1>4. CASE SessionFails
  <2>1. ~Resting
    BY <1>4 DEF SessionFails, At, Resting, Idle
  <2>2. PICK r \in Receipts(Conn) : Take(r)
    BY <1>4 DEF SessionFails
  <2>3. call' \in Calls /\ call'.op = "none" /\ call'.at \in Ops
    BY <1>0, <1>4, ReturnedType DEF SessionFails, Return
  <2>4. /\ device' \in DeviceObjects /\ device'.conn = device.conn
        /\ UNCHANGED <<outside, sent, record>>
    BY <1>0, <1>4, DeviceTypes DEF SessionFails, DeviceObjects, IInv
  <2>5. record' \in Records /\ RecordIsAccepted'
    BY <1>0, <2>4 DEF IInv, RecordIsAccepted, outside
  <2> QED
    BY <2>1, <2>2, <2>3, <2>4, <2>5, TakeStep
<1>5. CASE HandshakeFails
  <2>1. ~Resting /\ call.op = "StartSession" /\ call.at = "session" /\ Room(1)
    BY <1>5 DEF HandshakeFails, At, Resting, Idle, IInv, Placed
  <2>2. PICK r \in Receipts(Conn) :
           IF IsValid
           THEN /\ device' = Disconnected
                /\ link' = Closed
                /\ call' = [call EXCEPT !.at = "reconnect"]
           ELSE /\ device' = [Validated EXCEPT !.session = None]
                /\ Take(r)
                /\ Return("StartSession", "failed")
    BY <1>5 DEF HandshakeFails
  <2>3. /\ UNCHANGED <<outside, sent, record>>
        /\ UNCHANGED <<attached, listed, trusted, accepted>>
    BY <1>5 DEF HandshakeFails, outside
  <2>4. CASE IsValid
    <3>1. call' \in Calls /\ call'.op = "StartSession" /\ call'.at = "reconnect"
      BY <1>0, <2>1, <2>2, <2>4 DEF Calls, Places
    <3>2. device' \in DeviceObjects /\ device'.conn = None /\ link' = Closed
      BY <2>2, <2>4, DeviceTypes DEF IInv
    <3>3. attached' \in BOOLEAN /\ listed' \in BOOLEAN
      BY <2>3 DEF IInv, Types
    <3> QED
      BY <2>1, <2>3, <3>1, <3>2, <3>3, CloseStep
  <2>5. CASE ~IsValid
    <3>1. call' \in Calls /\ call'.op = "none" /\ call'.at \in Ops
      BY <1>0, <2>2, <2>5, ReturnedType DEF Return
    <3>2. device' \in DeviceObjects /\ device'.conn = device.conn /\ Take(r)
      BY <2>2, <2>5, DeviceTypes DEF IInv
    <3>3. record' \in Records /\ RecordIsAccepted'
      BY <1>0, <2>3 DEF IInv, RecordIsAccepted
    <3> QED
      BY <2>1, <2>3, <3>1, <3>2, <3>3, TakeStep
  <2> QED
    BY <2>4, <2>5
<1>6. CASE Reconnect
  <2>1. /\ call.op = "StartSession" /\ call.at = "reconnect"
        /\ ConnectToPort("StartSession") /\ record' = record
        /\ UNCHANGED <<attached, listed, trusted, accepted>>
    BY <1>6 DEF Reconnect, At, outside
  <2>2. ~Connected /\ Room(1)
    BY <2>1 DEF IInv, Placed, Idle
  <2>3. /\ link' \in [Sockets -> Links] /\ device' \in DeviceObjects
        /\ call' \in Calls /\ call'.op = "StartSession" /\ call'.at = "daemon"
        /\ sent' \in Numbers /\ Connected' /\ Awaits(Conn', call'.want)
        /\ OneConnection' /\ PairsHold'
    BY <1>0, <2>1, <2>2, OpeningConnection
  <2>4. Types' /\ Placed' /\ InStep' /\ RecordIsAccepted'
    BY <2>1, <2>3 DEF IInv, Types, Placed, InStep, Resting, Idle, At, RecordIsAccepted
  <2> QED
    BY <2>3, <2>4 DEF IInv
<1>7. CASE ReconnectRefused
  <2>1. /\ call' \in Calls /\ call'.op = "none" /\ call'.at \in Ops
        /\ RefusedToPort /\ UNCHANGED <<outside, device, sent, record>>
    BY <1>0, <1>7, ReturnedType DEF ReconnectRefused, Return
  <2>2. Resting /\ ~Connected
    BY <1>7 DEF ReconnectRefused, At, Resting, IInv, Placed, Idle
  <2> QED
    BY <1>0, <2>1, <2>2, RefusedStep
<1>8. CASE CopyBag
  <2>1. Resting /\ Connected /\ Clear(Conn) /\ Room(1) /\ call.at = "bag"
    BY <1>8 DEF CopyBag, At, Resting, IInv, Placed, InStep, Idle
  <2>2. Conn \in Links
    BY <2>1, BoundsAssumption DEF IInv, Types, Conn, DeviceObjects, Connected, None, Sockets
  <2>3. UNCHANGED <<outside, device, record>>
    BY <1>8 DEF CopyBag
  <2>4. CASE Return("StartSession", "success") /\ UNCHANGED <<link, sent>>
    <3>1. call' \in Calls /\ call'.op = "none" /\ call'.at \in Ops
      BY <1>0, <2>4, ReturnedType DEF Return
    <3> QED
      BY <1>0, <2>1, <2>3, <2>4, <3>1, StayStep
  <2>5. CASE Ask(Conn, "StartSession", "wifi", "GetValue", None)
    BY <1>0, <2>1, <2>2, <2>3, <2>5, AskStep
  <2> QED
    BY <1>8, <2>4, <2>5 DEF CopyBag
<1>9. CASE BagEnds
  <2>1. ~Resting
    BY <1>9 DEF BagEnds, At, Resting, Idle
  <2>2. PICK r \in Receipts(Conn) :
           IF Valueless(r.reply)
           THEN Restarted
           ELSE /\ Take(r)
                /\ Return("StartSession", "success")
                /\ UNCHANGED <<outside, device, sent, record>>
    BY <1>9 DEF BagEnds
  <2>3. CASE Valueless(r.reply)
    BY <2>2, <2>3, RestartStep
  <2>4. CASE ~Valueless(r.reply)
    <3>1. call' \in Calls /\ call'.op = "none" /\ call'.at \in Ops
      BY <1>0, <2>2, <2>4, ReturnedType DEF Return
    <3> QED
      BY <2>1, <2>2, <2>4, <3>1, TakenReturn
  <2> QED
    BY <2>3, <2>4
<1>10. CASE CallStopSession
  <2>1. /\ Connected /\ Idle /\ Room(1) /\ UNCHANGED <<outside, device, record>>
        /\ Ask(Conn, "StopSession", "stopped", "StopSession", device.session)
    BY <1>10 DEF CallStopSession
  <2>2. Conn \in Links /\ Clear(Conn) /\ device.session \in Numbers
    BY <1>0, <2>1, IdleRests DEF DeviceObjects
  <2> QED
    BY <1>0, <2>1, <2>2, AskStep
<1>11. CASE StopSessionEnds
  <2>1. ~Resting
    BY <1>11 DEF StopSessionEnds, At, Resting, Idle
  <2>2. PICK r \in Receipts(Conn) :
           /\ Take(r)
           /\ device' = [device EXCEPT !.session = None,
                                       !.ssl = @ /\ ~NoError(r.reply)]
           /\ Return("StopSession", IF NoError(r.reply) THEN "success" ELSE "failed")
    BY <1>11 DEF StopSessionEnds
  <2>3. call' \in Calls /\ call'.op = "none" /\ call'.at \in Ops
    BY <1>0, <2>2, ReturnedType DEF Return
  <2>4. device' \in DeviceObjects /\ device'.conn = device.conn
    <3>1. (device.ssl /\ ~NoError(r.reply)) \in BOOLEAN
      OBVIOUS
    <3> QED
      BY <1>0, <2>2, <3>1 DEF DeviceObjects
  <2>5. record' \in Records /\ RecordIsAccepted' /\ UNCHANGED <<outside, sent, record>>
    BY <1>0, <1>11 DEF StopSessionEnds, IInv, RecordIsAccepted, outside
  <2> QED
    BY <2>1, <2>2, <2>3, <2>4, <2>5, TakeStep
<1> QED
  BY <1>1, <1>2, <1>3, <1>4, <1>5, <1>6, <1>7, <1>8, <1>9, <1>10, <1>11

LEMMA PairNext ==
    ASSUME IInv,
           \/ PairHasRecord \/ CallPair \/ PairAsksKey \/ PairSends \/ PairLacksKey
           \/ PairStores \/ PairFails
    PROVE  IInv'
<1>0. /\ "Pair" \in Ops /\ {"GetValue", "Pair"} \subseteq Kinds
      /\ {"wifi", "key", "paired"} \subseteq Places
      /\ None \in Numbers /\ device \in DeviceObjects /\ record \in Records /\ call \in Calls
      /\ sent \in Nat
  BY BoundsAssumption DEF Ops, Kinds, Places, Numbers, None, IInv, Types
<1>1. CASE PairHasRecord
  <2>1. /\ Idle /\ call' \in Calls /\ call'.op = "none" /\ call'.at \in Ops
        /\ UNCHANGED <<outside, device, link, sent, record>>
    BY <1>0, <1>1, ReturnedType DEF PairHasRecord, Return
  <2> QED
    BY <1>0, <2>1, IdleRests, StayStep
<1>2. CASE CallPair
  <2>1. Idle /\ UNCHANGED <<outside, device, record>>
    BY <1>2 DEF CallPair
  <2>2. CASE Connected
    <3>1. Room(3) /\ Ask(Conn, "Pair", "wifi", "GetValue", None)
      BY <1>2, <2>2 DEF CallPair
    <3>2. Conn \in Links /\ Clear(Conn)
      BY <2>1, <2>2, IdleRests
    <3>3. Room(1)
      BY <1>0, <3>1, BoundsAssumption DEF Room
    <3> QED
      BY <1>0, <2>1, <2>2, <3>1, <3>2, <3>3, AskStep
  <2>3. CASE ~Connected
    <3>1. Return("Pair", "failed") /\ UNCHANGED <<link, sent>>
      BY <1>2, <2>3 DEF CallPair
    <3>2. call' \in Calls /\ call'.op = "none" /\ call'.at \in Ops
      BY <1>0, <3>1, ReturnedType DEF Return
    <3> QED
      BY <1>0, <2>1, <3>1, <3>2, IdleRests, StayStep
  <2> QED
    BY <2>2, <2>3
<1>3. CASE PairAsksKey
  <2>1. ~Resting /\ Room(2)
    BY <1>3 DEF PairAsksKey, At, Resting, Idle, IInv, Placed
  <2>2. PICK r \in Receipts(Conn) :
           IF Valueless(r.reply)
           THEN Restarted
           ELSE /\ Ask(r.link, "Pair", "key", "GetValue", None)
                /\ UNCHANGED <<outside, device, record>>
    BY <1>3 DEF PairAsksKey
  <2>3. CASE Valueless(r.reply)
    BY <2>2, <2>3, RestartStep
  <2>4. CASE ~Valueless(r.reply)
    <3>1. /\ Connected /\ r.link \in Links /\ r.link.open = Conn.open
          /\ r.link.mode = Conn.mode /\ Clear(r.link)
          /\ \A i \in 1..Len(r.link.rep) : \E j \in 1..Len(Conn.rep) :
                r.link.rep[i] = Conn.rep[j]
      BY <2>1, Received
    <3>2. Room(1)
      BY <1>0, <2>1, BoundsAssumption DEF Room
    <3> QED
      BY <1>0, <2>1, <2>2, <2>4, <3>1, <3>2, AskStep
  <2> QED
    BY <2>3, <2>4
<1>4. CASE PairSends
  <2>1. ~Resting /\ Room(1) /\ UNCHANGED <<outside, device, record>>
    BY <1>4 DEF PairSends, At, Resting, Idle, IInv, Placed
  <2>2. PICK r \in Receipts(Conn) : Ask(r.link, "Pair", "paired", "Pair", None)
    BY <1>4 DEF PairSends
  <2>3. /\ Connected /\ r.link \in Links /\ r.link.open = Conn.open
        /\ r.link.mode = Conn.mode /\ Clear(r.link)
        /\ \A i \in 1..Len(r.link.rep) : \E j \in 1..Len(Conn.rep) :
              r.link.rep[i] = Conn.rep[j]
    BY <2>1, Received
  <2> QED
    BY <1>0, <2>1, <2>2, <2>3, AskStep
<1>5. CASE PairLacksKey
  <2>1. ~Resting
    BY <1>5 DEF PairLacksKey, At, Resting, Idle
  <2>2. PICK r \in Receipts(Conn) :
           IF Valueless(r.reply)
           THEN Restarted
           ELSE /\ Take(r)
                /\ Return("Pair", "failed")
                /\ UNCHANGED <<outside, device, sent, record>>
    BY <1>5 DEF PairLacksKey
  <2>3. CASE Valueless(r.reply)
    BY <2>2, <2>3, RestartStep
  <2>4. CASE ~Valueless(r.reply)
    <3>1. call' \in Calls /\ call'.op = "none" /\ call'.at \in Ops
      BY <1>0, <2>2, <2>4, ReturnedType DEF Return
    <3> QED
      BY <2>1, <2>2, <2>4, <3>1, TakenReturn
  <2> QED
    BY <2>3, <2>4
<1>6. CASE PairStores
  <2>1. ~Resting /\ UNCHANGED <<outside, device, sent>> /\ accepted' = accepted
    BY <1>6 DEF PairStores, At, Resting, Idle, outside
  <2>2. PICK r \in Receipts(Conn) :
           /\ Good(r.reply, "Pair")
           /\ Take(r)
           /\ \/ /\ record' = [id |-> call.want, clean |-> r.link.late = 0]
                 /\ Return("Pair", "success")
              \/ /\ record' = record
                 /\ Return("Pair", IF record.id # None THEN "success" ELSE "failed")
    BY <1>6 DEF PairStores
  <2>3. call' \in Calls /\ call'.op = "none" /\ call'.at \in Ops
    BY <1>0, <2>2, ReturnedType DEF Return
  <2>4. r.link.late = 0 => call.want \in accepted
    <3>1. /\ Connected /\ Conn.rep # <<>> /\ r.reply = Conn.rep[1] /\ Conn \in Links
          /\ r.link.late = 0 => r.reply.n = call.want
      BY <2>1, <2>2, Received DEF Good, NoError
    <3>2. device.conn \in Sockets /\ 1 \in 1..Len(Conn.rep)
      <4>1. Len(Conn.rep) \in Nat \ {0}
        BY <3>1, EmptySeq DEF Links
      <4>2. device.conn \in Sockets
        BY <1>0, <3>1, BoundsAssumption DEF DeviceObjects, Connected, None, Sockets
      <4> QED
        BY <4>1, <4>2
    <3>3. r.reply.n \in accepted
      BY <2>2, <3>1, <3>2 DEF IInv, PairsHold, Conn, Good
    <3> QED
      BY <3>1, <3>3
  <2>5. record' \in Records /\ RecordIsAccepted'
    <3>1. CASE record' = record
      BY <1>0, <2>1, <3>1 DEF IInv, RecordIsAccepted
    <3>2. CASE record' = [id |-> call.want, clean |-> r.link.late = 0]
      <4>1. call.want \in Numbers /\ (r.link.late = 0) \in BOOLEAN
        BY <1>0 DEF Calls
      <4>2. record' \in Records /\ record'.id = call.want /\ (record'.clean <=> r.link.late = 0)
        BY <3>2, <4>1 DEF Records
      <4> QED
        BY <2>1, <2>4, <4>2 DEF RecordIsAccepted
    <3> QED
      BY <2>2, <3>1, <3>2
  <2> QED
    BY <1>0, <2>1, <2>2, <2>3, <2>5, TakeStep
<1>7. CASE PairFails
  <2>1. ~Resting /\ UNCHANGED <<outside, device, sent, record>>
    BY <1>7 DEF PairFails, At, Resting, Idle
  <2>2. PICK r \in Receipts(Conn) : Take(r)
    BY <1>7 DEF PairFails
  <2>3. call' \in Calls /\ call'.op = "none" /\ call'.at \in Ops
    BY <1>0, <1>7, ReturnedType DEF PairFails, Return
  <2> QED
    BY <2>1, <2>2, <2>3, TakenReturn
<1> QED
  BY <1>1, <1>2, <1>3, <1>4, <1>5, <1>6, <1>7

\* lockdownd, on one of its connections: it takes the first request and answers
\* it, or hangs up.
LEMMA ServedLink ==
    ASSUME IInv, NEW s \in Sockets, Serve(s)
    PROVE  /\ link' = [link EXCEPT ![s] = link'[s]]
           /\ link'[s] \in Links
           /\ link'[s].open = link[s].open
           /\ link'[s].mode = "refused" <=> link[s].mode = "refused"
           /\ Clear(link[s]) => Clear(link'[s])
           /\ \A n : Awaits(link[s], n) => Awaits(link'[s], n)
           /\ trusted' \subseteq Requests /\ accepted' \subseteq Requests
           /\ accepted \subseteq accepted'
           /\ \A i \in 1..Len(link'[s].rep) :
                 link'[s].rep[i].kind = "Pair" /\ link'[s].rep[i].verdict = "good"
                    => link'[s].rep[i].n \in accepted'
<1> DEFINE l == link[s]
           q == Head(l.req)
<1>1. /\ link \in [Sockets -> Links] /\ l \in Links
      /\ trusted \subseteq Requests /\ accepted \subseteq Requests
  BY DEF IInv, Types
<1>2. /\ q \in Requested /\ q = l.req[1] /\ Tail(l.req) \in Seq(Requested)
      /\ Len(l.req) \in Nat \ {0} /\ Len(Tail(l.req)) = Len(l.req) - 1
  <2>1. l.req \in Seq(Requested) /\ l.req # <<>>
    BY <1>1 DEF Serve, Links
  <2> QED
    BY <2>1, HeadTailProperties, EmptySeq
<1>3. l.up /\ l.req # <<>>
  BY DEF Serve
<1>4. CASE l.mode = "await" \/ q.tls # (l.mode = "tls")
  <2> DEFINE m == [l EXCEPT !.up = FALSE, !.req = <<>>]
  <2>1. link' = [link EXCEPT ![s] = m] /\ UNCHANGED <<trusted, accepted>>
    BY <1>1, <1>4 DEF Serve
  <2>2. /\ m \in Links /\ m.open = l.open /\ m.rep = l.rep /\ m.late = l.late
        /\ m.req = <<>> /\ m.mode = l.mode
    <3>1. <<>> \in Seq(Requested)
      BY EmptySeq
    <3> QED
      BY <1>1, <3>1 DEF Links
  <2> HIDE DEF m
  <2>3. link'[s] = m
    BY <1>1, <2>1
  <2>4. \A i \in 1..Len(l.rep) :
           l.rep[i].kind = "Pair" /\ l.rep[i].verdict = "good" => l.rep[i].n \in accepted
    BY DEF IInv, PairsHold
  <2> QED
    BY <1>1, <2>1, <2>2, <2>3, <2>4 DEF Clear, Awaits
<1>5. CASE ~(l.mode = "await" \/ q.tls # (l.mode = "tls"))
  <2>1. PICK verdict \in Verdicts(q.kind) :
           LET good == verdict = "good"
               answered == [l EXCEPT
                   !.req = Tail(@),
                   !.rep = IF l.open THEN Append(@, Reply(q, verdict, q.tls)) ELSE @]
           IN  /\ link' = [link EXCEPT ![s] =
                    IF good /\ q.kind = "StartSession"
                    THEN [answered EXCEPT !.mode = "await", !.session = q.n]
                    ELSE IF good /\ q.kind = "StopSession"
                         THEN [answered EXCEPT !.mode = "plain", !.session = None]
                         ELSE answered]
               /\ trusted' = IF good /\ q.kind = "Pair" THEN trusted \cup {q.n}
                             ELSE IF good /\ q.kind = "Unpair" THEN trusted \ {q.about}
                             ELSE trusted
               /\ accepted' = accepted \cup trusted'
    BY <1>5 DEF Serve
  <2> DEFINE answer == Reply(q, verdict, q.tls)
             rep == IF l.open THEN Append(l.rep, answer) ELSE l.rep
  <2>2. /\ answer \in Replied /\ answer.n = q.n /\ answer.kind = q.kind
        /\ answer.verdict = verdict
    BY <1>2 DEF Requested, Replied, Reply, Verdicts
  <2>3. /\ trusted' \subseteq Requests /\ accepted' \subseteq Requests
        /\ accepted \subseteq accepted'
        /\ verdict = "good" /\ q.kind = "Pair" => q.n \in accepted'
    BY <1>1, <1>2, <2>1 DEF Requested
  <2>4. /\ link'[s] \in Links /\ link'[s].open = l.open /\ link'[s].late = l.late
        /\ link'[s].rep = rep /\ link'[s].req = Tail(l.req) /\ link'[s].up = l.up
        /\ link' = [link EXCEPT ![s] = link'[s]]
        /\ link'[s].mode # "refused" /\ l.mode # "refused"
    <3>1. rep \in Seq(Replied)
      BY <1>1, <2>2, AppendProperties DEF Links
    <3>2. q.n \in Numbers /\ None \in Numbers
      BY <1>2, BoundsAssumption DEF Requested, Requests, Numbers, None
    <3> DEFINE answered == [l EXCEPT !.req = Tail(@), !.rep = rep]
    <3>3. /\ answered \in Links /\ answered.open = l.open /\ answered.late = l.late
          /\ answered.rep = rep /\ answered.req = Tail(l.req) /\ answered.up = l.up
      BY <1>1, <1>2, <1>3, <3>1 DEF Links
    <3>4. PICK m \in {answered, [answered EXCEPT !.mode = "await", !.session = q.n],
                      [answered EXCEPT !.mode = "plain", !.session = None]} :
             link' = [link EXCEPT ![s] = m]
      BY <2>1
    <3> HIDE DEF answered, rep
    <3>5. /\ m \in Links /\ m.open = l.open /\ m.late = l.late
          /\ m.rep = rep /\ m.req = Tail(l.req) /\ m.up = l.up
      BY <3>2, <3>3, <3>4 DEF Links
    <3>6. link'[s] = m /\ m.mode # "refused" /\ l.mode # "refused"
      BY <1>1, <1>3, <3>4, <3>5 DEF Links
    <3> QED
      BY <3>4, <3>5, <3>6
  <2>5. ASSUME Clear(l) PROVE Clear(link'[s])
    BY <1>3, <2>4, <2>5 DEF Clear
  <2>6. ASSUME NEW n, Awaits(l, n) PROVE Awaits(link'[s], n)
    <3> SUFFICES ASSUME l.late = 0
                 PROVE  /\ Tail(l.req) = <<>>
                        /\ rep = <<>> \/ (Len(rep) = 1 /\ rep[1].n = n)
      BY <2>4 DEF Awaits
    <3>1. l.rep = <<>> /\ Len(l.req) = 1 /\ l.req[1].n = n
      BY <1>3, <2>6 DEF Awaits
    <3>2. Tail(l.req) = <<>>
      <4>1. Tail(l.req) # <<>> => Len(Tail(l.req)) \in Nat \ {0}
        BY <1>2, EmptySeq
      <4> QED
        BY <1>2, <3>1, <4>1
    <3>3. Len(Append(<<>>, answer)) = 1 /\ Append(<<>>, answer)[1] = answer
      OBVIOUS
    <3> QED
      BY <1>2, <2>2, <3>1, <3>2, <3>3
  <2>7. ASSUME NEW i \in 1..Len(rep), rep[i].kind = "Pair", rep[i].verdict = "good"
        PROVE  rep[i].n \in accepted'
    <3>1. \A j \in 1..Len(l.rep) :
             l.rep[j].kind = "Pair" /\ l.rep[j].verdict = "good" => l.rep[j].n \in accepted
      BY DEF IInv, PairsHold
    <3>2. CASE ~l.open
      BY <2>3, <2>7, <3>1, <3>2
    <3>3. CASE l.open
      <4>1. /\ Len(l.rep) \in Nat /\ Len(rep) = Len(l.rep) + 1
            /\ \A j \in 1..Len(l.rep) : rep[j] = l.rep[j]
            /\ rep[Len(l.rep) + 1] = answer
        BY <1>1, <2>2, <3>3, AppendProperties, LenProperties DEF Links
      <4>2. CASE i = Len(l.rep) + 1
        BY <2>2, <2>3, <2>7, <4>1, <4>2
      <4>3. CASE i \in 1..Len(l.rep)
        BY <2>3, <2>7, <3>1, <4>1, <4>3
      <4> QED
        BY <4>1, <4>2, <4>3
    <3> QED
      BY <3>2, <3>3
  <2> QED
    BY <2>3, <2>4, <2>5, <2>6, <2>7
<1> QED
  BY <1>4, <1>5

LEMMA OutsideNext ==
    ASSUME IInv,
           \/ \E s \in Sockets : Serve(s) \/ Hangup(s)
           \/ Unplug \/ Delist \/ Restart
    PROVE  IInv'
<1>0. link \in [Sockets -> Links] /\ <<>> \in Seq(Requested)
  BY EmptySeq DEF IInv, Types
<1>1. ASSUME NEW s \in Sockets, Serve(s) PROVE IInv'
  <2>1. UNCHANGED <<attached, listed, device, call, sent, record>>
    BY <1>1 DEF Serve
  <2>2. /\ link' \in [Sockets -> Links] /\ trusted' \subseteq Requests /\ accepted' \subseteq Requests
        /\ accepted \subseteq accepted'
        /\ \A u \in Sockets : link'[u].open = link[u].open
        /\ \A u \in Sockets : Clear(link[u]) => Clear(link'[u])
        /\ \A u \in Sockets : \A n : Awaits(link[u], n) => Awaits(link'[u], n)
    <3>1. /\ link' \in [Sockets -> Links] /\ \A u \in Sockets : u # s => link'[u] = link[u]
      BY <1>0, <1>1, ServedLink
    <3> QED
      BY <1>1, <3>1, ServedLink
  <2>3. PairsHold'
    <3> SUFFICES ASSUME NEW u \in Sockets, NEW i \in 1..Len(link'[u].rep),
                        link'[u].rep[i].kind = "Pair", link'[u].rep[i].verdict = "good"
                 PROVE  link'[u].rep[i].n \in accepted'
      BY DEF PairsHold
    <3>1. CASE u = s
      BY <1>1, <3>1, ServedLink
    <3>2. CASE u # s
      <4>1. link'[u] = link[u]
        BY <1>0, <1>1, <3>2, ServedLink
      <4> QED
        BY <2>2, <4>1 DEF IInv, PairsHold
    <3> QED
      BY <3>1, <3>2
  <2>4. Types'
    BY <2>1, <2>2 DEF IInv, Types
  <2>5. Placed' /\ RecordIsAccepted'
    BY <2>1, <2>2 DEF IInv, Placed, Idle, At, Room, Connected, RecordIsAccepted
  <2>7. OneConnection'
    <3>1. \A u \in Sockets : /\ link'[u].open = link[u].open
                             /\ link'[u].mode = "refused" <=> link[u].mode = "refused"
      BY <1>0, <1>1, ServedLink
    <3>2. Connected => device.conn \in Sockets
      BY BoundsAssumption DEF IInv, Types, DeviceObjects, Connected, None, Sockets
    <3> QED
      BY <2>1, <3>1, <3>2 DEF IInv, OneConnection, Connected, Conn
  <2>6. InStep'
    <3> SUFFICES ASSUME Connected
                 PROVE  IF Resting THEN Clear(link'[device.conn])
                        ELSE Awaits(link'[device.conn], call.want)
      BY <2>1 DEF InStep, Connected, Conn, Resting, Idle
    <3>1. device.conn \in Sockets
      BY BoundsAssumption DEF IInv, Types, DeviceObjects, Connected, None, Sockets
    <3> QED
      BY <2>2, <3>1 DEF IInv, InStep, Conn
  <2> QED
    BY <2>3, <2>4, <2>5, <2>6, <2>7 DEF IInv
<1>2. ASSUME UNCHANGED <<device, call, sent, record, trusted, accepted>>,
             attached' \in BOOLEAN, listed' \in BOOLEAN,
             link' \in [Sockets -> Links],
             \A u \in Sockets : /\ link'[u].open = link[u].open /\ link'[u].late = link[u].late
                               /\ link'[u].mode = link[u].mode
                               /\ link'[u].rep = link[u].rep
                               /\ link'[u].req \in {<<>>, link[u].req}
      PROVE  IInv'
  <2>1. Types' /\ Placed' /\ OneConnection' /\ PairsHold' /\ RecordIsAccepted'
    BY <1>2 DEF IInv, Types, Placed, Idle, At, Room, Connected, OneConnection, PairsHold,
       RecordIsAccepted, Conn, DeviceObjects, None, Sockets
  <2>2. InStep'
    <3> SUFFICES ASSUME Connected
                 PROVE  IF Resting THEN Clear(link'[device.conn])
                        ELSE Awaits(link'[device.conn], call.want)
      BY <1>2 DEF InStep, Connected, Conn, Resting, Idle
    <3>1. device.conn \in Sockets
      BY BoundsAssumption DEF IInv, Types, DeviceObjects, Connected, None, Sockets
    <3>2. IF Resting THEN Clear(link[device.conn])
          ELSE Awaits(link[device.conn], call.want)
      BY DEF IInv, InStep, Conn
    <3> QED
      BY <1>2, <3>1, <3>2 DEF Clear, Awaits
  <2> QED
    BY <2>1, <2>2 DEF IInv
<1>3. ASSUME NEW s \in Sockets, Hangup(s) PROVE IInv'
  <2> DEFINE m == [link[s] EXCEPT !.up = FALSE, !.req = <<>>]
  <2>1. link' = [link EXCEPT ![s] = m]
    BY <1>0, <1>3 DEF Hangup
  <2>2. /\ m \in Links /\ m.open = link[s].open /\ m.rep = link[s].rep
        /\ m.mode = link[s].mode
        /\ m.late = link[s].late /\ m.req = <<>>
    BY <1>0 DEF Links
  <2> HIDE DEF m
  <2>3. link' \in [Sockets -> Links] /\ link'[s] = m
        /\ \A u \in Sockets : u # s => link'[u] = link[u]
    BY <1>0, <2>1, <2>2
  <2>4. \A u \in Sockets : /\ link'[u].open = link[u].open /\ link'[u].late = link[u].late
                           /\ link'[u].rep = link[u].rep /\ link'[u].mode = link[u].mode
                           /\ link'[u].req \in {<<>>, link[u].req}
    BY <2>2, <2>3
  <2>5. /\ UNCHANGED <<device, call, sent, record, trusted, accepted>>
        /\ attached' \in BOOLEAN /\ listed' \in BOOLEAN
    BY <1>3 DEF Hangup, outside, IInv, Types
  <2> QED
    BY <1>2, <2>3, <2>4, <2>5
<1>4. CASE Unplug
  <2> DEFINE m(u) == [link[u] EXCEPT !.up = FALSE, !.req = <<>>]
  <2>1. link' = [u \in Sockets |-> m(u)]
    BY <1>4 DEF Unplug
  <2>2. \A u \in Sockets : /\ m(u) \in Links /\ m(u).open = link[u].open
                           /\ m(u).rep = link[u].rep /\ m(u).mode = link[u].mode
                           /\ m(u).late = link[u].late /\ m(u).req = <<>>
    BY <1>0 DEF Links
  <2> HIDE DEF m
  <2>3. link' \in [Sockets -> Links] /\ \A u \in Sockets : link'[u] = m(u)
    BY <2>1, <2>2
  <2>4. /\ UNCHANGED <<device, call, sent, record, trusted, accepted>>
        /\ attached' \in BOOLEAN /\ listed' \in BOOLEAN
    BY <1>4 DEF Unplug, IInv, Types
  <2> QED
    BY <1>2, <2>2, <2>3, <2>4
<1>5. CASE Delist
  BY <1>0, <1>2, <1>5 DEF Delist, IInv, Types
<1>6. CASE Restart
  BY <1>6, RestartStep DEF Restart
<1> QED
  BY <1>1, <1>3, <1>4, <1>5, <1>6

LEMMA InitIInv == Init => IInv
<1> SUFFICES ASSUME Init
             PROVE  IInv
  OBVIOUS
<1>1. /\ device = NewDevice /\ call = NoCall /\ link = [s \in Sockets |-> Silent(FALSE, FALSE)]
      /\ attached = TRUE /\ listed = TRUE
  BY DEF Init
<1>2. Silent(FALSE, FALSE) \in Links /\ Silent(FALSE, FALSE).rep = <<>>
      /\ Silent(FALSE, FALSE).open = FALSE
  <2>1. <<>> \in Seq(Requested) /\ <<>> \in Seq(Replied) /\ 0 \in Numbers
    BY EmptySeq, BoundsAssumption DEF Numbers
  <2> QED
    BY <2>1 DEF Silent, Links, None
<1>3. /\ sent \in Numbers /\ record \in Records /\ trusted \subseteq Requests
      /\ accepted \subseteq Requests /\ RecordIsAccepted
  <2>1. {0, 1} \subseteq Numbers /\ {1} \subseteq Requests
    BY BoundsAssumption DEF Numbers, Requests
  <2>2. CASE /\ sent = 0 /\ record = NoRecord /\ accepted = {} /\ trusted = {}
    BY <2>1, <2>2, NoneTypes DEF RecordIsAccepted
  <2>3. CASE /\ sent = 1 /\ record = [id |-> 1, clean |-> TRUE]
             /\ accepted = {1} /\ trusted \in SUBSET {1}
    BY <2>1, <2>3 DEF RecordIsAccepted, Records
  <2> QED
    BY <2>2, <2>3 DEF Init
<1>4. ~Connected /\ Idle
  BY <1>1, NoneTypes DEF Connected, Idle
<1>5. Types
  BY <1>1, <1>2, <1>3, NoneTypes DEF Types
<1>6. Placed /\ InStep
  BY <1>1, <1>4, NoneTypes DEF Placed, InStep, Idle, At
<1>7. OneConnection /\ PairsHold
  <2>1. 1..Len(<<>>) = {}
    OBVIOUS
  <2>2. \A s \in Sockets : link[s].open = FALSE /\ 1..Len(link[s].rep) = {}
    BY <1>1, <1>2, <2>1
  <2> QED
    BY <1>4, <2>2 DEF OneConnection, PairsHold
<1> QED
  BY <1>3, <1>5, <1>6, <1>7 DEF IInv

LEMMA NextIInv == IInv /\ [Next]_vars => IInv'
<1> SUFFICES ASSUME IInv, [Next]_vars
             PROVE  IInv'
  OBVIOUS
<1>1. CASE CallStep
  BY <1>1, ConnectNext, RequestsNext, SessionNext, PairNext DEF CallStep
<1>2. CASE EndStep
  BY <1>2, ConnectNext, RequestsNext, SessionNext, PairNext DEF EndStep
<1>3. CASE OutsideStep
  BY <1>3, OutsideNext DEF OutsideStep
<1>4. CASE UNCHANGED vars
  <2>1. Types' /\ Placed' /\ PairsHold' /\ RecordIsAccepted' /\ OneConnection'
    BY <1>4 DEF vars, IInv, Types, Placed, Idle, At, Room, Connected, PairsHold,
       RecordIsAccepted, OneConnection, Conn
  <2>2. InStep'
    BY <1>4 DEF vars, IInv, InStep, Connected, Conn, Resting, Idle
  <2> QED
    BY <2>1, <2>2 DEF IInv
<1> QED
  BY <1>1, <1>2, <1>3, <1>4 DEF Next

-----------------------------------------------------------------------------
(* The theorems.                                                           *)

\* Every step keeps the types, the turns of requests and replies, the sockets
\* and the record.
THEOREM Invariance == Spec => []IInv
  BY InitIInv, NextIInv, PTL DEF Spec

\* The variables keep their types, and a call that waits has a connection.
THEOREM TypeCorrect == Spec => []TypeOK
<1>1. IInv => TypeOK
  BY DEF IInv, Types, Placed, TypeOK, Links, DeviceObjects, Calls, Records
<1> QED
  BY <1>1, Invariance, PTL

\* A call reads the reply to its own request and leaves nothing for the next,
\* whatever was sent, refused or lost on this connection, as long as no receive
\* gave up on it.
THEOREM TurnsAreKept == Spec => []RepliesInStep
<1>1. IInv => RepliesInStep
  <2> SUFFICES ASSUME IInv, Connected, Conn.late = 0
               PROVE  LET pending == Conn.req \o Conn.rep IN
                      IF Resting THEN pending = <<>>
                      ELSE Len(pending) <= 1
                           /\ \A i \in 1..Len(pending) : pending[i].n = call.want
    BY DEF RepliesInStep, Resting
  <2>1. /\ Conn.req \in Seq(Requested) /\ Conn.rep \in Seq(Replied)
    BY BoundsAssumption DEF IInv, Types, Links, Conn, DeviceObjects, Connected, None, Sockets
  <2>2. CASE Resting
    <3>1. Conn.req = <<>> /\ Conn.rep = <<>>
      BY <2>2 DEF IInv, InStep, Clear
    <3>2. <<>> \o <<>> = <<>>
      OBVIOUS
    <3> QED
      BY <2>2, <3>1, <3>2
  <2>3. CASE ~Resting
    <3>1. Awaits(Conn, call.want)
      BY <2>3 DEF IInv, InStep
    <3>2. /\ Conn.rep = <<>> => Conn.req \o Conn.rep = Conn.req
          /\ Conn.req = <<>> => Conn.req \o Conn.rep = Conn.rep
      BY <2>1, ConcatEmptySeq
    <3>3. Len(<<>>) = 0 /\ 1..0 = {} /\ \A i \in 1..1 : i = 1
      OBVIOUS
    <3> DEFINE pending == Conn.req \o Conn.rep
    <3>a. ASSUME NEW p, Len(p) = 1, p[1].n = call.want
          PROVE  Len(p) <= 1 /\ \A i \in 1..Len(p) : p[i].n = call.want
      BY <3>3, <3>a
    <3>4. CASE Conn.req = <<>> /\ Conn.rep = <<>>
      <4>1. pending = <<>>
        BY <3>2, <3>4
      <4> QED
        BY <2>3, <3>3, <4>1
    <3>5. CASE Conn.req = <<>> /\ Len(Conn.rep) = 1 /\ Conn.rep[1].n = call.want
      <4>1. Len(pending) = 1 /\ pending[1].n = call.want
        BY <3>2, <3>5
      <4>2. Len(pending) <= 1 /\ \A i \in 1..Len(pending) : pending[i].n = call.want
        BY <3>a, <4>1
      <4> QED
        BY <2>3, <4>2
    <3>6. CASE Conn.rep = <<>> /\ Len(Conn.req) = 1 /\ Conn.req[1].n = call.want
      <4>1. Len(pending) = 1 /\ pending[1].n = call.want
        BY <3>2, <3>6
      <4>2. Len(pending) <= 1 /\ \A i \in 1..Len(pending) : pending[i].n = call.want
        BY <3>a, <4>1
      <4> QED
        BY <2>3, <4>2
    <3> QED
      BY <3>1, <3>4, <3>5, <3>6 DEF Awaits
  <2> QED
    BY <2>2, <2>3
<1> QED
  BY <1>1, Invariance, PTL

\* The host has one socket to lockdownd at most, that of the device object.
THEOREM SocketsAreOne == Spec => []OneConnection
<1>1. IInv => OneConnection
  BY DEF IInv
<1> QED
  BY <1>1, Invariance, PTL

\* A record on disk is of a pairing the device accepted.
THEOREM RecordsAreAccepted == Spec => []RecordIsAccepted
<1>1. IInv => RecordIsAccepted
  BY DEF IInv
<1> QED
  BY <1>1, Invariance, PTL

-----------------------------------------------------------------------------
(***************************************************************************)
(* The sessions: the one the device object holds is the one lockdownd has, *)
(* as long as requests and replies are in step.                            *)
(***************************************************************************)
(* The inductive invariant.                                                *)

Stopping == At("StopSession", "stopped")
Starting == At("StartSession", "session")

\* Both ends of connection l speak TLS, in session n.
Agreed(d, l) == l.up /\ l.late = 0 => d.ssl /\ l.mode = "tls" /\ l.session = d.session

\* The session is lockdownd's, until it may have answered StopSession.
Held ==
    device.session # None =>
        /\ Connected
        /\ (Stopping /\ Conn.req = <<>>) \/ Agreed(device, Conn)

\* A session is asked for, or to end, only by the call that does so.
AskedFor(l, starting, stopping) ==
    l.late = 0 =>
        \A i \in 1..Len(l.req) :
            /\ l.req[i].kind = "StartSession" => starting
            /\ l.req[i].kind = "StopSession" => stopping

\* A session that is granted is lockdownd's.
Granted(l) ==
    l.up /\ l.late = 0 =>
        \A i \in 1..Len(l.rep) :
            l.rep[i].kind = "StartSession" /\ l.rep[i].verdict = "good"
                => l.session = l.rep[i].n

SessionInv ==
    /\ Held
    /\ Connected => AskedFor(Conn, Starting, Stopping)
    /\ Starting => Granted(Conn)

-----------------------------------------------------------------------------
(* The steps.                                                              *)

LEMMA ConnType == ASSUME IInv, Connected PROVE Conn \in Links /\ device.conn \in Sockets
  BY BoundsAssumption DEF IInv, Types, Conn, DeviceObjects, Connected, None, Sockets

\* The device has no connection, and no session.
LEMMA SessionGone ==
    ASSUME ~Connected', device'.session = None, ~Starting'
    PROVE  SessionInv'
  BY DEF SessionInv, Held

\* The connection stays, and a call ends.
LEMMA SessionEnds ==
    ASSUME SessionInv, IInv', device'.conn = device.conn, call'.op = "none",
           Connected => /\ Conn'.up = Conn.up /\ Conn'.mode = Conn.mode
                        /\ Conn'.session = Conn.session
                        /\ Conn'.late = 0 => Conn.late = 0,
           \/ device'.session = None
           \/ ~Stopping /\ device'.session = device.session /\ device'.ssl = device.ssl
    PROVE  SessionInv'
<1>1. ~Starting' /\ ~Stopping' /\ Idle'
  BY DEF Starting, Stopping, At, Idle
<1>2. Connected' <=> Connected
  BY DEF Connected
<1>3. Connected' => AskedFor(Conn', Starting', Stopping')
  <2>1. Connected' => (Conn'.late = 0 => Conn'.req = <<>>)
    BY <1>1 DEF IInv, InStep, Resting, Clear
  <2>2. 1..Len(<<>>) = {}
    OBVIOUS
  <2> QED
    BY <2>1, <2>2 DEF AskedFor
<1>4. Held'
  BY <1>2 DEF SessionInv, Held, Agreed
<1> QED
  BY <1>1, <1>3, <1>4 DEF SessionInv

\* A reply is taken, and the call ends.
LEMMA SessionTakes ==
    ASSUME IInv, SessionInv, IInv', ~Resting, NEW r \in Receipts(Conn), Take(r),
           device'.conn = device.conn, call'.op = "none",
           \/ device'.session = None
           \/ ~Stopping /\ device'.session = device.session /\ device'.ssl = device.ssl
    PROVE  SessionInv'
<1>1. Connected /\ Conn \in Links
  BY Received
<1>2. /\ r.link.up = Conn.up /\ r.link.mode = Conn.mode /\ r.link.session = Conn.session
      /\ r.link.late = 0 => Conn.late = 0
  <2>1. Conn.late \in Nat
    BY <1>1 DEF Links
  <2> QED
    BY <1>1, <2>1, ReceiptLink
<1>3. Conn' = r.link
  BY <1>1, ConnType DEF Take, Conn, IInv, Types
<1> QED
  BY <1>2, <1>3, SessionEnds

\* A request is sent that is about no session, or by the call that is.
LEMMA SessionAsks ==
    ASSUME IInv, SessionInv, ~Stopping, Connected, NEW l \in Links, Clear(l),
           l.up = Conn.up, l.mode = Conn.mode, l.session = Conn.session,
           l.late = 0 => Conn.late = 0,
           NEW op, NEW at, NEW kind \in Kinds, NEW about \in Numbers, Room(1),
           Ask(l, op, at, kind, about), UNCHANGED device,
           kind = "StartSession" => op = "StartSession" /\ at = "session",
           kind = "StopSession" => op = "StopSession" /\ at = "stopped"
    PROVE  SessionInv'
<1> DEFINE q == Request(kind, about)
           m == Sent(l, q)
<1>1. q \in Requested /\ q.kind = kind
  BY RequestType DEF IInv
<1>2. /\ m.up = l.up /\ m.rep = l.rep /\ m.late = l.late /\ m.mode = l.mode
      /\ m.session = l.session
      /\ m.req = IF l.up THEN Append(l.req, q) ELSE l.req
  BY <1>1, SentLink
<1>3. /\ Connected' /\ Conn' = m /\ call'.op = op /\ call'.at = at
  BY ConnType DEF Ask, Conn, Connected, IInv, Types, Waiting
<1> HIDE DEF m
<1>4. AskedFor(m, Starting', Stopping')
  <2> SUFFICES ASSUME m.late = 0, NEW i \in 1..Len(m.req)
               PROVE  /\ m.req[i].kind = "StartSession" => Starting'
                      /\ m.req[i].kind = "StopSession" => Stopping'
    BY DEF AskedFor
  <2>1. m.req = IF l.up THEN Append(<<>>, q) ELSE <<>>
    BY <1>2 DEF Clear
  <2>2. Len(Append(<<>>, q)) = 1 /\ Append(<<>>, q)[1] = q /\ Len(<<>>) = 0
    OBVIOUS
  <2>3. m.req[i] = q
    BY <2>1, <2>2
  <2> QED
    BY <1>1, <1>3, <2>3 DEF Starting, Stopping, At
<1>5. Granted(m)
  <2>1. m.late = 0 => 1..Len(m.rep) = {}
    <3>1. 1..Len(<<>>) = {}
      OBVIOUS
    <3> QED
      BY <1>2, <3>1 DEF Clear
  <2> QED
    BY <2>1 DEF Granted
<1>6. Held'
  BY <1>2, <1>3 DEF SessionInv, Held, Agreed
<1> QED
  BY <1>3, <1>4, <1>5, <1>6 DEF SessionInv

\* A connection is opened, of a device object without a session.
LEMMA SessionOpening ==
    ASSUME IInv, SessionInv, ~Connected, Room(1), NEW op, ConnectToPort(op)
    PROVE  SessionInv'
<1> DEFINE q == [n |-> sent + 1, kind |-> "QueryType", about |-> None, tls |-> FALSE]
           l == Sent(Silent(TRUE, TRUE), q)
<1>1. PICK s \in Sockets :
         /\ device' = [device EXCEPT !.conn = s, !.ssl = FALSE]
         /\ link' = [link EXCEPT ![s] = l]
         /\ call' = Waiting(op, "daemon", None)
  BY DEF ConnectToPort
<1>2. device'.session = None
  BY <1>1 DEF SessionInv, Held, IInv, Types, DeviceObjects
<1>3. ~Starting' /\ ~Stopping'
  BY <1>1 DEF Starting, Stopping, At, Waiting
<1>4. Conn' = l
  BY <1>1 DEF Conn, IInv, Types, DeviceObjects
<1>5. AskedFor(l, Starting', Stopping')
  <2>1. l.req = Append(<<>>, q)
    BY DEF Sent, Silent
  <2>2. Len(Append(<<>>, q)) = 1 /\ Append(<<>>, q)[1] = q /\ q.kind = "QueryType"
    OBVIOUS
  <2> HIDE DEF q
  <2>3. Len(l.req) = 1 /\ l.req[1].kind = "QueryType"
    BY <2>1, <2>2
  <2> HIDE DEF l
  <2>4. \A i \in 1..Len(l.req) : l.req[i].kind = "QueryType"
    BY <2>3
  <2> QED
    BY <2>4 DEF AskedFor
<1> HIDE DEF q, l
<1> QED
  BY <1>2, <1>3, <1>4, <1>5 DEF SessionInv, Held

\* No step of a call changes a session but those that open and end one.
LEMMA CallsNext ==
    ASSUME IInv, SessionInv, IInv',
           \/ CallConnect \/ ConnectRefused \/ ConnectAgain \/ ConnectEnds
           \/ CallDisconnect \/ CallIsValid
           \/ CallCopyValue \/ CopyValueEnds
           \/ \E op \in PlainCalls : CallPlain(op) \/ PlainEnds(op)
    PROVE  SessionInv'
<1>a. ASSUME Idle PROVE ~Stopping /\ (Connected => Conn \in Links /\ Clear(Conn))
  BY <1>a, IdleRests DEF Stopping, At, Idle
<1>1. CASE CallConnect
  BY <1>1, SessionOpening DEF CallConnect
<1>2. CASE ConnectRefused
  BY <1>2, <1>a, SessionEnds DEF ConnectRefused, Return, Returned, NoCall, Connected
<1>3. CASE ConnectAgain
  <2>1. Idle /\ call'.op = "none"
    BY <1>3 DEF ConnectAgain, Return, Returned, NoCall
  <2>2. CASE IsValid
    BY <1>3, <1>a, <2>1, <2>2, SessionEnds DEF ConnectAgain, Conn
  <2>3. CASE ~IsValid
    <3>1. device'.session = None /\ device'.conn = None
      BY <1>3, <2>3 DEF ConnectAgain, Disconnected, IInv, Types, DeviceObjects
    <3> QED
      BY <2>1, <3>1, SessionGone DEF Connected, Starting, At
  <2> QED
    BY <2>2, <2>3
<1>4. CASE ConnectEnds
  <2>1. ~Resting /\ ~Stopping
    BY <1>4 DEF ConnectEnds, IInv, Placed, Resting, Types, Calls, Idle, Ops, PlainCalls,
       Stopping, At
  <2>2. PICK r \in Receipts(Conn) :
           IF r.reply.verdict = "other"
           THEN device' = Disconnected /\ link' = Closed
           ELSE device' = device /\ Take(r)
    BY <1>4 DEF ConnectEnds
  <2>3. call'.op = "none"
    BY <1>4 DEF ConnectEnds, Return, Returned, NoCall
  <2>4. CASE r.reply.verdict = "other"
    <3>1. device'.session = None /\ device'.conn = None
      BY <2>2, <2>4 DEF Disconnected, IInv, Types, DeviceObjects
    <3> QED
      BY <2>3, <3>1, SessionGone DEF Connected, Starting, At
  <2>5. CASE r.reply.verdict # "other"
    BY <2>1, <2>2, <2>3, <2>5, SessionTakes
  <2> QED
    BY <2>4, <2>5
<1>5. CASE CallDisconnect
  <2>1. device'.session = None /\ device'.conn = None /\ call'.op = "none"
    BY <1>5 DEF CallDisconnect, Disconnected, Return, Returned, NoCall, IInv, Types, DeviceObjects
  <2> QED
    BY <2>1, SessionGone DEF Connected, Starting, At
<1>6. CASE CallIsValid
  <2>1. /\ device'.session = device.session /\ device'.conn = device.conn
        /\ device'.ssl = device.ssl /\ call'.op = "none"
        /\ Idle /\ link' = link
    BY <1>6 DEF CallIsValid, Validated, Return, Returned, NoCall, IInv, Types, DeviceObjects
  <2> QED
    BY <1>a, <2>1, SessionEnds DEF Conn
<1>7. CASE CallCopyValue
  <2>1. /\ Connected /\ Idle /\ Room(1) /\ UNCHANGED device
        /\ Ask(Conn, "CopyValue", "value", "GetValue", None)
    BY <1>7 DEF CallCopyValue
  <2>2. "GetValue" \in Kinds /\ None \in Numbers
    BY BoundsAssumption DEF Kinds, None, Numbers
  <2> QED
    BY <1>a, <2>1, <2>2, SessionAsks
<1>8. CASE CopyValueEnds
  <2>1. ~Resting /\ ~Stopping
    BY <1>8 DEF CopyValueEnds, At, Resting, Idle, Stopping
  <2>2. PICK r \in Receipts(Conn) :
           \/ Restarted
           \/ /\ Take(r) /\ UNCHANGED device
              /\ \/ call' = [Returned("CopyValue", "success") EXCEPT
                               !.want = call.want, !.got = r.reply.n]
                 \/ call' = Returned("CopyValue", "failed")
    BY <1>8 DEF CopyValueEnds
  <2>3. CASE Restarted
    BY <2>3, SessionGone DEF Restarted, NewDevice, NoCall, Connected, Starting, At
  <2>4. CASE ~Restarted
    <3>1. call'.op = "none"
      BY <2>2, <2>4 DEF Returned, NoCall
    <3> QED
      BY <2>1, <2>2, <2>4, <3>1, SessionTakes
  <2> QED
    BY <2>3, <2>4
<1>9. ASSUME NEW op \in PlainCalls, CallPlain(op) PROVE SessionInv'
  <2>1. Idle /\ op \in Kinds /\ op \notin {"StartSession", "StopSession"}
    BY <1>9 DEF CallPlain, Kinds, PlainCalls
  <2>2. CASE Connected
    <3>1. PICK about \in Numbers :
             Room(1) /\ Ask(Conn, op, "reply", op, about) /\ device' = device
      BY <1>9, <2>2, BoundsAssumption DEF CallPlain, IInv, Types, Records, None, Numbers
    <3> QED
      BY <1>a, <2>1, <2>2, <3>1, SessionAsks
  <2>3. CASE ~Connected
    <3>1. /\ device'.session = device.session /\ device'.conn = device.conn
          /\ device'.ssl = device.ssl /\ call'.op = "none"
      BY <1>9, <2>3 DEF CallPlain, Validated, Return, Returned, NoCall, IInv, Types, DeviceObjects
    <3> QED
      BY <1>a, <2>1, <2>3, <3>1, SessionEnds
  <2> QED
    BY <2>2, <2>3
<1>10. ASSUME NEW op \in PlainCalls, PlainEnds(op) PROVE SessionInv'
  <2>1. ~Resting /\ ~Stopping
    BY <1>10 DEF PlainEnds, At, Resting, Idle, Stopping, PlainCalls
  <2>2. PICK r \in Receipts(Conn) :
           /\ Take(r)
           /\ call' = IF NoError(r.reply)
                      THEN [Returned(op, "success") EXCEPT !.about = call.about]
                      ELSE Returned(op, "failed")
    BY <1>10 DEF PlainEnds
  <2>3. call'.op = "none" /\ UNCHANGED device
    BY <1>10, <2>2 DEF PlainEnds, Returned, NoCall
  <2> QED
    BY <2>1, <2>2, <2>3, SessionTakes
<1> QED
  BY <1>1, <1>2, <1>3, <1>4, <1>5, <1>6, <1>7, <1>8, <1>9, <1>10

LEMMA PairingNext ==
    ASSUME IInv, SessionInv, IInv',
           \/ PairHasRecord \/ CallPair \/ PairAsksKey \/ PairSends \/ PairLacksKey
           \/ PairStores \/ PairFails
    PROVE  SessionInv'
<1>0. /\ {"GetValue", "Pair"} \subseteq Kinds /\ None \in Numbers /\ sent \in Nat
  BY BoundsAssumption DEF Kinds, None, Numbers, IInv, Types
<1>a. ASSUME Idle PROVE ~Stopping /\ (Connected => Conn \in Links /\ Clear(Conn))
  BY <1>a, IdleRests DEF Stopping, At, Idle
<1>b. ASSUME ~Resting, NEW r \in Receipts(Conn)
      PROVE  /\ Connected /\ r.link \in Links /\ Clear(r.link)
             /\ r.link.up = Conn.up /\ r.link.mode = Conn.mode
             /\ r.link.session = Conn.session
             /\ r.link.late = 0 => Conn.late = 0
  <2>1. Connected /\ Conn \in Links /\ r.link \in Links /\ Clear(r.link) /\ Conn.late \in Nat
    BY <1>b, Received DEF Links
  <2> QED
    BY <1>b, <2>1, ReceiptLink
<1>1. CASE PairHasRecord
  BY <1>1, <1>a, SessionEnds DEF PairHasRecord, Return, Returned, NoCall, Conn
<1>2. CASE CallPair
  <2>1. Idle /\ UNCHANGED device
    BY <1>2 DEF CallPair
  <2>2. CASE Connected
    <3>1. Room(1) /\ Ask(Conn, "Pair", "wifi", "GetValue", None)
      BY <1>0, <1>2, <2>2, BoundsAssumption DEF CallPair, Room
    <3> QED
      BY <1>0, <1>a, <2>1, <2>2, <3>1, SessionAsks
  <2>3. CASE ~Connected
    BY <1>2, <1>a, <2>1, <2>3, SessionEnds DEF CallPair, Return, Returned, NoCall
  <2> QED
    BY <2>2, <2>3
<1>3. CASE PairAsksKey
  <2>1. ~Resting /\ ~Stopping /\ Room(1)
    BY <1>0, <1>3, BoundsAssumption DEF PairAsksKey, At, Resting, Idle, Stopping, IInv, Placed, Room
  <2>2. PICK r \in Receipts(Conn) :
           \/ Restarted
           \/ Ask(r.link, "Pair", "key", "GetValue", None) /\ UNCHANGED device
    BY <1>3 DEF PairAsksKey
  <2>3. CASE Restarted
    BY <2>3, SessionGone DEF Restarted, NewDevice, NoCall, Connected, Starting, At
  <2>4. CASE ~Restarted
    BY <1>0, <1>b, <2>1, <2>2, <2>4, SessionAsks
  <2> QED
    BY <2>3, <2>4
<1>4. CASE PairSends
  <2>1. ~Resting /\ ~Stopping /\ Room(1) /\ UNCHANGED device
    BY <1>4 DEF PairSends, At, Resting, Idle, Stopping, IInv, Placed
  <2>2. PICK r \in Receipts(Conn) : Ask(r.link, "Pair", "paired", "Pair", None)
    BY <1>4 DEF PairSends
  <2> QED
    BY <1>0, <1>b, <2>1, <2>2, SessionAsks
<1>5. CASE PairLacksKey
  <2>1. ~Resting /\ ~Stopping
    BY <1>5 DEF PairLacksKey, At, Resting, Idle, Stopping
  <2>2. PICK r \in Receipts(Conn) :
           Restarted \/ (Take(r) /\ Return("Pair", "failed") /\ UNCHANGED device)
    BY <1>5 DEF PairLacksKey
  <2>3. CASE Restarted
    BY <2>3, SessionGone DEF Restarted, NewDevice, NoCall, Connected, Starting, At
  <2>4. CASE ~Restarted
    BY <2>1, <2>2, <2>4, SessionTakes DEF Return, Returned, NoCall
  <2> QED
    BY <2>3, <2>4
<1>6. CASE PairStores \/ PairFails
  <2>1. ~Resting /\ ~Stopping /\ UNCHANGED device
    BY <1>6 DEF PairStores, PairFails, At, Resting, Idle, Stopping
  <2>2. PICK r \in Receipts(Conn) : Take(r)
    BY <1>6 DEF PairStores, PairFails
  <2>3. call'.op = "none"
    BY <1>6 DEF PairStores, PairFails, Return, Returned, NoCall
  <2> QED
    BY <2>1, <2>2, <2>3, SessionTakes
<1> QED
  BY <1>1, <1>2, <1>3, <1>4, <1>5, <1>6

\* StartSession and StopSession.
LEMMA SessionCallsNext ==
    ASSUME IInv, SessionInv, IInv',
           \/ CallStartSession \/ StartSessionLacksRecord
           \/ SessionOpens \/ SessionFails \/ HandshakeFails
           \/ Reconnect \/ ReconnectRefused \/ CopyBag \/ BagEnds
           \/ CallStopSession \/ StopSessionHasNone \/ StopSessionEnds
    PROVE  SessionInv'
<1>0. /\ {"StartSession", "StopSession", "GetValue"} \subseteq Kinds
      /\ None \in Numbers /\ sent \in Nat /\ device \in DeviceObjects /\ record \in Records
  BY BoundsAssumption DEF Kinds, None, Numbers, IInv, Types
<1>a. ASSUME Idle PROVE ~Stopping /\ (Connected => Conn \in Links /\ Clear(Conn))
  BY <1>a, IdleRests DEF Stopping, At, Idle
<1>1. CASE CallStartSession
  <2>1. /\ Connected /\ Idle /\ Room(1) /\ UNCHANGED device
        /\ Ask(Conn, "StartSession", "session", "StartSession", record.id)
    BY <1>0, <1>1, BoundsAssumption DEF CallStartSession, Room
  <2>2. record.id \in Numbers
    BY <1>0 DEF Records
  <2> QED
    BY <1>0, <1>a, <2>1, <2>2, SessionAsks
<1>2. CASE StartSessionLacksRecord \/ StopSessionHasNone
  <2>1. Idle /\ call'.op = "none" /\ UNCHANGED <<device, link>>
    BY <1>2 DEF StartSessionLacksRecord, StopSessionHasNone, Return, Returned, NoCall
  <2> QED
    BY <1>a, <2>1, SessionEnds DEF Conn
<1>3. CASE SessionOpens
  <2>1. ~Resting /\ Starting
    BY <1>3 DEF SessionOpens, At, Resting, Idle, Starting
  <2>2. PICK r \in Receipts(Conn) :
           /\ Good(r.reply, "StartSession") /\ MayShakeHands(r.link)
           /\ link' = [link EXCEPT ![device.conn] = [r.link EXCEPT !.mode = "tls"]]
           /\ device' = [device EXCEPT !.ssl = TRUE, !.session = r.reply.n]
    BY <1>3 DEF SessionOpens
  <2>3. /\ Connected /\ Conn \in Links /\ r.link \in Links
        /\ Conn.rep # <<>> /\ r.reply = Conn.rep[1] /\ r.link.late = Conn.late
    BY <2>1, <2>2, Received DEF Good, NoError
  <2>4. r.link.up = Conn.up /\ r.link.session = Conn.session /\ r.link.req = <<>>
    BY <2>2, <2>3, ReceiptLink DEF MayShakeHands
  <2>5. 1 \in 1..Len(Conn.rep)
    <3>1. Len(Conn.rep) \in Nat \ {0}
      BY <2>3, EmptySeq DEF Links
    <3> QED
      BY <3>1
  <2>6. Conn.up /\ Conn.late = 0 => Conn.session = r.reply.n
    BY <2>1, <2>2, <2>3, <2>5 DEF SessionInv, Granted, Good
  <2>7. /\ Connected' /\ device'.ssl = TRUE /\ device'.session = r.reply.n
        /\ Conn' = [r.link EXCEPT !.mode = "tls"]
    BY <1>0, <2>2, <2>3, ConnType DEF Connected, Conn, DeviceObjects, IInv, Types
  <2>8. /\ Conn'.up = Conn.up /\ Conn'.late = Conn.late /\ Conn'.mode = "tls"
        /\ Conn'.session = Conn.session /\ Conn'.req = <<>>
    BY <2>3, <2>4, <2>7 DEF Links
  <2>9. Held'
    BY <2>6, <2>7, <2>8 DEF Held, Agreed
  <2>10. ~Starting'
    BY <1>3 DEF SessionOpens, Starting, At, IInv, Types, Calls
  <2>11. AskedFor(Conn', Starting', Stopping')
    <3>1. 1..Len(<<>>) = {}
      OBVIOUS
    <3> QED
      BY <2>8, <3>1 DEF AskedFor
  <2> QED
    BY <2>9, <2>10, <2>11 DEF SessionInv
<1>4. CASE SessionFails
  <2>1. ~Resting
    BY <1>4 DEF SessionFails, At, Resting, Idle
  <2>2. PICK r \in Receipts(Conn) : Take(r)
    BY <1>4 DEF SessionFails
  <2>3. device'.session = None /\ device'.conn = device.conn /\ call'.op = "none"
    BY <1>0, <1>4 DEF SessionFails, Return, Returned, NoCall, DeviceObjects
  <2> QED
    BY <2>1, <2>2, <2>3, SessionTakes
<1>5. CASE HandshakeFails
  <2>1. ~Resting
    BY <1>5 DEF HandshakeFails, At, Resting, Idle
  <2>2. PICK r \in Receipts(Conn) :
           IF IsValid
           THEN device' = Disconnected /\ call' = [call EXCEPT !.at = "reconnect"]
           ELSE /\ device' = [Validated EXCEPT !.session = None]
                /\ Take(r)
                /\ Return("StartSession", "failed")
    BY <1>5 DEF HandshakeFails
  <2>3. CASE IsValid
    <3>1. device'.session = None /\ device'.conn = None /\ call'.at = "reconnect"
      BY <1>0, <2>2, <2>3 DEF Disconnected, DeviceObjects, IInv, Types, Calls
    <3> QED
      BY <3>1, SessionGone DEF Connected, Starting, At
  <2>4. CASE ~IsValid
    <3>1. device'.session = None /\ device'.conn = device.conn /\ call'.op = "none"
      BY <1>0, <2>2, <2>4 DEF Validated, DeviceObjects, Return, Returned, NoCall
    <3> QED
      BY <2>1, <2>2, <2>4, <3>1, SessionTakes
  <2> QED
    BY <2>3, <2>4
<1>6. CASE Reconnect
  <2>1. ~Connected /\ Room(1)
    BY <1>6 DEF Reconnect, At, IInv, Placed, Idle
  <2> QED
    BY <1>6, <2>1, SessionOpening DEF Reconnect
<1>7. CASE ReconnectRefused
  <2>1. call'.op = "none" /\ UNCHANGED device /\ ~Stopping /\ ~Connected
    BY <1>7 DEF ReconnectRefused, Return, Returned, NoCall, At, Stopping, IInv, Placed, Idle
  <2> QED
    BY <2>1, SessionEnds
<1>8. CASE CopyBag
  <2>1. Connected /\ Clear(Conn) /\ Room(1) /\ ~Stopping /\ UNCHANGED device
    BY <1>8 DEF CopyBag, At, Resting, IInv, Placed, InStep, Idle, Stopping
  <2>2. CASE Return("StartSession", "success") /\ UNCHANGED <<link, sent>>
    <3>1. call'.op = "none"
      BY <2>2 DEF Return, Returned, NoCall
    <3> QED
      BY <2>1, <2>2, <3>1, SessionEnds DEF Conn
  <2>3. CASE Ask(Conn, "StartSession", "wifi", "GetValue", None)
    BY <1>0, <2>1, <2>3, ConnType, SessionAsks
  <2> QED
    BY <1>8, <2>2, <2>3 DEF CopyBag
<1>9. CASE BagEnds
  <2>1. ~Resting /\ ~Stopping
    BY <1>9 DEF BagEnds, At, Resting, Idle, Stopping
  <2>2. PICK r \in Receipts(Conn) :
           Restarted \/ (Take(r) /\ Return("StartSession", "success") /\ UNCHANGED device)
    BY <1>9 DEF BagEnds
  <2>3. CASE Restarted
    BY <2>3, SessionGone DEF Restarted, NewDevice, NoCall, Connected, Starting, At
  <2>4. CASE ~Restarted
    BY <2>1, <2>2, <2>4, SessionTakes DEF Return, Returned, NoCall
  <2> QED
    BY <2>3, <2>4
<1>10. CASE CallStopSession
  <2>1. /\ Connected /\ Idle /\ Room(1) /\ UNCHANGED device
        /\ Ask(Conn, "StopSession", "stopped", "StopSession", device.session)
    BY <1>10 DEF CallStopSession
  <2>2. device.session \in Numbers
    BY <1>0 DEF DeviceObjects
  <2> QED
    BY <1>0, <1>a, <2>1, <2>2, SessionAsks
<1>11. CASE StopSessionEnds
  <2>1. ~Resting
    BY <1>11 DEF StopSessionEnds, At, Resting, Idle
  <2>2. PICK r \in Receipts(Conn) :
           /\ Take(r)
           /\ device' = [device EXCEPT !.session = None,
                                       !.ssl = @ /\ ~NoError(r.reply)]
    BY <1>11 DEF StopSessionEnds
  <2>3. device'.session = None /\ device'.conn = device.conn /\ call'.op = "none"
    BY <1>0, <1>11, <2>2 DEF StopSessionEnds, Return, Returned, NoCall, DeviceObjects
  <2> QED
    BY <2>1, <2>2, <2>3, SessionTakes
<1> QED
  BY <1>1, <1>2, <1>3, <1>4, <1>5, <1>6, <1>7, <1>8, <1>9, <1>10, <1>11

\* lockdownd answers on the device's connection.
LEMMA ServeNext ==
    ASSUME IInv, SessionInv, Connected, Serve(device.conn)
    PROVE  SessionInv'
<1> DEFINE l == Conn
           q == Head(l.req)
<1>1. /\ l \in Links /\ device.conn \in Sockets /\ link \in [Sockets -> Links]
      /\ l = link[device.conn] /\ l.up /\ l.req # <<>>
  BY ConnType DEF IInv, Types, Conn, Serve
<1>2. l.req \in Seq(Requested) /\ l.rep \in Seq(Replied)
  BY <1>1 DEF Links
<1>3. /\ q = l.req[1] /\ q \in Requested /\ 1 \in 1..Len(l.req)
      /\ Len(l.req) = 1 => Tail(l.req) = <<>>
  <2>1. Tail(l.req) # <<>> => Len(Tail(l.req)) \in Nat \ {0}
    BY <1>1, <1>2, HeadTailProperties, EmptySeq
  <2> QED
    BY <1>1, <1>2, <2>1, HeadTailProperties, EmptySeq
<1>4. UNCHANGED <<device, call>> /\ Conn' = link'[device.conn]
  BY DEF Serve, Conn
<1>5. l.late = 0 => /\ l.rep = <<>> /\ Len(l.req) = 1
                    /\ q.kind = "StartSession" => Starting
                    /\ q.kind = "StopSession" => Stopping
  <2>1. l.late = 0 => l.rep = <<>> /\ Len(l.req) = 1
    BY <1>1 DEF IInv, InStep, Clear, Awaits
  <2> QED
    BY <1>3, <2>1 DEF SessionInv, AskedFor
<1>6. CASE l.mode = "await" \/ q.tls # (l.mode = "tls")
  <2>1. Conn' = [l EXCEPT !.up = FALSE, !.req = <<>>]
    BY <1>1, <1>4, <1>6 DEF Serve
  <2>2. ~Conn'.up /\ Conn'.req = <<>>
    BY <1>1, <2>1 DEF Links
  <2>3. Held' /\ (Starting' => Granted(Conn'))
    BY <1>4, <2>2 DEF Held, Agreed, Granted, SessionInv, Connected
  <2>4. AskedFor(Conn', Starting', Stopping')
    <3>1. 1..Len(<<>>) = {}
      OBVIOUS
    <3> QED
      BY <2>2, <3>1 DEF AskedFor
  <2> QED
    BY <2>3, <2>4 DEF SessionInv
<1>7. CASE ~(l.mode = "await" \/ q.tls # (l.mode = "tls"))
  <2> DEFINE answered(v) == [l EXCEPT
                !.req = Tail(@),
                !.rep = IF l.open THEN Append(@, Reply(q, v, q.tls)) ELSE @]
  <2>1. PICK v \in Verdicts(q.kind) :
           /\ v = "good" /\ q.kind = "StartSession" => l.session = None
           /\ Conn' = IF v = "good" /\ q.kind = "StartSession"
                      THEN [answered(v) EXCEPT !.mode = "await", !.session = q.n]
                      ELSE IF v = "good" /\ q.kind = "StopSession"
                           THEN [answered(v) EXCEPT !.mode = "plain", !.session = None]
                           ELSE answered(v)
    BY ZenonT(60), <1>1, <1>4, <1>7 DEF Serve
  <2>2. /\ Conn'.req = Tail(l.req) /\ Conn'.up = l.up /\ Conn'.late = l.late
        /\ Conn'.rep = IF l.open THEN Append(l.rep, Reply(q, v, q.tls)) ELSE l.rep
        /\ ~(v = "good" /\ q.kind \in {"StartSession", "StopSession"}) =>
              Conn'.mode = l.mode /\ Conn'.session = l.session
        /\ v = "good" /\ q.kind = "StartSession" => Conn'.session = q.n
    <3>1. /\ answered(v).req = Tail(l.req) /\ answered(v).up = l.up
          /\ answered(v).late = l.late
          /\ answered(v).rep = IF l.open THEN Append(l.rep, Reply(q, v, q.tls)) ELSE l.rep
          /\ answered(v).mode = l.mode /\ answered(v).session = l.session
          /\ DOMAIN answered(v) = {"open", "up", "req", "rep", "mode", "session", "late"}
      BY <1>1 DEF Links
    <3> HIDE DEF answered
    <3> QED
      BY <2>1, <3>1
  <2>3. l.late = 0 => Conn'.req = <<>>
    BY <1>3, <1>5, <2>2
  <2>4. AskedFor(Conn', Starting', Stopping')
    <3>1. 1..Len(<<>>) = {}
      OBVIOUS
    <3> QED
      BY <2>2, <2>3, <3>1 DEF AskedFor
  <2>5. Granted(Conn')
    <3> SUFFICES ASSUME Conn'.late = 0, NEW i \in 1..Len(Conn'.rep),
                        Conn'.rep[i].kind = "StartSession", Conn'.rep[i].verdict = "good"
                 PROVE  Conn'.session = Conn'.rep[i].n
      BY DEF Granted
    <3>1. Conn'.rep = IF l.open THEN Append(<<>>, Reply(q, v, q.tls)) ELSE <<>>
      BY <1>5, <2>2
    <3>2. /\ Len(Append(<<>>, Reply(q, v, q.tls))) = 1
          /\ Append(<<>>, Reply(q, v, q.tls))[1] = Reply(q, v, q.tls) /\ Len(<<>>) = 0
      OBVIOUS
    <3>3. Conn'.rep[i] = Reply(q, v, q.tls)
      BY <3>1, <3>2
    <3>4. q.kind = "StartSession" /\ v = "good" /\ Conn'.rep[i].n = q.n
      BY <3>3 DEF Reply
    <3> QED
      BY <2>2, <3>4
  <2>6. Held'
    <3> SUFFICES ASSUME device.session # None
                 PROVE  (Stopping /\ Conn'.req = <<>>) \/ Agreed(device, Conn')
      BY <1>4 DEF Held, Stopping, At, Connected
    <3>1. CASE l.late = 0 /\ v = "good" /\ q.kind = "StopSession"
      BY <1>5, <2>3, <3>1
    <3>2. Agreed(device, l)
      BY <1>1 DEF SessionInv, Held
    <3>3. CASE l.late = 0 /\ v = "good" /\ q.kind = "StartSession"
      BY <1>1, <2>1, <3>2, <3>3 DEF Agreed
    <3>4. CASE l.late # 0 \/ ~(v = "good" /\ q.kind \in {"StartSession", "StopSession"})
      BY <2>2, <3>2, <3>4 DEF Agreed
    <3> QED
      BY <3>1, <3>3, <3>4
  <2> QED
    BY <1>4, <2>4, <2>5, <2>6 DEF SessionInv
<1> QED
  BY <1>6, <1>7

\* The end of the device's connection at lockdownd stays, or goes down.
LEMMA SessionStays ==
    ASSUME IInv, SessionInv, UNCHANGED <<device, call>>,
           Connected => \/ Conn' = Conn
                        \/ ~Conn'.up /\ Conn'.req = <<>>
    PROVE  SessionInv'
<1>1. /\ Connected' <=> Connected
      /\ Starting' <=> Starting
      /\ Stopping' <=> Stopping
  BY DEF Connected, Starting, Stopping, At
<1>2. Starting => Connected
  BY DEF IInv, Placed, Starting, At, Idle
<1>3. CASE Connected => Conn' = Conn
  <2>1. Held'
    BY <1>1, <1>3 DEF SessionInv, Held, Agreed
  <2>2. Connected => AskedFor(Conn', Starting', Stopping')
    BY <1>1, <1>3 DEF SessionInv, AskedFor
  <2>3. Starting => Granted(Conn')
    BY <1>2, <1>3 DEF SessionInv, Granted
  <2> QED
    BY <1>1, <2>1, <2>2, <2>3 DEF SessionInv
<1>4. CASE Connected /\ ~Conn'.up /\ Conn'.req = <<>>
  <2>1. 1..Len(<<>>) = {}
    OBVIOUS
  <2>2. AskedFor(Conn', Starting', Stopping')
    BY <1>4, <2>1 DEF AskedFor
  <2>3. Held' /\ Granted(Conn')
    BY <1>1, <1>4 DEF Held, Agreed, Granted
  <2> QED
    BY <2>2, <2>3 DEF SessionInv
<1> QED
  BY <1>3, <1>4

\* lockdownd, usbmuxd, the listener, and the end of the process.
LEMMA OutsideSessionNext ==
    ASSUME IInv, SessionInv, OutsideStep
    PROVE  SessionInv'
<1>0. /\ link \in [Sockets -> Links]
      /\ Connected => device.conn \in Sockets /\ Conn = link[device.conn]
  BY ConnType DEF IInv, Types, Conn
<1>1. ASSUME NEW s \in Sockets, Serve(s) PROVE SessionInv'
  <2>1. CASE Connected /\ s = device.conn
    BY <1>1, <2>1, ServeNext
  <2>2. CASE ~(Connected /\ s = device.conn)
    <3>1. UNCHANGED <<device, call>> /\ \E l : link' = [link EXCEPT ![s] = l]
      <4>1. CASE link[s].mode = "await" \/ Head(link[s].req).tls # (link[s].mode = "tls")
        <5>1. link' = [link EXCEPT ![s] = [link[s] EXCEPT !.up = FALSE, !.req = <<>>]]
          BY <1>0, <1>1, <4>1 DEF Serve
        <5> QED
          BY <1>1, <5>1 DEF Serve
      <4>2. CASE ~(link[s].mode = "await" \/ Head(link[s].req).tls # (link[s].mode = "tls"))
        BY <1>1, <4>2 DEF Serve
      <4> QED
        BY <4>1, <4>2
    <3>2. Connected => Conn' = Conn
      BY <1>0, <2>2, <3>1 DEF Conn
    <3> QED
      BY <3>1, <3>2, SessionStays
  <2> QED
    BY <2>1, <2>2
<1>2. ASSUME NEW s \in Sockets, Hangup(s) PROVE SessionInv'
  <2>1. /\ UNCHANGED <<device, call>>
        /\ link' = [link EXCEPT ![s].up = FALSE, ![s].req = <<>>]
    BY <1>2 DEF Hangup
  <2>2. Connected => Conn' = Conn \/ (~Conn'.up /\ Conn'.req = <<>>)
    BY <1>0, <2>1 DEF Conn, Links
  <2> QED
    BY <2>1, <2>2, SessionStays
<1>3. CASE Unplug
  <2>1. /\ UNCHANGED <<device, call>>
        /\ link' = [s \in Sockets |-> [link[s] EXCEPT !.up = FALSE, !.req = <<>>]]
    BY <1>3 DEF Unplug
  <2>2. Connected => ~Conn'.up /\ Conn'.req = <<>>
    BY ZenonT(60), <1>0, <2>1 DEF Conn, Links
  <2> QED
    BY <2>1, <2>2, SessionStays
<1>4. CASE Delist
  BY <1>4, SessionStays DEF Delist, Conn
<1>5. CASE Restart
  BY <1>5, SessionGone DEF Restart, Restarted, NewDevice, NoCall, Connected, Starting, At
<1> QED
  BY <1>1, <1>2, <1>3, <1>4, <1>5 DEF OutsideStep

LEMMA InitSession == Init => SessionInv
  BY DEF Init, SessionInv, Held, NewDevice, NoCall, Connected, Starting, At

LEMMA NextSession == IInv /\ SessionInv /\ [Next]_vars => SessionInv'
<1> SUFFICES ASSUME IInv, SessionInv, [Next]_vars
             PROVE  SessionInv'
  OBVIOUS
<1>0. IInv'
  BY NextIInv
<1>1. CASE CallStep
  BY <1>0, <1>1, CallsNext, SessionCallsNext, PairingNext DEF CallStep
<1>2. CASE EndStep
  BY <1>0, <1>2, CallsNext, SessionCallsNext, PairingNext DEF EndStep
<1>3. CASE OutsideStep
  BY <1>3, OutsideSessionNext
<1>4. CASE UNCHANGED vars
  BY <1>4, SessionStays DEF vars, Conn
<1> QED
  BY <1>1, <1>2, <1>3, <1>4 DEF Next

-----------------------------------------------------------------------------
(* The theorem.                                                            *)

\* Whatever calls were made, refused, given up or killed before: between calls,
\* a session the device object holds is the one lockdownd has open on this very
\* connection, and both ends of it speak TLS.
THEOREM SessionsAgree == Spec => []SessionIsLockdownds
<1>1. Spec => [](IInv /\ SessionInv)
  BY InitIInv, NextIInv, InitSession, NextSession, PTL DEF Spec
<1>2. IInv /\ SessionInv => SessionIsLockdownds
  BY DEF SessionInv, Held, Agreed, Stopping, At, Idle, SessionIsLockdownds
<1> QED
  BY <1>1, <1>2, PTL

-----------------------------------------------------------------------------
(***************************************************************************)
(* The pairings: what Unpair and ValidatePairing say of one is so.         *)
(***************************************************************************)
(* The inductive invariant.                                                *)

\* The requests under way have numbers of their own, which were given out.
Numbered ==
    /\ \A s \in Sockets : \A i \in 1..Len(link[s].req) : link[s].req[i].n <= sent
    /\ \A s, u \in Sockets : \A i \in 1..Len(link[s].req), j \in 1..Len(link[u].req) :
          link[s].req[i].n = link[u].req[j].n => s = u /\ i = j

\* A pairing is named by a request that was sent, whoever knows of it.
Accounted ==
    /\ trusted \subseteq accepted
    /\ \A p \in accepted : p <= sent
    /\ record.id <= sent
    /\ At("Pair", "paired") => call.want <= sent

\* A pairing under way is not accepted yet.  One that the host is taking back
\* is neither the one on disk nor the one it is about to put there.
Underway ==
    \A s \in Sockets : \A i \in 1..Len(link[s].req) :
        /\ link[s].req[i].kind = "Pair" => link[s].req[i].n \notin accepted
        /\ link[s].req[i].kind = "Unpair" =>
              /\ link[s].req[i].about # None /\ link[s].req[i].about <= sent
              /\ link[s].req[i].about # record.id
              /\ At("Pair", "paired") => link[s].req[i].about < call.want

PairRequests == Numbered /\ Accounted /\ Underway

\* What a good answer to the call says of pairing p.
Settled(op, p) ==
    /\ op = "ValidatePairing" => p \in trusted
    /\ op = "Unpair" => p \in accepted /\ p \notin trusted

Asking == call.op \in {"ValidatePairing", "Unpair"}

\* On connection l there is the question of the call, or the answer to it.
Answered(l) ==
    l.late = 0 =>
        /\ \A i \in 1..Len(l.req) : l.req[i].kind = call.op /\ l.req[i].about = call.about
        /\ \A i \in 1..Len(l.rep) :
              /\ l.rep[i].kind = call.op /\ l.rep[i].verdict # "other"
              /\ l.rep[i].verdict = "good" => Settled(call.op, call.about)

\* The last call asked, and was told yes.
Told == Idle /\ call.result = "success" /\ call.at \in {"ValidatePairing", "Unpair"}

PairAnswers ==
    /\ call.op = "ValidatePairing" \/ (Told /\ call.at = "ValidatePairing")
          => call.about = record.id
    /\ Asking /\ Connected => Answered(Conn)
    /\ Told /\ Connected /\ Conn.late = 0 => Settled(call.at, call.about)

PairingInv == PairRequests /\ PairAnswers

-----------------------------------------------------------------------------
(* What becomes of the requests under way.                                 *)

\* They stay, or are dropped with the connection they were on.
RequestsStay == \A s \in Sockets : link'[s].req \in {link[s].req, <<>>}

\* One is sent on socket c.
RequestAdded(c, q) ==
    \A s \in Sockets :
        \/ link'[s].req = link[s].req
        \/ s = c /\ link'[s].req = Append(link[s].req, q)

LEMMA RequestsOf ==
    ASSUME IInv, NEW s \in Sockets
    PROVE  /\ link[s] \in Links /\ link[s].req \in Seq(Requested)
           /\ Len(link[s].req) \in Nat
           /\ \A i \in 1..Len(link[s].req) :
                 /\ link[s].req[i] \in Requested
                 /\ link[s].req[i].n \in Nat /\ link[s].req[i].about \in Nat
<1>1. link[s] \in Links /\ link[s].req \in Seq(Requested)
  BY DEF IInv, Types, Links
<1>2. \A i \in 1..Len(link[s].req) : link[s].req[i] \in Requested
  BY <1>1, ElementOfSeq
<1> QED
  BY <1>1, <1>2, LenProperties DEF Requested, Requests, Numbers

LEMMA NoRequests == 1..Len(<<>>) = {}
  OBVIOUS

LEMMA NumbersAre ==
    ASSUME IInv
    PROVE  /\ sent \in Nat /\ record.id \in Nat /\ call.want \in Nat /\ call.about \in Nat
           /\ \A p \in accepted : p \in Nat
           /\ \A p \in trusted : p \in Nat
  BY DEF IInv, Types, Records, Calls, Numbers, Requests

\* A step of the host that sends nothing.  The record goes, or Pair stores the
\* one it has just made.
LEMMA PairRequestsStay ==
    ASSUME IInv, PairRequests, RequestsStay, UNCHANGED <<sent, trusted, accepted>>,
           At("Pair", "paired")' => call' = call /\ record' = record,
           \/ record' = record \/ record' = NoRecord
           \/ At("Pair", "paired") /\ record'.id = call.want
    PROVE  PairRequests'
<1>1. sent' = sent /\ trusted' = trusted /\ accepted' = accepted
  OBVIOUS
<1>2. ASSUME NEW s \in Sockets, NEW i \in 1..Len(link'[s].req)
      PROVE  i \in 1..Len(link[s].req) /\ link'[s].req[i] = link[s].req[i]
  BY <1>2, NoRequests DEF RequestsStay
<1>3. Numbered'
  <2>1. \A s \in Sockets : \A i \in 1..Len(link'[s].req) : link'[s].req[i].n <= sent'
    BY <1>1, <1>2 DEF PairRequests, Numbered
  <2>2. ASSUME NEW s \in Sockets, NEW u \in Sockets,
               NEW i \in 1..Len(link'[s].req), NEW j \in 1..Len(link'[u].req),
               link'[s].req[i].n = link'[u].req[j].n
        PROVE  s = u /\ i = j
    <3>1. /\ i \in 1..Len(link[s].req) /\ j \in 1..Len(link[u].req)
          /\ link[s].req[i].n = link[u].req[j].n
      BY <1>2, <2>2
    <3> QED
      BY <3>1 DEF PairRequests, Numbered
  <2> QED
    BY <2>1, <2>2 DEF Numbered
<1>4. /\ At("Pair", "paired")' => At("Pair", "paired") /\ call'.want = call.want
      /\ record'.id = record.id \/ record'.id = None
         \/ (At("Pair", "paired") /\ record'.id = call.want)
  BY DEF At, NoRecord
<1>5. Accounted'
  BY <1>1, <1>4, NumbersAre DEF PairRequests, Accounted, None
<1>6. Underway'
  <2> SUFFICES ASSUME NEW s \in Sockets, NEW i \in 1..Len(link'[s].req)
               PROVE  /\ link'[s].req[i].kind = "Pair" => link'[s].req[i].n \notin accepted'
                      /\ link'[s].req[i].kind = "Unpair" =>
                           /\ link'[s].req[i].about # None
                           /\ link'[s].req[i].about <= sent'
                           /\ link'[s].req[i].about # record'.id
                           /\ At("Pair", "paired")' => link'[s].req[i].about < call'.want
    BY DEF Underway
  <2> DEFINE q == link[s].req[i]
  <2>1. i \in 1..Len(link[s].req) /\ link'[s].req[i] = q
    BY <1>2
  <2>2. q.about \in Nat /\ call.want \in Nat /\ sent \in Nat
    BY <2>1, RequestsOf, NumbersAre
  <2>3. /\ q.kind = "Pair" => q.n \notin accepted
        /\ q.kind = "Unpair" =>
              /\ q.about # None /\ q.about <= sent /\ q.about # record.id
              /\ At("Pair", "paired") => q.about < call.want
    BY <2>1 DEF PairRequests, Underway
  <2> HIDE DEF q
  <2> QED
    BY <1>1, <1>4, <2>1, <2>2, <2>3
<1> QED
  BY <1>3, <1>5, <1>6 DEF PairRequests

\* A request is sent.  If it is to take a pairing back, that is the pairing of
\* the record, which is removed with it.
LEMMA PairRequestsGrow ==
    ASSUME IInv, PairRequests, NEW c \in Sockets, NEW q \in Requested,
           RequestAdded(c, q), q.n = sent + 1, sent' = sent + 1,
           UNCHANGED <<trusted, accepted>>, call'.want = sent + 1,
           \/ record' = record /\ q.kind # "Unpair"
           \/ record' = NoRecord /\ q.about = record.id /\ record.id # None
    PROVE  PairRequests'
<1>1. sent' = sent + 1 /\ trusted' = trusted /\ accepted' = accepted /\ call'.want = sent'
      /\ q.n \in Nat /\ q.about \in Nat
  BY DEF Requested, Requests, Numbers
<1>2. ASSUME NEW s \in Sockets, NEW i \in 1..Len(link'[s].req)
      PROVE  \/ i \in 1..Len(link[s].req) /\ link'[s].req[i] = link[s].req[i]
             \/ s = c /\ i = Len(link[s].req) + 1 /\ link'[s].req[i] = q
  <2>1. link[s].req \in Seq(Requested) /\ Len(link[s].req) \in Nat
    BY RequestsOf
  <2>2. CASE link'[s].req = link[s].req
    BY <1>2, <2>2
  <2>3. CASE s = c /\ link'[s].req = Append(link[s].req, q)
    <3>1. /\ Len(link'[s].req) = Len(link[s].req) + 1
          /\ \A j \in 1..Len(link[s].req) : link'[s].req[j] = link[s].req[j]
          /\ link'[s].req[Len(link[s].req) + 1] = q
      BY <2>1, <2>3, AppendProperties
    <3> QED
      BY <1>2, <2>1, <2>3, <3>1
  <2> QED
    BY <2>2, <2>3 DEF RequestAdded
<1>3. \A s \in Sockets : \A i \in 1..Len(link[s].req) :
         link[s].req[i].n <= sent /\ link[s].req[i].n \in Nat /\ sent \in Nat
  BY RequestsOf, NumbersAre DEF PairRequests, Numbered
<1>4. Numbered'
  <2>1. ASSUME NEW s \in Sockets, NEW i \in 1..Len(link'[s].req)
        PROVE  link'[s].req[i].n <= sent'
    <3>1. CASE i \in 1..Len(link[s].req) /\ link'[s].req[i] = link[s].req[i]
      BY <1>1, <1>3, <3>1
    <3>2. CASE link'[s].req[i] = q
      BY <1>1, <3>2, NumbersAre
    <3> QED
      BY <1>2, <3>1, <3>2
  <2>2. ASSUME NEW s \in Sockets, NEW u \in Sockets,
               NEW i \in 1..Len(link'[s].req), NEW j \in 1..Len(link'[u].req),
               link'[s].req[i].n = link'[u].req[j].n
        PROVE  s = u /\ i = j
    <3>1. CASE i \in 1..Len(link[s].req) /\ link'[s].req[i] = link[s].req[i]
      <4>1. link'[u].req[j] # q
        BY SMTT(30), <1>3, <2>2, <3>1
      <4>2. j \in 1..Len(link[u].req) /\ link'[u].req[j] = link[u].req[j]
        BY <1>2, <4>1
      <4> QED
        BY <2>2, <3>1, <4>2 DEF PairRequests, Numbered
    <3>2. CASE s = c /\ i = Len(link[s].req) + 1 /\ link'[s].req[i] = q
      <4>1. ~(j \in 1..Len(link[u].req) /\ link'[u].req[j] = link[u].req[j])
        BY SMTT(30), <1>3, <2>2, <3>2
      <4> QED
        BY <1>2, <3>2, <4>1
    <3> QED
      BY <1>2, <3>1, <3>2
  <2> QED
    BY <2>1, <2>2 DEF Numbered
<1>5. Accounted'
  BY <1>1, NumbersAre DEF PairRequests, Accounted, NoRecord, None
<1>6. Underway'
  <2> SUFFICES ASSUME NEW s \in Sockets, NEW i \in 1..Len(link'[s].req)
               PROVE  /\ link'[s].req[i].kind = "Pair" => link'[s].req[i].n \notin accepted'
                      /\ link'[s].req[i].kind = "Unpair" =>
                           /\ link'[s].req[i].about # None
                           /\ link'[s].req[i].about <= sent'
                           /\ link'[s].req[i].about # record'.id
                           /\ At("Pair", "paired")' => link'[s].req[i].about < call'.want
    BY DEF Underway
  <2>1. CASE i \in 1..Len(link[s].req) /\ link'[s].req[i] = link[s].req[i]
    <3>1. /\ link[s].req[i].kind = "Pair" => link[s].req[i].n \notin accepted
          /\ link[s].req[i].kind = "Unpair" =>
                /\ link[s].req[i].about # None /\ link[s].req[i].about <= sent
                /\ link[s].req[i].about # record.id
      BY <2>1 DEF PairRequests, Underway
    <3>2. link[s].req[i].about \in Nat /\ sent \in Nat
      BY <2>1, RequestsOf, NumbersAre
    <3> QED
      BY <1>1, <2>1, <3>1, <3>2 DEF NoRecord
  <2>2. CASE link'[s].req[i] = q
    <3>1. q.kind = "Pair" => q.n \notin accepted
      BY NumbersAre DEF PairRequests, Accounted
    <3>2. q.kind = "Unpair" => /\ q.about # None /\ q.about <= sent
                               /\ q.about # record'.id
      BY DEF PairRequests, Accounted, NoRecord
    <3> QED
      BY <1>1, <2>2, <3>1, <3>2, NumbersAre
  <2> QED
    BY <1>2, <2>1, <2>2
<1> QED
  BY <1>4, <1>5, <1>6 DEF PairRequests

\* A call that is not about a pairing, or has not been told yes, says nothing.
LEMMA SaysNothing ==
    ASSUME call'.op \notin {"ValidatePairing", "Unpair"},
           call'.op # "none" \/ call'.result # "success"
              \/ call'.at \notin {"ValidatePairing", "Unpair"}
    PROVE  PairAnswers'
  BY DEF PairAnswers, Asking, Told, Idle

-----------------------------------------------------------------------------
(* The steps of the calls.                                                 *)

\* A receive, or closing the connection, leaves the requests alone.
LEMMA RequestsUntouched ==
    ASSUME IInv,
           \/ link' = link
           \/ link' = Closed
           \/ link' = [s \in Sockets |-> [link[s] EXCEPT !.open = FALSE, !.rep = <<>>]]
           \/ RefusedToPort
           \/ ~Resting /\ \E r \in Receipts(Conn) : Take(r)
           \/ ~Resting /\ \E r \in Receipts(Conn) : \E m :
                 link' = [link EXCEPT ![device.conn] = [r.link EXCEPT !.mode = m]]
    PROVE  RequestsStay
<1>1. link \in [Sockets -> Links]
  BY DEF IInv, Types
<1>2. CASE link' = link
  BY <1>2 DEF RequestsStay
<1>3. CASE link' = Closed
  <2>1. CASE Connected
    <3>1. device.conn \in Sockets /\ link[device.conn] \in Links
      BY <1>1, <2>1, ConnType
    <3> DEFINE l == [link[device.conn] EXCEPT !.open = FALSE, !.rep = <<>>]
    <3>2. l.req = link[device.conn].req
      BY <3>1 DEF Links
    <3>3. link' = [link EXCEPT ![device.conn] = l]
      BY <1>1, <1>3, <2>1, <3>1 DEF Closed
    <3> HIDE DEF l
    <3> QED
      BY <1>1, <3>1, <3>2, <3>3 DEF RequestsStay
  <2>2. CASE ~Connected
    BY <1>3, <2>2 DEF Closed, RequestsStay
  <2> QED
    BY <2>1, <2>2
<1>4. ASSUME ~Resting, NEW r \in Receipts(Conn)
      PROVE  /\ device.conn \in Sockets /\ Conn = link[device.conn]
             /\ r.link.req = Conn.req /\ r.link \in Links
  <2>1. Connected /\ Conn \in Links /\ r.link \in Links
    BY <1>4, Received
  <2> QED
    BY <1>1, <1>4, <2>1, ConnType, ReceiptLink DEF Conn
<1>5. CASE ~Resting /\ \E r \in Receipts(Conn) : Take(r)
  <2>1. PICK r \in Receipts(Conn) : link' = [link EXCEPT ![device.conn] = r.link]
    BY <1>5 DEF Take
  <2> QED
    BY <1>1, <1>4, <1>5, <2>1 DEF RequestsStay
<1>6. CASE ~Resting /\ \E r \in Receipts(Conn) : \E m :
              link' = [link EXCEPT ![device.conn] = [r.link EXCEPT !.mode = m]]
  <2>0. PICK r \in Receipts(Conn) : \E m :
           link' = [link EXCEPT ![device.conn] = [r.link EXCEPT !.mode = m]]
    BY <1>6
  <2>1. PICK m :
           link' = [link EXCEPT ![device.conn] = [r.link EXCEPT !.mode = m]]
    BY <2>0
  <2> DEFINE l == [r.link EXCEPT !.mode = m]
  <2>2. l.req = Conn.req /\ link' = [link EXCEPT ![device.conn] = l]
    BY <1>4, <1>6, <2>1 DEF Links
  <2> HIDE DEF l
  <2> QED
    BY <1>1, <1>4, <1>6, <2>2 DEF RequestsStay
<1>7. CASE link' = [s \in Sockets |-> [link[s] EXCEPT !.open = FALSE, !.rep = <<>>]]
  <2>1. \A s \in Sockets :
           /\ link[s] \in Links /\ link'[s] = [link[s] EXCEPT !.open = FALSE, !.rep = <<>>]
    BY <1>1, <1>7
  <2>2. \A l \in Links : [l EXCEPT !.open = FALSE, !.rep = <<>>].req = l.req
    BY DEF Links
  <2> QED
    BY <2>1, <2>2 DEF RequestsStay
<1>8. ASSUME NEW s \in Sockets, NextFree(s), link' = [link EXCEPT ![s] = Refused]
      PROVE  RequestsStay
  <2>1. Refused.req = <<>>
    BY DEF Refused, Silent
  <2> QED
    BY <1>1, <1>8, <2>1 DEF RequestsStay
<1> QED
  BY <1>2, <1>3, <1>5, <1>6, <1>7, <1>8 DEF RefusedToPort

\* A call ends, or goes on without a request, and is about no pairing.
LEMMA PairingStays ==
    ASSUME IInv, PairingInv, RequestsStay, UNCHANGED <<sent, trusted, accepted>>,
           call'.op \in {"none", "StartSession"},
           call'.result # "success" \/ call'.at \notin {"ValidatePairing", "Unpair"},
           \/ record' = record \/ record' = NoRecord
           \/ At("Pair", "paired") /\ record'.id = call.want
    PROVE  PairingInv'
<1>1. PairRequests'
  BY PairRequestsStay DEF PairingInv, At
<1>2. PairAnswers'
  BY SaysNothing
<1> QED
  BY <1>1, <1>2 DEF PairingInv

\* A request is sent on the connection.
LEMMA PairingAsks ==
    ASSUME IInv, PairRequests, Connected, NEW l \in Links, l.req = Conn.req,
           NEW op, NEW at, NEW kind \in Kinds, NEW about \in Numbers, Room(1),
           Ask(l, op, at, kind, about), UNCHANGED <<trusted, accepted>>,
           \/ record' = record /\ kind # "Unpair"
           \/ record' = NoRecord /\ about = record.id /\ record.id # None
    PROVE  PairRequests'
<1> DEFINE q == Request(kind, about)
<1>1. q \in Requested /\ q.n = sent + 1 /\ q.kind = kind /\ q.about = about
  BY RequestType DEF IInv, Request
<1>2. device.conn \in Sockets /\ link \in [Sockets -> Links]
  BY ConnType DEF IInv, Types
<1>3. /\ link' = [link EXCEPT ![device.conn] = Sent(l, q)]
      /\ sent' = sent + 1 /\ call'.want = sent + 1
  BY DEF Ask, Waiting
<1> HIDE DEF q
<1>4. Sent(l, q).req \in {Conn.req, Append(Conn.req, q)}
  <2>1. Sent(l, q).req = IF l.up THEN Append(l.req, q) ELSE l.req
    BY <1>1, SentLink
  <2> QED
    BY <2>1
<1>5. RequestAdded(device.conn, q)
  BY <1>2, <1>3, <1>4 DEF RequestAdded, Conn
<1> QED
  BY <1>1, <1>2, <1>3, <1>5, PairRequestsGrow

\* A connection is opened, and the daemon asked its name.
LEMMA PairingOpens ==
    ASSUME IInv, PairingInv, Room(1), NEW op, op \notin {"none", "ValidatePairing", "Unpair"},
           ConnectToPort(op), UNCHANGED <<trusted, accepted, record>>
    PROVE  PairingInv'
<1> DEFINE q == [n |-> sent + 1, kind |-> "QueryType", about |-> None, tls |-> FALSE]
           l == Sent(Silent(TRUE, TRUE), q)
<1>1. PICK s \in Sockets :
         /\ ~link[s].open /\ ~link[s].up
         /\ link' = [link EXCEPT ![s] = l]
         /\ sent' = sent + 1 /\ call' = Waiting(op, "daemon", None)
  BY DEF ConnectToPort, NextFree, Free
<1>2. q \in Requested /\ q.n = sent + 1 /\ q.kind # "Unpair"
  <2>1. sent \in Nat /\ sent + 1 \in Requests /\ 0 \in Numbers
    BY BoundsAssumption DEF IInv, Types, Room, Numbers, Requests
  <2> QED
    BY <2>1 DEF Requested, Kinds, None
<1>3. link[s] \in Links /\ link \in [Sockets -> Links]
  BY DEF IInv, Types
<1>4. link[s].req = <<>> /\ l.req = Append(<<>>, q)
  BY <1>1, <1>3 DEF Links, Sent, Silent
<1>5. call'.op = op /\ call'.want = sent + 1 /\ trusted' = trusted /\ accepted' = accepted
      /\ record' = record
  BY <1>1 DEF Waiting
<1> HIDE DEF q, l
<1>6. RequestAdded(s, q)
  BY <1>1, <1>3, <1>4 DEF RequestAdded
<1>7. PairRequests'
  BY <1>1, <1>2, <1>5, <1>6, PairRequestsGrow DEF PairingInv
<1>8. PairAnswers'
  BY <1>5, SaysNothing
<1> QED
  BY <1>7, <1>8 DEF PairingInv

\* The calls that are about no pairing.
LEMMA OtherCallsNext ==
    ASSUME IInv, PairingInv,
           \/ CallConnect \/ ConnectRefused \/ ConnectAgain \/ ConnectEnds
           \/ CallDisconnect \/ CallIsValid \/ CallCopyValue \/ CopyValueEnds
           \/ CallStartSession \/ StartSessionLacksRecord \/ SessionOpens \/ SessionFails
           \/ HandshakeFails \/ Reconnect \/ ReconnectRefused \/ CopyBag \/ BagEnds
           \/ CallStopSession \/ StopSessionHasNone \/ StopSessionEnds
    PROVE  PairingInv'
<1>0. /\ {"GetValue", "StartSession", "StopSession"} \subseteq Kinds
      /\ None \in Numbers /\ record.id \in Numbers /\ device.session \in Numbers
      /\ Room(2) => Room(1)
  BY BoundsAssumption DEF Kinds, None, Numbers, IInv, Types, Records, DeviceObjects, Room
<1>a. ASSUME UNCHANGED outside PROVE UNCHANGED <<trusted, accepted>>
  BY <1>a DEF outside
<1>b. ASSUME NEW op, NEW result, Return(op, result)
      PROVE  call'.op = "none" /\ call'.at = op /\ call'.result = result
  BY <1>b DEF Return, Returned, NoCall
<1>c. ASSUME Restarted PROVE PairingInv'
  BY <1>c, RequestsUntouched, PairingStays DEF Restarted, NoCall
<1>d. ASSUME NEW op \in {"CopyValue", "StartSession", "StopSession"}, NEW at,
             NEW kind \in Kinds, kind # "Unpair", NEW about \in Numbers,
             Connected, Room(1), Ask(Conn, op, at, kind, about), record' = record,
             UNCHANGED outside
      PROVE  PairingInv'
  <2>1. PairRequests'
    BY <1>a, <1>d, ConnType, PairingAsks DEF PairingInv
  <2>2. call'.op = op
    BY <1>d DEF Ask, Waiting
  <2> QED
    BY <2>1, <2>2, SaysNothing DEF PairingInv
<1>1. CASE CallConnect \/ Reconnect
  <2>1. PICK op \in {"Connect", "StartSession"} : ConnectToPort(op)
    BY <1>1 DEF CallConnect, Reconnect
  <2>2. UNCHANGED <<trusted, accepted, record>> /\ Room(1)
    BY <1>1, <1>a DEF CallConnect, Reconnect, At, IInv, Placed
  <2> QED
    BY <2>1, <2>2, PairingOpens
<1>2. CASE ConnectRefused \/ ReconnectRefused \/ StartSessionLacksRecord
           \/ StopSessionHasNone \/ CallIsValid
  <2>1. /\ UNCHANGED <<sent, trusted, accepted, record>>
        /\ link' = link \/ RefusedToPort
    BY <1>2, <1>a DEF ConnectRefused, ReconnectRefused, StartSessionLacksRecord,
       StopSessionHasNone, CallIsValid
  <2>2. call'.op = "none" /\ call'.at \notin {"ValidatePairing", "Unpair"}
    BY <1>2, <1>b DEF ConnectRefused, ReconnectRefused, StartSessionLacksRecord,
       StopSessionHasNone, CallIsValid
  <2> QED
    BY <2>1, <2>2, RequestsUntouched, PairingStays
<1>3. CASE ConnectAgain \/ CallDisconnect
  <2>1. UNCHANGED <<sent, trusted, accepted, record>> /\ link' \in {link, Closed}
    BY <1>3, <1>a DEF ConnectAgain, CallDisconnect
  <2>2. call'.op = "none" /\ call'.at \notin {"ValidatePairing", "Unpair"}
    BY <1>3, <1>b DEF ConnectAgain, CallDisconnect
  <2> QED
    BY <2>1, <2>2, RequestsUntouched, PairingStays
<1>4. CASE ConnectEnds
  <2>1. ~Resting /\ call.op \in Ops /\ UNCHANGED <<sent, trusted, accepted, record>>
    BY <1>4, <1>a DEF ConnectEnds, IInv, Placed, Resting, Types, Calls, Idle, Ops, PlainCalls
  <2>2. PICK r \in Receipts(Conn) :
           /\ link' = Closed \/ Take(r)
           /\ Return(call.op, IF call.op = "Connect" /\ Good(r.reply, "QueryType")
                              THEN "success" ELSE "failed")
    BY <1>4 DEF ConnectEnds
  <2>3. /\ call'.op = "none"
        /\ call'.result # "success" \/ call'.at = "Connect"
    BY <1>b, <2>2
  <2> QED
    BY <2>1, <2>2, <2>3, RequestsUntouched, PairingStays
<1>5. CASE CallCopyValue
  BY <1>0, <1>5, <1>d DEF CallCopyValue
<1>6. CASE CopyValueEnds
  <2>1. ~Resting
    BY <1>6 DEF CopyValueEnds, At, Resting, Idle
  <2>2. PICK r \in Receipts(Conn) :
           \/ Restarted
           \/ /\ Take(r) /\ UNCHANGED <<outside, sent, record>>
              /\ \/ call' = [Returned("CopyValue", "success") EXCEPT
                               !.want = call.want, !.got = r.reply.n]
                 \/ call' = Returned("CopyValue", "failed")
    BY <1>6 DEF CopyValueEnds
  <2>3. CASE ~Restarted
    <3>1. call'.op = "none" /\ call'.at = "CopyValue"
      BY <2>2, <2>3 DEF Returned, NoCall
    <3> QED
      BY <1>a, <2>1, <2>2, <2>3, <3>1, RequestsUntouched, PairingStays
  <2> QED
    BY <1>c, <2>3
<1>7. CASE CallStartSession \/ CallStopSession
  BY <1>0, <1>7, <1>d DEF CallStartSession, CallStopSession
<1>8. CASE SessionOpens
  <2>1. ~Resting /\ call.op = "StartSession" /\ UNCHANGED <<sent, trusted, accepted, record>>
    BY <1>8, <1>a DEF SessionOpens, At, Resting, Idle
  <2>2. call'.op = "StartSession" /\ call'.at = "bag"
    BY <1>8, <2>1 DEF SessionOpens, IInv, Types, Calls
  <2>3. \E r \in Receipts(Conn) : \E m :
           link' = [link EXCEPT ![device.conn] = [r.link EXCEPT !.mode = m]]
    BY <1>8 DEF SessionOpens
  <2> QED
    BY <2>1, <2>2, <2>3, RequestsUntouched, PairingStays
<1>9. CASE SessionFails \/ StopSessionEnds
  <2>1. ~Resting /\ UNCHANGED <<sent, trusted, accepted, record>>
    BY <1>9, <1>a DEF SessionFails, StopSessionEnds, At, Resting, Idle
  <2>2. \E r \in Receipts(Conn) : Take(r)
    BY <1>9 DEF SessionFails, StopSessionEnds
  <2>3. call'.op = "none" /\ call'.at \in {"StartSession", "StopSession"}
    BY <1>9, <1>b DEF SessionFails, StopSessionEnds
  <2> QED
    BY <2>1, <2>2, <2>3, RequestsUntouched, PairingStays
<1>10. CASE HandshakeFails
  <2>1. ~Resting /\ call.op = "StartSession" /\ UNCHANGED <<sent, trusted, accepted, record>>
    BY <1>10, <1>a DEF HandshakeFails, At, Resting, Idle
  <2>2. PICK r \in Receipts(Conn) :
           \/ link' = Closed /\ call' = [call EXCEPT !.at = "reconnect"]
           \/ Take(r) /\ Return("StartSession", "failed")
    BY <1>10 DEF HandshakeFails
  <2>3. /\ call'.op \in {"none", "StartSession"}
        /\ call'.at \notin {"ValidatePairing", "Unpair"}
    BY <1>b, <2>1, <2>2 DEF IInv, Types, Calls
  <2> QED
    BY <2>1, <2>2, <2>3, RequestsUntouched, PairingStays
<1>11. CASE CopyBag
  <2>1. Connected /\ Room(1) /\ UNCHANGED <<outside, record>>
    BY <1>11 DEF CopyBag, At, IInv, Placed, Idle
  <2>2. CASE Return("StartSession", "success") /\ UNCHANGED <<link, sent>>
    <3>1. call'.op = "none" /\ call'.at = "StartSession"
      BY <1>b, <2>2
    <3> QED
      BY <1>a, <2>1, <2>2, <3>1, RequestsUntouched, PairingStays
  <2>3. CASE Ask(Conn, "StartSession", "wifi", "GetValue", None)
    BY <1>0, <1>d, <2>1, <2>3
  <2> QED
    BY <1>11, <2>2, <2>3 DEF CopyBag
<1>12. CASE BagEnds
  <2>1. ~Resting
    BY <1>12 DEF BagEnds, At, Resting, Idle
  <2>2. CASE ~Restarted
    <3>1. PICK r \in Receipts(Conn) : Take(r) /\ Return("StartSession", "success")
                                      /\ UNCHANGED <<outside, sent, record>>
      BY <1>12, <2>2 DEF BagEnds
    <3>2. call'.op = "none" /\ call'.at = "StartSession"
      BY <1>b, <3>1
    <3> QED
      BY <1>a, <2>1, <3>1, <3>2, RequestsUntouched, PairingStays
  <2> QED
    BY <1>c, <2>2
<1> QED
  BY <1>1, <1>2, <1>3, <1>4, <1>5, <1>6, <1>7, <1>8, <1>9, <1>10, <1>11, <1>12

LEMMA PairCallsNext ==
    ASSUME IInv, PairingInv,
           \/ PairHasRecord \/ CallPair \/ PairAsksKey \/ PairSends \/ PairLacksKey
           \/ PairStores \/ PairFails
    PROVE  PairingInv'
<1>0. /\ {"GetValue", "Pair"} \subseteq Kinds /\ None \in Numbers /\ sent \in Nat
      /\ Room(3) => Room(1)
      /\ Room(2) => Room(1)
  BY BoundsAssumption DEF Kinds, None, Numbers, IInv, Types, Room
<1>a. ASSUME UNCHANGED outside PROVE UNCHANGED <<trusted, accepted>>
  BY <1>a DEF outside
<1>b. ASSUME NEW result, Return("Pair", result)
      PROVE  call'.op = "none" /\ call'.at = "Pair" /\ call'.result = result
  BY <1>b DEF Return, Returned, NoCall
<1>c. ASSUME Restarted PROVE PairingInv'
  BY <1>c, RequestsUntouched, PairingStays DEF Restarted, NoCall
<1>d. ASSUME NEW at, NEW kind \in Kinds, kind # "Unpair", NEW l \in Links, l.req = Conn.req,
             Connected, Room(1), Ask(l, "Pair", at, kind, None), record' = record,
             UNCHANGED outside
      PROVE  PairingInv'
  <2>1. PairRequests'
    BY <1>0, <1>a, <1>d, PairingAsks DEF PairingInv
  <2>2. call'.op = "Pair"
    BY <1>d DEF Ask, Waiting
  <2> QED
    BY <2>1, <2>2, SaysNothing DEF PairingInv
<1>e. ASSUME ~Resting, NEW r \in Receipts(Conn)
      PROVE  Connected /\ r.link \in Links /\ r.link.req = Conn.req
  <2>1. Connected /\ Conn \in Links /\ r.link \in Links
    BY <1>e, Received
  <2> QED
    BY <1>e, <2>1, ReceiptLink
<1>1. CASE PairHasRecord
  <2>1. /\ UNCHANGED <<sent, trusted, accepted, record, link>>
        /\ Return("Pair", "success")
    BY <1>1, <1>a DEF PairHasRecord
  <2>2. call'.op = "none" /\ call'.at = "Pair"
    BY <1>b, <2>1
  <2> QED
    BY <2>1, <2>2, RequestsUntouched, PairingStays
<1>2. CASE CallPair
  <2>1. CASE Connected
    BY <1>0, <1>2, <1>d, <2>1, ConnType DEF CallPair
  <2>2. CASE ~Connected
    <3>1. /\ UNCHANGED <<sent, trusted, accepted, record, link>>
          /\ Return("Pair", "failed")
      BY <1>2, <1>a, <2>2 DEF CallPair
    <3>2. call'.op = "none" /\ call'.at = "Pair"
      BY <1>b, <3>1
    <3> QED
      BY <3>1, <3>2, RequestsUntouched, PairingStays
  <2> QED
    BY <2>1, <2>2
<1>3. CASE PairAsksKey
  <2>1. ~Resting /\ Room(1)
    BY <1>0, <1>3 DEF PairAsksKey, At, Resting, Idle, IInv, Placed
  <2>2. CASE ~Restarted
    <3>1. PICK r \in Receipts(Conn) : Ask(r.link, "Pair", "key", "GetValue", None)
                                      /\ UNCHANGED <<outside, record>>
      BY <1>3, <2>2 DEF PairAsksKey
    <3> QED
      BY <1>0, <1>d, <1>e, <2>1, <3>1
  <2> QED
    BY <1>c, <2>2
<1>4. CASE PairSends
  <2>1. ~Resting /\ Room(1) /\ UNCHANGED <<outside, record>>
    BY <1>4 DEF PairSends, At, Resting, Idle, IInv, Placed
  <2>2. PICK r \in Receipts(Conn) : Ask(r.link, "Pair", "paired", "Pair", None)
    BY <1>4 DEF PairSends
  <2> QED
    BY <1>0, <1>d, <1>e, <2>1, <2>2
<1>5. CASE PairLacksKey
  <2>1. ~Resting
    BY <1>5 DEF PairLacksKey, At, Resting, Idle
  <2>2. CASE ~Restarted
    <3>1. PICK r \in Receipts(Conn) : Take(r) /\ Return("Pair", "failed")
                                      /\ UNCHANGED <<outside, sent, record>>
      BY <1>5, <2>2 DEF PairLacksKey
    <3>2. call'.op = "none" /\ call'.at = "Pair"
      BY <1>b, <3>1
    <3> QED
      BY <1>a, <2>1, <3>1, <3>2, RequestsUntouched, PairingStays
  <2> QED
    BY <1>c, <2>2
<1>6. CASE PairStores \/ PairFails
  <2>1. ~Resting /\ At("Pair", "paired") /\ UNCHANGED <<sent, trusted, accepted>>
    BY <1>6, <1>a DEF PairStores, PairFails, At, Resting, Idle
  <2>2. \E r \in Receipts(Conn) : Take(r)
    BY <1>6 DEF PairStores, PairFails
  <2>3. call'.op = "none" /\ call'.at = "Pair"
    <3>1. PICK result : Return("Pair", result)
      BY <1>6 DEF PairStores, PairFails
    <3> QED
      BY <1>b, <3>1
  <2>4. record' = record \/ record'.id = call.want
    BY <1>6 DEF PairStores, PairFails
  <2> QED
    BY <2>1, <2>2, <2>3, <2>4, RequestsUntouched, PairingStays
<1> QED
  BY <1>1, <1>2, <1>3, <1>4, <1>5, <1>6

\* SetValue and Activate say nothing of a pairing; ValidatePairing asks for the
\* one on disk, and Unpair for the one it has just removed.
LEMMA PlainPairingNext ==
    ASSUME IInv, PairingInv, NEW op \in PlainCalls, CallPlain(op) \/ PlainEnds(op)
    PROVE  PairingInv'
<1>0. op \in Kinds /\ op \in Ops /\ op # "none" /\ None \in Numbers /\ record.id \in Numbers
  BY BoundsAssumption DEF Kinds, Ops, PlainCalls, None, Numbers, IInv, Types, Records
<1> DEFINE pairing == op \in {"ValidatePairing", "Unpair"}
           about == IF pairing THEN record.id ELSE None
<1>01. about \in Numbers /\ (pairing => about = record.id)
  BY <1>0
<1>1. CASE CallPlain(op)
  <2>1. /\ Idle
        /\ pairing => record.id # None
        /\ record' = IF op = "Unpair" THEN NoRecord ELSE record
        /\ UNCHANGED <<trusted, accepted>>
    BY <1>1 DEF CallPlain, outside
  <2>2. CASE Connected
    <3>1. Room(1) /\ Ask(Conn, op, "reply", op, about)
      BY <1>1, <2>2 DEF CallPlain
    <3> HIDE DEF about
    <3>2. PairRequests'
      <4>1. \/ record' = record /\ op # "Unpair"
            \/ record' = NoRecord /\ about = record.id /\ record.id # None
        BY <1>01, <2>1
      <4>2. Conn \in Links
        BY <2>2, ConnType
      <4> QED
        BY <1>0, <1>01, <2>1, <2>2, <3>1, <4>1, <4>2, PairingAsks DEF PairingInv
    <3>3. call'.op = op /\ call'.about = about
      BY <3>1 DEF Ask, Waiting
    <3>4. CASE ~pairing
      BY <1>0, <3>2, <3>3, <3>4, SaysNothing DEF PairingInv
    <3>5. CASE pairing
      <4>1. /\ ~Told'
            /\ call'.op = "ValidatePairing" => call'.about = record'.id
        BY <1>0, <1>01, <2>1, <3>3, <3>5 DEF Told, Idle
      <4>2. Answered(Conn)'
        <5> DEFINE q == Request(op, about)
        <5>1. q \in Requested /\ q.kind = op /\ q.about = about
          BY <1>0, <1>01, <3>1, RequestType DEF IInv, Request
        <5>2. Conn \in Links /\ Clear(Conn)
          BY <2>1, <2>2, IdleRests
        <5>3. Conn' = Sent(Conn, q)
          <6>1. device' = device
            BY <1>1, <2>2 DEF CallPlain
          <6>2. link \in [Sockets -> Links] /\ device.conn \in Sockets
            BY <2>2, ConnType DEF IInv, Types
          <6> QED
            BY <3>1, <6>1, <6>2 DEF Ask, Conn
        <5> HIDE DEF q
        <5>4. /\ Conn'.late = Conn.late /\ Conn'.rep = Conn.rep
              /\ Conn'.req \in {Conn.req, Append(Conn.req, q)}
          BY <5>1, <5>2, <5>3, SentLink
        <5>5. ASSUME Conn'.late = 0
              PROVE  /\ Conn'.rep = <<>>
                     /\ \A i \in 1..Len(Conn'.req) : Conn'.req[i] = q
          <6>1. Len(Append(<<>>, q)) = 1 /\ Append(<<>>, q)[1] = q
            OBVIOUS
          <6> QED
            BY <5>2, <5>4, <5>5, <6>1, NoRequests DEF Clear
        <5> QED
          BY <3>3, <5>1, <5>5, NoRequests DEF Answered
      <4> QED
        BY <3>2, <4>1, <4>2 DEF PairingInv, PairAnswers
    <3> QED
      BY <3>4, <3>5
  <2>3. CASE ~Connected
    <3>1. UNCHANGED <<link, sent>> /\ Return(op, "failed")
      BY <1>1, <2>3 DEF CallPlain
    <3>2. call'.op = "none" /\ call'.result = "failed"
      BY <3>1 DEF Return, Returned, NoCall
    <3> QED
      BY <2>1, <3>1, <3>2, RequestsUntouched, PairingStays
  <2> QED
    BY <2>2, <2>3
<1>2. CASE PlainEnds(op)
  <2>1. /\ ~Resting /\ call.op = op
        /\ UNCHANGED <<sent, trusted, accepted, record, device>>
    BY <1>0, <1>2 DEF PlainEnds, At, Resting, Idle, outside
  <2>2. PICK r \in Receipts(Conn) :
           /\ Take(r)
           /\ call' = IF NoError(r.reply)
                      THEN [Returned(op, "success") EXCEPT !.about = call.about]
                      ELSE Returned(op, "failed")
    BY <1>2 DEF PlainEnds
  <2>3. /\ call'.op = "none" /\ call'.at = op
        /\ call'.result = "success" => NoError(r.reply) /\ call'.about = call.about
    BY <2>2 DEF Returned, NoCall
  <2>4. RequestsStay
    BY <2>1, <2>2, RequestsUntouched
  <2>5. CASE ~(pairing /\ call'.result = "success")
    BY <2>1, <2>3, <2>4, <2>5, PairingStays
  <2>6. CASE pairing /\ call'.result = "success"
    <3>1. PairRequests'
      BY <2>1, <2>3, <2>4, PairRequestsStay DEF PairingInv, At
    <3>2. op = "ValidatePairing" => call'.about = record'.id
      BY <2>1, <2>3, <2>6 DEF PairingInv, PairAnswers
    <3>3. /\ Connected /\ Conn \in Links /\ r.link.late = Conn.late
          /\ Conn.rep # <<>> /\ r.reply = Conn.rep[1]
      BY <2>1, <2>3, <2>6, Received
    <3>4. Conn' = r.link /\ Connected'
      BY <2>1, <2>2, <3>3, ConnType DEF Take, Conn, Connected, IInv, Types
    <3>5. Conn.late = 0 => Settled(op, call.about)
      <4>1. 1 \in 1..Len(Conn.rep)
        <5>1. Len(Conn.rep) \in Nat \ {0}
          BY <3>3, EmptySeq DEF Links
        <5> QED
          BY <5>1
      <4> QED
        BY <2>1, <2>3, <2>6, <3>3, <4>1 DEF PairingInv, PairAnswers, Asking, Answered, NoError
    <3>6. PairAnswers'
      BY <2>1, <2>3, <2>6, <3>2, <3>3, <3>4, <3>5 DEF PairAnswers, Told, Asking, Settled, Idle
    <3> QED
      BY <3>1, <3>6 DEF PairingInv
  <2> QED
    BY <2>5, <2>6
<1> QED
  BY <1>1, <1>2

-----------------------------------------------------------------------------
(* The steps of lockdownd and the others.                                  *)

\* Nobody answers; an end of a connection may go down.
LEMMA PairingUntold ==
    ASSUME IInv, PairingInv, RequestsStay,
           UNCHANGED <<device, call, sent, record, trusted, accepted>>,
           Connected => /\ Conn'.late = Conn.late /\ Conn'.rep = Conn.rep
                        /\ Conn'.req \in {Conn.req, <<>>}
    PROVE  PairingInv'
<1>1. PairRequests'
  BY PairRequestsStay DEF PairingInv
<1>2. /\ Connected' <=> Connected
      /\ Asking' <=> Asking
      /\ Told' <=> Told
      /\ \A op, p : Settled(op, p)' <=> Settled(op, p)
  BY DEF Connected, Asking, Told, Idle, Settled
<1>3. Asking /\ Connected => Answered(Conn)'
  BY <1>2, NoRequests DEF PairingInv, PairAnswers, Answered
<1>4. PairAnswers'
  BY <1>2, <1>3 DEF PairingInv, PairAnswers
<1> QED
  BY <1>1, <1>4 DEF PairingInv

\* lockdownd answers, or hangs up instead.
LEMMA ServePairingNext ==
    ASSUME IInv, PairingInv, NEW s \in Sockets, Serve(s)
    PROVE  PairingInv'
<1> DEFINE l == link[s]
           q == Head(l.req)
<1>1. /\ l \in Links /\ link \in [Sockets -> Links] /\ l.up /\ l.req # <<>>
      /\ l.req \in Seq(Requested) /\ l.rep \in Seq(Replied)
      /\ Connected => device.conn \in Sockets /\ Conn = link[device.conn]
      /\ UNCHANGED <<device, call, sent, record>>
  BY ConnType DEF IInv, Types, Links, Serve, Conn
<1>2. CASE l.mode = "await" \/ q.tls # (l.mode = "tls")
  <2> DEFINE m == [l EXCEPT !.up = FALSE, !.req = <<>>]
  <2>1. link' = [link EXCEPT ![s] = m] /\ UNCHANGED <<trusted, accepted>>
    BY <1>1, <1>2 DEF Serve
  <2>2. m.late = l.late /\ m.rep = l.rep /\ m.req = <<>>
    BY <1>1 DEF Links
  <2> HIDE DEF m
  <2>3. RequestsStay
    BY <1>1, <2>1, <2>2 DEF RequestsStay
  <2>4. Connected => /\ Conn'.late = Conn.late /\ Conn'.rep = Conn.rep
                     /\ Conn'.req \in {Conn.req, <<>>}
    BY <1>1, <2>1, <2>2 DEF Conn
  <2> QED
    BY <1>1, <2>1, <2>3, <2>4, PairingUntold
<1>3. CASE ~(l.mode = "await" \/ q.tls # (l.mode = "tls"))
  <2>1. PICK v \in Verdicts(q.kind) :
           LET good == v = "good"
               answered == [l EXCEPT
                   !.req = Tail(@),
                   !.rep = IF l.open THEN Append(@, Reply(q, v, q.tls)) ELSE @]
           IN  /\ good /\ q.kind \in {"ValidatePairing", "StartSession", "Unpair"}
                       => q.about \in trusted
               /\ link' = [link EXCEPT ![s] =
                   IF good /\ q.kind = "StartSession"
                   THEN [answered EXCEPT !.mode = "await", !.session = q.n]
                   ELSE IF good /\ q.kind = "StopSession"
                        THEN [answered EXCEPT !.mode = "plain", !.session = None]
                        ELSE answered]
               /\ trusted' = IF good /\ q.kind = "Pair" THEN trusted \cup {q.n}
                             ELSE IF good /\ q.kind = "Unpair" THEN trusted \ {q.about}
                             ELSE trusted
               /\ accepted' = accepted \cup trusted'
    BY <1>1, <1>3 DEF Serve
  <2>2. /\ link'[s].late = l.late /\ link'[s].req = Tail(l.req)
        /\ link'[s].rep = IF l.open THEN Append(l.rep, Reply(q, v, q.tls)) ELSE l.rep
        /\ \A u \in Sockets : u # s => link'[u] = link[u]
    <3> DEFINE answered == [l EXCEPT
                   !.req = Tail(@),
                   !.rep = IF l.open THEN Append(@, Reply(q, v, q.tls)) ELSE @]
    <3>1. /\ answered.late = l.late /\ answered.req = Tail(l.req)
          /\ answered.rep = IF l.open THEN Append(l.rep, Reply(q, v, q.tls)) ELSE l.rep
          /\ DOMAIN answered = {"open", "up", "req", "rep", "mode", "session", "late"}
      BY <1>1 DEF Links
    <3>2. link' = [link EXCEPT ![s] =
                   IF v = "good" /\ q.kind = "StartSession"
                   THEN [answered EXCEPT !.mode = "await", !.session = q.n]
                   ELSE IF v = "good" /\ q.kind = "StopSession"
                        THEN [answered EXCEPT !.mode = "plain", !.session = None]
                        ELSE answered]
      BY <2>1
    <3> HIDE DEF answered
    <3> QED
      BY <1>1, <3>1, <3>2
  <2>3. /\ Len(l.req) \in Nat \ {0} /\ q = l.req[1] /\ q \in Requested
        /\ Len(Tail(l.req)) = Len(l.req) - 1
        /\ \A i \in 1..(Len(l.req) - 1) : Tail(l.req)[i] = l.req[i + 1]
    BY <1>1, HeadTailProperties, LenProperties, EmptySeq
  <2>4. q.n \in Nat /\ q.about \in Nat /\ sent \in Nat /\ 1 \in 1..Len(l.req)
    BY <2>3, NumbersAre DEF Requested, Requests, Numbers
  <2> HIDE DEF l, q
  \* What is under way was under way before, and is not the request served.
  <2>5. ASSUME NEW u \in Sockets, NEW i \in 1..Len(link'[u].req)
        PROVE  \E j \in 1..Len(link[u].req) :
                  /\ link'[u].req[i] = link[u].req[j]
                  /\ j = IF u = s THEN i + 1 ELSE i
                  /\ link[u].req[j].n # q.n
    <3>1. CASE u = s
      <4>1. i \in 1..(Len(l.req) - 1)
        BY <2>2, <2>3, <2>5, <3>1
      <4>2. i + 1 \in 1..Len(l.req) /\ i + 1 # 1
        BY <2>3, <4>1
      <4>3. link'[s].req[i] = l.req[i + 1]
        BY <2>2, <2>3, <4>1
      <4>4. l.req[i + 1].n # q.n
        BY <2>3, <2>4, <4>2 DEF PairingInv, PairRequests, Numbered, l
      <4> QED
        BY <3>1, <4>2, <4>3, <4>4 DEF l
    <3>2. CASE u # s
      <4>1. /\ i \in 1..Len(link[u].req) /\ link'[u].req[i] = link[u].req[i]
            /\ link[s].req[1] = q /\ 1 \in 1..Len(link[s].req)
        BY <2>2, <2>3, <2>4, <2>5, <3>2 DEF l
      <4> QED
        BY <3>2, <4>1 DEF PairingInv, PairRequests, Numbered
    <3> QED
      BY <3>1, <3>2
  <2>6. /\ q.n <= sent
        /\ q.kind = "Pair" => q.n \notin accepted
        /\ q.kind = "Unpair" => q.about # record.id
    BY <2>3, <2>4 DEF PairingInv, PairRequests, Numbered, Underway, l
  <2>7. \A p \in accepted' : p \in accepted \/ (p = q.n /\ q.kind = "Pair")
    BY <2>1 DEF PairingInv, PairRequests, Accounted
  <2>8. Numbered'
    <3>1. ASSUME NEW u \in Sockets, NEW i \in 1..Len(link'[u].req)
          PROVE  link'[u].req[i].n <= sent'
      BY SMTT(30), <1>1, <2>5, <3>1 DEF PairingInv, PairRequests, Numbered
    <3>2. ASSUME NEW u \in Sockets, NEW t \in Sockets, NEW i \in 1..Len(link'[u].req),
                 NEW j \in 1..Len(link'[t].req), link'[u].req[i].n = link'[t].req[j].n
          PROVE  u = t /\ i = j
      <4>1. PICK k \in 1..Len(link[u].req) :
               link'[u].req[i] = link[u].req[k] /\ k = IF u = s THEN i + 1 ELSE i
        BY <2>5, <3>2
      <4>2. PICK m \in 1..Len(link[t].req) :
               link'[t].req[j] = link[t].req[m] /\ m = IF t = s THEN j + 1 ELSE j
        BY <2>5, <3>2
      <4>3. u = t /\ k = m
        <5>1. link[u].req[k].n = link[t].req[m].n
          BY <3>2, <4>1, <4>2
        <5> QED
          BY <5>1 DEF PairingInv, PairRequests, Numbered
      <4>4. i + 1 = j + 1 => i = j
        OBVIOUS
      <4> QED
        BY <4>1, <4>2, <4>3, <4>4
    <3> QED
      BY <3>1, <3>2 DEF Numbered
  <2>9. Accounted'
    <3>1. trusted' \subseteq accepted'
      BY <2>1
    <3>2. \A p \in accepted' : p <= sent'
      BY <1>1, <2>6, <2>7 DEF PairingInv, PairRequests, Accounted
    <3> QED
      BY <1>1, <3>1, <3>2 DEF PairingInv, PairRequests, Accounted, At
  <2>10. Underway'
    <3> SUFFICES ASSUME NEW u \in Sockets, NEW i \in 1..Len(link'[u].req)
                 PROVE  /\ link'[u].req[i].kind = "Pair" => link'[u].req[i].n \notin accepted'
                        /\ link'[u].req[i].kind = "Unpair" =>
                             /\ link'[u].req[i].about # None
                             /\ link'[u].req[i].about <= sent'
                             /\ link'[u].req[i].about # record'.id
                             /\ At("Pair", "paired")' => link'[u].req[i].about < call'.want
      BY DEF Underway
    <3>1. PICK j \in 1..Len(link[u].req) :
             link'[u].req[i] = link[u].req[j] /\ link[u].req[j].n # q.n
      BY <2>5
    <3>2. At("Pair", "paired")' <=> At("Pair", "paired")
      BY <1>1 DEF At
    <3> QED
      BY <1>1, <2>7, <3>1, <3>2 DEF PairingInv, PairRequests, Underway
  <2>11. PairRequests'
    BY <2>8, <2>9, <2>10 DEF PairRequests
  \* What was settled stays so.
  <2>12. ASSUME NEW op, NEW p, Settled(op, p), op = "ValidatePairing" => p = record.id
         PROVE  /\ op = "ValidatePairing" => p \in trusted'
                /\ op = "Unpair" => p \in accepted' /\ p \notin trusted'
    <3>1. ASSUME p \in trusted, p = record.id PROVE p \in trusted'
      BY <2>1, <2>6, <3>1
    <3>2. ASSUME p \in accepted, p \notin trusted PROVE p \in accepted' /\ p \notin trusted'
      BY <2>1, <2>6, <3>2
    <3> QED
      BY <2>12, <3>1, <3>2 DEF Settled
  <2>13. Answered(Conn) /\ Asking /\ Connected => Answered(Conn)'
    <3> SUFFICES ASSUME Answered(Conn), Asking, Connected PROVE Answered(Conn)'
      OBVIOUS
    <3>1. CASE device.conn # s
      <4>1. Conn' = Conn /\ call' = call
        BY <1>1, <2>2, <3>1 DEF Conn
      <4>2. call.op = "ValidatePairing" => call.about = record.id
        BY DEF PairingInv, PairAnswers
      <4>3. Settled(call.op, call.about) => Settled(call.op, call.about)'
        <5>1. call'.op = call.op /\ call'.about = call.about
          BY <4>1
        <5> QED
          BY <2>12, <4>2, <5>1 DEF Settled
      <4> QED
        BY <4>1, <4>3 DEF Answered
    <3>2. CASE device.conn = s
      <4>1. Conn = l /\ Conn' = link'[s] /\ call' = call
        BY <1>1, <3>2 DEF Conn, l
      <4> SUFFICES ASSUME l.late = 0
                   PROVE  /\ \A i \in 1..Len(Conn'.req) :
                                /\ Conn'.req[i].kind = call.op
                                /\ Conn'.req[i].about = call.about
                          /\ \A i \in 1..Len(Conn'.rep) :
                                /\ Conn'.rep[i].kind = call.op
                                /\ Conn'.rep[i].verdict # "other"
                                /\ Conn'.rep[i].verdict = "good"
                                      => Settled(call.op, call.about)'
        BY <2>2, <4>1 DEF Answered
      <4>2. q.kind = call.op /\ q.about = call.about
        BY <2>3, <2>4, <4>1 DEF Answered
      <4>3. l.rep = <<>> /\ Len(l.req) = 1
        <5>1. Awaits(l, call.want) \/ Clear(l)
          BY <4>1 DEF IInv, InStep
        <5> QED
          BY <1>1, <5>1 DEF Awaits, Clear, l
      <4>4. 1..Len(Conn'.req) = {}
        <5>1. Conn'.req = Tail(l.req)
          BY <2>2, <4>1
        <5>2. Len(Tail(l.req)) = 0
          BY <2>3, <4>3
        <5>3. 1..0 = {}
          OBVIOUS
        <5>4. Len(Conn'.req) = 0
          BY <5>1, <5>2
        <5> HIDE DEF l
        <5> QED
          BY <5>3, <5>4
      <4>5. Conn'.rep = IF l.open THEN Append(<<>>, Reply(q, v, q.tls)) ELSE <<>>
        BY <2>2, <4>1, <4>3
      <4>6. /\ Len(Append(<<>>, Reply(q, v, q.tls))) = 1
            /\ Append(<<>>, Reply(q, v, q.tls))[1] = Reply(q, v, q.tls) /\ Len(<<>>) = 0
        OBVIOUS
      <4>7. \A i \in 1..Len(Conn'.rep) : Conn'.rep[i] = Reply(q, v, q.tls)
        BY <4>5, <4>6
      <4>8. Reply(q, v, q.tls).kind = q.kind /\ Reply(q, v, q.tls).verdict = v
        BY DEF Reply
      <4>9. v # "other"
        BY <2>1, <4>2 DEF Verdicts, Asking
      <4>10. v = "good" => Settled(call.op, call.about)'
        <5> SUFFICES ASSUME v = "good"
                     PROVE  /\ q.kind = "ValidatePairing" => q.about \in trusted'
                            /\ q.kind = "Unpair" => /\ q.about \in accepted'
                                                     /\ q.about \notin trusted'
          BY <4>1, <4>2 DEF Settled
        <5>1. q.kind \in {"ValidatePairing", "Unpair"} => q.about \in accepted
          BY <2>1 DEF PairingInv, PairRequests, Accounted
        <5> QED
          BY <2>1, <5>1
      <4> QED
        BY <4>2, <4>4, <4>7, <4>8, <4>9, <4>10
    <3> QED
      BY <3>1, <3>2
  <2>14. PairAnswers'
    <3>1. /\ Connected' <=> Connected
          /\ Asking' <=> Asking
          /\ Told' <=> Told
          /\ record' = record /\ call' = call
      BY <1>1 DEF Connected, Asking, Told, Idle
    <3>2. Connected => (Conn'.late = Conn.late)
      BY <1>1, <2>2 DEF Conn, l
    <3>3. Told /\ Settled(call.at, call.about) => Settled(call.at, call.about)'
      <4>1. call.at = "ValidatePairing" /\ Told => call.about = record.id
        BY DEF PairingInv, PairAnswers
      <4> QED
        BY <2>12, <3>1, <4>1 DEF Settled
    <3> QED
      BY <2>13, <3>1, <3>2, <3>3 DEF PairingInv, PairAnswers
  <2> QED
    BY <2>11, <2>14 DEF PairingInv
<1> QED
  BY <1>2, <1>3

LEMMA OutsidePairingNext ==
    ASSUME IInv, PairingInv, OutsideStep
    PROVE  PairingInv'
<1>0. /\ link \in [Sockets -> Links]
      /\ Connected => device.conn \in Sockets /\ Conn = link[device.conn]
  BY ConnType DEF IInv, Types, Conn
<1>1. ASSUME NEW s \in Sockets, Hangup(s) PROVE PairingInv'
  <2> DEFINE m == [link[s] EXCEPT !.up = FALSE, !.req = <<>>]
  <2>1. /\ UNCHANGED <<device, call, sent, record, trusted, accepted>>
        /\ link' = [link EXCEPT ![s] = m]
    BY <1>0, <1>1 DEF Hangup, outside
  <2>2. m.late = link[s].late /\ m.rep = link[s].rep /\ m.req = <<>>
    BY <1>0 DEF Links
  <2> HIDE DEF m
  <2>3. RequestsStay
    BY <1>0, <2>1, <2>2 DEF RequestsStay
  <2>4. Connected => /\ Conn'.late = Conn.late /\ Conn'.rep = Conn.rep
                     /\ Conn'.req \in {Conn.req, <<>>}
    BY <1>0, <2>1, <2>2 DEF Conn
  <2> QED
    BY <2>1, <2>3, <2>4, PairingUntold
<1>2. CASE Unplug
  <2>1. /\ UNCHANGED <<device, call, sent, record, trusted, accepted>>
        /\ link' = [s \in Sockets |-> [link[s] EXCEPT !.up = FALSE, !.req = <<>>]]
    BY <1>2 DEF Unplug
  <2>2. \A s \in Sockets : /\ link'[s].late = link[s].late /\ link'[s].rep = link[s].rep
                           /\ link'[s].req = <<>>
    BY <1>0, <2>1 DEF Links
  <2>3. RequestsStay
    BY <2>2 DEF RequestsStay
  <2>4. Connected => /\ Conn'.late = Conn.late /\ Conn'.rep = Conn.rep
                     /\ Conn'.req \in {Conn.req, <<>>}
    BY <1>0, <2>1, <2>2 DEF Conn
  <2> QED
    BY <2>1, <2>3, <2>4, PairingUntold
<1>3. CASE Delist
  BY <1>3, RequestsUntouched, PairingUntold DEF Delist, Conn
<1>4. CASE Restart
  BY <1>4, RequestsUntouched, PairingStays DEF Restart, Restarted, NoCall
<1> QED
  BY <1>1, <1>2, <1>3, <1>4, ServePairingNext DEF OutsideStep

LEMMA InitPairing == Init => PairingInv
<1> SUFFICES ASSUME Init PROVE PairingInv
  OBVIOUS
<1>1. \A s \in Sockets : link[s].req = <<>>
  BY DEF Init, Silent
<1>2. Numbered /\ Underway
  BY <1>1, NoRequests DEF Numbered, Underway
<1>3. call.op = "none" /\ call.at = "none"
  BY DEF Init, NoCall
<1>4. Accounted
  BY <1>3 DEF Init, Accounted, NoRecord, None, At
<1>5. PairAnswers
  BY <1>3 DEF PairAnswers, Asking, Told
<1> QED
  BY <1>2, <1>4, <1>5 DEF PairingInv, PairRequests

LEMMA NextPairing == IInv /\ PairingInv /\ [Next]_vars => PairingInv'
<1> SUFFICES ASSUME IInv, PairingInv, [Next]_vars
             PROVE  PairingInv'
  OBVIOUS
<1>1. CASE CallStep
  BY <1>1, OtherCallsNext, PlainPairingNext, PairCallsNext DEF CallStep
<1>2. CASE EndStep
  BY <1>2, OtherCallsNext, PlainPairingNext, PairCallsNext DEF EndStep
<1>3. CASE OutsideStep
  BY <1>3, OutsidePairingNext
<1>4. CASE UNCHANGED vars
  BY <1>4, RequestsUntouched, PairingUntold DEF vars, Conn
<1> QED
  BY <1>1, <1>2, <1>3, <1>4 DEF Next

-----------------------------------------------------------------------------
(* The theorem.                                                            *)

\* Whatever else was asked, left unanswered or cut off before: when Unpair
\* reports success the device does not honour the pairing any longer, and when
\* ValidatePairing does it honours it, on a connection where no reply is late.
THEOREM PairingAnswersAreRight == Spec => []PairingAnswersHold
<1>1. Spec => [](IInv /\ PairingInv)
  BY InitIInv, NextIInv, InitPairing, NextPairing, PTL DEF Spec
<1>2. IInv /\ PairingInv => PairingAnswersHold
  BY DEF PairingInv, PairAnswers, Told, Settled, PairingAnswersHold
<1> QED
  BY <1>1, <1>2, PTL
=============================================================================
