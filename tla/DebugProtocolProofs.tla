--------------------------- MODULE DebugProtocolProofs ---------------------------
(***************************************************************************)
(* Proofs about DebugProtocol, for any contents of answers, base of the    *)
(* checksum's digits and number of commands: types, what a response is     *)
(* made of, and whose answer it is.                                        *)
(***************************************************************************)
EXTENDS DebugProtocol, SequenceTheorems, TLAPS

-----------------------------------------------------------------------------
(* The inductive invariants.                                               *)

Commands == [kind : Kinds, n : 0..MaxCommands]
Messages == [kind : Kinds \union {"+", "-"}, n : 0..MaxCommands]
Packets == [contents : Contents, digits : Nat \X Nat, to : Nat, packet : Nat]

Links ==
    [up : BOOLEAN, in : Seq(Bytes), waited : BOOLEAN, lost : BOOLEAN, sent : Seq(Messages)]
Clients ==
    [pc : {"idle", "ack", "prefix", "body", "check", "crashed"}, ack : BOOLEAN,
     n : 0..MaxCommands, kind : Kinds, buffer : Seq(Bytes), left : 0..3, outside : BOOLEAN,
     response : Seq(Bytes), failed : BOOLEAN, refused : BOOLEAN]
Servers ==
    [ack : BOOLEAN, busy : Commands, rest : Seq(Bytes), last : Packets,
     packets : Nat, declined : BOOLEAN]

\* A # and two bytes more are counted down.
CountedDown ==
    /\ client.pc \in {"ack", "prefix"} => client.left = 3 /\ client.buffer = <<>>
    /\ client.pc = "body" => client.left > 0 /\ Len(client.buffer) >= 3 - client.left
    /\ client.pc = "check" => Len(client.buffer) >= 3
    /\ client.pc # "idle" => client.n > 0

Types ==
    /\ ssl \in BOOLEAN /\ link \in Links /\ client \in Clients /\ server \in Servers
    /\ CountedDown

\* The place of the next bytes leaves the buffer over OpenSSL, and after waiting.
Late == client.outside => ssl /\ link.waited

\* What the client has yet to receive, as far as it was begun.
Coming == link.in \o server.rest

\* Behind a $ stand the contents, behind them the #, unless debugserver hung up.
Follows(S, up) ==
    \A j \in 1..Len(S) :
        /\ S[j].is = "$" => j < Len(S) /\ S[j + 1].is \in Contents
        /\ S[j].is \in Contents =>
              \/ j = Len(S) /\ ~up
              \/ j < Len(S) /\ S[j + 1].is = "#"

\* The first n bytes are one of contents, and zeros.
Padded(bytes, n) ==
    n >= 1 /\ bytes[1].is \in Contents /\ \A i \in 2..n : bytes[i] = Nothing

\* The rest of a packet begins with the #, and nothing else is answered before it.
RestEndsPacket ==
    server.rest # <<>> => server.busy = NoCommand /\ server.rest[1].is = "#"

\* Past the $, the buffer has what was before what is coming.
Reading ==
    /\ client.pc = "body" /\ client.left = 3 =>
          \/ /\ Len(client.buffer) = 0 /\ Len(Coming) > 0 /\ Coming[1].is \in Contents
          \/ /\ Padded(client.buffer, Len(client.buffer))
             /\ \/ Len(Coming) = 0 /\ ~link.up
                \/ Len(Coming) > 0 /\ Coming[1].is = "#"
    /\ client.pc = "body" /\ client.left < 3 =>
          Padded(client.buffer, Len(client.buffer) - (3 - client.left))
    /\ client.pc = "check" => Padded(client.buffer, Len(client.buffer) - 3)

Responded ==
    client.response = <<>> \/ Padded(client.response, Len(client.response))

PacketInv == Follows(Coming, link.up) /\ RestEndsPacket /\ Reading /\ Responded

\* Unless bytes were stored elsewhere than in their buffer.
UnlessLost == link.lost \/ PacketInv

\* The command of the call under way.
Asked == [kind |-> client.kind, n |-> client.n]

\* S is what is left of an answer to command n.
Ending(S, n) ==
    /\ Len(S) <= 5
    /\ \A j \in 1..Len(S) :
          /\ S[j].to = n
          /\ j + 4 = Len(S) => S[j].is = "$"
          /\ j + 3 = Len(S) => S[j].is \in Contents
          /\ j + 2 = Len(S) => S[j].is = "#"

Pluses(messages, k) == \A j \in 1..k : messages[j].kind = "+"

\* Between calls nothing is under way but acknowledgements.
Silent ==
    /\ Pluses(link.sent, Len(link.sent))
    /\ Len(link.in) = 0 /\ Len(server.rest) = 0 /\ server.busy = NoCommand
    /\ client.ack = server.ack
    /\ client.n > 0 => Len(client.response) = 1 /\ client.response[1].to = client.n

\* The command is under way.
OnItsWay ==
    /\ client.pc \in {"ack", "prefix"} /\ (client.pc = "ack" <=> client.ack)
    /\ client.ack = server.ack
    /\ Len(link.sent) > 0 /\ link.sent[Len(link.sent)] = Asked
    /\ Pluses(link.sent, Len(link.sent) - 1)
    /\ Len(link.in) = 0 /\ Len(server.rest) = 0 /\ server.busy = NoCommand

\* debugserver has it, and has acknowledged it.
Taken ==
    /\ client.pc \in {"ack", "prefix"}
    /\ client.ack = server.ack /\ server.busy = Asked
    /\ Len(link.sent) = 0 /\ Len(server.rest) = 0
    /\ client.pc = "ack" => Len(link.in) = 1 /\ link.in[1].is = "+"
    /\ client.pc = "prefix" => Len(link.in) = 0

\* It has answered.
Answered ==
    /\ Len(link.sent) = 0 /\ server.busy = NoCommand
    /\ server.ack = (client.ack /\ client.kind # "QStartNoAckMode")
    /\ client.pc = "ack" =>
          Len(Coming) = 6 /\ Coming[1].is = "+" /\ Ending(Tail(Coming), client.n)
    /\ client.pc # "ack" => Ending(Coming, client.n)
    /\ client.pc = "prefix" => Len(Coming) = 5
    /\ client.pc = "body" =>
          \/ Len(Coming) = 4 /\ Len(client.buffer) = 0
          \/ Len(Coming) = client.left /\ Len(client.buffer) = 4 - client.left
    /\ client.pc = "check" => Len(Coming) = 0 /\ Len(client.buffer) = 4
    /\ client.pc # "crashed"
    /\ client.pc \in {"body", "check"} /\ Len(client.buffer) > 0 =>
          client.buffer[1].to = client.n

StepInv ==
    link.up /\ Calm =>
        IF client.pc = "idle" THEN Silent ELSE OnItsWay \/ Taken \/ Answered

-----------------------------------------------------------------------------
(* Sequences, bytes and packets.                                           *)

LEMMA Concatenated ==
    ASSUME NEW A, NEW a \in Seq(A), NEW b \in Seq(A)
    PROVE  /\ a \o b \in Seq(A) /\ Len(a) \in Nat /\ Len(b) \in Nat
           /\ Len(a \o b) = Len(a) + Len(b) /\ Len(a \o b) \in Nat
           /\ \A j \in 1..Len(a) : (a \o b)[j] = a[j]
           /\ \A j \in 1..Len(b) : (a \o b)[Len(a) + j] = b[j]
<1>1. /\ a \o b \in Seq(A) /\ Len(a) \in Nat /\ Len(b) \in Nat
      /\ Len(a \o b) = Len(a) + Len(b)
      /\ \A j \in 1..(Len(a) + Len(b)) :
            (a \o b)[j] = IF j <= Len(a) THEN a[j] ELSE b[j - Len(a)]
  BY ConcatProperties, LenProperties
<1>2. \A j \in 1..Len(a) : (a \o b)[j] = a[j]
  BY <1>1
<1>3. ASSUME NEW j \in 1..Len(b) PROVE (a \o b)[Len(a) + j] = b[j]
  <2>1. /\ Len(a) + j \in 1..(Len(a) + Len(b)) /\ ~(Len(a) + j <= Len(a))
        /\ (Len(a) + j) - Len(a) = j
    BY <1>1
  <2> QED
    BY <1>1, <2>1
<1>4. Len(a) + Len(b) \in Nat
  BY <1>1
<1> QED
  BY <1>1, <1>2, <1>3, <1>4

LEMMA Behead ==
    ASSUME NEW A, NEW s \in Seq(A), s # <<>>
    PROVE  /\ Len(s) \in Nat /\ Len(s) > 0 /\ Head(s) = s[1] /\ Head(s) \in A
           /\ Tail(s) \in Seq(A) /\ Len(Tail(s)) = Len(s) - 1
           /\ \A j \in 1..Len(Tail(s)) : Tail(s)[j] = s[j + 1]
<1>1. Len(s) \in Nat /\ Len(s) # 0
  BY EmptySeq, LenProperties
<1> QED
  BY <1>1, HeadTailProperties

LEMMA Appended ==
    ASSUME NEW A, NEW s \in Seq(A), NEW x \in A
    PROVE  /\ Append(s, x) \in Seq(A) /\ Len(s) \in Nat /\ Len(Append(s, x)) = Len(s) + 1
           /\ \A j \in 1..Len(s) : Append(s, x)[j] = s[j]
           /\ Append(s, x)[Len(s) + 1] = x
BY AppendProperties, LenProperties

LEMMA Empties ==
    ASSUME NEW A, NEW s \in Seq(A)
    PROVE  (Len(s) = 0 <=> s = <<>>) /\ Len(s) \in Nat /\ (s # <<>> => Len(s) > 0)
<1>1. (Len(s) = 0 <=> s = <<>>) /\ Len(s) \in Nat
  BY EmptySeq, LenProperties
<1> QED
  BY <1>1

LEMMA DigitsInType ==
    ASSUME NEW v \in Nat
    PROVE  First(v) \in Nat /\ Second(v) \in Nat
<1>1. Base \in Nat /\ Base > 0
  BY BoundsAssumption
<1>2. \A x \in Nat : x % Base \in Nat /\ x \div Base \in Nat
  BY <1>1
<1> QED
  BY <1>2 DEF First, Second

\* A packet's bytes.
LEMMA Pieces ==
    ASSUME NEW p \in Packets
    PROVE  /\ Piece1(p) \in Seq(Bytes) /\ Len(Piece1(p)) = 2
           /\ Piece1(p)[1].is = "$" /\ Piece1(p)[2].is = p.contents
           /\ Piece1(p)[1].to = p.to /\ Piece1(p)[2].to = p.to
           /\ Piece2(p) \in Seq(Bytes) /\ Len(Piece2(p)) = 3
           /\ Piece2(p)[1].is = "#" /\ Piece2(p)[2].is = "digit" /\ Piece2(p)[3].is = "digit"
           /\ \A j \in 1..3 : Piece2(p)[j].to = p.to
           /\ p.contents \in Contents
<1>1. /\ p.contents \in Contents /\ p.to \in Nat /\ p.packet \in Nat
      /\ p.digits[1] \in Nat /\ p.digits[2] \in Nat
  BY DEF Packets
<1>2. Value[p.contents] \in Nat
  BY <1>1, ContentsAssumption
<1> DEFINE d == Byte("$", 0, p.to, p.packet)
           c == Byte(p.contents, Value[p.contents], p.to, p.packet)
           h == Byte("#", 0, p.to, p.packet)
           x == Byte("digit", p.digits[1], p.to, p.packet)
           y == Byte("digit", p.digits[2], p.to, p.packet)
<1>3. d \in Bytes /\ c \in Bytes /\ h \in Bytes /\ x \in Bytes /\ y \in Bytes
  BY <1>1, <1>2 DEF Byte, Bytes
<1>4. /\ d.is = "$" /\ c.is = p.contents /\ h.is = "#" /\ x.is = "digit" /\ y.is = "digit"
      /\ d.to = p.to /\ c.to = p.to /\ h.to = p.to /\ x.to = p.to /\ y.to = p.to
  BY DEF Byte
<1>5. Piece1(p) = <<d, c>> /\ Piece2(p) = <<h, x, y>>
  BY DEF Piece1, Piece2
<1> HIDE DEF d, c, h, x, y
<1>6. /\ <<d, c>> \in Seq(Bytes) /\ Len(<<d, c>>) = 2
      /\ <<d, c>>[1] = d /\ <<d, c>>[2] = c
  BY <1>3
<1>7. /\ <<h, x, y>> \in Seq(Bytes) /\ Len(<<h, x, y>>) = 3
      /\ <<h, x, y>>[1] = h /\ <<h, x, y>>[2] = x /\ <<h, x, y>>[3] = y
  BY <1>3
<1>8. \A j \in 1..3 : j = 1 \/ j = 2 \/ j = 3
  OBVIOUS
<1> QED
  BY <1>1, <1>4, <1>5, <1>6, <1>7, <1>8

\* What is in a byte tells what it is.
LEMMA Tags ==
    /\ Nothing \in Bytes /\ Nothing.is = "nul"
    /\ \A t \in {"+", "-", "$", "#", "nul", "digit"} : t \notin Contents
    /\ \A b \in Bytes : b.to \in Nat
<1>1. Nothing \in Bytes /\ Nothing.is = "nul"
  BY DEF Nothing, Byte, Bytes
<1>2. \A t \in {"+", "-", "$", "#", "nul", "digit"} : t \notin Contents
  BY ContentsAssumption
<1>3. \A b \in Bytes : b.to \in Nat
  BY DEF Bytes
<1> QED
  BY <1>1, <1>2, <1>3

\* What is coming, of what has been written and what has not.
LEMMA ComingParts ==
    ASSUME Types
    PROVE  /\ link.in \in Seq(Bytes) /\ server.rest \in Seq(Bytes) /\ Coming \in Seq(Bytes)
           /\ Len(link.in) \in Nat /\ Len(server.rest) \in Nat /\ Len(Coming) \in Nat
           /\ Len(Coming) = Len(link.in) + Len(server.rest)
           /\ \A j \in 1..Len(link.in) : Coming[j] = link.in[j]
           /\ \A j \in 1..Len(server.rest) : Coming[Len(link.in) + j] = server.rest[j]
           /\ Len(link.in) = 0 <=> link.in = <<>>
           /\ Len(server.rest) = 0 <=> server.rest = <<>>
<1>1. link.in \in Seq(Bytes) /\ server.rest \in Seq(Bytes)
  BY DEF Types, Links, Servers
<1> DEFINE a == link.in b == server.rest
<1>2. a \in Seq(Bytes) /\ b \in Seq(Bytes)
  BY <1>1
<1> HIDE DEF a, b
<1>3. /\ a \o b \in Seq(Bytes) /\ Len(a) \in Nat /\ Len(b) \in Nat
      /\ Len(a \o b) = Len(a) + Len(b) /\ Len(a \o b) \in Nat
      /\ \A j \in 1..Len(a) : (a \o b)[j] = a[j]
      /\ \A j \in 1..Len(b) : (a \o b)[Len(a) + j] = b[j]
  BY <1>2, Concatenated
<1>4. (Len(a) = 0 <=> a = <<>>) /\ (Len(b) = 0 <=> b = <<>>)
  BY <1>2, Empties
<1>5. Coming = a \o b
  BY DEF Coming, a, b
<1> QED
  BY <1>1, <1>3, <1>4, <1>5, Zenon DEF a, b

\* A byte is received, the first that is coming; or none, for the client waited in
\* vain if the connection is up.  What was stored outside the buffer is gone.
LEMMA ReceivedByte ==
    ASSUME Types, NEW b \in Received, link' = Remaining, UNCHANGED server
    PROVE  /\ b \in Bytes
           /\ link' \in Links
           /\ link'.up = link.up /\ link'.sent = link.sent /\ link'.lost = link.lost
           /\ link.waited => link'.waited
           /\ \/ /\ Len(link.in) > 0 /\ Len(Coming) > 0 /\ b = Coming[1]
                 /\ Len(link'.in) = Len(link.in) - 1 /\ link'.waited = link.waited
                 /\ Coming' \in Seq(Bytes) /\ Len(Coming') = Len(Coming) - 1
                 /\ \A j \in 1..Len(Coming') : Coming'[j] = Coming[j + 1]
              \/ /\ b = Nothing /\ link'.in = link.in /\ Coming' = Coming
                 /\ \/ client.outside
                    \/ Len(link.in) = 0 /\ (link.up => link'.waited)
                 /\ client.outside => ~ssl \/ link.lost \/ Len(link.in) = 0
<1>1. /\ link.in \in Seq(Bytes) /\ link.up \in BOOLEAN /\ link.waited \in BOOLEAN
      /\ link.sent \in Seq(Messages) /\ server.rest \in Seq(Bytes)
      /\ link \in Links /\ client.outside \in BOOLEAN
  BY DEF Types, Links, Servers, Clients
<1>4. CASE client.outside
  <2>1. b = Nothing /\ link' = link /\ (~ssl \/ link.lost \/ link.in = <<>>)
    BY <1>4 DEF Received, Remaining
  <2>2. Coming' = Coming
    BY <2>1 DEF Coming
  <2> QED
    BY <1>1, <1>4, <2>1, <2>2, Tags, EmptySeq
<1>2. CASE link.in = <<>> /\ ~client.outside
  <2>1. /\ link'.in = <<>> /\ link'.up = link.up /\ link'.sent = link.sent
        /\ link'.waited = (link.waited \/ link.up) /\ link'.lost = link.lost
    BY <1>1, <1>2 DEF Remaining
  <2>2. link' \in Links
    BY <1>1, <1>2 DEF Remaining, Links
  <2>3. b = Nothing
    BY <1>2 DEF Received
  <2>4. Len(link.in) = 0 /\ Coming' = Coming
    BY <1>2, <2>1 DEF Coming
  <2> QED
    BY <1>2, <2>1, <2>2, <2>3, <2>4, Tags
<1>3. CASE link.in # <<>> /\ ~client.outside
  <2> DEFINE s == link.in
             r == server.rest
             t == Tail(s)
  <2>1. /\ link'.in = t /\ link'.up = link.up /\ link'.sent = link.sent
        /\ link'.waited = link.waited /\ link'.lost = link.lost
    BY <1>1, <1>3 DEF Remaining, Links
  <2>2. /\ Len(s) \in Nat /\ Len(s) > 0 /\ Head(s) = s[1] /\ Head(s) \in Bytes
        /\ t \in Seq(Bytes) /\ Len(t) = Len(s) - 1
        /\ \A j \in 1..Len(t) : t[j] = s[j + 1]
    BY <1>1, <1>3, Behead
  <2>3. link' \in Links
    BY <1>1, <1>3, <2>2 DEF Remaining, Links
  <2>4. b = s[1]
    BY <1>3, <2>2 DEF Received
  <2>5. s \in Seq(Bytes) /\ r \in Seq(Bytes) /\ Coming = s \o r /\ Coming' = t \o r
    BY <1>1, <2>1 DEF Coming
  <2> HIDE DEF s, r, t
  <2>12. t \in Seq(Bytes) /\ r \in Seq(Bytes)
    BY <2>2, <2>5
  <2> DEFINE S == s \o r
             T == t \o r
  <2>6. /\ S \in Seq(Bytes) /\ Len(S) = Len(s) + Len(r) /\ Len(r) \in Nat
        /\ \A j \in 1..Len(s) : S[j] = s[j]
        /\ \A j \in 1..Len(r) : S[Len(s) + j] = r[j]
    BY <2>5, Concatenated
  <2>7. /\ T \in Seq(Bytes) /\ Len(T) = Len(t) + Len(r)
        /\ \A j \in 1..Len(t) : T[j] = t[j]
        /\ \A j \in 1..Len(r) : T[Len(t) + j] = r[j]
    BY <2>12, Concatenated
  <2> HIDE DEF S, T
  <2>8. Len(T) = Len(S) - 1 /\ Len(S) > 0 /\ S[1] = s[1]
    BY <2>2, <2>6, <2>7
  <2>9. ASSUME NEW j \in 1..Len(T) PROVE T[j] = S[j + 1]
    <3>1. CASE j <= Len(t)
      <4>1. j \in 1..Len(t) /\ j + 1 \in 1..Len(s)
        BY <2>2, <3>1
      <4> QED
        BY <2>2, <2>6, <2>7, <4>1
    <3>2. CASE j > Len(t)
      <4>1. j - Len(t) \in 1..Len(r)
        BY <2>2, <2>6, <2>7, <3>2
      <4>2. Len(t) + (j - Len(t)) = j /\ Len(s) + (j - Len(t)) = j + 1
        BY <2>2
      <4>3. T[Len(t) + (j - Len(t))] = r[j - Len(t)] /\ S[Len(s) + (j - Len(t))] = r[j - Len(t)]
        BY <2>6, <2>7, <4>1
      <4> QED
        BY <4>2, <4>3
    <3> QED
      BY <2>2, <3>1, <3>2
  <2>10. Coming = S /\ Coming' = T /\ link.in = s /\ Len(link'.in) = Len(s) - 1
    BY <2>1, <2>2, <2>5 DEF S, T, s, t
  <2>11. b \in Bytes
    BY <2>2, <2>4
  <2> QED
    BY <2>1, <2>2, <2>3, <2>4, <2>6, <2>7, <2>8, <2>9, <2>10, <2>11
<1> QED
  BY <1>1, <1>2, <1>3, <1>4

-----------------------------------------------------------------------------
(* Types.                                                                  *)

\* The fields of the records.
LEMMA Fields ==
    ASSUME Types
    PROVE  /\ link.up \in BOOLEAN /\ link.in \in Seq(Bytes) /\ link.waited \in BOOLEAN
           /\ link.sent \in Seq(Messages)
           /\ client.pc \in {"idle", "ack", "prefix", "body", "check", "crashed"}
           /\ client.ack \in BOOLEAN /\ client.n \in Nat /\ client.n <= MaxCommands
           /\ client.kind \in Kinds /\ client.buffer \in Seq(Bytes) /\ client.left \in 0..3
           /\ client.response \in Seq(Bytes) /\ client.failed \in BOOLEAN
           /\ client.refused \in BOOLEAN /\ client.outside \in BOOLEAN
           /\ server.ack \in BOOLEAN /\ server.busy \in Commands /\ server.rest \in Seq(Bytes)
           /\ server.last \in Packets /\ server.packets \in Nat /\ server.declined \in BOOLEAN
           /\ MaxCommands \in Nat
BY BoundsAssumption DEF Types, Links, Clients, Servers

LEMMA EmptySequences ==
    ASSUME NEW A
    PROVE  <<>> \in Seq(A) /\ Len(<<>>) = 0
BY EmptySeq

LEMMA TypesInit ==
    ASSUME Init
    PROVE  Types
<1>1. /\ <<>> \in Seq(Bytes) /\ <<>> \in Seq(Messages)
      /\ NoCommand \in Commands /\ NoPacket \in Packets
  <2>1. <<>> \in Seq(Bytes) /\ <<>> \in Seq(Messages)
    BY EmptySequences
  <2>2. NoCommand \in Commands
    BY BoundsAssumption DEF NoCommand, Commands, Kinds
  <2>3. NoPacket \in Packets
    BY ContentsAssumption DEF NoPacket, Packets
  <2> QED
    BY <2>1, <2>2, <2>3
<1>2. ssl \in BOOLEAN /\ link \in Links
  BY <1>1 DEF Init, Links
<1>3. client \in Clients
  BY <1>1, BoundsAssumption DEF Init, Clients, Kinds
<1>4. server \in Servers
  BY <1>1 DEF Init, Servers
<1>5. CountedDown
  BY DEF Init, CountedDown
<1> QED
  BY <1>2, <1>3, <1>4, <1>5 DEF Types

\* What is sent is among the messages.
LEMMA SendsTypes ==
    ASSUME Types, NEW m \in Messages
    PROVE  Sends(m) \in Seq(Messages)
BY Fields, AppendProperties DEF Sends

LEMMA TypesSend ==
    ASSUME Types, NEW kind \in Kinds, Send(kind)
    PROVE  Types'
<1>1. client.n + 1 \in 0..MaxCommands
  BY Fields DEF Send
<1>2. client' \in Clients
  <2>1. <<>> \in Seq(Bytes)
    BY EmptySequences
  <2>2. PICK w \in {"ack", "prefix"}, m \in 0..MaxCommands :
            client' = [client EXCEPT !.pc = w, !.n = m, !.kind = kind, !.buffer = <<>>,
                                     !.left = 3, !.response = <<>>, !.failed = FALSE]
    BY <1>1 DEF Send
  <2>3. client \in Clients
    BY DEF Types
  <2>4. client' = [pc |-> w, ack |-> client.ack, n |-> m, kind |-> kind, buffer |-> <<>>,
                   left |-> 3, response |-> <<>>, failed |-> FALSE,
                   outside |-> client.outside, refused |-> client.refused]
    BY <2>2, <2>3 DEF Clients
  <2>5. client.ack \in BOOLEAN /\ client.refused \in BOOLEAN /\ client.outside \in BOOLEAN
    BY Fields
  <2>6. /\ w \in {"idle", "ack", "prefix", "body", "check", "crashed"} /\ m \in 0..MaxCommands
        /\ 3 \in 0..3 /\ FALSE \in BOOLEAN /\ kind \in Kinds
    BY <2>2
  <2> QED
    BY <2>1, <2>4, <2>5, <2>6 DEF Clients
<1>3. [kind |-> kind, n |-> client.n + 1] \in Messages
  BY <1>1 DEF Messages
<1>4. link' \in Links
  BY <1>3, SendsTypes DEF Send, Types, Links
<1>5. CountedDown'
  <2>1. /\ client'.left = 3 /\ client'.buffer = <<>> /\ client'.n = client.n + 1
        /\ client'.pc \in {"ack", "prefix"}
    BY DEF Send, Types, Clients
  <2> QED
    BY <2>1, Fields DEF CountedDown
<1> QED
  BY <1>2, <1>4, <1>5 DEF Types, Send

LEMMA TypesSendFails ==
    ASSUME Types, NEW kind \in Kinds, SendFails(kind)
    PROVE  Types'
<1>1. client.n + 1 \in 0..MaxCommands
  BY Fields DEF SendFails
<1>2. client' \in Clients /\ client'.pc = "idle"
  BY <1>1, EmptySequences DEF SendFails, Types, Clients
<1> QED
  BY <1>2 DEF Types, SendFails, CountedDown

\* Past a receive the client is what it was.
LEMMA GotTypes ==
    ASSUME Types
    PROVE  /\ Got \in Clients /\ client \in Clients /\ ~Got.outside /\ Got.pc = client.pc
           /\ Got.n = client.n /\ Got.kind = client.kind /\ Got.ack = client.ack
           /\ Got.buffer = client.buffer /\ Got.left = client.left
           /\ Got.response = client.response /\ Got.refused = client.refused
BY DEF Got, Types, Clients

\* A call returns to a client between calls.
LEMMA ReturnsTypes ==
    ASSUME Types, NEW failed \in BOOLEAN, NEW c \in {client, Got}
    PROVE  /\ Returns(c, failed) \in Clients /\ Returns(c, failed).pc = "idle"
           /\ Returns(c, failed).n = client.n
           /\ Returns(c, failed).response = client.response
           /\ Returns(c, failed).refused = client.refused
           /\ Returns(c, failed).outside = c.outside
           /\ Returns(c, failed).ack
                = (client.ack /\ (failed \/ client.kind # "QStartNoAckMode"))
           /\ Returns(c, failed).buffer = <<>>
<1>1. /\ c \in Clients /\ c.n = client.n /\ c.response = client.response
      /\ c.refused = client.refused /\ c.ack = client.ack /\ c.kind = client.kind
  BY GotTypes
<1> QED
  BY <1>1, EmptySequences DEF Returns, Clients

LEMMA TypesReceiveAck ==
    ASSUME Types, ReceiveAck
    PROVE  Types'
<1>1. PICK b \in Received :
          client' = CASE b.is = "+" -> [Got EXCEPT !.pc = "prefix"]
                      [] b.is = "$" -> [Got EXCEPT !.pc = "body"]
                      [] OTHER -> Returns(Got, FALSE)
  BY DEF ReceiveAck
<1>2. link' \in Links
  BY <1>1, ReceivedByte DEF ReceiveAck
<1>3. client' \in Clients /\ CountedDown'
  <2>1. CASE b.is = "+"
    <3>1. client' = [Got EXCEPT !.pc = "prefix"]
      BY <1>1, <2>1
    <3> QED
      BY <3>1, GotTypes DEF Types, Clients, CountedDown, ReceiveAck
  <2>2. CASE b.is = "$"
    <3>1. client' = [Got EXCEPT !.pc = "body"]
      BY <1>1, <2>2
    <3>2. /\ client \in Clients /\ client.left = 3 /\ client.buffer = <<>> /\ client.n > 0
          /\ Len(client.buffer) = 0
      BY EmptySequences DEF Types, CountedDown, ReceiveAck
    <3>3. /\ client' \in Clients /\ client'.pc = "body" /\ client'.left = client.left
          /\ client'.buffer = client.buffer /\ client'.n = client.n
      BY <3>1, <3>2, GotTypes DEF Clients
    <3> QED
      BY <3>2, <3>3 DEF CountedDown
  <2>3. CASE b.is # "+" /\ b.is # "$"
    <3>1. client' = Returns(Got, FALSE)
      BY <1>1, <2>3
    <3> QED
      BY <3>1, ReturnsTypes DEF CountedDown
  <2> QED
    BY <2>1, <2>2, <2>3
<1> QED
  BY <1>2, <1>3 DEF Types, ReceiveAck

LEMMA TypesReceivePrefix ==
    ASSUME Types, ReceivePrefix
    PROVE  Types'
<1>1. PICK b \in Received :
          client' = IF b.is = "$" THEN [Got EXCEPT !.pc = "body"]
                    ELSE Returns(Got, FALSE)
  BY DEF ReceivePrefix
<1>2. link' \in Links
  BY <1>1, ReceivedByte DEF ReceivePrefix
<1>3. client' \in Clients /\ CountedDown'
  <2>1. CASE b.is = "$"
    <3>1. client' = [Got EXCEPT !.pc = "body"]
      BY <1>1, <2>1
    <3>2. /\ client \in Clients /\ client.left = 3 /\ client.buffer = <<>> /\ client.n > 0
          /\ Len(client.buffer) = 0
      BY EmptySequences DEF Types, CountedDown, ReceivePrefix
    <3>3. /\ client' \in Clients /\ client'.pc = "body" /\ client'.left = client.left
          /\ client'.buffer = client.buffer /\ client'.n = client.n
      BY <3>1, <3>2, GotTypes DEF Clients
    <3> QED
      BY <3>2, <3>3 DEF CountedDown
  <2>2. CASE b.is # "$"
    <3>1. client' = Returns(Got, FALSE)
      BY <1>1, <2>2
    <3> QED
      BY <3>1, ReturnsTypes DEF CountedDown
  <2> QED
    BY <2>1, <2>2
<1> QED
  BY <1>2, <1>3 DEF Types, ReceivePrefix

\* What a byte does to the buffer.
LEMMA BodyStep ==
    ASSUME Types, ReceiveBody
    PROVE  \E b \in Received :
              /\ b \in Bytes
              /\ client' \in Clients /\ client'.n = client.n /\ client'.kind = client.kind
              /\ client'.ack = client.ack /\ client'.response = client.response
              /\ client'.refused = client.refused /\ ~client'.outside
              /\ client'.buffer = Append(client.buffer, b)
              /\ \/ /\ client.left < 3 \/ b.is = "#"
                    /\ client'.left = client.left - 1
                    /\ client'.pc = IF client.left = 1 THEN "check" ELSE "body"
                 \/ /\ client.left = 3 /\ b.is # "#" /\ client'.left = 3 /\ client'.pc = "body"
<1>1. PICK b \in Received :
          LET counting == client.left < 3 \/ b.is = "#" IN
          client' = [Got EXCEPT
              !.buffer = Append(@, b),
              !.left = IF counting THEN @ - 1 ELSE @,
              !.pc = IF client.left = 1 THEN "check" ELSE "body"]
  BY DEF ReceiveBody
<1>2. b \in Bytes
  BY <1>1, ReceivedByte DEF ReceiveBody
<1>3. /\ client.pc = "body" /\ client.left \in 1..3 /\ client.buffer \in Seq(Bytes)
      /\ Append(client.buffer, b) \in Seq(Bytes)
  BY <1>2, Fields, AppendProperties DEF ReceiveBody, Types, CountedDown
<1> DEFINE l == IF client.left < 3 \/ b.is = "#" THEN client.left - 1 ELSE client.left
           w == IF client.left = 1 THEN "check" ELSE "body"
           A == Append(client.buffer, b)
<1>4. client' = [Got EXCEPT !.buffer = A, !.left = l, !.pc = w]
  BY <1>1, GotTypes
<1>5. l \in 0..3 /\ w \in {"check", "body"} /\ A \in Seq(Bytes)
  BY <1>3
<1>6. \/ (client.left < 3 \/ b.is = "#") /\ l = client.left - 1
      \/ client.left = 3 /\ b.is # "#" /\ l = 3 /\ w = "body"
  BY <1>3
<1> HIDE DEF l, w, A
<1>7. /\ client' \in Clients /\ client'.n = client.n /\ client'.kind = client.kind
      /\ client'.ack = client.ack /\ client'.response = client.response
      /\ client'.refused = client.refused /\ ~client'.outside
      /\ client'.buffer = A /\ client'.left = l /\ client'.pc = w
  BY <1>4, <1>5, GotTypes DEF Clients
<1> QED
  BY <1>1, <1>2, <1>6, <1>7 DEF w, A

LEMMA TypesReceiveBody ==
    ASSUME Types, ReceiveBody
    PROVE  Types'
<1>1. PICK b \in Received :
          /\ b \in Bytes
          /\ client' \in Clients /\ client'.n = client.n
          /\ client'.buffer = Append(client.buffer, b)
          /\ \/ /\ client.left < 3 \/ b.is = "#"
                /\ client'.left = client.left - 1
                /\ client'.pc = IF client.left = 1 THEN "check" ELSE "body"
             \/ client.left = 3 /\ client'.left = 3 /\ client'.pc = "body"
  BY BodyStep
<1>2. link' \in Links
  BY <1>1, ReceivedByte DEF ReceiveBody
<1>3. /\ client.left \in 1..3 /\ Len(client.buffer) \in Nat /\ client.n > 0
      /\ Len(client.buffer) >= 3 - client.left
      /\ Len(Append(client.buffer, b)) = Len(client.buffer) + 1
  BY <1>1, Fields, Appended DEF ReceiveBody, Types, CountedDown
<1>4. CountedDown'
  BY <1>1, <1>3 DEF CountedDown
<1> QED
  BY <1>1, <1>2, <1>4 DEF Types, ReceiveBody

LEMMA TypesReceiveElsewhere ==
    ASSUME Types, ReceiveLate \/ ReceiveOutside
    PROVE  /\ Types' /\ link'.sent = link.sent /\ link'.up = link.up /\ link'.waited \in BOOLEAN
           /\ ReceiveLate =>
                 /\ link'.in = link.in /\ link'.waited
                 /\ client'.pc = client.pc /\ client'.buffer = client.buffer
                 /\ client'.left = client.left /\ client'.response = client.response
           /\ ReceiveOutside =>
                 link'.lost /\ link'.waited = link.waited /\ client'.outside = client.outside
           /\ client'.n = client.n /\ client'.refused = client.refused
<1>1. CASE ReceiveLate
  BY <1>1 DEF ReceiveLate, ReceiveOutside, Receiving, Types, Links, Clients, CountedDown
<1>2. CASE ReceiveOutside
  <2>1. link.in \in Seq(Bytes) /\ Tail(link.in) \in Seq(Bytes)
    BY <1>2, Fields, Behead DEF ReceiveOutside
  <2>2. link' \in Links
    BY <1>2, <2>1 DEF ReceiveOutside, Types, Links
  <2> QED
    BY ZenonT(60), <1>2, <2>2 DEF ReceiveLate, ReceiveOutside, Receiving, Types, Links, Clients, CountedDown
<1> QED
  BY <1>1, <1>2

LEMMA PayloadTypes ==
    ASSUME NEW s \in Seq(Bytes), Len(s) >= 3
    PROVE  /\ Payload(s) \in Seq(Bytes) /\ Len(Payload(s)) = Len(s) - 3
           /\ \A i \in 1..(Len(s) - 3) : Payload(s)[i] = s[i]
<1> DEFINE k == Len(s) - 3
<1>1. Len(s) \in Nat
  BY Empties
<1>2. \A n \in Nat : n >= 3 =>
         /\ 1 \in Int /\ n - 3 \in Int /\ n - 3 >= 0
         /\ 1 <= n - 3 => (n - 3) - 1 + 1 = n - 3
         /\ ~(1 <= n - 3) => n - 3 = 0
         /\ (n - 3) - 1 + 1 = n - 3
         /\ \A i \in 1..(n - 3) : i \in 1..n
  OBVIOUS
<1>3. /\ 1 \in Int /\ k \in Int
      /\ 1 <= k => k - 1 + 1 = k
      /\ ~(1 <= k) => k = 0
      /\ k - 1 + 1 = k
      /\ \A i \in 1..k : s[i] \in Bytes
  BY <1>1, <1>2, ElementOfSeq
<1> HIDE DEF k
<1>4. /\ SubSeq(s, 1, k) \in Seq(Bytes)
      /\ Len(SubSeq(s, 1, k)) = IF 1 <= k THEN k - 1 + 1 ELSE 0
      /\ \A i \in 1..(k - 1 + 1) : SubSeq(s, 1, k)[i] = s[1 + i - 1]
  BY <1>3, SubSeqProperties
<1>5. Len(SubSeq(s, 1, k)) = k
  BY <1>3, <1>4
<1>6. \A i \in 1..k : SubSeq(s, 1, k)[i] = s[i]
  <2>1. \A i \in 1..k : 1 + i - 1 = i
    BY <1>3
  <2>2. \A i \in 1..k : SubSeq(s, 1, k)[i] = s[1 + i - 1]
    BY <1>3, <1>4, Zenon
  <2> QED
    BY <2>1, <2>2
<1> QED
  BY <1>4, <1>5, <1>6 DEF Payload, k

LEMMA TypesCheck ==
    ASSUME Types, Accept \/ Refuse
    PROVE  Types' /\ client'.pc = "idle"
<1>1. Confirm("+") \in Messages /\ Confirm("-") \in Messages
  BY BoundsAssumption DEF Confirm, Messages
<1>2. link' \in Links
  <2>1. /\ Confirms(client, Confirm("+")) \in Seq(Messages)
        /\ Confirms(client, Confirm("-")) \in Seq(Messages)
    BY <1>1, SendsTypes, Fields DEF Confirms
  <2> HIDE DEF Confirm
  <2> QED
    BY <2>1 DEF Accept, Refuse, Types, Links
<1>3. Len(client.buffer) >= 3 /\ client.buffer \in Seq(Bytes)
  BY Fields DEF Accept, Refuse, Types, CountedDown
<1>4. client' \in Clients /\ client'.pc = "idle"
  <2>1. CASE Accept
    BY <1>3, <2>1, PayloadTypes, ReturnsTypes DEF Accept, Clients
  <2>2. CASE Refuse
    BY <2>2, ReturnsTypes DEF Refuse, Clients
  <2> QED
    BY <2>1, <2>2
<1>5. ssl' = ssl /\ server' = server
  BY DEF Accept, Refuse
<1> QED
  BY <1>2, <1>4, <1>5 DEF Types, CountedDown

\* What debugserver takes is the first of what was sent.
LEMMA Taking ==
    ASSUME Types, link.sent # <<>>
    PROVE  /\ Head(link.sent) \in Messages /\ Tail(link.sent) \in Seq(Messages)
           /\ Head(link.sent) = link.sent[1]
           /\ Len(link.sent) \in Nat /\ Len(link.sent) > 0
           /\ Len(Tail(link.sent)) = Len(link.sent) - 1
           /\ \A j \in 1..Len(Tail(link.sent)) : Tail(link.sent)[j] = link.sent[j + 1]
<1>1. link.sent \in Seq(Messages)
  BY Fields
<1> QED
  BY <1>1, Behead

LEMMA TypesTakeCommand ==
    ASSUME Types, TakeCommand
    PROVE  Types'
<1>1. Head(link.sent) \in Messages /\ Tail(link.sent) \in Seq(Messages)
  BY Taking DEF TakeCommand, Ready
<1>2. Head(link.sent) \in Commands /\ Head(link.sent).n \in Nat
  BY <1>1, BoundsAssumption DEF TakeCommand, Messages, Commands
<1>3. server' \in Servers
  BY <1>2 DEF TakeCommand, Types, Servers
<1>4. Byte("+", 0, Head(link.sent).n, 0) \in Bytes
  BY <1>2 DEF Byte, Bytes
<1>5. Append(link.in, Byte("+", 0, Head(link.sent).n, 0)) \in Seq(Bytes)
  BY <1>4, Fields, AppendProperties
<1>6. link' \in Links
  BY <1>1, <1>5, Fields DEF TakeCommand, Types, Links
<1> QED
  BY <1>3, <1>6 DEF Types, TakeCommand, CountedDown

LEMMA TypesTakeConfirm ==
    ASSUME Types, TakeConfirm
    PROVE  Types'
<1>1. Tail(link.sent) \in Seq(Messages)
  BY Taking DEF TakeConfirm, Ready
<1>2. Piece1(server.last) \in Seq(Bytes) /\ Piece2(server.last) \in Seq(Bytes)
  BY Fields, Pieces
<1>3. link.in \o Piece1(server.last) \in Seq(Bytes)
  BY <1>2, Fields, ConcatProperties
<1>4. link' \in Links
  BY <1>1, <1>3, Fields DEF TakeConfirm, Types, Links
<1>5. server' \in Servers
  BY <1>2, Fields DEF TakeConfirm, Types, Servers
<1> QED
  BY <1>4, <1>5 DEF Types, TakeConfirm, CountedDown

\* An answer is a packet for the command that debugserver has.
LEMMA AnswerStep ==
    ASSUME Types, BeginAnswer
    PROVE  \E packet \in Packets :
              /\ packet.to = server.busy.n
              /\ link' = [link EXCEPT !.in = @ \o Piece1(packet)]
              /\ server' \in Servers /\ server'.busy = NoCommand
              /\ server'.rest = Piece2(packet) /\ server'.last = packet
              /\ server'.ack = (server.ack /\ ~( /\ server.busy.kind = "QStartNoAckMode"
                                                 /\ packet.contents = "OK"))
              /\ server'.declined = (server.declined \/
                    /\ server.busy.kind = "QStartNoAckMode" /\ packet.contents # "OK")
<1>1. PICK p \in Contents :
       LET sum == Value[p]
           right == <<First(sum), Second(sum)>>
           starts == server.busy.kind = "QStartNoAckMode"
       IN \E digits \in {right} \union {d \in {<<0, 0>>} : ~server.ack} :
             LET packet == [contents |-> p, digits |-> digits, to |-> server.busy.n,
                            packet |-> server.packets + 1]
             IN /\ link' = [link EXCEPT !.in = @ \o Piece1(packet)]
                /\ server' = [server EXCEPT
                      !.busy = NoCommand, !.rest = Piece2(packet), !.last = packet,
                      !.packets = @ + 1,
                      !.ack = @ /\ ~(starts /\ p = "OK"),
                      !.declined = @ \/ (starts /\ p # "OK")]
  BY DEF BeginAnswer
<1>2. PICK digits \in {<<First(Value[p]), Second(Value[p])>>} \union {d \in {<<0, 0>>} : ~server.ack} :
             LET packet == [contents |-> p, digits |-> digits, to |-> server.busy.n,
                            packet |-> server.packets + 1]
             IN /\ link' = [link EXCEPT !.in = @ \o Piece1(packet)]
                /\ server' = [server EXCEPT
                      !.busy = NoCommand, !.rest = Piece2(packet), !.last = packet,
                      !.packets = @ + 1,
                      !.ack = @ /\ ~(server.busy.kind = "QStartNoAckMode" /\ p = "OK"),
                      !.declined = @ \/ (server.busy.kind = "QStartNoAckMode" /\ p # "OK")]
  BY <1>1
<1> DEFINE packet == [contents |-> p, digits |-> digits, to |-> server.busy.n,
                      packet |-> server.packets + 1]
<1>3. digits \in Nat \X Nat
  <2>1. Value[p] \in Nat
    BY <1>1, ContentsAssumption
  <2>2. First(Value[p]) \in Nat /\ Second(Value[p]) \in Nat
    BY <2>1, DigitsInType
  <2> QED
    BY <1>2, <2>2
<1>4. server.busy.n \in Nat /\ server.packets + 1 \in Nat
  BY Fields, BoundsAssumption DEF Commands
<1>5. packet \in Packets /\ packet.to = server.busy.n /\ packet.contents = p
  BY <1>1, <1>3, <1>4 DEF Packets
<1>6. NoCommand \in Commands
  BY BoundsAssumption DEF NoCommand, Commands, Kinds
<1>7. /\ link' = [link EXCEPT !.in = @ \o Piece1(packet)]
      /\ server' = [server EXCEPT
            !.busy = NoCommand, !.rest = Piece2(packet), !.last = packet,
            !.packets = @ + 1,
            !.ack = @ /\ ~(server.busy.kind = "QStartNoAckMode" /\ p = "OK"),
            !.declined = @ \/ (server.busy.kind = "QStartNoAckMode" /\ p # "OK")]
  BY <1>2
<1> HIDE DEF packet
<1>8. Piece2(packet) \in Seq(Bytes)
  BY <1>5, Pieces
<1>9. /\ server' \in Servers /\ server'.busy = NoCommand
      /\ server'.rest = Piece2(packet) /\ server'.last = packet
      /\ server'.ack = (server.ack /\ ~( /\ server.busy.kind = "QStartNoAckMode"
                                         /\ packet.contents = "OK"))
      /\ server'.declined = (server.declined \/
            /\ server.busy.kind = "QStartNoAckMode" /\ packet.contents # "OK")
  BY <1>4, <1>5, <1>6, <1>7, <1>8 DEF Types, Servers
<1>10. packet \in Packets
  BY <1>5
<1>11. link' = [link EXCEPT !.in = @ \o Piece1(packet)]
  BY <1>7
<1> WITNESS packet \in Packets
<1> QED
  BY <1>5, <1>9, <1>11

LEMMA TypesBeginAnswer ==
    ASSUME Types, BeginAnswer
    PROVE  Types'
<1>1. PICK packet \in Packets :
          /\ link' = [link EXCEPT !.in = @ \o Piece1(packet)]
          /\ server' \in Servers
  BY AnswerStep
<1>2. Piece1(packet) \in Seq(Bytes)
  BY <1>1, Pieces
<1>3. link.in \o Piece1(packet) \in Seq(Bytes)
  BY <1>2, Fields, ConcatProperties
<1>4. link' \in Links
  BY <1>1, <1>3 DEF Types, Links
<1> QED
  BY <1>1, <1>4 DEF Types, BeginAnswer, CountedDown

LEMMA TypesEndAnswer ==
    ASSUME Types, EndAnswer
    PROVE  Types'
<1>1. link.in \o server.rest \in Seq(Bytes)
  BY Fields, ConcatProperties
<1>2. link' \in Links
  BY <1>1 DEF EndAnswer, Types, Links
<1>3. server' \in Servers
  BY EmptySequences DEF EndAnswer, Types, Servers
<1> QED
  BY <1>2, <1>3 DEF Types, EndAnswer, CountedDown

LEMMA TypesHangUp ==
    ASSUME Types, HangUp
    PROVE  Types'
<1>1. link' \in Links
  BY EmptySequences DEF HangUp, Types, Links
<1>2. NoCommand \in Commands
  BY BoundsAssumption DEF NoCommand, Commands, Kinds
<1>3. server' \in Servers
  BY <1>2, EmptySequences DEF HangUp, Types, Servers
<1> QED
  BY <1>1, <1>3 DEF Types, HangUp, CountedDown

LEMMA TypesNext ==
    ASSUME Types, [Next]_vars
    PROVE  Types'
<1>1. CASE \E kind \in Kinds : Send(kind) \/ SendFails(kind)
  BY <1>1, TypesSend, TypesSendFails
<1>2. CASE ReceiveAck
  BY <1>2, TypesReceiveAck
<1>3. CASE ReceivePrefix
  BY <1>3, TypesReceivePrefix
<1>4. CASE ReceiveBody
  BY <1>4, TypesReceiveBody
<1>5. CASE Accept \/ Refuse
  BY <1>5, TypesCheck
<1>6. CASE TakeCommand
  BY <1>6, TypesTakeCommand
<1>7. CASE TakeConfirm
  BY <1>7, TypesTakeConfirm
<1>8. CASE BeginAnswer
  BY <1>8, TypesBeginAnswer
<1>9. CASE EndAnswer
  BY <1>9, TypesEndAnswer
<1>10. CASE HangUp
  BY <1>10, TypesHangUp
<1>12. CASE ReceiveLate \/ ReceiveOutside
  BY <1>12, TypesReceiveElsewhere
<1>11. CASE Rest \/ UNCHANGED vars
  <2>1. UNCHANGED <<ssl, link, client, server>>
    BY <1>11 DEF Rest, vars
  <2> QED
    BY <2>1 DEF Types, CountedDown
<1> QED
  BY <1>1, <1>2, <1>3, <1>4, <1>5, <1>6, <1>7, <1>8, <1>9, <1>10, <1>11,
     <1>12 DEF Next, ClientStep

\* What the variables hold, and what is counted down, whatever the contents of
\* answers, the base and the number of commands.
THEOREM TypesHold == Spec => []Types
<1>1. Init => Types
  BY TypesInit
<1>2. Types /\ [Next]_vars => Types'
  BY TypesNext
<1> QED
  BY <1>1, <1>2, PTL DEF Spec

\* A receive that looks at the checksum has a # and two bytes to look at: the
\* length of the buffer less three is never below zero.
THEOREM TypeCorrect == Spec => []TypeOK
<1>1. Types => TypeOK
  BY DEF Types, TypeOK, Links, Clients, Servers, CountedDown, Messages, Commands
<1> QED
  BY <1>1, TypesHold, PTL

-----------------------------------------------------------------------------
(* What a response is made of.                                             *)

\* The rest of a sequence in which contents follow a $ and a # contents.
LEMMA FollowsBehind ==
    ASSUME NEW S \in Seq(Bytes), NEW T \in Seq(Bytes), NEW up, Follows(S, up),
           Len(T) = Len(S) - 1, \A j \in 1..Len(T) : T[j] = S[j + 1]
    PROVE  Follows(T, up)
<1>1. Len(S) \in Nat /\ Len(T) \in Nat
  BY Empties
<1> SUFFICES ASSUME NEW j \in 1..Len(T)
             PROVE  /\ T[j].is = "$" => j < Len(T) /\ T[j + 1].is \in Contents
                    /\ T[j].is \in Contents =>
                          \/ j = Len(T) /\ ~up
                          \/ j < Len(T) /\ T[j + 1].is = "#"
  BY DEF Follows
<1>2. /\ j + 1 \in 1..Len(S) /\ T[j] = S[j + 1]
      /\ j + 1 < Len(S) <=> j < Len(T)
      /\ j + 1 = Len(S) <=> j = Len(T)
      /\ j < Len(T) => j + 1 \in 1..Len(T)
  BY <1>1
<1>3. j < Len(T) => T[j + 1] = S[(j + 1) + 1]
  BY <1>2
<1>4. /\ S[j + 1].is = "$" => j + 1 < Len(S) /\ S[(j + 1) + 1].is \in Contents
      /\ S[j + 1].is \in Contents =>
              \/ j + 1 = Len(S) /\ ~up
              \/ j + 1 < Len(S) /\ S[(j + 1) + 1].is = "#"
  BY <1>2 DEF Follows
<1> QED
  BY <1>2, <1>3, <1>4

\* One such sequence after the other.
LEMMA FollowsConcat ==
    ASSUME NEW S \in Seq(Bytes), NEW T \in Seq(Bytes), Follows(S, TRUE), Follows(T, TRUE)
    PROVE  Follows(S \o T, TRUE)
<1> DEFINE U == S \o T
<1>1. /\ U \in Seq(Bytes) /\ Len(S) \in Nat /\ Len(T) \in Nat
      /\ Len(U) = Len(S) + Len(T)
      /\ \A j \in 1..Len(S) : U[j] = S[j]
      /\ \A j \in 1..Len(T) : U[Len(S) + j] = T[j]
  BY Concatenated
<1> HIDE DEF U
<1>2. ASSUME NEW j \in 1..Len(U)
      PROVE  /\ U[j].is = "$" => j < Len(U) /\ U[j + 1].is \in Contents
             /\ U[j].is \in Contents => j < Len(U) /\ U[j + 1].is = "#"
  <2>1. CASE j <= Len(S)
    <3>1. /\ j \in 1..Len(S) /\ U[j] = S[j]
          /\ j < Len(S) => j + 1 \in 1..Len(S) /\ j < Len(U) /\ U[j + 1] = S[j + 1]
      BY <1>1, <2>1
    <3>2. /\ S[j].is = "$" => j < Len(S) /\ S[j + 1].is \in Contents
          /\ S[j].is \in Contents => j < Len(S) /\ S[j + 1].is = "#"
      BY <3>1 DEF Follows
    <3> QED
      BY <3>1, <3>2
  <2>2. CASE j > Len(S)
    <3> DEFINE i == j - Len(S)
    <3>1. /\ i \in 1..Len(T) /\ Len(S) + i = j /\ Len(S) + (i + 1) = j + 1
          /\ i < Len(T) => i + 1 \in 1..Len(T) /\ j < Len(U)
      BY <1>1, <2>2
    <3> HIDE DEF i
    <3>2. U[j] = T[i] /\ (i < Len(T) => U[j + 1] = T[i + 1])
      BY <1>1, <3>1
    <3>3. /\ T[i].is = "$" => i < Len(T) /\ T[i + 1].is \in Contents
          /\ T[i].is \in Contents => i < Len(T) /\ T[i + 1].is = "#"
      BY <3>1 DEF Follows
    <3> QED
      BY <3>1, <3>2, <3>3
  <2> QED
    BY <1>1, <2>1, <2>2
<1>3. Follows(U, TRUE)
  BY <1>2 DEF Follows
<1> QED
  BY <1>3 DEF U

Whole(p) == Piece1(p) \o Piece2(p)

LEMMA WholePacket ==
    ASSUME NEW p \in Packets
    PROVE  /\ Whole(p) \in Seq(Bytes) /\ Len(Whole(p)) = 5
           /\ Whole(p)[1].is = "$" /\ Whole(p)[2].is \in Contents
           /\ Whole(p)[3].is = "#" /\ Whole(p)[4].is = "digit" /\ Whole(p)[5].is = "digit"
           /\ \A j \in 1..5 : Whole(p)[j].to = p.to
           /\ Follows(Whole(p), TRUE)
<1> DEFINE W == Whole(p)
<1>1. /\ Piece1(p) \in Seq(Bytes) /\ Len(Piece1(p)) = 2
      /\ Piece2(p) \in Seq(Bytes) /\ Len(Piece2(p)) = 3
  BY Pieces
<1>2. /\ W \in Seq(Bytes) /\ Len(W) = 2 + 3
      /\ \A j \in 1..2 : W[j] = Piece1(p)[j]
      /\ \A j \in 1..3 : W[2 + j] = Piece2(p)[j]
  <2> DEFINE a == Piece1(p) b == Piece2(p)
  <2>1. a \in Seq(Bytes) /\ Len(a) = 2 /\ b \in Seq(Bytes) /\ Len(b) = 3 /\ W = a \o b
    BY <1>1 DEF Whole
  <2> HIDE DEF a, b, W
  <2>2. a \in Seq(Bytes) /\ b \in Seq(Bytes)
    BY <2>1
  <2>3. /\ a \o b \in Seq(Bytes) /\ Len(a \o b) = Len(a) + Len(b)
        /\ \A j \in 1..Len(a) : (a \o b)[j] = a[j]
        /\ \A j \in 1..Len(b) : (a \o b)[Len(a) + j] = b[j]
    BY <2>2, Concatenated
  <2> QED
    BY <2>1, <2>3, Zenon DEF a, b
<1>3. /\ W \in Seq(Bytes) /\ Len(W) = 5
      /\ W[1] = Piece1(p)[1] /\ W[2] = Piece1(p)[2]
      /\ W[3] = Piece2(p)[1] /\ W[4] = Piece2(p)[2] /\ W[5] = Piece2(p)[3]
  <2>1. /\ 1 \in 1..2 /\ 2 \in 1..2 /\ 1 \in 1..3 /\ 2 \in 1..3 /\ 3 \in 1..3
        /\ 2 + 1 = 3 /\ 2 + 2 = 4 /\ 2 + 3 = 5
    OBVIOUS
  <2> HIDE DEF W
  <2>2. W[2 + 1] = Piece2(p)[1] /\ W[2 + 2] = Piece2(p)[2] /\ W[2 + 3] = Piece2(p)[3]
    BY <1>2, <2>1, Zenon
  <2> QED
    BY <1>2, <2>1, <2>2
<1> HIDE DEF W
<1>4. /\ W[1].is = "$" /\ W[2].is \in Contents
      /\ W[3].is = "#" /\ W[4].is = "digit" /\ W[5].is = "digit"
      /\ W[1].to = p.to /\ W[2].to = p.to /\ W[3].to = p.to /\ W[4].to = p.to /\ W[5].to = p.to
  BY <1>3, Pieces
<1>5. \A j \in 1..5 : j = 1 \/ j = 2 \/ j = 3 \/ j = 4 \/ j = 5
  OBVIOUS
<1>6. \A j \in 1..5 : W[j].to = p.to
  BY <1>4, <1>5
<1>7. Follows(W, TRUE)
  BY <1>3, <1>4, <1>5, Tags DEF Follows
<1> QED
  BY <1>3, <1>4, <1>6, <1>7 DEF W

\* A packet behind what is on its way, its rest still to come.
LEMMA NewPacket ==
    ASSUME Types, NEW p \in Packets, server.rest = <<>>,
           link'.in = link.in \o Piece1(p), server'.rest = Piece2(p)
    PROVE  /\ Coming = link.in /\ Coming' = Coming \o Whole(p)
           /\ Coming' \in Seq(Bytes) /\ Len(Coming') = Len(Coming) + 5
           /\ \A j \in 1..Len(Coming) : Coming'[j] = Coming[j]
           /\ \A j \in 1..5 : Coming'[Len(Coming) + j] = Whole(p)[j]
<1>1. /\ link.in \in Seq(Bytes) /\ Piece1(p) \in Seq(Bytes) /\ Piece2(p) \in Seq(Bytes)
      /\ Whole(p) \in Seq(Bytes) /\ Len(Whole(p)) = 5
  BY Fields, Pieces, WholePacket
<1>2. Coming = link.in
  BY <1>1, ConcatEmptySeq DEF Coming
<1> DEFINE s == link.in
           a == Piece1(p)
           b == Piece2(p)
           W == Whole(p)
<1>3. Coming' = s \o W
  <2>1. Coming' = (s \o a) \o b /\ W = a \o b
    BY DEF Coming, Whole
  <2>2. s \in Seq(Bytes) /\ a \in Seq(Bytes) /\ b \in Seq(Bytes)
    BY <1>1
  <2> HIDE DEF s, a, b, W
  <2>3. (s \o a) \o b = s \o (a \o b)
    BY <2>2, ConcatAssociative
  <2> QED
    BY <2>1, <2>3
<1>4. s \in Seq(Bytes) /\ W \in Seq(Bytes) /\ Len(W) = 5 /\ Coming = s
  BY <1>1, <1>2
<1>6. s \in Seq(Bytes) /\ W \in Seq(Bytes)
  BY <1>4
<1> HIDE DEF s, W
<1>5. /\ s \o W \in Seq(Bytes) /\ Len(s \o W) = Len(s) + Len(W)
      /\ \A j \in 1..Len(s) : (s \o W)[j] = s[j]
      /\ \A j \in 1..Len(W) : (s \o W)[Len(s) + j] = W[j]
  BY <1>6, Concatenated
<1> QED
  BY <1>2, <1>3, <1>4, <1>5, Zenon DEF s, W

\* A byte behind them changes nothing; a zero is one more.
LEMMA PaddedAppend ==
    ASSUME NEW s \in Seq(Bytes), NEW b \in Bytes, NEW n \in Int, n <= Len(s), Padded(s, n)
    PROVE  /\ Padded(Append(s, b), n)
           /\ n = Len(s) /\ b = Nothing => Padded(Append(s, b), Len(Append(s, b)))
<1> DEFINE A == Append(s, b)
<1>1. /\ Len(s) \in Nat /\ Len(A) = Len(s) + 1 /\ A[Len(s) + 1] = b
      /\ \A i \in 1..Len(s) : A[i] = s[i]
  BY Appended
<1>2. n >= 1 /\ s[1].is \in Contents /\ \A i \in 2..n : s[i] = Nothing
  BY DEF Padded
<1> HIDE DEF A
<1>3. A[1].is \in Contents /\ \A i \in 2..n : A[i] = Nothing
  <2>1. 1 \in 1..Len(s) /\ \A i \in 2..n : i \in 1..Len(s)
    BY <1>1, <1>2
  <2> QED
    BY <1>1, <1>2, <2>1
<1>4. ASSUME n = Len(s), b = Nothing PROVE \A i \in 2..Len(A) : A[i] = Nothing
  <2>1. \A i \in 2..Len(A) : i \in 2..n \/ i = Len(s) + 1
    BY <1>1, <1>4
  <2> QED
    BY <1>1, <1>3, <1>4, <2>1
<1>5. Len(A) >= 1
  BY <1>1
<1> QED
  BY <1>2, <1>3, <1>4, <1>5 DEF Padded, A

\* While the connection is up, more that is coming changes nothing in the buffer.
LEMMA MoreIsComing ==
    ASSUME Types, PacketInv, link.up, UNCHANGED client,
           Len(Coming') \in Nat, Len(Coming') >= Len(Coming),
           Len(Coming) > 0 => Coming'[1].is = Coming[1].is
    PROVE  Reading' /\ Responded'
<1>1. Len(Coming) \in Nat
  BY ComingParts
<1>2. Responded'
  BY DEF PacketInv, Responded, Padded
<1>3. Reading'
  BY <1>1 DEF PacketInv, Reading, Padded
<1> QED
  BY <1>2, <1>3

LEMMA PacketInit ==
    ASSUME Init
    PROVE  PacketInv
<1>1. Coming = <<>> /\ Len(Coming) = 0
  <2>1. <<>> \in Seq(Bytes)
    BY EmptySequences
  <2>2. Coming = <<>> \o <<>>
    BY DEF Init, Coming
  <2> QED
    BY <2>1, <2>2, ConcatEmptySeq, EmptySequences
<1>2. Follows(Coming, link.up)
  BY <1>1 DEF Follows
<1>3. RestEndsPacket /\ Reading /\ Responded
  BY DEF Init, RestEndsPacket, Reading, Responded
<1> QED
  BY <1>2, <1>3 DEF PacketInv

LEMMA PacketSend ==
    ASSUME Types, PacketInv, NEW kind \in Kinds, Send(kind) \/ SendFails(kind)
    PROVE  PacketInv'
<1>1. /\ link'.in = link.in /\ link'.up = link.up /\ server' = server
      /\ client'.response = <<>> /\ client'.pc \in {"idle", "ack", "prefix"}
  BY DEF Send, SendFails, Types, Links, Clients
<1>2. Coming' = Coming
  BY <1>1 DEF Coming
<1> QED
  BY <1>1, <1>2 DEF PacketInv, Follows, RestEndsPacket, Reading, Responded

\* What was coming is received, or nothing.
LEMMA PacketReceived ==
    ASSUME Types, PacketInv, NEW b \in Received, link' = Remaining, UNCHANGED server
    PROVE  /\ Follows(Coming', link'.up) /\ RestEndsPacket'
           /\ b.is = "$" => Len(Coming') > 0 /\ Coming'[1].is \in Contents
<1>1. /\ link'.up = link.up
      /\ \/ /\ Len(Coming) > 0 /\ b = Coming[1]
            /\ Coming' \in Seq(Bytes) /\ Len(Coming') = Len(Coming) - 1
            /\ \A j \in 1..Len(Coming') : Coming'[j] = Coming[j + 1]
         \/ b = Nothing /\ Coming' = Coming
  BY ReceivedByte
<1>2. Follows(Coming, link.up) /\ Coming \in Seq(Bytes) /\ Len(Coming) \in Nat
  BY ComingParts DEF PacketInv
<1>3. RestEndsPacket'
  BY DEF PacketInv, RestEndsPacket
<1>4. Follows(Coming', link.up)
  BY <1>1, <1>2, FollowsBehind
<1>5. ASSUME b.is = "$" PROVE Len(Coming') > 0 /\ Coming'[1].is \in Contents
  <2>1. b # Nothing
    BY <1>5, Tags
  <2>2. /\ Len(Coming) > 0 /\ Coming[1].is = "$" /\ Len(Coming') = Len(Coming) - 1
        /\ \A j \in 1..Len(Coming') : Coming'[j] = Coming[j + 1]
    BY <1>1, <1>5, <2>1
  <2>3. 1 \in 1..Len(Coming)
    BY <1>2, <2>2
  <2>4. 1 < Len(Coming) /\ Coming[1 + 1].is \in Contents
    BY <1>2, <2>2, <2>3 DEF Follows
  <2>5. 1 \in 1..Len(Coming')
    BY <1>2, <2>2, <2>4
  <2>6. Coming'[1] = Coming[1 + 1] /\ Len(Coming') > 0
    BY <1>2, <2>2, <2>4, <2>5
  <2> QED
    BY <2>4, <2>6
<1> QED
  BY <1>1, <1>3, <1>4, <1>5

LEMMA PacketReceivePrefix ==
    ASSUME Types, PacketInv, ReceiveAck \/ ReceivePrefix
    PROVE  PacketInv'
<1>1. PICK b \in Received :
          \/ client' = [Got EXCEPT !.pc = "prefix"]
          \/ b.is = "$" /\ client' = [Got EXCEPT !.pc = "body"]
          \/ client' = Returns(Got, FALSE)
  BY DEF ReceiveAck, ReceivePrefix
<1>2. /\ Follows(Coming', link'.up) /\ RestEndsPacket'
      /\ b.is = "$" => Len(Coming') > 0 /\ Coming'[1].is \in Contents
  BY <1>1, PacketReceived DEF ReceiveAck, ReceivePrefix
<1>3. client.left = 3 /\ Len(client.buffer) = 0
  BY EmptySequences DEF Types, CountedDown, ReceiveAck, ReceivePrefix
<1>4. /\ client'.response = client.response
      /\ \/ client'.pc \in {"prefix", "idle"}
         \/ /\ b.is = "$" /\ client'.pc = "body" /\ client'.left = client.left
            /\ client'.buffer = client.buffer
  <2>1. Returns(Got, FALSE).pc = "idle" /\ Returns(Got, FALSE).response = client.response
    BY ReturnsTypes
  <2> QED
    BY <1>1, <2>1, GotTypes DEF Clients
<1>5. Responded'
  BY <1>4 DEF PacketInv, Responded, Padded
<1>6. Reading'
  BY <1>2, <1>3, <1>4 DEF Reading
<1> QED
  BY <1>2, <1>5, <1>6 DEF PacketInv

LEMMA PacketReceiveBody ==
    ASSUME Types, Late, ~link.lost, PacketInv, ReceiveBody
    PROVE  PacketInv'
<1>1. PICK b \in Received :
          /\ b \in Bytes /\ client'.response = client.response
          /\ client'.buffer = Append(client.buffer, b)
          /\ \/ /\ client.left < 3 \/ b.is = "#"
                /\ client'.left = client.left - 1
                /\ client'.pc = IF client.left = 1 THEN "check" ELSE "body"
             \/ client.left = 3 /\ b.is # "#" /\ client'.left = 3 /\ client'.pc = "body"
  BY BodyStep
<1> DEFINE B == client.buffer
           A == Append(B, b)
<1>2. Follows(Coming', link'.up) /\ RestEndsPacket'
  BY <1>1, PacketReceived DEF ReceiveBody
<1>3. /\ link'.up = link.up
      /\ \/ /\ Len(Coming) > 0 /\ b = Coming[1]
            /\ Coming' \in Seq(Bytes) /\ Len(Coming') = Len(Coming) - 1
            /\ \A j \in 1..Len(Coming') : Coming'[j] = Coming[j + 1]
         \/ b = Nothing /\ Coming' = Coming /\ Len(link.in) = 0
  BY <1>1, ReceivedByte DEF ReceiveBody, Late
<1>4. Responded'
  BY <1>1 DEF PacketInv, Responded, Padded
<1>5. /\ client.pc = "body" /\ client.left \in 1..3 /\ B \in Seq(Bytes)
      /\ Len(B) \in Nat /\ Len(A) = Len(B) + 1 /\ A[Len(B) + 1] = b
  BY <1>1, Fields, Appended DEF ReceiveBody, Types, CountedDown
<1>6. \A n \in Int : n <= Len(B) /\ Padded(B, n) =>
         /\ Padded(A, n)
         /\ n = Len(B) /\ b = Nothing => Padded(A, Len(A))
  BY <1>1, <1>5, PaddedAppend
<1>7. /\ client'.buffer = A
      /\ \/ /\ client.left < 3 \/ b.is = "#"
            /\ client'.left = client.left - 1
            /\ client'.pc = IF client.left = 1 THEN "check" ELSE "body"
         \/ client.left = 3 /\ b.is # "#" /\ client'.left = 3 /\ client'.pc = "body"
  BY <1>1
<1> HIDE DEF A
<1>8. Reading'
  <2>1. CASE client.left < 3
    <3>1. Padded(B, Len(B) - (3 - client.left))
      BY <1>5, <2>1 DEF PacketInv, Reading
    <3>2. /\ client'.left = client.left - 1 /\ client'.left < 3
          /\ client'.pc = IF client.left = 1 THEN "check" ELSE "body"
          /\ Len(A) - (3 - client'.left) = Len(B) - (3 - client.left)
          /\ Len(B) - (3 - client.left) \in Int /\ Len(B) - (3 - client.left) <= Len(B)
          /\ client.left = 1 => Len(A) - 3 = Len(B) - (3 - client.left)
      BY SMTT(30), <1>5, <1>7, <2>1
    <3>3. Padded(A, Len(B) - (3 - client.left))
      BY <1>6, <3>1, <3>2
    <3> QED
      BY <1>7, <3>2, <3>3 DEF Reading
  <2>2. CASE client.left = 3 /\ Len(B) = 0
    <3>1. Len(Coming) > 0 /\ Coming[1].is \in Contents
      <4>1. ~Padded(B, Len(B))
        BY <2>2 DEF Padded
      <4> QED
        BY <1>5, <2>2, <4>1 DEF PacketInv, Reading
\* The contents of a packet come with its $
    <3>2. Len(link.in) # 0
      <4> SUFFICES ASSUME Len(link.in) = 0 PROVE FALSE
        OBVIOUS
      <4>1. /\ Len(server.rest) > 0 /\ Coming[1] = server.rest[1] /\ server.rest # <<>>
        <5>1. /\ Len(server.rest) = Len(Coming) /\ Len(server.rest) \in Nat
              /\ \A j \in 1..Len(server.rest) : Coming[0 + j] = server.rest[j]
              /\ Len(server.rest) = 0 <=> server.rest = <<>>
          BY ComingParts
        <5>2. 1 \in 1..Len(server.rest) /\ 0 + 1 = 1 /\ Len(server.rest) # 0
          BY <3>1, <5>1
        <5>3. Coming[0 + 1] = server.rest[1]
          BY <5>1, <5>2
        <5> QED
          BY <3>1, <5>1, <5>2, <5>3
      <4>2. server.rest[1].is = "#"
        BY <4>1 DEF PacketInv, RestEndsPacket
      <4> QED
        BY <3>1, <4>1, <4>2, Tags
    <3>3. /\ b = Coming[1] /\ Len(Coming') = Len(Coming) - 1 /\ Len(Coming) \in Nat
          /\ \A j \in 1..Len(Coming') : Coming'[j] = Coming[j + 1]
      BY <1>3, <3>2, ComingParts
    <3>4. Padded(A, Len(A)) /\ client'.left = 3 /\ client'.pc = "body"
      <4>1. b.is # "#" /\ b.is \in Contents
        BY <3>1, <3>3, Tags
      <4>2. Len(A) = 1 /\ A[1] = b
        BY <1>5, <2>2
      <4> QED
        BY <1>7, <2>2, <4>1, <4>2 DEF Padded
    <3>5. \/ Len(Coming) = 1 /\ ~link.up
          \/ 1 < Len(Coming) /\ Coming[1 + 1].is = "#"
      <4>1. 1 \in 1..Len(Coming)
        BY <3>1, <3>3
      <4> QED
        BY <3>1, <3>3, <4>1 DEF PacketInv, Follows
    <3>6. 1 < Len(Coming) => Coming'[1] = Coming[1 + 1] /\ Len(Coming') > 0
      <4>1. 1 < Len(Coming) => 1 \in 1..Len(Coming') /\ Len(Coming') > 0
        BY <3>3
      <4> QED
        BY <3>3, <4>1
    <3>7. \/ Len(Coming') = 0 /\ ~link'.up
          \/ Len(Coming') > 0 /\ Coming'[1].is = "#"
      BY <1>3, <3>3, <3>5, <3>6
    <3> QED
      BY <1>7, <3>4, <3>7 DEF Reading
  <2>3. CASE client.left = 3 /\ Len(B) # 0
    <3>1. /\ Padded(B, Len(B))
          /\ \/ Len(Coming) = 0 /\ ~link.up
             \/ Len(Coming) > 0 /\ Coming[1].is = "#"
      BY <1>5, <2>3 DEF PacketInv, Reading
    <3>2. CASE b.is = "#"
      <4>1. /\ client'.left = 2 /\ client'.pc = "body"
            /\ Len(A) - (3 - client'.left) = Len(B) /\ Len(B) \in Int /\ Len(B) <= Len(B)
        BY <1>5, <1>7, <2>3, <3>2
      <4>2. Padded(A, Len(B))
        BY <1>6, <3>1, <4>1
      <4> QED
        BY <1>7, <4>1, <4>2 DEF Reading
    <3>3. CASE b.is # "#"
      <4>1. b = Nothing /\ Coming' = Coming
        BY <1>3, <3>1, <3>3
      <4>2. client'.left = 3 /\ client'.pc = "body" /\ Len(B) \in Int /\ Len(B) <= Len(B)
        BY <1>5, <1>7, <2>3, <3>3
      <4>3. Padded(A, Len(A))
        BY <1>6, <3>1, <4>1, <4>2
      <4> QED
        BY <1>3, <1>7, <3>1, <4>1, <4>2, <4>3 DEF Reading
    <3> QED
      BY <3>2, <3>3
  <2> QED
    BY <1>5, <2>1, <2>2, <2>3
<1> QED
  BY <1>2, <1>4, <1>8 DEF PacketInv

LEMMA PacketCheck ==
    ASSUME Types, PacketInv, Accept \/ Refuse
    PROVE  PacketInv'
<1>1. client'.pc = "idle" /\ link'.in = link.in /\ link'.up = link.up /\ server' = server
  BY TypesCheck DEF Accept, Refuse, Types, Links
<1>2. Coming' = Coming
  BY <1>1 DEF Coming
<1>3. Responded'
  <2>1. CASE Accept
    <3>1. Padded(client.buffer, Len(client.buffer) - 3)
      BY <2>1 DEF Accept, PacketInv, Reading
    <3>2. Padded(Payload(client.buffer), Len(Payload(client.buffer)))
      <4> DEFINE B == client.buffer
                 P == Payload(B)
      <4>1. B \in Seq(Bytes) /\ Len(B) \in Nat /\ Padded(B, Len(B) - 3)
        BY <3>1, Fields, Empties
      <4>2. Len(B) - 3 >= 1 /\ B[1].is \in Contents /\ \A i \in 2..(Len(B) - 3) : B[i] = Nothing
        BY <4>1 DEF Padded
      <4> HIDE DEF B
      <4>3. Len(B) >= 3
        BY <4>1, <4>2
      <4>4. Len(P) = Len(B) - 3 /\ \A i \in 1..(Len(B) - 3) : P[i] = B[i]
        BY <4>1, <4>3, PayloadTypes
      <4> HIDE DEF P
      <4>5. 1 \in 1..(Len(B) - 3) /\ \A i \in 2..(Len(B) - 3) : i \in 1..(Len(B) - 3)
        BY <4>1, <4>2
      <4>6. Padded(P, Len(P))
        BY <4>2, <4>4, <4>5 DEF Padded
      <4> QED
        BY <4>6 DEF P, B
    <3>3. client'.response = Payload(client.buffer)
      BY <2>1, ReturnsTypes DEF Accept, Clients
    <3> QED
      BY <3>2, <3>3 DEF Responded
  <2>2. CASE Refuse
    <3>1. client'.response = client.response
      BY <2>2, ReturnsTypes DEF Refuse, Clients
    <3> QED
      BY <3>1 DEF PacketInv, Responded, Padded
  <2> QED
    BY <2>1, <2>2
<1> QED
  BY <1>1, <1>2, <1>3 DEF PacketInv, Follows, RestEndsPacket, Reading

LEMMA PacketTakeCommand ==
    ASSUME Types, PacketInv, TakeCommand
    PROVE  PacketInv'
<1> DEFINE c == Byte("+", 0, Head(link.sent).n, 0)
<1>1. /\ link.up /\ link'.up = link.up /\ client' = client
      /\ server.rest = <<>> /\ server'.rest = <<>>
      /\ link'.in = IF server.ack THEN Append(link.in, c) ELSE link.in
  BY DEF TakeCommand, Ready, Types, Links, Servers
<1>2. c \in Bytes /\ c.is = "+"
  <2>1. Head(link.sent) \in Messages
    BY Taking DEF TakeCommand, Ready
  <2> QED
    BY <2>1, BoundsAssumption DEF Messages, Byte, Bytes
<1> HIDE DEF c
<1>3. link.in \in Seq(Bytes) /\ link'.in \in Seq(Bytes)
  BY <1>1, <1>2, Fields, AppendProperties
<1>4. Coming = link.in /\ Coming' = link'.in
  BY <1>1, <1>3, ConcatEmptySeq DEF Coming
<1>5. /\ Len(Coming) \in Nat
      /\ Len(Append(link.in, c)) = Len(link.in) + 1
      /\ \A j \in 1..Len(link.in) : Append(link.in, c)[j] = link.in[j]
      /\ Append(link.in, c)[Len(link.in) + 1] = c
  BY <1>2, <1>3, <1>4, Appended
<1>6. Follows(Coming', link'.up)
  <2>1. Follows(link.in, TRUE)
    BY <1>1, <1>4 DEF PacketInv, Follows
  <2>2. Follows(Append(link.in, c), TRUE)
    <3> DEFINE S == link.in
               T == Append(link.in, c)
    <3>1. /\ Len(S) \in Nat /\ Len(T) = Len(S) + 1 /\ T[Len(S) + 1].is = "+"
          /\ \A j \in 1..Len(S) : T[j] = S[j]
      BY <1>2, <1>4, <1>5
    <3> HIDE DEF S, T
    <3> SUFFICES ASSUME NEW j \in 1..Len(T)
                 PROVE  /\ T[j].is = "$" => j < Len(T) /\ T[j + 1].is \in Contents
                        /\ T[j].is \in Contents => j < Len(T) /\ T[j + 1].is = "#"
      BY DEF Follows, T
    <3>2. CASE j = Len(S) + 1
      BY <3>1, <3>2, Tags
    <3>3. CASE j # Len(S) + 1
      <4>1. /\ j \in 1..Len(S) /\ j < Len(T) /\ T[j] = S[j]
            /\ j < Len(S) => j + 1 \in 1..Len(S) /\ T[j + 1] = S[j + 1]
        BY <3>1, <3>3
      <4>2. /\ S[j].is = "$" => j < Len(S) /\ S[j + 1].is \in Contents
            /\ S[j].is \in Contents => j < Len(S) /\ S[j + 1].is = "#"
        BY <2>1, <4>1 DEF Follows, S
      <4> QED
        BY <4>1, <4>2
    <3> QED
      BY <3>2, <3>3
  <2> QED
    BY <1>1, <1>4, <2>1, <2>2
<1>7. Reading' /\ Responded'
  <2>1. /\ Len(Coming') \in Nat /\ Len(Coming') >= Len(Coming)
        /\ Len(Coming) > 0 => Coming'[1] = Coming[1]
    BY <1>1, <1>4, <1>5
  <2> QED
    BY <1>1, <2>1, MoreIsComing
<1> QED
  BY <1>1, <1>6, <1>7 DEF PacketInv, RestEndsPacket

\* A packet is begun.
LEMMA PacketBegun ==
    ASSUME Types, PacketInv, NEW p \in Packets, server.rest = <<>>, server'.busy = NoCommand,
           link'.in = link.in \o Piece1(p), server'.rest = Piece2(p),
           link.up, link'.up = link.up, UNCHANGED client
    PROVE  PacketInv'
<1>1. /\ Coming \in Seq(Bytes) /\ Len(Coming) \in Nat
      /\ Coming' = Coming \o Whole(p) /\ Len(Coming') = Len(Coming) + 5
      /\ \A j \in 1..Len(Coming) : Coming'[j] = Coming[j]
  BY NewPacket, ComingParts
<1>2. Whole(p) \in Seq(Bytes) /\ Follows(Whole(p), TRUE)
  BY WholePacket
<1>3. Follows(Coming, TRUE)
  BY DEF PacketInv, Follows
<1>4. Follows(Coming', TRUE)
  BY <1>1, <1>2, <1>3, FollowsConcat
<1>5. RestEndsPacket'
  BY Pieces DEF RestEndsPacket
<1>6. Reading' /\ Responded'
  BY <1>1, MoreIsComing
<1> QED
  BY <1>4, <1>5, <1>6 DEF PacketInv, Follows

LEMMA PacketTakeConfirm ==
    ASSUME Types, PacketInv, TakeConfirm
    PROVE  PacketInv'
<1>1. /\ link.up /\ link'.up = link.up /\ client' = client
      /\ server.busy = NoCommand /\ server'.busy = NoCommand /\ server.rest = <<>>
  BY DEF TakeConfirm, Ready, Types, Links, Servers
<1>2. CASE Head(link.sent).kind = "-" /\ server.ack
  <2>1. link'.in = link.in \o Piece1(server.last) /\ server'.rest = Piece2(server.last)
    BY <1>2 DEF TakeConfirm, Types, Links, Servers
  <2> QED
    BY <1>1, <2>1, Fields, PacketBegun
<1>3. CASE ~(Head(link.sent).kind = "-" /\ server.ack)
  <2>1. link'.in = link.in /\ server'.rest = server.rest
    BY <1>3 DEF TakeConfirm, Types, Links, Servers
  <2>2. Coming' = Coming
    BY <2>1 DEF Coming
  <2>3. Len(Coming) \in Nat
    BY ComingParts
  <2>4. Reading' /\ Responded'
    BY <1>1, <2>2, <2>3, MoreIsComing
  <2> QED
    BY <1>1, <2>1, <2>2, <2>4 DEF PacketInv, RestEndsPacket
<1> QED
  BY <1>2, <1>3

LEMMA PacketBeginAnswer ==
    ASSUME Types, PacketInv, BeginAnswer
    PROVE  PacketInv'
<1>1. PICK p \in Packets :
          /\ link' = [link EXCEPT !.in = @ \o Piece1(p)]
          /\ server'.busy = NoCommand /\ server'.rest = Piece2(p)
  BY AnswerStep
<1>2. /\ link.up /\ link'.up = link.up /\ client' = client /\ server.rest = <<>>
      /\ link'.in = link.in \o Piece1(p)
  BY <1>1 DEF BeginAnswer, PacketInv, RestEndsPacket, Types, Links
<1> QED
  BY <1>1, <1>2, PacketBegun

LEMMA PacketEndAnswer ==
    ASSUME Types, PacketInv, EndAnswer
    PROVE  PacketInv'
<1>1. /\ link.up /\ link'.up = link.up /\ client' = client /\ server'.rest = <<>>
      /\ link'.in = link.in \o server.rest
  BY DEF EndAnswer, Types, Links, Servers
<1>2. link.in \o server.rest \in Seq(Bytes) /\ Len(Coming) \in Nat
  BY ComingParts DEF Coming
<1>3. Coming' = Coming
  BY <1>1, <1>2, ConcatEmptySeq DEF Coming
<1>4. Reading' /\ Responded'
  BY <1>1, <1>2, <1>3, MoreIsComing
<1> QED
  BY <1>1, <1>3, <1>4 DEF PacketInv, RestEndsPacket

LEMMA PacketHangUp ==
    ASSUME Types, PacketInv, HangUp
    PROVE  PacketInv'
<1>1. /\ link.up /\ link'.up = FALSE /\ client' = client /\ server'.rest = <<>>
      /\ link'.in = link.in
  BY DEF HangUp, Types, Links, Servers
<1> DEFINE S == link.in
           C == Coming
           R == server.rest
<1>2. /\ S \in Seq(Bytes) /\ Len(S) \in Nat /\ Len(R) \in Nat
      /\ Len(C) = Len(S) + Len(R)
      /\ \A j \in 1..Len(S) : C[j] = S[j]
      /\ \A j \in 1..Len(R) : C[Len(S) + j] = R[j]
      /\ Len(R) > 0 => R # <<>>
  <2>1. /\ S \in Seq(Bytes) /\ Len(S) \in Nat /\ Len(R) \in Nat
        /\ Len(C) = Len(S) + Len(R)
        /\ \A j \in 1..Len(S) : C[j] = S[j]
        /\ \A j \in 1..Len(R) : C[Len(S) + j] = R[j]
        /\ Len(R) = 0 <=> R = <<>>
    BY ComingParts
  <2> HIDE DEF S, C, R
  <2>2. Len(R) > 0 => Len(R) # 0
    BY <2>1
  <2> QED
    BY <2>1, <2>2, Zenon
<1>3. Coming' = S
  BY <1>1, <1>2, ConcatEmptySeq DEF Coming
\* What is cut off begins with a #
<1>4. Len(R) > 0 => C[Len(S) + 1].is = "#"
  <2>1. Len(R) > 0 => 1 \in 1..Len(R) /\ R[1].is = "#"
    BY <1>2 DEF PacketInv, RestEndsPacket
  <2> HIDE DEF S, C, R
  <2> QED
    BY <1>2, <2>1
<1>5. Follows(S, FALSE)
  <2> DEFINE k == Len(R)
  <2>1. /\ Len(S) \in Nat /\ k \in Nat /\ Len(C) = Len(S) + k /\ Follows(C, TRUE)
        /\ \A j \in 1..Len(S) : C[j] = S[j]
        /\ k > 0 => C[Len(S) + 1].is = "#"
    BY <1>1, <1>2, <1>4 DEF PacketInv, Follows
  <2> HIDE DEF S, C, R, k
  <2>2. ASSUME NEW j \in 1..Len(S)
        PROVE  /\ S[j].is = "$" => j < Len(S) /\ S[j + 1].is \in Contents
               /\ S[j].is \in Contents =>
                     \/ j = Len(S)
                     \/ j < Len(S) /\ S[j + 1].is = "#"
    <3>1. /\ j \in 1..Len(C) /\ C[j] = S[j]
          /\ j < Len(S) => C[j + 1] = S[j + 1]
          /\ j = Len(S) /\ j < Len(C) => C[j + 1].is = "#"
          /\ j = Len(S) \/ j < Len(S)
      BY <2>1
    <3>2. /\ C[j].is = "$" => j < Len(C) /\ C[j + 1].is \in Contents
          /\ C[j].is \in Contents => j < Len(C) /\ C[j + 1].is = "#"
      BY <2>1, <3>1 DEF Follows
    <3> QED
      BY <3>1, <3>2, Tags
  <2> QED
    BY <2>2 DEF Follows
<1>6. Reading'
  <2> HIDE DEF S, C, R
  <2>1. /\ Len(S) \in Nat /\ (Len(S) > 0 => C[1] = S[1] /\ Len(C) > 0)
        /\ Len(S) = 0 /\ Len(C) > 0 => C[1].is = "#"
        /\ Len(C) = 0 => Len(S) = 0
    BY <1>2, <1>4
  <2>2. Reading /\ C = Coming /\ "#" \notin Contents /\ link'.up = FALSE /\ link.up
    BY <1>1, Tags DEF PacketInv, C
  <2>3. ASSUME client.pc = "body", client.left = 3
        PROVE  \/ Len(client.buffer) = 0 /\ Len(S) > 0 /\ S[1].is \in Contents
               \/ /\ Padded(client.buffer, Len(client.buffer))
                  /\ Len(S) = 0 \/ (Len(S) > 0 /\ S[1].is = "#")
    <3>1. \/ /\ Len(client.buffer) = 0 /\ Len(C) > 0 /\ C[1].is \in Contents
          \/ /\ Padded(client.buffer, Len(client.buffer))
             /\ Len(C) = 0 \/ (Len(C) > 0 /\ C[1].is = "#")
      BY <2>2, <2>3, Zenon DEF Reading
    <3>2. Len(S) = 0 \/ Len(S) > 0
      BY <2>1
    <3> QED
      BY <2>1, <2>2, <3>1, <3>2, Zenon
  <2> QED
    BY <1>1, <1>3, <2>2, <2>3 DEF Reading, Padded
<1> QED
  BY <1>1, <1>3, <1>5, <1>6 DEF PacketInv, Follows, RestEndsPacket, Responded, Padded

LEMMA LateNext ==
    ASSUME Types, Late, [Next]_vars
    PROVE  Late'
<1>1. link.waited \in BOOLEAN /\ client \in Clients /\ link \in Links
  BY Fields DEF Types
<1>2. CASE \E kind \in Kinds : Send(kind) \/ SendFails(kind)
  <2>1. ssl' = ssl /\ link'.waited = link.waited /\ client'.outside = client.outside
    <3>1. PICK kind \in Kinds : Send(kind) \/ SendFails(kind)
      BY <1>2
    <3> QED
      BY <1>1, <3>1 DEF Send, SendFails, Links, Clients
  <2> QED
    BY <2>1 DEF Late
<1>3. CASE ReceiveAck \/ ReceivePrefix
  <2>1. \/ client' = [Got EXCEPT !.pc = "prefix"]
        \/ client' = [Got EXCEPT !.pc = "body"]
        \/ client' = Returns(Got, FALSE)
    BY <1>3 DEF ReceiveAck, ReceivePrefix
  <2>2. ~client'.outside
    BY <2>1, GotTypes, ReturnsTypes DEF Clients
  <2> QED
    BY <2>2 DEF Late
<1>4. CASE ReceiveBody
  BY <1>4, BodyStep DEF Late
<1>5. CASE Accept \/ Refuse
  <2>1. client'.outside = client.outside
    <3>1. /\ Returns(client, FALSE) \in Clients /\ Returns(client, TRUE) \in Clients
          /\ Returns(client, FALSE).outside = client.outside
          /\ Returns(client, TRUE).outside = client.outside
      BY ReturnsTypes
    <3> QED
      BY <1>5, <3>1 DEF Accept, Refuse, Clients
  <2> QED
    BY <1>1, <1>5, <2>1 DEF Accept, Refuse, Late, Links
<1>6. CASE ReceiveLate
  BY <1>1, <1>6 DEF ReceiveLate, Late, Links
<1>7. CASE ReceiveOutside
  BY <1>7, TypesReceiveElsewhere DEF ReceiveOutside, Late
<1>8. CASE TakeCommand \/ TakeConfirm \/ BeginAnswer \/ EndAnswer \/ HangUp
  <2>1. client' = client /\ ssl' = ssl
    BY <1>8 DEF TakeCommand, TakeConfirm, BeginAnswer, EndAnswer, HangUp
  <2>2. link'.waited = link.waited
    BY <1>1, <1>8 DEF TakeCommand, TakeConfirm, BeginAnswer, EndAnswer, HangUp, Links
  <2> QED
    BY <2>1, <2>2 DEF Late
<1>9. CASE Rest \/ UNCHANGED vars
  BY <1>9 DEF Rest, vars, Late
<1> QED
  BY <1>2, <1>3, <1>4, <1>5, <1>6, <1>7, <1>8, <1>9 DEF Next, ClientStep

\* What was stored elsewhere stays so.
LEMMA LostNext ==
    ASSUME Types, link.lost, [Next]_vars
    PROVE  link'.lost
<1>1. link \in Links
  BY DEF Types
<1>2. CASE ReceiveAck \/ ReceivePrefix \/ ReceiveBody
  BY <1>1, <1>2 DEF ReceiveAck, ReceivePrefix, ReceiveBody, Remaining, Links
<1>3. CASE BeginAnswer
  BY <1>1, <1>3, AnswerStep DEF Links
<1>4. CASE \E kind \in Kinds : Send(kind) \/ SendFails(kind)
  BY <1>1, <1>4 DEF Send, SendFails, Links
<1>5. CASE \/ Accept \/ Refuse \/ ReceiveLate \/ ReceiveOutside
           \/ TakeCommand \/ TakeConfirm \/ EndAnswer \/ HangUp
  BY <1>1, <1>5 DEF Accept, Refuse, ReceiveLate, ReceiveOutside, TakeCommand, TakeConfirm,
     EndAnswer, HangUp, Links
<1>6. CASE Rest \/ UNCHANGED vars
  BY <1>6 DEF Rest, vars
<1> QED
  BY <1>2, <1>3, <1>4, <1>5, <1>6 DEF Next, ClientStep

LEMMA PacketNext ==
    ASSUME Types, Late, UnlessLost, [Next]_vars
    PROVE  UnlessLost'
<1> SUFFICES ASSUME ~link.lost, PacketInv PROVE link'.lost \/ PacketInv'
  BY LostNext DEF UnlessLost
<1>1. CASE \E kind \in Kinds : Send(kind) \/ SendFails(kind)
  BY <1>1, PacketSend
<1>2. CASE ReceiveAck \/ ReceivePrefix
  BY <1>2, PacketReceivePrefix
<1>3. CASE ReceiveBody
  BY <1>3, PacketReceiveBody
<1>4. CASE Accept \/ Refuse
  BY <1>4, PacketCheck
<1>5. CASE TakeCommand
  BY <1>5, PacketTakeCommand
<1>6. CASE TakeConfirm
  BY <1>6, PacketTakeConfirm
<1>7. CASE BeginAnswer
  BY <1>7, PacketBeginAnswer
<1>8. CASE EndAnswer
  BY <1>8, PacketEndAnswer
<1>9. CASE HangUp
  BY <1>9, PacketHangUp
<1>10. CASE ReceiveLate
  <2>1. /\ link'.in = link.in /\ link'.up = link.up /\ server' = server
        /\ client'.pc = client.pc /\ client'.buffer = client.buffer
        /\ client'.left = client.left /\ client'.response = client.response
    BY <1>10, TypesReceiveElsewhere DEF ReceiveLate
  <2>2. Coming' = Coming
    BY <2>1 DEF Coming
  <2>3. Follows(Coming', link'.up) /\ RestEndsPacket'
    BY <2>1, <2>2 DEF PacketInv, RestEndsPacket
  <2>4. Reading'
    BY <2>1, <2>2 DEF PacketInv, Reading, Padded
  <2>5. Responded'
    BY <2>1 DEF PacketInv, Responded, Padded
  <2> QED
    BY <2>3, <2>4, <2>5 DEF PacketInv
<1>11. CASE ReceiveOutside
  BY <1>11, TypesReceiveElsewhere
<1>12. CASE Rest \/ UNCHANGED vars
  <2>1. UNCHANGED <<ssl, link, client, server>>
    BY <1>12 DEF Rest, vars
  <2> QED
    BY <2>1 DEF PacketInv, Coming, Follows, RestEndsPacket, Reading, Responded, Padded
<1> QED
  BY <1>1, <1>2, <1>3, <1>4, <1>5, <1>6, <1>7, <1>8, <1>9, <1>10, <1>11, <1>12
     DEF Next, ClientStep

\* A response is the contents of one packet and zeros, never bytes of two packets or
\* part of a checksum, whatever was late, refused, sent again or lost with the
\* connection before, as long as no byte was stored outside a receive's buffer.
THEOREM ResponsesAreOnePacket == Spec => []ResponseIsOnePacket
<1>1. Init => Late /\ UnlessLost
  BY PacketInit DEF Init, Late, UnlessLost
<1>2. Types /\ Late /\ UnlessLost /\ [Next]_vars => Late' /\ UnlessLost'
  BY LateNext, PacketNext
<1>3. UnlessLost => ResponseIsOnePacket
  <2> SUFFICES ASSUME Responded, client.response # <<>>
               PROVE  /\ client.response[1].is \in Contents
                      /\ \A i \in 2..Len(client.response) : client.response[i] = Nothing
    BY DEF UnlessLost, PacketInv, ResponseIsOnePacket
  <2>1. Padded(client.response, Len(client.response))
    BY DEF Responded
  <2> QED
    BY <2>1 DEF Padded
<1> QED
  BY <1>1, <1>2, <1>3, TypesHold, PTL DEF Spec

-----------------------------------------------------------------------------
(* Whose answer a response is.                                             *)

\* The rest of an answer is one.
LEMMA EndingBehind ==
    ASSUME NEW S \in Seq(Bytes), NEW T \in Seq(Bytes), NEW n, Ending(S, n),
           Len(T) = Len(S) - 1, \A j \in 1..Len(T) : T[j] = S[j + 1]
    PROVE  Ending(T, n)
<1>1. Len(S) \in Nat /\ Len(T) \in Nat /\ Len(S) <= 5
  BY Empties DEF Ending
<1>2. Len(T) <= 5
  BY <1>1
<1>3. ASSUME NEW j \in 1..Len(T)
      PROVE  /\ T[j].to = n
             /\ j + 4 = Len(T) => T[j].is = "$"
             /\ j + 3 = Len(T) => T[j].is \in Contents
             /\ j + 2 = Len(T) => T[j].is = "#"
  <2> DEFINE i == j + 1
  <2>1. /\ i \in 1..Len(S) /\ T[j] = S[i]
        /\ j + 4 = Len(T) => i + 4 = Len(S)
        /\ j + 3 = Len(T) => i + 3 = Len(S)
        /\ j + 2 = Len(T) => i + 2 = Len(S)
    BY <1>1
  <2> HIDE DEF i
  <2>2. /\ S[i].to = n
        /\ i + 4 = Len(S) => S[i].is = "$"
        /\ i + 3 = Len(S) => S[i].is \in Contents
        /\ i + 2 = Len(S) => S[i].is = "#"
    BY <2>1 DEF Ending
  <2> QED
    BY <2>1, <2>2
<1> QED
  BY <1>2, <1>3 DEF Ending

LEMMA NotEmpty ==
    ASSUME NEW s, Len(s) # 0
    PROVE  s # <<>>
BY EmptySequences

\* A packet is an answer to its command, wherever its bytes stand.
LEMMA EndingWhole ==
    ASSUME NEW p \in Packets, NEW T, Len(T) = 5, \A j \in 1..5 : T[j] = Whole(p)[j]
    PROVE  Ending(T, p.to)
<1>1. /\ Whole(p)[1].is = "$" /\ Whole(p)[2].is \in Contents /\ Whole(p)[3].is = "#"
      /\ \A j \in 1..5 : Whole(p)[j].to = p.to
  BY WholePacket
<1> HIDE DEF Whole
<1>2. /\ T[1].is = "$" /\ T[2].is \in Contents /\ T[3].is = "#"
      /\ \A j \in 1..5 : T[j].to = p.to
  BY <1>1
<1>3. ASSUME NEW j \in 1..5
      PROVE  (j + 4 = 5 => j = 1) /\ (j + 3 = 5 => j = 2) /\ (j + 2 = 5 => j = 3)
  OBVIOUS
<1> QED
  BY <1>2, <1>3 DEF Ending

\* The connection does not come up again, nor does calm return.
LEMMA CalmBefore ==
    ASSUME Types, Next, link'.up, Calm'
    PROVE  link.up /\ Calm
<1>0. /\ client \in Clients /\ server \in Servers /\ link \in Links
      /\ link.waited \in BOOLEAN /\ link'.waited \in BOOLEAN /\ client'.refused \in BOOLEAN /\ server'.declined \in BOOLEAN
  BY TypesNext, Fields DEF Types, Links, Clients, Servers
<1>1. ASSUME NEW kind \in Kinds, Send(kind) \/ SendFails(kind)
      PROVE  link.up /\ Calm
  BY <1>0, <1>1 DEF Send, SendFails, Calm, Links, Clients, Servers
<1>2. ASSUME NEW b \in Received, link' = Remaining,
             UNCHANGED server, client'.refused = client.refused
      PROVE  link.up /\ Calm
  BY <1>0, <1>2 DEF Remaining, Calm, Links
<1>3. CASE ReceiveAck \/ ReceivePrefix
  <2>1. PICK b \in Received :
          \/ client' = [Got EXCEPT !.pc = "prefix"]
          \/ client' = [Got EXCEPT !.pc = "body"]
          \/ client' = Returns(Got, FALSE)
    BY <1>3 DEF ReceiveAck, ReceivePrefix
  <2>2. client'.refused = client.refused
    <3>1. Returns(Got, FALSE).refused = client.refused
      BY ReturnsTypes
    <3> QED
      BY <2>1, <3>1, GotTypes DEF Clients
  <2> QED
    BY <1>2, <1>3, <2>1, <2>2 DEF ReceiveAck, ReceivePrefix
<1>4. CASE ReceiveBody
  <2>1. PICK b \in Received : client'.refused = client.refused
    BY <1>4, BodyStep
  <2> QED
    BY <1>2, <1>4, <2>1 DEF ReceiveBody
<1>5. CASE Accept
  <2>1. link'.up = link.up /\ link'.waited = link.waited /\ server' = server
    BY <1>0, <1>5 DEF Accept, Links
  <2>2. client'.refused = client.refused
    BY <1>0, <1>5, ReturnsTypes DEF Accept, Clients
  <2> QED
    BY <2>1, <2>2 DEF Calm
<1>6. CASE Refuse
  <2>1. client'.refused
    BY <1>6, ReturnsTypes DEF Refuse, Clients
  <2> QED
    BY <2>1 DEF Calm
<1>7. CASE TakeCommand \/ TakeConfirm \/ EndAnswer
  BY <1>0, <1>7 DEF TakeCommand, TakeConfirm, EndAnswer, Calm, Links, Servers
<1>8. CASE BeginAnswer
  <2>1. PICK p \in Packets :
            /\ link' = [link EXCEPT !.in = @ \o Piece1(p)]
            /\ server'.declined = (server.declined \/
                  /\ server.busy.kind = "QStartNoAckMode" /\ p.contents # "OK")
    BY <1>8, AnswerStep
  <2>2. client' = client
    BY <1>8 DEF BeginAnswer
  <2> QED
    BY <1>0, <2>1, <2>2 DEF Calm, Links
<1>9. CASE HangUp
  BY <1>0, <1>9 DEF HangUp, Links
<1>10. CASE Rest
  BY <1>10 DEF Rest, vars, Calm
<1>11. CASE ReceiveLate
  BY <1>11, TypesReceiveElsewhere DEF Calm
<1>12. CASE ReceiveOutside
  BY <1>12, TypesReceiveElsewhere DEF ReceiveOutside, Calm
<1> QED
  BY <1>1, <1>3, <1>4, <1>5, <1>6, <1>7, <1>8, <1>9, <1>10, <1>11, <1>12 DEF Next, ClientStep

LEMMA StepInit ==
    ASSUME Init
    PROVE  StepInv
<1>1. Len(<<>>) = 0
  BY EmptySequences
<1>2. Silent /\ client.pc = "idle"
  BY <1>1 DEF Init, Silent, Pluses
<1> QED
  BY <1>2 DEF StepInv

\* Where a call that is under way stands.
Stands == IF client.pc = "idle" THEN Silent ELSE OnItsWay \/ Taken \/ Answered

LEMMA StepSend ==
    ASSUME Types, Stands, link.up, NEW kind \in Kinds, Send(kind)
    PROVE  Stands'
<1> DEFINE m == [kind |-> kind, n |-> client.n + 1]
           S == link.sent
           T == Append(S, m)
<1>1. /\ Silent /\ client.pc = "idle" /\ server' = server
      /\ link'.sent = T /\ link'.in = link.in
      /\ client'.ack = client.ack /\ client'.n = client.n + 1 /\ client'.kind = kind
      /\ client'.pc = IF client.ack THEN "ack" ELSE "prefix"
  BY DEF Send, Stands, Sends, Types, Links, Clients
<1>2. m \in Messages /\ S \in Seq(Messages)
  BY Fields DEF Send, Messages
<1>3. Asked' = m
  BY <1>1 DEF Asked
<1> HIDE DEF m, S
<1>4. /\ Len(S) \in Nat /\ Len(T) = Len(S) + 1
      /\ \A j \in 1..Len(S) : T[j] = S[j]
      /\ T[Len(S) + 1] = m
  BY <1>2, Appended
<1>5. Pluses(S, Len(S))
  BY <1>1 DEF Silent, S
<1> HIDE DEF T
<1>6. Len(T) > 0 /\ T[Len(T)] = m /\ Pluses(T, Len(T) - 1)
  <2>1. Len(T) - 1 = Len(S) /\ Len(T) > 0 /\ T[Len(T)] = m
    BY <1>4
  <2>2. Pluses(T, Len(S))
    BY <1>4, <1>5 DEF Pluses
  <2> QED
    BY <2>1, <2>2
<1>7. OnItsWay'
  <2>1. /\ client'.pc \in {"ack", "prefix"} /\ (client'.pc = "ack" <=> client'.ack)
        /\ client'.ack = server'.ack
        /\ Len(link'.in) = 0 /\ Len(server'.rest) = 0 /\ server'.busy = NoCommand
    BY <1>1, Fields DEF Silent
  <2>2. /\ Len(link'.sent) > 0 /\ link'.sent[Len(link'.sent)] = Asked'
        /\ Pluses(link'.sent, Len(link'.sent) - 1)
    BY <1>1, <1>3, <1>6
  <2> QED
    BY <2>1, <2>2 DEF OnItsWay, Pluses
<1>8. client'.pc # "idle"
  BY <1>1
<1> QED
  BY <1>7, <1>8 DEF Stands

\* A byte that is received without waiting is the first that is coming.
LEMMA ReceivedInCalm ==
    ASSUME Types, Late, NEW b \in Received, link' = Remaining, UNCHANGED server,
           link.up, ~link'.waited
    PROVE  /\ b \in Bytes /\ link'.sent = link.sent
           /\ Len(link.in) > 0 /\ Len(Coming) > 0 /\ b = Coming[1] /\ b = link.in[1]
           /\ Len(link'.in) = Len(link.in) - 1
           /\ Coming' \in Seq(Bytes) /\ Len(Coming') = Len(Coming) - 1
           /\ \A j \in 1..Len(Coming') : Coming'[j] = Coming[j + 1]
<1>1. /\ b \in Bytes /\ link'.sent = link.sent
      /\ Len(link.in) > 0 /\ Len(Coming) > 0 /\ b = Coming[1]
      /\ Len(link'.in) = Len(link.in) - 1
      /\ Coming' \in Seq(Bytes) /\ Len(Coming') = Len(Coming) - 1
      /\ \A j \in 1..Len(Coming') : Coming'[j] = Coming[j + 1]
  BY ReceivedByte DEF Late
<1>2. Coming[1] = link.in[1]
  <2>1. Len(link.in) \in Nat /\ \A j \in 1..Len(link.in) : Coming[j] = link.in[j]
    BY ComingParts
  <2>2. 1 \in 1..Len(link.in)
    BY <1>1, <2>1
  <2> QED
    BY <2>1, <2>2
<1> QED
  BY <1>1, <1>2

LEMMA StepReceiveAck ==
    ASSUME Types, Late, Stands, link.up, ReceiveAck, ~link'.waited
    PROVE  Stands'
<1>1. PICK b \in Received :
          client' = CASE b.is = "+" -> [Got EXCEPT !.pc = "prefix"]
                      [] b.is = "$" -> [Got EXCEPT !.pc = "body"]
                      [] OTHER -> Returns(Got, FALSE)
  BY DEF ReceiveAck
<1>2. client.pc = "ack" /\ server' = server
  BY DEF ReceiveAck
<1>3. /\ link'.sent = link.sent
      /\ Len(link.in) > 0 /\ Len(Coming) > 0 /\ b = Coming[1] /\ b = link.in[1]
      /\ Len(link'.in) = Len(link.in) - 1
      /\ Coming' \in Seq(Bytes) /\ Len(Coming') = Len(Coming) - 1
      /\ \A j \in 1..Len(Coming') : Coming'[j] = Coming[j + 1]
  BY <1>1, ReceivedInCalm DEF ReceiveAck
<1>4. Taken \/ Answered
  BY <1>2, <1>3 DEF Stands, OnItsWay
<1>5. client' = [Got EXCEPT !.pc = "prefix"]
  BY <1>1, <1>2, <1>3, <1>4 DEF Taken, Answered
<1>6. /\ client'.pc = "prefix" /\ client'.ack = client.ack /\ client'.n = client.n
      /\ client'.kind = client.kind
  BY <1>5, GotTypes DEF Clients
<1>7. CASE Taken
  <2>1. Taken'
    BY <1>2, <1>3, <1>6, <1>7 DEF Taken, Asked
  <2> QED
    BY <1>6, <2>1 DEF Stands
<1>8. CASE Answered
  <2>1. Len(Coming) = 6 /\ Ending(Tail(Coming), client.n) /\ Coming \in Seq(Bytes)
    BY <1>2, <1>8, ComingParts DEF Answered
  <2> DEFINE C == Coming
             D == Coming'
             T == Tail(C)
  <2>2. C # <<>>
    <3>1. Len(C) # 0
      BY <2>1
    <3> QED
      BY <3>1, NotEmpty
  <2>3. Len(T) = Len(C) - 1 /\ \A j \in 1..Len(T) : T[j] = C[j + 1]
    BY <2>1, <2>2, Behead
  <2>7. Len(C) = 6 /\ Len(D) = Len(C) - 1 /\ \A j \in 1..Len(D) : D[j] = C[j + 1]
    BY <1>3, <2>1
  <2>4. Len(D) = 5 /\ Len(T) = 5 /\ \A j \in 1..5 : D[j] = T[j]
    <3> HIDE DEF C, D, T
    <3> QED
      BY <2>3, <2>7
  <2>5. Ending(Coming', client.n)
    BY <2>1, <2>4 DEF Ending
  <2>6. Answered'
    BY <1>2, <1>3, <1>6, <1>8, <2>4, <2>5 DEF Answered
  <2> QED
    BY <1>6, <2>6 DEF Stands
<1> QED
  BY <1>4, <1>7, <1>8

LEMMA StepReceivePrefix ==
    ASSUME Types, Late, Stands, link.up, ReceivePrefix, ~link'.waited
    PROVE  Stands'
<1>1. PICK b \in Received :
          client' = IF b.is = "$" THEN [Got EXCEPT !.pc = "body"]
                    ELSE Returns(Got, FALSE)
  BY DEF ReceivePrefix
<1>2. client.pc = "prefix" /\ server' = server /\ Len(client.buffer) = 0
  BY EmptySequences DEF ReceivePrefix, Types, CountedDown
<1>3. /\ link'.sent = link.sent
      /\ Len(link.in) > 0 /\ b = Coming[1]
      /\ Coming' \in Seq(Bytes) /\ Len(Coming') = Len(Coming) - 1
      /\ \A j \in 1..Len(Coming') : Coming'[j] = Coming[j + 1]
  BY <1>1, ReceivedInCalm DEF ReceivePrefix
<1>4. Answered
  BY <1>2, <1>3 DEF Stands, OnItsWay, Taken
<1>5. Len(Coming) = 5 /\ Ending(Coming, client.n) /\ Coming \in Seq(Bytes)
  BY <1>2, <1>4, ComingParts DEF Answered
<1>6. b.is = "$"
  <2>1. 1 \in 1..Len(Coming) /\ 1 + 4 = Len(Coming)
    BY <1>5
  <2> QED
    BY <1>3, <1>5, <2>1 DEF Ending
<1>7. /\ client'.pc = "body" /\ client'.ack = client.ack /\ client'.n = client.n
      /\ client'.kind = client.kind /\ client'.buffer = client.buffer
  BY <1>1, <1>6, GotTypes DEF Clients
<1>8. Ending(Coming', client.n)
  BY <1>3, <1>5, EndingBehind
<1>10. Len(Coming') = 4 /\ Len(client'.buffer) = 0
  <2> DEFINE C == Coming
             D == Coming'
  <2>1. Len(D) = Len(C) - 1 /\ Len(C) = 5
    BY <1>3, <1>5
  <2> HIDE DEF C, D
  <2>2. Len(D) = 4
    BY <2>1
  <2> QED
    BY <1>2, <1>7, <2>2 DEF D
<1>9. Answered'
  <2> DEFINE D == Coming'
             B == client'.buffer
  <2>1. Len(D) = 4 /\ Len(B) = 0 /\ Ending(D, client'.n)
    BY <1>7, <1>8, <1>10
  <2> HIDE DEF D, B
  <2>2. Len(D) = 4 /\ Len(B) = 0
    BY <2>1
  <2>3. ~(Len(B) > 0)
    BY <2>1
  <2>4. /\ Len(link'.sent) = 0 /\ server'.busy = NoCommand
        /\ server'.ack = (client'.ack /\ client'.kind # "QStartNoAckMode")
    BY <1>2, <1>3, <1>4, <1>7 DEF Answered
  <2> QED
    BY <1>7, <2>1, <2>2, <2>3, <2>4 DEF Answered, D, B
<1> QED
  BY <1>7, <1>9 DEF Stands

LEMMA StepReceiveBody ==
    ASSUME Types, Late, Stands, link.up, ReceiveBody, ~link'.waited
    PROVE  Stands'
<1>1. PICK b \in Received :
          /\ b \in Bytes
          /\ client'.n = client.n /\ client'.kind = client.kind /\ client'.ack = client.ack
          /\ client'.buffer = Append(client.buffer, b)
          /\ \/ /\ client.left < 3 \/ b.is = "#"
                /\ client'.left = client.left - 1
                /\ client'.pc = IF client.left = 1 THEN "check" ELSE "body"
             \/ client.left = 3 /\ b.is # "#" /\ client'.left = 3 /\ client'.pc = "body"
  BY BodyStep
<1> DEFINE B == client.buffer
           A == Append(B, b)
<1>2. /\ client.pc = "body" /\ server' = server /\ client.left \in 1..3
      /\ B \in Seq(Bytes) /\ Len(B) >= 3 - client.left
  BY Fields DEF ReceiveBody, Types, CountedDown
<1>3. /\ link'.sent = link.sent
      /\ Len(link.in) > 0 /\ Len(Coming) > 0 /\ b = Coming[1]
      /\ Coming' \in Seq(Bytes) /\ Len(Coming') = Len(Coming) - 1
      /\ \A j \in 1..Len(Coming') : Coming'[j] = Coming[j + 1]
  BY <1>1, ReceivedInCalm DEF ReceiveBody
<1>4. Answered
  BY <1>2 DEF Stands, OnItsWay, Taken
<1>5. /\ Ending(Coming, client.n) /\ Coming \in Seq(Bytes) /\ Len(Coming) \in Nat
      /\ \/ Len(Coming) = 4 /\ Len(B) = 0
         \/ Len(Coming) = client.left /\ Len(B) = 4 - client.left
      /\ Len(B) > 0 => B[1].to = client.n
  BY <1>2, <1>4, ComingParts DEF Answered
<1>6. Ending(Coming', client.n)
  BY <1>3, <1>5, EndingBehind
<1>7. /\ b.to = client.n
      /\ Len(Coming) = 4 => b.is \in Contents
      /\ Len(Coming) = 3 => b.is = "#"
  <2>1. /\ 1 \in 1..Len(Coming)
        /\ Len(Coming) = 4 => 1 + 3 = Len(Coming)
        /\ Len(Coming) = 3 => 1 + 2 = Len(Coming)
    BY <1>3, <1>5
  <2> QED
    BY <1>3, <1>5, <2>1 DEF Ending
<1>8. /\ Len(B) \in Nat /\ Len(A) = Len(B) + 1
      /\ \A j \in 1..Len(B) : A[j] = B[j]
      /\ A[Len(B) + 1] = b
  BY <1>1, <1>2, Appended
<1>9. /\ client'.buffer = A
      /\ \/ /\ client.left < 3 \/ b.is = "#"
            /\ client'.left = client.left - 1
            /\ client'.pc = IF client.left = 1 THEN "check" ELSE "body"
         \/ client.left = 3 /\ b.is # "#" /\ client'.left = 3 /\ client'.pc = "body"
  BY <1>1
<1> HIDE DEF A, B
<1>10. Len(A) > 0 /\ A[1].to = client.n
  <2>1. Len(B) = 0 => A[1] = b
    BY <1>8
  <2>2. Len(B) > 0 => A[1] = B[1]
    BY <1>8
  <2> QED
    BY <1>5, <1>7, <1>8, <2>1, <2>2
<1>11. /\ client'.buffer = A /\ client'.pc \in {"body", "check"}
       /\ client'.pc = "body" => Len(Coming') = client'.left /\ Len(A) = 4 - client'.left
       /\ client'.pc = "check" => Len(Coming') = 0 /\ Len(A) = 4
  <2>1. CASE Len(B) = 0
    <3>1. client.left = 3 /\ Len(Coming) = 4
      BY <1>2, <1>5, <2>1
    <3>2. b.is # "#"
      BY <1>7, <3>1, Tags
    <3>3. client'.buffer = A /\ client'.left = 3 /\ client'.pc = "body"
      BY <1>9, <3>1, <3>2
    <3> QED
      BY <1>3, <1>8, <2>1, <3>1, <3>3
  <2>2. CASE Len(B) # 0
    <3>1. Len(Coming) = client.left /\ Len(B) = 4 - client.left
      BY <1>5, <2>2
    <3>2. client.left < 3 \/ b.is = "#"
      BY <1>2, <1>7, <3>1
    <3>3. /\ client'.buffer = A /\ client'.left = client.left - 1
          /\ client'.pc = IF client.left = 1 THEN "check" ELSE "body"
      BY <1>2, <1>9, <3>2
    <3> QED
      BY <1>2, <1>3, <1>8, <3>1, <3>3
  <2> QED
    BY <2>1, <2>2
<1>12. Len(A) # 0
  BY <1>8
<1>13. Answered'
  BY <1>1, <1>2, <1>3, <1>4, <1>6, <1>10, <1>11, <1>12 DEF Answered
<1> QED
  BY <1>11, <1>13 DEF Stands

LEMMA StepAccept ==
    ASSUME Types, Stands, link.up, Accept
    PROVE  Stands'
<1> DEFINE B == client.buffer
           P == Payload(B)
           m == Confirm("+")
           S == link.sent
<1>1. /\ client.pc = "check" /\ server' = server
      /\ client'.pc = "idle" /\ client'.n = client.n /\ client'.response = P
      /\ client'.ack = (client.ack /\ client.kind # "QStartNoAckMode")
      /\ link'.in = link.in
      /\ link'.sent = IF client.ack THEN Append(S, m) ELSE S
  BY ReturnsTypes DEF Accept, Confirms, Sends, Types, Links, Clients
<1>2. Answered
  BY <1>1 DEF Stands, OnItsWay, Taken
<1>3. /\ Len(S) = 0 /\ server.busy = NoCommand /\ Len(Coming) = 0 /\ Len(B) = 4
      /\ server.ack = (client.ack /\ client.kind # "QStartNoAckMode")
      /\ Len(B) > 0 => B[1].to = client.n
  BY <1>1, <1>2 DEF Answered
<1>4. Len(link.in) = 0 /\ Len(server.rest) = 0
  <2>1. \A x, y \in Nat : x + y = 0 => x = 0 /\ y = 0
    OBVIOUS
  <2>2. Len(link.in) \in Nat /\ Len(server.rest) \in Nat /\ Len(link.in) + Len(server.rest) = 0
    BY <1>3, ComingParts, Zenon
  <2> QED
    BY <2>1, <2>2
<1>5. Len(B) = 4 /\ B \in Seq(Bytes)
  BY <1>3, Fields
<1>6. m \in Messages /\ m.kind = "+" /\ S \in Seq(Messages)
  BY Fields, BoundsAssumption DEF Confirm, Messages
<1> HIDE DEF m, S, B
<1>7. Len(P) = 1 /\ P[1].to = client.n
  <2>1. Len(B) >= 3 /\ Len(B) > 0 /\ Len(B) - 3 = 1 /\ 1 \in 1..(Len(B) - 3)
    BY <1>5
  <2>2. Len(P) = Len(B) - 3 /\ P[1] = B[1]
    BY <1>5, <2>1, PayloadTypes
  <2> HIDE DEF P
  <2> QED
    BY <1>3, <2>1, <2>2
<1> HIDE DEF P
<1> DEFINE T == Append(S, m)
<1>8. Len(T) = Len(S) + 1 /\ T[Len(S) + 1] = m
  BY <1>6, Appended
<1> HIDE DEF T
<1>9. Pluses(S, Len(S)) /\ Pluses(T, Len(T))
  <2>1. Len(T) = 1 /\ T[1] = m
    BY <1>3, <1>8
  <2>2. \A j \in 1..1 : j = 1
    OBVIOUS
  <2>3. \A j \in 1..0 : FALSE
    OBVIOUS
  <2> QED
    BY <1>3, <1>6, <2>1, <2>2, <2>3 DEF Pluses
<1>10. Pluses(link'.sent, Len(link'.sent))
  BY <1>1, <1>9 DEF T
<1>11. Silent'
  BY <1>1, <1>3, <1>4, <1>7, <1>10 DEF Silent, Pluses
<1> QED
  BY <1>1, <1>11 DEF Stands

\* What debugserver takes next is an acknowledgement, or the command of the call.
LEMMA TakenNext ==
    ASSUME Types, Stands, link.sent # <<>>
    PROVE  \/ /\ Head(link.sent).kind = "+"
              /\ Silent /\ client.pc = "idle" => Pluses(Tail(link.sent), Len(Tail(link.sent)))
              /\ client.pc # "idle" =>
                    /\ OnItsWay /\ Len(Tail(link.sent)) > 0
                    /\ Tail(link.sent)[Len(Tail(link.sent))] = Asked
                    /\ Pluses(Tail(link.sent), Len(Tail(link.sent)) - 1)
           \/ /\ client.pc # "idle" /\ OnItsWay
              /\ Head(link.sent) = Asked /\ Len(Tail(link.sent)) = 0
<1> DEFINE S == link.sent
           T == Tail(link.sent)
<1>1. /\ Head(link.sent) = S[1] /\ Len(S) \in Nat /\ Len(S) > 0
      /\ Len(T) = Len(S) - 1
      /\ \A j \in 1..Len(T) : T[j] = S[j + 1]
  BY Taking
<1>2. CASE client.pc = "idle"
  <2>1. Pluses(S, Len(S))
    BY <1>2 DEF Stands, Silent
  <2> HIDE DEF S, T
  <2>2. S[1].kind = "+" /\ Pluses(T, Len(T))
    <3>1. 1 \in 1..Len(S) /\ \A j \in 1..Len(T) : j + 1 \in 1..Len(S)
      BY <1>1
    <3> QED
      BY <1>1, <2>1, <3>1 DEF Pluses
  <2> QED
    BY <1>1, <1>2, <2>2 DEF S, T
<1>3. CASE client.pc # "idle"
  <2>1. OnItsWay
    BY <1>1, <1>3 DEF Stands, Taken, Answered, S
  <2>2. S[Len(S)] = Asked /\ Pluses(S, Len(S) - 1)
    BY <2>1 DEF OnItsWay
  <2> HIDE DEF S, T
  <2>3. CASE Len(S) = 1
    <3>1. Head(link.sent) = Asked /\ Len(T) = 0
      BY <1>1, <2>2, <2>3
    <3> QED
      BY <1>3, <2>1, <3>1 DEF T
  <2>4. CASE Len(S) > 1
    <3>1. /\ 1 \in 1..(Len(S) - 1) /\ Len(T) > 0 /\ Len(T) \in 1..Len(T)
          /\ Len(T) + 1 = Len(S)
          /\ \A j \in 1..(Len(T) - 1) : j \in 1..Len(T) /\ j + 1 \in 1..(Len(S) - 1)
      BY <1>1, <2>4
    <3>2. S[1].kind = "+" /\ Pluses(T, Len(T) - 1)
      BY <1>1, <2>2, <3>1 DEF Pluses
    <3>3. T[Len(T)] = Asked
      BY <1>1, <2>2, <3>1
    <3> QED
      BY <1>1, <1>3, <2>1, <3>1, <3>2, <3>3 DEF T
  <2> QED
    BY <1>1, <2>3, <2>4
<1> QED
  BY <1>2, <1>3

LEMMA StepTakeCommand ==
    ASSUME Types, Stands, link.up, TakeCommand
    PROVE  Stands'
<1> DEFINE c == Byte("+", 0, Head(link.sent).n, 0)
<1>1. /\ client' = client /\ server'.busy = Head(link.sent) /\ server'.ack = server.ack
      /\ server'.rest = server.rest /\ link'.sent = Tail(link.sent)
      /\ link'.in = IF server.ack THEN Append(link.in, c) ELSE link.in
      /\ Head(link.sent).kind \in Kinds /\ link.sent # <<>>
  BY DEF TakeCommand, Ready, Types, Links, Servers
<1>2. /\ client.pc # "idle" /\ OnItsWay
      /\ Head(link.sent) = Asked /\ Len(Tail(link.sent)) = 0
  <2>1. Head(link.sent).kind # "+"
    BY <1>1 DEF Kinds
  <2> QED
    BY <1>1, <2>1, TakenNext
<1>3. c \in Bytes /\ c.is = "+"
  <2>1. Head(link.sent) \in Messages
    BY <1>1, Taking
  <2> QED
    BY <2>1, BoundsAssumption DEF Messages, Byte, Bytes
<1> HIDE DEF c
<1> DEFINE S == link.in
           T == Append(S, c)
<1>4. S \in Seq(Bytes) /\ Len(S) = 0
  BY <1>2, Fields DEF OnItsWay
<1> HIDE DEF S
<1>5. Len(T) = Len(S) + 1 /\ T[Len(S) + 1] = c
  BY <1>3, <1>4, Appended
<1> HIDE DEF T
<1>6. Len(T) = 1 /\ T[1].is = "+"
  BY <1>3, <1>4, <1>5
<1>7. link'.in = IF server.ack THEN T ELSE S
  BY <1>1 DEF T, S
<1>8. /\ client.pc \in {"ack", "prefix"} /\ (client.pc = "ack" <=> client.ack)
      /\ client.ack = server.ack /\ Len(server.rest) = 0
  BY <1>2 DEF OnItsWay
<1>9. /\ client.pc = "ack" => Len(link'.in) = 1 /\ link'.in[1].is = "+"
      /\ client.pc = "prefix" => Len(link'.in) = 0
  BY <1>4, <1>6, <1>7, <1>8
<1>10. Taken'
  BY <1>1, <1>2, <1>8, <1>9 DEF Taken, Asked
<1> QED
  BY <1>1, <1>2, <1>10 DEF Stands

LEMMA StepTakeConfirm ==
    ASSUME Types, Stands, link.up, TakeConfirm
    PROVE  Stands'
<1>1. /\ client' = client /\ link.sent # <<>> /\ link'.sent = Tail(link.sent)
      /\ Head(link.sent).kind \in {"+", "-"}
  BY DEF TakeConfirm, Ready, Types, Links
<1>2. Asked.kind \notin {"+", "-"}
  BY Fields DEF Asked, Kinds
<1>3. /\ Head(link.sent).kind = "+"
      /\ Silent /\ client.pc = "idle" => Pluses(Tail(link.sent), Len(Tail(link.sent)))
      /\ client.pc # "idle" =>
            /\ OnItsWay /\ Len(Tail(link.sent)) > 0
            /\ Tail(link.sent)[Len(Tail(link.sent))] = Asked
            /\ Pluses(Tail(link.sent), Len(Tail(link.sent)) - 1)
  BY <1>1, <1>2, TakenNext
<1>4. link'.in = link.in /\ server' = server
  BY <1>3 DEF TakeConfirm, Types, Links, Servers
<1>5. CASE client.pc = "idle"
  <2>1. Silent
    BY <1>5 DEF Stands
  <2>2. Pluses(link'.sent, Len(link'.sent))
    BY <1>1, <1>3, <1>5, <2>1
  <2>3. Silent'
    BY <1>1, <1>4, <2>1, <2>2 DEF Silent, Pluses
  <2> QED
    BY <1>1, <1>5, <2>3 DEF Stands
<1>6. CASE client.pc # "idle"
  <2>1. /\ OnItsWay /\ Len(link'.sent) > 0
        /\ link'.sent[Len(link'.sent)] = Asked /\ Pluses(link'.sent, Len(link'.sent) - 1)
    BY <1>1, <1>3, <1>6
  <2>2. OnItsWay'
    BY <1>1, <1>4, <2>1 DEF OnItsWay, Pluses, Asked
  <2> QED
    BY <1>1, <1>6, <2>2 DEF Stands
<1> QED
  BY <1>5, <1>6

LEMMA StepBeginAnswer ==
    ASSUME Types, Stands, link.up, BeginAnswer, ~server'.declined
    PROVE  Stands'
<1>1. PICK p \in Packets :
          /\ p.to = server.busy.n
          /\ link' = [link EXCEPT !.in = @ \o Piece1(p)]
          /\ server' \in Servers /\ server'.busy = NoCommand
          /\ server'.rest = Piece2(p)
          /\ server'.ack = (server.ack /\ ~( /\ server.busy.kind = "QStartNoAckMode"
                                             /\ p.contents = "OK"))
          /\ server'.declined = (server.declined \/
                /\ server.busy.kind = "QStartNoAckMode" /\ p.contents # "OK")
  BY AnswerStep
<1>2. /\ server.busy # NoCommand /\ client' = client
      /\ link'.sent = link.sent /\ link'.in = link.in \o Piece1(p)
  BY <1>1 DEF BeginAnswer, Types, Links
<1>3. client.pc # "idle" /\ Taken
  BY <1>2 DEF Stands, Silent, OnItsWay, Answered
<1>4. /\ server.busy.n = client.n /\ server.busy.kind = client.kind
      /\ client.ack = server.ack /\ client.pc \in {"ack", "prefix"}
      /\ Len(link.sent) = 0 /\ Len(server.rest) = 0
      /\ client.pc = "ack" => Len(link.in) = 1 /\ link.in[1].is = "+"
      /\ client.pc = "prefix" => Len(link.in) = 0
  BY <1>3 DEF Taken, Asked
<1>5. server'.ack = (client.ack /\ client.kind # "QStartNoAckMode")
  BY <1>1, <1>4
<1>6. server.rest = <<>>
  BY <1>4, ComingParts
<1>7. /\ Coming = link.in /\ Coming' \in Seq(Bytes) /\ Len(Coming') = Len(Coming) + 5
      /\ \A j \in 1..Len(Coming) : Coming'[j] = Coming[j]
      /\ \A j \in 1..5 : Coming'[Len(Coming) + j] = Whole(p)[j]
  BY <1>1, <1>2, <1>6, NewPacket
<1> DEFINE C == Coming'
<1>8. CASE client.pc = "ack"
  <2>1. /\ Len(C) = 6 /\ C[1].is = "+" /\ C \in Seq(Bytes)
        /\ \A j \in 1..5 : C[1 + j] = Whole(p)[j]
    <3>1. Len(Coming) = 1 /\ Coming[1].is = "+" /\ 1 \in 1..1
      BY <1>4, <1>7, <1>8
    <3> QED
      BY <1>7, <3>1
  <2> HIDE DEF C
  <2>2. C # <<>>
    <3>1. Len(C) # 0
      BY <2>1
    <3> QED
      BY <3>1, NotEmpty
  <2> DEFINE T == Tail(C)
  <2>3. Len(T) = Len(C) - 1 /\ \A j \in 1..Len(T) : T[j] = C[j + 1]
    BY <2>1, <2>2, Behead
  <2> HIDE DEF T
  <2>4. Len(T) = 5 /\ \A j \in 1..5 : T[j] = Whole(p)[j]
    <3>1. Len(T) = 5 /\ \A j \in 1..5 : T[j] = C[j + 1]
      BY <2>1, <2>3
    <3>2. \A j \in 1..5 : j + 1 = 1 + j
      OBVIOUS
    <3> QED
      BY <2>1, <3>1, <3>2
  <2>5. Ending(T, p.to)
    BY <2>4, EndingWhole
  <2>6. Ending(Tail(Coming'), client.n) /\ Len(Coming') = 6 /\ Coming'[1].is = "+"
    BY <1>1, <1>4, <2>1, <2>5 DEF T, C
  <2>7. Answered'
    BY <1>1, <1>2, <1>4, <1>5, <1>8, <2>6 DEF Answered
  <2> QED
    BY <1>2, <1>3, <2>7 DEF Stands
<1>9. CASE client.pc = "prefix"
  <2>1. Len(C) = 5 /\ \A j \in 1..5 : C[j] = Whole(p)[j]
    <3>1. Len(Coming) = 0 /\ \A j \in 1..5 : 0 + j = j
      BY <1>4, <1>7, <1>9
    <3> QED
      BY <1>7, <3>1
  <2> HIDE DEF C
  <2>2. Ending(C, p.to)
    BY <2>1, EndingWhole
  <2>3. Ending(Coming', client.n) /\ Len(Coming') = 5
    BY <1>1, <1>4, <2>1, <2>2 DEF C
  <2>4. Answered'
    BY <1>1, <1>2, <1>4, <1>5, <1>9, <2>3 DEF Answered
  <2> QED
    BY <1>2, <1>3, <2>4 DEF Stands
<1> QED
  BY <1>4, <1>8, <1>9

LEMMA StepEndAnswer ==
    ASSUME Types, Stands, EndAnswer
    PROVE  Stands'
<1>1. /\ client' = client /\ server'.ack = server.ack /\ server'.busy = server.busy
      /\ link'.sent = link.sent /\ link'.in = link.in \o server.rest
      /\ server'.rest = <<>> /\ server.rest # <<>>
  BY DEF EndAnswer, Types, Links, Servers
<1>2. link.in \o server.rest \in Seq(Bytes) /\ Len(server.rest) # 0
  BY <1>1, ComingParts DEF Coming
<1>3. Coming' = Coming
  BY <1>1, <1>2, ConcatEmptySeq DEF Coming
<1>4. client.pc # "idle" /\ Answered
  BY <1>2 DEF Stands, Silent, OnItsWay, Taken
<1>5. Answered'
  BY <1>1, <1>3, <1>4 DEF Answered, Ending
<1> QED
  BY <1>1, <1>4, <1>5 DEF Stands

LEMMA StepNext ==
    ASSUME Types, Late, StepInv, [Next]_vars
    PROVE  StepInv'
<1>1. CASE UNCHANGED vars \/ Rest
  <2>1. UNCHANGED <<ssl, link, client, server>>
    BY <1>1 DEF vars, Rest
  <2> QED
    BY <2>1 DEF StepInv, Calm, Silent, OnItsWay, Taken, Answered, Coming, Asked, Ending,
        Pluses
<1>2. CASE Next
  <2> SUFFICES ASSUME link'.up, Calm'
               PROVE  Stands'
    BY DEF StepInv, Stands
  <2>1. link.up /\ Calm
    BY <1>2, CalmBefore
  <2>2. Stands
    BY <2>1 DEF StepInv, Stands
  <2>3. ~link'.waited /\ ~client'.refused /\ ~server'.declined
    BY DEF Calm
  <2>4. CASE \E kind \in Kinds : Send(kind) \/ SendFails(kind)
    BY <2>1, <2>2, <2>4, StepSend DEF SendFails
  <2>5. CASE ReceiveAck
    BY <2>1, <2>2, <2>3, <2>5, StepReceiveAck
  <2>6. CASE ReceivePrefix
    BY <2>1, <2>2, <2>3, <2>6, StepReceivePrefix
  <2>7. CASE ReceiveBody
    BY <2>1, <2>2, <2>3, <2>7, StepReceiveBody
  <2>8. CASE Accept
    BY <2>1, <2>2, <2>8, StepAccept
  <2>9. CASE Refuse
    BY <2>3, <2>9, ReturnsTypes DEF Refuse, Clients
  <2>10. CASE TakeCommand
    BY <2>1, <2>2, <2>10, StepTakeCommand
  <2>11. CASE TakeConfirm
    BY <2>1, <2>2, <2>11, StepTakeConfirm
  <2>12. CASE BeginAnswer
    BY <2>1, <2>2, <2>3, <2>12, StepBeginAnswer
  <2>13. CASE EndAnswer
    BY <2>2, <2>13, StepEndAnswer
  <2>14. CASE HangUp
    BY <2>14 DEF HangUp, Types, Links
  <2>15. CASE ReceiveLate
    BY <2>3, <2>15, TypesReceiveElsewhere
  <2>16. CASE ReceiveOutside
    BY <2>3, <2>16, TypesReceiveElsewhere DEF ReceiveOutside, Late
  <2> QED
    BY <1>1, <1>2, <2>2, <2>4, <2>5, <2>6, <2>7, <2>8, <2>9, <2>10, <2>11, <2>12, <2>13,
       <2>14, <2>15, <2>16 DEF Next, ClientStep, Rest, vars, StepInv, Stands
<1> QED
  BY <1>1, <1>2

\* In calm, commands and answers stay in step: what a call returns is debugserver's
\* answer to its command, and between calls both ends agree on acknowledgements and
\* nothing is on its way back.
THEOREM CallsAreInStep == Spec => []CallsStayInStep
<1>1. Init => Late /\ StepInv
  BY StepInit DEF Init, Late
<1>2. Types /\ Late /\ StepInv /\ [Next]_vars => Late' /\ StepInv'
  BY LateNext, StepNext
<1>3. Types /\ StepInv => CallsStayInStep
  <2> SUFFICES ASSUME Types, StepInv, client.pc = "idle", link.up, Calm
               PROVE  /\ client.n > 0 =>
                            /\ client.response # <<>>
                            /\ \A i \in 1..Len(client.response) :
                                  client.response[i].to = client.n
                      /\ client.ack = server.ack /\ link.in = <<>> /\ server.rest = <<>>
                      /\ server.busy = NoCommand
    BY DEF CallsStayInStep, OwnAnswerReturns, AckModesAgree
  <2>1. Silent
    BY DEF StepInv
  <2>2. link.in = <<>> /\ server.rest = <<>>
    BY <2>1, ComingParts DEF Silent
  <2>3. ASSUME client.n > 0
        PROVE  /\ client.response # <<>>
               /\ \A i \in 1..Len(client.response) : client.response[i].to = client.n
    <3>1. Len(client.response) = 1 /\ client.response[1].to = client.n
      BY <2>1, <2>3 DEF Silent
    <3>2. client.response # <<>>
      BY <3>1, EmptySequences
    <3> QED
      BY <3>1, <3>2
  <2> QED
    BY <2>1, <2>2, <2>3 DEF Silent
<1> QED
  BY <1>1, <1>2, <1>3, TypesHold, PTL DEF Spec
=============================================================================
