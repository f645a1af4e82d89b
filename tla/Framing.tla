-------------------------------- MODULE Framing --------------------------------
(***************************************************************************)
(* SDMMD_Service.m: messages as frames on a byte stream, a header with the *)
(* length and a body, over a socket or OpenSSL, to a device on USB or      *)
(* Wi-Fi.                                                                  *)
(*                                                                         *)
(* One thread uses the connection; it sends and receives as it likes, also *)
(* after a failure, as the callers do.  The peer, which frames alike, is   *)
(* the environment: it writes its frames in pieces, takes those that       *)
(* arrive, and may hang up in the middle of one.                           *)
(***************************************************************************)
EXTENDS Naturals, Sequences, FiniteSets

CONSTANTS
    HeaderSize,   \* sizeof(uint32_t)
    Lengths,      \* lengths of messages, in bytes
    Strays,       \* what bytes that are no header may say as one
    Rooms,        \* bytes that may be on their way to a peer before it takes them
    MaxFrames     \* bound: frames in each direction

ASSUME SizesAssumption ==
    HeaderSize \in Nat \ {0} /\ Lengths \subseteq Nat \ {0} /\ Strays \subseteq Nat
ASSUME RoomsAssumption ==
    Rooms \subseteq Nat /\ \A room \in Rooms, n \in Lengths : HeaderSize + n <= room
ASSUME BoundsAssumption == MaxFrames \in Nat

VARIABLES
    socket,   \* whether the connection goes through OpenSSL, and over Wi-Fi,
              \* where writes time out, and the room for what is written
    up,       \* the peer is there
    out,      \* to the peer: the bytes on their way, the frames begun, and
              \* (history) those whose send succeeded, those the peer took, and
              \* whether a send stopped inside a frame
    in,       \* from the peer: the bytes on their way, the frame being written,
              \* how much of it is, and (history) whether a receive gave up
              \* inside one
    call,     \* where the thread is, what it has read of what it wants, or the
              \* length of the message it sends
    last,     \* what the last receive returned, and the message (0: none)
    got       \* (history) the messages received

vars == <<socket, up, out, in, call, last, got>>

-----------------------------------------------------------------------------
(* Frames.                                                                 *)

\* A byte of a frame: the number of the frame, where in it, and how long the
\* message is
Byte(m, i, n) == [of |-> m, i |-> i, n |-> n]
Header(m, n) == [i \in 1..HeaderSize |-> Byte(m, i, n)]
Message(m, n) == [i \in 1..n |-> Byte(m, HeaderSize + i, n)]
Frame(m, n) == Header(m, n) \o Message(m, n)

\* ntohl of a header's bytes; bytes that are none say anything
LengthsIn(bytes) ==
    IF bytes = Header(bytes[1].of, bytes[1].n) THEN {bytes[1].n} ELSE Strays

\* Mutant of Parsed: takes what there is for the message
ParsedPart(bytes) == IF bytes = <<>> THEN 0 ELSE bytes[1].of

\* The message a property list is made from; 0 if the bytes are none
Parsed(bytes) ==
    IF bytes # <<>> /\ bytes = Message(bytes[1].of, bytes[1].n) THEN bytes[1].of ELSE 0

First(s, k) == SubSeq(s, 1, k)
From(s, k) == SubSeq(s, k, Len(s))
Smaller(a, b) == IF a < b THEN a ELSE b

-----------------------------------------------------------------------------
NoCall == [at |-> "idle", bytes |-> <<>>, wants |-> 0, api |-> "none"]
Idle == call.at = "idle"
Receiving == call.at \in {"header", "body"}

Init ==
    /\ socket \in [ssl : BOOLEAN, wifi : BOOLEAN, room : Rooms]
    /\ up = TRUE
    /\ out = [bytes |-> <<>>, begun |-> 0, sent |-> <<>>, taken |-> <<>>, cut |-> FALSE]
    /\ in = [bytes |-> <<>>, frame |-> 0, rest |-> <<>>, broken |-> FALSE]
    /\ call = NoCall
    /\ last = [result |-> "none", message |-> 0]
    /\ got = <<>>

(* Sending: SDMMD_ServiceSend writes the header, then the message.         *)

Fits(k) == Len(out.bytes) + k <= socket.room

\* How much of the bytes is written before send(2) or SSL_write fails: the peer
\* is gone, or, over Wi-Fi, has made no room for long enough
Stops(bytes) ==
    {k \in 0..(Len(bytes) - 1) :
        \/ ~up /\ k = 0
        \/ up /\ socket.wifi /\ Fits(k) /\ ~Fits(Len(bytes))}

\* The write is done.  It may succeed also when nobody is there.
Writes(bytes) == up => Fits(Len(bytes))
Written(bytes) == IF up THEN out.bytes \o bytes ELSE out.bytes

Send ==
    /\ Idle /\ out.begun < MaxFrames
    /\ \E n \in Lengths : call' = [NoCall EXCEPT !.at = "sendHeader", !.wants = n]
    /\ out' = [out EXCEPT !.begun = @ + 1]
    /\ UNCHANGED <<socket, up, in, last, got>>

SentHeader == Header(out.begun, call.wants)
SentMessage == Message(out.begun, call.wants)

SendHeader ==
    /\ call.at = "sendHeader" /\ Writes(SentHeader)
    /\ out' = [out EXCEPT !.bytes = Written(SentHeader)]
    /\ call' = [call EXCEPT !.at = "sendMessage"]
    /\ UNCHANGED <<socket, up, in, last, got>>

\* Mutant of SendHeaderFails: the result of the write is not looked at
SendHeaderUnchecked ==
    /\ call.at = "sendHeader"
    /\ \E k \in Stops(SentHeader) :
          out' = [out EXCEPT !.bytes = Written(First(SentHeader, k)), !.cut = @ \/ k > 0]
    /\ call' = [call EXCEPT !.at = "sendMessage"]
    /\ UNCHANGED <<socket, up, in, last, got>>

SendHeaderFails ==
    /\ call.at = "sendHeader"
    /\ \E k \in Stops(SentHeader) :
          out' = [out EXCEPT !.bytes = Written(First(SentHeader, k)), !.cut = @ \/ k > 0]
    /\ call' = NoCall
    /\ UNCHANGED <<socket, up, in, last, got>>

SendMessage ==
    /\ call.at = "sendMessage" /\ Writes(SentMessage)
    /\ out' = [out EXCEPT !.bytes = Written(SentMessage), !.sent = Append(@, out.begun)]
    /\ call' = NoCall
    /\ UNCHANGED <<socket, up, in, last, got>>

\* The header is on its way: what is sent next is taken for its message
SendMessageFails ==
    /\ call.at = "sendMessage"
    /\ \E k \in Stops(SentMessage) :
          out' = [out EXCEPT !.bytes = Written(First(SentMessage, k)), !.cut = @ \/ up]
    /\ call' = NoCall
    /\ UNCHANGED <<socket, up, in, last, got>>

(* Receiving: SDMMD_ServiceReceive, for SDMMD_ServiceReceiveMessage or     *)
(* SDMMD_ServiceReceiveStream.                                             *)

Returns(result, message) ==
    /\ last' = [result |-> result, message |-> message]
    /\ got' = IF message = 0 THEN got ELSE Append(got, message)
    /\ call' = NoCall

\* Over a socket select(2) waits for the first byte, or the end of the stream,
\* and gives up after ten seconds
Receive ==
    /\ Idle /\ (socket.ssl \/ in.bytes # <<>> \/ ~up)
    /\ \E api \in {"message", "stream"} :
          call' = [at |-> "header", bytes |-> <<>>, wants |-> HeaderSize, api |-> api]
    /\ UNCHANGED <<socket, up, out, in, last, got>>

ReceiveTimesOut ==
    /\ Idle /\ ~socket.ssl /\ in.bytes = <<>> /\ up
    /\ Returns("error", 0)
    /\ UNCHANGED <<socket, up, out, in>>

\* Mutant of Enough: one read has it all
EnoughOnce == call.bytes # <<>> \/ call.wants = 0

\* The loop of SDMMD__ServiceReceiveBytes is done
Enough == Len(call.bytes) = call.wants

\* Each read takes what there is, up to what is wanted
Read ==
    /\ Receiving /\ ~Enough /\ in.bytes # <<>>
    /\ \E k \in 1..Smaller(call.wants - Len(call.bytes), Len(in.bytes)) :
          /\ call' = [call EXCEPT !.bytes = @ \o First(in.bytes, k)]
          /\ in' = [in EXCEPT !.bytes = From(@, k + 1)]
    /\ UNCHANGED <<socket, up, out, last, got>>

\* What is made of the message's bytes, all of them or not
MessageReceived ==
    LET message == Parsed(call.bytes) IN
    Returns(IF message = 0 /\ call.api = "message" THEN "invalidResponse" ELSE "success",
            message)

HeaderRead ==
    /\ call.at = "header" /\ Enough
    /\ \E n \in LengthsIn(call.bytes) :
          call' = [call EXCEPT !.at = "body", !.bytes = <<>>, !.wants = n]
    /\ UNCHANGED <<socket, up, out, in, last, got>>

MessageRead ==
    /\ call.at = "body" /\ Enough
    /\ MessageReceived
    /\ UNCHANGED <<socket, up, out, in>>

\* Mutant of ReadStops: a read of nothing is no reason to end the loop
ReadStopsInTime ==
    /\ Receiving /\ ~Enough /\ in.bytes = <<>>
    /\ IF ~up THEN UNCHANGED vars
       ELSE /\ IF call.at = "body" THEN MessageReceived ELSE Returns("invalidResponse", 0)
            /\ in' = [in EXCEPT !.broken = @ \/ call.at = "body" \/ call.bytes # <<>>]
            /\ UNCHANGED <<socket, up, out>>

\* A read fails after ten seconds, or 25, or finds the end of the stream.  A
\* header cut short is an error, a message is not.
ReadStops ==
    /\ Receiving /\ ~Enough /\ in.bytes = <<>>
    /\ IF call.at = "body" THEN MessageReceived ELSE Returns("invalidResponse", 0)
    /\ in' = [in EXCEPT !.broken = @ \/ (up /\ (call.at = "body" \/ call.bytes # <<>>))]
    /\ UNCHANGED <<socket, up, out>>

-----------------------------------------------------------------------------
(* The peer.                                                               *)

PeerBegins ==
    /\ up /\ in.rest = <<>> /\ in.frame < MaxFrames
    /\ \E n \in Lengths :
          in' = [in EXCEPT !.frame = @ + 1, !.rest = Frame(in.frame + 1, n)]
    /\ UNCHANGED <<socket, up, out, call, last, got>>

PeerWrites ==
    /\ up
    /\ \E k \in 1..Len(in.rest) :
          in' = [in EXCEPT !.bytes = @ \o First(in.rest, k), !.rest = From(@, k + 1)]
    /\ UNCHANGED <<socket, up, out, call, last, got>>

\* It waits for a whole frame, whatever it takes for one
PeerTakes ==
    /\ up /\ Len(out.bytes) >= HeaderSize
    /\ \E n \in LengthsIn(First(out.bytes, HeaderSize)) :
          /\ Len(out.bytes) >= HeaderSize + n
          /\ out' = [out EXCEPT
                !.taken = Append(@, Parsed(SubSeq(out.bytes, HeaderSize + 1, HeaderSize + n))),
                !.bytes = From(@, HeaderSize + n + 1)]
    /\ UNCHANGED <<socket, up, in, call, last, got>>

\* What it has written may still be read
HangUp ==
    /\ up /\ up' = FALSE
    /\ out' = [out EXCEPT !.bytes = <<>>]
    /\ UNCHANGED <<socket, in, call, last, got>>

\* A send or receive goes on
Proceed ==
    \/ SendHeader \/ SendHeaderFails \/ SendMessage \/ SendMessageFails
    \/ Read \/ HeaderRead \/ MessageRead \/ ReadStops

Next ==
    \/ Send \/ Receive \/ ReceiveTimesOut \/ Proceed
    \/ PeerBegins \/ PeerWrites \/ PeerTakes \/ HangUp

Spec == Init /\ [][Next]_vars

\* The thread runs; nothing is asked of the peer
FairSpec == Spec /\ WF_vars(Proceed)

-----------------------------------------------------------------------------
(* Properties                                                              *)

\* The peer takes what was sent, in order and whole, and while it is there
\* nothing that was sent is lost, until a send stops inside a frame.  A send that
\* failed before its first byte is not seen by the peer.
SendsInStep ==
    ~out.cut =>
        /\ Len(out.taken) <= Len(out.sent) /\ out.taken = First(out.sent, Len(out.taken))
        /\ up => Len(out.sent) - Len(out.taken) =
                    Cardinality({j \in 1..Len(out.bytes) :
                                    out.bytes[j].i = HeaderSize + out.bytes[j].n})

\* A write over USB, where writes have no time-out, and no room for it
Blocked ==
    /\ up /\ ~socket.wifi
    /\ \/ call.at = "sendHeader" /\ ~Writes(SentHeader)
       \/ call.at = "sendMessage" /\ ~Writes(SentMessage)

\* Whoever sends or receives returns, whatever the peer does: every socket has a
\* timeout for reading, and the loop that reads ends with the stream.  The one
\* exception is a write over USB to a peer that is there and takes no more: that
\* has no timeout, and blocks for ever.
CallReturns == []<>Idle \/ <>[]Blocked

\* The peer's frames that are written to the last byte, and not received
Pipe ==
    [k \in 1..(in.frame - (IF in.rest = <<>> THEN 0 ELSE 1) - Len(got)) |-> Len(got) + k]

\* Receiving does what the protocols above rely on.
Contract == INSTANCE FrameContract WITH
    Messages <- 1..MaxFrames, pipe <- IF in.broken THEN <<>> ELSE Pipe,
    ended <- ~up, broken <- in.broken
ReceivesAsPromised == Contract!Spec
=============================================================================
