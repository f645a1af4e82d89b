---------------------------- MODULE DebugProtocol ----------------------------
(***************************************************************************)
(* Commands to debugserver over a debug connection, and the packets it     *)
(* answers with, byte by byte: acknowledgements, checksums, and receives   *)
(* that give up.                                                           *)
(*                                                                         *)
(* debugserver is the environment.  It acknowledges each command at once   *)
(* and answers it when it likes, with a packet that may come in two        *)
(* pieces; it sends its last packet again when that is asked for, and may  *)
(* hang up.  Over USB the socket leads to lockdownd, to which a command is *)
(* no request: that is a debugserver that takes nothing, and hangs up.     *)
(* The contents of a packet are one byte, whose sum with others the        *)
(* constant Value tells.                                                   *)
(***************************************************************************)
EXTENDS Naturals, Sequences

CONSTANTS
    Contents,     \* the contents of answers, one of which is "OK"
    Value,        \* Value[p]: what contents p add to a checksum
    Base,         \* digits of a checksum (16)
    MaxBuffer,    \* bound: bytes in the buffer when one more zero is recorded
    MaxCommands   \* bound: commands ever sent

ASSUME ContentsAssumption ==
    /\ "OK" \in Contents /\ Contents \intersect {"+", "-", "$", "#", "nul", "digit"} = {}
    /\ Value \in [Contents -> Nat]
ASSUME BoundsAssumption ==
    Base \in Nat \ {0} /\ MaxBuffer \in Nat /\ MaxCommands \in Nat

VARIABLES
    ssl,       \* the connection goes through OpenSSL
    link,      \* whether the connection is up, what the client sent, the bytes on
               \* their way back, and (history) whether a receive waited in vain and
               \* whether bytes were stored elsewhere than in its buffer
    client,    \* the debug connection, and the call of SDMMD_DebuggingSend
    server     \* debugserver

vars == <<ssl, link, client, server>>

-----------------------------------------------------------------------------
(* Packets.                                                                *)

Digit == 0..(Base - 1)
Kinds == {"command", "QStartNoAckMode"}

\* A byte: what it is, its value as a digit or in a checksum, and (for the
\* properties) the command it answers and the packet it is part of
Byte(is, value, to, packet) == [is |-> is, value |-> value, to |-> to, packet |-> packet]

\* What a receive has in its buffer when nothing came
Nothing == Byte("nul", 0, 0, 0)

\* GenerateChecksumForData
Checksum(bytes) ==
    LET sum[i \in 0..Len(bytes)] ==
            IF i = 0 THEN 0
            ELSE sum[i - 1] + bytes[i].value
    IN sum[Len(bytes)]
First(sum) == (sum \div Base) % Base
Second(sum) == sum % Base

\* kHexDecode: what a byte is as a digit.  One that is none stays what it is,
\* and that is no digit; contents may have bytes of both sorts.
Read(b) ==
    CASE b.is \in {"digit", "nul"} -> {b.value}
      [] b.is \in Contents -> Digit \union {Base}
      [] OTHER -> {Base}

\* SDMMD_ValidateChecksumForBuffer: the first digit is compared, the second has
\* to be another than zero on both sides.  The buffer ends in # and two digits.
Payload(buffer) == SubSeq(buffer, 1, Len(buffer) - 3)
Valid(buffer) ==
    LET sum == Checksum(Payload(buffer))
        Last(k) == Read(buffer[Len(buffer) - k])
    IN {d = First(sum) /\ e # 0 /\ Second(sum) # 0 : d \in Last(1), e \in Last(0)}

\* A packet of debugserver, in its two pieces
Piece1(p) ==
    <<Byte("$", 0, p.to, p.packet), Byte(p.contents, Value[p.contents], p.to, p.packet)>>
Piece2(p) ==
    <<Byte("#", 0, p.to, p.packet), Byte("digit", p.digits[1], p.to, p.packet),
      Byte("digit", p.digits[2], p.to, p.packet)>>

NoPacket == [contents |-> "OK", digits |-> <<0, 0>>, to |-> 0, packet |-> 0]
NoCommand == [kind |-> "command", n |-> 0]

-----------------------------------------------------------------------------
Init ==
    /\ ssl \in BOOLEAN
    /\ link = [up |-> TRUE, sent |-> <<>>, in |-> <<>>, waited |-> FALSE, lost |-> FALSE]
    /\ client = [pc |-> "idle", ack |-> TRUE, n |-> 0, kind |-> "command",
                 buffer |-> <<>>, left |-> 3, response |-> <<>>, outside |-> FALSE,
                 failed |-> FALSE, refused |-> FALSE]
    /\ server = [ack |-> TRUE, busy |-> NoCommand, rest |-> <<>>, last |-> NoPacket,
                 packets |-> 0, declined |-> FALSE]

(* The client.                                                             *)

Sends(what) == IF link.up THEN Append(link.sent, what) ELSE link.sent

\* Mutant of Send: no acknowledgement is waited for
SendUnacknowledged(kind) ==
    /\ client.pc = "idle" /\ client.n < MaxCommands
    /\ client' = [client EXCEPT !.pc = "prefix", !.n = @ + 1, !.kind = kind,
                                !.buffer = <<>>, !.left = 3, !.response = <<>>,
                                !.failed = FALSE]
    /\ link' = [link EXCEPT !.sent = Sends([kind |-> kind, n |-> client.n + 1])]
    /\ UNCHANGED <<ssl, server>>

\* SDMMD_DebuggingSend up to SDMMD_DebuggingReceive
Send(kind) ==
    /\ client.pc = "idle" /\ client.n < MaxCommands
    /\ client' = [client EXCEPT !.pc = IF client.ack THEN "ack" ELSE "prefix",
                                !.n = @ + 1, !.kind = kind, !.buffer = <<>>,
                                !.left = 3, !.response = <<>>, !.failed = FALSE]
    /\ link' = [link EXCEPT !.sent = Sends([kind |-> kind, n |-> client.n + 1])]
    /\ UNCHANGED <<ssl, server>>

SendFails(kind) ==
    /\ client.pc = "idle" /\ client.n < MaxCommands /\ ~link.up
    /\ client' = [client EXCEPT !.n = @ + 1, !.kind = kind, !.response = <<>>,
                                !.failed = TRUE]
    /\ UNCHANGED <<ssl, link, server>>

\* SDMMD_DebuggingReceiveInternalCheck: a byte; or zero at the end of the
\* stream, over a plain socket also when none came for a second, and over
\* OpenSSL when those that came late were stored outside the buffer
Received ==
    IF link.in # <<>> /\ ~client.outside THEN {Head(link.in)}
    ELSE {b \in {Nothing} : \/ ~ssl
                            \/ ~link.up /\ link.in = <<>>
                            \/ client.outside /\ link.lost}
Remaining ==
    IF client.outside THEN link
    ELSE [link EXCEPT !.in = IF @ = <<>> THEN @ ELSE Tail(@),
                      !.waited = @ \/ (link.in = <<>> /\ link.up)]

\* The receive is over.
Got == [client EXCEPT !.outside = FALSE]

Receiving == client.pc \in {"ack", "prefix", "body"}

\* SDMMD_DirectServiceReceive over OpenSSL, when nothing came for 25 seconds: the
\* -1 is taken from the unsigned remainder, which grows, and the place for the
\* next bytes is no longer in the buffer
ReceiveLate ==
    /\ Receiving /\ ssl /\ link.up /\ link.in = <<>> /\ ~client.outside
    /\ client' = [client EXCEPT !.outside = TRUE]
    /\ link' = [link EXCEPT !.waited = TRUE]
    /\ UNCHANGED <<ssl, server>>

\* They crash the process, or are lost in its memory
ReceiveOutside ==
    /\ Receiving /\ client.outside /\ link.in # <<>>
    /\ \E pc \in {"crashed", client.pc} : client' = [client EXCEPT !.pc = pc]
    /\ link' = [link EXCEPT !.in = Tail(@), !.lost = TRUE]
    /\ UNCHANGED <<ssl, server>>

\* Mutant of Returns: acknowledgements never end
ReturnsAcknowledging(c, failed) ==
    [c EXCEPT !.pc = "idle", !.failed = failed, !.buffer = <<>>]

\* The call returns; what succeeded as QStartNoAckMode, with or without an
\* answer, ends acknowledgements
Returns(c, failed) ==
    [c EXCEPT !.pc = "idle", !.failed = failed, !.buffer = <<>>,
              !.ack = @ /\ (failed \/ c.kind # "QStartNoAckMode")]

\* The acknowledgement, or the beginning of a packet; else the call succeeds
\* with no response
ReceiveAck ==
    /\ client.pc = "ack"
    /\ \E b \in Received :
          client' = CASE b.is = "+" -> [Got EXCEPT !.pc = "prefix"]
                      [] b.is = "$" -> [Got EXCEPT !.pc = "body"]
                      [] OTHER -> Returns(Got, FALSE)
    /\ link' = Remaining
    /\ UNCHANGED <<ssl, server>>

\* Mutant of ReceivePrefix: a packet is read wherever it is come upon
ReceiveAnyPrefix ==
    /\ client.pc = "prefix"
    /\ \E b \in Received :
          client' = IF b = Nothing THEN Returns(Got, FALSE)
                    ELSE [Got EXCEPT !.pc = "body"]
    /\ link' = Remaining
    /\ UNCHANGED <<ssl, server>>

ReceivePrefix ==
    /\ client.pc = "prefix"
    /\ \E b \in Received :
          client' = IF b.is = "$" THEN [Got EXCEPT !.pc = "body"]
                    ELSE Returns(Got, FALSE)
    /\ link' = Remaining
    /\ UNCHANGED <<ssl, server>>

\* Mutant of ReceiveBody: only a # counts down
ReceiveBodyOfHashes ==
    /\ client.pc = "body"
    /\ \E b \in Received :
          /\ b = Nothing => Len(client.buffer) < MaxBuffer
          /\ client' = [Got EXCEPT
                !.buffer = Append(@, b),
                !.left = IF b.is = "#" THEN @ - 1 ELSE @,
                !.pc = IF client.left = 1 /\ b.is = "#" THEN "check" ELSE "body"]
    /\ link' = Remaining
    /\ UNCHANGED <<ssl, server>>

\* Mutant of ReceiveBody: the checksum is not kept
ReceiveBodyOnly ==
    /\ client.pc = "body"
    /\ \E b \in Received :
          LET counting == client.left < 3 \/ b.is = "#" IN
          /\ b = Nothing => Len(client.buffer) < MaxBuffer
          /\ client' = [Got EXCEPT
                !.buffer = IF counting THEN @ ELSE Append(@, b),
                !.left = IF counting THEN @ - 1 ELSE @,
                !.pc = IF client.left = 1 THEN "check" ELSE "body"]
    /\ link' = Remaining
    /\ UNCHANGED <<ssl, server>>

\* The bytes up to the second digit after a #.  A receive that brought nothing
\* puts a zero among them.
ReceiveBody ==
    /\ client.pc = "body"
    /\ \E b \in Received :
          LET counting == client.left < 3 \/ b.is = "#" IN
          /\ b = Nothing /\ ~counting => Len(client.buffer) < MaxBuffer
          /\ client' = [Got EXCEPT
                !.buffer = Append(@, b),
                !.left = IF counting THEN @ - 1 ELSE @,
                !.pc = IF client.left = 1 THEN "check" ELSE "body"]
    /\ link' = Remaining
    /\ UNCHANGED <<ssl, server>>

\* SDMMD_DebuggingSendAck and Nack, whose results are not looked at
Confirms(c, what) == IF c.ack THEN Sends(what) ELSE link.sent

Confirm(what) == [kind |-> what, n |-> 0]

Accept ==
    /\ client.pc = "check" /\ TRUE \in Valid(client.buffer)
    /\ client' = [Returns(client, FALSE) EXCEPT !.response = Payload(client.buffer)]
    /\ link' = [link EXCEPT !.sent = Confirms(client, Confirm("+"))]
    /\ UNCHANGED <<ssl, server>>

Refuse ==
    /\ client.pc = "check" /\ FALSE \in Valid(client.buffer)
    /\ client' = [Returns(client, TRUE) EXCEPT !.refused = TRUE]
    /\ link' = [link EXCEPT !.sent = Confirms(client, Confirm("-"))]
    /\ UNCHANGED <<ssl, server>>

-----------------------------------------------------------------------------
(* debugserver.                                                            *)

Ready == link.up /\ server.busy = NoCommand /\ server.rest = <<>> /\ link.sent # <<>>

\* A command is taken, and acknowledged
TakeCommand ==
    /\ Ready /\ Head(link.sent).kind \in Kinds
    /\ server' = [server EXCEPT !.busy = Head(link.sent)]
    /\ link' = [link EXCEPT !.sent = Tail(@),
          !.in = IF server.ack THEN Append(@, Byte("+", 0, Head(link.sent).n, 0)) ELSE @]
    /\ UNCHANGED <<ssl, client>>

\* An acknowledgement needs nothing; packets are sent again while in ack mode
TakeConfirm ==
    /\ Ready /\ Head(link.sent).kind \in {"+", "-"}
    /\ link' = [link EXCEPT !.sent = Tail(@),
          !.in = IF Head(link.sent).kind = "-" /\ server.ack
                 THEN @ \o Piece1(server.last) ELSE @]
    /\ server' = [server EXCEPT
          !.rest = IF Head(link.sent).kind = "-" /\ server.ack
                   THEN Piece2(server.last) ELSE @]
    /\ UNCHANGED <<ssl, client>>

\* An answer is begun.  OK to QStartNoAckMode ends acknowledgements.  Then the
\* checksum may be zeros, as those of the client's packets are.
BeginAnswer ==
    /\ link.up /\ server.busy # NoCommand
    /\ \E p \in Contents :
       LET sum == Value[p]
           right == <<First(sum), Second(sum)>>
           starts == server.busy.kind = "QStartNoAckMode"
       IN \E digits \in {right} \union {d \in {<<0, 0>>} : ~server.ack} :
             LET packet == [contents |-> p, digits |-> digits, to |-> server.busy.n,
                            packet |-> server.packets + 1]
             IN /\ link' = [link EXCEPT !.in = @ \o Piece1(packet)]
                /\ server' = [server EXCEPT
                      !.busy = NoCommand, !.rest = Piece2(packet), !.last = packet,
                      !.packets = @ + 1,
                      !.ack = @ /\ ~(starts /\ p = "OK"),
                      !.declined = @ \/ (starts /\ p # "OK")]
    /\ UNCHANGED <<ssl, client>>

EndAnswer ==
    /\ link.up /\ server.rest # <<>>
    /\ link' = [link EXCEPT !.in = @ \o server.rest]
    /\ server' = [server EXCEPT !.rest = <<>>]
    /\ UNCHANGED <<ssl, client>>

HangUp ==
    /\ link.up
    /\ link' = [link EXCEPT !.up = FALSE, !.sent = <<>>]
    /\ server' = [server EXCEPT !.busy = NoCommand, !.rest = <<>>]
    /\ UNCHANGED <<ssl, client>>

ClientStep ==
    \/ ReceiveAck \/ ReceivePrefix \/ ReceiveBody \/ Accept \/ Refuse
    \/ ReceiveLate \/ ReceiveOutside

\* All is said, or the process is gone, or it reads zeros for ever
Rest ==
    /\ \/ client.pc = "idle" /\ client.n = MaxCommands
       \/ client.pc = "crashed"
       \/ client.pc = "body" /\ ~link.up /\ link.in = <<>>
    /\ UNCHANGED vars

Next ==
    \/ \E kind \in Kinds : Send(kind) \/ SendFails(kind)
    \/ ClientStep
    \/ TakeCommand \/ TakeConfirm \/ BeginAnswer \/ EndAnswer
    \/ HangUp
    \/ Rest

Spec == Init /\ [][Next]_vars

\* The caller's thread runs, and debugserver ends a packet that it began.
FairSpec == Spec /\ WF_vars(ClientStep) /\ WF_vars(EndAnswer)

-----------------------------------------------------------------------------
(* Properties                                                              *)

Bytes == [is : Contents \union {"+", "$", "#", "nul", "digit"}, value : Nat,
          to : Nat, packet : Nat]

\* The variables have their types, and a receive that looks at the checksum has
\* a # and two bytes to look at.
TypeOK ==
    /\ ssl \in BOOLEAN
    /\ link \in [up : BOOLEAN, in : Seq(Bytes), waited : BOOLEAN, lost : BOOLEAN,
                 sent : Seq([kind : Kinds \union {"+", "-"}, n : 0..MaxCommands])]
    /\ client \in [pc : {"idle", "ack", "prefix", "body", "check", "crashed"},
                   ack : BOOLEAN, n : 0..MaxCommands, kind : Kinds, buffer : Seq(Bytes),
                   left : 0..3, outside : BOOLEAN,
                   response : Seq(Bytes), failed : BOOLEAN, refused : BOOLEAN]
    /\ client.pc = "check" => Len(client.buffer) >= 3
    /\ server.ack \in BOOLEAN /\ server.declined \in BOOLEAN
    /\ server.packets \in Nat /\ server.rest \in Seq(Bytes)
    /\ server.busy \in [kind : Kinds, n : 0..MaxCommands]

Calm == ~link.waited /\ ~client.refused /\ ~server.declined

\* The response of a command is debugserver's answer to that command, and there
\* is one, as long as no receive waited in vain, no packet was refused, and
\* debugserver did not keep the acknowledgements it was asked to end.
OwnAnswerReturns ==
    client.pc = "idle" /\ client.n > 0 /\ link.up /\ Calm =>
        /\ client.response # <<>>
        /\ \A i \in 1..Len(client.response) : client.response[i].to = client.n

\* A response begins with the contents of a packet, and has nothing of another
\* packet or of a checksum, whatever was late, refused or sent again: what else is
\* in it are zeros, one for each receive that brought nothing before the #.  That
\* is as long as no byte was stored outside the buffer of its receive.
ResponseIsOnePacket ==
    ~link.lost /\ client.response # <<>> =>
        /\ client.response[1].is \in Contents
        /\ \A i \in 2..Len(client.response) : client.response[i] = Nothing

\* Between calls both ends agree whether packets are acknowledged, and
\* debugserver has nothing to send, as long as all is calm.
AckModesAgree ==
    client.pc = "idle" /\ link.up /\ Calm =>
        /\ client.ack = server.ack
        /\ link.in = <<>> /\ server.rest = <<>> /\ server.busy = NoCommand

\* In calm, commands and answers stay in step: the answer that a call returns
\* is its own, and between calls both ends agree and are silent.
CallsStayInStep == OwnAnswerReturns /\ AckModesAgree

\* Over a plain socket a call returns while the connection is up.  At the end of
\* the stream one that is past the $ never does.
PlainCommandReturns ==
    client.pc # "idle" /\ ~ssl ~> client.pc = "idle" \/ ~link.up
=============================================================================
