------------------------------ MODULE ImageMount ------------------------------
(***************************************************************************)
(* Mounting a developer image: the exchanges with the image mounter, the   *)
(* bytes of the image between two of them, and the device's lockdown       *)
(* connection, which some of the calls leave open and others need closed.  *)
(*                                                                         *)
(* One thread calls.  What module Applications has step by step, the start *)
(* of a session and of a service, is one step here with the outcomes it    *)
(* has there.  A frame is whole, or cut by the end of the stream.          *)
(***************************************************************************)
EXTENDS Naturals, Sequences

CONSTANTS
    Images,        \* developer images
    Length,        \* Length[i]: the bytes of image i
    Links,         \* the images whose path is a symbolic link
    LinkLength,    \* what lstat(2) says of a link
    StreamSize,    \* kDeveloperImageStreamSize
    MaxCalls       \* bound: calls

ASSUME ImagesAssumption ==
    /\ Length \in [Images -> Nat] /\ Links \subseteq Images /\ LinkLength \in Nat
    /\ \A i \in Links : LinkLength <= Length[i]
    /\ Images \intersect {"none", "partial"} = {}
ASSUME BoundsAssumption == StreamSize \in Nat \ {0} /\ MaxCalls \in Nat

VARIABLES
    attached,   \* the device's attachment lasts
    lockdown,   \* the device object's connection to lockdownd: "closed", "open",
                \* or "session", open with a session
    conn,       \* the last connection to the image mounter, and what it waits for
    device,     \* the image in PublicStaging, the mounted one, whether the
                \* system takes streams, and whether it is reached over Wi-Fi
    call        \* the call in progress, or the last one

vars == <<attached, lockdown, conn, device, call>>

-----------------------------------------------------------------------------
Message(cmd, n, image, from, to) ==
    [cmd |-> cmd, n |-> n, image |-> image, from |-> from, to |-> to]
Reply(cmd, n, kind) == [cmd |-> cmd, n |-> n, kind |-> kind]
NoReply == Reply("none", 0, "none")
NoStream == Message("none", 0, "none", 0, 0)
NoConnection == [up |-> FALSE, todo |-> <<>>, in |-> <<>>,
                 stream |-> NoStream, whole |-> TRUE]

\* What is announced of an image, and sent of it
Announced(i) == IF i \in Links THEN LinkLength ELSE Length[i]

Idle == call.at = <<"idle">>
At(place) == call.at = place
Goes(place) == [call EXCEPT !.at = place]
Returned(c, result) == [c EXCEPT !.at = <<"idle">>, !.result = result]
Fails == call' = Returned(call, "failed")

NoCall == [op |-> "none", at |-> <<"idle">>, result |-> "none", image |-> "none",
           n |-> 0, offset |-> 0, reply |-> NoReply, awaited |-> NoReply,
           uploads |-> FALSE, mute |-> FALSE, calls |-> 0]

Init ==
    /\ attached = TRUE /\ lockdown = "closed"
    /\ conn = NoConnection
    /\ device \in [staged : {"none"}, mounted : {"none"}, streams : BOOLEAN,
                   wifi : BOOLEAN]
    /\ call = NoCall

\* The process ends and is started anew with the device attached
Restarted ==
    /\ attached' = TRUE /\ lockdown' = "closed"
    /\ conn' = NoConnection
    /\ call' = [NoCall EXCEPT !.calls = call.calls]
    /\ UNCHANGED device

-----------------------------------------------------------------------------
(* Calls, and the lockdown connection.                                     *)

Call(op, image, place) ==
    /\ Idle /\ call.calls < MaxCalls
    /\ call' = [NoCall EXCEPT !.op = op, !.at = place, !.image = image,
                              !.calls = call.calls + 1]
    /\ UNCHANGED <<attached, lockdown, conn, device>>

Begin ==
    \E i \in Images :
        \/ Call("MountImage", i, <<"service">>)
        \/ Call("MountDeveloperImage", i, <<"support">>)

\* What the caller does with the device between two mounts
Between(op, result) ==
    /\ Idle /\ call.calls < MaxCalls
    /\ call' = [NoCall EXCEPT !.op = op, !.calls = call.calls + 1, !.result = result]
    /\ UNCHANGED <<attached, conn, device>>

\* SDMMD_AMDeviceConnect of a connected device fails; it drops the connection
\* of one that left
ConnectFails ==
    \/ UNCHANGED lockdown
    \/ lockdown # "closed" /\ ~attached /\ lockdown' = "closed"
ConnectOpens == attached /\ lockdown = "closed" /\ lockdown' = "open"

Connect ==
    \/ ConnectOpens /\ \E r \in {"success", "failed"} : Between("Connect", r)
    \/ ConnectFails /\ Between("Connect", "failed")
Disconnect == lockdown' = "closed" /\ Between("Disconnect", "success")

\* Every step that fails is the last one
DebugConnectionStart ==
    \/ /\ attached /\ lockdown = "closed" /\ UNCHANGED lockdown
       /\ Between("AMDebugConnectionStart", "success")
    \/ /\ attached /\ lockdown = "closed" /\ lockdown' \in {"open", "session", "closed"}
       /\ Between("AMDebugConnectionStart", "failed")
    \/ ConnectFails /\ Between("AMDebugConnectionStart", "failed")

\* The device is disconnected only if it had a session to stop
DebugConnectionStop ==
    \/ /\ attached /\ lockdown = "session" /\ lockdown' = "closed"
       /\ Between("AMDebugConnectionStop", "success")
    \/ /\ lockdown' \in {lockdown} \union {s \in {"open"} : lockdown = "session"}
       /\ Between("AMDebugConnectionStop", "failed")

\* SDMMD_PathToDeviceSupport: without a version the process may end; else
\* the image is found, or there are no options.  The device is disconnected.
PathToDeviceSupport ==
    /\ At(<<"support">>)
    /\ \/ /\ lockdown' = "closed"
          /\ call' \in {Goes(<<"service">>), Returned(call, "failed")}
          /\ UNCHANGED <<attached, conn, device>>
       \/ Restarted

\* SDMMD_AMDeviceSecureStartSessionedService leaves the lockdown connection
\* only where Connect fails with one.  Over USB the socket leads to lockdownd,
\* whose port the Connect packet always has.
ServiceStarts ==
    /\ At(<<"service">>) /\ attached /\ lockdown = "closed"
    /\ conn' = [NoConnection EXCEPT !.up = TRUE]
    /\ call' = Goes(<<"send", "LookupImage">>)
    /\ UNCHANGED <<attached, lockdown, device>>

\* Also the file is not there to be digested, or the device is not valid
ServiceFails ==
    /\ At(<<"service">>)
    /\ ConnectFails \/ ConnectOpens
    /\ Fails
    /\ UNCHANGED <<attached, conn, device>>

\* SDMMD_device_os_is_at_least connects, and does not disconnect.  Without a
\* version the system is taken for an old one.
Version ==
    /\ At(<<"version">>)
    /\ \/ ConnectFails /\ call' = Goes(<<"copy">>)
       \/ ConnectOpens /\ call' = Goes(<<"copy">>)
       \/ /\ attached /\ lockdown' = (IF lockdown = "closed" THEN "open" ELSE lockdown)
          /\ call' = Goes(IF device.streams THEN <<"send", "ReceiveBytes">>
                                            ELSE <<"copy">>)
    /\ UNCHANGED <<attached, conn, device>>

\* SDMMD_copy_image: over AFC, where a write that is refused goes unnoticed.
\* Its session stays.  Over USB there is no AFC at the end of the socket.
Copy ==
    /\ At(<<"copy">>) /\ attached /\ lockdown # "closed" /\ device.wifi
    /\ lockdown' = "session"
    /\ \E staged \in {call.image, "partial"} : device' = [device EXCEPT !.staged = staged]
    /\ call' = Goes(<<"send", "MountImage">>)
    /\ UNCHANGED <<attached, conn>>

CopyFails ==
    /\ At(<<"copy">>)
    /\ \/ UNCHANGED <<lockdown, device>>
       \/ /\ attached /\ lockdown # "closed"
          /\ lockdown' \in {"closed", "open", "session"}
          /\ \E staged \in {device.staged, "partial"} :
                device' = [device EXCEPT !.staged = staged]
    /\ Fails
    /\ UNCHANGED <<attached, conn>>

-----------------------------------------------------------------------------
(* Exchanges with the image mounter.                                       *)

Commands == {"LookupImage", "ReceiveBytes", "MountImage", "Hangup"}

Send(cmd) ==
    /\ At(<<"send", cmd>>)
    /\ call' = [Goes(<<"receive", cmd>>) EXCEPT !.n = @ + 1]
    /\ conn' = IF conn.up
               THEN [conn EXCEPT !.todo = Append(@,
                        Message(cmd, call.n + 1, call.image, 0, Announced(call.image)))]
               ELSE conn
    /\ UNCHANGED <<attached, lockdown, device>>

\* The stream has ended.  What goes before its end is known is lost.
SendFails ==
    /\ \E cmd \in Commands \union {"bytes"} : At(<<"send", cmd>>)
    /\ ~conn.up
    /\ Fails
    /\ UNCHANGED <<attached, lockdown, conn, device>>

\* Mutant of Piece: the last piece is as long as the others
PieceOfSize == StreamSize

\* The next piece of the image
Piece ==
    LET remainder == Announced(call.image) - call.offset
    IN IF remainder > StreamSize THEN StreamSize ELSE remainder

SendBytes ==
    /\ At(<<"send", "bytes">>) /\ call.offset < Announced(call.image)
    /\ call' = [call EXCEPT !.offset = @ + Piece]
    /\ conn' = IF conn.up
               THEN [conn EXCEPT !.todo = Append(@, Message("bytes", call.n, call.image,
                                           call.offset, call.offset + Piece))]
               ELSE conn
    /\ UNCHANGED <<attached, lockdown, device>>

BytesSent ==
    /\ At(<<"send", "bytes">>) /\ call.offset >= Announced(call.image)
    /\ call' = Goes(<<"receive", "bytes">>)
    /\ UNCHANGED <<attached, lockdown, conn, device>>

\* Where a reply that is no failure leads.  With no digest the image is sent or
\* copied; a Status of ReceiveBytes other than the one hoped for sends nothing;
\* a mount without Status succeeds.
Continues(cmd, reply) ==
    CASE cmd = "LookupImage" -> IF reply.kind = "present" THEN <<"send", "MountImage">>
                                ELSE <<"version">>
      [] cmd = "ReceiveBytes" -> IF reply.kind = "Ack" THEN <<"send", "bytes">>
                                 ELSE <<"send", "MountImage">>
      [] cmd = "bytes" -> <<"send", "MountImage">>
      [] cmd = "MountImage" -> IF reply.kind = "Complete" THEN <<"send", "Hangup">>
                               ELSE <<"idle">>
      [] OTHER -> <<"idle">>

\* SDMMD_ImageMounterErrorConvert and SDMMD__ConvertServiceError give every Error,
\* those without a name in their tables too, a code that is no success
MounterError(reply) == reply.kind = "error"
ServiceError(reply) == reply.kind = "error"

\* Mutant of Refuses: an Error in what MountImage is answered is no failure
RefusesUntilMount(cmd, reply) ==
    \/ cmd = "LookupImage" /\ ServiceError(reply)
    \/ cmd = "ReceiveBytes" /\ MounterError(reply)
    \/ reply.kind = "bare" /\ cmd = "ReceiveBytes"
    \/ reply.kind = "other" /\ cmd = "MountImage"

\* The replies that are failures.  After the bytes the first reply is looked at
\* again instead of the last; that of Hangup is not looked at.
Refuses(cmd, reply) ==
    \/ cmd = "LookupImage" /\ ServiceError(reply)
    \/ cmd \in {"ReceiveBytes", "MountImage"} /\ MounterError(reply)
    \/ reply.kind = "bare" /\ cmd = "ReceiveBytes"
    \/ reply.kind = "other" /\ cmd = "MountImage"

Heard(cmd, reply) ==
    [call EXCEPT !.reply = reply, !.awaited = Reply(cmd, call.n, reply.kind),
                 !.uploads = @ \/ (cmd = "LookupImage" /\ reply.kind # "present"),
                 !.mute = (cmd = "MountImage" /\ reply.kind = "bare")]

\* A whole reply
Receive(cmd) ==
    /\ At(<<"receive", cmd>>) /\ conn.in # <<>>
    /\ LET reply == Head(conn.in)
           next == Continues(cmd, reply)
       IN /\ reply.kind # "cut"
          /\ call' = IF Refuses(cmd, reply) THEN Returned(Heard(cmd, reply), "failed")
                     ELSE IF next = <<"idle">> THEN Returned(Heard(cmd, reply), "success")
                     ELSE [Heard(cmd, reply) EXCEPT !.at = next]
    /\ conn' = [conn EXCEPT !.in = Tail(@)]
    /\ UNCHANGED <<attached, lockdown, device>>

\* Mutant of ReceiveNothing: the image that was sent is mounted without a word
ReceiveNothingMounts(cmd) ==
    /\ At(<<"receive", cmd>>)
    /\ \/ conn.in = <<>>
       \/ conn.in # <<>> /\ Head(conn.in).kind = "cut"
    /\ IF cmd = "bytes" THEN call' = Goes(<<"send", "MountImage">>) ELSE Fails
    /\ UNCHANGED <<attached, lockdown, conn, device>>

\* Silence, until select or SO_RCVTIMEO gives up, or the end of the stream, also
\* in a frame: what there is of that one is no property list
ReceiveNothing(cmd) ==
    /\ At(<<"receive", cmd>>)
    /\ \/ conn.in = <<>>
       \/ conn.in # <<>> /\ Head(conn.in).kind = "cut"
    /\ Fails
    /\ UNCHANGED <<attached, lockdown, conn, device>>

-----------------------------------------------------------------------------
(* The image mounter.                                                      *)

Taken(message, replies) ==
    [conn EXCEPT !.todo = Tail(@), !.in = @ \o replies]

Mounter(cmds) == device.wifi /\ conn.up /\ conn.todo # <<>> /\ Head(conn.todo).cmd \in cmds

\* It knows images by their type
Lookup ==
    /\ Mounter({"LookupImage"}) /\ conn.stream = NoStream
    /\ \E kind \in {"error", "bare"} \union {k \in {"present"} : device.mounted # "none"} :
          conn' = Taken(Head(conn.todo), <<Reply("LookupImage", Head(conn.todo).n, kind)>>)
    /\ UNCHANGED <<attached, lockdown, device, call>>

ReceiveBytes ==
    /\ Mounter({"ReceiveBytes"}) /\ conn.stream = NoStream
    /\ LET ask == Head(conn.todo) IN
       \E kind \in {"error", "bare", "other", "Ack"} :
          conn' = [Taken(ask, <<Reply("ReceiveBytes", ask.n, kind)>>) EXCEPT
                      !.stream = IF kind = "Ack" THEN ask ELSE @,
                      !.whole = TRUE]
    /\ UNCHANGED <<attached, lockdown, device, call>>

\* The bytes are those that come next, or it does not know them
TakeBytes ==
    /\ Mounter({"bytes"}) /\ conn.stream # NoStream
    /\ LET piece == Head(conn.todo) IN
       /\ conn.stream.from + (piece.to - piece.from) <= conn.stream.to
       /\ conn' = [Taken(piece, <<>>) EXCEPT
             !.stream.from = @ + (piece.to - piece.from),
             !.whole = @ /\ piece.image = conn.stream.image
                         /\ piece.from = conn.stream.from]
    /\ UNCHANGED <<attached, lockdown, device, call>>

\* All that was announced is there
BytesTaken ==
    /\ conn.up /\ conn.stream # NoStream /\ conn.stream.from = conn.stream.to
    /\ LET i == conn.stream.image
           all == conn.whole /\ conn.stream.to = Length[i]
       IN \E kind \in {"error", "Complete"} :
             /\ conn' = [conn EXCEPT !.stream = NoStream,
                            !.in = Append(@, Reply("bytes", conn.stream.n, kind))]
             /\ device' = IF kind = "error" THEN device
                          ELSE [device EXCEPT !.staged = IF all THEN i ELSE "partial"]
    /\ UNCHANGED <<attached, lockdown, call>>

\* A signature is of one image
Mount ==
    /\ Mounter({"MountImage"}) /\ conn.stream = NoStream
    /\ LET ask == Head(conn.todo) IN
       \E kind \in {"error", "bare", "other", "Complete"} :
          /\ kind = "Complete" => ask.image \in {device.staged, device.mounted}
          /\ conn' = Taken(ask, <<Reply("MountImage", ask.n, kind)>>)
          /\ device' = IF kind = "Complete" THEN [device EXCEPT !.mounted = ask.image]
                       ELSE device
    /\ UNCHANGED <<attached, lockdown, call>>

TakeHangup ==
    /\ Mounter({"Hangup"}) /\ conn.stream = NoStream
    /\ conn' = Taken(Head(conn.todo), <<Reply("Hangup", Head(conn.todo).n, "bare")>>)
    /\ UNCHANGED <<attached, lockdown, device, call>>

\* lockdownd, where the mounter should be, takes the command for a request
Lockdownd ==
    /\ ~device.wifi /\ conn.up /\ conn.todo # <<>> /\ conn.stream = NoStream
    /\ \E kind \in {"error", "bare"} :
          LET ask == Head(conn.todo)
          IN conn' = Taken(ask, <<Reply(ask.cmd, ask.n, kind)>>)
    /\ UNCHANGED <<attached, lockdown, device, call>>

\* The connection ends, maybe within the last frame
Ends(c) == {[c EXCEPT !.up = FALSE, !.todo = <<>>]} \union
           {[c EXCEPT !.up = FALSE, !.todo = <<>>, !.in[Len(c.in)].kind = "cut"] :
               i \in {k \in {1} : c.in # <<>>}}

HangUp ==
    /\ conn.up /\ conn' \in Ends(conn)
    /\ UNCHANGED <<attached, lockdown, device, call>>

Unplug ==
    /\ attached /\ attached' = FALSE
    /\ conn' \in Ends(conn)
    /\ UNCHANGED <<lockdown, device, call>>

-----------------------------------------------------------------------------
CallStep ==
    \/ PathToDeviceSupport
    \/ ServiceStarts \/ ServiceFails
    \/ Version \/ Copy \/ CopyFails
    \/ \E cmd \in Commands : Send(cmd)
    \/ SendFails \/ SendBytes \/ BytesSent
    \/ \E cmd \in Commands \union {"bytes"} : Receive(cmd) \/ ReceiveNothing(cmd)

MounterStep ==
    Lookup \/ ReceiveBytes \/ TakeBytes \/ BytesTaken \/ Mount \/ TakeHangup
    \/ Lockdownd

Rest == Idle /\ call.calls = MaxCalls /\ UNCHANGED vars

Next ==
    \/ Begin
    \/ Connect \/ Disconnect
    \/ DebugConnectionStart \/ DebugConnectionStop
    \/ CallStep
    \/ MounterStep
    \/ HangUp \/ Unplug
    \/ Rest

Spec == Init /\ [][Next]_vars

-----------------------------------------------------------------------------
(* Properties                                                              *)

Names == Images \union {"none"}
Replies == [cmd : Commands \union {"bytes", "none"}, n : Nat,
            kind : {"none", "error", "bare", "present", "other", "Ack", "Complete", "cut"}]
Messages == [cmd : Commands \union {"bytes", "none"}, n : Nat, image : Names,
             from : Nat, to : Nat]

\* The variables have their types, a session has its connection, and a call is
\* where its command can be.
TypeOK ==
    /\ attached \in BOOLEAN
    /\ lockdown \in {"closed", "open", "session"}
    /\ conn \in [up : BOOLEAN, todo : Seq(Messages), in : Seq(Replies),
                 stream : Messages, whole : BOOLEAN]
    /\ device \in [staged : Names \union {"partial"}, mounted : Names,
                   streams : BOOLEAN, wifi : BOOLEAN]
    /\ call.at \in {<<"idle">>, <<"support">>, <<"service">>, <<"version">>, <<"copy">>}
            \union ({"send", "receive"} \X (Commands \union {"bytes"}))
    /\ call.result \in {"none", "success", "failed"}
    /\ call.image \in Names /\ call.n \in Nat /\ call.calls \in 0..MaxCalls
    /\ call.reply \in Replies /\ call.awaited \in Replies
    /\ call.image \in Images => call.offset \in 0..Announced(call.image)

\* What comes next is what the mounter waits for: the rest of the image it was
\* promised and no more of it, and no bytes where it waits for a command.
MounterKnows ==
    conn.up /\ conn.todo # <<>> =>
        LET head == Head(conn.todo) IN
        IF conn.stream = NoStream THEN head.cmd # "bytes"
        ELSE \/ conn.stream.from = conn.stream.to
             \/ /\ head.cmd = "bytes"
                /\ conn.stream.from + (head.to - head.from) <= conn.stream.to

\* The reply a call goes by is the image mounter's to what the call sent last,
\* and the mounter takes as an image its bytes and nothing else, however much
\* was late, cut or lost, in this call and those before.
InStep ==
    /\ call.reply = call.awaited
    /\ MounterKnows

\* A mount that succeeds has the image mounted, unless the mounter's reply to it
\* had neither an error nor a status; and one that found an image there leaves
\* no lockdown connection, so that the next call can connect.
MountedAndFree ==
    Idle /\ call.op \in {"MountImage", "MountDeveloperImage"} /\ call.result = "success" =>
        /\ call.mute \/ device.mounted = call.image
        /\ ~call.uploads => lockdown = "closed"
=============================================================================
