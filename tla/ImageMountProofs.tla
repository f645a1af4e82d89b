--------------------------- MODULE ImageMountProofs ---------------------------
(***************************************************************************)
(* Proofs about ImageMount, for any images, lengths, links, stream size    *)
(* and number of calls.                                                    *)
(***************************************************************************)
EXTENDS ImageMount, SequenceTheorems, TLAPS

-----------------------------------------------------------------------------
(* The inductive invariant.                                                *)

Mounts == {"MountImage", "MountDeveloperImage"}
Ops == Mounts \union {"none", "Connect", "Disconnect", "AMDebugConnectionStart",
                      "AMDebugConnectionStop"}
Places == {<<"idle">>, <<"support">>, <<"service">>, <<"version">>, <<"copy">>}
             \union ({"send", "receive"} \X (Commands \union {"bytes"}))

Calls == [op : Ops, at : Places, result : {"none", "success", "failed"}, image : Names,
          n : Nat, offset : Nat, reply : Replies, awaited : Replies,
          uploads : BOOLEAN, mute : BOOLEAN, calls : 0..MaxCalls]
Conns == [up : BOOLEAN, todo : Seq(Messages), in : Seq(Replies),
          stream : Messages, whole : BOOLEAN]
Devices == [staged : Names \union {"partial"}, mounted : Names, streams : BOOLEAN,
            wifi : BOOLEAN]

\* A call that has its connection to the mounter, or had
Acting == call.at \notin {<<"idle">>, <<"support">>, <<"service">>}

Types ==
    /\ attached \in BOOLEAN /\ lockdown \in {"closed", "open", "session"}
    /\ conn \in Conns /\ device \in Devices /\ call \in Calls
    /\ call.at # <<"idle">> => call.image \in Images
    /\ call.image \in Images => call.offset <= Announced(call.image)

\* The host sends one command at a time, or the pieces of the image in order.
Consecutive(pieces, from, to) ==
    \A i \in 1..Len(pieces) :
        /\ pieces[i].cmd = "bytes"
        /\ pieces[i].from < pieces[i].to /\ pieces[i].to <= to
        /\ pieces[i].from = IF i = 1 THEN from ELSE pieces[i - 1].to

Line ==
    /\ conn.stream = NoStream \/ conn.stream.cmd = "ReceiveBytes"
    /\ conn.up => IF conn.stream = NoStream
                  THEN /\ Len(conn.todo) <= 1
                       /\ conn.todo # <<>> => conn.todo[1].cmd \in Commands /\ conn.todo[1].from = 0
                  ELSE /\ conn.stream.from <= conn.stream.to
                       /\ Consecutive(conn.todo, conn.stream.from, conn.stream.to)

\* Nothing is under way.
Rested == conn.todo = <<>> /\ conn.stream = NoStream
Quiet == conn.in = <<>> /\ (conn.up => Rested)

\* The call's last command is under way, or its reply is.
Asked(cmd) ==
    /\ conn.in = <<>>
    /\ conn.up => /\ conn.stream = NoStream /\ Len(conn.todo) = 1
                  /\ conn.todo[1] = Message(cmd, call.n, call.image, 0, Announced(call.image))

Answered(cmd) ==
    /\ Len(conn.in) = 1 /\ conn.in[1].cmd = cmd /\ conn.in[1].n = call.n
    /\ cmd = "ReceiveBytes" => conn.in[1].kind # "Ack"
    /\ cmd = "MountImage" => conn.in[1].kind \in {"error", "bare", "other", "Complete", "cut"}
    /\ conn.up => Rested

\* How far the host has sent the image of the stream
Reached == IF conn.todo = <<>> THEN conn.stream.from ELSE conn.todo[Len(conn.todo)].to

Streaming ==
    /\ conn.stream # NoStream /\ conn.stream.n = call.n
    /\ conn.stream.to = Announced(call.image) /\ Reached = call.offset

\* After the first k replies: the image is under way, or the reply to it is.
Delivered(k) ==
    \/ Len(conn.in) = k /\ (conn.up => Streaming)
    \/ /\ Len(conn.in) = k + 1
       /\ conn.in[k + 1].cmd = "bytes" /\ conn.in[k + 1].n = call.n
       /\ call.offset = Announced(call.image)
       /\ conn.up => Rested

Accepted ==
    /\ Len(conn.in) >= 1 /\ conn.in[1].cmd = "ReceiveBytes" /\ conn.in[1].n = call.n
    /\ conn.in[1].kind = "Ack" /\ Delivered(1)

\* The next thing the call sends is a command.
Preparing == call.at \in {<<"version">>, <<"copy">>} \union ({"send"} \X Commands)

Exchange ==
    /\ Preparing => Quiet
    /\ \A cmd \in Commands : At(<<"receive", cmd>>) =>
          Asked(cmd) \/ Answered(cmd) \/ (cmd = "ReceiveBytes" /\ Accepted)
    /\ At(<<"send", "bytes">>) => Delivered(0)
    /\ At(<<"receive", "bytes">>) => Delivered(0) /\ call.offset = Announced(call.image)

\* No byte is sent before the mounter has accepted the image.
Fresh ==
    call.at \in {<<"support">>, <<"service">>, <<"version">>}
                \union ({"send", "receive"} \X {"LookupImage", "ReceiveBytes"})
       => call.offset = 0

Succeeded == Idle /\ call.op \in Mounts /\ call.result = "success"

\* What MountImage did stays until the call has returned, and after.
Mounting ==
    /\ At(<<"send", "Hangup">>) \/ At(<<"receive", "Hangup">>)
          => device.mounted = call.image
    /\ At(<<"receive", "MountImage">>) /\ conn.in # <<>> /\ conn.in[1].kind = "Complete"
          => device.mounted = call.image
    /\ Succeeded => Quiet /\ (call.mute \/ device.mounted = call.image)

\* Only a call that sends an image opens the lockdown connection again.
Freed ==
    /\ Acting \/ Succeeded => call.uploads \/ lockdown = "closed"
    /\ At(<<"version">>) \/ At(<<"copy">>) => call.uploads

IInv ==
    /\ Types /\ Line /\ Exchange /\ Fresh /\ Mounting /\ Freed
    /\ call.reply = call.awaited

-----------------------------------------------------------------------------
(* Records.                                                                *)

LEMMA ConstantTypes == /\ \A i \in Images : Announced(i) \in Nat /\ i \in Names
                /\ NoReply \in Replies /\ NoStream \in Messages /\ NoConnection \in Conns
                /\ "none" \notin Images
<1>1. \A i \in Images : Announced(i) \in Nat /\ i \in Names
  BY ImagesAssumption DEF Announced, Names
<1>2. <<>> \in Seq(Messages) /\ <<>> \in Seq(Replies)
  BY EmptySeq
<1>3. NoReply \in Replies /\ NoStream \in Messages
  BY DEF NoReply, Reply, Replies, NoStream, Message, Messages, Names
<1> QED
  BY <1>1, <1>2, <1>3, ImagesAssumption DEF NoConnection, Conns

LEMMA NoCallFields ==
    /\ NoCall \in Calls /\ NoCall.offset = 0 /\ NoCall.reply = NoCall.awaited
    /\ NoCall.at = <<"idle">> /\ NoCall.result = "none"
<1>1. NoCall \in Calls
  <2>1. "none" \in Ops /\ <<"idle">> \in Places /\ "none" \in Names /\ 0 \in 0..MaxCalls
    BY BoundsAssumption DEF Ops, Places, Names
  <2> QED
    BY <2>1, ConstantTypes DEF NoCall, Calls
<1>2. /\ NoCall.offset = 0 /\ NoCall.reply = NoCall.awaited /\ NoCall.at = <<"idle">>
      /\ NoCall.result = "none"
  BY DEF NoCall
<1> QED
  BY <1>1, <1>2

LEMMA GoesFields ==
    ASSUME call \in Calls, NEW place \in Places, NEW k \in Nat
    PROVE  \A c : c = [Goes(place) EXCEPT !.n = k]
             => /\ c \in Calls /\ c.op = call.op /\ c.at = place /\ c.image = call.image
                /\ c.result = call.result /\ c.offset = call.offset /\ c.n = k
                /\ c.reply = call.reply /\ c.awaited = call.awaited
                /\ c.uploads = call.uploads /\ c.mute = call.mute
  BY DEF Goes, Calls

LEMMA ReturnedFields ==
    ASSUME NEW c \in Calls, NEW result \in {"success", "failed"}
    PROVE  /\ Returned(c, result) \in Calls
           /\ Returned(c, result).at = <<"idle">> /\ Returned(c, result).result = result
           /\ Returned(c, result).op = c.op /\ Returned(c, result).image = c.image
           /\ Returned(c, result).offset = c.offset
           /\ Returned(c, result).reply = c.reply /\ Returned(c, result).awaited = c.awaited
           /\ Returned(c, result).uploads = c.uploads /\ Returned(c, result).mute = c.mute
  BY DEF Returned, Calls, Places

LEMMA HeardFields ==
    ASSUME call \in Calls, NEW cmd \in Commands \union {"bytes"}, NEW reply \in Replies
    PROVE  /\ Heard(cmd, reply) \in Calls
           /\ Heard(cmd, reply).op = call.op /\ Heard(cmd, reply).at = call.at
           /\ Heard(cmd, reply).image = call.image /\ Heard(cmd, reply).n = call.n
           /\ Heard(cmd, reply).offset = call.offset
           /\ Heard(cmd, reply).result = call.result
           /\ Heard(cmd, reply).reply = reply
           /\ reply.cmd = cmd /\ reply.n = call.n
                 => Heard(cmd, reply).awaited = Heard(cmd, reply).reply
           /\ call.uploads \/ (cmd = "LookupImage" /\ reply.kind # "present")
                 => Heard(cmd, reply).uploads
           /\ call.uploads => Heard(cmd, reply).uploads
           /\ cmd = "MountImage" /\ reply.kind = "bare" => Heard(cmd, reply).mute
<1>1. Reply(cmd, call.n, reply.kind) \in Replies
  BY DEF Reply, Replies, Calls
<1>2. reply.cmd = cmd /\ reply.n = call.n => Reply(cmd, call.n, reply.kind) = reply
  BY DEF Reply, Replies
<1> QED
  BY <1>1, <1>2 DEF Heard, Calls

-----------------------------------------------------------------------------
(* Sequences of messages and replies.                                      *)

LEMMA AppendFields ==
    ASSUME NEW S, NEW s \in Seq(S), NEW x \in S
    PROVE  /\ Append(s, x) \in Seq(S) /\ Len(s) \in Nat /\ Len(Append(s, x)) = Len(s) + 1
           /\ Append(s, x)[Len(s) + 1] = x /\ Append(s, x) # <<>>
           /\ \A i \in 1..Len(s) : Append(s, x)[i] = s[i]
           /\ s = <<>> => Len(s) = 0
  BY AppendProperties, LenProperties, EmptySeq

LEMMA TailFields ==
    ASSUME NEW S, NEW s \in Seq(S), s # <<>>
    PROVE  /\ Tail(s) \in Seq(S) /\ Len(s) \in Nat /\ Len(s) >= 1
           /\ Head(s) = s[1] /\ Head(s) \in S
           /\ Len(Tail(s)) = Len(s) - 1
           /\ \A i \in 1..Len(Tail(s)) : Tail(s)[i] = s[i + 1]
           /\ Len(s) = 1 => Tail(s) = <<>>
<1>1. /\ Len(s) \in Nat /\ Len(s) >= 1 /\ Tail(s) \in Seq(S) /\ Len(Tail(s)) = Len(s) - 1
      /\ Head(s) = s[1] /\ \A i \in 1..Len(Tail(s)) : Tail(s)[i] = s[i + 1]
  BY EmptySeq, HeadTailProperties, LenProperties
<1>2. Head(s) \in S
  BY <1>1, HeadTailProperties
<1>3. ASSUME Len(s) = 1 PROVE Tail(s) = <<>>
  <2>1. Len(Tail(s)) = 0
    BY <1>1, <1>3
  <2> QED
    BY <1>1, <2>1, EmptySeq
<1> QED
  BY <1>1, <1>2, <1>3

LEMMA ConnFields ==
    ASSUME conn \in Conns
    PROVE  /\ conn.todo \in Seq(Messages) /\ Len(conn.todo) \in Nat
           /\ conn.todo = <<>> <=> Len(conn.todo) = 0
           /\ conn.in \in Seq(Replies) /\ Len(conn.in) \in Nat
           /\ conn.in = <<>> <=> Len(conn.in) = 0
           /\ conn.up \in BOOLEAN
           /\ conn.stream \in Messages
           /\ \A i \in 1..Len(conn.todo) : conn.todo[i] \in Messages
           /\ \A i \in 1..Len(conn.in) : conn.in[i] \in Replies
<1>1. /\ conn.todo \in Seq(Messages) /\ conn.in \in Seq(Replies) /\ conn.stream \in Messages
      /\ conn.up \in BOOLEAN
  BY DEF Conns
<1>2. Len(conn.todo) \in Nat /\ (conn.todo = <<>> <=> Len(conn.todo) = 0)
  BY <1>1, LenProperties, EmptySeq
<1>3. Len(conn.in) \in Nat /\ (conn.in = <<>> <=> Len(conn.in) = 0)
  BY <1>1, LenProperties, EmptySeq
<1>4. \A i \in 1..Len(conn.todo) : conn.todo[i] \in Messages
  BY <1>1, ElementOfSeq
<1>5. \A i \in 1..Len(conn.in) : conn.in[i] \in Replies
  BY <1>1, ElementOfSeq
<1> QED
  BY <1>1, <1>2, <1>3, <1>4, <1>5

\* The mounter takes a message and answers.
LEMMA TakenFields ==
    ASSUME conn \in Conns, conn.todo # <<>>, NEW replies \in Seq(Replies)
    PROVE  /\ Taken(Head(conn.todo), replies) \in Conns
           /\ Taken(Head(conn.todo), replies).up = conn.up
           /\ Taken(Head(conn.todo), replies).todo = Tail(conn.todo)
           /\ Taken(Head(conn.todo), replies).in = conn.in \o replies
           /\ Taken(Head(conn.todo), replies).stream = conn.stream
<1>1. Tail(conn.todo) \in Seq(Messages)
  BY ConnFields, TailFields
<1>2. conn.in \o replies \in Seq(Replies)
  BY ConnFields, ConcatProperties
<1> QED
  BY <1>1, <1>2 DEF Taken, Conns

LEMMA EndsFields ==
    ASSUME conn \in Conns, conn' \in Ends(conn)
    PROVE  /\ conn' \in Conns /\ ~conn'.up /\ conn'.todo = <<>> /\ conn'.stream = conn.stream
           /\ Len(conn'.in) = Len(conn.in)
           /\ \A i \in 1..Len(conn.in) :
                 /\ conn'.in[i].cmd = conn.in[i].cmd /\ conn'.in[i].n = conn.in[i].n
                 /\ i # Len(conn.in) => conn'.in[i] = conn.in[i]
                 /\ conn'.in[i] = conn.in[i] \/ conn'.in[i].kind = "cut"
<1>1. CASE conn' = [conn EXCEPT !.up = FALSE, !.todo = <<>>]
  BY <1>1, ConnFields, EmptySeq DEF Conns
<1>2. CASE /\ conn.in # <<>>
           /\ conn' = [conn EXCEPT !.up = FALSE, !.todo = <<>>,
                                   !.in[Len(conn.in)].kind = "cut"]
  <2>1. PICK k \in 1..Len(conn.in) : k = Len(conn.in)
    BY <1>2, ConnFields
  <2>2. conn.in[k] \in Replies
    BY <2>1, ConnFields
  <2> DEFINE r == [conn.in[k] EXCEPT !.kind = "cut"]
             in == [conn.in EXCEPT ![k] = r]
  <2>3. r \in Replies /\ r.kind = "cut" /\ r.cmd = conn.in[k].cmd /\ r.n = conn.in[k].n
    BY <2>2 DEF Replies
  <2>a. conn'.in = in /\ conn'.stream = conn.stream /\ ~conn'.up /\ conn'.todo = <<>>
    BY <1>2, <2>1 DEF Conns
  <2> HIDE DEF r
  <2>4. /\ in \in Seq(Replies) /\ Len(in) = Len(conn.in) /\ in[k] = r
        /\ \A i \in 1..Len(conn.in) : i # k => in[i] = conn.in[i]
    BY <2>1, <2>3, ConnFields, ExceptSeq
  <2> HIDE DEF in
  <2>5. conn' \in Conns
    <3>1. conn' = [[conn EXCEPT !.up = FALSE, !.todo = <<>>] EXCEPT !.in = in]
      BY <1>2, <2>1 DEF in, r
    <3> QED
      BY <2>4, <3>1, EmptySeq DEF Conns
  <2> QED
    BY <2>1, <2>3, <2>4, <2>5, <2>a
<1> QED
  BY <1>1, <1>2 DEF Ends

-----------------------------------------------------------------------------
(* The steps between calls, and those that end a call or begin one.        *)

LEMMA InitIInv == Init => IInv
<1> SUFFICES ASSUME Init PROVE IInv
  OBVIOUS
<1>1. /\ attached = TRUE /\ lockdown = "closed" /\ conn = NoConnection /\ call = NoCall
      /\ device \in Devices
  <2>1. {"none"} \subseteq Names
    BY DEF Names
  <2> QED
    BY <2>1 DEF Init, Devices
<1>2. /\ call \in Calls /\ call.at = <<"idle">> /\ call.result = "none" /\ call.image = "none"
      /\ call.reply = call.awaited
  BY <1>1, NoCallFields DEF NoCall
<1>3. Types
  BY <1>1, <1>2, ConstantTypes DEF Types
<1>4. Line
  BY <1>1 DEF Line, NoConnection
<1>5. Exchange /\ Fresh /\ Mounting /\ Freed
  BY <1>2 DEF Exchange, Preparing, At, Fresh, Mounting, Freed, Acting, Succeeded
<1> QED
  BY <1>2, <1>3, <1>4, <1>5 DEF IInv

LEMMA NotActingNext ==
    ASSUME Types', Line', call'.at \in {<<"idle">>, <<"support">>, <<"service">>},
           call'.reply = call'.awaited, call'.at # <<"idle">> => call'.offset = 0,
           ~Succeeded'
    PROVE  IInv'
<1>1. Exchange' /\ Fresh' /\ Mounting' /\ Freed'
  BY DEF Exchange, Preparing, At, Fresh, Mounting, Freed, Acting, Succeeded, Idle
<1> QED
  BY <1>1 DEF IInv

LEMMA BetweenNext ==
    ASSUME IInv, \/ Begin \/ Connect \/ Disconnect
                 \/ DebugConnectionStart \/ DebugConnectionStop
    PROVE  IInv'
<1>0. /\ Types /\ Line /\ call.calls \in 0..MaxCalls
      /\ call.calls < MaxCalls => call.calls + 1 \in 0..MaxCalls
  BY BoundsAssumption DEF IInv, Types, Calls
<1>a. PICK none \in Calls : /\ none = NoCall /\ none.offset = 0 /\ none.reply = none.awaited
                            /\ none.at = <<"idle">> /\ none.result = "none"
  BY NoCallFields
<1>1. ASSUME NEW i \in Images, NEW op \in Mounts, NEW place \in {<<"service">>, <<"support">>},
             Call(op, i, place)
      PROVE  IInv'
  <2>1. /\ call.calls + 1 \in 0..MaxCalls
        /\ call' = [none EXCEPT !.op = op, !.at = place, !.image = i, !.calls = call.calls + 1]
        /\ UNCHANGED <<attached, lockdown, conn, device>>
    BY <1>0, <1>1, <1>a DEF Call
  <2>2. op \in Ops /\ place \in Places /\ i \in Names
    BY DEF Ops, Places, Names
  <2>3. /\ call' \in Calls /\ call'.offset = 0 /\ call'.reply = call'.awaited
        /\ call'.result = "none" /\ call'.at = place /\ call'.image = i
    <3>1. /\ call' \in Calls /\ call'.op = op /\ call'.at = place
          /\ call'.offset = none.offset
          /\ call'.image = i /\ call'.result = none.result
          /\ call'.reply = none.reply /\ call'.awaited = none.awaited
      BY <2>1, <2>2 DEF Calls
    <3> QED
      BY <1>a, <3>1
  <2>4. Types' /\ Line'
    BY <1>0, <2>1, <2>3, ConstantTypes DEF Types, Line
  <2>5. ~Succeeded'
    BY <2>3 DEF Succeeded
  <2> QED
    BY <2>3, <2>4, <2>5, NotActingNext
<1>2. ASSUME NEW op \in Ops \ Mounts, NEW result \in {"success", "failed"}, Between(op, result),
             lockdown' \in {"closed", "open", "session"}
      PROVE  IInv'
  <2>1. /\ call.calls + 1 \in 0..MaxCalls
        /\ call' = [none EXCEPT !.op = op, !.calls = call.calls + 1, !.result = result]
        /\ UNCHANGED <<attached, conn, device>>
    BY <1>0, <1>2, <1>a DEF Between
  <2>2. <<"idle">> \in Places /\ "none" \in Names
    BY DEF Places, Names
  <2>3. /\ call' \in Calls /\ call'.offset = 0 /\ call'.reply = call'.awaited
        /\ call'.at = <<"idle">> /\ call'.op = op
    <3>1. /\ call' \in Calls /\ call'.op = op /\ call'.at = none.at
          /\ call'.offset = none.offset
          /\ call'.reply = none.reply /\ call'.awaited = none.awaited
      BY <2>1, <2>2 DEF Calls
    <3> QED
      BY <1>a, <3>1
  <2>4. Types' /\ Line'
    BY <1>0, <1>2, <2>1, <2>3, ConstantTypes DEF Types, Line
  <2>5. ~Succeeded'
    BY <2>3 DEF Succeeded
  <2> QED
    BY <2>3, <2>4, <2>5, NotActingNext
<1>3. CASE Begin
  BY <1>1, <1>3 DEF Begin, Mounts
<1>4. /\ {"Connect", "Disconnect", "AMDebugConnectionStart", "AMDebugConnectionStop"}
            \subseteq Ops \ Mounts
      /\ lockdown \in {"closed", "open", "session"}
  BY <1>0 DEF Ops, Mounts, Types
<1>5. CASE Connect \/ Disconnect
  BY <1>2, <1>4, <1>5 DEF Connect, Disconnect, ConnectFails, ConnectOpens
<1>6. CASE DebugConnectionStart
  BY <1>2, <1>4, <1>6 DEF DebugConnectionStart, ConnectFails
<1>7. CASE DebugConnectionStop
  BY <1>2, <1>4, <1>7 DEF DebugConnectionStop
<1> QED
  BY <1>3, <1>5, <1>6, <1>7

LEMMA FailsNext ==
    ASSUME IInv, Fails, UNCHANGED <<attached, conn>>, device' \in Devices,
           lockdown' \in {"closed", "open", "session"}
    PROVE  IInv'
<1>1. /\ call' \in Calls /\ call'.at = <<"idle">> /\ call'.result = "failed"
      /\ call'.image = call.image /\ call'.offset = call.offset
      /\ call'.reply = call.reply /\ call'.awaited = call.awaited
  BY ReturnedFields DEF Fails, IInv, Types
<1>2. Types' /\ Line'
  BY <1>1 DEF IInv, Types, Line
<1>3. ~Succeeded' /\ call'.reply = call'.awaited
  BY <1>1 DEF Succeeded, IInv
<1> QED
  BY <1>1, <1>2, <1>3, NotActingNext

LEMMA LeaveNext ==
    ASSUME IInv, \/ PathToDeviceSupport \/ ServiceFails \/ CopyFails \/ SendFails
                 \/ \E cmd \in Commands \union {"bytes"} : ReceiveNothing(cmd)
    PROVE  IInv'
<1>0. Types /\ Line /\ device \in Devices /\ lockdown \in {"closed", "open", "session"}
  BY DEF IInv, Types
<1>1. CASE PathToDeviceSupport
  <2>1. CASE Restarted
    <3>1. PICK none \in Calls : /\ none = NoCall /\ none.offset = 0 /\ none.reply = none.awaited
                                /\ none.at = <<"idle">> /\ none.result = "none"
      BY NoCallFields
    <3>2. /\ call' = [none EXCEPT !.calls = call.calls] /\ call.calls \in 0..MaxCalls
          /\ attached' = TRUE /\ lockdown' = "closed" /\ conn' = NoConnection /\ device' = device
      BY <1>0, <2>1, <3>1 DEF Restarted, Types, Calls
    <3>3. /\ call' \in Calls /\ call'.at = none.at /\ call'.offset = none.offset
          /\ call'.result = none.result /\ call'.image = none.image
          /\ call'.reply = none.reply /\ call'.awaited = none.awaited
      BY <3>2 DEF Calls
    <3>4. /\ ~Succeeded' /\ call'.reply = call'.awaited
      BY <3>1, <3>3 DEF Succeeded
    <3>5. Types'
      BY <1>0, <3>1, <3>2, <3>3, ConstantTypes DEF Types
    <3>6. Line'
      BY <3>2 DEF Line, NoConnection
    <3> QED
      BY <3>1, <3>3, <3>4, <3>5, <3>6, NotActingNext
  <2>2. CASE Fails /\ lockdown' = "closed" /\ UNCHANGED <<attached, conn, device>>
    BY <1>0, <2>2, FailsNext
  <2>3. CASE /\ At(<<"support">>) /\ lockdown' = "closed" /\ call' = Goes(<<"service">>)
             /\ UNCHANGED <<attached, conn, device>>
    <3>1. /\ call' \in Calls /\ call'.at = <<"service">>
          /\ call'.image = call.image /\ call'.offset = call.offset
          /\ call'.reply = call.reply /\ call'.awaited = call.awaited
      BY <1>0, <2>3 DEF Goes, Calls, Places, Types
    <3>2. Types' /\ Line'
      BY <1>0, <2>3, <3>1 DEF Types, Line, At
    <3>3. call.offset = 0
      BY <2>3 DEF IInv, Fresh, At
    <3>4. ~Succeeded' /\ call'.reply = call'.awaited
      BY <3>1 DEF Succeeded, Idle, IInv
    <3> QED
      BY <3>1, <3>2, <3>3, <3>4, NotActingNext
  <2> QED
    BY <1>1, <2>1, <2>2, <2>3 DEF PathToDeviceSupport, Fails
<1>2. CASE ServiceFails
  BY <1>0, <1>2, FailsNext DEF ServiceFails, ConnectFails, ConnectOpens
<1>3. CASE CopyFails
  <2>1. device' \in Devices
    BY <1>0, <1>3 DEF CopyFails, Devices
  <2> QED
    BY <1>0, <1>3, <2>1, FailsNext DEF CopyFails
<1>4. CASE SendFails
  BY <1>0, <1>4, FailsNext DEF SendFails
<1>5. CASE \E cmd \in Commands \union {"bytes"} : ReceiveNothing(cmd)
  BY <1>0, <1>5, FailsNext DEF ReceiveNothing
<1> QED
  BY <1>1, <1>2, <1>3, <1>4, <1>5

-----------------------------------------------------------------------------
(* The steps of a call that goes on.                                       *)

LEMMA PreparedNext ==
    ASSUME Types', Line', Preparing', Quiet',
           call'.at \in {<<"version">>} \union ({"send"} \X {"LookupImage", "ReceiveBytes"})
              => call'.offset = 0,
           call'.at = <<"send", "Hangup">> => device'.mounted = call'.image,
           Freed', call'.reply = call'.awaited
    PROVE  IInv'
<1>1. /\ call'.at # <<"idle">> /\ call'.at # <<"send", "bytes">>
      /\ call'.at \notin {<<"support">>, <<"service">>}
      /\ call'.at \notin {"receive"} \X (Commands \union {"bytes"})
      /\ call'.at # <<"receive", "Hangup">> /\ call'.at # <<"receive", "MountImage">>
  BY DEF Preparing, Commands
<1>2. Exchange'
  BY <1>1 DEF Exchange, At
<1>3. Fresh'
  BY <1>1 DEF Fresh, Commands
<1>4. Mounting'
  BY <1>1 DEF Mounting, At, Succeeded, Idle, Commands
<1> QED
  BY <1>2, <1>3, <1>4 DEF IInv

LEMMA PrepareNext ==
    ASSUME IInv, ServiceStarts \/ Version \/ Copy
    PROVE  IInv'
<1>0. Types /\ Line /\ call.reply = call.awaited
  BY DEF IInv
<1>1. ASSUME NEW place \in Places, call' = Goes(place)
      PROVE  /\ call' \in Calls /\ call'.at = place
             /\ call'.image = call.image /\ call'.offset = call.offset
             /\ call'.uploads = call.uploads
             /\ call'.reply = call'.awaited
  BY <1>0, <1>1 DEF Goes, Calls, Types
<1>2. CASE ServiceStarts
  <2>1. /\ <<"send", "LookupImage">> \in Places /\ call' = Goes(<<"send", "LookupImage">>)
        /\ lockdown' = "closed" /\ call.at = <<"service">>
        /\ UNCHANGED <<attached, lockdown, device>>
    BY <1>2 DEF ServiceStarts, Places, Commands, At
  <2>2. conn' = [NoConnection EXCEPT !.up = TRUE]
    BY <1>2 DEF ServiceStarts
  <2>3. /\ conn' \in Conns /\ conn'.todo = <<>> /\ conn'.in = <<>> /\ conn'.stream = NoStream
    BY <2>2, ConstantTypes DEF NoConnection, Conns
  <2>4. Types'
    BY <1>0, <1>1, <2>1, <2>3 DEF Types
  <2>5. Line' /\ Quiet'
    BY <2>3 DEF Line, Quiet, Rested
  <2>6. Preparing' /\ Freed' /\ call.offset = 0
    BY <1>1, <2>1 DEF Preparing, Commands, Freed, IInv, Fresh, Succeeded, Idle, At
  <2> QED
    BY <1>1, <2>1, <2>4, <2>5, <2>6, PreparedNext
<1>3. ASSUME call.at \in {<<"version">>, <<"copy">>},
             NEW place \in {<<"copy">>, <<"send", "ReceiveBytes">>, <<"send", "MountImage">>},
             call' = Goes(place), place = <<"send", "ReceiveBytes">> => call.at = <<"version">>,
             lockdown' \in {"closed", "open", "session"}, device' \in Devices,
             UNCHANGED <<attached, conn>>
      PROVE  IInv'
  <2>1. /\ place \in Places /\ call' \in Calls /\ call'.at = place
        /\ call'.image = call.image /\ call'.offset = call.offset
        /\ call'.uploads = call.uploads /\ call'.reply = call'.awaited
    BY <1>1, <1>3 DEF Places, Commands
  <2>2. Types' /\ Line'
    BY <1>0, <1>3, <2>1 DEF Types, Line
  <2>3. Preparing /\ Quiet /\ call.uploads
    BY <1>3 DEF Preparing, IInv, Exchange, Freed, At
  <2>4. Preparing' /\ Quiet' /\ Freed'
    BY <1>3, <2>1, <2>3 DEF Preparing, Commands, Quiet, Rested, Freed, Succeeded, Idle
  <2>5. place = <<"send", "ReceiveBytes">> => call.offset = 0
    BY <1>3 DEF IInv, Fresh
  <2>6. place # <<"version">> /\ place # <<"send", "LookupImage">> /\ place # <<"send", "Hangup">>
    OBVIOUS
  <2> QED
    BY <2>1, <2>2, <2>4, <2>5, <2>6, PreparedNext
<1>4. CASE Version
  <2>1. lockdown' \in {"closed", "open", "session"} /\ device' \in Devices
    BY <1>0, <1>4 DEF Version, ConnectFails, ConnectOpens, Types
  <2> QED
    BY <1>3, <1>4, <2>1 DEF Version, At
<1>5. CASE Copy
  <2>1. device' \in Devices
    <3>1. call.image \in Names
      BY <1>0 DEF Types, Calls
    <3> QED
      BY <1>0, <1>5, <3>1 DEF Copy, Devices, Types
  <2> QED
    BY <1>3, <1>5, <2>1 DEF Copy, At
<1> QED
  BY <1>2, <1>4, <1>5

LEMMA SendNext ==
    ASSUME IInv, NEW cmd \in Commands, Send(cmd)
    PROVE  IInv'
<1>0. /\ Types /\ Line /\ call.reply = call.awaited /\ call \in Calls /\ conn \in Conns
      /\ call.image \in Images /\ Announced(call.image) \in Nat /\ call.n \in Nat
      /\ call.at = <<"send", cmd>>
  BY ConstantTypes DEF IInv, Types, Calls, Send, At
<1>1. /\ call' \in Calls /\ call'.at = <<"receive", cmd>> /\ call'.n = call.n + 1
      /\ call'.image = call.image /\ call'.offset = call.offset
      /\ call'.uploads = call.uploads
      /\ call'.reply = call.reply /\ call'.awaited = call.awaited
  <2>1. <<"receive", cmd>> \in Places
    BY DEF Places
  <2>2. PICK k \in Nat : k = call.n + 1
    BY <1>0
  <2>3. PICK place \in Places : place = <<"receive", cmd>>
    BY <2>1
  <2>4. call' = [[call EXCEPT !.at = place] EXCEPT !.n = k]
    BY <1>0, <2>2, <2>3 DEF Send, Goes, Calls
  <2> QED
    BY <1>0, <2>2, <2>3, <2>4 DEF Calls
<1>2. Quiet
  BY <1>0 DEF IInv, Exchange, Preparing
<1> DEFINE m == Message(cmd, call.n + 1, call.image, 0, Announced(call.image))
<1>3. m \in Messages /\ m.cmd = cmd /\ m.from = 0 /\ cmd # "bytes"
  BY <1>0, ConstantTypes DEF Message, Messages, Commands
<1>4. UNCHANGED <<attached, lockdown, device>> /\ (~conn.up => conn' = conn)
  BY DEF Send
<1>7. Types' /\ Line' /\ Asked(cmd)'
  <2>1. CASE conn.up
    <3>1. conn' = [conn EXCEPT !.todo = Append(conn.todo, m)] /\ conn.todo = <<>>
      BY <1>2, <2>1 DEF Send, Quiet, Rested
    <3> HIDE DEF m
    <3>2. /\ Append(<<>>, m) \in Seq(Messages) /\ Len(Append(<<>>, m)) = 1
          /\ Append(<<>>, m)[1] = m
      BY <1>3, EmptySeq, AppendFields
    <3>3. /\ conn' \in Conns /\ Len(conn'.todo) = 1 /\ conn'.todo[1] = m
          /\ conn'.in = <<>> /\ conn'.stream = NoStream
      BY <1>0, <1>2, <2>1, <3>1, <3>2 DEF Quiet, Rested, Conns
    <3>4. Types' /\ Line'
      BY <1>0, <1>1, <1>3, <1>4, <3>3 DEF Types, Line
    <3>5. Asked(cmd)'
      BY <1>1, <3>3 DEF Asked, m
    <3> QED
      BY <3>4, <3>5
  <2>2. CASE ~conn.up
    BY <1>0, <1>1, <1>2, <1>4, <2>2 DEF Types, Line, Asked, Quiet
  <2> QED
    BY <2>1, <2>2
<1>8. Exchange'
  <2>1. ASSUME NEW other \in Commands, call'.at = <<"receive", other>> PROVE other = cmd
    BY <1>1, <2>1
  <2>2. ~Preparing' /\ ~At(<<"send", "bytes">>)' /\ ~At(<<"receive", "bytes">>)'
    BY <1>1, <1>3 DEF Preparing, At
  <2> QED
    BY <1>7, <2>1, <2>2 DEF Exchange, At
<1>9. Fresh'
  BY <1>0, <1>1 DEF IInv, Fresh
<1>10. Mounting'
  <2>1. conn'.in = <<>> /\ ~Succeeded'
    BY <1>1, <1>7 DEF Asked, Succeeded, Idle
  <2>2. At(<<"receive", "Hangup">>)' => cmd = "Hangup"
    BY <1>1 DEF At
  <2> QED
    BY <1>0, <1>1, <1>4, <2>1, <2>2 DEF IInv, Mounting, At
<1>11. Freed'
  BY <1>0, <1>1, <1>4 DEF IInv, Freed, Acting, Succeeded, Idle, At
<1> QED
  BY <1>0, <1>1, <1>7, <1>8, <1>9, <1>10, <1>11 DEF IInv

LEMMA SendBytesNext ==
    ASSUME IInv, SendBytes
    PROVE  IInv'
<1>0. /\ Types /\ Line /\ call.reply = call.awaited /\ call \in Calls /\ conn \in Conns
      /\ call.image \in Images /\ Announced(call.image) \in Nat /\ call.n \in Nat
      /\ call.at = <<"send", "bytes">> /\ call.offset \in Nat
      /\ call.offset < Announced(call.image)
      /\ UNCHANGED <<attached, lockdown, device>> /\ (~conn.up => conn' = conn)
  BY ConstantTypes DEF IInv, Types, Calls, SendBytes, At
<1>1. PICK next \in Nat : /\ next = call.offset + Piece
                          /\ call.offset < next /\ next <= Announced(call.image)
  <2>1. Piece \in Nat /\ Piece > 0 /\ call.offset + Piece <= Announced(call.image)
    BY <1>0, BoundsAssumption DEF Piece
  <2> QED
    BY <1>0, <2>1
<1>2. /\ call' \in Calls /\ call'.at = <<"send", "bytes">> /\ call'.n = call.n
      /\ call'.image = call.image /\ call'.offset = next
      /\ call'.uploads = call.uploads
      /\ call'.reply = call.reply /\ call'.awaited = call.awaited
  <2>1. call' = [call EXCEPT !.offset = next]
    BY <1>0, <1>1 DEF SendBytes, Calls
  <2> QED
    BY <1>0, <2>1 DEF Calls
<1>3. Len(conn.in) = 0 /\ (conn.up => Streaming)
  BY <1>0 DEF IInv, Exchange, At, Delivered
<1> DEFINE m == Message("bytes", call.n, call.image, call.offset, next)
<1>4. /\ m \in Messages /\ m.cmd = "bytes" /\ m.from = call.offset /\ m.to = next
  BY <1>0, ConstantTypes DEF Message, Messages
<1>5. ASSUME conn.up PROVE Types' /\ Line' /\ Delivered(0)'
  <2>1. conn' = [conn EXCEPT !.todo = Append(conn.todo, m)]
    BY <1>1, <1>5 DEF SendBytes
  <2> HIDE DEF m
  <2>2. /\ Append(conn.todo, m) \in Seq(Messages) /\ Len(conn.todo) \in Nat
        /\ Len(Append(conn.todo, m)) = Len(conn.todo) + 1 /\ Append(conn.todo, m) # <<>>
        /\ Append(conn.todo, m)[Len(conn.todo) + 1] = m
        /\ \A i \in 1..Len(conn.todo) : Append(conn.todo, m)[i] = conn.todo[i]
        /\ conn.todo = <<>> <=> Len(conn.todo) = 0
    BY <1>0, <1>4, ConnFields, AppendFields
  <2>3. /\ conn' \in Conns /\ conn'.todo = Append(conn.todo, m)
        /\ conn'.in = conn.in /\ conn'.stream = conn.stream /\ conn'.up
    BY <1>0, <1>5, <2>1, <2>2 DEF Conns
  <2>4. Types'
    BY <1>0, <1>1, <1>2, <2>3 DEF Types
  <2>5. /\ conn.stream # NoStream /\ conn.stream.cmd = "ReceiveBytes" /\ conn.stream.n = call.n
        /\ conn.stream.to = Announced(call.image) /\ Reached = call.offset
        /\ conn.stream.from <= conn.stream.to
        /\ Consecutive(conn.todo, conn.stream.from, conn.stream.to)
    BY <1>0, <1>3, <1>5 DEF Line, Streaming
  <2>6. Consecutive(conn'.todo, conn.stream.from, conn.stream.to)
    <3> SUFFICES ASSUME NEW i \in 1..Len(conn'.todo)
                 PROVE  /\ conn'.todo[i].cmd = "bytes"
                        /\ conn'.todo[i].from < conn'.todo[i].to
                        /\ conn'.todo[i].to <= conn.stream.to
                        /\ conn'.todo[i].from = IF i = 1 THEN conn.stream.from
                                                ELSE conn'.todo[i - 1].to
      BY DEF Consecutive
    <3>1. CASE i \in 1..Len(conn.todo)
      <4>1. i = 1 \/ i - 1 \in 1..Len(conn.todo)
        BY <2>2, <3>1
      <4> QED
        BY <2>2, <2>3, <2>5, <3>1, <4>1 DEF Consecutive
    <3>2. CASE i = Len(conn.todo) + 1
      <4>1. conn'.todo[i] = m
        BY <2>2, <2>3, <3>2
      <4>2. CASE Len(conn.todo) = 0
        BY <1>1, <1>4, <2>2, <2>5, <3>2, <4>1, <4>2 DEF Reached
      <4>3. CASE Len(conn.todo) # 0
        <5>1. /\ i # 1 /\ i - 1 \in 1..Len(conn.todo)
              /\ conn'.todo[i - 1] = conn.todo[Len(conn.todo)]
          BY <2>2, <2>3, <3>2, <4>3
        <5> QED
          BY <1>1, <1>4, <2>2, <2>5, <4>1, <4>3, <5>1 DEF Reached
      <4> QED
        BY <4>2, <4>3
    <3> QED
      BY <2>2, <2>3, <3>1, <3>2
  <2>7. Line'
    BY <2>3, <2>5, <2>6 DEF Line
  <2>8. Reached' = next
    BY <1>4, <2>2, <2>3 DEF Reached
  <2>9. Delivered(0)'
    BY <1>2, <1>3, <2>3, <2>5, <2>8 DEF Delivered, Streaming
  <2> QED
    BY <2>4, <2>7, <2>9
<1>6. Types' /\ Line' /\ Delivered(0)'
  BY <1>0, <1>1, <1>2, <1>3, <1>5 DEF Types, Line, Delivered, Conns
<1>7. Exchange' /\ Fresh' /\ Mounting' /\ Freed'
  <2>1. ~Preparing' /\ ~Succeeded' /\ ~At(<<"receive", "bytes">>)'
    BY <1>2 DEF Preparing, Commands, Succeeded, Idle, At
  <2>2. \A cmd \in Commands : ~At(<<"receive", cmd>>)'
    BY <1>2 DEF At
  <2>3. Exchange'
    BY <1>6, <2>1, <2>2 DEF Exchange
  <2>4. Fresh' /\ Mounting'
    BY <1>2, <2>1 DEF Fresh, Mounting, At
  <2>5. Freed'
    BY <1>0, <1>2, <2>1 DEF IInv, Freed, Acting, At
  <2> QED
    BY <2>3, <2>4, <2>5
<1> QED
  BY <1>0, <1>2, <1>6, <1>7 DEF IInv

LEMMA BytesSentNext ==
    ASSUME IInv, BytesSent
    PROVE  IInv'
<1>0. /\ Types /\ Line /\ call.reply = call.awaited /\ call \in Calls
      /\ call.image \in Images /\ Announced(call.image) \in Nat /\ call.offset \in Nat
      /\ call.at = <<"send", "bytes">> /\ call.offset = Announced(call.image) /\ Delivered(0)
      /\ UNCHANGED <<attached, lockdown, conn, device>>
  BY ConstantTypes DEF IInv, Types, Calls, BytesSent, Exchange, At
<1>1. /\ call' \in Calls /\ call'.at = <<"receive", "bytes">> /\ call'.n = call.n
      /\ call'.image = call.image /\ call'.offset = call.offset
      /\ call'.uploads = call.uploads
      /\ call'.reply = call.reply /\ call'.awaited = call.awaited
  <2>1. <<"receive", "bytes">> \in Places
    BY DEF Places
  <2> QED
    BY <1>0, <2>1 DEF BytesSent, Goes, Calls
<1>2. Types' /\ Line'
  BY <1>0, <1>1 DEF Types, Line
<1>3. ~Preparing' /\ ~Succeeded' /\ \A cmd \in Commands : ~At(<<"receive", cmd>>)'
  BY <1>1 DEF Preparing, Commands, Succeeded, Idle, At
<1>4. Exchange'
  BY <1>0, <1>1, <1>3 DEF Exchange, At, Delivered, Streaming, Reached, Rested
<1>5. Fresh' /\ Mounting'
  BY <1>1, <1>3 DEF Fresh, Mounting, At
<1>6. Freed'
  BY <1>0, <1>1, <1>3 DEF IInv, Freed, Acting, At
<1> QED
  BY <1>0, <1>1, <1>2, <1>4, <1>5, <1>6 DEF IInv

\* Where a reply leads.
LEMMA ContinuesTo ==
    ASSUME NEW cmd \in Commands \union {"bytes"}, NEW reply \in Replies
    PROVE  /\ cmd = "LookupImage" /\ reply.kind = "present"
                 => Continues(cmd, reply) = <<"send", "MountImage">>
           /\ cmd = "LookupImage" /\ reply.kind # "present"
                 => Continues(cmd, reply) = <<"version">>
           /\ cmd = "ReceiveBytes" /\ reply.kind = "Ack"
                 => Continues(cmd, reply) = <<"send", "bytes">>
           /\ cmd = "ReceiveBytes" /\ reply.kind # "Ack"
                 => Continues(cmd, reply) = <<"send", "MountImage">>
           /\ cmd = "bytes" => Continues(cmd, reply) = <<"send", "MountImage">>
           /\ cmd = "MountImage" /\ reply.kind = "Complete"
                 => Continues(cmd, reply) = <<"send", "Hangup">>
           /\ cmd = "MountImage" /\ reply.kind # "Complete"
                 => Continues(cmd, reply) = <<"idle">>
           /\ cmd = "Hangup" => Continues(cmd, reply) = <<"idle">>
<1>1. CASE cmd = "LookupImage"
  BY <1>1 DEF Continues
<1>2. CASE cmd = "ReceiveBytes"
  BY <1>2 DEF Continues
<1>3. CASE cmd = "bytes"
  BY <1>3 DEF Continues
<1>4. CASE cmd = "MountImage"
  BY <1>4 DEF Continues
<1>5. CASE cmd = "Hangup"
  BY <1>5 DEF Continues
<1> QED
  BY <1>1, <1>2, <1>3, <1>4, <1>5 DEF Commands

LEMMA ReceiveNext ==
    ASSUME IInv, NEW cmd \in Commands \union {"bytes"}, Receive(cmd)
    PROVE  IInv'
<1> DEFINE reply == conn.in[1]
           next == Continues(cmd, reply)
<1>0. /\ Types /\ Line /\ call.reply = call.awaited /\ call \in Calls /\ conn \in Conns
      /\ call.image \in Images /\ Announced(call.image) \in Nat
      /\ call.at = <<"receive", cmd>> /\ conn.in # <<>>
      /\ UNCHANGED <<attached, lockdown, device>>
  BY ConstantTypes DEF IInv, Types, Receive, At
<1>1. /\ conn.in \in Seq(Replies) /\ Len(conn.in) \in Nat /\ Len(conn.in) >= 1
      /\ Head(conn.in) = reply /\ reply \in Replies
      /\ Tail(conn.in) \in Seq(Replies) /\ Len(Tail(conn.in)) = Len(conn.in) - 1
      /\ \A i \in 1..Len(Tail(conn.in)) : Tail(conn.in)[i] = conn.in[i + 1]
      /\ Len(conn.in) = 1 => Tail(conn.in) = <<>>
  BY <1>0, ConnFields, TailFields
<1>2. /\ conn' \in Conns /\ conn'.in = Tail(conn.in) /\ conn'.up = conn.up
      /\ conn'.todo = conn.todo /\ conn'.stream = conn.stream
  BY <1>0, <1>1 DEF Receive, Conns
<1>3. /\ reply.cmd = cmd /\ reply.n = call.n
      /\ \/ cmd \in Commands /\ Answered(cmd)
         \/ cmd = "ReceiveBytes" /\ Accepted
         \/ /\ cmd = "bytes" /\ Len(conn.in) = 1 /\ (conn.up => Rested)
  <2>1. CASE cmd \in Commands
    <3>1. Answered(cmd) \/ (cmd = "ReceiveBytes" /\ Accepted)
      BY <1>0, <2>1 DEF IInv, Exchange, At, Asked
    <3> QED
      BY <2>1, <3>1 DEF Answered, Accepted
  <2>2. CASE cmd = "bytes"
    <3>1. Delivered(0)
      BY <1>0, <2>2 DEF IInv, Exchange, At
    <3> QED
      BY <1>1, <2>2, <3>1 DEF Delivered
  <2> QED
    BY <2>1, <2>2
<1> DEFINE heard == Heard(cmd, reply)
<1>4. /\ heard \in Calls /\ heard.op = call.op /\ heard.at = call.at
      /\ heard.image = call.image /\ heard.n = call.n
      /\ heard.offset = call.offset /\ heard.result = call.result
      /\ heard.awaited = heard.reply
      /\ cmd = "LookupImage" /\ reply.kind # "present" => heard.uploads
      /\ call.uploads => heard.uploads
      /\ cmd = "MountImage" /\ reply.kind = "bare" => heard.mute
  BY <1>0, <1>1, <1>3, HeardFields
<1>5. /\ reply.kind # "cut"
      /\ \/ Refuses(cmd, reply) /\ call' = Returned(heard, "failed")
         \/ ~Refuses(cmd, reply) /\ next = <<"idle">> /\ call' = Returned(heard, "success")
         \/ ~Refuses(cmd, reply) /\ next # <<"idle">> /\ call' = [heard EXCEPT !.at = next]
  BY <1>1 DEF Receive
<1>6. Line'
  BY <1>0, <1>2 DEF Line
<1>7. call.uploads \/ lockdown = "closed"
  BY <1>0 DEF IInv, Freed, Acting
<1>8. Answered(cmd) \/ cmd = "bytes" => Quiet'
  BY <1>1, <1>2, <1>3 DEF Answered, Quiet, Rested
<1>9. /\ cmd = "LookupImage" /\ reply.kind = "present" => next = <<"send", "MountImage">>
      /\ cmd = "LookupImage" /\ reply.kind # "present" => next = <<"version">>
      /\ cmd = "ReceiveBytes" /\ reply.kind = "Ack" => next = <<"send", "bytes">>
      /\ cmd = "ReceiveBytes" /\ reply.kind # "Ack" => next = <<"send", "MountImage">>
      /\ cmd = "bytes" => next = <<"send", "MountImage">>
      /\ cmd = "MountImage" /\ reply.kind = "Complete" => next = <<"send", "Hangup">>
      /\ cmd = "MountImage" /\ reply.kind # "Complete" => next = <<"idle">>
      /\ cmd = "Hangup" => next = <<"idle">>
  BY <1>1, ContinuesTo
<1>10. cmd \in {"LookupImage", "ReceiveBytes", "bytes", "MountImage", "Hangup"}
  BY DEF Commands
<1> HIDE DEF heard, next
<1>11. CASE Refuses(cmd, reply) /\ call' = Returned(heard, "failed")
  <2>1. /\ call' \in Calls /\ call'.at = <<"idle">> /\ call'.result = "failed"
        /\ call'.image = call.image /\ call'.offset = call.offset
        /\ call'.reply = call'.awaited
    BY <1>4, <1>11, ReturnedFields
  <2>2. Types' /\ ~Succeeded'
    BY <1>0, <1>2, <2>1 DEF Types, Succeeded
  <2> QED
    BY <1>6, <2>1, <2>2, NotActingNext
<1>12. CASE ~Refuses(cmd, reply) /\ next = <<"idle">> /\ call' = Returned(heard, "success")
  <2>1. /\ call' \in Calls /\ call'.at = <<"idle">> /\ call'.result = "success"
        /\ call'.image = call.image /\ call'.offset = call.offset
        /\ call'.reply = call'.awaited
        /\ call'.uploads = heard.uploads /\ call'.mute = heard.mute
    BY <1>4, <1>12, ReturnedFields
  <2>2. Types'
    BY <1>0, <1>2, <2>1 DEF Types
  <2>3. \/ cmd = "MountImage" /\ reply.kind # "Complete"
        \/ cmd = "Hangup"
    BY <1>9, <1>10, <1>12
  <2>4. Answered(cmd) /\ Quiet'
    BY <1>3, <1>8, <2>3
  <2>5. call'.mute \/ device'.mounted = call'.image
    <3>1. CASE cmd = "MountImage" /\ reply.kind # "Complete"
      <4>1. reply.kind = "bare"
        BY <1>5, <1>12, <2>4, <3>1 DEF Answered, Refuses, MounterError
      <4> QED
        BY <1>4, <2>1, <3>1, <4>1
    <3>2. CASE cmd = "Hangup"
      BY <1>0, <2>1, <3>2 DEF IInv, Mounting, At
    <3> QED
      BY <2>3, <3>1, <3>2
  <2>6. Exchange' /\ Fresh'
    BY <2>1 DEF Exchange, Preparing, Fresh, At
  <2>7. Mounting'
    BY <2>1, <2>4, <2>5 DEF Mounting, At
  <2>8. Freed'
    BY <1>0, <1>4, <1>7, <2>1 DEF Freed, At
  <2> QED
    BY <1>6, <2>1, <2>2, <2>6, <2>7, <2>8 DEF IInv
<1>13. CASE ~Refuses(cmd, reply) /\ next # <<"idle">> /\ call' = [heard EXCEPT !.at = next]
  <2>0. next \in Places /\ (next = <<"send", "bytes">> \/ next = <<"send", "MountImage">>
                            \/ next = <<"version">> \/ next = <<"send", "Hangup">>)
    BY <1>9, <1>10, <1>13 DEF Places, Commands
  <2>1. /\ call' \in Calls /\ call'.at = next /\ call'.image = call.image
        /\ call'.offset = call.offset /\ call'.n = call.n
        /\ call'.reply = call'.awaited
        /\ call'.uploads = heard.uploads
    BY <1>4, <1>13, <2>0 DEF Calls
  <2>2. Types'
    BY <1>0, <1>2, <2>1 DEF Types
  <2>3. Freed'
    <3>1. call'.uploads \/ lockdown' = "closed"
      BY <1>0, <1>4, <1>7, <2>1
    <3>2. next = <<"version">> => call'.uploads
      BY <1>4, <1>9, <1>10, <2>1
    <3>3. next # <<"copy">>
      BY <2>0
    <3> QED
      BY <2>1, <3>1, <3>2, <3>3 DEF Freed, At
  <2>4. CASE next = <<"send", "bytes">>
    <3>1. cmd = "ReceiveBytes" /\ reply.kind = "Ack"
      BY <1>9, <1>10, <2>4
    <3>2. Accepted
      BY <1>3, <3>1 DEF Answered
    <3>3. Delivered(0)'
      BY <1>1, <1>2, <2>1, <3>2 DEF Accepted, Delivered, Streaming, Reached, Rested
    <3>4. ~Preparing' /\ ~Succeeded' /\ \A c \in Commands \union {"bytes"} : ~At(<<"receive", c>>)'
      BY <2>1, <2>4 DEF Preparing, Commands, Succeeded, Idle, At
    <3>5. Exchange' /\ Fresh' /\ Mounting'
      BY <2>1, <2>4, <3>3, <3>4 DEF Exchange, Fresh, Mounting, At, Commands
    <3> QED
      BY <1>6, <2>1, <2>2, <2>3, <3>5 DEF IInv
  <2>5. CASE next # <<"send", "bytes">>
    <3>1. Answered(cmd) \/ cmd = "bytes"
      BY <1>3, <1>9, <2>5 DEF Accepted
    <3>2. Quiet' /\ Preparing'
      BY <1>8, <2>0, <2>1, <2>5, <3>1 DEF Preparing, Commands
    <3>3. next = <<"version">> => call'.offset = 0
      BY <1>0, <1>9, <1>10, <2>1 DEF IInv, Fresh
    <3>4. ASSUME next = <<"send", "Hangup">> PROVE device'.mounted = call'.image
      <4>1. cmd = "MountImage" /\ reply.kind = "Complete"
        BY <1>9, <1>10, <3>4
      <4> QED
        BY <1>0, <2>1, <4>1 DEF IInv, Mounting, At
    <3>5. next # <<"send", "LookupImage">> /\ next # <<"send", "ReceiveBytes">>
      BY <2>0
    <3> QED
      BY <1>6, <2>1, <2>2, <2>3, <3>2, <3>3, <3>4, <3>5, PreparedNext
  <2> QED
    BY <2>4, <2>5
<1> QED
  BY <1>5, <1>11, <1>12, <1>13

-----------------------------------------------------------------------------
(* The image mounter's steps, and the end of its connection.               *)

LEMMA ConnNext ==
    ASSUME IInv, UNCHANGED <<lockdown, call>>, attached' \in BOOLEAN, device' \in Devices,
           conn' \in Conns, Line', Exchange', Mounting'
    PROVE  IInv'
  BY DEF IInv, Types, Fresh, Freed, Acting, Succeeded, Idle, At

\* A command the mounter takes is the one the call waits for, if it still does.
LEMMA CommandKnown ==
    ASSUME IInv, conn.up, conn.todo # <<>>, conn.stream = NoStream
    PROVE  /\ Len(conn.todo) = 1 /\ Tail(conn.todo) = <<>> /\ Head(conn.todo) = conn.todo[1]
           /\ ~Preparing /\ ~Succeeded /\ ~At(<<"send", "bytes">>) /\ ~At(<<"receive", "bytes">>)
           /\ \A cmd \in Commands : At(<<"receive", cmd>>) =>
                 /\ conn.in = <<>> /\ conn.todo[1].cmd = cmd /\ conn.todo[1].n = call.n
                 /\ conn.todo[1].image = call.image
                 /\ conn.todo[1].from = 0 /\ conn.todo[1].to = Announced(call.image)
<1>1. conn \in Conns
  BY DEF IInv, Types
<1>2. Len(conn.todo) = 1
  <2>1. Len(conn.todo) <= 1
    BY DEF IInv, Line
  <2>2. Len(conn.todo) \in Nat /\ Len(conn.todo) # 0
    BY <1>1, ConnFields
  <2>3. \A k \in Nat : k <= 1 /\ k # 0 => k = 1
    OBVIOUS
  <2> QED
    BY <2>1, <2>2, <2>3, Zenon
<1>3. Tail(conn.todo) = <<>> /\ Head(conn.todo) = conn.todo[1]
  BY <1>1, <1>2, ConnFields, TailFields
<1>4. ~Rested /\ ~Streaming
  BY DEF Rested, Streaming
<1>5. ~Quiet /\ ~Delivered(0) /\ ~Delivered(1) /\ \A cmd : ~Answered(cmd)
  BY <1>4 DEF Quiet, Delivered, Answered
<1>6. ~Preparing /\ ~Succeeded /\ ~At(<<"send", "bytes">>) /\ ~At(<<"receive", "bytes">>)
  BY <1>5 DEF IInv, Exchange, Mounting
<1>7. ASSUME NEW cmd \in Commands, At(<<"receive", cmd>>)
      PROVE  /\ conn.in = <<>> /\ conn.todo[1].cmd = cmd /\ conn.todo[1].n = call.n
             /\ conn.todo[1].image = call.image
             /\ conn.todo[1].from = 0 /\ conn.todo[1].to = Announced(call.image)
  <2>1. Asked(cmd)
    BY <1>5, <1>7 DEF IInv, Exchange, Accepted
  <2> QED
    BY <2>1 DEF Asked, Message
<1> QED
  BY <1>2, <1>3, <1>6, <1>7

LEMMA AnswerNext ==
    ASSUME IInv, conn.up, conn.todo # <<>>, conn.stream = NoStream, conn' \in Conns,
           NEW r \in Replies, r.cmd = conn.todo[1].cmd, r.n = conn.todo[1].n,
           conn.todo[1].cmd \in Commands,
           r.cmd = "MountImage" => r.kind \in {"error", "bare", "other", "Complete"},
           conn'.up, conn'.todo = <<>>, conn'.in = Append(conn.in, r),
           IF r.cmd = "ReceiveBytes" /\ r.kind = "Ack" THEN conn'.stream = conn.todo[1]
                                                       ELSE conn'.stream = NoStream,
           device' \in Devices,
           \/ device' = device /\ ~(r.cmd = "MountImage" /\ r.kind = "Complete")
           \/ r.cmd = "MountImage" /\ device'.mounted = conn.todo[1].image,
           UNCHANGED <<attached, lockdown, call>>
    PROVE  IInv'
<1>0. /\ Types /\ conn \in Conns /\ conn.in \in Seq(Replies)
      /\ Len(conn.todo) = 1 /\ conn.todo[1] \in Messages
      /\ conn.todo[1].to \in Nat
  <2>1. Types /\ conn \in Conns
    BY DEF IInv, Types
  <2>2. conn.todo[1] \in Messages /\ conn.in \in Seq(Replies) /\ Len(conn.todo) = 1
    BY <2>1, ConnFields, CommandKnown
  <2> QED
    BY <2>1, <2>2 DEF Messages
<1>1. /\ Len(conn.in) = 0 => Len(conn'.in) = 1 /\ conn'.in[1] = r
      /\ conn.in = <<>> => Len(conn.in) = 0
  BY <1>0, AppendFields
<1>2. /\ ~Preparing /\ ~Succeeded /\ ~At(<<"send", "bytes">>) /\ ~At(<<"receive", "bytes">>)
      /\ \A cmd \in Commands : At(<<"receive", cmd>>) =>
            /\ conn.in = <<>> /\ conn.todo[1].cmd = cmd /\ conn.todo[1].n = call.n
            /\ conn.todo[1].image = call.image
            /\ conn.todo[1].from = 0 /\ conn.todo[1].to = Announced(call.image)
  BY CommandKnown
<1>3. conn.todo[1].from = 0
  BY DEF IInv, Line
<1>4. Line'
  <2>1. CASE conn'.stream = NoStream
    BY <1>0, <2>1 DEF Line
  <2>2. CASE conn'.stream = conn.todo[1] /\ r.cmd = "ReceiveBytes"
    <3>1. Len(conn'.todo) = 0
      OBVIOUS
    <3> QED
      BY <1>0, <1>3, <2>2, <3>1 DEF Line, Consecutive, NoStream, Message
  <2> QED
    BY <2>1, <2>2
<1>5. ASSUME NEW cmd \in Commands, At(<<"receive", cmd>>)
      PROVE  Answered(cmd)' \/ (cmd = "ReceiveBytes" /\ Accepted')
  <2>1. /\ Len(conn'.in) = 1 /\ conn'.in[1] = r /\ r.cmd = cmd /\ r.n = call.n
    BY <1>1, <1>2, <1>5
  <2>2. CASE r.cmd = "ReceiveBytes" /\ r.kind = "Ack"
    <3>1. /\ conn'.stream = conn.todo[1] /\ conn.todo[1].n = call.n /\ conn.todo[1].from = 0
          /\ conn.todo[1].to = Announced(call.image) /\ conn'.stream # NoStream
      <4>1. conn'.stream = conn.todo[1] /\ conn.todo[1].cmd = "ReceiveBytes"
        BY <2>2
      <4>2. NoStream.cmd = "none"
        BY DEF NoStream, Message
      <4> QED
        BY <1>2, <1>5, <4>1, <4>2
    <3>2. call.offset = 0
      BY <1>5, <2>1, <2>2 DEF IInv, Fresh, At
    <3>3. Streaming'
      BY <3>1, <3>2 DEF Streaming, Reached
    <3>4. Delivered(1)'
      BY <2>1, <3>3 DEF Delivered
    <3> QED
      BY <2>1, <2>2, <3>4 DEF Accepted
  <2>3. CASE ~(r.cmd = "ReceiveBytes" /\ r.kind = "Ack")
    BY <2>1, <2>3 DEF Answered, Rested
  <2> QED
    BY <2>2, <2>3
<1>6. Exchange'
  BY <1>2, <1>5 DEF Exchange, Preparing, At
<1>7. Mounting'
  <2>1. ~At(<<"send", "Hangup">>)
    <3>1. <<"send", "Hangup">> \in {"send"} \X Commands
      BY DEF Commands
    <3> QED
      BY <1>2, <3>1 DEF Preparing, At
  <2>2. At(<<"receive", "Hangup">>) => r.cmd = "Hangup" /\ device' = device
    BY <1>2 DEF Commands
  <2>3. ASSUME At(<<"receive", "MountImage">>), conn'.in[1].kind = "Complete"
        PROVE  device'.mounted = call.image
    <3>1. /\ conn'.in[1] = r /\ r.cmd = "MountImage" /\ conn.todo[1].image = call.image
      BY <1>1, <1>2, <2>3 DEF Commands
    <3> QED
      BY <2>3, <3>1
  <2> QED
    BY <1>2, <2>1, <2>2, <2>3 DEF IInv, Mounting, At, Succeeded, Idle
<1> QED
  BY <1>0, <1>4, <1>6, <1>7, ConnNext DEF Types

LEMMA CommandsNext ==
    ASSUME IInv, Lookup \/ ReceiveBytes \/ Mount \/ TakeHangup \/ Lockdownd
    PROVE  IInv'
<1> DEFINE ask == conn.todo[1]
<1>0. /\ Types /\ conn \in Conns /\ device \in Devices
      /\ conn.up /\ conn.todo # <<>> /\ conn.stream = NoStream
      /\ UNCHANGED <<attached, lockdown, call>>
  BY DEF IInv, Types, Lookup, ReceiveBytes, Mount, TakeHangup, Lockdownd, Mounter
<1>1. /\ Head(conn.todo) = ask /\ Tail(conn.todo) = <<>> /\ ask \in Messages
      /\ ask.n \in Nat /\ ask.image \in Names
  <2>1. Head(conn.todo) = ask /\ Tail(conn.todo) = <<>> /\ Len(conn.todo) = 1
    BY <1>0, CommandKnown
  <2>2. ask \in Messages
    BY <1>0, <2>1, ConnFields
  <2> QED
    BY <2>1, <2>2 DEF Messages
<1>2. ASSUME NEW cmd \in Commands, NEW kind \in {"error", "bare", "present", "other", "Ack",
                                                 "Complete"}
      PROVE  /\ Reply(cmd, ask.n, kind) \in Replies
             /\ Reply(cmd, ask.n, kind).cmd = cmd /\ Reply(cmd, ask.n, kind).n = ask.n
             /\ Reply(cmd, ask.n, kind).kind = kind
  BY <1>1 DEF Reply, Replies
<1>3. ASSUME NEW r \in Replies
      PROVE  /\ Taken(ask, <<r>>) \in Conns /\ Taken(ask, <<r>>).up
             /\ Taken(ask, <<r>>).todo = <<>> /\ Taken(ask, <<r>>).stream = NoStream
             /\ Taken(ask, <<r>>).in = Append(conn.in, r)
  <2>1. <<r>> \in Seq(Replies) /\ conn.in \o <<r>> = Append(conn.in, r)
    BY <1>0, ConnFields
  <2> QED
    BY <1>0, <1>1, <2>1, TakenFields
<1> HIDE DEF ask
<1>4. CASE Lookup
  <2>1. PICK kind \in {"error", "bare", "present"} :
           conn' = Taken(ask, <<Reply("LookupImage", ask.n, kind)>>)
    BY <1>1, <1>4 DEF Lookup
  <2>2. ask.cmd = "LookupImage" /\ device' = device /\ "LookupImage" \in Commands
    BY <1>1, <1>4 DEF Lookup, Mounter, Commands
  <2> DEFINE r == Reply("LookupImage", ask.n, kind)
  <2>3. r \in Replies /\ r.cmd = "LookupImage" /\ r.n = ask.n /\ r.kind = kind
    BY <1>2, <2>2
  <2> HIDE DEF r
  <2>4. /\ conn' \in Conns /\ conn'.up /\ conn'.todo = <<>> /\ conn'.stream = NoStream
        /\ conn'.in = Append(conn.in, r)
    BY <1>3, <2>1, <2>3 DEF r
  <2> QED
    BY <1>0, <2>2, <2>3, <2>4, AnswerNext DEF ask
<1>5. CASE TakeHangup
  <2> DEFINE r == Reply("Hangup", ask.n, "bare")
  <2>1. conn' = Taken(ask, <<r>>)
    BY <1>1, <1>5 DEF TakeHangup
  <2>2. ask.cmd = "Hangup" /\ device' = device /\ "Hangup" \in Commands
    BY <1>1, <1>5 DEF TakeHangup, Mounter, Commands
  <2>3. r \in Replies /\ r.cmd = "Hangup" /\ r.n = ask.n /\ r.kind = "bare"
    BY <1>2, <2>2
  <2> HIDE DEF r
  <2>4. /\ conn' \in Conns /\ conn'.up /\ conn'.todo = <<>> /\ conn'.stream = NoStream
        /\ conn'.in = Append(conn.in, r)
    BY <1>3, <2>1, <2>3
  <2> QED
    BY <1>0, <2>2, <2>3, <2>4, AnswerNext DEF ask
<1>6. CASE Mount
  <2>1. PICK kind \in {"error", "bare", "other", "Complete"} :
          /\ conn' = Taken(ask, <<Reply("MountImage", ask.n, kind)>>)
          /\ device' = IF kind = "Complete" THEN [device EXCEPT !.mounted = ask.image] ELSE device
    BY <1>1, <1>6 DEF Mount
  <2>2. ask.cmd = "MountImage" /\ "MountImage" \in Commands
    BY <1>1, <1>6 DEF Mount, Mounter, Commands
  <2> DEFINE r == Reply("MountImage", ask.n, kind)
  <2>3. r \in Replies /\ r.cmd = "MountImage" /\ r.n = ask.n /\ r.kind = kind
    BY <1>2, <2>2
  <2> HIDE DEF r
  <2>4. /\ conn' \in Conns /\ conn'.up /\ conn'.todo = <<>> /\ conn'.stream = NoStream
        /\ conn'.in = Append(conn.in, r)
    BY <1>3, <2>1, <2>3 DEF r
  <2>5. /\ device' \in Devices
        /\ kind = "Complete" => device'.mounted = ask.image
        /\ kind # "Complete" => device' = device
    BY <1>0, <1>1, <2>1 DEF Devices
  <2> QED
    BY <1>0, <2>1, <2>2, <2>3, <2>4, <2>5, AnswerNext DEF ask
<1>7. CASE ReceiveBytes
  <2>1. PICK kind \in {"error", "bare", "other", "Ack"} :
          conn' = [Taken(ask, <<Reply("ReceiveBytes", ask.n, kind)>>) EXCEPT
                      !.stream = IF kind = "Ack" THEN ask ELSE @, !.whole = TRUE]
    BY <1>1, <1>7 DEF ReceiveBytes
  <2>2. ask.cmd = "ReceiveBytes" /\ device' = device /\ "ReceiveBytes" \in Commands
    BY <1>1, <1>7 DEF ReceiveBytes, Mounter, Commands
  <2> DEFINE r == Reply("ReceiveBytes", ask.n, kind)
  <2>3. r \in Replies /\ r.cmd = "ReceiveBytes" /\ r.n = ask.n /\ r.kind = kind
    BY <1>2, <2>2
  <2> HIDE DEF r
  <2>4. PICK c \in Conns : /\ c = Taken(ask, <<r>>) /\ c.up /\ c.todo = <<>>
                           /\ c.stream = NoStream /\ c.in = Append(conn.in, r)
    BY <1>3, <2>3
  <2>5. conn' = [c EXCEPT !.stream = IF kind = "Ack" THEN ask ELSE c.stream, !.whole = TRUE]
    BY <2>1, <2>4 DEF r, Conns
  <2>6. /\ conn' \in Conns /\ conn'.up /\ conn'.todo = <<>>
        /\ conn'.stream = (IF kind = "Ack" THEN ask ELSE NoStream)
        /\ conn'.in = Append(conn.in, r)
    BY <1>1, <2>4, <2>5 DEF Conns
  <2> QED
    BY <1>0, <2>2, <2>3, <2>6, AnswerNext DEF ask
<1>8. CASE Lockdownd
  <2>1. PICK kind \in {"error", "bare"} :
           conn' = Taken(ask, <<Reply(ask.cmd, ask.n, kind)>>)
    BY <1>1, <1>8 DEF Lockdownd
  <2>2. ask.cmd \in Commands /\ device' = device
    BY <1>0, <1>8 DEF Lockdownd, ask, IInv, Line
  <2> DEFINE r == Reply(ask.cmd, ask.n, kind)
  <2>3. r \in Replies /\ r.cmd = ask.cmd /\ r.n = ask.n /\ r.kind = kind
    BY <1>2, <2>2
  <2> HIDE DEF r
  <2>4. /\ conn' \in Conns /\ conn'.up /\ conn'.todo = <<>> /\ conn'.stream = NoStream
        /\ conn'.in = Append(conn.in, r)
    BY <1>3, <2>1, <2>3 DEF r
  <2> QED
    BY <1>0, <2>2, <2>3, <2>4, AnswerNext DEF ask
<1> QED
  BY <1>4, <1>5, <1>6, <1>7, <1>8

\* The image is under way, its reply is not.
LEMMA StreamKnown ==
    ASSUME IInv, conn.up, conn.stream # NoStream
    PROVE  /\ conn \in Conns /\ conn.stream.cmd = "ReceiveBytes"
           /\ conn.stream \in Messages
           /\ conn.stream.from <= conn.stream.to
           /\ Consecutive(conn.todo, conn.stream.from, conn.stream.to)
           /\ ~Preparing /\ ~Succeeded
           /\ \A cmd \in Commands : At(<<"receive", cmd>>) => cmd = "ReceiveBytes" /\ Accepted
           /\ \A k : Delivered(k) => Len(conn.in) = k /\ Streaming
<1>1. /\ conn \in Conns /\ conn.stream.cmd = "ReceiveBytes"
      /\ conn.stream.from <= conn.stream.to
      /\ Consecutive(conn.todo, conn.stream.from, conn.stream.to)
  BY DEF IInv, Types, Line
<1>2. ~Rested
  BY DEF Rested
<1>3. ~Quiet /\ (\A cmd : ~Answered(cmd) /\ ~Asked(cmd))
  BY <1>2 DEF Quiet, Answered, Asked
<1>4. \A k : Delivered(k) => Len(conn.in) = k /\ Streaming
  BY <1>2 DEF Delivered
<1>5. ~Preparing /\ ~Succeeded
  BY <1>3 DEF IInv, Exchange, Mounting
<1>6. \A cmd \in Commands : At(<<"receive", cmd>>) => cmd = "ReceiveBytes" /\ Accepted
  BY <1>3 DEF IInv, Exchange
<1>7. conn.stream \in Messages
  BY <1>1, ConnFields
<1> QED
  BY <1>1, <1>4, <1>5, <1>6, <1>7

LEMMA StreamNext ==
    ASSUME IInv, conn.up, conn.stream # NoStream, conn' \in Conns, Line', device' \in Devices,
           UNCHANGED <<attached, lockdown, call>>, device'.mounted = device.mounted,
           Accepted => Accepted', Delivered(0) => Delivered(0)'
    PROVE  IInv'
<1>1. /\ ~Preparing /\ ~Succeeded /\ attached \in BOOLEAN
      /\ \A cmd \in Commands : At(<<"receive", cmd>>) => cmd = "ReceiveBytes" /\ Accepted
  BY StreamKnown DEF IInv, Types
<1>2. Exchange'
  BY <1>1 DEF IInv, Exchange, Preparing, At
<1>3. Mounting'
  <2>1. ~At(<<"receive", "MountImage">>)
    BY <1>1 DEF Commands
  <2> QED
    BY <1>1, <2>1 DEF IInv, Mounting, At, Succeeded, Idle
<1> QED
  BY <1>1, <1>2, <1>3, ConnNext

LEMMA BytesNext ==
    ASSUME IInv, TakeBytes \/ BytesTaken
    PROVE  IInv'
<1>0. /\ conn.up /\ conn.stream # NoStream /\ device \in Devices /\ conn \in Conns
      /\ UNCHANGED <<attached, lockdown, call>>
  BY DEF IInv, Types, TakeBytes, BytesTaken, Mounter
<1>1. /\ conn.stream.cmd = "ReceiveBytes" /\ conn.stream \in Messages
      /\ conn.stream.from \in Nat /\ conn.stream.to \in Nat /\ conn.stream.n \in Nat
      /\ conn.stream.from <= conn.stream.to
      /\ Consecutive(conn.todo, conn.stream.from, conn.stream.to)
      /\ \A k : Delivered(k) => Len(conn.in) = k /\ Streaming
  <2>1. conn.stream \in Messages
    BY <1>0, StreamKnown
  <2> QED
    BY <1>0, <2>1, StreamKnown DEF Messages
<1>2. NoStream.cmd = "none" /\ NoStream \in Messages
  BY ConstantTypes DEF NoStream, Message
<1>3. CASE TakeBytes
  <2> DEFINE piece == conn.todo[1]
  <2>1. /\ conn.todo \in Seq(Messages) /\ Len(conn.todo) \in Nat /\ Len(conn.todo) >= 1
        /\ Head(conn.todo) = piece /\ piece \in Messages
        /\ Tail(conn.todo) \in Seq(Messages) /\ Len(Tail(conn.todo)) = Len(conn.todo) - 1
        /\ \A i \in 1..Len(Tail(conn.todo)) : Tail(conn.todo)[i] = conn.todo[i + 1]
        /\ conn.todo # <<>>
        /\ Tail(conn.todo) = <<>> <=> Len(conn.todo) = 1
    <3>1. conn.todo # <<>> /\ conn.todo \in Seq(Messages)
      BY <1>0, <1>3, ConnFields DEF TakeBytes, Mounter
    <3>2. Len(Tail(conn.todo)) = Len(conn.todo) - 1 /\ (Len(conn.todo) = 1 => Tail(conn.todo) = <<>>)
      BY <3>1, TailFields
    <3>3. Tail(conn.todo) = <<>> => Len(Tail(conn.todo)) = 0
      BY EmptySeq, Zenon
    <3>4. /\ Len(conn.todo) \in Nat /\ Len(conn.todo) >= 1
          /\ Head(conn.todo) = piece /\ piece \in Messages
          /\ Tail(conn.todo) \in Seq(Messages)
          /\ \A i \in 1..Len(Tail(conn.todo)) : Tail(conn.todo)[i] = conn.todo[i + 1]
      BY <3>1, TailFields
    <3>5. Tail(conn.todo) = <<>> => Len(conn.todo) = 1
      BY <3>2, <3>3, <3>4
    <3> HIDE DEF piece
    <3> QED
      BY <3>1, <3>2, <3>4, <3>5
  <2>2. /\ piece.from = conn.stream.from /\ piece.from < piece.to
        /\ piece.to <= conn.stream.to /\ piece.to \in Nat /\ piece.from \in Nat
    BY <1>1, <2>1 DEF Consecutive, Messages
  <2>3. conn' = [Taken(piece, <<>>) EXCEPT
                   !.stream.from = @ + (piece.to - piece.from),
                   !.whole = @ /\ piece.image = conn.stream.image /\ piece.from = conn.stream.from]
    BY <1>3, <2>1 DEF TakeBytes
  <2>4. PICK c \in Conns : /\ c = Taken(piece, <<>>) /\ c.up /\ c.todo = Tail(conn.todo)
                           /\ c.in = conn.in /\ c.stream = conn.stream
    <3>1. <<>> \in Seq(Replies) /\ conn.in \o <<>> = conn.in
      BY <1>0, ConnFields, EmptySeq
    <3> QED
      BY <1>0, <2>1, <3>1, TakenFields
  <2> HIDE DEF piece
  <2>5. PICK s \in Messages :
          /\ s = [conn.stream EXCEPT !.from = piece.to]
          /\ s.cmd = "ReceiveBytes" /\ s.n = conn.stream.n /\ s.from = piece.to
          /\ s.to = conn.stream.to
    <3>1. [conn.stream EXCEPT !.from = piece.to] \in Messages
      BY <1>1, <2>2 DEF Messages
    <3> QED
      BY <1>1, <2>2, <3>1 DEF Messages
  <2>6. /\ conn' \in Conns /\ conn'.up /\ conn'.todo = Tail(conn.todo) /\ conn'.in = conn.in
        /\ conn'.stream = s
    <3>1. conn.stream.from + (piece.to - piece.from) = piece.to
      BY <1>1, <2>2
    <3>2. [c.stream EXCEPT !.from = @ + (piece.to - piece.from)] = s
      BY <2>4, <2>5, <3>1
    <3>3. PICK whole \in BOOLEAN :
            conn' = [c EXCEPT !.stream = s, !.whole = whole]
      BY <2>3, <2>4, <3>2 DEF Conns
    <3> QED
      BY <2>4, <2>5, <3>3 DEF Conns
  <2>7. Line'
    <3>1. Consecutive(conn'.todo, s.from, s.to)
      <4> SUFFICES ASSUME NEW i \in 1..Len(conn'.todo)
                   PROVE  /\ conn'.todo[i].cmd = "bytes"
                          /\ conn'.todo[i].from < conn'.todo[i].to /\ conn'.todo[i].to <= s.to
                          /\ conn'.todo[i].from = IF i = 1 THEN s.from ELSE conn'.todo[i - 1].to
        BY DEF Consecutive
      <4>1. /\ i + 1 \in 1..Len(conn.todo) /\ i + 1 # 1 /\ (i + 1) - 1 = i
            /\ conn'.todo[i] = conn.todo[i + 1]
            /\ i # 1 => conn'.todo[i - 1] = conn.todo[i]
        BY <2>1, <2>6
      <4>2. /\ conn.todo[i + 1].cmd = "bytes" /\ conn.todo[i + 1].from < conn.todo[i + 1].to
            /\ conn.todo[i + 1].to <= conn.stream.to
            /\ conn.todo[i + 1].from = conn.todo[i].to
        BY <1>1, <4>1 DEF Consecutive
      <4> QED
        BY <2>5, <4>1, <4>2 DEF piece
    <3> QED
      BY <1>1, <1>2, <2>2, <2>5, <2>6, <3>1 DEF Line
  <2>8. Reached' = Reached
    <3>1. CASE Len(conn.todo) = 1
      BY <2>1, <2>5, <2>6, <3>1 DEF Reached, piece
    <3>2. CASE Len(conn.todo) # 1
      <4>1. conn'.todo[Len(conn'.todo)] = conn.todo[Len(conn.todo)]
        BY <2>1, <2>6, <3>2
      <4> QED
        BY <2>1, <2>6, <3>2, <4>1 DEF Reached
    <3> QED
      BY <3>1, <3>2
  <2>9. Streaming => Streaming'
    BY <1>0, <1>2, <2>5, <2>6, <2>8 DEF Streaming
  <2>10. \A k : Delivered(k) => Delivered(k)'
    BY <1>1, <2>6, <2>9 DEF Delivered
  <2>11. Accepted => Accepted'
    BY <1>0, <2>6, <2>10 DEF Accepted
  <2>12. device' = device
    BY <1>3 DEF TakeBytes
  <2> QED
    BY <1>0, <2>6, <2>7, <2>10, <2>11, <2>12, StreamNext
<1>4. CASE BytesTaken
  <2>1. /\ conn.stream.from = conn.stream.to
        /\ \E kind \in {"error", "Complete"} :
              conn' = [conn EXCEPT !.stream = NoStream,
                          !.in = Append(conn.in, Reply("bytes", conn.stream.n, kind))]
    BY <1>0, <1>4 DEF BytesTaken
  <2>2. PICK kind \in {"error", "Complete"} :
           conn' = [conn EXCEPT !.stream = NoStream,
                       !.in = Append(conn.in, Reply("bytes", conn.stream.n, kind))]
    BY <2>1
  <2> DEFINE r == Reply("bytes", conn.stream.n, kind)
  <2>3. r \in Replies /\ r.cmd = "bytes" /\ r.n = conn.stream.n
    BY <1>1 DEF Reply, Replies
  <2> HIDE DEF r
  <2>4. /\ Append(conn.in, r) \in Seq(Replies) /\ Len(conn.in) \in Nat
        /\ Len(Append(conn.in, r)) = Len(conn.in) + 1
        /\ Append(conn.in, r)[Len(conn.in) + 1] = r
        /\ \A i \in 1..Len(conn.in) : Append(conn.in, r)[i] = conn.in[i]
    BY <1>0, <2>3, ConnFields, AppendFields
  <2>5. /\ conn' \in Conns /\ conn'.up /\ conn'.in = Append(conn.in, r)
        /\ conn'.todo = conn.todo /\ conn'.stream = NoStream
    BY <1>0, <1>2, <2>2, <2>3, <2>4 DEF Conns, r
  <2>6. conn.todo = <<>>
    <3>1. ASSUME conn.todo # <<>> PROVE FALSE
      <4>1. 1 \in 1..Len(conn.todo) /\ conn.todo[1] \in Messages
        BY <1>0, <3>1, ConnFields
      <4>2. conn.todo[1].from \in Nat /\ conn.todo[1].to \in Nat
        BY <4>1 DEF Messages
      <4> QED
        BY <1>1, <2>1, <4>1, <4>2 DEF Consecutive
    <3> QED
      BY <3>1
  <2>7. Line'
    <3>1. Len(conn'.todo) = 0
      BY <2>5, <2>6
    <3> QED
      BY <2>5, <2>6, <3>1 DEF Line
  <2>8. ASSUME NEW k \in Nat, Delivered(k) PROVE Delivered(k)'
    <3>1. Len(conn.in) = k /\ Streaming
      BY <1>1, <2>8
    <3>2. call.offset = Announced(call.image) /\ r.n = call.n
      BY <2>1, <2>3, <2>6, <3>1 DEF Streaming, Reached
    <3>3. conn'.in[k + 1] = r /\ Len(conn'.in) = k + 1
      BY <2>4, <2>5, <3>1
    <3> QED
      BY <1>0, <2>3, <2>5, <2>6, <3>2, <3>3 DEF Delivered, Rested
  <2>9. Accepted => Accepted'
    <3>1. Delivered(1) => Delivered(1)'
      BY <2>8
    <3>2. Len(conn.in) >= 1 => conn'.in[1] = conn.in[1] /\ Len(conn'.in) >= 1
      BY <2>4, <2>5
    <3> QED
      BY <1>0, <3>1, <3>2 DEF Accepted
  <2>10. device' \in Devices /\ device'.mounted = device.mounted
    <3>1. conn.stream.image \in Names
      BY <1>1 DEF Messages
    <3> QED
      BY <1>0, <1>4, <3>1 DEF BytesTaken, Devices
  <2>11. Delivered(0) => Delivered(0)'
    BY <2>8
  <2> QED
    BY <1>0, <2>5, <2>7, <2>9, <2>10, <2>11, StreamNext
<1> QED
  BY <1>3, <1>4

LEMMA EndNext ==
    ASSUME IInv, HangUp \/ Unplug
    PROVE  IInv'
<1>0. /\ conn \in Conns /\ device \in Devices /\ conn' \in Ends(conn)
      /\ attached' \in BOOLEAN /\ UNCHANGED <<lockdown, device, call>>
  BY DEF IInv, Types, HangUp, Unplug
<1>1. /\ conn' \in Conns /\ ~conn'.up /\ conn'.todo = <<>> /\ conn'.stream = conn.stream
      /\ Len(conn'.in) = Len(conn.in) /\ Len(conn.in) \in Nat
      /\ conn.in = <<>> <=> Len(conn.in) = 0
      /\ \A i \in 1..Len(conn.in) :
            /\ conn'.in[i].cmd = conn.in[i].cmd /\ conn'.in[i].n = conn.in[i].n
            /\ i # Len(conn.in) => conn'.in[i] = conn.in[i]
            /\ conn'.in[i] = conn.in[i] \/ conn'.in[i].kind = "cut"
  BY <1>0, EndsFields, ConnFields
<1>2. conn.in = <<>> <=> conn'.in = <<>>
  <2>1. conn'.in \in Seq(Replies)
    BY <1>1 DEF Conns
  <2>2. Len(conn'.in) = 0 <=> conn'.in = <<>>
    BY <2>1, EmptySeq
  <2> QED
    BY <1>1, <2>2
<1>3. Line'
  BY <1>1 DEF IInv, Line
<1>4. Quiet => Quiet'
  BY <1>1, <1>2 DEF Quiet
<1>5. \A k \in {0, 1} : Delivered(k) => Delivered(k)'
  BY <1>0, <1>1 DEF Delivered
<1>6. ASSUME NEW cmd \in Commands, Asked(cmd) PROVE Asked(cmd)'
  BY <1>1, <1>2, <1>6 DEF Asked
<1>7. ASSUME NEW cmd \in Commands, Answered(cmd) PROVE Answered(cmd)'
  <2>1. /\ Len(conn.in) = 1 /\ conn.in[1].cmd = cmd /\ conn.in[1].n = call.n
        /\ cmd = "ReceiveBytes" => conn.in[1].kind # "Ack"
        /\ cmd = "MountImage" => conn.in[1].kind \in {"error", "bare", "other", "Complete", "cut"}
    BY <1>7 DEF Answered
  <2>2. /\ Len(conn'.in) = 1 /\ conn'.in[1].cmd = cmd /\ conn'.in[1].n = call.n
        /\ conn'.in[1].kind = conn.in[1].kind \/ conn'.in[1].kind = "cut"
    BY <1>1, <2>1
  <2> QED
    BY <1>0, <1>1, <2>1, <2>2 DEF Answered
<1>8. ASSUME Accepted PROVE Accepted' \/ Answered("ReceiveBytes")'
  <2>1. /\ Len(conn.in) >= 1 /\ conn.in[1].cmd = "ReceiveBytes" /\ conn.in[1].n = call.n
        /\ conn.in[1].kind = "Ack" /\ Delivered(1)
    BY <1>8 DEF Accepted
  <2>2. /\ Len(conn'.in) >= 1 /\ conn'.in[1].cmd = "ReceiveBytes" /\ conn'.in[1].n = call.n
        /\ conn'.in[1].kind = "Ack" \/ (conn'.in[1].kind = "cut" /\ Len(conn'.in) = 1)
    <3>1. 1 \in 1..Len(conn.in)
      BY <1>1, <2>1
    <3>2. /\ conn'.in[1].cmd = conn.in[1].cmd /\ conn'.in[1].n = conn.in[1].n
          /\ 1 # Len(conn.in) => conn'.in[1] = conn.in[1]
          /\ conn'.in[1] = conn.in[1] \/ conn'.in[1].kind = "cut"
      BY <1>1, <3>1
    <3>3. CASE Len(conn.in) = 1
      BY <1>1, <2>1, <3>2, <3>3
    <3>4. CASE Len(conn.in) # 1
      BY <1>1, <2>1, <3>2, <3>4
    <3> QED
      BY <3>3, <3>4
  <2>3. Delivered(1)'
    BY <1>5, <2>1
  <2> QED
    BY <1>0, <1>1, <2>2, <2>3 DEF Accepted, Answered
<1>9. Exchange'
  <2>1. Preparing' => Quiet'
    BY <1>0, <1>4 DEF IInv, Exchange, Preparing
  <2>2. ASSUME NEW cmd \in Commands, At(<<"receive", cmd>>)
        PROVE  Asked(cmd)' \/ Answered(cmd)' \/ (cmd = "ReceiveBytes" /\ Accepted')
    <3>1. Asked(cmd) \/ Answered(cmd) \/ (cmd = "ReceiveBytes" /\ Accepted)
      BY <2>2 DEF IInv, Exchange
    <3> QED
      BY <1>6, <1>7, <1>8, <3>1
  <2>3. At(<<"send", "bytes">>) \/ At(<<"receive", "bytes">>) => Delivered(0)'
    BY <1>5 DEF IInv, Exchange
  <2>4. At(<<"receive", "bytes">>) => call.offset = Announced(call.image)
    BY DEF IInv, Exchange
  <2> QED
    BY <1>0, <2>1, <2>2, <2>3, <2>4 DEF Exchange, At
<1>10. Mounting'
  <2>1. conn'.in # <<>> /\ conn'.in[1].kind = "Complete"
           => conn.in # <<>> /\ conn.in[1].kind = "Complete"
    <3>1. conn.in # <<>> => 1 \in 1..Len(conn.in)
      BY <1>1
    <3> QED
      BY <1>1, <1>2, <3>1
  <2> QED
    BY <1>0, <1>4, <2>1 DEF IInv, Mounting, At, Succeeded, Idle
<1> QED
  BY <1>0, <1>1, <1>3, <1>9, <1>10, ConnNext

LEMMA NextIInv == IInv /\ [Next]_vars => IInv'
<1> SUFFICES ASSUME IInv, [Next]_vars PROVE IInv'
  OBVIOUS
<1>1. CASE \/ Begin \/ Connect \/ Disconnect
           \/ DebugConnectionStart \/ DebugConnectionStop
  BY <1>1, BetweenNext
<1>2. CASE CallStep
  <2>1. CASE \/ PathToDeviceSupport \/ ServiceFails \/ CopyFails \/ SendFails
             \/ \E cmd \in Commands \union {"bytes"} : ReceiveNothing(cmd)
    BY <2>1, LeaveNext
  <2>2. CASE ServiceStarts \/ Version \/ Copy
    BY <2>2, PrepareNext
  <2>3. CASE (\E cmd \in Commands : Send(cmd)) \/ SendBytes \/ BytesSent
    BY <2>3, SendNext, SendBytesNext, BytesSentNext
  <2>4. CASE \E cmd \in Commands \union {"bytes"} : Receive(cmd)
    BY <2>4, ReceiveNext
  <2> QED
    BY <1>2, <2>1, <2>2, <2>3, <2>4 DEF CallStep
<1>3. CASE MounterStep
  BY <1>3, CommandsNext, BytesNext DEF MounterStep
<1>4. CASE HangUp \/ Unplug
  BY <1>4, EndNext
<1>5. CASE UNCHANGED vars
  <2>1. UNCHANGED <<attached, lockdown, conn, device, call>>
    BY <1>5 DEF vars
  <2>2. Types' /\ Line' /\ Fresh' /\ Freed' /\ call'.reply = call'.awaited
    BY <2>1 DEF IInv, Types, Line, Fresh, Freed, Acting, Succeeded, Idle, At
  <2>3. \A k : Delivered(k)' = Delivered(k)
    BY <2>1 DEF Delivered, Streaming, Reached, Rested
  <2>4. /\ Quiet' = Quiet /\ Preparing' = Preparing
        /\ \A cmd : Asked(cmd)' = Asked(cmd) /\ Answered(cmd)' = Answered(cmd)
    BY <2>1 DEF Quiet, Preparing, Asked, Answered, Rested
  <2>5. Accepted' = Accepted /\ \A place : At(place)' = At(place)
    BY <2>1, <2>3 DEF Accepted, At
  <2>6. Exchange'
    BY <2>1, <2>3, <2>4, <2>5 DEF IInv, Exchange
  <2>7. Mounting'
    BY <2>1, <2>4, <2>5 DEF IInv, Mounting, Succeeded, Idle, At
  <2> QED
    BY <2>2, <2>6, <2>7 DEF IInv
<1> QED
  BY <1>1, <1>2, <1>3, <1>4, <1>5 DEF Next, Rest

-----------------------------------------------------------------------------
(* The theorems.                                                           *)

\* What is under way between the host and the image mounter is known at every
\* place of a call, and after it.
THEOREM Invariance == Spec => []IInv
<1>1. Init => IInv
  BY InitIInv
<1>2. IInv /\ [Next]_vars => IInv'
  BY NextIInv
<1> QED
  BY <1>1, <1>2, PTL DEF Spec

\* The device, its connections and the call keep their types, and the offset
\* into the image never passes its end.
THEOREM TypeCorrect == Spec => []TypeOK
<1>1. IInv => TypeOK
  <2> SUFFICES ASSUME IInv PROVE TypeOK
    OBVIOUS
  <2>1. /\ attached \in BOOLEAN /\ lockdown \in {"closed", "open", "session"}
        /\ conn \in Conns /\ device \in Devices /\ call \in Calls
        /\ call.image \in Images => call.offset <= Announced(call.image)
    BY DEF IInv, Types
  <2>2. /\ call.at \in Places /\ call.result \in {"none", "success", "failed"}
        /\ call.image \in Names /\ call.n \in Nat /\ call.calls \in 0..MaxCalls
        /\ call.reply \in Replies /\ call.awaited \in Replies /\ call.offset \in Nat
    BY <2>1 DEF Calls
  <2>3. call.image \in Images => call.offset \in 0..Announced(call.image)
    BY <2>1, <2>2, ConstantTypes
  <2> QED
    BY <2>1, <2>2, <2>3 DEF TypeOK, Conns, Devices, Places
<1> QED
  BY <1>1, Invariance, PTL

\* No reply is taken for another command's, and the mounter gets as an image
\* its bytes and nothing else: for any images and any size of the pieces.
THEOREM ExchangesAreInStep == Spec => []InStep
<1>1. IInv => InStep
  <2> SUFFICES ASSUME IInv PROVE InStep
    OBVIOUS
  <2>1. CASE conn.up /\ conn.todo # <<>>
    <3>1. conn \in Conns
      BY DEF IInv, Types
    <3>2. /\ Head(conn.todo) = conn.todo[1] /\ 1 \in 1..Len(conn.todo)
          /\ conn.todo[1] \in Messages /\ conn.stream \in Messages
      BY <2>1, <3>1, ConnFields, TailFields
    <3>3. CASE conn.stream = NoStream
      BY <2>1, <3>2, <3>3 DEF IInv, Line, InStep, MounterKnows, Commands
    <3>4. CASE conn.stream # NoStream
      <4>1. Consecutive(conn.todo, conn.stream.from, conn.stream.to)
        BY <2>1, <3>4 DEF IInv, Line
      <4>2. /\ conn.todo[1].cmd = "bytes" /\ conn.todo[1].from = conn.stream.from
            /\ conn.todo[1].to <= conn.stream.to
        BY <3>2, <4>1 DEF Consecutive
      <4>3. conn.todo[1].from \in Nat /\ conn.todo[1].to \in Nat
        BY <3>2 DEF Messages
      <4>4. conn.stream.from + (conn.todo[1].to - conn.todo[1].from) <= conn.stream.to
        BY <4>2, <4>3
      <4> QED
        BY <2>1, <3>2, <3>4, <4>2, <4>4 DEF IInv, InStep, MounterKnows
    <3> QED
      BY <3>3, <3>4
  <2>2. CASE ~(conn.up /\ conn.todo # <<>>)
    BY <2>2 DEF IInv, InStep, MounterKnows
  <2> QED
    BY <2>1, <2>2
<1> QED
  BY <1>1, Invariance, PTL

\* A mount that succeeded has the image mounted, and the lockdown connection
\* closed if there was nothing to send.
THEOREM SuccessIsMounted == Spec => []MountedAndFree
<1>1. IInv => MountedAndFree
  BY DEF IInv, Mounting, Freed, Succeeded, MountedAndFree, Mounts
<1> QED
  BY <1>1, Invariance, PTL
=============================================================================
