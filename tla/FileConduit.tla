----------------------------- MODULE FileConduit -----------------------------
(***************************************************************************)
(* A connection to the file conduit of a device (AFC), which several       *)
(* threads use at once: single operations, and the copies of files and     *)
(* directories that are made of them.                                      *)
(*                                                                         *)
(* The operations of a connection go through a serial queue; each sends    *)
(* its request and takes whatever comes next for the answer, since every   *)
(* request has the same number.  Over a plain socket the receive gives up  *)
(* after a second, successfully and with nothing.  The conduit itself is   *)
(* the environment: it answers in order, refuses what it likes, and may    *)
(* hang up, never answer, or stop reading.  It is reached over Wi-Fi; over *)
(* USB lockdownd is at the other end, whose port every Connect packet      *)
(* names, and it makes nothing of the requests.                            *)
(*                                                                         *)
(* Lengths count units; unit i of a host's file is the number i, of a      *)
(* device's file -i, and 0 is a byte of anything else.                     *)
(***************************************************************************)
EXTENDS Integers, Sequences, FiniteSets

CONSTANTS
    Threads,       \* the threads that use the connection
    TransferSize,  \* kAFCMaxTransferSize
    OffsetLimit,   \* where the 32-bit product that makes an offset wraps
    Handles,       \* file handles of the conduit
    Codes,         \* status codes it refuses with, numbers as the handles are
    Works,         \* bound: Works[t] has the call that t makes (see Work)
    Lengths,       \* lengths of the files on the device
    Width,         \* bound: files in a directory
    MaxRefusals,   \* bound: requests the conduit refuses
    MaxLate        \* bound: answers it gives after a receive waited in vain

VARIABLES
    ssl,       \* the connection goes through OpenSSL
    link,      \* the connection: whether it is over Wi-Fi, whether it is up and
               \* whether what is written still fits, the requests and answers on
               \* their way, whether its frames are torn, whether the receive in
               \* progress counts what failed as bytes, and (history) whether
               \* a receive ever waited in vain
    queue,     \* the threads in dispatch_sync on operationQueue, in order
    call,      \* call[t]: the call thread t is in, or its last one
    device,    \* the conduit: its files, the file and position of each handle,
               \* and (history) whether it ever refused to open a file, and
               \* which handles it refused to close
    crashed    \* the process is gone

vars == <<ssl, link, queue, call, device, crashed>>

\* A call is a name and the lengths of the local files it is about.  Tree is
\* SDMMD_AMDeviceCopy of a directory, File that of a file (or CopyFile), Fetch
\* RemoteCopyFile, Touch SDMMD_check_can_touch; List and Remove stand for the
\* operations a caller hands to ProcessOperation, those that want a body and
\* those that do not.
Missing == -1
Operations == {"Tree", "File", "Fetch", "Touch", "List", "Remove"}
Work(op, files) == [op |-> op, files |-> files]

ASSUME SizesAssumption ==
    /\ TransferSize \in Nat \ {0} /\ OffsetLimit \in Nat \ {0}
    /\ OffsetLimit % TransferSize = 0
ASSUME NumbersAssumption == Handles \subseteq Nat /\ Codes \subseteq Nat
ASSUME WorksAssumption ==
    /\ \A t \in Threads : \A w \in Works[t] :
          /\ w.op \in Operations
          /\ w.files \in Seq(Nat \union {Missing})
          /\ Len(w.files) <= Width
    /\ Lengths \subseteq Nat /\ Width \in Nat \ {0}
ASSUME BoundsAssumption == MaxRefusals \in Nat /\ MaxLate \in Nat

-----------------------------------------------------------------------------
(* Packets.                                                                *)

\* What a call holds of an answer: packet->response, which is NULL when the
\* packet had no body.  word is what the first eight bytes of the body are as
\* a number: a handle, a status, or 0.
Body(word, data) == [word |-> word, data |-> data]
Null == Body(0, <<>>)
Status(code) == Body(code, <<0>>)
Zeros == Status(0)

\* An answer: its body, and (for the properties) whose request it is to and
\* whether it grants it
Answer(t, granted, body) == [to |-> t, granted |-> granted, body |-> body]

Smaller(a, b) == IF a < b THEN a ELSE b
Greater(a, b) == IF a < b THEN b ELSE a

\* write(2), and a write of the conduit, at a position
Overwrite(file, at, data) ==
    [i \in 1..Greater(Len(file), at + Len(data)) |->
        IF i \in (at + 1)..(at + Len(data)) THEN data[i - at]
        ELSE IF i <= Len(file) THEN file[i] ELSE 0]

HostFile(n) == [i \in 1..n |-> i]
DeviceFile(n) == [i \in 1..n |-> -i]

-----------------------------------------------------------------------------
(* Calls.                                                                  *)

\* Where a call stands: its step, the files it has still to do (the first is
\* the one at hand, the path-th of the call), what it believes to be the file's
\* handle, the packet it is at, the local file and position of a Fetch, its
\* result so far, whether every answer about the file granted what was asked
\* (history), and whether its request is sent.
NoCall ==
    [op |-> "none", step |-> "none", files |-> <<>>, path |-> 1, handle |-> 0,
     index |-> 0, local |-> <<>>, at |-> 0, failed |-> FALSE, sure |-> TRUE,
     asking |-> FALSE]

InCall(t) == call[t].step \notin {"none", "returned"}
Exchanges == {"mkdir", "open", "write", "read", "close", "single"}

Length(c) == Head(c.files)

\* Mutant of Packets: rounds down
PacketsDown(c) == Length(c) \div TransferSize

Packets(c) == (Length(c) + TransferSize - 1) \div TransferSize
Offset(c) == (TransferSize * c.index) % OffsetLimit

\* Mutant of Remainder: counts the packet at hand as done
RemainderAfter(c) == Smaller(Length(c) - TransferSize * (c.index + 1), TransferSize)

Remainder(c) == Smaller(Length(c) - Offset(c), TransferSize)
Block(c) == [i \in 1..Remainder(c) |-> Offset(c) + i]

\* The request of a step; the requests on handles name no path
Request(t) ==
    LET c == call[t] IN
    [by |-> t,
     kind |-> IF c.step = "single" THEN c.op ELSE c.step,
     path |-> c.path,
     handle |-> IF c.step \in {"write", "read", "close"} THEN c.handle ELSE 0,
     data |-> IF c.step = "write" THEN Block(c) ELSE <<>>,
     size |-> IF c.step = "read" THEN Remainder(c) ELSE 0]

\* Mutant of Loop: an empty file is not closed
LoopSkipsEmpty(c) ==
    IF Packets(c) = 0 THEN [c EXCEPT !.step = "next", !.files = Tail(@), !.path = @ + 1]
    ELSE [c EXCEPT !.step = IF c.index < Packets(c)
                            THEN IF c.op = "Fetch" THEN "read" ELSE "write"
                            ELSE "close"]

\* The loop over the packets of a file
Loop(c) ==
    [c EXCEPT !.step = IF c.index < Packets(c)
                       THEN IF c.op = "Fetch" THEN "read" ELSE "write"
                       ELSE "close"]

\* The file at hand is done with
DoneWith(c, failed) ==
    [c EXCEPT !.step = "next", !.files = Tail(@), !.path = @ + 1,
              !.handle = 0, !.index = 0, !.at = 0, !.local = <<>>,
              !.failed = failed]

\* What a call makes of an exchange that sent its request, and of the body it
\* received.  The status in a body is not looked at: whatever came to an open
\* is a handle, and a status that came to a read is written to the file.
Succeeded(c, body) ==
    CASE c.step = "mkdir" -> [c EXCEPT !.step = "next"]
      [] c.step = "open" -> Loop([c EXCEPT !.handle = body.word])
      [] c.step = "write" -> Loop([c EXCEPT !.index = @ + 1])
      [] c.step = "read" ->
            Loop([c EXCEPT !.index = @ + 1,
                           !.local = Overwrite(@, c.at, body.data),
                           !.at = @ + Len(body.data)])
      [] c.step = "close" -> DoneWith(c, c.failed)
      [] c.step = "single" ->
            [c EXCEPT !.step = "returned",
                      !.failed = c.op = "List" /\ body = Null]

\* And of one that could not send it.  Closing is done whatever came before,
\* and its result is not looked at.
Unsent(c) ==
    CASE c.step = "mkdir" -> [c EXCEPT !.step = "returned", !.failed = TRUE]
      [] c.step = "open" -> DoneWith(c, TRUE)
      [] c.step \in {"write", "read"} -> [c EXCEPT !.step = "close", !.failed = TRUE]
      [] c.step = "close" -> DoneWith(c, c.failed)
      [] c.step = "single" ->
            [c EXCEPT !.step = "returned", !.failed = c.op # "Touch"]

\* The response is read, or retained, without a look whether there is one
Dereferences(c) ==
    c.step \in {"open", "read"} \/ (c.step = "single" /\ c.op = "Touch")

\* The block on the queue ends, and with it dispatch_sync
Completes(t, granted, body) ==
    LET c == [call[t] EXCEPT !.sure = @ /\ granted, !.asking = FALSE] IN
    /\ call' = [call EXCEPT ![t] = Succeeded(c, body)]
    /\ crashed' = (Dereferences(c) /\ body = Null)
    /\ queue' = Tail(queue)

-----------------------------------------------------------------------------
Paths == Threads \X (1..Width)
NoFile == <<>>
Open == {h \in Handles : device.file[h] # NoFile}

Init ==
    /\ ssl \in BOOLEAN
    /\ link \in [wifi : IF ssl THEN {TRUE} ELSE BOOLEAN,
                 up : {TRUE}, full : {FALSE}, todo : {<<>>}, in : {<<>>}, torn : {FALSE},
                 outside : {FALSE}, waited : {FALSE}, late : {0}]
    /\ queue = <<>>
    /\ call = [t \in Threads |-> NoCall]
    /\ \E n \in Lengths :
          device = [files |-> [p \in Paths |-> DeviceFile(n)],
                    file |-> [h \in Handles |-> NoFile],
                    at |-> [h \in Handles |-> 0], misled |-> FALSE, kept |-> {},
                    refusals |-> 0]
    /\ crashed = FALSE

(* The threads.                                                            *)

Begin(t) ==
    /\ call[t].step = "none"
    /\ \E w \in Works[t] :
          call' = [call EXCEPT ![t] =
              [NoCall EXCEPT !.op = w.op, !.files = w.files,
                             !.step = CASE w.op = "Tree" -> "mkdir"
                                        [] w.op \in {"File", "Fetch"} -> "next"
                                        [] OTHER -> "single"]]
    /\ UNCHANGED <<ssl, link, queue, device, crashed>>

\* The next entry of the directory, or the file of the call.  One that is not
\* there is a result like any other; the last one stands.
NextFile(t) ==
    /\ call[t].step = "next"
    /\ LET c == call[t] IN
       call' = [call EXCEPT ![t] =
          IF c.files = <<>> THEN [c EXCEPT !.step = "returned"]
          ELSE IF Length(c) = Missing THEN DoneWith(c, TRUE)
          ELSE [c EXCEPT !.step = "open", !.failed = FALSE, !.sure = TRUE,
                         !.local = IF c.op = "Fetch" THEN HostFile(Length(c)) ELSE <<>>]]
    /\ UNCHANGED <<ssl, link, queue, device, crashed>>

\* SDMMD_AFCProcessOperation: dispatch_sync
Submit(t) ==
    /\ call[t].step \in Exchanges
    /\ ~\E i \in 1..Len(queue) : queue[i] = t
    /\ queue' = Append(queue, t)
    /\ UNCHANGED <<ssl, link, call, device, crashed>>

\* Mutant of AtFront: the queue is concurrent
AtAnyPlace(t) == \E i \in 1..Len(queue) : queue[i] = t

AtFront(t) == queue # <<>> /\ Head(queue) = t

\* There is no room for a request, and somebody who would make it
Full == link.up /\ link.full

\* SDMMD_AFCSendOperation.  Over USB a write has no time-out.  The wait on the
\* semaphore that follows times out at once.  Nothing says that a request over a
\* connection just lost is lost.  What the conduit makes of requests once frames
\* are torn is left out: nobody reads its answers as such.
Send(t) ==
    /\ AtFront(t) /\ ~call[t].asking /\ ~Full
    /\ link' = IF link.up /\ ~link.torn THEN [link EXCEPT !.todo = Append(@, Request(t))] ELSE link
    /\ call' = [call EXCEPT ![t].asking = TRUE]
    /\ UNCHANGED <<ssl, queue, device, crashed>>

\* Over Wi-Fi a write gives up after 25 seconds
SendFails(t) ==
    /\ AtFront(t) /\ ~call[t].asking
    /\ ~link.up \/ (link.wifi /\ Full)
    /\ call' = [call EXCEPT ![t] = [Unsent(@) EXCEPT !.sure = FALSE]]
    /\ crashed' = (call[t].step = "single" /\ call[t].op = "Touch")
    /\ queue' = Tail(queue)
    /\ UNCHANGED <<ssl, link, device>>

\* SDMMD_AFCReceiveOperation: the next packet, whoever it is for
Receive(t) ==
    /\ AtFront(t) /\ call[t].asking /\ ~link.torn /\ link.in # <<>>
    /\ LET answer == Head(link.in) IN
          Completes(t, answer.granted, answer.body)
    /\ link' = [link EXCEPT !.in = Tail(@)]
    /\ UNCHANGED <<ssl, device>>

\* Mutant of ReceiveNothing: SSL is given up as a plain socket is
ReceiveNothingAlways(t) ==
    /\ AtFront(t) /\ call[t].asking /\ ~link.torn /\ link.in = <<>>
    /\ Completes(t, FALSE, Null)
    /\ link' = [link EXCEPT !.waited = @ \/ link.up]
    /\ UNCHANGED <<ssl, device>>

\* Mutant of ReceiveNothing: a plain socket is waited for as SSL_read does
ReceiveNothingAtEnd(t) ==
    /\ AtFront(t) /\ call[t].asking /\ ~link.torn /\ link.in = <<>>
    /\ ~link.up
    /\ Completes(t, FALSE, Null)
    /\ UNCHANGED <<ssl, link, device>>

\* Nothing comes: the stream has ended, or, over a plain socket, select gave up
ReceiveNothing(t) ==
    /\ AtFront(t) /\ call[t].asking /\ ~link.torn /\ link.in = <<>>
    /\ ~link.up \/ ~ssl
    /\ Completes(t, FALSE, Null)
    /\ link' = [link EXCEPT !.waited = @ \/ link.up]
    /\ UNCHANGED <<ssl, device>>

\* Then what follows no longer starts with a header
Torn == [link EXCEPT !.torn = TRUE, !.outside = FALSE, !.waited = TRUE,
                     !.in = <<>>, !.todo = <<>>]

\* Over a plain socket the header comes in time and the body does not: a body of
\* zeros is received
ReceiveTorn(t) ==
    /\ AtFront(t) /\ call[t].asking /\ ~link.torn /\ ~ssl
    /\ link.in # <<>> /\ Head(link.in).body # Null
    /\ Completes(t, FALSE, Zeros)
    /\ link' = Torn
    /\ UNCHANGED <<ssl, device>>

\* Part of a packet comes, and no more of it until recv(2) fails: that failure is
\* subtracted from the unsigned remainder, and the loop goes on
ReceiveStalls(t) ==
    /\ AtFront(t) /\ call[t].asking /\ ~ssl /\ link.up /\ ~link.outside
    /\ link.torn \/ link.in # <<>>
    /\ link' = [Torn EXCEPT !.outside = TRUE]
    /\ UNCHANGED <<ssl, queue, call, device, crashed>>

\* Anything is received (zeros stand for it), or nothing; what counts a failure
\* ends with the stream
ReceiveGarbage(t) ==
    /\ AtFront(t) /\ call[t].asking /\ link.torn /\ (link.outside => ~link.up)
    /\ \E body \in {Null, Zeros} : Completes(t, FALSE, body)
    /\ link' = Torn
    /\ UNCHANGED <<ssl, device>>

\* More bytes come after a failure was counted: they are stored where they do not
\* belong, or outside the buffer, which may end the process.  Through OpenSSL
\* SSL_read fails when the socket's 25 seconds are over, at any byte of a packet.
ReceiveOutside(t) ==
    /\ AtFront(t) /\ call[t].asking
    /\ link.outside \/ (ssl /\ ~link.torn /\ link.in # <<>>)
    /\ \/ \E body \in {Null, Zeros} : Completes(t, FALSE, body)
       \/ crashed' = TRUE /\ UNCHANGED <<queue, call>>
    /\ link' = Torn
    /\ UNCHANGED <<ssl, device>>

-----------------------------------------------------------------------------
(* The conduit.                                                            *)

Reply(r, granted, body) ==
    link' = [link EXCEPT !.todo = Tail(@),
                         !.late = IF link.waited THEN @ + 1 ELSE @,
                         !.in = Append(@, Answer(r.by, granted, body))]

\* A file is opened for reading and writing and keeps what it has
ServeOpen(r) ==
    /\ r.kind = "open"
    /\ \E h \in Handles \ Open :
          /\ device' = [device EXCEPT !.file[h] = <<r.by, r.path>>]
          /\ Reply(r, TRUE, Status(h))

ServeWrite(r) ==
    /\ r.kind = "write" /\ r.handle \in Open
    /\ LET h == r.handle IN
       device' = [device EXCEPT !.files[device.file[h]] = Overwrite(@, device.at[h], r.data),
                                !.at[h] = @ + Len(r.data)]
    /\ Reply(r, TRUE, Zeros)

\* At the end of the file the packet has no body
ServeRead(r) ==
    /\ r.kind = "read" /\ r.handle \in Open
    /\ LET h == r.handle
           file == device.files[device.file[h]]
           data == SubSeq(file, device.at[h] + 1, Smaller(device.at[h] + r.size, Len(file)))
       IN /\ device' = [device EXCEPT !.at[h] = @ + Len(data)]
          /\ Reply(r, TRUE, Body(0, data))

ServeClose(r) ==
    /\ r.kind = "close" /\ r.handle \in Open
    /\ device' = [device EXCEPT !.file[r.handle] = NoFile, !.at[r.handle] = 0]
    /\ Reply(r, TRUE, Zeros)

ServeOther(r) ==
    /\ r.kind \in {"mkdir", "Touch", "List", "Remove"}
    /\ Reply(r, TRUE, Zeros)
    /\ UNCHANGED device

Refuse(r) ==
    /\ device.refusals < MaxRefusals
    /\ \E code \in Codes : Reply(r, FALSE, Status(code))
    /\ device' = [device EXCEPT
          !.refusals = @ + 1,
          !.misled = @ \/ r.kind = "open",
          !.kept = IF r.kind = "close" THEN @ \union {r.handle} ELSE @]

Serve ==
    /\ link.wifi /\ link.up /\ link.todo # <<>> /\ (link.waited => link.late < MaxLate)
    /\ LET r == Head(link.todo) IN
          \/ ServeOpen(r) \/ ServeWrite(r) \/ ServeRead(r)
          \/ ServeClose(r) \/ ServeOther(r) \/ Refuse(r)
    /\ UNCHANGED <<ssl, queue, call, crashed>>

\* It reads no more, and what is being written does not fit
StopReading ==
    /\ link.up /\ ~link.full /\ ~link.torn
    /\ \E t \in Threads : AtFront(t) /\ ~call[t].asking
    /\ link' = [link EXCEPT !.full = TRUE]
    /\ UNCHANGED <<ssl, queue, call, device, crashed>>

\* The device leaves, or the conduit ends; what it has sent may still be read
HangUp ==
    /\ link.up
    /\ link' = [link EXCEPT !.up = FALSE, !.todo = <<>>]
    /\ device' = [device EXCEPT !.file = [h \in Handles |-> NoFile],
                                !.at = [h \in Handles |-> 0]]
    /\ UNCHANGED <<ssl, queue, call, crashed>>

ThreadStep(t) ==
    \/ NextFile(t) \/ Submit(t) \/ Send(t) \/ SendFails(t)
    \/ Receive(t) \/ ReceiveNothing(t) \/ ReceiveTorn(t) \/ ReceiveStalls(t)
    \/ ReceiveGarbage(t)

Rest ==
    /\ crashed \/ \A t \in Threads : call[t].step = "returned"
    /\ UNCHANGED vars

Next ==
    \/ /\ ~crashed
       /\ \/ \E t \in Threads : Begin(t) \/ ThreadStep(t) \/ ReceiveOutside(t)
          \/ Serve
          \/ StopReading
          \/ HangUp
    \/ Rest

Spec == Init /\ [][Next]_vars

\* Threads and the queue run.  Nothing is asked of the conduit.
FairSpec == Spec /\ \A t \in Threads : WF_vars(~crashed /\ ThreadStep(t))

-----------------------------------------------------------------------------
(* Properties                                                              *)

Requests ==
    [by : Threads, kind : Exchanges \union Operations, path : 1..Width,
     handle : Nat, data : Seq(Int), size : Nat]
Bodies == [word : Nat, data : Seq(Int)]

\* The variables have their types; the calls and answers say what they may.
TypeOK ==
    /\ ssl \in BOOLEAN /\ crashed \in BOOLEAN
    /\ link \in [wifi : BOOLEAN, up : BOOLEAN, full : BOOLEAN, todo : Seq(Requests),
                 torn : BOOLEAN, outside : BOOLEAN, waited : BOOLEAN, late : 0..MaxLate,
                 in : Seq([to : Threads, granted : BOOLEAN, body : Bodies])]
    /\ queue \in Seq(Threads)
    /\ call \in [Threads ->
          [op : Operations \union {"none"},
           step : Exchanges \union {"none", "next", "returned"},
           files : Seq(Nat \union {Missing}), path : Nat, handle : Nat,
           index : Nat, local : Seq(Int), at : Nat, failed : BOOLEAN,
           sure : BOOLEAN, asking : BOOLEAN]]
    /\ device \in [files : [Paths -> Seq(Int)],
                   file : [Handles -> Paths \union {NoFile}], at : [Handles -> Nat], misled : BOOLEAN,
                   kept : SUBSET Nat, refusals : 0..MaxRefusals]

\* No answer is late for a call that has given up on it, and none was stored where
\* it does not belong: over a plain socket no receive waited in vain.
Trusted == ~link.torn /\ (ssl \/ ~link.waited)

\* An answer is taken by the call that asked: there is never more on its way
\* than the request, or the answer, of the operation at the front of the queue,
\* as long as no receive over a plain socket waited in vain.  Through OpenSSL
\* this holds until an answer is stored outside the buffer.
AnswerIsOwn ==
    Trusted =>
        /\ Len(link.todo) + Len(link.in) <= 1
        /\ \A i \in 1..Len(link.todo) :
              AtFront(link.todo[i].by) /\ call[link.todo[i].by].asking
        /\ \A i \in 1..Len(link.in) :
              AtFront(link.in[i].to) /\ call[link.in[i].to].asking

\* The conduit is there, and requests get to it
Reads == link.up /\ ~link.full

\* A call never writes to, reads or closes the file of another: as long as its
\* requests get to the conduit its handle is its own, unless a status was taken
\* for one.
HandleIsOwn ==
    Trusted /\ ~device.misled =>
        \A t \in Threads :
            Reads /\ call[t].step \in {"write", "read", "close"} /\ call[t].sure =>
                /\ call[t].handle \in Open
                     \/ (call[t].step = "close" /\ call[t].asking)
                /\ call[t].handle \in Open =>
                     device.file[call[t].handle] = <<t, call[t].path>>

\* A file that was sent, each packet granted, is on the device as it is here,
\* up to the length where the offset wraps; what the device's file had beyond
\* that length is still there.
SentFileIsWhole ==
    Trusted /\ ~device.misled =>
        \A t \in Threads :
            LET c == call[t]
                file == device.files[<<t, c.path>>]
            IN c.op \in {"File", "Tree"} /\ c.step = "close" /\ c.sure
                 /\ ~c.failed /\ Length(c) <= OffsetLimit =>
                    Len(file) >= Length(c) /\ SubSeq(file, 1, Length(c)) = HostFile(Length(c))

\* A file that was fetched, each packet granted, begins as the device's does: as
\* far as both go, and as far as the local file went before it was overwritten.
FetchedFileIsPrefix ==
    Trusted /\ ~device.misled =>
        \A t \in Threads :
            LET c == call[t]
                file == device.files[<<t, c.path>>]
                both == Smaller(Length(c), Len(file))
            IN c.op = "Fetch" /\ c.step = "close" /\ c.sure
                 /\ ~c.failed /\ Length(c) <= OffsetLimit =>
                    /\ SubSeq(c.local, 1, both) = SubSeq(file, 1, both)
                    /\ Len(c.local) = Length(c)

\* Copies are right both ways: CopyFile leaves on the device what is in
\* the file here, and RemoteCopyFile in the local file what is in the device's.
CopiesAreFaithful == SentFileIsWhole /\ FetchedFileIsPrefix

\* When no copy is under way the conduit has no file open but those it refused
\* to close, if it never refused to open one: a copy that fails part of the way
\* closes its file too.  The request to close must get to it.
FilesAreClosed ==
    Trusted /\ ~Full /\ ~device.misled /\ ~crashed /\ (\A t \in Threads : ~InCall(t))
        => Open \subseteq device.kept

\* What has no end while the conduit is there and is silent: a write over USB for
\* which there is no room, and a receive over a plain socket that counts a failure
\* of recv(2) as bytes received.
Stuck ==
    /\ link.up
    /\ \/ link.outside
       \/ ~link.wifi /\ link.full /\ \E t \in Threads : AtFront(t) /\ ~call[t].asking

\* Over a plain socket every call returns, whatever the conduit does, unless the
\* process ends or the operation at the front of the queue is stuck for ever.
PlainCallReturns ==
    \A t \in Threads : ssl \/ []<>(~InCall(t) \/ crashed) \/ <>[]Stuck
=============================================================================
