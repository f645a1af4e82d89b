--------------------------- MODULE USBMuxChannel ----------------------------
(***************************************************************************)
(* The request/response half of SDMMD_USBMuxListener: the threads that     *)
(* call send:, the serial operation queue they go through, the semaphore   *)
(* each send waits on, the list of responses, the socket queue on which    *)
(* packets from usbmuxd are read, the start loop, and usbmuxd itself.      *)
(*                                                                         *)
(* Threads run between any two of their steps; the socket queue runs       *)
(* beside them.  Time is abstracted: a wait may time out at any moment its *)
(* semaphore is not signalled.                                             *)
(***************************************************************************)
EXTENDS Integers, Sequences, SequencesExt

CONSTANTS
    Starter,        \* the thread that runs -start, inside dispatch_once
    Clients,        \* the threads that call updateDeviceList or IsAttached
    TagModulus,     \* transactionId wraps here (2^32 in the code)
    ListenCodes,    \* the result codes usbmuxd may answer Listen with
    MaxCalls,       \* bound: packets each thread creates
    MaxPackets      \* bound: packets usbmuxd sends, after which it is silent

Threads == Clients \union {Starter}

ASSUME ThreadsAssumption == Starter \notin Clients
ASSUME TagAssumption == TagModulus \in Nat \ {0, 1}
ASSUME CodeAssumption == ListenCodes \subseteq Nat
ASSUME BoundsAssumption == MaxCalls \in [Threads -> Nat] /\ MaxPackets \in Nat

VARIABLES
    transactionId,  \* USBMuxPacket.m's static counter
    isActive,       \* self.isActive
    pc,             \* pc[t]: where thread t stands
    tag,            \* tag[t]: bodyTag of the packet t is sending
    calls,          \* calls[t]: packets t has created
    opQueue,        \* blocks submitted to _operationQueue; the head runs
    semaphore,      \* count of the current _semaphore, NilSemaphore before one
    seen,           \* seen[t]: length of responses when t began its search
    reply,          \* reply[t]: the packet send: hands back to t
    responses,      \* self.responses
    handlerPc,      \* the socket queue's event handler
    aborted,        \* the process was ended by an exception or a nil semaphore
    requests,       \* bytes written to usbmuxd and not yet handled by it
    wire,           \* packets usbmuxd sent and the handler has not read
    sent,           \* how many packets were put on the wire
    listening,      \* usbmuxd accepted a Listen on this connection
    closed          \* usbmuxd closed the connection

listenerVars == <<transactionId, isActive, opQueue, semaphore, responses,
                  handlerPc, aborted>>
threadVars == <<pc, tag, calls, seen, reply>>
muxVars == <<requests, wire, sent, listening, closed>>
vars == <<listenerVars, threadVars, muxVars>>

NilSemaphore == -1

NoCall == 0          \* the call field of a packet that answers no request

\* The packet of -[USBMuxPacket init]: an empty dictionary, tag 0.
EmptyPacket ==
    [n |-> 0, tag |-> 0, kind |-> "Empty", code |-> 0,
     thread |-> Starter, call |-> NoCall]

ResponseKinds == {"Result", "DeviceList", "Unknown"}

\* The type of the packets a thread sends.
PacketType(t) == IF t = Starter THEN "Listen" ELSE "ListDevices"

Init ==
    /\ transactionId = 0
    /\ isActive = FALSE
    /\ pc = [t \in Threads |-> "idle"]
    /\ tag = [t \in Threads |-> 0]
    /\ calls = [t \in Threads |-> 0]
    /\ opQueue = <<>>
    /\ semaphore = NilSemaphore
    /\ seen = [t \in Threads |-> 0]
    /\ reply = [t \in Threads |-> EmptyPacket]
    /\ responses = <<>>
    /\ handlerPc = "idle"
    /\ aborted = FALSE
    /\ requests = <<>>
    /\ wire = <<>>
    /\ sent = 0
    /\ listening = FALSE
    /\ closed = FALSE

Goto(t, from, to) ==
    /\ pc[t] = from
    /\ pc' = [pc EXCEPT ![t] = to]

-----------------------------------------------------------------------------
(* Creating a packet: -[USBMuxPacket initWithType:payload:] reads the      *)
(* static transactionId and increments it, on the caller's thread, with    *)
(* no lock.                                                                *)

\* The start loop runs until isActive; the others wait for dispatch_once.
ReadTransactionId(t) ==
    /\ Goto(t, "idle", "tagged")
    /\ isActive = (t # Starter)
    /\ calls[t] < MaxCalls[t]
    /\ tag' = [tag EXCEPT ![t] = transactionId]
    /\ calls' = [calls EXCEPT ![t] = @ + 1]
    /\ UNCHANGED <<listenerVars, seen, reply, muxVars>>

WidensTag(t) ==
    /\ Goto(t, "tagged", "created")
    /\ transactionId' = tag[t] + 1
    /\ UNCHANGED <<isActive, opQueue, semaphore, responses, handlerPc, aborted,
                   tag, calls, seen, reply, muxVars>>

\* transactionId++ is a load, an add and a store: the load may be the one that
\* gave the tag, or a later one.
IncrementTransactionId(t) ==
    /\ Goto(t, "tagged", "created")
    /\ \E loaded \in {tag[t], transactionId} :
          transactionId' = (loaded + 1) % TagModulus
    /\ UNCHANGED <<isActive, opQueue, semaphore, responses, handlerPc, aborted,
                   tag, calls, seen, reply, muxVars>>

\* SDMMD_USBMuxConnectByPort numbers a packet too, and sends it on a socket of
\* its own.
ConnectByPort(t) ==
    /\ t # Starter
    /\ Goto(t, "created", "idle")
    /\ tag' = [tag EXCEPT ![t] = 0]
    /\ UNCHANGED <<listenerVars, calls, seen, reply, muxVars>>

-----------------------------------------------------------------------------
(* send: runs as a block of the serial _operationQueue.                    *)

\* dispatch_sync puts the block behind those already submitted.
SubmitSend(t) ==
    /\ Goto(t, "created", "queued")
    /\ opQueue' = Append(opQueue, t)
    /\ UNCHANGED <<transactionId, isActive, semaphore, responses, handlerPc,
                   aborted, tag, calls, seen, reply, muxVars>>

\* _operationQueue is serial: the oldest block runs until it is done.
RunsConcurrently(t) == TRUE
Runs(t) == Head(opQueue) = t

\* The block starts: a new semaphore, then SDMMD_USBMuxSend, whose failure on
\* a closed socket goes unnoticed.
BeginSend(t) ==
    /\ Goto(t, "queued", "waiting")
    /\ Runs(t)
    /\ semaphore' = 0
    /\ requests' = IF closed THEN requests
                   ELSE Append(requests, [thread |-> t, call |-> calls[t],
                                          tag |-> tag[t], type |-> PacketType(t)])
    /\ UNCHANGED <<transactionId, isActive, opQueue, responses, handlerPc,
                   aborted, tag, calls, seen, reply,
                   wire, sent, listening, closed>>

\* dispatch_semaphore_wait returns because of a signal.
Wake(t) ==
    /\ Goto(t, "waiting", "searching")
    /\ semaphore > 0
    /\ semaphore' = semaphore - 1
    /\ seen' = [seen EXCEPT ![t] = Len(responses)]
    /\ UNCHANGED <<transactionId, isActive, opQueue, responses, handlerPc,
                   aborted, tag, calls, reply, muxVars>>

WaitsForever(t) == FALSE /\ UNCHANGED vars

\* dispatch_semaphore_wait returns because the packet's timeout has passed.
TimeOut(t) ==
    /\ Goto(t, "waiting", "searching")
    /\ semaphore = 0
    /\ seen' = [seen EXCEPT ![t] = Len(responses)]
    /\ UNCHANGED <<listenerVars, tag, calls, reply, muxVars>>

\* The positions, among the first k responses, of those whose tag is that of
\* the packet t sent.
Matches(t, k) == {i \in 1..k : responses[i].tag = tag[t]}

WithoutNothing(s, i) == s
WithoutLast(s, i) == SubSeq(s, 1, Len(s) - 1)
Without(s, i) == RemoveAt(s, i)

\* The first match is removed and returned, else an empty packet is.  What the
\* handler appends while the loop runs may be enumerated or not.
FinishSend(t) ==
    /\ Goto(t, "searching", "returned")
    /\ \E k \in {seen[t], Len(responses)} :
          \/ /\ Matches(t, k) = {}
             /\ reply' = [reply EXCEPT ![t] = EmptyPacket]
             /\ UNCHANGED responses
          \/ \E i \in Matches(t, k) :
                /\ \A j \in Matches(t, k) : i <= j
                /\ reply' = [reply EXCEPT ![t] = responses[i]]
                /\ responses' = Without(responses, i)
    /\ opQueue' = Tail(opQueue)
    /\ UNCHANGED <<transactionId, isActive, semaphore, handlerPc, aborted,
                   tag, calls, seen, muxVars>>

\* ... or the enumeration notices the mutation and raises.
EnumerationRaises(t) ==
    /\ pc[t] = "searching"
    /\ Len(responses) > seen[t]
    /\ aborted' = TRUE
    /\ UNCHANGED <<transactionId, isActive, opQueue, semaphore, responses,
                   handlerPc, threadVars, muxVars>>

StartNeedsResponse(t) ==
    /\ Goto(t, "returned", "idle")
    /\ isActive' = (isActive \/ /\ t = Starter
                                /\ reply[t].kind = "Result"
                                /\ reply[t].code = 0)
    /\ reply' = [reply EXCEPT ![t] = EmptyPacket]
    /\ tag' = [tag EXCEPT ![t] = 0]
    /\ seen' = [seen EXCEPT ![t] = 0]
    /\ UNCHANGED <<transactionId, opQueue, semaphore, responses, handlerPc,
                   aborted, calls, muxVars>>

\* The caller looks at what it was given.  The start loop takes a response
\* whose code is 0, which an empty packet's is, for usbmuxd's agreement.
SendReturned(t) ==
    /\ Goto(t, "returned", "idle")
    /\ isActive' = (isActive \/ (t = Starter /\ reply[t].code = 0))
    /\ reply' = [reply EXCEPT ![t] = EmptyPacket]
    /\ tag' = [tag EXCEPT ![t] = 0]
    /\ seen' = [seen EXCEPT ![t] = 0]
    /\ UNCHANGED <<transactionId, opQueue, semaphore, responses, handlerPc,
                   aborted, calls, muxVars>>

-----------------------------------------------------------------------------
(* The event handler on _socketQueue.                                      *)

\* The next packet, when it answers no request.
Unsolicited(kind) ==
    [n |-> sent + 1, tag |-> 0, kind |-> kind, code |-> 0,
     thread |-> Starter, call |-> NoCall]

\* SDMMD_USBMuxReceive: the packet made from the payload replaces the one that
\* holds the header, so the tag usbmuxd echoed is lost.
USBMuxReceive(p) == [p EXCEPT !.tag = 0]

\* A response is added to the list first and signalled after.
ReceiveResponse ==
    /\ handlerPc = "idle"
    /\ wire # <<>>
    /\ Head(wire).kind \in ResponseKinds
    /\ responses' = Append(responses, USBMuxReceive(Head(wire)))
    /\ wire' = Tail(wire)
    /\ handlerPc' = "signal"
    /\ UNCHANGED <<transactionId, isActive, opQueue, semaphore, aborted,
                   threadVars, requests, sent, listening, closed>>

\* Attached, Detached and the message types the handler does not know are
\* neither kept nor signalled.
ReceiveEvent ==
    /\ handlerPc = "idle"
    /\ wire # <<>>
    /\ Head(wire).kind = "Event"
    /\ wire' = Tail(wire)
    /\ UNCHANGED <<listenerVars, threadVars, requests, sent, listening, closed>>

\* At end of file every read yields a packet with an empty dictionary, which
\* is handled as an unknown response.
ReceiveEndOfFile ==
    /\ handlerPc = "idle"
    /\ closed
    /\ wire = <<>>
    /\ sent < MaxPackets
    /\ sent' = sent + 1
    /\ responses' = Append(responses, Unsolicited("Unknown"))
    /\ handlerPc' = "signal"
    /\ UNCHANGED <<transactionId, isActive, opQueue, semaphore, aborted,
                   threadVars, requests, wire, listening, closed>>

SignalsResultsOnly ==
    /\ handlerPc = "signal"
    /\ semaphore # NilSemaphore
    /\ semaphore' = IF responses # <<>>
                       /\ responses[Len(responses)].kind = "DeviceList"
                    THEN semaphore
                    ELSE semaphore + 1
    /\ handlerPc' = "idle"
    /\ UNCHANGED <<transactionId, isActive, opQueue, responses, aborted,
                   threadVars, muxVars>>

\* The callback ends with dispatch_semaphore_signal(_semaphore), whichever
\* send that semaphore now belongs to.
Signal ==
    /\ handlerPc = "signal"
    /\ semaphore # NilSemaphore
    /\ semaphore' = semaphore + 1
    /\ handlerPc' = "idle"
    /\ UNCHANGED <<transactionId, isActive, opQueue, responses, aborted,
                   threadVars, muxVars>>

\* Before the first send there is no semaphore to signal.
SignalNil ==
    /\ handlerPc = "signal"
    /\ semaphore = NilSemaphore
    /\ aborted' = TRUE
    /\ UNCHANGED <<transactionId, isActive, opQueue, semaphore, responses,
                   handlerPc, threadVars, muxVars>>

-----------------------------------------------------------------------------
(* usbmuxd: it answers the requests of a connection in order, when it      *)
(* likes, echoing the tag; it reports devices once it listens; it may go   *)
(* away.                                                                   *)

Put(p) ==
    /\ ~closed
    /\ sent < MaxPackets
    /\ sent' = sent + 1
    /\ wire' = Append(wire, p)

Answer(kind, code) ==
    LET request == Head(requests) IN
    [n |-> sent + 1, tag |-> request.tag, kind |-> kind, code |-> code,
     thread |-> request.thread, call |-> request.call]

AnswerListen ==
    /\ requests # <<>>
    /\ Head(requests).type = "Listen"
    /\ \E code \in ListenCodes :
          /\ Put(Answer("Result", code))
          /\ listening' = (listening \/ code = 0)
    /\ requests' = Tail(requests)
    /\ UNCHANGED <<listenerVars, threadVars, closed>>

AnswerListDevices ==
    /\ requests # <<>>
    /\ Head(requests).type = "ListDevices"
    /\ Put(Answer("DeviceList", 0))
    /\ requests' = Tail(requests)
    /\ UNCHANGED <<listenerVars, threadVars, listening, closed>>

Notify ==
    /\ listening
    /\ Put(Unsolicited("Event"))
    /\ UNCHANGED <<listenerVars, threadVars, requests, listening, closed>>

Close ==
    /\ ~closed
    /\ closed' = TRUE
    /\ requests' = <<>>
    /\ UNCHANGED <<listenerVars, threadVars, wire, sent, listening>>

-----------------------------------------------------------------------------
ThreadStep(t) ==
    \/ IncrementTransactionId(t)
    \/ ConnectByPort(t)
    \/ SubmitSend(t)
    \/ BeginSend(t)
    \/ Wake(t)
    \/ TimeOut(t)
    \/ FinishSend(t)
    \/ EnumerationRaises(t)
    \/ SendReturned(t)

HandlerStep ==
    \/ ReceiveResponse
    \/ ReceiveEvent
    \/ ReceiveEndOfFile
    \/ Signal
    \/ SignalNil

MuxStep ==
    \/ AnswerListen
    \/ AnswerListDevices
    \/ Notify
    \/ Close

\* Nothing is left to do: the process is gone, or every thread is between two
\* calls.
Rest ==
    /\ aborted \/ \A t \in Threads : pc[t] = "idle"
    /\ UNCHANGED vars

Next ==
    \/ /\ ~aborted
       /\ \/ \E t \in Threads : ReadTransactionId(t) \/ ThreadStep(t)
          \/ HandlerStep
          \/ MuxStep
    \/ Rest

Spec == Init /\ [][Next]_vars

\* The threads of the process and the socket queue are scheduled; the start
\* loop calls again until it is active; usbmuxd owes nothing.
Fairness ==
    /\ \A t \in Threads : WF_vars(~aborted /\ ThreadStep(t))
    /\ WF_vars(~aborted /\ ReadTransactionId(Starter))
    /\ WF_vars(~aborted /\ HandlerStep)

FairSpec == Spec /\ Fairness

-----------------------------------------------------------------------------
(* Properties                                                              *)

Packets == [n : Nat, tag : 0..(TagModulus - 1),
            kind : ResponseKinds \union {"Event", "Empty"},
            code : Nat, thread : Threads, call : Nat]

Requests == [thread : Threads, call : Nat, tag : 0..(TagModulus - 1),
             type : {"Listen", "ListDevices"}]

\* The type invariant of the channel's variables.
TypeOK ==
    /\ transactionId \in 0..(TagModulus - 1)
    /\ isActive \in BOOLEAN
    /\ pc \in [Threads -> {"idle", "tagged", "created", "queued", "waiting",
                           "searching", "returned"}]
    /\ tag \in [Threads -> 0..(TagModulus - 1)]
    /\ calls \in [Threads -> Nat]
    /\ opQueue \in Seq(Threads)
    /\ semaphore \in Nat \union {NilSemaphore}
    /\ seen \in [Threads -> Nat]
    /\ reply \in [Threads -> Packets]
    /\ responses \in Seq(Packets)
    /\ handlerPc \in {"idle", "signal"}
    /\ aborted \in BOOLEAN
    /\ requests \in Seq(Requests)
    /\ wire \in Seq(Packets)
    /\ sent \in 0..MaxPackets
    /\ listening \in BOOLEAN
    /\ closed \in BOOLEAN

Running(t) == pc[t] \in {"waiting", "searching"}

\* The serial operation queue lets one send at a time own _semaphore and search
\* the responses, and that send is the oldest one submitted.
SendsDontOverlap ==
    \A t \in Threads : Running(t) =>
        /\ opQueue # <<>> /\ Head(opQueue) = t
        /\ \A u \in Threads : Running(u) => u = t

\* A packet taken off the socket is in the list of responses or was handed to
\* one caller of send:, never to two and never both.
EachResponseOnce ==
    /\ \A i, j \in 1..Len(responses) :
          responses[i].n = responses[j].n => i = j
    /\ \A t \in Threads : reply[t] # EmptyPacket =>
          /\ \A i \in 1..Len(responses) : responses[i].n # reply[t].n
          /\ \A u \in Threads : reply[u].n = reply[t].n => u = t

\* responses[i] is usbmuxd's answer to what t is sending.
Answers(i, t) == responses[i].thread = t /\ responses[i].call = calls[t]

\* A send never sleeps on an answer that is already there: once the handler
\* has dealt with the answer to the packet a thread waits for, the semaphore
\* that thread waits on is signalled.
NoMissedWakeup ==
    \A t \in Threads :
        /\ pc[t] = "waiting"
        /\ handlerPc = "idle"
        /\ \E i \in 1..Len(responses) : Answers(i, t)
        => semaphore > 0

\* Listener.m:390, "Search responses for a packet that matches the one sent": a
\* send that comes back empty left no answer of its own in what it searched.
AnswerIsFound ==
    \A t \in Threads : pc[t] = "returned" /\ reply[t] = EmptyPacket =>
        \A i \in 1..Len(responses) : i <= seen[t] => ~Answers(i, t)

\* Listener.m:367-370, "no response payload. trying again." and "non-zero
\* response code. trying again.": start ends only when usbmuxd agreed.
ActiveMeansListening == isActive => listening

SendReturns ==
    \A t \in Threads : pc[t] = "queued" ~> (pc[t] = "returned" \/ aborted)

StartReturns == <>(isActive \/ aborted)

\* A packet passed to send: is eventually given back to its caller; and start,
\* with it InitializeSDMMobileDevice, returns.  Both whatever usbmuxd does.
CallsReturn == SendReturns /\ StartReturns

Contract == INSTANCE SendContract WITH
    state <- [t \in Threads |->
                IF pc[t] \in {"queued", "waiting", "searching"} THEN "sending"
                ELSE IF pc[t] = "returned" THEN "returned" ELSE "idle"],
    unclaimed <- {responses[i].n : i \in 1..Len(responses)},
    last <- sent - Len(wire),
    result <- [t \in Threads |-> reply[t].n]

\* send: keeps the promise of its header: a response nobody else gets, or the
\* empty packet.
ImplementsContract == Contract!Spec
=============================================================================
