------------------------ MODULE USBMuxChannelProofs -------------------------
(***************************************************************************)
(* Proofs about USBMuxChannel, for any number of threads, any width of     *)
(* transactionId, any result codes and any bounds.                         *)
(***************************************************************************)
EXTENDS USBMuxChannel, TLAPS, SequenceTheorems

-----------------------------------------------------------------------------
(* The inductive invariant.                                                *)

\* Each thread has at most one block in the operation queue, exactly while its
\* send runs or waits to run, and only the head runs.  What a search has seen of
\* the responses is still there.
QueueInv ==
    /\ \A i, j \in 1..Len(opQueue) : opQueue[i] = opQueue[j] => i = j
    /\ \A i \in 1..Len(opQueue) :
          pc[opQueue[i]] \in {"queued", "waiting", "searching"}
    /\ \A t \in Threads : pc[t] \in {"queued", "waiting", "searching"} =>
          \E i \in 1..Len(opQueue) : opQueue[i] = t
    /\ \A t \in Threads : Running(t) => opQueue[1] = t
    /\ \A t \in Threads : pc[t] = "searching" => seen[t] <= Len(responses)

\* Packets are numbered in the order of the wire; what was read has a smaller
\* number than what was not, and no number is in two places.
NumberInv ==
    /\ \A i \in 1..Len(wire) : wire[i].n \in 1..sent
    /\ \A i, j \in 1..Len(wire) : i < j => wire[i].n < wire[j].n
    /\ \A i \in 1..Len(responses) :
          /\ responses[i].n \in 1..sent
          /\ \A j \in 1..Len(wire) : responses[i].n < wire[j].n
    /\ \A i, j \in 1..Len(responses) : i < j => responses[i].n < responses[j].n
    /\ \A t \in Threads : reply[t] # EmptyPacket =>
          /\ reply[t].n \in 1..sent
          /\ \A j \in 1..Len(wire) : reply[t].n < wire[j].n
          /\ \A i \in 1..Len(responses) : responses[i].n # reply[t].n
          /\ \A u \in Threads : reply[u].n = reply[t].n => u = t

\* The request numbered call of thread t was made, and it is not one whose
\* packet t has yet to send.
Issued(t, call) ==
    /\ call <= calls[t]
    /\ pc[t] \in {"tagged", "created", "queued"} => call < calls[t]

IssuedInv ==
    /\ \A t \in Threads :
          pc[t] \in {"tagged", "created", "queued", "waiting"} => calls[t] > 0
    /\ \A i \in 1..Len(requests) : Issued(requests[i].thread, requests[i].call)
    /\ \A i \in 1..Len(wire) : wire[i].call # NoCall =>
          Issued(wire[i].thread, wire[i].call)
    /\ \A i \in 1..Len(responses) : responses[i].call # NoCall =>
          Issued(responses[i].thread, responses[i].call)

IInv == TypeOK /\ QueueInv /\ NumberInv /\ IssuedInv /\ NoMissedWakeup

-----------------------------------------------------------------------------
(* Lemmas about sequences and packets.                                     *)

\* What is left after removing the element at position i.
LEMMA WithoutProperties ==
    ASSUME NEW S, NEW s \in Seq(S), NEW i \in 1..Len(s)
    PROVE  /\ Without(s, i) \in Seq(S)
           /\ Len(Without(s, i)) = Len(s) - 1
           /\ \A j \in 1..(Len(s) - 1) :
                 Without(s, i)[j] = IF j < i THEN s[j] ELSE s[j + 1]
<1> DEFINE front == SubSeq(s, 1, i - 1)
           back == SubSeq(s, i + 1, Len(s))
<1>1. /\ front \in Seq(S)
      /\ Len(front) = i - 1
      /\ \A j \in 1..(i - 1) : front[j] = s[j]
  <2>1. \A j \in 1..(i - 1) : s[j] \in S
    BY ElementOfSeq
  <2> QED
    BY <2>1, SubSeqProperties
<1>2. /\ back \in Seq(S)
      /\ Len(back) = Len(s) - i
      /\ \A j \in 1..(Len(s) - i) : back[j] = s[i + j]
  <2>1. \A j \in (i + 1)..Len(s) : s[j] \in S
    BY ElementOfSeq
  <2> QED
    BY <2>1, SubSeqProperties
<1>3. Without(s, i) = front \o back
  BY DEF Without, RemoveAt
<1> HIDE DEF front, back
<1>4. /\ front \o back \in Seq(S)
      /\ Len(front \o back) = Len(front) + Len(back)
      /\ \A j \in 1..(Len(front) + Len(back)) : (front \o back)[j] =
            IF j <= Len(front) THEN front[j] ELSE back[j - Len(front)]
  BY <1>1, <1>2, ConcatProperties
<1> QED
  BY <1>1, <1>2, <1>3, <1>4

LEMMA EmptyPacketType == EmptyPacket \in Packets
  BY TagAssumption DEF EmptyPacket, Packets, Threads, NoCall

LEMMA UnsolicitedType ==
    ASSUME sent \in Nat, NEW kind \in ResponseKinds \union {"Event"}
    PROVE  Unsolicited(kind) \in Packets
  BY TagAssumption DEF Unsolicited, Packets, Threads, NoCall

\* An answer to the oldest request is a packet numbered after all others.
LEMMA AnswerType ==
    ASSUME sent \in Nat, requests \in Seq(Requests), requests # <<>>,
           NEW kind \in ResponseKinds, NEW code \in Nat
    PROVE  /\ Answer(kind, code) \in Packets
           /\ Answer(kind, code).n = sent + 1
           /\ Answer(kind, code).thread = requests[1].thread
           /\ Answer(kind, code).call = requests[1].call
<1>1. Head(requests) \in Requests /\ Head(requests) = requests[1]
  BY HeadTailProperties
<1>2. /\ requests[1].thread \in Threads /\ requests[1].call \in Nat
      /\ requests[1].tag \in 0..(TagModulus - 1)
  BY <1>1 DEF Requests
<1>3. Answer(kind, code) =
        [n |-> sent + 1, tag |-> requests[1].tag, kind |-> kind,
         code |-> code, thread |-> requests[1].thread,
         call |-> requests[1].call]
  BY <1>1 DEF Answer
<1> QED
  BY <1>2, <1>3 DEF Packets

\* A received packet is a packet that keeps everything but its tag.
LEMMA ReceiveType ==
    ASSUME NEW p \in Packets
    PROVE  /\ USBMuxReceive(p) \in Packets
           /\ USBMuxReceive(p).n = p.n
           /\ USBMuxReceive(p).call = p.call
           /\ USBMuxReceive(p).thread = p.thread
  BY TagAssumption DEF USBMuxReceive, Packets

-----------------------------------------------------------------------------
(* Type correctness.                                                       *)

LEMMA TypeInit == Init => TypeOK
<1> SUFFICES ASSUME Init PROVE TypeOK
  OBVIOUS
<1>1. reply \in [Threads -> Packets]
  BY EmptyPacketType DEF Init
<1>2. /\ opQueue \in Seq(Threads) /\ responses \in Seq(Packets)
      /\ requests \in Seq(Requests) /\ wire \in Seq(Packets)
  BY DEF Init
<1>3. sent \in 0..MaxPackets /\ calls \in [Threads -> Nat]
  BY BoundsAssumption DEF Init
<1>4. transactionId \in 0..(TagModulus - 1) /\ tag \in [Threads -> 0..(TagModulus - 1)]
  BY TagAssumption DEF Init
<1> QED
  BY <1>1, <1>2, <1>3, <1>4 DEF Init, TypeOK

LEMMA TypeNext == IInv /\ [Next]_vars => TypeOK'
<1> SUFFICES ASSUME TypeOK, QueueInv, [Next]_vars
             PROVE  TypeOK'
  BY DEF IInv
<1> USE DEF TypeOK, vars, listenerVars, threadVars, muxVars, Goto
<1>1. ASSUME NEW t \in Threads, ReadTransactionId(t)
      PROVE  TypeOK'
  BY <1>1, BoundsAssumption DEF ReadTransactionId
<1>2. ASSUME NEW t \in Threads, IncrementTransactionId(t)
      PROVE  TypeOK'
  <2>1. transactionId' \in 0..(TagModulus - 1)
    BY <1>2, TagAssumption DEF IncrementTransactionId
  <2> QED
    BY <1>2, <2>1 DEF IncrementTransactionId
<1>3. ASSUME NEW t \in Threads, SubmitSend(t) \/ ConnectByPort(t)
      PROVE  TypeOK'
  <2>1. ASSUME SubmitSend(t) PROVE TypeOK'
    BY <2>1 DEF SubmitSend
  <2>2. ASSUME ConnectByPort(t) PROVE TypeOK'
    BY <2>2, TagAssumption DEF ConnectByPort
  <2> QED
    BY <1>3, <2>1, <2>2
<1>4. ASSUME NEW t \in Threads, BeginSend(t)
      PROVE  TypeOK'
  <2>1. requests' \in Seq(Requests)
    <3>1. [thread |-> t, call |-> calls[t],
           tag |-> tag[t], type |-> PacketType(t)] \in Requests
      BY BoundsAssumption DEF Requests, PacketType
    <3> QED
      BY <1>4, <3>1, AppendProperties DEF BeginSend
  <2> QED
    BY <1>4, <2>1 DEF BeginSend
<1>5. ASSUME NEW t \in Threads, Wake(t)
      PROVE  TypeOK'
  BY <1>5 DEF Wake, NilSemaphore
<1>6. ASSUME NEW t \in Threads, TimeOut(t)
      PROVE  TypeOK'
  BY <1>6 DEF TimeOut
<1>7. ASSUME NEW t \in Threads, FinishSend(t)
      PROVE  TypeOK'
  <2>1. reply' \in [Threads -> Packets] /\ responses' \in Seq(Packets)
    <3>1. PICK k \in {seen[t], Len(responses)} :
             \/ /\ reply' = [reply EXCEPT ![t] = EmptyPacket]
                /\ UNCHANGED responses
             \/ \E i \in Matches(t, k) :
                   /\ reply' = [reply EXCEPT ![t] = responses[i]]
                   /\ responses' = Without(responses, i)
      BY <1>7 DEF FinishSend
    <3>2. k \in 0..Len(responses)
      <4>1. seen[t] <= Len(responses)
        BY <1>7 DEF FinishSend, QueueInv
      <4>2. seen[t] \in Nat /\ Len(responses) \in Nat
        BY LenProperties
      <4> QED
        BY <4>1, <4>2
    <3>3. CASE reply' = [reply EXCEPT ![t] = EmptyPacket] /\ UNCHANGED responses
      BY <3>3, EmptyPacketType
    <3>4. ASSUME NEW i \in Matches(t, k),
                 reply' = [reply EXCEPT ![t] = responses[i]],
                 responses' = Without(responses, i)
          PROVE  reply' \in [Threads -> Packets] /\ responses' \in Seq(Packets)
      <4>1. i \in 1..Len(responses)
        BY <3>2 DEF Matches
      <4>2. responses[i] \in Packets
        BY <4>1, ElementOfSeq
      <4> QED
        BY <3>4, <4>1, <4>2, WithoutProperties
    <3> QED
      BY <3>1, <3>3, <3>4
  <2>2. opQueue' \in Seq(Threads)
    <3>1. opQueue # <<>>
      BY <1>7 DEF FinishSend, QueueInv
    <3> QED
      BY <1>7, <3>1, HeadTailProperties DEF FinishSend
  <2> QED
    BY <1>7, <2>1, <2>2 DEF FinishSend
<1>8. ASSUME NEW t \in Threads, EnumerationRaises(t)
      PROVE  TypeOK'
  BY <1>8 DEF EnumerationRaises
<1>9. ASSUME NEW t \in Threads, SendReturned(t)
      PROVE  TypeOK'
  BY <1>9, EmptyPacketType, TagAssumption DEF SendReturned
<1>10. ASSUME ReceiveResponse
       PROVE  TypeOK'
  <2>1. Head(wire) \in Packets /\ wire' \in Seq(Packets)
    BY <1>10, HeadTailProperties DEF ReceiveResponse
  <2>2. responses' \in Seq(Packets)
    BY <1>10, <2>1, ReceiveType, AppendProperties DEF ReceiveResponse
  <2> QED
    BY <1>10, <2>1, <2>2 DEF ReceiveResponse
<1>11. ASSUME ReceiveEvent
       PROVE  TypeOK'
  <2>1. wire' \in Seq(Packets)
    BY <1>11, HeadTailProperties DEF ReceiveEvent
  <2> QED
    BY <1>11, <2>1 DEF ReceiveEvent
<1>12. ASSUME ReceiveEndOfFile
       PROVE  TypeOK'
  <2>1. Unsolicited("Unknown") \in Packets
    BY UnsolicitedType, BoundsAssumption DEF ResponseKinds
  <2>2. responses' \in Seq(Packets)
    BY <1>12, <2>1, AppendProperties DEF ReceiveEndOfFile
  <2> QED
    BY <1>12, <2>2, BoundsAssumption DEF ReceiveEndOfFile
<1>13. ASSUME Signal
       PROVE  TypeOK'
  BY <1>13 DEF Signal, NilSemaphore
<1>14. ASSUME SignalNil
       PROVE  TypeOK'
  BY <1>14 DEF SignalNil
<1>15. ASSUME NEW p \in Packets, Put(p)
       PROVE  wire' \in Seq(Packets) /\ sent' \in 0..MaxPackets
  BY <1>15, AppendProperties, BoundsAssumption DEF Put
<1>16. sent \in Nat
  BY BoundsAssumption
<1>17. ASSUME AnswerListen
       PROVE  TypeOK'
  <2>1. wire' \in Seq(Packets) /\ sent' \in 0..MaxPackets
    <3>1. PICK code \in ListenCodes : Put(Answer("Result", code))
      BY <1>17 DEF AnswerListen
    <3>2. Answer("Result", code) \in Packets
      BY <1>16, <1>17, AnswerType, CodeAssumption
         DEF AnswerListen, ResponseKinds
    <3> QED
      BY <1>15, <3>1, <3>2
  <2>2. requests' \in Seq(Requests)
    BY <1>17, HeadTailProperties DEF AnswerListen
  <2>3. listening' \in BOOLEAN
    BY <1>17 DEF AnswerListen
  <2> QED
    BY <1>17, <2>1, <2>2, <2>3 DEF AnswerListen
<1>18. ASSUME AnswerListDevices
       PROVE  TypeOK'
  <2>1. wire' \in Seq(Packets) /\ sent' \in 0..MaxPackets
    BY <1>15, <1>16, <1>18, AnswerType DEF AnswerListDevices, ResponseKinds
  <2>2. requests' \in Seq(Requests)
    BY <1>18, HeadTailProperties DEF AnswerListDevices
  <2> QED
    BY <1>18, <2>1, <2>2 DEF AnswerListDevices
<1>19. ASSUME Notify
       PROVE  TypeOK'
  <2>1. Unsolicited("Event") \in Packets
    BY UnsolicitedType, BoundsAssumption DEF ResponseKinds
  <2>2. wire' \in Seq(Packets) /\ sent' \in 0..MaxPackets
    BY <1>15, <1>19, <2>1 DEF Notify
  <2> QED
    BY <1>19, <2>2 DEF Notify
<1>20. ASSUME Close
       PROVE  TypeOK'
  BY <1>20 DEF Close
<1>21. CASE UNCHANGED vars
  BY <1>21
<1> QED
  BY <1>1, <1>2, <1>3, <1>4, <1>5, <1>6, <1>7, <1>8, <1>9, <1>10, <1>11, <1>12,
     <1>13, <1>14, <1>17, <1>18, <1>19, <1>20, <1>21
     DEF Next, ThreadStep, HandlerStep, MuxStep, Rest

-----------------------------------------------------------------------------
(* The operation queue.                                                    *)

LEMMA QueueInit == Init => QueueInv
  BY DEF Init, QueueInv, Running

\* A step that leaves the queue and the states of the threads alone, and only
\* adds to the responses.
LEMMA QueueFrame ==
    ASSUME QueueInv, UNCHANGED <<opQueue, pc, seen>>,
           Len(responses) \in Nat, Len(responses') \in Nat,
           Len(responses') >= Len(responses), seen \in [Threads -> Nat]
    PROVE  QueueInv'
  BY DEF QueueInv, Running

\* The thread at the head of the queue: the only one whose send runs.
LEMMA OneRuns ==
    ASSUME QueueInv, NEW t \in Threads, NEW u \in Threads,
           Running(t), Running(u)
    PROVE  u = t
  BY DEF QueueInv

LEMMA QueueNext == IInv /\ [Next]_vars => QueueInv'
<1> SUFFICES ASSUME TypeOK, QueueInv, [Next]_vars
             PROVE  QueueInv'
  BY DEF IInv
<1> USE DEF vars, listenerVars, threadVars, muxVars, Goto
<1>a. /\ pc \in [Threads -> {"idle", "tagged", "created", "queued", "waiting",
                             "searching", "returned"}]
      /\ opQueue \in Seq(Threads)
      /\ seen \in [Threads -> Nat]
      /\ responses \in Seq(Packets)
      /\ Len(responses) \in Nat
      /\ Len(opQueue) \in Nat
  BY LenProperties DEF TypeOK
<1>b. \A i \in 1..Len(opQueue) : opQueue[i] \in Threads
  BY <1>a, ElementOfSeq
<1>1. ASSUME NEW t \in Threads, ReadTransactionId(t)
      PROVE  QueueInv'
  BY <1>1, <1>a, <1>b DEF ReadTransactionId, QueueInv, Running
<1>2. ASSUME NEW t \in Threads, IncrementTransactionId(t) \/ ConnectByPort(t)
      PROVE  QueueInv'
  <2>1. ASSUME IncrementTransactionId(t) PROVE QueueInv'
    BY <2>1, <1>a, <1>b DEF IncrementTransactionId, QueueInv, Running
  <2>2. ASSUME ConnectByPort(t) PROVE QueueInv'
    BY <2>2, <1>a, <1>b DEF ConnectByPort, QueueInv, Running
  <2> QED
    BY <1>2, <2>1, <2>2
<1>3. ASSUME NEW t \in Threads, SubmitSend(t)
      PROVE  QueueInv'
  <2>1. /\ Len(opQueue') = Len(opQueue) + 1
        /\ \A i \in 1..Len(opQueue) : opQueue'[i] = opQueue[i]
        /\ opQueue'[Len(opQueue) + 1] = t
    BY <1>3, <1>a, AppendProperties DEF SubmitSend
  <2>2. \A i \in 1..Len(opQueue) : opQueue[i] # t
    BY <1>3 DEF SubmitSend, QueueInv
  <2>3. \A i, j \in 1..Len(opQueue') : opQueue'[i] = opQueue'[j] => i = j
    <3>1. \A i, j \in 1..Len(opQueue) : opQueue[i] = opQueue[j] => i = j
      BY DEF QueueInv
    <3>2. \A i \in 1..Len(opQueue') :
             i \in 1..Len(opQueue) \/ i = Len(opQueue) + 1
      BY <2>1, <1>a
    <3> QED
      BY <3>1, <3>2, <2>1, <2>2
  <2>4. \A i \in 1..Len(opQueue') :
           pc'[opQueue'[i]] \in {"queued", "waiting", "searching"}
    BY <1>3, <2>1, <2>2, <1>a, <1>b DEF SubmitSend, QueueInv
  <2>5. \A u \in Threads : pc'[u] \in {"queued", "waiting", "searching"} =>
           \E i \in 1..Len(opQueue') : opQueue'[i] = u
    BY <1>3, <2>1, <1>a DEF SubmitSend, QueueInv
  <2>6. \A u \in Threads : Running(u)' => opQueue'[1] = u
    <3> SUFFICES ASSUME NEW u \in Threads, Running(u)'
                 PROVE  opQueue'[1] = u
      OBVIOUS
    <3>1. Running(u) /\ u # t
      BY <1>3, <1>a DEF SubmitSend, Running
    <3>2. opQueue[1] = u /\ 1 \in 1..Len(opQueue)
      BY <3>1, <1>a DEF QueueInv, Running
    <3> QED
      BY <3>2, <2>1
  <2> QED
    BY <1>3, <1>a, <2>3, <2>4, <2>5, <2>6 DEF SubmitSend, QueueInv
<1>4. ASSUME NEW t \in Threads, BeginSend(t)
      PROVE  QueueInv'
  <2>1. opQueue[1] = t /\ 1 \in 1..Len(opQueue)
    <3>1. opQueue # <<>>
      BY <1>4, <1>a DEF BeginSend, QueueInv
    <3> QED
      BY <1>4, <1>a, <3>1, HeadTailProperties DEF BeginSend, Runs
  <2>2. \A u \in Threads : ~Running(u)
    BY <1>4, <2>1 DEF BeginSend, QueueInv, Running
  <2> QED
    BY <1>4, <1>a, <1>b, <2>1, <2>2 DEF BeginSend, QueueInv, Running
<1>5. ASSUME NEW t \in Threads, Wake(t) \/ TimeOut(t)
      PROVE  QueueInv'
  <2>1. /\ pc[t] = "waiting" /\ pc' = [pc EXCEPT ![t] = "searching"]
        /\ seen' = [seen EXCEPT ![t] = Len(responses)]
        /\ UNCHANGED <<opQueue, responses>>
    BY <1>5 DEF Wake, TimeOut
  <2> QED
    BY <2>1, <1>a, <1>b DEF QueueInv, Running
<1>6. ASSUME NEW t \in Threads, FinishSend(t)
      PROVE  QueueInv'
  <2>1. /\ pc[t] = "searching" /\ pc' = [pc EXCEPT ![t] = "returned"]
        /\ opQueue' = Tail(opQueue)
        /\ seen' = seen
    BY <1>6 DEF FinishSend
  <2>2. opQueue[1] = t /\ opQueue # <<>>
    BY <2>1, <1>a DEF QueueInv, Running
  <2>3. /\ Len(opQueue') = Len(opQueue) - 1
        /\ \A i \in 1..(Len(opQueue) - 1) : opQueue'[i] = opQueue[i + 1]
    BY <2>1, <2>2, <1>a, HeadTailProperties
  <2>4. \A i \in 1..(Len(opQueue) - 1) : opQueue[i + 1] # t
    BY <2>2, <1>a DEF QueueInv
  <2>5. \A u \in Threads : pc'[u] \in {"queued", "waiting", "searching"} =>
           /\ u # t
           /\ pc[u] = "queued"
    BY <2>1, <2>2, <1>a DEF QueueInv, Running
  <2>6. \A i, j \in 1..Len(opQueue') : opQueue'[i] = opQueue'[j] => i = j
    <3>1. \A i, j \in 1..Len(opQueue) : opQueue[i] = opQueue[j] => i = j
      BY DEF QueueInv
    <3>2. \A i \in 1..Len(opQueue') :
             /\ i \in 1..(Len(opQueue) - 1) /\ i + 1 \in 1..Len(opQueue)
             /\ i \in Int
      BY <2>3, <1>a
    <3>3. ASSUME NEW i \in 1..Len(opQueue'), NEW j \in 1..Len(opQueue'),
                 opQueue'[i] = opQueue'[j]
          PROVE  i = j
      <4>1. opQueue[i + 1] = opQueue[j + 1]
        BY <3>2, <3>3, <2>3
      <4>2. i + 1 = j + 1
        BY <3>1, <3>2, <4>1
      <4> QED
        BY <3>2, <4>2
    <3> QED
      BY <3>3
  <2>7. \A i \in 1..Len(opQueue') :
           pc'[opQueue'[i]] \in {"queued", "waiting", "searching"}
    BY <2>1, <2>3, <2>4, <1>a, <1>b DEF QueueInv
  <2>8. \A u \in Threads : pc'[u] \in {"queued", "waiting", "searching"} =>
           \E i \in 1..Len(opQueue') : opQueue'[i] = u
    <3> SUFFICES ASSUME NEW u \in Threads,
                        pc'[u] \in {"queued", "waiting", "searching"}
                 PROVE  \E i \in 1..Len(opQueue') : opQueue'[i] = u
      OBVIOUS
    <3>1. PICK i \in 1..Len(opQueue) : opQueue[i] = u
      BY <2>5 DEF QueueInv
    <3>2. i # 1
      BY <3>1, <2>2, <2>5
    <3>3. i - 1 \in 1..Len(opQueue') /\ opQueue'[i - 1] = u
      BY <3>1, <3>2, <2>3, <1>a
    <3> QED
      BY <3>3
  <2>9. \A u \in Threads : /\ Running(u)' => opQueue'[1] = u
                           /\ pc'[u] # "searching"
    BY <2>1, <2>5, <1>a DEF Running
  <2> QED
    BY <2>6, <2>7, <2>8, <2>9 DEF QueueInv
<1>7. ASSUME NEW t \in Threads, SendReturned(t)
      PROVE  QueueInv'
  BY <1>7, <1>a, <1>b DEF SendReturned, QueueInv, Running
<1>8. ASSUME NEW p \in Packets, responses' = Append(responses, p),
             UNCHANGED <<opQueue, pc, seen>>
      PROVE  QueueInv'
  <2>1. Len(responses') = Len(responses) + 1
    BY <1>8, <1>a, AppendProperties
  <2> QED
    BY <1>8, <1>a, <2>1, QueueFrame
<1>9. CASE ReceiveResponse
  <2>1. USBMuxReceive(Head(wire)) \in Packets
    BY <1>9, HeadTailProperties, ReceiveType DEF ReceiveResponse, TypeOK
  <2> QED
    BY <1>8, <1>9, <2>1 DEF ReceiveResponse
<1>10. CASE ReceiveEndOfFile
  <2>1. Unsolicited("Unknown") \in Packets
    BY UnsolicitedType, BoundsAssumption DEF ResponseKinds, TypeOK
  <2> QED
    BY <1>8, <1>10, <2>1 DEF ReceiveEndOfFile
<1>11. ASSUME UNCHANGED <<opQueue, pc, seen, responses>>
       PROVE  QueueInv'
  BY <1>11, <1>a, QueueFrame
<1>12. ASSUME NEW t \in Threads, EnumerationRaises(t)
       PROVE  QueueInv'
  BY <1>11, <1>12 DEF EnumerationRaises
<1>13. CASE ReceiveEvent \/ Signal \/ SignalNil \/ MuxStep \/ UNCHANGED vars
  BY <1>11, <1>13 DEF ReceiveEvent, Signal, SignalNil, MuxStep, AnswerListen,
     AnswerListDevices, Notify, Close
<1> QED
  BY <1>1, <1>2, <1>3, <1>4, <1>5, <1>6, <1>7, <1>9, <1>10, <1>12, <1>13
     DEF Next, ThreadStep, HandlerStep, Rest

-----------------------------------------------------------------------------
(* The numbers of the packets.                                             *)

LEMMA NumberInit == Init => NumberInv
  BY DEF Init, NumberInv

\* A packet put at the end of the wire, numbered after all others.
LEMMA NumberPut ==
    ASSUME TypeOK, NumberInv, NEW p \in Packets, p.n = sent + 1, Put(p),
           UNCHANGED <<responses, reply>>
    PROVE  NumberInv'
<1>1. /\ wire \in Seq(Packets) /\ sent \in Nat /\ sent' = sent + 1
      /\ Len(wire) \in Nat /\ Len(responses) \in Nat
  BY BoundsAssumption, LenProperties DEF TypeOK, Put
<1>2. /\ Len(wire') = Len(wire) + 1
      /\ \A i \in 1..Len(wire) : wire'[i] = wire[i]
      /\ wire'[Len(wire) + 1].n = sent + 1
  BY <1>1, AppendProperties DEF Put
<1>3. \A i \in 1..Len(wire') : i \in 1..Len(wire) \/ i = Len(wire) + 1
  BY <1>1, <1>2
<1>4. \A i \in 1..Len(wire') : wire'[i].n \in 1..sent'
  <2>1. \A i \in 1..Len(wire) : wire[i].n \in 1..sent
    BY DEF NumberInv
  <2> QED
    BY <1>1, <1>2, <1>3, <2>1
<1>5. ASSUME NEW i \in 1..Len(wire'), NEW j \in 1..Len(wire'), i < j
      PROVE  wire'[i].n < wire'[j].n
  <2>1. i \in 1..Len(wire) /\ wire[i].n \in 1..sent
    BY <1>1, <1>2, <1>5 DEF NumberInv
  <2>2. CASE j = Len(wire) + 1
    BY <1>1, <1>2, <2>1, <2>2
  <2>3. CASE j \in 1..Len(wire)
    <3>1. wire[i].n < wire[j].n
      BY <1>5, <2>1, <2>3 DEF NumberInv
    <3> QED
      BY <1>2, <2>1, <2>3, <3>1
  <2> QED
    BY <1>3, <2>2, <2>3
<1>6. ASSUME NEW n \in 1..sent, \A j \in 1..Len(wire) : n < wire[j].n
      PROVE  n \in 1..sent' /\ \A j \in 1..Len(wire') : n < wire'[j].n
  BY <1>1, <1>2, <1>3, <1>6
<1>7. \A i \in 1..Len(responses) :
         /\ responses[i].n \in 1..sent'
         /\ \A j \in 1..Len(wire') : responses[i].n < wire'[j].n
  BY <1>6 DEF NumberInv
<1>8. \A t \in Threads : reply[t] # EmptyPacket =>
         /\ reply[t].n \in 1..sent'
         /\ \A j \in 1..Len(wire') : reply[t].n < wire'[j].n
  BY <1>6 DEF NumberInv
<1>9. /\ \A i, j \in 1..Len(responses) : i < j => responses[i].n < responses[j].n
      /\ \A t \in Threads : reply[t] # EmptyPacket =>
            /\ \A i \in 1..Len(responses) : responses[i].n # reply[t].n
            /\ \A u \in Threads : reply[u].n = reply[t].n => u = t
  BY DEF NumberInv
<1> QED
  BY <1>4, <1>5, <1>7, <1>8, <1>9 DEF NumberInv

\* A packet taken off the wire, whether it is kept or not.
LEMMA NumberTake ==
    ASSUME TypeOK, NumberInv, wire # <<>>, wire' = Tail(wire),
           UNCHANGED <<sent, responses, reply>>
    PROVE  NumberInv'
<1>1. /\ Len(wire) \in Nat /\ Len(wire') = Len(wire) - 1
      /\ \A i \in 1..(Len(wire) - 1) : wire'[i] = wire[i + 1]
  BY HeadTailProperties, LenProperties DEF TypeOK
<1>2. \A i \in 1..Len(wire') : i + 1 \in 1..Len(wire) /\ i \in Int
  BY <1>1
<1>3. \A i \in 1..Len(wire') : wire'[i] = wire[i + 1]
  BY <1>1
<1>4. \A i, j \in 1..Len(wire') : i < j => wire'[i].n < wire'[j].n
  <2>1. \A i, j \in 1..Len(wire') : i < j => wire[i + 1].n < wire[j + 1].n
    BY <1>2 DEF NumberInv
  <2> QED
    BY <1>3, <2>1
<1>5. /\ \A i \in 1..Len(wire') : wire'[i].n \in 1..sent
      /\ \A i \in 1..Len(responses) :
            /\ responses[i].n \in 1..sent
            /\ \A j \in 1..Len(wire') : responses[i].n < wire'[j].n
      /\ \A t \in Threads : reply[t] # EmptyPacket =>
            /\ reply[t].n \in 1..sent
            /\ \A j \in 1..Len(wire') : reply[t].n < wire'[j].n
  BY <1>2, <1>3 DEF NumberInv
<1>6. /\ \A i, j \in 1..Len(responses) : i < j => responses[i].n < responses[j].n
      /\ \A t \in Threads : reply[t] # EmptyPacket =>
            /\ \A i \in 1..Len(responses) : responses[i].n # reply[t].n
            /\ \A u \in Threads : reply[u].n = reply[t].n => u = t
  BY DEF NumberInv
<1> QED
  BY <1>4, <1>5, <1>6 DEF NumberInv

\* A response appended to the list, numbered after all the others that were
\* read and before all that were not.
LEMMA NumberAppend ==
    ASSUME TypeOK, NumberInv, NEW p \in Packets, p.n \in 1..sent',
           responses' = Append(responses, p), UNCHANGED reply, sent' \in Nat,
           \A i \in 1..Len(wire') : wire'[i].n \in 1..sent' /\ p.n < wire'[i].n,
           \A i, j \in 1..Len(wire') : i < j => wire'[i].n < wire'[j].n,
           \A i \in 1..Len(responses) : responses[i].n < p.n,
           \A t \in Threads : reply[t] # EmptyPacket => reply[t].n < p.n
    PROVE  NumberInv'
<1>1. /\ responses \in Seq(Packets) /\ Len(responses) \in Nat
      /\ Len(responses') = Len(responses) + 1
      /\ \A i \in 1..Len(responses) : responses'[i] = responses[i]
      /\ responses'[Len(responses) + 1] = p
  BY AppendProperties, LenProperties DEF TypeOK
<1>2. \A i \in 1..Len(responses') :
         i \in 1..Len(responses) \/ i = Len(responses) + 1
  BY <1>1
<1>3. \A i \in 1..Len(responses) : responses[i].n \in 1..sent
  BY DEF NumberInv
<1>4. ASSUME NEW i \in 1..Len(responses')
      PROVE  /\ responses'[i].n \in 1..sent'
             /\ \A j \in 1..Len(wire') : responses'[i].n < wire'[j].n
  <2>1. CASE i \in 1..Len(responses)
    <3>1. responses'[i] = responses[i] /\ responses[i].n \in 1..sent
      BY <1>1, <1>3, <2>1
    <3>2. responses[i].n < p.n
      BY <2>1
    <3>3. \A j \in 1..Len(wire') : wire'[j].n \in Int
      OBVIOUS
    <3>4. sent \in Nat
      BY BoundsAssumption DEF TypeOK
    <3> QED
      BY <3>1, <3>2, <3>3, <3>4
  <2>2. CASE i = Len(responses) + 1
    BY <1>1, <2>2
  <2> QED
    BY <1>2, <2>1, <2>2
<1>5. ASSUME NEW i \in 1..Len(responses'), NEW j \in 1..Len(responses'), i < j
      PROVE  responses'[i].n < responses'[j].n
  <2>1. i \in 1..Len(responses)
    BY <1>1, <1>2, <1>5
  <2>2. CASE j \in 1..Len(responses)
    BY <1>1, <1>5, <2>1, <2>2 DEF NumberInv
  <2>3. CASE j = Len(responses) + 1
    BY <1>1, <2>1, <2>3
  <2> QED
    BY <1>2, <2>2, <2>3
<1>6. ASSUME NEW t \in Threads, reply[t] # EmptyPacket
      PROVE  /\ reply[t].n \in 1..sent'
             /\ \A j \in 1..Len(wire') : reply[t].n < wire'[j].n
             /\ \A i \in 1..Len(responses') : responses'[i].n # reply[t].n
             /\ \A u \in Threads : reply[u].n = reply[t].n => u = t
  <2>1. /\ reply[t].n \in 1..sent /\ reply[t].n < p.n
        /\ \A i \in 1..Len(responses) : responses[i].n # reply[t].n
        /\ \A u \in Threads : reply[u].n = reply[t].n => u = t
    BY <1>6 DEF NumberInv
  <2>2. sent \in Nat
    BY BoundsAssumption DEF TypeOK
  <2>3. \A i \in 1..Len(responses') : responses'[i].n # reply[t].n
    BY <1>1, <1>2, <2>1, <2>2
  <2>4. \A j \in 1..Len(wire') : wire'[j].n \in Int /\ p.n < wire'[j].n
    OBVIOUS
  <2> QED
    BY <2>1, <2>2, <2>3, <2>4
<1> QED
  BY <1>4, <1>5, <1>6 DEF NumberInv

\* The end of a send: at most one response leaves the list, for its caller.
LEMMA NumberFinish ==
    ASSUME TypeOK, QueueInv, NumberInv, NEW t \in Threads, FinishSend(t)
    PROVE  NumberInv'
<1>1. /\ pc[t] = "searching" /\ UNCHANGED <<wire, sent>>
      /\ reply \in [Threads -> Packets] /\ responses \in Seq(Packets)
      /\ sent \in Nat /\ Len(responses) \in Nat /\ seen[t] \in Nat
      /\ seen[t] <= Len(responses)
  BY BoundsAssumption, LenProperties DEF TypeOK, QueueInv, FinishSend, Goto, muxVars
<1>2. \A i \in 1..Len(wire) : wire[i].n \in 1..sent
  BY DEF NumberInv
<1>3. \A i, j \in 1..Len(wire) : i < j => wire[i].n < wire[j].n
  BY DEF NumberInv
<1>4. CASE reply' = [reply EXCEPT ![t] = EmptyPacket] /\ UNCHANGED responses
  <2>1. \A u \in Threads : reply'[u] # EmptyPacket => u # t /\ reply'[u] = reply[u]
    BY <1>1, <1>4
  <2>2. EmptyPacket.n = 0 /\ reply'[t] = EmptyPacket
    BY <1>1, <1>4 DEF EmptyPacket
  <2>3. ASSUME NEW u \in Threads, reply'[u] # EmptyPacket
        PROVE  /\ reply'[u].n \in 1..sent
               /\ \A j \in 1..Len(wire) : reply'[u].n < wire[j].n
               /\ \A i \in 1..Len(responses) : responses[i].n # reply'[u].n
               /\ \A v \in Threads : reply'[v].n = reply'[u].n => v = u
    <3>1. /\ reply'[u] = reply[u] /\ reply[u].n \in 1..sent
          /\ \A j \in 1..Len(wire) : reply[u].n < wire[j].n
          /\ \A i \in 1..Len(responses) : responses[i].n # reply[u].n
          /\ \A v \in Threads : reply[v].n = reply[u].n => v = u
      BY <2>1, <2>3 DEF NumberInv
    <3>2. ASSUME NEW v \in Threads, reply'[v].n = reply[u].n PROVE v = u
      BY <1>1, <1>4, <2>2, <3>1, <3>2
    <3> QED
      BY <3>1, <3>2
  <2> QED
    BY <1>1, <1>4, <2>3 DEF NumberInv
<1>5. ASSUME NEW i \in 1..Len(responses),
             reply' = [reply EXCEPT ![t] = responses[i]],
             responses' = Without(responses, i)
      PROVE  NumberInv'
  <2>1. /\ Len(responses') = Len(responses) - 1
        /\ \A j \in 1..(Len(responses) - 1) :
              responses'[j] = IF j < i THEN responses[j] ELSE responses[j + 1]
    BY <1>1, <1>5, WithoutProperties
  <2> DEFINE old(j) == IF j < i THEN j ELSE j + 1
  <2>2. ASSUME NEW j \in 1..Len(responses')
        PROVE  /\ old(j) \in 1..Len(responses) /\ old(j) # i
               /\ responses'[j] = responses[old(j)]
    BY <1>1, <2>1
  <2>3. ASSUME NEW j \in 1..Len(responses'), NEW k \in 1..Len(responses'), j < k
        PROVE  old(j) < old(k)
    BY <1>1, <2>1, <2>3
  <2> HIDE DEF old
  <2>4. \A j, k \in 1..Len(responses) : j # k => responses[j].n # responses[k].n
    <3>1. \A j \in 1..Len(responses) : responses[j].n \in 1..sent
      BY DEF NumberInv
    <3>2. \A j, k \in 1..Len(responses) : j < k => responses[j].n < responses[k].n
      BY DEF NumberInv
    <3> QED
      BY <1>1, <3>1, <3>2
  <2>5. /\ \A j \in 1..Len(responses') :
              /\ responses'[j].n \in 1..sent
              /\ \A k \in 1..Len(wire) : responses'[j].n < wire[k].n
        /\ \A j, k \in 1..Len(responses') :
              j < k => responses'[j].n < responses'[k].n
    BY <2>2, <2>3 DEF NumberInv
  <2>6. /\ reply'[t] = responses[i]
        /\ \A u \in Threads : u # t => reply'[u] = reply[u]
    BY <1>1, <1>5
  <2>7. /\ responses[i].n \in 1..sent
        /\ \A k \in 1..Len(wire) : responses[i].n < wire[k].n
    BY DEF NumberInv
  <2>8. \A j \in 1..Len(responses') : responses'[j].n # responses[i].n
    BY <2>2, <2>4
  <2>9. \A u \in Threads : u # t => reply[u].n # responses[i].n
    <3>1. \A u \in Threads : reply[u] # EmptyPacket => responses[i].n # reply[u].n
      BY DEF NumberInv
    <3>2. EmptyPacket.n = 0
      BY DEF EmptyPacket
    <3> QED
      BY <1>1, <2>7, <3>1, <3>2
  <2>10. ASSUME NEW u \in Threads, reply'[u] # EmptyPacket
         PROVE  /\ reply'[u].n \in 1..sent
                /\ \A k \in 1..Len(wire) : reply'[u].n < wire[k].n
                /\ \A j \in 1..Len(responses') : responses'[j].n # reply'[u].n
                /\ \A v \in Threads : reply'[v].n = reply'[u].n => v = u
    <3>1. CASE u = t
      BY <2>6, <2>7, <2>8, <2>9, <3>1
    <3>2. CASE u # t
      <4>1. /\ reply'[u] = reply[u] /\ reply[u].n \in 1..sent
            /\ \A k \in 1..Len(wire) : reply[u].n < wire[k].n
            /\ \A j \in 1..Len(responses) : responses[j].n # reply[u].n
            /\ \A v \in Threads : reply[v].n = reply[u].n => v = u
        BY <2>6, <2>10, <3>2 DEF NumberInv
      <4>2. \A j \in 1..Len(responses') : responses'[j].n # reply[u].n
        BY <2>2, <4>1
      <4>3. \A v \in Threads : reply'[v].n = reply[u].n => v = u
        BY <2>6, <2>9, <3>2, <4>1
      <4> QED
        BY <4>1, <4>2, <4>3
    <3> QED
      BY <3>1, <3>2
  <2> QED
    BY <1>1, <1>2, <1>3, <2>5, <2>10 DEF NumberInv
<1>6. PICK k \in {seen[t], Len(responses)} :
         \/ reply' = [reply EXCEPT ![t] = EmptyPacket] /\ UNCHANGED responses
         \/ \E i \in Matches(t, k) :
               /\ reply' = [reply EXCEPT ![t] = responses[i]]
               /\ responses' = Without(responses, i)
  BY DEF FinishSend
<1>7. \A i \in Matches(t, k) : i \in 1..Len(responses)
  BY <1>1 DEF Matches
<1> QED
  BY <1>4, <1>5, <1>6, <1>7

LEMMA NumberNext == IInv /\ [Next]_vars => NumberInv'
<1> SUFFICES ASSUME TypeOK, QueueInv, NumberInv, [Next]_vars
             PROVE  NumberInv'
  BY DEF IInv
<1> USE DEF vars, listenerVars, threadVars, muxVars
<1>a. /\ wire \in Seq(Packets) /\ sent \in Nat
      /\ responses \in Seq(Packets) /\ reply \in [Threads -> Packets]
  BY BoundsAssumption DEF TypeOK
<1>1. ASSUME UNCHANGED <<wire, sent, responses, reply>>
      PROVE  NumberInv'
  BY <1>1 DEF NumberInv
<1>2. ASSUME NEW t \in Threads, \/ ReadTransactionId(t) \/ IncrementTransactionId(t)
                                \/ ConnectByPort(t) \/ SubmitSend(t) \/ BeginSend(t) \/ Wake(t)
                                \/ TimeOut(t) \/ EnumerationRaises(t)
      PROVE  NumberInv'
  BY <1>1, <1>2 DEF ReadTransactionId, IncrementTransactionId, ConnectByPort,
     SubmitSend, BeginSend, Wake, TimeOut, EnumerationRaises
<1>3. ASSUME NEW t \in Threads, FinishSend(t)
      PROVE  NumberInv'
  BY <1>3, NumberFinish
<1>4. ASSUME NEW t \in Threads, SendReturned(t)
      PROVE  NumberInv'
  <2>1. /\ UNCHANGED <<wire, sent, responses>>
        /\ reply' = [reply EXCEPT ![t] = EmptyPacket]
    BY <1>4 DEF SendReturned
  <2>2. EmptyPacket.n = 0 /\ reply'[t] = EmptyPacket
    BY <1>a, <2>1 DEF EmptyPacket
  <2>3. ASSUME NEW u \in Threads, reply'[u] # EmptyPacket
        PROVE  /\ reply'[u].n \in 1..sent
               /\ \A j \in 1..Len(wire) : reply'[u].n < wire[j].n
               /\ \A i \in 1..Len(responses) : responses[i].n # reply'[u].n
               /\ \A v \in Threads : reply'[v].n = reply'[u].n => v = u
    <3>1. u # t /\ reply'[u] = reply[u]
      BY <1>a, <2>1, <2>3
    <3>2. /\ reply[u].n \in 1..sent
          /\ \A j \in 1..Len(wire) : reply[u].n < wire[j].n
          /\ \A i \in 1..Len(responses) : responses[i].n # reply[u].n
          /\ \A v \in Threads : reply[v].n = reply[u].n => v = u
      BY <2>3, <3>1 DEF NumberInv
    <3>3. ASSUME NEW v \in Threads, reply'[v].n = reply[u].n PROVE v = u
      BY <1>a, <2>1, <2>2, <3>2, <3>3
    <3> QED
      BY <3>1, <3>2, <3>3
  <2> QED
    BY <2>1, <2>3 DEF NumberInv
<1>5. CASE ReceiveResponse
  <2>1. /\ wire # <<>> /\ wire' = Tail(wire) /\ UNCHANGED <<sent, reply>>
        /\ responses' = Append(responses, USBMuxReceive(Head(wire)))
    BY <1>5 DEF ReceiveResponse
  <2>2. /\ Head(wire) = wire[1] /\ wire[1] \in Packets
        /\ Len(wire) \in Nat /\ Len(wire) >= 1 /\ Len(wire') = Len(wire) - 1
        /\ \A i \in 1..Len(wire') : wire'[i] = wire[i + 1]
    BY <1>a, <2>1, HeadTailProperties, LenProperties
  <2>3. USBMuxReceive(wire[1]) \in Packets /\ USBMuxReceive(wire[1]).n = wire[1].n
    BY <2>2, ReceiveType
  <2>4. 1 \in 1..Len(wire) /\ \A i \in 1..Len(wire') : i + 1 \in 1..Len(wire) /\ i \in Int
    BY <2>2
  <2>5. wire[1].n \in 1..sent'
    BY <2>1, <2>4 DEF NumberInv
  <2>6. \A i \in 1..Len(wire') : wire'[i].n \in 1..sent' /\ wire[1].n < wire'[i].n
    <3>1. ASSUME NEW i \in 1..Len(wire')
          PROVE  wire[i + 1].n \in 1..sent /\ wire[1].n < wire[i + 1].n
      <4>1. i + 1 \in 1..Len(wire) /\ 1 < i + 1
        BY <2>4
      <4> QED
        BY <2>4, <4>1 DEF NumberInv
    <3> QED
      BY <2>1, <2>2, <3>1
  <2>7. \A i, j \in 1..Len(wire') : i < j => wire'[i].n < wire'[j].n
    <3>1. \A i, j \in 1..Len(wire') : i < j => wire[i + 1].n < wire[j + 1].n
      BY <2>4 DEF NumberInv
    <3> QED
      BY <2>2, <3>1
  <2>8. \A i \in 1..Len(responses) : responses[i].n < wire[1].n
    BY <2>4 DEF NumberInv
  <2>9. \A t \in Threads : reply[t] # EmptyPacket => reply[t].n < wire[1].n
    BY <2>4 DEF NumberInv
  <2>10. sent' \in Nat /\ responses' = Append(responses, USBMuxReceive(wire[1]))
    BY <1>a, <2>1, <2>2
  <2> QED
    BY <2>1, <2>3, <2>5, <2>6, <2>7, <2>8, <2>9, <2>10, NumberAppend
<1>6. CASE ReceiveEvent
  BY <1>6, NumberTake DEF ReceiveEvent
<1>7. CASE ReceiveEndOfFile
  <2>1. /\ wire = <<>> /\ sent' = sent + 1 /\ UNCHANGED <<wire, reply>>
        /\ responses' = Append(responses, Unsolicited("Unknown"))
    BY <1>7 DEF ReceiveEndOfFile
  <2>2. Unsolicited("Unknown") \in Packets /\ Unsolicited("Unknown").n = sent + 1
    BY <1>a, UnsolicitedType DEF ResponseKinds, Unsolicited
  <2>3. /\ \A i \in 1..Len(responses) : responses[i].n < sent + 1
        /\ \A t \in Threads : reply[t] # EmptyPacket => reply[t].n < sent + 1
    <3>1. /\ \A i \in 1..Len(responses) : responses[i].n \in 1..sent
          /\ \A t \in Threads : reply[t] # EmptyPacket => reply[t].n \in 1..sent
      BY DEF NumberInv
    <3> QED
      BY <1>a, <3>1
  <2>4. \A i \in 1..Len(wire') : FALSE
    BY <2>1
  <2> QED
    BY <1>a, <2>1, <2>2, <2>3, <2>4, NumberAppend
<1>8. CASE Signal \/ SignalNil
  BY <1>1, <1>8 DEF Signal, SignalNil
<1>9. CASE AnswerListen
  <2>1. PICK code \in ListenCodes : Put(Answer("Result", code))
    BY <1>9 DEF AnswerListen
  <2>2. /\ Answer("Result", code) \in Packets
        /\ Answer("Result", code).n = sent + 1
    BY <1>a, <1>9, AnswerType, CodeAssumption DEF AnswerListen, ResponseKinds, TypeOK
  <2> QED
    BY <1>9, <2>1, <2>2, NumberPut DEF AnswerListen
<1>10. CASE AnswerListDevices
  <2>1. /\ Answer("DeviceList", 0) \in Packets
        /\ Answer("DeviceList", 0).n = sent + 1
    BY <1>a, <1>10, AnswerType DEF AnswerListDevices, ResponseKinds, TypeOK
  <2> QED
    BY <1>10, <2>1, NumberPut DEF AnswerListDevices
<1>11. CASE Notify
  <2>1. Unsolicited("Event") \in Packets /\ Unsolicited("Event").n = sent + 1
    BY <1>a, UnsolicitedType DEF Unsolicited
  <2> QED
    BY <1>11, <2>1, NumberPut DEF Notify
<1>12. CASE Close \/ UNCHANGED vars
  BY <1>1, <1>12 DEF Close
<1> QED
  BY <1>2, <1>3, <1>4, <1>5, <1>6, <1>7, <1>8, <1>9, <1>10, <1>11, <1>12
     DEF Next, ThreadStep, HandlerStep, MuxStep, Rest

-----------------------------------------------------------------------------
(* The calls the packets belong to.                                        *)

LEMMA IssuedInit == Init => IssuedInv
  BY DEF Init, IssuedInv

\* Every thread stays where it is in its calls, or moves on.
Progress ==
    \A t \in Threads :
        /\ calls'[t] >= calls[t]
        /\ pc'[t] \in {"tagged", "created", "queued"} =>
              \/ pc[t] \in {"tagged", "created", "queued"}
              \/ calls'[t] > calls[t]
        /\ pc'[t] = "waiting" => pc[t] \in {"queued", "waiting"}

\* No step of a thread takes it back before a call it made.
LEMMA ProgressNext == IInv /\ [Next]_vars => Progress
<1> SUFFICES ASSUME TypeOK, [Next]_vars
             PROVE  Progress
  BY DEF IInv
<1> USE DEF vars, listenerVars, threadVars, muxVars, Goto
<1>a. /\ pc \in [Threads -> {"idle", "tagged", "created", "queued", "waiting",
                             "searching", "returned"}]
      /\ calls \in [Threads -> Nat]
  BY BoundsAssumption DEF TypeOK
<1>1. ASSUME NEW t \in Threads, ReadTransactionId(t)
      PROVE  Progress
  BY <1>a, <1>1 DEF ReadTransactionId, Progress
<1>2. ASSUME NEW t \in Threads, UNCHANGED calls,
             \/ IncrementTransactionId(t) \/ ConnectByPort(t)
             \/ SubmitSend(t) \/ BeginSend(t)
             \/ Wake(t) \/ TimeOut(t) \/ FinishSend(t) \/ SendReturned(t)
      PROVE  Progress
  BY <1>a, <1>2 DEF IncrementTransactionId, ConnectByPort, SubmitSend,
     BeginSend, Wake, TimeOut, FinishSend, SendReturned, Progress
<1>3. ASSUME UNCHANGED <<calls, pc>>
      PROVE  Progress
  BY <1>a, <1>3 DEF Progress
<1>4. ASSUME NEW t \in Threads, ThreadStep(t)
      PROVE  UNCHANGED calls
  BY <1>4 DEF ThreadStep, IncrementTransactionId, ConnectByPort, SubmitSend,
     BeginSend, Wake, TimeOut, FinishSend, EnumerationRaises, SendReturned
<1>5. ASSUME NEW t \in Threads, ThreadStep(t)
      PROVE  Progress
  <2>1. ASSUME EnumerationRaises(t) PROVE UNCHANGED <<calls, pc>>
    BY <2>1 DEF EnumerationRaises
  <2> QED
    BY <1>2, <1>3, <1>4, <1>5, <2>1 DEF ThreadStep
<1>6. CASE HandlerStep \/ MuxStep \/ UNCHANGED vars
  <2>1. UNCHANGED <<calls, pc>>
    BY <1>6 DEF HandlerStep, ReceiveResponse, ReceiveEvent, ReceiveEndOfFile,
       Signal, SignalNil, MuxStep, AnswerListen, AnswerListDevices, Notify, Close
  <2> QED
    BY <1>3, <2>1
<1> QED
  BY <1>1, <1>5, <1>6 DEF Next, Rest

LEMMA IssuedKept ==
    ASSUME TypeOK, TypeOK', Progress, NEW t \in Threads, NEW call \in Nat,
           Issued(t, call)
    PROVE  Issued(t, call)'
<1>1. calls[t] \in Nat /\ calls'[t] \in Nat
  BY BoundsAssumption DEF TypeOK
<1> QED
  BY <1>1 DEF Issued, Progress

\* The packets that are on the wire or in the list of responses.
Held(p) ==
    \/ \E i \in 1..Len(wire) : wire[i] = p
    \/ \E i \in 1..Len(responses) : responses[i] = p

\* Where a packet held after a step comes from.
Origin ==
    \A p \in Packets : Held(p)' =>
        \/ Held(p)
        \/ p.call = NoCall
        \/ \E q \in Packets : Held(q) /\ q.thread = p.thread /\ q.call = p.call
        \/ \E i \in 1..Len(requests) :
              requests[i].thread = p.thread /\ requests[i].call = p.call

LEMMA AppendElement ==
    ASSUME NEW S, NEW s \in Seq(S), NEW x \in S, NEW i \in 1..Len(Append(s, x))
    PROVE  Append(s, x)[i] = x \/ \E j \in 1..Len(s) : s[j] = Append(s, x)[i]
  BY AppendProperties, LenProperties

LEMMA TailElement ==
    ASSUME NEW S, NEW s \in Seq(S), s # <<>>, NEW i \in 1..Len(Tail(s))
    PROVE  \E j \in 1..Len(s) : s[j] = Tail(s)[i]
<1>1. Len(Tail(s)) = Len(s) - 1 /\ Tail(s)[i] = s[i + 1] /\ Len(s) \in Nat
  BY HeadTailProperties, LenProperties
<1>2. i + 1 \in 1..Len(s)
  BY <1>1
<1> QED
  BY <1>1, <1>2

LEMMA WithoutElement ==
    ASSUME NEW S, NEW s \in Seq(S), NEW k \in 1..Len(s),
           NEW i \in 1..Len(Without(s, k))
    PROVE  \E j \in 1..Len(s) : s[j] = Without(s, k)[i]
<1>1. /\ Len(Without(s, k)) = Len(s) - 1 /\ Len(s) \in Nat
      /\ Without(s, k)[i] = IF i < k THEN s[i] ELSE s[i + 1]
  BY WithoutProperties, LenProperties
<1>2. i \in 1..Len(s) /\ i + 1 \in 1..Len(s)
  BY <1>1
<1> QED
  BY <1>1, <1>2

LEMMA OriginNext == IInv /\ [Next]_vars => Origin
<1> SUFFICES ASSUME TypeOK, QueueInv, [Next]_vars
             PROVE  Origin
  BY DEF IInv
<1> USE DEF vars, listenerVars, threadVars, muxVars
<1>a. /\ requests \in Seq(Requests) /\ wire \in Seq(Packets)
      /\ responses \in Seq(Packets) /\ sent \in Nat
  BY BoundsAssumption DEF TypeOK
<1>1. ASSUME UNCHANGED <<wire, responses>>
      PROVE  Origin
  BY <1>1 DEF Origin, Held
<1>2. ASSUME NEW t \in Threads, \/ ReadTransactionId(t) \/ IncrementTransactionId(t)
                                \/ ConnectByPort(t) \/ SubmitSend(t) \/ BeginSend(t) \/ Wake(t)
                                \/ TimeOut(t) \/ EnumerationRaises(t)
                                \/ SendReturned(t)
      PROVE  Origin
  BY <1>1, <1>2 DEF ReadTransactionId, IncrementTransactionId, ConnectByPort,
     SubmitSend, BeginSend, Wake, TimeOut, EnumerationRaises, SendReturned
<1>3. ASSUME NEW t \in Threads, FinishSend(t)
      PROVE  Origin
  <2>1. PICK k \in {seen[t], Len(responses)} :
           \/ UNCHANGED responses
           \/ \E i \in Matches(t, k) : responses' = Without(responses, i)
    BY <1>3 DEF FinishSend
  <2>2. \A i \in Matches(t, k) : i \in 1..Len(responses)
    <3>1. pc[t] = "searching"
      BY <1>3 DEF FinishSend, Goto
    <3>2. Len(responses) \in Nat /\ seen[t] \in Nat
      BY <1>a, LenProperties DEF TypeOK
    <3>3. seen[t] <= Len(responses)
      BY <3>1 DEF QueueInv
    <3>4. k <= Len(responses) /\ k \in Nat
      BY <2>1, <3>2, <3>3
    <3> QED
      BY <3>2, <3>4 DEF Matches
  <2>3. wire' = wire
    BY <1>3 DEF FinishSend
  <2>4. ASSUME NEW i \in 1..Len(responses), responses' = Without(responses, i)
        PROVE  Origin
    <3>1. ASSUME NEW p, Held(p)'
          PROVE  Held(p)
      <4>1. CASE \E j \in 1..Len(wire') : wire'[j] = p
        BY <2>3, <4>1 DEF Held
      <4>2. CASE \E j \in 1..Len(responses') : responses'[j] = p
        <5>1. PICK j \in 1..Len(Without(responses, i)) : Without(responses, i)[j] = p
          BY <2>4, <4>2
        <5>2. \E l \in 1..Len(responses) : responses[l] = Without(responses, i)[j]
          BY <1>a, <2>4, <5>1, WithoutElement
        <5> QED
          BY <5>1, <5>2 DEF Held
      <4> QED
        BY <3>1, <4>1, <4>2 DEF Held
    <3> QED
      BY <3>1 DEF Origin
  <2> QED
    BY <1>1, <2>1, <2>2, <2>3, <2>4
<1>4. ASSUME wire # <<>>, wire' = Tail(wire),
             \/ UNCHANGED responses
             \/ responses' = Append(responses, USBMuxReceive(Head(wire)))
      PROVE  Origin
  <2>1. /\ Head(wire) = wire[1] /\ wire[1] \in Packets /\ 1 \in 1..Len(wire)
    BY <1>a, <1>4, HeadTailProperties, LenProperties
  <2>2. /\ USBMuxReceive(wire[1]) \in Packets
        /\ USBMuxReceive(wire[1]).thread = wire[1].thread
        /\ USBMuxReceive(wire[1]).call = wire[1].call
    BY <2>1, ReceiveType
  <2> SUFFICES ASSUME NEW p \in Packets, Held(p)'
               PROVE  \/ Held(p)
                      \/ \E q \in Packets : /\ Held(q) /\ q.thread = p.thread
                                            /\ q.call = p.call
    BY DEF Origin
  <2>3. CASE \E i \in 1..Len(wire') : wire'[i] = p
    BY <1>a, <1>4, <2>3, TailElement DEF Held
  <2>4. CASE \E i \in 1..Len(responses') : responses'[i] = p
    <3>1. p = USBMuxReceive(wire[1]) \/ \E i \in 1..Len(responses) : responses[i] = p
      <4>1. CASE UNCHANGED responses
        BY <2>4, <4>1
      <4>2. CASE responses' = Append(responses, USBMuxReceive(wire[1]))
        <5>1. PICK i \in 1..Len(responses') : responses'[i] = p
          BY <2>4
        <5> QED
          BY <1>a, <2>2, <4>2, <5>1, AppendElement
      <4> QED
        BY <1>4, <2>1, <4>1, <4>2
    <3> QED
      BY <2>1, <2>2, <3>1 DEF Held
  <2> QED
    BY <2>3, <2>4 DEF Held
<1>5. CASE ReceiveResponse \/ ReceiveEvent
  BY <1>4, <1>5 DEF ReceiveResponse, ReceiveEvent
<1>6. CASE ReceiveEndOfFile
  <2>1. Unsolicited("Unknown") \in Packets /\ Unsolicited("Unknown").call = NoCall
    BY <1>a, UnsolicitedType DEF ResponseKinds, Unsolicited
  <2> QED
    BY <1>a, <1>6, <2>1, AppendElement DEF ReceiveEndOfFile, Origin, Held
<1>7. CASE Signal \/ SignalNil \/ Close \/ UNCHANGED vars
  BY <1>1, <1>7 DEF Signal, SignalNil, Close
<1>8. ASSUME NEW new \in Packets, wire' = Append(wire, new), UNCHANGED responses
      PROVE  \A p \in Packets : Held(p)' => Held(p) \/ p = new
  BY <1>a, <1>8, AppendElement DEF Held
<1>9. ASSUME AnswerListen \/ AnswerListDevices
      PROVE  Origin
  <2>1. PICK kind \in ResponseKinds, code \in Nat :
           Put(Answer(kind, code)) /\ requests # <<>> /\ UNCHANGED responses
    BY <1>9, CodeAssumption DEF AnswerListen, AnswerListDevices, ResponseKinds
  <2>2. /\ Answer(kind, code) \in Packets
        /\ Answer(kind, code).thread = requests[1].thread
        /\ Answer(kind, code).call = requests[1].call
    BY <1>a, <2>1, AnswerType
  <2>3. 1 \in 1..Len(requests)
    BY <1>a, <2>1, LenProperties
  <2> QED
    BY <1>8, <2>1, <2>2, <2>3 DEF Put, Origin
<1>10. CASE Notify
  <2>1. Unsolicited("Event") \in Packets /\ Unsolicited("Event").call = NoCall
    BY <1>a, UnsolicitedType DEF Unsolicited
  <2> QED
    BY <1>8, <1>10, <2>1 DEF Notify, Put, Origin
<1> QED
  BY <1>2, <1>3, <1>5, <1>6, <1>7, <1>9, <1>10
     DEF Next, ThreadStep, HandlerStep, MuxStep, Rest

\* Every request made stems from a packet its thread has sent.
LEMMA RequestsNext ==
    ASSUME TypeOK, TypeOK', IssuedInv, Progress, [Next]_vars
    PROVE  \A i \in 1..Len(requests') :
              Issued(requests[i].thread, requests[i].call)'
<1> USE DEF vars, listenerVars, threadVars, muxVars
<1>a. /\ requests \in Seq(Requests)
      /\ calls \in [Threads -> Nat]
      /\ pc \in [Threads -> {"idle", "tagged", "created", "queued", "waiting",
                             "searching", "returned"}]
  <2>1. calls \in [Threads -> Nat]
    BY BoundsAssumption DEF TypeOK
  <2> QED
    BY <2>1 DEF TypeOK
<1>1. ASSUME NEW r \in Requests, NEW j \in 1..Len(requests), requests[j] = r
      PROVE  Issued(r.thread, r.call)'
  <2>1. Issued(r.thread, r.call)
    BY <1>1 DEF IssuedInv
  <2>2. r.thread \in Threads /\ r.call \in Nat
    BY DEF Requests
  <2> QED
    BY <2>1, <2>2, IssuedKept
<1> SUFFICES ASSUME NEW i \in 1..Len(requests'), NEW r, requests'[i] = r
             PROVE  Issued(r.thread, r.call)'
  OBVIOUS
<1>2. ASSUME \E j \in 1..Len(requests) : requests[j] = r
      PROVE  Issued(r.thread, r.call)'
  BY <1>a, <1>1, <1>2, ElementOfSeq
<1>3. CASE UNCHANGED requests
  BY <1>2, <1>3
<1>4. CASE requests # <<>> /\ requests' = Tail(requests)
  BY <1>a, <1>2, <1>4, TailElement
<1>5. CASE requests' = <<>>
  BY <1>5
<1>6. ASSUME NEW t \in Threads, BeginSend(t)
      PROVE  Issued(r.thread, r.call)'
  <2> DEFINE new == [thread |-> t, call |-> calls[t],
                     tag |-> tag[t], type |-> PacketType(t)]
  <2>1. CASE UNCHANGED requests
    BY <1>3, <2>1
  <2>2. CASE requests' = Append(requests, new)
    <3>1. new \in Requests
      BY <1>a DEF Requests, PacketType, TypeOK
    <3>2. r = new \/ \E j \in 1..Len(requests) : requests[j] = r
      BY <1>a, <2>2, <3>1, AppendElement
    <3>3. Issued(t, calls[t])'
      BY <1>a, <1>6 DEF Issued, BeginSend, Goto
    <3>4. new.thread = t /\ new.call = calls[t] /\ calls' = calls
      BY <1>6 DEF BeginSend
    <3> QED
      BY <1>2, <3>2, <3>3, <3>4
  <2> QED
    BY <1>6, <2>1, <2>2 DEF BeginSend
<1>7. ASSUME NEW t \in Threads, ~BeginSend(t), ReadTransactionId(t) \/ ThreadStep(t)
      PROVE  UNCHANGED requests
  BY <1>7 DEF ReadTransactionId, ThreadStep, IncrementTransactionId,
     ConnectByPort, SubmitSend, Wake, TimeOut, FinishSend, EnumerationRaises, SendReturned
<1>8. CASE HandlerStep \/ Notify \/ UNCHANGED vars
  BY <1>3, <1>8 DEF HandlerStep, ReceiveResponse, ReceiveEvent,
     ReceiveEndOfFile, Signal, SignalNil, Notify
<1>9. CASE AnswerListen \/ AnswerListDevices
  BY <1>4, <1>9 DEF AnswerListen, AnswerListDevices
<1>10. CASE Close
  BY <1>5, <1>10 DEF Close
<1> QED
  BY <1>3, <1>6, <1>7, <1>8, <1>9, <1>10 DEF Next, MuxStep, Rest

LEMMA IssuedNext == IInv /\ TypeOK' /\ [Next]_vars => IssuedInv'
<1> SUFFICES ASSUME TypeOK, TypeOK', IssuedInv, Progress, Origin, [Next]_vars
             PROVE  IssuedInv'
  BY ProgressNext, OriginNext DEF IInv
<1>1. \A t \in Threads :
         pc'[t] \in {"tagged", "created", "queued", "waiting"} => calls'[t] > 0
  <2>1. calls \in [Threads -> Nat] /\ calls' \in [Threads -> Nat]
    BY BoundsAssumption DEF TypeOK
  <2> QED
    BY <2>1 DEF Progress, IssuedInv
<1>2. \A i \in 1..Len(requests') : Issued(requests[i].thread, requests[i].call)'
  BY RequestsNext
<1>3. ASSUME NEW p \in Packets, Held(p)', p.call # NoCall
      PROVE  Issued(p.thread, p.call)'
  <2>1. p.thread \in Threads /\ p.call \in Nat
    BY DEF Packets
  <2>2. Issued(p.thread, p.call)
    BY <1>3 DEF Origin, IssuedInv, Held
  <2> QED
    BY <2>1, <2>2, IssuedKept
<1>4. /\ \A i \in 1..Len(wire') : wire'[i] \in Packets
      /\ \A i \in 1..Len(responses') : responses'[i] \in Packets
  BY ElementOfSeq DEF TypeOK
<1>5. /\ \A i \in 1..Len(wire') : Held(wire[i])'
      /\ \A i \in 1..Len(responses') : Held(responses[i])'
  BY DEF Held
<1>6. ASSUME NEW i \in 1..Len(wire'), wire'[i].call # NoCall
      PROVE  Issued(wire[i].thread, wire[i].call)'
  <2>1. PICK p \in Packets : p = wire'[i]
    BY <1>4
  <2> QED
    BY <1>3, <1>5, <1>6, <2>1
<1>7. ASSUME NEW i \in 1..Len(responses'), responses'[i].call # NoCall
      PROVE  Issued(responses[i].thread, responses[i].call)'
  <2>1. PICK p \in Packets : p = responses'[i]
    BY <1>4
  <2> QED
    BY <1>3, <1>5, <1>7, <2>1
<1> QED
  BY <1>1, <1>2, <1>6, <1>7 DEF IssuedInv

-----------------------------------------------------------------------------
(* The wake-up.                                                            *)


LEMMA WakeupInit == Init => NoMissedWakeup
  BY DEF Init, NoMissedWakeup

LEMMA WakeupNext == IInv /\ [Next]_vars => NoMissedWakeup'
<1> SUFFICES ASSUME TypeOK, QueueInv, IssuedInv, NoMissedWakeup, [Next]_vars
             PROVE  NoMissedWakeup'
  BY DEF IInv
<1> USE DEF vars, listenerVars, threadVars, muxVars, Goto
<1>a. /\ pc \in [Threads -> {"idle", "tagged", "created", "queued", "waiting",
                             "searching", "returned"}]
      /\ opQueue \in Seq(Threads) /\ semaphore \in Nat \union {NilSemaphore}
  BY DEF TypeOK
<1>b. calls \in [Threads -> Nat]
  BY BoundsAssumption DEF TypeOK
<1>1. ASSUME UNCHANGED <<calls, semaphore, handlerPc, responses>>,
             \A t \in Threads : pc'[t] = "waiting" => pc[t] = "waiting"
      PROVE  NoMissedWakeup'
  BY <1>1 DEF NoMissedWakeup, Answers
<1>2. ASSUME \A t \in Threads : pc'[t] # "waiting"
      PROVE  NoMissedWakeup'
  BY <1>2 DEF NoMissedWakeup
<1>3. ASSUME handlerPc' = "signal"
      PROVE  NoMissedWakeup'
  BY <1>3 DEF NoMissedWakeup
<1>4. ASSUME NEW t \in Threads, ReadTransactionId(t)
      PROVE  NoMissedWakeup'
  <2>1. \A u \in Threads : pc'[u] = "waiting" => pc[u] = "waiting" /\ calls'[u] = calls[u]
    BY <1>a, <1>b, <1>4 DEF ReadTransactionId
  <2>2. UNCHANGED <<semaphore, handlerPc, responses>>
    BY <1>4 DEF ReadTransactionId
  <2> QED
    BY <2>1, <2>2 DEF NoMissedWakeup, Answers
<1>5. ASSUME NEW t \in Threads,
             \/ IncrementTransactionId(t) \/ ConnectByPort(t) \/ SubmitSend(t)
             \/ EnumerationRaises(t) \/ SendReturned(t)
      PROVE  NoMissedWakeup'
  <2>1. \A u \in Threads : pc'[u] = "waiting" => pc[u] = "waiting"
    BY <1>a, <1>5 DEF IncrementTransactionId, ConnectByPort, SubmitSend,
       EnumerationRaises, SendReturned
  <2> QED
    BY <1>1, <1>5, <2>1 DEF IncrementTransactionId, ConnectByPort, SubmitSend,
       EnumerationRaises, SendReturned
<1>6. ASSUME NEW t \in Threads, BeginSend(t)
      PROVE  NoMissedWakeup'
  <2>1. opQueue[1] = t
    <3>1. opQueue # <<>>
      BY <1>6, <1>a DEF BeginSend, QueueInv
    <3> QED
      BY <1>6, <1>a, <3>1, HeadTailProperties DEF BeginSend, Runs
  <2>2. \A u \in Threads : pc'[u] = "waiting" => u = t
    BY <1>6, <1>a, <2>1 DEF BeginSend, QueueInv, Running
  <2>3. calls[t] > 0 /\ pc[t] = "queued" /\ UNCHANGED <<calls, responses>>
    BY <1>6 DEF BeginSend, IssuedInv
  <2>4. \A i \in 1..Len(responses) : ~Answers(i, t)
    <3> SUFFICES ASSUME NEW i \in 1..Len(responses), Answers(i, t)
                 PROVE  FALSE
      OBVIOUS
    <3>1. responses[i].thread = t /\ responses[i].call = calls[t] /\ calls[t] \in Nat
      BY <1>b DEF Answers
    <3>2. Issued(t, calls[t])
      BY <2>3, <3>1 DEF IssuedInv, NoCall
    <3> QED
      BY <2>3, <3>1, <3>2 DEF Issued
  <2> QED
    BY <2>2, <2>3, <2>4 DEF NoMissedWakeup, Answers
<1>7. ASSUME NEW t \in Threads, Wake(t) \/ TimeOut(t) \/ FinishSend(t)
      PROVE  NoMissedWakeup'
  <2>1. Running(t) /\ pc'[t] # "waiting"
        /\ \A u \in Threads : u # t => pc'[u] = pc[u]
    BY <1>a, <1>7 DEF Running, Wake, TimeOut, FinishSend
  <2>2. \A u \in Threads : pc'[u] # "waiting"
    BY <2>1, OneRuns DEF Running
  <2> QED
    BY <1>2, <2>2
<1>8. CASE ReceiveResponse \/ ReceiveEndOfFile
  BY <1>3, <1>8 DEF ReceiveResponse, ReceiveEndOfFile
<1>9. CASE Signal
  <2>1. semaphore' > 0
    BY <1>a, <1>9 DEF Signal, NilSemaphore
  <2> QED
    BY <2>1 DEF NoMissedWakeup
<1>10. CASE ReceiveEvent \/ SignalNil \/ MuxStep \/ UNCHANGED vars
  BY <1>1, <1>10 DEF ReceiveEvent, SignalNil, MuxStep, AnswerListen,
     AnswerListDevices, Notify, Close
<1> QED
  BY <1>4, <1>5, <1>6, <1>7, <1>8, <1>9, <1>10
     DEF Next, ThreadStep, HandlerStep, Rest

-----------------------------------------------------------------------------
(* The theorems.                                                           *)

\* The conjunction is inductive.
THEOREM Invariance == Spec => []IInv
<1>1. Init => IInv
  BY TypeInit, QueueInit, NumberInit, IssuedInit, WakeupInit DEF IInv
<1>2. IInv /\ [Next]_vars => IInv'
  <2> SUFFICES ASSUME IInv, [Next]_vars
               PROVE  IInv'
    OBVIOUS
  <2>1. TypeOK'
    BY TypeNext
  <2>2. IssuedInv'
    BY <2>1, IssuedNext
  <2>3. QueueInv' /\ NumberInv' /\ NoMissedWakeup'
    BY QueueNext, NumberNext, WakeupNext
  <2> QED
    BY <2>1, <2>2, <2>3 DEF IInv
<1> QED
  BY <1>1, <1>2, PTL DEF Spec

\* The variables keep their types, for any number of threads and any bounds.
THEOREM TypeCorrect == Spec => []TypeOK
<1>1. IInv => TypeOK
  BY DEF IInv
<1> QED
  BY <1>1, Invariance, PTL

\* The serial queue gives the semaphore and the list of responses to one send
\* at a time: send: needs no lock of its own among its callers.
THEOREM SendsAreSerial == Spec => []SendsDontOverlap
<1>1. IInv => SendsDontOverlap
  <2> SUFFICES ASSUME TypeOK, QueueInv, NEW t \in Threads, Running(t)
               PROVE  /\ opQueue # <<>> /\ Head(opQueue) = t
                      /\ \A u \in Threads : Running(u) => u = t
    BY DEF IInv, SendsDontOverlap
  <2>1. opQueue \in Seq(Threads)
    BY DEF TypeOK
  <2>2. opQueue # <<>>
    BY DEF QueueInv, Running
  <2>3. Head(opQueue) = t
    BY <2>1, <2>2, HeadTailProperties DEF QueueInv
  <2>4. \A u \in Threads : Running(u) => u = t
    BY OneRuns
  <2> QED
    BY <2>2, <2>3, <2>4
<1> QED
  BY <1>1, Invariance, PTL

\* No response is ever duplicated: not in the list, not between two callers,
\* not between a caller and the list.
THEOREM ResponsesGoToOneCaller == Spec => []EachResponseOnce
<1>1. IInv => EachResponseOnce
  <2> SUFFICES ASSUME TypeOK, NumberInv
               PROVE  EachResponseOnce
    BY DEF IInv
  <2>1. Len(responses) \in Nat
    BY LenProperties DEF TypeOK
  <2>2. /\ \A i \in 1..Len(responses) : responses[i].n \in 1..sent
        /\ \A i, j \in 1..Len(responses) : i < j => responses[i].n < responses[j].n
    BY DEF NumberInv
  <2>3. \A i, j \in 1..Len(responses) : responses[i].n = responses[j].n => i = j
    BY <2>1, <2>2
  <2> QED
    BY <2>3 DEF NumberInv, EachResponseOnce
<1> QED
  BY <1>1, Invariance, PTL

\* Whatever the order of sends, answers, late signals and timeouts, no send
\* sleeps on an answer the handler has already dealt with.
THEOREM NoSendMissesItsWakeup == Spec => []NoMissedWakeup
<1>1. IInv => NoMissedWakeup
  BY DEF IInv
<1> QED
  BY <1>1, Invariance, PTL

-----------------------------------------------------------------------------
(***************************************************************************)
(* USBMuxChannel implements SendContract: whatever the threads, usbmuxd    *)
(* and the event handler do, every behaviour of the channel, seen through  *)
(* the mapping of Contract, is a behaviour of the contract.                *)
(***************************************************************************)
(* The four variables of the contract, as the channel's variables give     *)
(* them.                                                                   *)

Standing == [t \in Threads |->
               IF pc[t] \in {"queued", "waiting", "searching"} THEN "sending"
               ELSE IF pc[t] = "returned" THEN "returned" ELSE "idle"]

Unclaimed == {responses[i].n : i \in 1..Len(responses)}

LastRead == sent - Len(wire)

Results == [t \in Threads |-> reply[t].n]

\* The contract's actions, spelled with these names.
LEMMA ContractUnfolds ==
    /\ Contract!Init <=>
          /\ Standing = [t \in Threads |-> "idle"]
          /\ Unclaimed = {}
          /\ LastRead = 0
          /\ Results = [t \in Threads |-> 0]
    /\ \A t \in Threads : Contract!Call(t) <=>
          /\ Standing[t] = "idle"
          /\ Standing' = [Standing EXCEPT ![t] = "sending"]
          /\ UNCHANGED <<Unclaimed, LastRead, Results>>
    /\ Contract!Arrive <=>
          /\ LastRead' = LastRead + 1
          /\ Unclaimed' \in {Unclaimed, Unclaimed \union {LastRead + 1}}
          /\ UNCHANGED <<Standing, Results>>
    /\ \A t \in Threads : Contract!Return(t) <=>
          /\ Standing[t] = "sending"
          /\ Standing' = [Standing EXCEPT ![t] = "returned"]
          /\ \E n \in Unclaimed \union {0} :
                /\ Results' = [Results EXCEPT ![t] = n]
                /\ Unclaimed' = Unclaimed \ {n}
          /\ UNCHANGED LastRead
    /\ \A t \in Threads : Contract!Discard(t) <=>
          /\ Standing[t] = "returned"
          /\ Standing' = [Standing EXCEPT ![t] = "idle"]
          /\ Results' = [Results EXCEPT ![t] = 0]
          /\ UNCHANGED <<Unclaimed, LastRead>>
    /\ UNCHANGED Contract!contractVars <=>
          UNCHANGED <<Standing, Unclaimed, LastRead, Results>>
<1>1. /\ Contract!Init <=>
          /\ Standing = [t \in Threads |-> "idle"]
          /\ Unclaimed = {}
          /\ LastRead = 0
          /\ Results = [t \in Threads |-> 0]
  BY DEF Contract!Init, Contract!NoResponse, Standing, Unclaimed, LastRead, Results
<1>2. \A t \in Threads : Contract!Call(t) <=>
          /\ Standing[t] = "idle"
          /\ Standing' = [Standing EXCEPT ![t] = "sending"]
          /\ UNCHANGED <<Unclaimed, LastRead, Results>>
  BY DEF Contract!Call, Standing, Unclaimed, LastRead, Results
<1>3. Contract!Arrive <=>
          /\ LastRead' = LastRead + 1
          /\ Unclaimed' \in {Unclaimed, Unclaimed \union {LastRead + 1}}
          /\ UNCHANGED <<Standing, Results>>
  BY DEF Contract!Arrive, Standing, Unclaimed, LastRead, Results
<1>4. \A t \in Threads : Contract!Return(t) <=>
          /\ Standing[t] = "sending"
          /\ Standing' = [Standing EXCEPT ![t] = "returned"]
          /\ \E n \in Unclaimed \union {0} :
                /\ Results' = [Results EXCEPT ![t] = n]
                /\ Unclaimed' = Unclaimed \ {n}
          /\ UNCHANGED LastRead
  BY DEF Contract!Return, Contract!NoResponse, Standing, Unclaimed, LastRead, Results
<1>5. \A t \in Threads : Contract!Discard(t) <=>
          /\ Standing[t] = "returned"
          /\ Standing' = [Standing EXCEPT ![t] = "idle"]
          /\ Results' = [Results EXCEPT ![t] = 0]
          /\ UNCHANGED <<Unclaimed, LastRead>>
  BY DEF Contract!Discard, Contract!NoResponse, Standing, Unclaimed, LastRead, Results
<1>6. UNCHANGED Contract!contractVars <=>
          UNCHANGED <<Standing, Unclaimed, LastRead, Results>>
  BY DEF Contract!contractVars, Standing, Unclaimed, LastRead, Results
<1> QED
  BY <1>1, <1>2, <1>3, <1>4, <1>5, <1>6

-----------------------------------------------------------------------------
(* Nothing is lost on the wire: what was not read yet are the last packets *)
(* usbmuxd sent, in order.                                                 *)

WireInv == \A i \in 1..Len(wire) : wire[i].n = sent - Len(wire) + i

LEMMA WirePut ==
    ASSUME TypeOK, WireInv, NEW p \in Packets, p.n = sent + 1, Put(p)
    PROVE  WireInv' /\ LastRead' = LastRead
<1>1. /\ wire \in Seq(Packets) /\ sent \in Nat /\ sent' = sent + 1
      /\ Len(wire) \in Nat
  BY BoundsAssumption, LenProperties DEF TypeOK, Put
<1>2. /\ Len(wire') = Len(wire) + 1
      /\ \A i \in 1..Len(wire) : wire'[i] = wire[i]
      /\ wire'[Len(wire) + 1].n = sent + 1
  BY <1>1, AppendProperties DEF Put
<1>3. \A i \in 1..Len(wire') : i \in 1..Len(wire) \/ i = Len(wire) + 1
  BY <1>1, <1>2
<1>4. \A i \in 1..Len(wire) : wire'[i].n = sent' - Len(wire') + i
  BY <1>1, <1>2 DEF WireInv
<1>5. wire'[Len(wire) + 1].n = sent' - Len(wire') + (Len(wire) + 1)
  BY <1>1, <1>2
<1> QED
  BY <1>1, <1>2, <1>3, <1>4, <1>5 DEF WireInv, LastRead

LEMMA WireTake ==
    ASSUME TypeOK, WireInv, wire # <<>>, wire' = Tail(wire), UNCHANGED sent
    PROVE  /\ WireInv'
           /\ LastRead' = LastRead + 1
           /\ Head(wire) \in Packets
           /\ Head(wire).n = LastRead + 1
<1>1. /\ Len(wire) \in Nat /\ Len(wire') = Len(wire) - 1
      /\ \A i \in 1..(Len(wire) - 1) : wire'[i] = wire[i + 1]
      /\ Head(wire) = wire[1] /\ Head(wire) \in Packets
      /\ Len(wire) > 0
  BY HeadTailProperties, LenProperties, EmptySeq DEF TypeOK
<1>2. sent \in Nat
  BY BoundsAssumption DEF TypeOK
<1>3. ASSUME NEW i \in 1..Len(wire')
      PROVE  wire'[i].n = sent' - Len(wire') + i
  <2>1. i + 1 \in 1..Len(wire) /\ wire'[i] = wire[i + 1]
    BY <1>1
  <2>2. wire[i + 1].n = sent - Len(wire) + (i + 1)
    BY <2>1 DEF WireInv
  <2> QED
    BY <1>1, <1>2, <2>1, <2>2
<1>4. wire[1].n = sent - Len(wire) + 1
  BY <1>1 DEF WireInv
<1> QED
  BY <1>1, <1>2, <1>3, <1>4 DEF WireInv, LastRead

-----------------------------------------------------------------------------
(* How the steps of the channel move the contract's variables.             *)

LEMMA UnclaimedAppend ==
    ASSUME TypeOK, NEW p, responses' = Append(responses, p)
    PROVE  Unclaimed' = Unclaimed \union {p.n}
<1>1. /\ Len(responses) \in Nat /\ Len(responses') = Len(responses) + 1
      /\ \A i \in 1..Len(responses) : responses'[i] = responses[i]
      /\ responses'[Len(responses) + 1] = p
  BY LenProperties DEF TypeOK
<1>2. 1..Len(responses') = (1..Len(responses)) \union {Len(responses) + 1}
  BY <1>1
<1> QED
  BY <1>1, <1>2 DEF Unclaimed

LEMMA UnclaimedWithout ==
    ASSUME TypeOK, NumberInv, NEW i \in 1..Len(responses),
           responses' = Without(responses, i)
    PROVE  Unclaimed' = Unclaimed \ {responses[i].n}
<1>1. responses \in Seq(Packets) /\ Len(responses) \in Nat
  BY LenProperties DEF TypeOK
<1>2. /\ Len(responses') = Len(responses) - 1
      /\ \A j \in 1..(Len(responses) - 1) :
            responses'[j] = IF j < i THEN responses[j] ELSE responses[j + 1]
  BY <1>1, WithoutProperties
<1>3. \A j, k \in 1..Len(responses) : responses[j].n = responses[k].n => j = k
  <2>1. \A j, k \in 1..Len(responses) : j < k => responses[j].n < responses[k].n
    BY DEF NumberInv
  <2>2. \A j \in 1..Len(responses) : responses[j].n \in 1..sent
    BY DEF NumberInv
  <2> QED
    BY <1>1, <2>1, <2>2
<1>4. ASSUME NEW n \in Unclaimed'
      PROVE  n \in Unclaimed \ {responses[i].n}
  <2>1. PICK j \in 1..Len(responses') : n = responses'[j].n
    BY DEF Unclaimed
  <2>2. CASE j < i
    <3>1. j \in 1..Len(responses) /\ n = responses[j].n /\ j # i
      BY <1>1, <1>2, <2>1, <2>2
    <3> QED
      BY <1>3, <3>1 DEF Unclaimed
  <2>3. CASE ~(j < i)
    <3>1. j + 1 \in 1..Len(responses) /\ n = responses[j + 1].n /\ j + 1 # i
      BY <1>1, <1>2, <2>1, <2>3
    <3> QED
      BY <1>3, <3>1 DEF Unclaimed
  <2> QED
    BY <2>2, <2>3
<1>5. ASSUME NEW n \in Unclaimed, n # responses[i].n
      PROVE  n \in Unclaimed'
  <2>1. PICK j \in 1..Len(responses) : n = responses[j].n
    BY DEF Unclaimed
  <2>2. CASE j < i
    <3>1. j \in 1..Len(responses') /\ responses'[j] = responses[j]
      BY <1>1, <1>2, <2>2
    <3> QED
      BY <2>1, <3>1 DEF Unclaimed
  <2>3. CASE j > i
    <3>1. j - 1 \in 1..Len(responses') /\ responses'[j - 1] = responses[j]
      BY <1>1, <1>2, <2>3
    <3> QED
      BY <2>1, <3>1 DEF Unclaimed
  <2> QED
    BY <1>5, <2>1, <2>2, <2>3
<1> QED
  BY <1>4, <1>5

\* A response has a number of its own, an empty packet has none.
LEMMA EmptyHasNoNumber ==
    /\ EmptyPacket.n = 0
    /\ TypeOK /\ NumberInv => 0 \notin Unclaimed
<1>1. EmptyPacket.n = 0
  BY DEF EmptyPacket
<1>2. ASSUME TypeOK, NumberInv PROVE 0 \notin Unclaimed
  BY <1>2 DEF NumberInv, Unclaimed
<1> QED
  BY <1>1, <1>2

-----------------------------------------------------------------------------
(* Every step of the channel is a step of the contract, or none of it.     *)

\* What each step leaves of the wire, and what it is for the contract.
Simulates ==
    /\ WireInv'
    /\ Contract!Next \/ UNCHANGED Contract!contractVars

\* The threads' own steps before and during a send.
LEMMA ThreadStutters ==
    ASSUME TypeOK, WireInv, NEW t \in Threads,
           \/ ReadTransactionId(t) \/ IncrementTransactionId(t) \/ ConnectByPort(t)
           \/ BeginSend(t) \/ Wake(t) \/ TimeOut(t) \/ EnumerationRaises(t)
    PROVE  Simulates
<1>1. UNCHANGED <<wire, sent, responses, reply>>
  BY DEF ReadTransactionId, IncrementTransactionId, ConnectByPort, BeginSend, Wake,
     TimeOut, EnumerationRaises, vars, listenerVars, threadVars, muxVars
<1>2. UNCHANGED Standing
  <2>1. CASE EnumerationRaises(t)
    BY <2>1 DEF EnumerationRaises, threadVars, Standing
  <2>2. CASE ~EnumerationRaises(t)
    <3>1. PICK from, to \in {"idle", "tagged", "created", "queued", "waiting", "searching"} :
             /\ Goto(t, from, to)
             /\ \/ from \in {"idle", "tagged", "created"} /\ to \in {"idle", "tagged", "created"}
                \/ from \in {"queued", "waiting"} /\ to \in {"waiting", "searching"}
      BY <2>2 DEF ReadTransactionId, IncrementTransactionId, ConnectByPort, BeginSend,
         Wake, TimeOut
    <3>2. /\ pc \in [Threads -> {"idle", "tagged", "created", "queued", "waiting",
                                 "searching", "returned"}]
          /\ pc[t] = from /\ pc' = [pc EXCEPT ![t] = to]
      BY <3>1 DEF TypeOK, Goto
    <3> QED
      BY <3>1, <3>2 DEF Standing
  <2> QED
    BY <2>1, <2>2
<1>3. UNCHANGED <<Unclaimed, LastRead, Results>> /\ WireInv'
  BY <1>1 DEF Unclaimed, LastRead, Results, WireInv
<1> QED
  BY <1>2, <1>3, ContractUnfolds DEF Simulates

LEMMA SubmitCalls ==
    ASSUME TypeOK, WireInv, NEW t \in Threads, SubmitSend(t)
    PROVE  Simulates
<1>1. UNCHANGED <<wire, sent, responses, reply>>
  BY DEF SubmitSend, muxVars
<1>2. Standing[t] = "idle" /\ Standing' = [Standing EXCEPT ![t] = "sending"]
  <2>1. /\ pc \in [Threads -> {"idle", "tagged", "created", "queued", "waiting",
                               "searching", "returned"}]
        /\ pc[t] = "created" /\ pc' = [pc EXCEPT ![t] = "queued"]
    BY DEF TypeOK, SubmitSend, Goto
  <2> QED
    BY <2>1 DEF Standing
<1>3. UNCHANGED <<Unclaimed, LastRead, Results>> /\ WireInv'
  BY <1>1 DEF Unclaimed, LastRead, Results, WireInv
<1>4. Contract!Call(t)
  BY <1>2, <1>3, ContractUnfolds
<1> QED
  BY <1>3, <1>4 DEF Simulates, Contract!Next

LEMMA FinishReturns ==
    ASSUME TypeOK, QueueInv, NumberInv, WireInv, NEW t \in Threads, FinishSend(t)
    PROVE  Simulates
<1>1. UNCHANGED <<wire, sent>> /\ UNCHANGED LastRead /\ WireInv'
  BY DEF FinishSend, muxVars, LastRead, WireInv
<1>2. Standing[t] = "sending" /\ Standing' = [Standing EXCEPT ![t] = "returned"]
  <2>1. /\ pc \in [Threads -> {"idle", "tagged", "created", "queued", "waiting",
                               "searching", "returned"}]
        /\ pc[t] = "searching" /\ pc' = [pc EXCEPT ![t] = "returned"]
    BY DEF TypeOK, FinishSend, Goto
  <2> QED
    BY <2>1 DEF Standing
<1>3. PICK k \in {seen[t], Len(responses)} :
         \/ /\ reply' = [reply EXCEPT ![t] = EmptyPacket]
            /\ UNCHANGED responses
         \/ \E i \in Matches(t, k) :
               /\ reply' = [reply EXCEPT ![t] = responses[i]]
               /\ responses' = Without(responses, i)
  BY DEF FinishSend
<1>4. reply \in [Threads -> Packets] /\ Len(responses) \in Nat
  BY LenProperties DEF TypeOK
<1>5. \E n \in Unclaimed \union {0} :
         /\ Results' = [Results EXCEPT ![t] = n]
         /\ Unclaimed' = Unclaimed \ {n}
  <2>1. CASE reply' = [reply EXCEPT ![t] = EmptyPacket] /\ UNCHANGED responses
    <3>1. Results' = [Results EXCEPT ![t] = 0]
      BY <1>4, <2>1, EmptyHasNoNumber DEF Results
    <3>2. Unclaimed' = Unclaimed /\ 0 \notin Unclaimed
      BY <2>1, EmptyHasNoNumber DEF Unclaimed
    <3> QED
      BY <3>1, <3>2
  <2>2. ASSUME NEW i \in Matches(t, k),
               reply' = [reply EXCEPT ![t] = responses[i]],
               responses' = Without(responses, i)
        PROVE  \E n \in Unclaimed \union {0} :
                  /\ Results' = [Results EXCEPT ![t] = n]
                  /\ Unclaimed' = Unclaimed \ {n}
    <3>1. i \in 1..Len(responses)
      <4>1. seen[t] \in Nat /\ seen[t] <= Len(responses)
        BY DEF FinishSend, Goto, QueueInv, TypeOK
      <4> QED
        BY <1>4, <2>2, <4>1 DEF Matches
    <3>2. responses[i].n \in Unclaimed /\ Unclaimed' = Unclaimed \ {responses[i].n}
      <4>1. responses[i].n \in Unclaimed
        BY <3>1 DEF Unclaimed
      <4> QED
        BY <2>2, <3>1, <4>1, UnclaimedWithout
    <3>3. Results' = [Results EXCEPT ![t] = responses[i].n]
      BY <1>4, <2>2 DEF Results
    <3> QED
      BY <3>2, <3>3
  <2> QED
    BY <1>3, <2>1, <2>2
<1>6. Contract!Return(t)
  BY <1>1, <1>2, <1>5, ContractUnfolds
<1> QED
  BY <1>1, <1>6 DEF Simulates, Contract!Next

LEMMA SendReturnedDiscards ==
    ASSUME TypeOK, WireInv, NEW t \in Threads, SendReturned(t)
    PROVE  Simulates
<1>1. UNCHANGED <<wire, sent, responses>>
  BY DEF SendReturned, muxVars
<1>2. Standing[t] = "returned" /\ Standing' = [Standing EXCEPT ![t] = "idle"]
  <2>1. /\ pc \in [Threads -> {"idle", "tagged", "created", "queued", "waiting",
                               "searching", "returned"}]
        /\ pc[t] = "returned" /\ pc' = [pc EXCEPT ![t] = "idle"]
    BY DEF TypeOK, SendReturned, Goto
  <2> QED
    BY <2>1 DEF Standing
<1>3. UNCHANGED <<Unclaimed, LastRead>> /\ WireInv'
  BY <1>1 DEF Unclaimed, LastRead, WireInv
<1>4. Results' = [Results EXCEPT ![t] = 0]
  <2>1. reply \in [Threads -> Packets] /\ reply' = [reply EXCEPT ![t] = EmptyPacket]
    BY DEF TypeOK, SendReturned
  <2> QED
    BY <2>1, EmptyHasNoNumber DEF Results
<1>5. Contract!Discard(t)
  BY <1>2, <1>3, <1>4, ContractUnfolds
<1> QED
  BY <1>3, <1>5 DEF Simulates, Contract!Next

\* A packet is read, and kept if it is a response.
LEMMA ReceiveArrives ==
    ASSUME TypeOK, WireInv,
           ReceiveResponse \/ ReceiveEvent \/ ReceiveEndOfFile
    PROVE  Simulates
<1>1. UNCHANGED <<Standing, Results>>
  BY DEF ReceiveResponse, ReceiveEvent, ReceiveEndOfFile, threadVars, Standing, Results
<1>2. CASE ReceiveResponse
  <2>1. wire # <<>> /\ wire' = Tail(wire) /\ UNCHANGED sent
    BY <1>2 DEF ReceiveResponse
  <2>2. /\ WireInv' /\ LastRead' = LastRead + 1
        /\ USBMuxReceive(Head(wire)).n = LastRead + 1
    BY <2>1, WireTake, ReceiveType
  <2>3. Unclaimed' = Unclaimed \union {LastRead + 1}
    BY <1>2, <2>2, UnclaimedAppend DEF ReceiveResponse
  <2>4. Contract!Arrive
    BY <1>1, <2>2, <2>3, ContractUnfolds
  <2> QED
    BY <2>2, <2>4 DEF Simulates, Contract!Next
<1>3. CASE ReceiveEvent
  <2>1. wire # <<>> /\ wire' = Tail(wire) /\ UNCHANGED <<sent, responses>>
    BY <1>3 DEF ReceiveEvent, listenerVars
  <2>2. WireInv' /\ LastRead' = LastRead + 1 /\ UNCHANGED Unclaimed
    BY <2>1, WireTake DEF Unclaimed
  <2>3. Contract!Arrive
    BY <1>1, <2>2, ContractUnfolds
  <2> QED
    BY <2>2, <2>3 DEF Simulates, Contract!Next
<1>4. CASE ReceiveEndOfFile
  <2>1. /\ sent \in Nat /\ Len(wire) = 0
        /\ sent' = sent + 1 /\ UNCHANGED wire
    BY <1>4, BoundsAssumption DEF ReceiveEndOfFile, TypeOK
  <2>2. WireInv' /\ LastRead = sent /\ LastRead' = LastRead + 1
    BY <2>1 DEF WireInv, LastRead
  <2>3. Unclaimed' = Unclaimed \union {LastRead + 1}
    <3>1. /\ responses' = Append(responses, Unsolicited("Unknown"))
          /\ Unsolicited("Unknown").n = LastRead + 1
      BY <1>4, <2>2 DEF ReceiveEndOfFile, Unsolicited
    <3> QED
      BY <3>1, UnclaimedAppend
  <2>4. Contract!Arrive
    BY <1>1, <2>2, <2>3, ContractUnfolds
  <2> QED
    BY <2>2, <2>4 DEF Simulates, Contract!Next
<1> QED
  BY <1>2, <1>3, <1>4

\* Signals, and what usbmuxd does: the contract does not see it.
LEMMA OthersStutter ==
    ASSUME TypeOK, WireInv, Signal \/ SignalNil \/ MuxStep
    PROVE  Simulates
<1>1. UNCHANGED <<Standing, Unclaimed, Results>>
  BY DEF Signal, SignalNil, MuxStep, AnswerListen, AnswerListDevices, Notify, Close,
     listenerVars, threadVars, Standing, Unclaimed, Results
<1>2. WireInv' /\ UNCHANGED LastRead
  <2>1. sent \in Nat
    BY BoundsAssumption DEF TypeOK
  <2>2. CASE Signal \/ SignalNil \/ Close
    BY <2>2 DEF Signal, SignalNil, Close, muxVars, WireInv, LastRead
  <2>3. CASE AnswerListen
    <3>1. PICK code \in ListenCodes : Put(Answer("Result", code))
      BY <2>3 DEF AnswerListen
    <3>2. Answer("Result", code) \in Packets /\ Answer("Result", code).n = sent + 1
      BY <2>1, <2>3, AnswerType, CodeAssumption DEF AnswerListen, ResponseKinds, TypeOK
    <3> QED
      BY <3>1, <3>2, WirePut
  <2>4. CASE AnswerListDevices
    <3>1. Answer("DeviceList", 0) \in Packets /\ Answer("DeviceList", 0).n = sent + 1
      BY <2>1, <2>4, AnswerType DEF AnswerListDevices, ResponseKinds, TypeOK
    <3> QED
      BY <2>4, <3>1, WirePut DEF AnswerListDevices
  <2>5. CASE Notify
    <3>1. Unsolicited("Event") \in Packets /\ Unsolicited("Event").n = sent + 1
      BY <2>1, UnsolicitedType DEF Unsolicited
    <3> QED
      BY <2>5, <3>1, WirePut DEF Notify
  <2> QED
    BY <2>2, <2>3, <2>4, <2>5 DEF MuxStep
<1> QED
  BY <1>1, <1>2, ContractUnfolds DEF Simulates

\* send: hands every response to one caller at most, gives each caller a
\* response that has arrived or the empty packet, and numbers them as they come.
THEOREM SendKeepsItsPromise == Spec => ImplementsContract
<1>1. Init => WireInv /\ Contract!Init
  <2> SUFFICES ASSUME Init
               PROVE  WireInv /\ Contract!Init
    OBVIOUS
  <2>1. WireInv /\ LastRead = 0 /\ Unclaimed = {}
    <3>1. wire = <<>> /\ responses = <<>> /\ sent = 0 /\ 1..0 = {}
      BY DEF Init
    <3>2. sent = 0 /\ Len(wire) = 0 /\ 1..Len(responses) = {}
      BY <3>1
    <3>3. LastRead = 0
      BY <3>2 DEF LastRead
    <3>4. Unclaimed = {}
      BY <3>2 DEF Unclaimed
    <3>5. WireInv
      BY <3>1, <3>2 DEF WireInv
    <3> QED
      BY <3>3, <3>4, <3>5
  <2>2. /\ Standing = [t \in Threads |-> "idle"]
        /\ Results = [t \in Threads |-> 0]
    BY EmptyHasNoNumber DEF Init, Standing, Results
  <2> QED
    BY <2>1, <2>2, ContractUnfolds
<1>2. IInv /\ WireInv /\ [Next]_vars => WireInv' /\ [Contract!Next]_(Contract!contractVars)
  <2> SUFFICES ASSUME TypeOK, QueueInv, NumberInv, WireInv, [Next]_vars
               PROVE  Simulates
    BY DEF IInv, Simulates
  <2>1. ASSUME NEW t \in Threads, ReadTransactionId(t) \/ ThreadStep(t)
        PROVE  Simulates
    BY <2>1, ThreadStutters, SubmitCalls, FinishReturns, SendReturnedDiscards DEF ThreadStep
  <2>2. CASE HandlerStep \/ MuxStep
    BY <2>2, ReceiveArrives, OthersStutter DEF HandlerStep
  <2>3. CASE UNCHANGED vars
    <3>1. UNCHANGED <<Standing, Unclaimed, LastRead, Results>> /\ WireInv'
      BY <2>3 DEF vars, listenerVars, threadVars, muxVars, Standing, Unclaimed,
         LastRead, Results, WireInv
    <3> QED
      BY <3>1, ContractUnfolds DEF Simulates
  <2> QED
    BY <2>1, <2>2, <2>3 DEF Next, Rest
<1> QED
  BY <1>1, <1>2, Invariance, PTL DEF Spec, ImplementsContract, Contract!Spec
=============================================================================
