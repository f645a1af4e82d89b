------------------------------ MODULE FramingProofs ------------------------------
(***************************************************************************)
(* Proofs about Framing, for headers and messages of any size, and any     *)
(* number of frames: what is received is as FrameContract promises, and    *)
(* what is sent arrives in step.                                           *)
(***************************************************************************)
EXTENDS Framing, SequenceTheorems, FunctionTheorems, FiniteSetTheorems, TLAPS

-----------------------------------------------------------------------------
(* A stream of frames.                                                     *)

\* What the bytes on the wire look like, and those of a frame.
Octets == [of : Nat, i : Nat, n : Nat]
Bytes == {b \in [of : Nat, i : Nat, n : Lengths] : 1 <= b.i /\ b.i <= HeaderSize + b.n}

\* Behind every byte of S stands what is left of its frame.
Flows(S) ==
    /\ \A j \in 1..Len(S) : S[j] \in Bytes
    /\ \A j \in 1..Len(S) : \A k \in 1..(HeaderSize + S[j].n - S[j].i) :
          j + k <= Len(S) /\ S[j + k] = Byte(S[j].of, S[j].i + k, S[j].n)

\* Behind a whole frame stands the first byte of the frame that is next in E.
Ordered(S, E) ==
    /\ \A j \in 1..Len(S) : \E k \in 1..Len(E) : S[j].of = E[k]
    /\ \A j \in 1..(Len(S) - 1) : S[j].i = HeaderSize + S[j].n =>
          /\ S[j + 1].i = 1
          /\ \A k \in 1..Len(E) : S[j].of = E[k] => k < Len(E) /\ S[j + 1].of = E[k + 1]

\* S holds the frames of E, without the first d of them and the bytes before
\* byte i of the next one.
Stream(S, E, d, i) ==
    /\ Flows(S) /\ Ordered(S, E)
    /\ IF Len(S) = 0
       THEN d = Len(E) /\ i = 1
       ELSE /\ d < Len(E) /\ S[1].of = E[d + 1] /\ S[1].i = i
            /\ S[Len(S)].of = E[Len(E)]

\* The numbers in E are those of different frames.
Distinct(E) == \A j, k \in 1..Len(E) : E[j] = E[k] => j = k

\* F is E and one more.
OneMore(F, E, m) ==
    /\ Len(E) \in Nat /\ Len(F) = Len(E) + 1
    /\ \A k \in 1..Len(E) : F[k] = E[k]
    /\ F[Len(E) + 1] = m

\* T is S and a frame.
FrameAfter(T, S, m, n) ==
    /\ Len(T) = Len(S) + (HeaderSize + n)
    /\ \A j \in 1..Len(S) : T[j] = S[j]
    /\ \A j \in 1..(HeaderSize + n) : T[Len(S) + j] = Byte(m, j, n)

-----------------------------------------------------------------------------
(* The inductive invariants.                                               *)

Types ==
    /\ up \in BOOLEAN
    /\ in \in [bytes : Seq(Octets), frame : Nat, rest : Seq(Octets), broken : BOOLEAN]
    /\ out \in [bytes : Seq(Octets), begun : Nat, sent : Seq(Nat), taken : Seq(Nat),
                cut : BOOLEAN]
    /\ call \in [at : {"idle", "sendHeader", "sendMessage", "header", "body"},
                 bytes : Seq(Octets), wants : Nat,
                 api : {"none", "message", "stream"}]
    /\ last \in [result : {"none", "success", "error", "invalidResponse"}, message : Nat]
    /\ got \in Seq(Nat)
    /\ Receiving => Len(call.bytes) <= call.wants
    /\ ~Receiving => call.bytes = <<>>
    /\ call.at = "header" => call.wants = HeaderSize
    /\ call.at \in {"sendHeader", "sendMessage"} => call.wants \in Lengths

\* What the host has yet to make messages of.
Ahead == (call.bytes \o in.bytes) \o in.rest

Numbers(n) == [k \in 1..n |-> k]

\* In the body of a frame its header is gone.
InFrames ==
    /\ Stream(Ahead, Numbers(in.frame), Len(got), IF call.at = "body" THEN HeaderSize + 1 ELSE 1)
    /\ call.at = "body" => Len(Ahead) > 0 /\ call.wants = Ahead[1].n

\* The stream has ended inside a frame, and a receive has found out.
Ended ==
    /\ ~up /\ Len(in.bytes) = 0 /\ Len(call.bytes) = 0 /\ call.at # "body"
    /\ Len(in.rest) > 0 /\ Len(got) = in.frame - 1

ReceiveInv ==
    /\ in.frame <= MaxFrames
    /\ \A j \in 1..Len(in.rest) : in.rest[j].of = in.frame
    /\ ~in.broken => InFrames \/ Ended

\* What the peer will have been sent when the send in progress is done.
Due == IF call.at = "sendMessage" THEN out.bytes \o Message(out.begun, call.wants) ELSE out.bytes
Claimed == IF call.at = "sendMessage" THEN Append(out.sent, out.begun) ELSE out.sent

\* Where in S a frame ends
Last(S) == {j \in 1..Len(S) : S[j].i = HeaderSize + S[j].n}

\* The frame that is begun is not one of those sent.
NewFrame ==
    call.at = "sendHeader" => \A j \in 1..Len(out.sent) : out.sent[j] < out.begun

SendInv ==
    /\ Distinct(Claimed) /\ NewFrame
    /\ \A j \in 1..Len(out.sent) : out.sent[j] <= out.begun
    /\ ~out.cut =>
          /\ Len(out.taken) <= Len(out.sent)
          /\ \A j \in 1..Len(out.taken) : out.taken[j] = out.sent[j]
          /\ up => /\ Stream(Due, Claimed, Len(out.taken), 1)
                   /\ Cardinality(Last(out.bytes)) = Len(out.sent) - Len(out.taken)

-----------------------------------------------------------------------------
(* Pieces of sequences.                                                    *)

LEMMA FirstOf ==
    ASSUME NEW A, NEW S \in Seq(A), NEW k \in 0..Len(S)
    PROVE  /\ First(S, k) \in Seq(A) /\ Len(First(S, k)) = k
           /\ \A j \in 1..k : First(S, k)[j] = S[j]
<1>1. Len(S) \in Nat /\ k \in Int /\ \A j \in 1..k : S[j] \in A
  BY ElementOfSeq, LenProperties
<1>2. /\ SubSeq(S, 1, k) \in Seq(A)
      /\ Len(SubSeq(S, 1, k)) = IF 1 <= k THEN k - 1 + 1 ELSE 0
      /\ \A j \in 1..(k - 1 + 1) : SubSeq(S, 1, k)[j] = S[1 + j - 1]
  BY <1>1, SubSeqProperties
<1> QED
  BY <1>1, <1>2 DEF First

LEMMA FromOf ==
    ASSUME NEW A, NEW S \in Seq(A), NEW k \in 0..Len(S)
    PROVE  /\ From(S, k + 1) \in Seq(A) /\ Len(From(S, k + 1)) = Len(S) - k
           /\ \A j \in 1..(Len(S) - k) : From(S, k + 1)[j] = S[j + k]
<1>1. Len(S) \in Nat /\ \A j \in (k + 1)..Len(S) : S[j] \in A
  BY ElementOfSeq, LenProperties
<1>2. /\ SubSeq(S, k + 1, Len(S)) \in Seq(A)
      /\ Len(SubSeq(S, k + 1, Len(S))) =
            IF k + 1 <= Len(S) THEN Len(S) - (k + 1) + 1 ELSE 0
      /\ \A j \in 1..(Len(S) - (k + 1) + 1) :
            SubSeq(S, k + 1, Len(S))[j] = S[(k + 1) + j - 1]
  BY <1>1, SubSeqProperties
<1> QED
  BY <1>1, <1>2 DEF From

\* The bytes of a frame.
LEMMA FrameBytes ==
    ASSUME NEW m \in Nat, NEW n \in Lengths
    PROVE  /\ Header(m, n) \in Seq(Octets) /\ Len(Header(m, n)) = HeaderSize
           /\ \A j \in 1..HeaderSize : Header(m, n)[j] = Byte(m, j, n)
           /\ Message(m, n) \in Seq(Octets) /\ Len(Message(m, n)) = n
           /\ \A j \in 1..n : Message(m, n)[j] = Byte(m, HeaderSize + j, n)
           /\ Frame(m, n) \in Seq(Octets) /\ Len(Frame(m, n)) = HeaderSize + n
           /\ \A j \in 1..(HeaderSize + n) : Frame(m, n)[j] = Byte(m, j, n)
<1>1. n \in Nat /\ HeaderSize \in Nat
  BY SizesAssumption
<1>2. Header(m, n) \in Seq(Octets) /\ Len(Header(m, n)) = HeaderSize
      /\ \A j \in 1..HeaderSize : Header(m, n)[j] = Byte(m, j, n)
  BY <1>1 DEF Header, Byte, Octets
<1>3. Message(m, n) \in Seq(Octets) /\ Len(Message(m, n)) = n
      /\ \A j \in 1..n : Message(m, n)[j] = Byte(m, HeaderSize + j, n)
  BY <1>1 DEF Message, Byte, Octets
<1>4. /\ Frame(m, n) \in Seq(Octets) /\ Len(Frame(m, n)) = HeaderSize + n
      /\ \A j \in 1..(HeaderSize + n) : Frame(m, n)[j] =
            IF j <= HeaderSize THEN Header(m, n)[j] ELSE Message(m, n)[j - HeaderSize]
  <2> DEFINE h == Header(m, n) b == Message(m, n)
  <2>1. /\ h \o b \in Seq(Octets) /\ Len(h \o b) = Len(h) + Len(b)
        /\ \A j \in 1..(Len(h) + Len(b)) :
              (h \o b)[j] = IF j <= Len(h) THEN h[j] ELSE b[j - Len(h)]
    BY <1>2, <1>3, ConcatProperties
  <2> HIDE DEF h, b
  <2>2. Len(h) = HeaderSize /\ Len(b) = n
    BY <1>2, <1>3 DEF h, b
  <2>3. Frame(m, n) = h \o b
    BY DEF Frame, h, b
  <2> QED
    BY <2>1, <2>2, <2>3 DEF h, b
<1>5. \A j \in 1..(HeaderSize + n) : Frame(m, n)[j] = Byte(m, j, n)
  <2> SUFFICES ASSUME NEW j \in 1..(HeaderSize + n) PROVE Frame(m, n)[j] = Byte(m, j, n)
    OBVIOUS
  <2>1. CASE j <= HeaderSize
    BY <1>1, <1>2, <1>4, <2>1
  <2>2. CASE ~(j <= HeaderSize)
    <3>1. j - HeaderSize \in 1..n /\ HeaderSize + (j - HeaderSize) = j
      BY <1>1, <2>2
    <3> QED
      BY <1>3, <1>4, <2>2, <3>1
  <2> QED
    BY <2>1, <2>2
<1> QED
  BY <1>2, <1>3, <1>4, <1>5

-----------------------------------------------------------------------------
(* A stream of frames: its front, what is left of it, what is added to it. *)

\* It begins with the rest of a frame.
LEMMA Front ==
    ASSUME NEW S \in Seq(Octets), NEW E, NEW d, NEW i \in Nat \ {0}, Stream(S, E, d, i),
           Len(S) > 0
    PROVE  LET n == S[1].n IN
           /\ n \in Lengths /\ n \in Nat /\ n > 0 /\ i <= HeaderSize + n
           /\ HeaderSize + n - i + 1 <= Len(S)
           /\ \A j \in 1..(HeaderSize + n - i + 1) : S[j] = Byte(E[d + 1], i + j - 1, n)
<1> DEFINE n == S[1].n
<1>1. Len(S) \in Nat /\ 1 \in 1..Len(S)
  BY LenProperties
<1>2. /\ S[1] \in Bytes /\ S[1].of = E[d + 1] /\ S[1].i = i
      /\ \A k \in 1..(HeaderSize + n - i) :
            1 + k <= Len(S) /\ S[1 + k] = Byte(E[d + 1], i + k, n)
  BY <1>1 DEF Stream, Flows
<1>3. n \in Lengths /\ n \in Nat /\ n > 0 /\ i <= HeaderSize + n /\ HeaderSize \in Nat
  BY <1>2, SizesAssumption DEF Bytes
<1>4. S[1] = Byte(E[d + 1], i, n)
  BY <1>2 DEF Byte, Bytes
<1> HIDE DEF n
<1>5. HeaderSize + n - i + 1 <= Len(S)
  <2>1. CASE i = HeaderSize + n
    BY <1>1, <1>3, <2>1
  <2>2. CASE i < HeaderSize + n
    <3>1. HeaderSize + n - i \in 1..(HeaderSize + n - i)
      BY <1>3, <2>2
    <3> QED
      BY <1>1, <1>2, <1>3, <3>1
  <2> QED
    BY <1>3, <2>1, <2>2
<1>6. ASSUME NEW j \in 1..(HeaderSize + n - i + 1)
      PROVE  S[j] = Byte(E[d + 1], i + j - 1, n)
  <2>1. CASE j = 1
    BY <1>3, <1>4, <2>1
  <2>2. CASE j > 1
    <3>1. j - 1 \in 1..(HeaderSize + n - i) /\ 1 + (j - 1) = j /\ i + (j - 1) = i + j - 1
      BY <1>3, <2>2
    <3> QED
      BY <1>2, <3>1
  <2> QED
    BY <1>3, <2>1, <2>2
<1> QED
  BY <1>3, <1>5, <1>6 DEF n

\* Some bytes are gone.
LEMMA FlowsOn ==
    ASSUME NEW S \in Seq(Octets), NEW T \in Seq(Octets), NEW k \in 0..Len(S), NEW E,
           Flows(S), Ordered(S, E),
           Len(T) = Len(S) - k, \A j \in 1..Len(T) : T[j] = S[j + k]
    PROVE  Flows(T) /\ Ordered(T, E)
<1>1. Len(S) \in Nat /\ Len(T) \in Nat /\ HeaderSize \in Nat /\ Lengths \subseteq Nat
  BY LenProperties, SizesAssumption
<1>2. ASSUME NEW j \in 1..Len(T)
      PROVE  j + k \in 1..Len(S) /\ T[j] = S[j + k]
  BY <1>1
<1>3. Flows(T)
  <2>1. ASSUME NEW j \in 1..Len(T) PROVE T[j] \in Bytes
    BY <1>2 DEF Flows
  <2>2. ASSUME NEW j \in 1..Len(T), NEW p \in 1..(HeaderSize + T[j].n - T[j].i)
        PROVE  j + p <= Len(T) /\ T[j + p] = Byte(T[j].of, T[j].i + p, T[j].n)
    <3>1. /\ p \in Nat /\ p >= 1
          /\ (j + k) + p <= Len(S)
          /\ S[(j + k) + p] = Byte(T[j].of, T[j].i + p, T[j].n)
      <4>1. T[j].n \in Nat /\ T[j].i \in Nat
        BY <1>1, <2>1 DEF Bytes
      <4>2. p \in Nat /\ p >= 1
        BY <1>1, <4>1
      <4>3. j + k \in 1..Len(S) /\ T[j] = S[j + k]
        BY <1>2
      <4>4. p \in 1..(HeaderSize + S[j + k].n - S[j + k].i)
        BY <4>3
      <4> QED
        BY <4>2, <4>3, <4>4 DEF Flows
    <3>2. j + p \in 1..Len(T) /\ (j + p) + k = (j + k) + p
      BY <1>1, <3>1
    <3> QED
      BY <1>2, <3>1, <3>2
  <2> QED
    BY <2>1, <2>2 DEF Flows
<1>4. Ordered(T, E)
  <2>1. ASSUME NEW j \in 1..Len(T) PROVE \E p \in 1..Len(E) : T[j].of = E[p]
    <3>1. \A m \in 1..Len(S) : \E p \in 1..Len(E) : S[m].of = E[p]
      BY Zenon DEF Ordered
    <3>2. j + k \in 1..Len(S) /\ T[j] = S[j + k]
      BY <1>2
    <3> QED
      BY Zenon, <3>1, <3>2
  <2>2. ASSUME NEW j \in 1..(Len(T) - 1)
        PROVE  /\ j + k \in 1..(Len(S) - 1)
               /\ T[j] = S[j + k] /\ T[j + 1] = S[(j + k) + 1]
    <3>1. j \in 1..Len(T) /\ j + 1 \in 1..Len(T) /\ (j + 1) + k = (j + k) + 1
      BY <1>1
    <3>2. j + k \in 1..(Len(S) - 1)
      BY <1>1
    <3>3. T[j] = S[j + k] /\ T[j + 1] = S[(j + 1) + k]
      BY <1>2, <3>1
    <3> QED
      BY <3>1, <3>2, <3>3
  <2>3. ASSUME NEW j \in 1..(Len(T) - 1), T[j].i = HeaderSize + T[j].n
        PROVE  /\ T[j + 1].i = 1
               /\ \A p \in 1..Len(E) : T[j].of = E[p] =>
                     p < Len(E) /\ T[j + 1].of = E[p + 1]
    <3> DEFINE m == j + k
    <3>1. m \in 1..(Len(S) - 1) /\ T[j] = S[m] /\ T[j + 1] = S[m + 1]
      BY <2>2
    <3> HIDE DEF m
    <3> QED
      BY <2>3, <3>1 DEF Ordered
  <2> QED
    BY <2>1, <2>3 DEF Ordered
<1> QED
  BY <1>3, <1>4

\* A part of the first frame is gone.
LEMMA DropPart ==
    ASSUME NEW S \in Seq(Octets), NEW T \in Seq(Octets), NEW E, NEW d, NEW i \in Nat \ {0},
           Stream(S, E, d, i), Len(S) > 0,
           NEW k \in Nat, k <= HeaderSize + S[1].n - i,
           Len(T) = Len(S) - k, \A j \in 1..Len(T) : T[j] = S[j + k]
    PROVE  Stream(T, E, d, i + k) /\ Len(T) > 0 /\ T[1].n = S[1].n
<1> DEFINE n == S[1].n
<1>1. /\ n \in Nat /\ HeaderSize \in Nat /\ Len(S) \in Nat
      /\ HeaderSize + n - i + 1 <= Len(S)
      /\ \A j \in 1..(HeaderSize + n - i + 1) : S[j] = Byte(E[d + 1], i + j - 1, n)
  BY SMTT(30), Front, LenProperties, SizesAssumption
<1>2. Len(T) > 0 /\ k \in 0..Len(S) /\ k + 1 \in 1..(HeaderSize + n - i + 1)
  BY <1>1
<1>3. Flows(T) /\ Ordered(T, E)
  BY <1>2, FlowsOn DEF Stream
<1>4. T[1] = Byte(E[d + 1], i + k, n)
  <2>1. T[1] = S[1 + k] /\ 1 + k = k + 1 /\ i + (k + 1) - 1 = i + k
    BY SMTT(30), <1>1, <1>2
  <2> QED
    BY <1>1, <1>2, <2>1
<1>5. T[Len(T)] = S[Len(S)]
  <2>1. Len(T) \in 1..Len(T) /\ Len(T) + k = Len(S)
    BY <1>1, <1>2
  <2> QED
    BY <2>1
<1> QED
  BY <1>2, <1>3, <1>4, <1>5 DEF Stream, Byte

\* The first frame is gone.
LEMMA DropFrame ==
    ASSUME NEW S \in Seq(Octets), NEW T \in Seq(Octets), NEW E, Distinct(E),
           Len(E) \in Nat, NEW d \in Nat, NEW i \in Nat \ {0},
           Stream(S, E, d, i), Len(S) > 0,
           Len(T) = Len(S) - (HeaderSize + S[1].n - i + 1),
           \A j \in 1..Len(T) : T[j] = S[j + (HeaderSize + S[1].n - i + 1)]
    PROVE  Stream(T, E, d + 1, 1)
<1> DEFINE n == S[1].n
           k == HeaderSize + n - i + 1
<1>1. /\ n \in Nat /\ HeaderSize \in Nat /\ Len(S) \in Nat /\ Len(T) \in Nat
      /\ n \in Lengths /\ i <= HeaderSize + n /\ k <= Len(S)
      /\ \A j \in 1..k : S[j] = Byte(E[d + 1], i + j - 1, n)
  BY SMTT(30), Front, LenProperties, SizesAssumption
<1>4. Len(T) = Len(S) - k /\ \A j \in 1..Len(T) : T[j] = S[j + k]
  OBVIOUS
<1> HIDE DEF n
<1>2. k \in 0..Len(S) /\ k \in 1..k /\ i + k - 1 = HeaderSize + n /\ k \in Nat
  <2>1. /\ n \in Nat /\ HeaderSize \in Nat /\ Len(S) \in Nat
        /\ i <= HeaderSize + n /\ HeaderSize + n - i + 1 <= Len(S)
    BY <1>1
  <2>2. k \in Int /\ k >= 1 /\ k <= Len(S) /\ i + k - 1 = HeaderSize + n
    BY <2>1
  <2> HIDE DEF k
  <2> QED
    BY <2>1, <2>2
<1> HIDE DEF k
<1>3. S[k].of = E[d + 1] /\ S[k].i = HeaderSize + S[k].n
  <2>1. S[k] = Byte(E[d + 1], i + k - 1, n)
    BY <1>1, <1>2
  <2>2. S[k] = Byte(E[d + 1], HeaderSize + n, n)
    BY <1>2, <2>1
  <2> QED
    BY <2>2 DEF Byte
<1>5. Flows(T) /\ Ordered(T, E)
  BY <1>2, <1>4, FlowsOn DEF Stream
<1>6. d + 1 \in 1..Len(E)
  BY DEF Stream
<1>7. CASE Len(T) = 0
  <2>1. E[d + 1] = E[Len(E)]
    <3>1. k = Len(S)
      BY <1>1, <1>2, <1>4, <1>7
    <3> QED
      BY <1>3, <3>1 DEF Stream
  <2> QED
    BY <1>5, <1>6, <1>7, <2>1 DEF Stream, Distinct
<1>8. CASE Len(T) > 0
  <2>1. k \in 1..(Len(S) - 1) /\ 1 \in 1..Len(T) /\ 1 + k = k + 1
    BY SMTT(30), <1>1, <1>2, <1>4, <1>8
  <2>2. T[1].i = 1 /\ d + 1 < Len(E) /\ T[1].of = E[(d + 1) + 1]
    BY SMTT(30), <1>3, <1>4, <1>6, <2>1 DEF Stream, Ordered
  <2>3. T[Len(T)] = S[Len(S)]
    <3>1. Len(T) \in 1..Len(T) /\ Len(T) + k = Len(S)
      BY SMTT(30), <1>1, <1>2, <1>4, <1>8
    <3> QED
      BY <1>4, <3>1
  <2> QED
    BY <1>1, <1>5, <1>8, <2>2, <2>3 DEF Stream
<1> QED
  BY <1>1, <1>7, <1>8

\* A frame is added at the end.
LEMMA PutFrame ==
    ASSUME NEW S \in Seq(Octets), NEW T \in Seq(Octets), NEW E, NEW F,
           NEW m \in Nat, NEW n \in Lengths, NEW d \in Nat, NEW i \in Nat \ {0},
           Distinct(F), OneMore(F, E, m), FrameAfter(T, S, m, n), Stream(S, E, d, i)
    PROVE  Stream(T, F, d, i)
<1>a. /\ Len(E) \in Nat /\ Len(F) = Len(E) + 1
      /\ \A k \in 1..Len(E) : F[k] = E[k]
      /\ F[Len(E) + 1] = m
      /\ Len(T) = Len(S) + (HeaderSize + n)
      /\ \A j \in 1..Len(S) : T[j] = S[j]
      /\ \A j \in 1..(HeaderSize + n) : T[Len(S) + j] = Byte(m, j, n)
  BY DEF OneMore, FrameAfter
<1> USE <1>a
<1>1. /\ Len(S) \in Nat /\ Len(T) \in Nat /\ HeaderSize \in Nat /\ HeaderSize > 0
      /\ n \in Nat /\ n > 0 /\ Lengths \subseteq Nat
  BY LenProperties, SizesAssumption
<1>2. Flows(S) /\ Ordered(S, E)
  BY DEF Stream
<1>3. ASSUME NEW j \in 1..Len(T), j > Len(S)
      PROVE  T[j] = Byte(m, j - Len(S), n) /\ j - Len(S) \in 1..(HeaderSize + n)
  <2>1. j - Len(S) \in 1..(HeaderSize + n) /\ Len(S) + (j - Len(S)) = j
    BY <1>1, <1>3
  <2> QED
    BY <2>1
<1>4. Flows(T)
  <2>1. ASSUME NEW j \in 1..Len(T) PROVE T[j] \in Bytes
    <3>1. CASE j <= Len(S)
      <4>1. j \in 1..Len(S) /\ T[j] = S[j]
        BY <1>1, <3>1
      <4> QED
        BY <1>2, <4>1 DEF Flows
    <3>2. CASE j > Len(S)
      BY SMTT(30), <1>1, <1>3, <3>2 DEF Byte, Bytes
    <3> QED
      BY <1>1, <3>1, <3>2
  <2>2. ASSUME NEW j \in 1..Len(T), NEW p \in 1..(HeaderSize + T[j].n - T[j].i)
        PROVE  j + p <= Len(T) /\ T[j + p] = Byte(T[j].of, T[j].i + p, T[j].n)
    <3>1. T[j].n \in Nat /\ T[j].i \in Nat /\ p \in Nat /\ p >= 1
      <4>1. T[j].n \in Nat /\ T[j].i \in Nat
        BY <1>1, <2>1 DEF Bytes
      <4> QED
        BY <1>1, <4>1
    <3>2. CASE j <= Len(S)
      <4>1. j \in 1..Len(S) /\ T[j] = S[j]
        BY <1>1, <3>2
      <4>2. p \in 1..(HeaderSize + S[j].n - S[j].i)
        BY <4>1
      <4>3. j + p <= Len(S) /\ S[j + p] = Byte(S[j].of, S[j].i + p, S[j].n)
        BY <1>2, <4>1, <4>2 DEF Flows
      <4>4. j + p \in 1..Len(S) /\ j + p <= Len(T)
        BY <1>1, <3>1, <4>3
      <4> QED
        BY <4>1, <4>3, <4>4
    <3>3. CASE j > Len(S)
      <4>1. T[j] = Byte(m, j - Len(S), n) /\ j - Len(S) \in 1..(HeaderSize + n)
        BY <1>3, <3>3
      <4>2. T[j].of = m /\ T[j].i = j - Len(S) /\ T[j].n = n
        BY <4>1 DEF Byte
      <4>3. (j - Len(S)) + p \in 1..(HeaderSize + n)
        <5>1. p \in 1..(HeaderSize + n - (j - Len(S)))
          BY <4>2
        <5>2. \A x \in 1..(HeaderSize + n) : \A q \in 1..(HeaderSize + n - x) :
                 x + q \in 1..(HeaderSize + n)
          BY <1>1
        <5> QED
          BY <4>1, <5>1, <5>2
      <4>4. j + p = Len(S) + ((j - Len(S)) + p) /\ j + p <= Len(T)
        BY <1>1, <3>1, <4>3
      <4>5. T[Len(S) + ((j - Len(S)) + p)] = Byte(m, (j - Len(S)) + p, n)
        BY <4>3
      <4> QED
        BY <4>2, <4>4, <4>5
    <3> QED
      BY <1>1, <3>2, <3>3
  <2> QED
    BY <2>1, <2>2 DEF Flows
<1>5. Ordered(T, F)
  <2>1. ASSUME NEW j \in 1..Len(S)
        PROVE  \E k \in 1..Len(E) : S[j].of = F[k]
    BY <1>2 DEF Ordered
  <2>2. ASSUME NEW j \in 1..Len(T) PROVE \E k \in 1..Len(F) : T[j].of = F[k]
    <3>1. CASE j <= Len(S)
      <4>1. j \in 1..Len(S) /\ T[j] = S[j]
        BY <1>1, <3>1
      <4>2. PICK k \in 1..Len(E) : S[j].of = F[k]
        BY <2>1, <4>1
      <4>3. k \in 1..Len(F)
        OBVIOUS
      <4> QED
        BY <4>1, <4>2, <4>3
    <3>2. CASE j > Len(S)
      BY <1>3, <3>2 DEF Byte
    <3> QED
      BY <1>1, <3>1, <3>2
  <2>3. ASSUME NEW j \in 1..(Len(T) - 1), T[j].i = HeaderSize + T[j].n
        PROVE  /\ T[j + 1].i = 1
               /\ \A k \in 1..Len(F) : T[j].of = F[k] => k < Len(F) /\ T[j + 1].of = F[k + 1]
    <3>1. CASE j < Len(S)
      <4>1. /\ j \in 1..(Len(S) - 1) /\ j \in 1..Len(S) /\ j + 1 \in 1..Len(S)
        BY <1>1, <3>1
      <4>4. T[j] = S[j] /\ T[j + 1] = S[j + 1]
        BY <4>1
      <4>2. /\ S[j + 1].i = 1
            /\ \A k \in 1..Len(E) : S[j].of = E[k] => k < Len(E) /\ S[j + 1].of = E[k + 1]
        BY <1>2, <2>3, <4>1, <4>4 DEF Ordered
      <4>3. ASSUME NEW k \in 1..Len(F), S[j].of = F[k]
            PROVE  k < Len(F) /\ S[j + 1].of = F[k + 1]
        <5>1. PICK p \in 1..Len(E) : S[j].of = F[p]
          BY <2>1, <4>1
        <5>2. p \in 1..Len(F) /\ k = p
          <6>1. p \in 1..Len(F) /\ F[p] = F[k]
            BY <4>3, <5>1
          <6> QED
            BY <6>1 DEF Distinct
        <5>3. S[j].of = E[k] /\ k \in 1..Len(E)
          BY <5>1, <5>2
        <5>4. k < Len(E) /\ S[j + 1].of = E[k + 1] /\ k + 1 \in 1..Len(E)
          BY <4>2, <5>3
        <5> QED
          BY SMTT(30), <5>4
      <4> QED
        BY <4>2, <4>3, <4>4
    <3>2. CASE j = Len(S)
      <4>1. /\ Len(S) \in 1..Len(S) /\ T[j] = S[Len(S)] /\ S[Len(S)].of = E[Len(E)]
            /\ Len(E) \in 1..Len(E)
        BY <1>1, <3>2 DEF Stream
      <4>2. T[j + 1] = Byte(m, 1, n)
        BY <1>1, <3>2
      <4>3. ASSUME NEW k \in 1..Len(F), T[j].of = F[k] PROVE k = Len(E)
        <5>1. F[k] = F[Len(E)] /\ Len(E) \in 1..Len(F)
          BY SMTT(30), <4>1, <4>3
        <5> QED
          BY <5>1 DEF Distinct
      <4> QED
        BY <4>2, <4>3 DEF Byte
    <3>3. CASE j > Len(S)
      <4>1. j \in 1..Len(T)
        BY <1>1
      <4>2. T[j].i = j - Len(S) /\ T[j].n = n
        BY <1>3, <3>3, <4>1 DEF Byte
      <4> QED
        BY <1>1, <2>3, <4>2
    <3> QED
      BY <1>1, <3>1, <3>2, <3>3
  <2> QED
    BY <2>2, <2>3 DEF Ordered
<1>6. Len(T) > 0 /\ d < Len(F) /\ T[Len(T)].of = F[Len(F)]
  <2>1. Len(T) \in 1..Len(T) /\ Len(T) > Len(S)
    BY <1>1
  <2>2. T[Len(T)].of = m
    BY <1>3, <2>1 DEF Byte
  <2> QED
    BY <1>1, <2>2 DEF Stream
<1>7. T[1].of = F[d + 1] /\ T[1].i = i
  <2>1. CASE Len(S) = 0
    <3>1. T[1] = Byte(m, 1, n)
      BY <1>1, <2>1, <1>3
    <3> QED
      BY <2>1, <3>1 DEF Stream, Byte
  <2>2. CASE Len(S) > 0
    <3>1. T[1] = S[1] /\ d + 1 \in 1..Len(E) /\ S[1].of = E[d + 1] /\ S[1].i = i
      BY <1>1, <2>2 DEF Stream
    <3> QED
      BY <3>1
  <2> QED
    BY <1>1, <2>1, <2>2
<1> QED
  BY <1>1, <1>4, <1>5, <1>6, <1>7 DEF Stream

-----------------------------------------------------------------------------
(* The bytes read, on their way and to be written, as one stream.          *)

LEMMA FirstAndFrom ==
    ASSUME NEW A, NEW S \in Seq(A), NEW k \in 0..Len(S)
    PROVE  First(S, k) \o From(S, k + 1) = S
<1>1. 1 \in 1..(Len(S) + 1) /\ k \in (1 - 1)..Len(S) /\ Len(S) \in k..Len(S)
  BY LenProperties
<1>2. SubSeq(S, 1, k) \o SubSeq(S, k + 1, Len(S)) = SubSeq(S, 1, Len(S))
  BY <1>1, ConcatAdjacentSubSeq
<1> QED
  BY <1>2, SubSeqFull DEF First, From

LEMMA Joined ==
    ASSUME NEW a \in Seq(Octets), NEW b \in Seq(Octets), NEW c \in Seq(Octets)
    PROVE  /\ Len(a) \in Nat /\ Len(b) \in Nat /\ Len(c) \in Nat
           /\ (a \o b) \o c \in Seq(Octets) /\ b \o c \in Seq(Octets)
           /\ Len((a \o b) \o c) = (Len(a) + Len(b)) + Len(c)
           /\ \A j \in 1..Len(a) : ((a \o b) \o c)[j] = a[j]
           /\ \A j \in 1..Len(c) : ((a \o b) \o c)[(Len(a) + Len(b)) + j] = c[j]
           /\ Len(b \o c) = Len((a \o b) \o c) - Len(a)
           /\ \A j \in 1..Len(b \o c) : (b \o c)[j] = ((a \o b) \o c)[j + Len(a)]
           /\ a = <<>> => (a \o b) \o c = b \o c
<1>1. Len(a) \in Nat /\ Len(b) \in Nat /\ Len(c) \in Nat
  BY LenProperties
<1>2. /\ a \o b \in Seq(Octets) /\ Len(a \o b) = Len(a) + Len(b)
      /\ \A j \in 1..(Len(a) + Len(b)) :
            (a \o b)[j] = IF j <= Len(a) THEN a[j] ELSE b[j - Len(a)]
  BY ConcatProperties
<1> DEFINE ab == a \o b
<1>3. Len(ab) = Len(a) + Len(b)
  BY <1>2
<1>0. ab \in Seq(Octets) /\ c \in Seq(Octets)
  BY <1>2
<1> HIDE DEF ab
<1>4. /\ ab \o c \in Seq(Octets) /\ Len(ab \o c) = Len(ab) + Len(c)
      /\ \A j \in 1..(Len(ab) + Len(c)) :
            (ab \o c)[j] = IF j <= Len(ab) THEN ab[j] ELSE c[j - Len(ab)]
  BY <1>0, ConcatProperties
<1>5. /\ b \o c \in Seq(Octets) /\ Len(b \o c) = Len(b) + Len(c)
      /\ \A j \in 1..(Len(b) + Len(c)) :
            (b \o c)[j] = IF j <= Len(b) THEN b[j] ELSE c[j - Len(b)]
  BY ConcatProperties
<1>6. \A j \in 1..Len(a) : (ab \o c)[j] = a[j]
  BY <1>1, <1>2, <1>3, <1>4 DEF ab
<1>7. \A j \in 1..Len(c) : (ab \o c)[Len(ab) + j] = c[j]
  <2> SUFFICES ASSUME NEW j \in 1..Len(c) PROVE (ab \o c)[Len(ab) + j] = c[j]
    OBVIOUS
  <2>1. /\ Len(ab) + j \in 1..(Len(ab) + Len(c)) /\ ~(Len(ab) + j <= Len(ab))
        /\ (Len(ab) + j) - Len(ab) = j
    BY <1>1, <1>3
  <2> QED
    BY <1>4, <2>1
<1>8. ASSUME NEW j \in 1..Len(b \o c)
      PROVE  (b \o c)[j] = (ab \o c)[j + Len(a)]
  <2>1. j + Len(a) \in 1..(Len(ab) + Len(c)) /\ j \in 1..(Len(b) + Len(c))
    BY <1>1, <1>3, <1>5
  <2>2. CASE j <= Len(b)
    <3>1. /\ j + Len(a) <= Len(ab) /\ j + Len(a) \in 1..(Len(a) + Len(b))
          /\ ~(j + Len(a) <= Len(a)) /\ (j + Len(a)) - Len(a) = j
      BY <1>1, <1>3, <2>1, <2>2
    <3>2. (ab \o c)[j + Len(a)] = ab[j + Len(a)]
      BY <1>4, <2>1, <3>1
    <3>3. ab[j + Len(a)] = b[j]
      BY <1>2, <3>1 DEF ab
    <3> QED
      BY <1>5, <2>1, <2>2, <3>2, <3>3
  <2>3. CASE ~(j <= Len(b))
    <3>1. ~(j + Len(a) <= Len(ab)) /\ (j + Len(a)) - Len(ab) = j - Len(b)
      BY <1>1, <1>3, <2>1, <2>3
    <3> QED
      BY <1>4, <1>5, <2>1, <2>3, <3>1
  <2> QED
    BY <2>2, <2>3
<1>9. a = <<>> => ab = b
  BY ConcatEmptySeq DEF ab
<1>10. Len(ab \o c) = (Len(a) + Len(b)) + Len(c) /\ Len(b \o c) = Len(ab \o c) - Len(a)
  <2>1. \A x, y, z \in Nat : y + z = ((x + y) + z) - x
    OBVIOUS
  <2>2. Len(ab \o c) = (Len(a) + Len(b)) + Len(c) /\ Len(b \o c) = Len(b) + Len(c)
    BY <1>3, <1>4, <1>5
  <2> QED
    BY <1>1, <2>1, <2>2
<1>11. \A j \in 1..Len(c) : (ab \o c)[(Len(a) + Len(b)) + j] = c[j]
  BY <1>3, <1>7
<1>12. a = <<>> => ab \o c = b \o c
  BY <1>9
<1>13. ab \o c = (a \o b) \o c
  BY DEF ab
<1>14. ab \o c \in Seq(Octets) /\ b \o c \in Seq(Octets)
  BY <1>4, <1>5
<1> QED
  BY <1>1, <1>6, <1>8, <1>10, <1>11, <1>12, <1>13, <1>14, Zenon

LEMMA Associate ==
    ASSUME NEW a \in Seq(Octets), NEW b \in Seq(Octets), NEW c \in Seq(Octets)
    PROVE  (a \o b) \o c = a \o (b \o c)
  BY ConcatAssociative

\* What is read moves on in the stream, and so does what is written.
LEMMA MovesOn ==
    ASSUME NEW a \in Seq(Octets), NEW b \in Seq(Octets), NEW c \in Seq(Octets)
    PROVE  /\ \A k \in 0..Len(b) :
                 ((a \o First(b, k)) \o From(b, k + 1)) \o c = (a \o b) \o c
           /\ \A k \in 0..Len(c) :
                 (a \o (b \o First(c, k))) \o From(c, k + 1) = (a \o b) \o c
<1>1. ASSUME NEW k \in 0..Len(b)
      PROVE  (a \o First(b, k)) \o From(b, k + 1) = a \o b
  <2> DEFINE f == First(b, k) r == From(b, k + 1)
  <2>1. f \in Seq(Octets) /\ r \in Seq(Octets) /\ f \o r = b
    BY FirstOf, FromOf, FirstAndFrom
  <2> HIDE DEF f, r
  <2>2. (a \o f) \o r = a \o (f \o r)
    BY ZenonT(60), <2>1, Associate
  <2>3. (a \o f) \o r = a \o b
    BY <2>1, <2>2, Zenon
  <2> QED
    BY <2>3 DEF f, r
<1>2. ASSUME NEW k \in 0..Len(c)
      PROVE  (a \o (b \o First(c, k))) \o From(c, k + 1) = (a \o b) \o c
  <2> DEFINE f == First(c, k) r == From(c, k + 1)
  <2>1. f \in Seq(Octets) /\ r \in Seq(Octets) /\ f \o r = c
    BY FirstOf, FromOf, FirstAndFrom
  <2> HIDE DEF f, r
  <2>2. a \o (b \o f) = (a \o b) \o f
    BY ZenonT(60), <2>1, Associate
  <2>3. a \o b \in Seq(Octets)
    BY ConcatProperties
  <2> DEFINE ab == a \o b
  <2>4. ab \in Seq(Octets)
    BY <2>3
  <2> HIDE DEF ab
  <2>5. (ab \o f) \o r = ab \o (f \o r)
    BY ZenonT(60), <2>1, <2>4, Associate
  <2>6. a \o (b \o f) = ab \o f
    BY <2>2 DEF ab
  <2>7. (a \o (b \o f)) \o r = ab \o c
    BY <2>1, <2>5, <2>6, Zenon
  <2> QED
    BY <2>7 DEF ab, f, r
<1> QED
  BY <1>1, <1>2, Zenon

-----------------------------------------------------------------------------
(* Types.                                                                  *)

LEMMA LengthsInType ==
    ASSUME NEW bytes \in Seq(Octets), Len(bytes) > 0, NEW n \in LengthsIn(bytes)
    PROVE  n \in Nat
<1>1. bytes[1] \in Octets
  BY ElementOfSeq, LenProperties
<1> QED
  BY <1>1, SizesAssumption DEF LengthsIn, Octets

LEMMA ParsedType ==
    ASSUME NEW bytes \in Seq(Octets)
    PROVE  Parsed(bytes) \in Nat
<1>1. bytes # <<>> => bytes[1] \in Octets
  <2>1. bytes # <<>> => Len(bytes) \in Nat \ {0}
    BY EmptySeq
  <2> QED
    BY <2>1, ElementOfSeq
<1> QED
  BY <1>1 DEF Parsed, Octets

LEMMA NoCallTypes ==
    ASSUME call' = NoCall
    PROVE  /\ call' \in [at : {"idle", "sendHeader", "sendMessage", "header", "body"},
                         bytes : Seq(Octets), wants : Nat,
                         api : {"none", "message", "stream"}]
           /\ call'.bytes = <<>> /\ call'.at = "idle" /\ ~Receiving'
  BY EmptySeq DEF NoCall, Receiving

LEMMA ReturnTypes ==
    ASSUME Types, NEW result \in {"none", "success", "error", "invalidResponse"},
           NEW message \in Nat, Returns(result, message), UNCHANGED <<up, out>>,
           in' \in [bytes : Seq(Octets), frame : Nat, rest : Seq(Octets), broken : BOOLEAN]
    PROVE  Types'
<1>1. got' \in Seq(Nat)
  BY AppendProperties DEF Returns, Types
<1>2. last' \in [result : {"none", "success", "error", "invalidResponse"}, message : Nat]
  BY DEF Returns
<1> QED
  BY <1>1, <1>2, NoCallTypes DEF Returns, Types

\* What may have been written of a sequence, if anything
LEMMA WrittenType ==
    ASSUME Types, NEW bytes \in Seq(Octets)
    PROVE  Written(bytes) \in Seq(Octets)
  BY ConcatProperties DEF Written, Types

LEMMA InitTypes == Init => Types
<1> SUFFICES ASSUME Init PROVE Types
  OBVIOUS
<1>1. <<>> \in Seq(Octets) /\ <<>> \in Seq(Nat)
  BY EmptySeq
<1> QED
  BY <1>1 DEF Init, Types, NoCall, Receiving

LEMMA SendTypes ==
    ASSUME Types,
           \/ Send \/ SendHeader \/ SendHeaderFails
           \/ SendMessage \/ SendMessageFails
    PROVE  Types'
<1>0. out.begun \in Nat /\ out.begun + 1 \in Nat /\ Lengths \subseteq Nat
  BY SizesAssumption DEF Types
<1>1. CASE Send
  <2>1. PICK n \in Lengths : call' = [NoCall EXCEPT !.at = "sendHeader", !.wants = n]
    BY <1>1 DEF Send
  <2>2. <<>> \in Seq(Octets)
    BY EmptySeq
  <2>3. call'.bytes = <<>> /\ call'.at = "sendHeader" /\ call'.wants = n /\ ~Receiving'
    BY <2>1 DEF NoCall, Receiving
  <2> QED
    BY <1>0, <1>1, <2>1, <2>2, <2>3 DEF Send, Types, NoCall
<1>2. CASE SendHeader
  <2>1. call.wants \in Lengths /\ call.bytes = <<>>
    BY <1>2 DEF SendHeader, Types, Receiving
  <2>2. Written(Header(out.begun, call.wants)) \in Seq(Octets)
    BY <1>0, <2>1, FrameBytes, WrittenType
  <2>3. call'.bytes = <<>> /\ call'.at = "sendMessage" /\ call'.wants = call.wants /\ ~Receiving'
    BY <1>2, <2>1 DEF SendHeader, Types, Receiving
  <2> QED
    BY <1>2, <2>1, <2>2, <2>3 DEF SendHeader, SentHeader, Types
<1>5. CASE SendHeaderFails
  <2>1. call.wants \in Lengths
    BY <1>5 DEF SendHeaderFails, Types
  <2>2. PICK k \in Stops(SentHeader) :
           out' = [out EXCEPT !.bytes = Written(First(SentHeader, k)), !.cut = @ \/ k > 0]
    BY <1>5 DEF SendHeaderFails
  <2>3. Written(First(SentHeader, k)) \in Seq(Octets)
    <3>1. SentHeader \in Seq(Octets) /\ Len(SentHeader) = HeaderSize
      BY <1>0, <2>1, FrameBytes DEF SentHeader
    <3>2. k \in 0..(Len(SentHeader) - 1)
      BY DEF Stops
    <3>3. k \in 0..Len(SentHeader)
      BY <3>1, <3>2, SizesAssumption
    <3> QED
      BY <3>1, <3>3, FirstOf, WrittenType
  <2> QED
    BY <1>0, <1>5, <2>2, <2>3, NoCallTypes DEF SendHeaderFails, Types
<1>3. CASE SendMessage
  <2>1. call.wants \in Lengths
    BY <1>3 DEF SendMessage, Types
  <2>2. Written(Message(out.begun, call.wants)) \in Seq(Octets)
    BY <1>0, <2>1, FrameBytes, WrittenType
  <2>3. Append(out.sent, out.begun) \in Seq(Nat)
    BY <1>0, AppendProperties DEF Types
  <2> QED
    BY <1>0, <1>3, <2>2, <2>3, NoCallTypes DEF SendMessage, SentMessage, Types
<1>4. CASE SendMessageFails
  <2>1. call.wants \in Lengths
    BY <1>4 DEF SendMessageFails, Types
  <2>2. PICK k \in Stops(Message(out.begun, call.wants)) :
           out' = [out EXCEPT !.bytes = Written(First(Message(out.begun, call.wants), k)),
                              !.cut = @ \/ up]
    BY <1>4 DEF SendMessageFails, SentMessage
  <2>3. Written(First(Message(out.begun, call.wants), k)) \in Seq(Octets)
    <3>1. /\ Message(out.begun, call.wants) \in Seq(Octets)
          /\ k \in 0..Len(Message(out.begun, call.wants))
      <4>1. Message(out.begun, call.wants) \in Seq(Octets)
        BY <1>0, <2>1, FrameBytes
      <4>2. Len(Message(out.begun, call.wants)) \in Nat
        BY <4>1, LenProperties
      <4>3. k \in 0..(Len(Message(out.begun, call.wants)) - 1)
        BY DEF Stops
      <4> QED
        BY <4>1, <4>2, <4>3
    <3> QED
      BY <3>1, FirstOf, WrittenType
  <2> QED
    BY <1>0, <1>4, <2>2, <2>3, NoCallTypes DEF SendMessageFails, Types
<1> QED
  BY <1>1, <1>2, <1>3, <1>4, <1>5

LEMMA ReceiveTypes ==
    ASSUME Types, \/ Receive \/ ReceiveTimesOut \/ Read \/ HeaderRead \/ MessageRead
                  \/ ReadStops
    PROVE  Types'
<1>0. /\ call.bytes \in Seq(Octets) /\ in.bytes \in Seq(Octets) /\ Len(call.bytes) \in Nat
      /\ Len(in.bytes) \in Nat /\ call.wants \in Nat
      /\ in \in [bytes : Seq(Octets), frame : Nat, rest : Seq(Octets), broken : BOOLEAN]
      /\ 0 \in Nat /\ Parsed(call.bytes) \in Nat
  BY LenProperties, ParsedType DEF Types
<1>a. ASSUME MessageReceived, UNCHANGED <<up, out>>,
             in' \in [bytes : Seq(Octets), frame : Nat, rest : Seq(Octets), broken : BOOLEAN]
      PROVE  Types'
  <2>1. PICK result \in {"invalidResponse", "success"} : Returns(result, Parsed(call.bytes))
    BY <1>a DEF MessageReceived
  <2> QED
    BY <1>0, <1>a, <2>1, ReturnTypes
<1>1. CASE Receive
  <2>1. PICK api \in {"message", "stream"} :
           call' = [at |-> "header", bytes |-> <<>>, wants |-> HeaderSize, api |-> api]
    BY <1>1 DEF Receive
  <2>2. <<>> \in Seq(Octets) /\ Len(<<>>) = 0
    BY EmptySeq
  <2> QED
    BY <1>1, <2>1, <2>2, SizesAssumption DEF Receive, Types, Receiving
<1>2. CASE ReceiveTimesOut
  BY <1>0, <1>2, ReturnTypes DEF ReceiveTimesOut
<1>3. CASE Read
  <2>1. PICK k \in 1..Smaller(call.wants - Len(call.bytes), Len(in.bytes)) :
           /\ call' = [call EXCEPT !.bytes = @ \o First(in.bytes, k)]
           /\ in' = [in EXCEPT !.bytes = From(@, k + 1)]
    BY <1>3 DEF Read
  <2>2. k \in 0..Len(in.bytes) /\ k \in Nat /\ Len(call.bytes) + k <= call.wants
    <3>1. ASSUME NEW w \in Nat, NEW a \in Nat, NEW b \in Nat, NEW x \in 1..Smaller(w - a, b)
          PROVE  x \in 0..b /\ x \in Nat /\ a + x <= w
      BY DEF Smaller
    <3> QED
      BY <1>0, <2>1, <3>1
  <2>3. /\ First(in.bytes, k) \in Seq(Octets) /\ Len(First(in.bytes, k)) = k
        /\ From(in.bytes, k + 1) \in Seq(Octets)
    BY <1>0, <2>2, FirstOf, FromOf
  <2>4. /\ call.bytes \o First(in.bytes, k) \in Seq(Octets)
        /\ Len(call.bytes \o First(in.bytes, k)) = Len(call.bytes) + k
    <3> DEFINE a == call.bytes f == First(in.bytes, k)
    <3>1. a \in Seq(Octets) /\ f \in Seq(Octets) /\ Len(f) = k
      BY <1>0, <2>3
    <3> HIDE DEF a, f
    <3>2. a \o f \in Seq(Octets) /\ Len(a \o f) = Len(a) + k
      BY <3>1, ConcatProperties
    <3> QED
      BY <3>2 DEF a, f
  <2>5. /\ call'.at = call.at /\ call'.wants = call.wants
        /\ call'.bytes = call.bytes \o First(in.bytes, k)
        /\ Receiving
    BY <1>3, <2>1 DEF Read, Types
  <2> QED
    BY <1>3, <2>1, <2>2, <2>3, <2>4, <2>5 DEF Read, Types, Receiving
<1>4. CASE HeaderRead
  <2>1. PICK n \in LengthsIn(call.bytes) :
           call' = [call EXCEPT !.at = "body", !.bytes = <<>>, !.wants = n]
    BY <1>4 DEF HeaderRead
  <2>2. n \in Nat
    <3>1. Len(call.bytes) > 0
      <4>1. Len(call.bytes) = call.wants /\ call.wants = HeaderSize
        BY <1>4 DEF HeaderRead, Enough, Types
      <4> QED
        BY <4>1, SizesAssumption
    <3> QED
      BY <1>0, <3>1, LengthsInType
  <2>3. <<>> \in Seq(Octets) /\ Len(<<>>) = 0
    BY EmptySeq
  <2>4. call'.at = "body" /\ call'.bytes = <<>> /\ call'.wants = n
    BY <2>1 DEF Types
  <2>5. call' \in [at : {"idle", "sendHeader", "sendMessage", "header", "body"},
                   bytes : Seq(Octets), wants : Nat,
                   api : {"none", "message", "stream"}]
    BY <2>1, <2>2, <2>3 DEF Types
  <2>6. Len(call'.bytes) <= call'.wants /\ Receiving'
    <3>1. Len(call'.bytes) = 0
      BY <2>3, <2>4
    <3> QED
      BY <2>2, <2>4, <3>1 DEF Receiving
  <2> QED
    BY <1>4, <2>4, <2>5, <2>6 DEF HeaderRead, Types
<1>5. CASE MessageRead
  BY <1>0, <1>5, <1>a DEF MessageRead
<1>6. CASE ReadStops
  <2>1. in' \in [bytes : Seq(Octets), frame : Nat, rest : Seq(Octets), broken : BOOLEAN]
    BY <1>0, <1>6 DEF ReadStops, Types
  <2>2. CASE call.at = "body"
    BY <1>6, <1>a, <2>1, <2>2 DEF ReadStops
  <2>3. CASE call.at # "body"
    BY <1>0, <1>6, <2>1, <2>3, ReturnTypes DEF ReadStops
  <2> QED
    BY <2>2, <2>3
<1> QED
  BY <1>1, <1>2, <1>3, <1>4, <1>5, <1>6

LEMMA PeerTypes ==
    ASSUME Types, PeerBegins \/ PeerWrites \/ PeerTakes \/ HangUp
    PROVE  Types'
<1>1. CASE PeerBegins
  <2>1. PICK n \in Lengths :
           in' = [in EXCEPT !.frame = @ + 1, !.rest = Frame(in.frame + 1, n)]
    BY <1>1 DEF PeerBegins
  <2> DEFINE m == in.frame + 1
  <2>2. m \in Nat
    BY DEF Types
  <2> HIDE DEF m
  <2>3. Frame(m, n) \in Seq(Octets)
    BY <2>2, FrameBytes
  <2>4. in' = [in EXCEPT !.frame = m, !.rest = Frame(m, n)]
    BY <2>1 DEF m, Types
  <2> QED
    BY <1>1, <2>2, <2>3, <2>4 DEF PeerBegins, Types, Receiving
<1>2. CASE PeerWrites
  <2>1. PICK k \in 1..Len(in.rest) :
           in' = [in EXCEPT !.bytes = @ \o First(in.rest, k), !.rest = From(@, k + 1)]
    BY <1>2 DEF PeerWrites
  <2>2. in.rest \in Seq(Octets) /\ in.bytes \in Seq(Octets) /\ k \in 0..Len(in.rest)
    BY <2>1, LenProperties DEF Types
  <2>3. First(in.rest, k) \in Seq(Octets) /\ From(in.rest, k + 1) \in Seq(Octets)
    BY <2>2, FirstOf, FromOf
  <2>4. in.bytes \o First(in.rest, k) \in Seq(Octets)
    BY <2>2, <2>3, ConcatProperties
  <2> QED
    BY <1>2, <2>1, <2>3, <2>4 DEF PeerWrites, Types, Receiving
<1>3. CASE PeerTakes
  <2>1. out.bytes \in Seq(Octets) /\ Len(out.bytes) \in Nat /\ HeaderSize \in Nat
        /\ HeaderSize > 0 /\ HeaderSize \in 0..Len(out.bytes)
    <3>1. out.bytes \in Seq(Octets) /\ Len(out.bytes) \in Nat
      BY LenProperties DEF Types
    <3>2. HeaderSize \in Nat /\ HeaderSize > 0
      BY SizesAssumption
    <3>3. Len(out.bytes) >= HeaderSize
      BY <1>3 DEF PeerTakes
    <3> QED
      BY <3>1, <3>2, <3>3
  <2>2. PICK n \in LengthsIn(First(out.bytes, HeaderSize)) :
           /\ Len(out.bytes) >= HeaderSize + n
           /\ out' = [out EXCEPT
                !.taken = Append(@, Parsed(SubSeq(out.bytes, HeaderSize + 1, HeaderSize + n))),
                !.bytes = From(@, HeaderSize + n + 1)]
    BY <1>3 DEF PeerTakes
  <2>3. n \in Nat
    <3> DEFINE f == First(out.bytes, HeaderSize)
    <3>1. f \in Seq(Octets) /\ Len(f) > 0 /\ n \in LengthsIn(f)
      BY <2>1, FirstOf
    <3> HIDE DEF f
    <3> QED
      BY <3>1, LengthsInType
  <2>4. From(out.bytes, HeaderSize + n + 1) \in Seq(Octets)
    <3>1. HeaderSize + n \in 0..Len(out.bytes)
      BY <2>1, <2>2, <2>3
    <3> QED
      BY <2>1, <3>1, FromOf
  <2>5. Append(out.taken, Parsed(SubSeq(out.bytes, HeaderSize + 1, HeaderSize + n))) \in Seq(Nat)
    <3>1. \A j \in (HeaderSize + 1)..(HeaderSize + n) : out.bytes[j] \in Octets
      <4>1. \A j \in (HeaderSize + 1)..(HeaderSize + n) : j \in 1..Len(out.bytes)
        BY <2>1, <2>2, <2>3
      <4> QED
        BY <2>1, <4>1, ElementOfSeq
    <3>2. SubSeq(out.bytes, HeaderSize + 1, HeaderSize + n) \in Seq(Octets)
      BY <2>1, <2>3, <3>1, SubSeqProperties
    <3> QED
      BY <3>2, ParsedType, AppendProperties DEF Types
  <2> QED
    BY <1>3, <2>2, <2>4, <2>5 DEF PeerTakes, Types, Receiving
<1>4. CASE HangUp
  <2>1. <<>> \in Seq(Octets)
    BY EmptySeq
  <2> QED
    BY <1>4, <2>1 DEF HangUp, Types, Receiving
<1> QED
  BY <1>1, <1>2, <1>3, <1>4

LEMMA NextTypes == Types /\ [Next]_vars => Types'
<1> SUFFICES ASSUME Types, [Next]_vars PROVE Types'
  OBVIOUS
<1>1. CASE UNCHANGED vars
  BY <1>1 DEF vars, Types, Receiving
<1> QED
  BY <1>1, SendTypes, ReceiveTypes, PeerTypes DEF Next, Proceed

-----------------------------------------------------------------------------
(* What the promise is about.                                              *)

\* The numbers after a up to b.
Between(a, b) == [k \in 1..(b - a) |-> a + k]

LEMMA Counting ==
    ASSUME NEW a \in Nat, NEW b \in Int
    PROVE  /\ b <= a => Between(a, b) = <<>>
           /\ a < b => /\ Between(a, b) # <<>>
                       /\ Head(Between(a, b)) = a + 1
                       /\ Tail(Between(a, b)) = Between(a + 1, b)
           /\ a <= b => Append(Between(a, b), b + 1) = Between(a, b + 1)
<1>1. ASSUME b <= a PROVE Between(a, b) = <<>>
  <2>1. 1..(b - a) = {}
    BY <1>1
  <2> QED
    BY <2>1 DEF Between
<1>a. ASSUME a <= b
      PROVE  /\ Between(a, b) \in Seq(Nat) /\ Len(Between(a, b)) = b - a
             /\ \A k \in 1..(b - a) : Between(a, b)[k] = a + k
  <2>1. b - a \in Nat /\ \A k \in 1..(b - a) : a + k \in Nat
    BY <1>a
  <2> QED
    BY <2>1 DEF Between
<1>2. ASSUME a < b
      PROVE  /\ Between(a, b) # <<>>
             /\ Head(Between(a, b)) = a + 1
             /\ Tail(Between(a, b)) = Between(a + 1, b)
  <2> DEFINE s == Between(a, b)
             t == Between(a + 1, b)
  <2>1. s \in Seq(Nat) /\ Len(s) = b - a /\ \A k \in 1..(b - a) : s[k] = a + k
    BY <1>a, <1>2
  <2>2. /\ t = [k \in 1..(b - (a + 1)) |-> (a + 1) + k]
        /\ b - (a + 1) \in Nat /\ b - a \in Nat /\ b - a > 0 /\ (b - a) - 1 = b - (a + 1)
    BY <1>2 DEF Between
  <2> HIDE DEF s, t
  <2>3. s # <<>>
    BY <2>1, <2>2, EmptySeq
  <2>4. Head(s) = a + 1
    <3>1. 1 \in 1..(b - a)
      BY <2>2
    <3> QED
      BY <2>1, <2>3, <3>1, HeadTailProperties
  <2>5. Tail(s) = t
    <3>1. /\ Tail(s) \in Seq(Nat) /\ Len(Tail(s)) = Len(s) - 1
          /\ \A k \in 1..Len(Tail(s)) : Tail(s)[k] = s[k + 1]
      BY <2>1, <2>3, HeadTailProperties
    <3>2. t \in Seq(Nat) /\ Len(t) = b - (a + 1)
          /\ \A k \in 1..(b - (a + 1)) : t[k] = (a + 1) + k
      <4>1. \A k \in 1..(b - (a + 1)) : (a + 1) + k \in Nat
        OBVIOUS
      <4> QED
        BY <2>2, <4>1
    <3>3. ASSUME NEW k \in 1..Len(t) PROVE Tail(s)[k] = t[k]
      <4>1. k \in 1..(b - (a + 1)) /\ k + 1 \in 1..(b - a) /\ a + (k + 1) = (a + 1) + k
        BY <2>2, <3>2
      <4> QED
        BY <2>1, <2>2, <3>1, <3>2, <4>1
    <3> QED
      BY <2>1, <2>2, <3>1, <3>2, <3>3, SeqEqual
  <2> QED
    BY <2>3, <2>4, <2>5 DEF s, t
<1>3. ASSUME a <= b PROVE Append(Between(a, b), b + 1) = Between(a, b + 1)
  <2> DEFINE s == Between(a, b)
             t == Between(a, b + 1)
  <2>1. s \in Seq(Nat) /\ Len(s) = b - a /\ \A k \in 1..(b - a) : s[k] = a + k
    BY <1>a, <1>3
  <2>2. /\ t \in Seq(Nat) /\ Len(t) = (b + 1) - a
        /\ \A k \in 1..((b + 1) - a) : t[k] = a + k
    <3>1. (b + 1) - a \in Nat /\ \A k \in 1..((b + 1) - a) : a + k \in Nat
      BY <1>3
    <3> QED
      BY <3>1 DEF Between
  <2>3. b + 1 \in Nat /\ (b - a) + 1 = (b + 1) - a /\ b - a \in Nat
    BY <1>3
  <2> HIDE DEF s, t
  <2>4. /\ Append(s, b + 1) \in Seq(Nat) /\ Len(Append(s, b + 1)) = Len(s) + 1
        /\ \A k \in 1..Len(s) : Append(s, b + 1)[k] = s[k]
        /\ Append(s, b + 1)[Len(s) + 1] = b + 1
    BY <2>1, <2>3, AppendProperties
  <2>5. ASSUME NEW k \in 1..Len(t) PROVE Append(s, b + 1)[k] = t[k]
    <3>1. CASE k \in 1..(b - a)
      BY <2>1, <2>2, <2>4, <3>1
    <3>2. CASE k \notin 1..(b - a)
      <4>1. k = Len(s) + 1 /\ a + k = b + 1
        BY <2>1, <2>2, <2>3, <3>2
      <4> QED
        BY <2>2, <2>4, <4>1
    <3> QED
      BY <3>1, <3>2
  <2>6. Append(s, b + 1) = t
    BY SMTT(30), <2>1, <2>2, <2>3, <2>4, <2>5, SeqEqual
  <2> QED
    BY <2>6 DEF s, t
<1> QED
  BY <1>1, <1>2, <1>3

\* The frames the peer has written to the end.
Finished == in.frame - (IF in.rest = <<>> THEN 0 ELSE 1)

LEMMA NumbersProperties ==
    ASSUME NEW n \in Nat
    PROVE  /\ Len(Numbers(n)) = n /\ Distinct(Numbers(n))
           /\ \A k \in 1..n : Numbers(n)[k] = k
BY DEF Numbers, Distinct

\* FrameContract, for the messages that Framing's peer has finished
Waiting == IF in.broken THEN <<>> ELSE Pipe

LEMMA ContractUnfolds ==
    /\ Contract!Init <=>
          /\ Waiting = <<>> /\ ~up = FALSE /\ in.broken = FALSE
          /\ last = [result |-> "none", message |-> 0]
    /\ (UNCHANGED Contract!vars) <=> UNCHANGED <<Waiting, ~up, in.broken, last>>
    /\ Contract!Put <=>
          /\ ~~up
          /\ \E m \in 1..MaxFrames : Waiting' = Append(Waiting, m)
          /\ UNCHANGED <<~up, in.broken, last>>
    /\ Contract!End <=> (~up)' = TRUE /\ UNCHANGED <<Waiting, in.broken, last>>
    /\ Contract!Get <=>
          /\ Waiting # <<>>
          /\ last' = [result |-> "success", message |-> Head(Waiting)]
          /\ Waiting' = Tail(Waiting)
          /\ UNCHANGED <<~up, in.broken>>
    /\ Contract!Miss <=>
          /\ Waiting = <<>>
          /\ \E result \in {"error", "invalidResponse"} \union {r \in {"success"} : ~up} :
                last' = [result |-> result, message |-> 0]
          /\ UNCHANGED <<Waiting, ~up, in.broken>>
    /\ Contract!Break <=> Waiting = <<>> /\ ~~up /\ in'.broken = TRUE
    /\ Contract!Next <=>
          \/ Contract!Put \/ Contract!End \/ Contract!Get \/ Contract!Miss \/ Contract!Break
          \/ (in.broken /\ in'.broken)
<1>1. Contract!Init <=>
          /\ Waiting = <<>> /\ ~up = FALSE /\ in.broken = FALSE
          /\ last = [result |-> "none", message |-> 0]
  BY DEF Contract!Init, Waiting
<1>2. (UNCHANGED Contract!vars) <=> UNCHANGED <<Waiting, ~up, in.broken, last>>
  BY DEF Contract!vars, Waiting
<1>3. Contract!Put <=>
          /\ ~~up
          /\ \E m \in 1..MaxFrames : Waiting' = Append(Waiting, m)
          /\ UNCHANGED <<~up, in.broken, last>>
  BY DEF Contract!Put, Waiting
<1>4. Contract!End <=> (~up)' = TRUE /\ UNCHANGED <<Waiting, in.broken, last>>
  BY DEF Contract!End, Waiting
<1>5. Contract!Get <=>
          /\ Waiting # <<>>
          /\ last' = [result |-> "success", message |-> Head(Waiting)]
          /\ Waiting' = Tail(Waiting)
          /\ UNCHANGED <<~up, in.broken>>
  BY DEF Contract!Get, Waiting
<1>6. Contract!Miss <=>
          /\ Waiting = <<>>
          /\ \E result \in {"error", "invalidResponse"} \union {r \in {"success"} : ~up} :
                last' = [result |-> result, message |-> 0]
          /\ UNCHANGED <<Waiting, ~up, in.broken>>
  BY DEF Contract!Miss, Waiting
<1>7. Contract!Break <=> Waiting = <<>> /\ ~~up /\ in'.broken = TRUE
  BY DEF Contract!Break, Waiting
<1>8. Contract!Next <=>
          \/ Contract!Put \/ Contract!End \/ Contract!Get \/ Contract!Miss \/ Contract!Break
          \/ (in.broken /\ in'.broken)
  BY DEF Contract!Next
<1> QED
  BY <1>1, <1>2, <1>3, <1>4, <1>5, <1>6, <1>7, <1>8

Simulates == ReceiveInv' /\ [Contract!Next]_(Contract!vars)

\* What is promised changes with the frames finished and the messages received.
LEMMA SamePipe ==
    ASSUME UNCHANGED <<in.broken, got>>, Finished' = Finished
    PROVE  Waiting' = Waiting
  BY DEF Waiting, Pipe, Finished

LEMMA PipeIsBetween == Pipe = Between(Len(got), Finished)
  BY DEF Pipe, Between, Finished

-----------------------------------------------------------------------------
(* The bytes ahead of a receive.                                           *)

LEMMA AheadParts ==
    ASSUME Types
    PROVE  /\ Ahead \in Seq(Octets)
           /\ Len(call.bytes) \in Nat /\ Len(in.bytes) \in Nat /\ Len(in.rest) \in Nat
           /\ Len(Ahead) = (Len(call.bytes) + Len(in.bytes)) + Len(in.rest)
           /\ \A j \in 1..Len(call.bytes) : Ahead[j] = call.bytes[j]
           /\ \A j \in 1..Len(in.rest) :
                 Ahead[(Len(call.bytes) + Len(in.bytes)) + j] = in.rest[j]
           /\ in.bytes \o in.rest \in Seq(Octets)
           /\ Len(in.bytes \o in.rest) = Len(Ahead) - Len(call.bytes)
           /\ \A j \in 1..Len(in.bytes \o in.rest) :
                 (in.bytes \o in.rest)[j] = Ahead[j + Len(call.bytes)]
           /\ call.bytes = <<>> => Ahead = in.bytes \o in.rest
<1>1. call.bytes \in Seq(Octets) /\ in.bytes \in Seq(Octets) /\ in.rest \in Seq(Octets)
  BY DEF Types
<1> DEFINE a == call.bytes b == in.bytes c == in.rest
<1>2. a \in Seq(Octets) /\ b \in Seq(Octets) /\ c \in Seq(Octets)
  BY <1>1
<1> HIDE DEF a, b, c
<1>3. /\ Len(a) \in Nat /\ Len(b) \in Nat /\ Len(c) \in Nat
      /\ (a \o b) \o c \in Seq(Octets) /\ b \o c \in Seq(Octets)
      /\ Len((a \o b) \o c) = (Len(a) + Len(b)) + Len(c)
      /\ \A j \in 1..Len(a) : ((a \o b) \o c)[j] = a[j]
      /\ \A j \in 1..Len(c) : ((a \o b) \o c)[(Len(a) + Len(b)) + j] = c[j]
      /\ Len(b \o c) = Len((a \o b) \o c) - Len(a)
      /\ \A j \in 1..Len(b \o c) : (b \o c)[j] = ((a \o b) \o c)[j + Len(a)]
      /\ a = <<>> => (a \o b) \o c = b \o c
  BY ZenonT(60), <1>2, Joined
<1>4. Ahead = (a \o b) \o c
  BY DEF Ahead, a, b, c
<1> QED
  BY <1>3, <1>4, Zenon DEF a, b, c

\* The call begins or ends, and has read nothing of what is on its way.
LEMMA AheadAfresh ==
    ASSUME Types, UNCHANGED <<in.bytes, in.rest>>, call'.bytes = <<>>
    PROVE  Ahead' = in.bytes \o in.rest
<1>1. in.bytes \in Seq(Octets) /\ in.rest \in Seq(Octets) /\ <<>> \in Seq(Octets)
  BY EmptySeq DEF Types
<1>2. <<>> \o in.bytes = in.bytes
  BY <1>1, ConcatEmptySeq
<1> QED
  BY <1>2 DEF Ahead

\* What is ahead begins with what is left of the frame whose message is next.
LEMMA NextFrame ==
    ASSUME Types, InFrames, Len(Ahead) > 0
    PROVE  LET n == Ahead[1].n
               i == IF call.at = "body" THEN HeaderSize + 1 ELSE 1
           IN  /\ n \in Lengths /\ n \in Nat /\ n > 0 /\ i \in Nat \ {0} /\ i <= HeaderSize + n
               /\ HeaderSize + n - i + 1 <= Len(Ahead)
               /\ Len(got) \in Nat /\ Len(got) + 1 \in 1..in.frame
               /\ \A j \in 1..(HeaderSize + n - i + 1) :
                     Ahead[j] = Byte(Len(got) + 1, i + j - 1, n)
<1> DEFINE E == Numbers(in.frame)
           d == Len(got)
           i == IF call.at = "body" THEN HeaderSize + 1 ELSE 1
           S == Ahead
<1>1. /\ S \in Seq(Octets) /\ i \in Nat \ {0} /\ d \in Nat /\ in.frame \in Nat
      /\ Len(S) > 0
  <2>1. got \in Seq(Nat) /\ in.frame \in Nat
    BY DEF Types
  <2> QED
    BY <2>1, AheadParts, LenProperties, SizesAssumption
<1>2. Stream(S, E, d, i)
  BY DEF InFrames
<1>3. Len(E) = in.frame /\ \A k \in 1..in.frame : E[k] = k
  BY <1>1, NumbersProperties
<1> HIDE DEF E, S, i, d
<1>4. d < Len(E)
  BY <1>1, <1>2 DEF Stream
<1>5. d + 1 \in 1..in.frame /\ E[d + 1] = d + 1
  BY <1>1, <1>3, <1>4
<1>6. LET n == S[1].n IN
         /\ n \in Lengths /\ n \in Nat /\ n > 0 /\ i <= HeaderSize + n
         /\ HeaderSize + n - i + 1 <= Len(S)
         /\ \A j \in 1..(HeaderSize + n - i + 1) : S[j] = Byte(E[d + 1], i + j - 1, n)
  BY <1>1, <1>2, Front
<1> QED
  BY <1>1, <1>5, <1>6 DEF S, i, d

\* No byte has come that the call does not have, and it wants more: the frame
\* whose message is next is not finished.
LEMMA NothingWhole ==
    ASSUME Types, ReceiveInv, ~in.broken, in.bytes = <<>>,
           Receiving => Len(call.bytes) < call.wants
    PROVE  /\ Pipe = <<>>
           /\ call.bytes # <<>> \/ call.at = "body" =>
                 InFrames /\ Len(in.rest) > 0 /\ Len(got) = in.frame - 1
<1>1. got \in Seq(Nat) /\ in.frame \in Nat /\ Len(got) \in Nat
  BY LenProperties DEF Types
<1>2. /\ Len(in.bytes) = 0 /\ Len(in.rest) \in Nat /\ Len(call.bytes) \in Nat
      /\ Len(in.rest) = 0 <=> in.rest = <<>>
      /\ Len(call.bytes) = 0 <=> call.bytes = <<>>
      /\ Len(Ahead) = Len(call.bytes) + Len(in.rest)
      /\ Len(Ahead) \in Nat
  <2>1. in.rest \in Seq(Octets) /\ call.bytes \in Seq(Octets) /\ Len(in.bytes) = 0
    BY EmptySeq DEF Types
  <2>2. (Len(in.rest) = 0 <=> in.rest = <<>>) /\ (Len(call.bytes) = 0 <=> call.bytes = <<>>)
    BY <2>1, EmptySeq
  <2>3. /\ Len(call.bytes) \in Nat /\ Len(in.rest) \in Nat
        /\ Len(Ahead) = (Len(call.bytes) + Len(in.bytes)) + Len(in.rest)
    BY AheadParts
  <2>4. (Len(call.bytes) + 0) + Len(in.rest) = Len(call.bytes) + Len(in.rest)
    BY <2>3
  <2>5. Len(Ahead) = Len(call.bytes) + Len(in.rest)
    BY <2>1, <2>3, <2>4, Zenon
  <2>6. Len(Ahead) \in Nat
    <3>1. \A x, y \in Nat : x + y \in Nat
      OBVIOUS
    <3> QED
      BY <2>3, <2>5, <3>1, Zenon
  <2> QED
    BY <2>1, <2>2, <2>3, <2>5, <2>6, Zenon
<1>c. ASSUME Finished = Len(got) PROVE Pipe = <<>>
  <2>1. Len(got) <= Len(got)
    BY <1>1
  <2>2. Len(got) \in Int
    BY <1>1
  <2>3. Between(Len(got), Len(got)) = <<>>
    BY <1>1, <2>1, <2>2, Counting
  <2> QED
    BY <1>c, <2>3, PipeIsBetween, Zenon
<1>3. CASE Ended
  <2>1. Len(in.rest) > 0 /\ Len(got) = in.frame - 1 /\ Len(call.bytes) = 0 /\ call.at # "body"
    BY <1>3 DEF Ended
  <2>2. Finished = Len(got)
    BY <1>1, <1>2, <2>1 DEF Finished
  <2> QED
    <3>1. call.bytes = <<>>
      BY <1>2, <2>1
    <3> QED
      BY <1>c, <2>1, <2>2, <3>1
<1>4. CASE InFrames /\ Len(Ahead) = 0
  <2>1. Len(got) = Len(Numbers(in.frame)) /\ call.at # "body"
    BY <1>4 DEF InFrames, Stream
  <2>2. Len(got) = in.frame
    BY <1>1, <2>1, NumbersProperties, Zenon
  <2>3. in.rest = <<>> /\ call.bytes = <<>>
    <3>1. Len(in.rest) = 0 /\ Len(call.bytes) = 0
      <4>1. \A x, y \in Nat : x + y = 0 => x = 0 /\ y = 0
        OBVIOUS
      <4> QED
        BY <1>2, <1>4, <4>1
    <3> QED
      BY <1>2, <3>1
  <2>4. Finished = Len(got)
    BY <1>1, <2>2, <2>3 DEF Finished
  <2> QED
    BY <1>c, <2>1, <2>3, <2>4
<1>5. CASE InFrames /\ Len(Ahead) > 0
  <2> DEFINE n == Ahead[1].n
             i == IF call.at = "body" THEN HeaderSize + 1 ELSE 1
             b == HeaderSize + n - i + 1
  <2>1. /\ n \in Nat /\ n > 0 /\ HeaderSize \in Nat /\ HeaderSize > 0
        /\ b <= Len(Ahead) /\ b \in Nat /\ Len(got) + 1 \in 1..in.frame
        /\ \A j \in 1..b : Ahead[j] = Byte(Len(got) + 1, i + j - 1, n)
    BY <1>5, NextFrame, SizesAssumption
  <2>2. Len(call.bytes) < b
    <3>1. CASE call.at = "body"
      <4>1. call.wants = n /\ b = n
        BY <1>5, <2>1, <3>1 DEF InFrames
      <4> QED
        BY <3>1, <4>1 DEF Receiving
    <3>2. CASE call.at = "header"
      <4>1. call.wants = HeaderSize /\ b = HeaderSize + n
        <5>1. call.wants = HeaderSize
          BY <3>2 DEF Types
        <5> QED
          BY <2>1, <3>2, <5>1
      <4>2. Len(call.bytes) < HeaderSize
        BY <3>2, <4>1 DEF Receiving
      <4> QED
        <5>1. \A x, h, w \in Nat : x < h /\ w > 0 => x < h + w
          OBVIOUS
        <5> QED
          BY ZenonT(60), <1>2, <2>1, <4>1, <4>2, <5>1
    <3>3. CASE ~Receiving
      <4>1. call.bytes = <<>> /\ b = HeaderSize + n
        BY SMTT(30), <2>1, <3>3 DEF Types, Receiving
      <4> QED
        BY <1>2, <2>1, <4>1
    <3> QED
      BY <3>1, <3>2, <3>3 DEF Receiving
  <2> HIDE DEF n, i, b
  <2>3. /\ Len(in.rest) > 0 /\ 1 \in 1..Len(in.rest)
        /\ Len(call.bytes) + 1 \in 1..b
    <3>1. \A x, y, z, w \in Nat : x < w /\ w <= z /\ z = x + y => y > 0 /\ 1 \in 1..y /\ x + 1 \in 1..w
      OBVIOUS
    <3>2. Len(call.bytes) \in Nat /\ Len(in.rest) \in Nat /\ Len(Ahead) \in Nat /\ b \in Nat
      BY <1>2, <2>1
    <3> QED
      BY <1>2, <2>1, <2>2, <3>1, <3>2
  <2>4. Ahead[Len(call.bytes) + 1] = in.rest[1]
    <3>1. (Len(call.bytes) + Len(in.bytes)) + 1 = Len(call.bytes) + 1
      BY <1>2
    <3>2. \A j \in 1..Len(in.rest) : Ahead[(Len(call.bytes) + Len(in.bytes)) + j] = in.rest[j]
      BY AheadParts
    <3> QED
      BY <2>3, <3>1, <3>2, Zenon
  <2>5. in.rest[1].of = Len(got) + 1
    <3>1. Ahead[Len(call.bytes) + 1] =
             Byte(Len(got) + 1, i + (Len(call.bytes) + 1) - 1, n)
      BY <2>1, <2>3, Zenon
    <3> QED
      BY <2>4, <3>1 DEF Byte
  <2>6. in.rest[1].of = in.frame
    BY <2>3 DEF ReceiveInv
  <2>7. Finished = Len(got) /\ Len(got) = in.frame - 1
    BY <1>1, <1>2, <2>3, <2>5, <2>6 DEF Finished
  <2> QED
    BY <1>5, <1>c, <2>3, <2>7
<1>6. InFrames \/ Ended
  BY DEF ReceiveInv
<1>7. Len(Ahead) = 0 \/ Len(Ahead) > 0
  <2>1. \A x \in Nat : x = 0 \/ x > 0
    OBVIOUS
  <2> QED
    BY <1>2, <2>1, Zenon
<1> QED
  BY <1>3, <1>4, <1>5, <1>6, <1>7

-----------------------------------------------------------------------------
(* Every step keeps ReceiveInv, and the promise.                           *)

\* The peer's frames.
LEMMA PeerFrames ==
    ASSUME Types, ReceiveInv, [Next]_vars
    PROVE  /\ in'.frame <= MaxFrames
           /\ \A j \in 1..Len(in'.rest) : in'.rest[j].of = in'.frame
           /\ in.broken => in'.broken
<1>1. in.frame \in Nat /\ in.rest \in Seq(Octets) /\ MaxFrames \in Nat
  BY BoundsAssumption DEF Types
<1>2. /\ in.frame <= MaxFrames
      /\ \A j \in 1..Len(in.rest) : in.rest[j].of = in.frame
  BY DEF ReceiveInv
<1>3. CASE in'.frame = in.frame /\ in'.rest = in.rest /\ (in.broken => in'.broken)
  BY <1>2, <1>3
<1>4. CASE PeerBegins
  <2>1. PICK n \in Lengths :
           in' = [in EXCEPT !.frame = @ + 1, !.rest = Frame(in.frame + 1, n)]
    BY <1>4 DEF PeerBegins
  <2>2. /\ in'.frame = in.frame + 1 /\ in'.rest = Frame(in.frame + 1, n)
        /\ in'.broken = in.broken
    BY <2>1 DEF Types
  <2>3. in.frame + 1 \in Nat
    BY <1>1
  <2>4. /\ Len(Frame(in.frame + 1, n)) = HeaderSize + n
        /\ \A j \in 1..(HeaderSize + n) : Frame(in.frame + 1, n)[j] = Byte(in.frame + 1, j, n)
    BY <2>3, FrameBytes
  <2>5. in.frame + 1 <= MaxFrames
    BY <1>1, <1>4 DEF PeerBegins
  <2> QED
    <3>1. \A j \in 1..Len(in'.rest) : in'.rest[j] = Byte(in.frame + 1, j, n)
      BY <2>2, <2>4
    <3>2. ASSUME NEW j \in 1..Len(in'.rest) PROVE in'.rest[j].of = in.frame + 1
      <4>1. in'.rest[j] = Byte(in.frame + 1, j, n)
        BY <3>1, Zenon
      <4> QED
        BY <4>1 DEF Byte
    <3> QED
      BY <2>2, <2>5, <3>2
<1>5. CASE PeerWrites
  <2>1. PICK k \in 1..Len(in.rest) :
           in' = [in EXCEPT !.bytes = @ \o First(in.rest, k), !.rest = From(@, k + 1)]
    BY <1>5 DEF PeerWrites
  <2>2. k \in 0..Len(in.rest) /\ k \in Nat /\ Len(in.rest) \in Nat
    BY <1>1, <2>1, LenProperties
  <2>3. /\ Len(From(in.rest, k + 1)) = Len(in.rest) - k
        /\ \A j \in 1..(Len(in.rest) - k) : From(in.rest, k + 1)[j] = in.rest[j + k]
    BY <1>1, <2>2, FromOf
  <2>4. /\ in'.frame = in.frame /\ in'.rest = From(in.rest, k + 1)
        /\ in'.broken = in.broken
    BY <2>1 DEF Types
  <2>5. \A j \in 1..(Len(in.rest) - k) : j + k \in 1..Len(in.rest)
    BY <2>2
  <2> QED
    BY SMTT(30), <1>2, <2>3, <2>4, <2>5
<1>6. \/ in'.frame = in.frame /\ in'.rest = in.rest /\ (in.broken => in'.broken)
      \/ PeerBegins \/ PeerWrites
  <2>1. CASE UNCHANGED in
    BY <2>1
  <2>2. CASE Read
    BY <2>2 DEF Read, Types
  <2>3. CASE ReadStops
    BY <2>3 DEF ReadStops, Types
  <2>4. \/ UNCHANGED in
        \/ Read \/ ReadStops \/ PeerBegins \/ PeerWrites
    BY DEF vars, Next, Proceed, Send, SendHeader, SendHeaderFails, Receive, ReceiveTimesOut,
       SendMessage, SendMessageFails, HeaderRead, MessageRead, PeerTakes, HangUp
  <2> QED
    BY <2>1, <2>2, <2>3, <2>4
<1> QED
  BY <1>3, <1>4, <1>5, <1>6

\* After a receive that gave up inside a message nothing is promised.
LEMMA BrokenSimulates ==
    ASSUME Types, ReceiveInv, [Next]_vars, in'.broken = TRUE,
           in.broken \/ (Pipe = <<>> /\ up)
    PROVE  Simulates
<1>1. ReceiveInv'
  BY PeerFrames DEF ReceiveInv
<1>2. Contract!Next
  <2>1. CASE in.broken
    BY <2>1, ContractUnfolds
  <2>2. CASE ~in.broken
    <3>1. Contract!Break
      BY <2>2, ContractUnfolds DEF Waiting
    <3> QED
      BY <3>1, ContractUnfolds
  <2> QED
    BY <2>1, <2>2
<1> QED
  BY <1>1, <1>2 DEF Simulates

\* The promise is not touched.
LEMMA Stutters ==
    ASSUME Types, ReceiveInv, [Next]_vars, UNCHANGED <<up, in.broken, last, got>>,
           Finished' = Finished, InFrames' \/ Ended'
    PROVE  Simulates
<1>1. ReceiveInv'
  BY PeerFrames DEF ReceiveInv
<1>2. UNCHANGED <<Waiting, ~up, in.broken, last>>
  BY SamePipe
<1> QED
  BY <1>1, <1>2, ContractUnfolds DEF Simulates

\* Sending, and beginning to receive.
LEMMA OthersStutter ==
    ASSUME Types, ReceiveInv, ~in.broken,
           \/ Send \/ SendHeader \/ SendHeaderFails \/ SendMessage \/ SendMessageFails
           \/ Receive \/ PeerTakes \/ UNCHANGED vars
    PROVE  Simulates
<1>1. UNCHANGED <<up, in, last, got>> /\ Finished' = Finished
  BY DEF Send, SendHeader, SendHeaderFails, SendMessage, SendMessageFails, Receive, PeerTakes,
     vars, Finished
<1>2. [Next]_vars
  BY DEF Next, Proceed
<1>3. \/ UNCHANGED call
      \/ call.at \notin {"header", "body"} /\ call'.at # "body" /\ call'.bytes = <<>>
  <2>1. CASE Send
    <3>1. PICK n \in Lengths : call' = [NoCall EXCEPT !.at = "sendHeader", !.wants = n]
      BY <2>1 DEF Send
    <3>2. call'.at = "sendHeader" /\ call'.bytes = <<>>
      BY <3>1 DEF NoCall
    <3> QED
      BY <2>1, <3>2 DEF Send, Idle
  <2>2. CASE SendHeaderFails \/ SendMessage \/ SendMessageFails
    <3>1. call.at \in {"sendHeader", "sendMessage"} /\ call' = NoCall
      BY <2>2 DEF SendHeaderFails, SendMessage, SendMessageFails
    <3> QED
      BY <3>1 DEF NoCall
  <2>3. CASE Receive
    BY <2>3 DEF Receive, Idle
  <2>4. CASE SendHeader
    <3>1. call.bytes = <<>>
      BY <2>4 DEF SendHeader, Types, Receiving
    <3> QED
      BY <2>4, <3>1 DEF SendHeader, Types
  <2>5. CASE PeerTakes \/ UNCHANGED vars
    BY <2>5 DEF PeerTakes, vars
  <2> QED
    BY <2>1, <2>2, <2>3, <2>4, <2>5
<1>4. CASE UNCHANGED call
  <2>1. InFrames' \/ Ended'
    BY <1>1, <1>4 DEF ReceiveInv, InFrames, Ended, Ahead
  <2> QED
    BY <1>1, <1>2, <2>1, Stutters
<1>5. CASE call.at \notin {"header", "body"} /\ call'.at # "body" /\ call'.bytes = <<>>
  <2>1. call.bytes = <<>>
    BY <1>5 DEF Types, Receiving
  <2>2. Ahead' = Ahead
    BY <1>1, <1>5, <2>1 DEF Ahead
  <2>3. InFrames => InFrames'
    BY <1>1, <1>5, <2>2 DEF InFrames
  <2>4. Ended => Ended'
    BY <1>1, <1>5, <2>1, EmptySeq DEF Ended
  <2> QED
    BY <1>1, <1>2, <2>3, <2>4, Stutters DEF ReceiveInv
<1> QED
  BY <1>3, <1>4, <1>5

\* What is read was ahead before.
LEMMA ReadStutters ==
    ASSUME Types, ReceiveInv, ~in.broken, Read
    PROVE  Simulates
<1>1. PICK k \in 1..Smaller(call.wants - Len(call.bytes), Len(in.bytes)) :
         /\ call' = [call EXCEPT !.bytes = @ \o First(in.bytes, k)]
         /\ in' = [in EXCEPT !.bytes = From(@, k + 1)]
  BY DEF Read
<1>2. /\ call'.at = call.at /\ call'.wants = call.wants
      /\ call'.bytes = call.bytes \o First(in.bytes, k)
      /\ in'.bytes = From(in.bytes, k + 1) /\ in'.rest = in.rest
      /\ in'.frame = in.frame /\ in'.broken = in.broken
  BY <1>1 DEF Types
<1>3. /\ call.bytes \in Seq(Octets) /\ in.bytes \in Seq(Octets) /\ in.rest \in Seq(Octets)
      /\ Len(call.bytes) \in Nat /\ Len(in.bytes) \in Nat /\ call.wants \in Nat
  BY LenProperties DEF Types
<1>4. k \in 0..Len(in.bytes)
  BY <1>1, <1>3 DEF Smaller
<1>5. Ahead' = Ahead
  <2>1. ((call.bytes \o First(in.bytes, k)) \o From(in.bytes, k + 1)) \o in.rest
           = (call.bytes \o in.bytes) \o in.rest
    BY <1>3, <1>4, MovesOn, Zenon
  <2> QED
    BY <1>2, <2>1, Zenon DEF Ahead
<1>6. InFrames
  <2>1. Len(in.bytes) # 0
    BY <1>3, EmptySeq DEF Read
  <2> QED
    BY <2>1 DEF ReceiveInv, Ended
<1>7. InFrames' /\ Finished' = Finished /\ UNCHANGED <<up, in.broken, last, got>>
  BY <1>2, <1>5, <1>6 DEF InFrames, Finished, Read
<1> QED
  BY <1>7, Stutters DEF Next, Proceed

\* The header of the next frame is read whole, and says how long its message is.
LEMMA HeaderStutters ==
    ASSUME Types, ReceiveInv, ~in.broken, HeaderRead
    PROVE  Simulates
<1>1. PICK n \in LengthsIn(call.bytes) :
         call' = [call EXCEPT !.at = "body", !.bytes = <<>>, !.wants = n]
  BY DEF HeaderRead
<1>2. call'.at = "body" /\ call'.bytes = <<>> /\ call'.wants = n
  BY <1>1 DEF Types
<1>3. /\ call.at = "header" /\ Len(call.bytes) = HeaderSize
      /\ UNCHANGED <<up, in, last, got>>
  BY DEF HeaderRead, Enough, Types
<1>4. HeaderSize \in Nat /\ HeaderSize > 0
  BY SizesAssumption
<1>5. InFrames
  BY <1>3, <1>4 DEF ReceiveInv, Ended
<1> DEFINE c == call.bytes
           S == Ahead
           T == in.bytes \o in.rest
           m == Len(got) + 1
           w == Ahead[1].n
<1>6. /\ c \in Seq(Octets) /\ S \in Seq(Octets) /\ T \in Seq(Octets)
      /\ Len(S) > 0 /\ Len(T) = Len(S) - Len(c)
      /\ \A j \in 1..Len(c) : S[j] = c[j]
      /\ \A j \in 1..Len(T) : T[j] = S[j + Len(c)]
  <2>1. /\ Len(call.bytes) \in Nat /\ Len(in.bytes) \in Nat /\ Len(in.rest) \in Nat
        /\ Len(Ahead) = (Len(call.bytes) + Len(in.bytes)) + Len(in.rest)
    BY AheadParts
  <2>2. Len(Ahead) > 0
    <3>1. \A h, x, y \in Nat : h > 0 => (h + x) + y > 0
      OBVIOUS
    <3> QED
      BY <1>3, <1>4, <2>1, <3>1
  <2>3. call.bytes \in Seq(Octets)
    BY DEF Types
  <2> QED
    BY <2>2, <2>3, AheadParts
<1>7. /\ w \in Lengths /\ w \in Nat /\ w > 0 /\ m \in Nat
      /\ \A j \in 1..(HeaderSize + w) : S[j] = Byte(m, j, w)
  <2>1. /\ w \in Lengths /\ w \in Nat /\ w > 0 /\ m \in 1..in.frame
        /\ \A j \in 1..(HeaderSize + w - 1 + 1) : Ahead[j] = Byte(m, 1 + j - 1, w)
    BY <1>3, <1>5, <1>6, NextFrame
  <2>2. HeaderSize + w - 1 + 1 = HeaderSize + w /\ \A j \in 1..(HeaderSize + w) : 1 + j - 1 = j
    BY <1>4, <2>1
  <2>3. in.frame \in Nat
    BY DEF Types
  <2> QED
    BY <2>1, <2>2, <2>3
<1>8. Stream(S, Numbers(in.frame), Len(got), 1)
  BY <1>3, <1>5 DEF InFrames
<1>9. Ahead' = T
  BY <1>2, <1>3, AheadAfresh
<1>10. S[1].n = w
  OBVIOUS
<1> HIDE DEF c, S, T, m, w
<1>11. c = Header(m, w)
  <2>1. /\ Header(m, w) \in Seq(Octets) /\ Len(Header(m, w)) = HeaderSize
        /\ \A j \in 1..HeaderSize : Header(m, w)[j] = Byte(m, j, w)
    BY <1>7, FrameBytes
  <2>2. ASSUME NEW j \in 1..Len(c) PROVE c[j] = Header(m, w)[j]
    <3>1. j \in 1..HeaderSize /\ j \in 1..(HeaderSize + w)
      BY <1>3, <1>4, <1>7 DEF c
    <3> QED
      BY <1>6, <1>7, <2>1, <3>1
  <2>3. Len(c) = Len(Header(m, w))
    BY <1>3, <2>1 DEF c
  <2> QED
    BY <1>6, <2>1, <2>2, <2>3, SeqEqual
<1>12. n = w
  <2>1. c[1] = Byte(m, 1, w)
    <3>1. 1 \in 1..Len(c) /\ 1 \in 1..(HeaderSize + w)
      BY <1>3, <1>4, <1>7 DEF c
    <3> QED
      BY <1>6, <1>7, <3>1
  <2>2. c[1].of = m /\ c[1].n = w
    BY <2>1 DEF Byte
  <2>3. LengthsIn(c) = {w}
    BY <1>11, <2>2 DEF LengthsIn
  <2>4. n \in LengthsIn(c)
    BY <1>1 DEF c
  <2> QED
    BY <2>3, <2>4
<1>13. Stream(T, Numbers(in.frame), Len(got), 1 + HeaderSize) /\ Len(T) > 0 /\ T[1].n = w
  <2>1. HeaderSize <= HeaderSize + S[1].n - 1 /\ 1 \in Nat \ {0}
    BY <1>4, <1>7, <1>10
  <2>2. Len(T) = Len(S) - HeaderSize /\ \A j \in 1..Len(T) : T[j] = S[j + HeaderSize]
    BY <1>3, <1>6 DEF c
  <2>3. /\ Stream(T, Numbers(in.frame), Len(got), 1 + HeaderSize) /\ Len(T) > 0
        /\ T[1].n = S[1].n
    <3> DEFINE k == HeaderSize i == 1 E == Numbers(in.frame) d == Len(got)
    <3>1. /\ k \in Nat /\ i \in Nat \ {0} /\ k <= HeaderSize + S[1].n - i
          /\ S \in Seq(Octets) /\ T \in Seq(Octets) /\ Len(S) > 0
          /\ Stream(S, E, d, i)
          /\ Len(T) = Len(S) - k /\ \A j \in 1..Len(T) : T[j] = S[j + k]
      BY <1>4, <1>6, <1>8, <2>1, <2>2
    <3> HIDE DEF k, i, E, d
    <3>2. Stream(T, E, d, i + k) /\ Len(T) > 0 /\ T[1].n = S[1].n
      BY ZenonT(60), <3>1, DropPart
    <3> QED
      BY <3>2 DEF k, i, E, d
  <2> QED
    BY <1>10, <2>3
<1>14. InFrames'
  <2>1. 1 + HeaderSize = HeaderSize + 1
    BY <1>4
  <2> QED
    BY <1>2, <1>3, <1>9, <1>12, <1>13, <2>1 DEF InFrames
<1> QED
  BY <1>3, <1>14, Stutters DEF Next, Proceed, Finished

\* The message is read whole, and is the next one.
LEMMA MessageGets ==
    ASSUME Types, ReceiveInv, ~in.broken, MessageRead
    PROVE  Simulates
<1>1. /\ call.at = "body" /\ Len(call.bytes) = call.wants /\ MessageReceived
      /\ UNCHANGED <<up, in>>
  BY DEF MessageRead, Enough
<1>2. HeaderSize \in Nat /\ HeaderSize > 0 /\ in.frame \in Nat /\ got \in Seq(Nat)
  BY SizesAssumption DEF Types
<1>3. InFrames
  BY <1>1 DEF ReceiveInv, Ended
<1> DEFINE c == call.bytes
           S == Ahead
           T == in.bytes \o in.rest
           m == Len(got) + 1
           w == Ahead[1].n
<1>4. /\ c \in Seq(Octets) /\ S \in Seq(Octets) /\ T \in Seq(Octets)
      /\ Len(S) > 0 /\ Len(T) = Len(S) - Len(c) /\ Len(c) = w
      /\ \A j \in 1..Len(c) : S[j] = c[j]
      /\ \A j \in 1..Len(T) : T[j] = S[j + Len(c)]
  <2>1. call.bytes \in Seq(Octets)
    BY DEF Types
  <2>2. Len(Ahead) > 0 /\ call.wants = Ahead[1].n
    BY <1>1, <1>3 DEF InFrames
  <2> QED
    BY <1>1, <2>1, <2>2, AheadParts
<1>5. /\ w \in Lengths /\ w \in Nat /\ w > 0 /\ m \in 1..in.frame /\ Len(got) \in Nat
      /\ \A j \in 1..w : S[j] = Byte(m, HeaderSize + j, w)
  <2>1. /\ w \in Lengths /\ w \in Nat /\ w > 0 /\ m \in 1..in.frame /\ Len(got) \in Nat
        /\ \A j \in 1..(HeaderSize + w - (HeaderSize + 1) + 1) :
              Ahead[j] = Byte(m, (HeaderSize + 1) + j - 1, w)
    BY <1>1, <1>3, <1>4, NextFrame
  <2>2. /\ HeaderSize + w - (HeaderSize + 1) + 1 = w
        /\ \A j \in 1..w : (HeaderSize + 1) + j - 1 = HeaderSize + j
    BY <1>2, <2>1
  <2> QED
    BY <2>1, <2>2
<1>6. Stream(S, Numbers(in.frame), Len(got), HeaderSize + 1)
  BY <1>1, <1>3 DEF InFrames
<1>7. S[1].n = w
  OBVIOUS
<1> HIDE DEF c, S, T, m, w
<1>8. Parsed(c) = m
  <2>1. /\ Message(m, w) \in Seq(Octets) /\ Len(Message(m, w)) = w
        /\ \A j \in 1..w : Message(m, w)[j] = Byte(m, HeaderSize + j, w)
    BY <1>2, <1>5, FrameBytes
  <2>2. ASSUME NEW j \in 1..Len(c) PROVE c[j] = Message(m, w)[j]
    BY <1>4, <1>5, <2>1
  <2>3. c = Message(m, w)
    BY <1>4, <2>1, <2>2, SeqEqual
  <2>4. c[1] = Byte(m, HeaderSize + 1, w) /\ c # <<>>
    <3>1. 1 \in 1..w /\ Len(c) # 0
      BY <1>4, <1>5
    <3> QED
      BY <1>4, <1>5, <3>1, EmptySeq
  <2>5. c[1].of = m /\ c[1].n = w
    BY <2>4 DEF Byte
  <2> QED
    BY <2>3, <2>4, <2>5 DEF Parsed
<1>9. /\ last' = [result |-> "success", message |-> m]
      /\ got' = Append(got, m) /\ call' = NoCall
  <2>1. m # 0
    BY <1>5
  <2>2. Parsed(call.bytes) = m
    BY <1>8 DEF c
  <2> QED
    BY <1>1, <2>1, <2>2 DEF MessageReceived, Returns
<1>10. Len(got') = m
  <2>1. m \in Nat
    BY <1>2, <1>5
  <2> QED
    BY <1>2, <1>9, <2>1, AppendProperties DEF m
<1>11. call'.at = "idle" /\ call'.bytes = <<>>
  BY <1>9 DEF NoCall
<1>12. Ahead' = T
  BY <1>1, <1>11, AheadAfresh DEF T
<1>13. Stream(T, Numbers(in.frame), m, 1)
  <2>1. HeaderSize + S[1].n - (HeaderSize + 1) + 1 = w
    BY <1>2, <1>5, <1>7
  <2>2. Len(T) = Len(S) - w /\ \A j \in 1..Len(T) : T[j] = S[j + w]
    BY <1>4
  <2>3. Len(Numbers(in.frame)) \in Nat /\ Distinct(Numbers(in.frame))
    BY <1>2, NumbersProperties
  <2>4. HeaderSize + 1 \in Nat \ {0}
    BY <1>2
  <2>5. Stream(T, Numbers(in.frame), Len(got) + 1, 1)
    BY ZenonT(60), <1>4, <1>5, <1>6, <2>1, <2>2, <2>3, <2>4, DropFrame
  <2> QED
    BY <2>5 DEF m
<1>14. InFrames'
  BY <1>1, <1>10, <1>11, <1>12, <1>13 DEF InFrames
<1>15. Len(got) < Finished
  <2>1. CASE in.rest = <<>>
    BY <1>2, <1>5, <2>1 DEF Finished, m
  <2>2. CASE in.rest # <<>>
    <3>1. Len(T) # 0
      <4>1. in.bytes \in Seq(Octets) /\ in.rest \in Seq(Octets)
        BY DEF Types
      <4>2. Len(in.bytes) \in Nat /\ Len(in.rest) \in Nat /\ Len(in.rest) # 0
        BY <2>2, <4>1, EmptySeq, LenProperties
      <4>3. Len(T) = Len(in.bytes) + Len(in.rest)
        BY <4>1, ConcatProperties DEF T
      <4> QED
        <5>1. \A x, y \in Nat : y # 0 => x + y # 0
          OBVIOUS
        <5> QED
          BY <4>2, <4>3, <5>1
    <3>2. m < in.frame
      <4>1. m < Len(Numbers(in.frame))
        BY <1>13, <3>1 DEF Stream
      <4> QED
        BY <1>2, <4>1, NumbersProperties
    <3> QED
      BY <1>2, <1>5, <2>2, <3>2 DEF Finished, m
  <2> QED
    BY <2>1, <2>2
<1>16. Contract!Get
  <2>1. Finished \in Int /\ Finished' = Finished
    BY <1>1, <1>2 DEF Finished
  <2>2. /\ Pipe # <<>> /\ Head(Pipe) = m
        /\ Tail(Pipe) = Between(m, Finished)
    BY <1>5, <1>15, <2>1, Counting, PipeIsBetween DEF m
  <2>3. Pipe' = Between(m, Finished)
    BY <1>10, <2>1, PipeIsBetween DEF Pipe, Between, Finished
  <2>4. Waiting = Pipe /\ Waiting' = Pipe'
    BY <1>1 DEF Waiting
  <2> QED
    BY <1>1, <1>9, <2>2, <2>3, <2>4, ContractUnfolds
<1>17. ReceiveInv'
  <2>1. [Next]_vars
    BY DEF Next, Proceed
  <2> QED
    BY <1>14, <2>1, PeerFrames DEF ReceiveInv
<1> QED
  BY <1>16, <1>17, ContractUnfolds DEF Simulates

\* Nothing came: the frame that is next, if any, is not finished.
LEMMA TimeoutMisses ==
    ASSUME Types, ReceiveInv, ~in.broken, ReceiveTimesOut
    PROVE  Simulates
<1>1. /\ call.at = "idle" /\ in.bytes = <<>> /\ up /\ UNCHANGED <<up, in, got>>
      /\ last' = [result |-> "error", message |-> 0] /\ call' = NoCall
  BY DEF ReceiveTimesOut, Returns, Idle
<1>2. Pipe = <<>>
  BY <1>1, NothingWhole DEF Receiving
<1>3. call'.at = "idle" /\ call'.bytes = <<>> /\ call.bytes = <<>>
  BY <1>1 DEF NoCall, Types, Receiving
<1>4. InFrames'
  <2>1. InFrames
    BY <1>1 DEF ReceiveInv, Ended
  <2>2. Ahead' = Ahead
    BY <1>1, <1>3 DEF Ahead
  <2> QED
    BY <1>1, <1>3, <2>1, <2>2 DEF InFrames
<1>5. ReceiveInv'
  <2>1. [Next]_vars
    BY DEF Next
  <2> QED
    BY <1>4, <2>1, PeerFrames DEF ReceiveInv
<1>6. UNCHANGED <<Waiting, ~up, in.broken>>
  BY <1>1, SamePipe DEF Finished
<1>7. Contract!Miss
  BY <1>1, <1>2, <1>6, ContractUnfolds DEF Waiting
<1> QED
  BY <1>5, <1>7, ContractUnfolds DEF Simulates

\* What was read of a message, too little, is no message.
LEMMA PartIsNoMessage ==
    ASSUME Types, InFrames, call.at = "body", Len(call.bytes) < call.wants
    PROVE  Parsed(call.bytes) = 0
<1>1. call.bytes \in Seq(Octets) /\ Len(call.bytes) \in Nat
  BY LenProperties DEF Types
<1>2. CASE call.bytes = <<>>
  BY <1>2 DEF Parsed
<1>3. CASE call.bytes # <<>>
  <2> DEFINE c == call.bytes
             w == Ahead[1].n
             m == Len(got) + 1
  <2>1. Len(Ahead) > 0 /\ call.wants = w
    BY DEF InFrames
  <2>2. /\ w \in Lengths /\ w \in Nat /\ w > 0 /\ m \in 1..in.frame
        /\ HeaderSize + w - (HeaderSize + 1) + 1 \in Nat
        /\ 1 \in 1..(HeaderSize + w - (HeaderSize + 1) + 1)
        /\ \A j \in 1..(HeaderSize + w - (HeaderSize + 1) + 1) :
              Ahead[j] = Byte(m, (HeaderSize + 1) + j - 1, w)
    <3>1. /\ w \in Lengths /\ w \in Nat /\ w > 0 /\ m \in 1..in.frame
          /\ \A j \in 1..(HeaderSize + w - (HeaderSize + 1) + 1) :
                Ahead[j] = Byte(m, (HeaderSize + 1) + j - 1, w)
      BY <2>1, NextFrame
    <3>2. HeaderSize + w - (HeaderSize + 1) + 1 = w
      BY <3>1, SizesAssumption
    <3> QED
      BY <3>1, <3>2
  <2>3. Ahead[1] = Byte(m, (HeaderSize + 1) + 1 - 1, w)
    BY <2>2
  <2>4. c[1] = Ahead[1]
    <3>1. 1 \in 1..Len(call.bytes)
      BY <1>1, <1>3, EmptySeq
    <3> QED
      BY <3>1, AheadParts
  <2>5. in.frame \in Nat
    BY DEF Types
  <2> HIDE DEF c, w, m
  <2>6. c[1].of = m /\ c[1].n = w
    BY <2>3, <2>4 DEF Byte
  <2>7. Len(Message(m, w)) = w
    BY <2>2, <2>5, FrameBytes
  <2>8. Len(c) < w
    BY <2>1 DEF c
  <2>9. c # Message(m, w)
    BY <2>2, <2>7, <2>8
  <2> QED
    BY <2>6, <2>9 DEF Parsed, c
<1> QED
  BY <1>2, <1>3

\* A read ends without a byte.
LEMMA StopMisses ==
    ASSUME Types, ReceiveInv, ~in.broken, ReadStops
    PROVE  Simulates
<1>1. /\ Receiving /\ Len(call.bytes) # call.wants /\ in.bytes = <<>> /\ UNCHANGED up
      /\ in' = [in EXCEPT !.broken =
                   @ \/ (up /\ (call.at = "body" \/ call.bytes # <<>>))]
  BY DEF ReadStops, Enough
<1>2. Len(call.bytes) < call.wants
  <2>1. Len(call.bytes) \in Nat /\ call.wants \in Nat /\ Len(call.bytes) <= call.wants
    BY <1>1, LenProperties DEF Types
  <2> QED
    BY <1>1, <2>1
<1>3. /\ Pipe = <<>>
      /\ call.bytes # <<>> \/ call.at = "body" =>
            InFrames /\ Len(in.rest) > 0 /\ Len(got) = in.frame - 1
  BY <1>1, <1>2, NothingWhole
<1>4. PICK result \in {"success", "invalidResponse"} :
         /\ result = "success" => call.at = "body"
         /\ Returns(result, 0)
  <2>1. CASE call.at = "body"
    <3>1. Parsed(call.bytes) = 0
      BY <1>2, <1>3, <2>1, PartIsNoMessage
    <3>2. MessageReceived
      BY <2>1 DEF ReadStops
    <3> QED
      BY <2>1, <3>1, <3>2 DEF MessageReceived
  <2>2. CASE call.at # "body"
    BY <2>2 DEF ReadStops
  <2> QED
    BY <2>1, <2>2
<1>5. /\ last' = [result |-> result, message |-> 0] /\ UNCHANGED got
      /\ call'.at = "idle" /\ call'.bytes = <<>>
  BY <1>4 DEF Returns, NoCall
<1>6. [Next]_vars
  BY DEF Next, Proceed
<1>7. CASE up /\ (call.at = "body" \/ call.bytes # <<>>)
  <2>1. in'.broken = TRUE
    BY <1>1, <1>7 DEF Types
  <2> QED
    BY <1>3, <1>6, <1>7, <2>1, BrokenSimulates
<1>8. CASE ~(up /\ (call.at = "body" \/ call.bytes # <<>>))
  <2>1. /\ in'.bytes = in.bytes /\ in'.rest = in.rest /\ in'.frame = in.frame
        /\ in'.broken = in.broken
    BY <1>1, <1>8 DEF Types
  <2>2. InFrames' \/ Ended'
    <3>1. CASE call.bytes # <<>> \/ call.at = "body"
      <4>1. ~up' /\ Len(in'.bytes) = 0 /\ Len(call'.bytes) = 0
        BY <1>1, <1>5, <1>8, <2>1, <3>1, EmptySeq
      <4> QED
        BY <1>3, <1>5, <2>1, <3>1, <4>1 DEF Ended
    <3>2. CASE call.bytes = <<>> /\ call.at # "body"
      <4>1. Ahead' = Ahead
        BY <1>5, <2>1, <3>2 DEF Ahead
      <4>2. InFrames => InFrames'
        BY <1>5, <2>1, <3>2, <4>1 DEF InFrames
      <4>3. Ended => Ended'
        BY <1>1, <1>5, <2>1, EmptySeq DEF Ended
      <4> QED
        BY <4>2, <4>3 DEF ReceiveInv
    <3> QED
      BY <3>1, <3>2
  <2>3. ReceiveInv'
    BY <1>6, <2>2, PeerFrames DEF ReceiveInv
  <2>4. UNCHANGED <<Waiting, ~up, in.broken>>
    BY <1>1, <1>5, <2>1, SamePipe DEF Finished
  <2>5. result \in {"error", "invalidResponse"} \union {r \in {"success"} : ~up}
    BY <1>4, <1>8
  <2>6. Contract!Miss
    BY <1>3, <1>5, <2>4, <2>5, ContractUnfolds DEF Waiting
  <2> QED
    BY <2>3, <2>6, ContractUnfolds DEF Simulates
<1> QED
  BY <1>7, <1>8

\* The peer's next frame.
LEMMA BeginStutters ==
    ASSUME Types, ReceiveInv, ~in.broken, PeerBegins
    PROVE  Simulates
<1>1. PICK n \in Lengths :
         in' = [in EXCEPT !.frame = @ + 1, !.rest = Frame(in.frame + 1, n)]
  BY DEF PeerBegins
<1>2. /\ up /\ in.rest = <<>> /\ UNCHANGED <<up, call, last, got>>
      /\ in'.frame = in.frame + 1 /\ in'.rest = Frame(in.frame + 1, n)
      /\ in'.bytes = in.bytes /\ in'.broken = in.broken
  BY <1>1 DEF PeerBegins, Types
<1>3. InFrames
  BY <1>2 DEF ReceiveInv, Ended
<1> DEFINE m == in.frame + 1
           f == Frame(m, n)
           a == call.bytes
           b == in.bytes
           S == Ahead
           T == (a \o b) \o f
           E == Numbers(in.frame)
           F == Numbers(m)
           d == Len(got)
           i == IF call.at = "body" THEN HeaderSize + 1 ELSE 1
<1>4. /\ m \in Nat /\ in.frame \in Nat /\ d \in Nat /\ i \in Nat \ {0} /\ m = in.frame + 1
      /\ a \in Seq(Octets) /\ b \in Seq(Octets)
  BY LenProperties, SizesAssumption DEF Types
<1>5. Stream(S, E, d, i) /\ T = Ahead'
  BY <1>2, <1>3 DEF InFrames, Ahead
<1>6. /\ f \in Seq(Octets) /\ Len(f) = HeaderSize + n
      /\ \A j \in 1..(HeaderSize + n) : f[j] = Byte(m, j, n)
  BY <1>4, FrameBytes
<1>7. S \in Seq(Octets) /\ S = a \o b
  <2>1. in.rest = <<>> /\ a \o b \in Seq(Octets)
    BY <1>2, <1>4, ConcatProperties
  <2>2. (a \o b) \o <<>> = a \o b
    BY <2>1, ConcatEmptySeq
  <2> QED
    BY <2>1, <2>2 DEF Ahead
<1> HIDE DEF m, f, a, b, S, T, E, F, d, i
<1>8. /\ T \in Seq(Octets) /\ Len(T) = Len(S) + Len(f)
      /\ \A j \in 1..(Len(S) + Len(f)) :
            T[j] = IF j <= Len(S) THEN S[j] ELSE f[j - Len(S)]
  <2>1. T = S \o f
    BY <1>7 DEF T
  <2>2. S \in Seq(Octets) /\ f \in Seq(Octets)
    BY <1>6, <1>7
  <2>3. /\ S \o f \in Seq(Octets) /\ Len(S \o f) = Len(S) + Len(f)
        /\ \A j \in 1..(Len(S) + Len(f)) :
              (S \o f)[j] = IF j <= Len(S) THEN S[j] ELSE f[j - Len(S)]
    BY <2>2, ConcatProperties
  <2> QED
    BY <2>1, <2>3, Zenon
<1>9. /\ Len(E) = in.frame /\ \A k \in 1..in.frame : E[k] = k
      /\ Len(F) = m /\ \A k \in 1..m : F[k] = k
      /\ Distinct(F)
  BY <1>4, NumbersProperties DEF E, F
<1>10. HeaderSize \in Nat /\ n \in Nat /\ Len(S) \in Nat /\ HeaderSize + n > 0
  BY <1>7, SizesAssumption, LenProperties
<1>11. /\ \A j \in 1..Len(S) : T[j] = S[j]
       /\ \A j \in 1..(HeaderSize + n) : T[Len(S) + j] = Byte(m, j, n)
  <2>1. ASSUME NEW j \in 1..Len(S) PROVE T[j] = S[j]
    BY <1>6, <1>8, <1>10
  <2>2. ASSUME NEW j \in 1..(HeaderSize + n) PROVE T[Len(S) + j] = Byte(m, j, n)
    <3>1. /\ Len(S) + j \in 1..(Len(S) + (HeaderSize + n)) /\ ~(Len(S) + j <= Len(S))
          /\ (Len(S) + j) - Len(S) = j
      BY <1>10
    <3> QED
      BY <1>6, <1>8, <3>1
  <2> QED
    BY <2>1, <2>2
<1>12. /\ Len(E) \in Nat /\ Len(F) = Len(E) + 1
       /\ \A k \in 1..Len(E) : F[k] = E[k]
       /\ F[Len(E) + 1] = m
       /\ Len(T) = Len(S) + (HeaderSize + n)
  BY <1>4, <1>6, <1>8, <1>9
<1>13. Stream(T, F, d, i)
  <2>a. OneMore(F, E, m) /\ FrameAfter(T, S, m, n)
    BY <1>11, <1>12 DEF OneMore, FrameAfter
  <2>1. /\ S \in Seq(Octets) /\ T \in Seq(Octets) /\ m \in Nat /\ n \in Lengths
        /\ d \in Nat /\ i \in Nat \ {0} /\ Stream(S, E, d, i) /\ Distinct(F)
    BY <1>1, <1>4, <1>5, <1>7, <1>8, <1>9
  <2> QED
    BY <2>a, <2>1, PutFrame
<1>14. InFrames'
  <2>1. Stream(Ahead', Numbers(in'.frame), Len(got'), IF call'.at = "body" THEN HeaderSize + 1 ELSE 1)
    BY <1>2, <1>5, <1>13 DEF F, d, i, m
  <2>2. ASSUME call'.at = "body" PROVE Len(Ahead') > 0 /\ call'.wants = Ahead'[1].n
    <3>1. Len(S) > 0 /\ call.wants = S[1].n
      BY <1>2, <1>3, <2>2 DEF InFrames, S
    <3>2. Len(T) > 0 /\ 1 \in 1..Len(S)
      BY <1>10, <1>12, <3>1
    <3> QED
      BY <1>2, <1>5, <1>11, <3>1, <3>2
  <2> QED
    BY <2>1, <2>2 DEF InFrames
<1>15. Finished' = Finished
  <2>1. in'.rest # <<>>
    BY <1>2, <1>6, <1>10, EmptySeq DEF f, m
  <2> QED
    BY <1>2, <1>4, <2>1 DEF Finished
<1> QED
  BY <1>2, <1>14, <1>15, Stutters DEF Next

\* The peer's last byte of a frame finishes it.
LEMMA WritePuts ==
    ASSUME Types, ReceiveInv, ~in.broken, PeerWrites
    PROVE  Simulates
<1>1. PICK k \in 1..Len(in.rest) :
         in' = [in EXCEPT !.bytes = @ \o First(in.rest, k), !.rest = From(@, k + 1)]
  BY DEF PeerWrites
<1>2. /\ up /\ UNCHANGED <<up, call, last, got>>
      /\ in'.bytes = in.bytes \o First(in.rest, k) /\ in'.rest = From(in.rest, k + 1)
      /\ in'.frame = in.frame /\ in'.broken = in.broken
  BY <1>1 DEF PeerWrites, Types
<1>3. InFrames
  BY <1>2 DEF ReceiveInv, Ended
<1>4. /\ call.bytes \in Seq(Octets) /\ in.bytes \in Seq(Octets) /\ in.rest \in Seq(Octets)
      /\ Len(in.rest) \in Nat /\ k \in 0..Len(in.rest) /\ k > 0
      /\ in.frame \in Nat /\ Len(got) \in Nat
  BY <1>1, LenProperties DEF Types
<1>5. Ahead' = Ahead
  <2>1. (call.bytes \o (in.bytes \o First(in.rest, k))) \o From(in.rest, k + 1)
           = (call.bytes \o in.bytes) \o in.rest
    BY ZenonT(60), <1>4, MovesOn
  <2> QED
    BY <1>2, <2>1, Zenon DEF Ahead
<1>6. InFrames'
  BY <1>2, <1>3, <1>5 DEF InFrames
<1>7. From(in.rest, k + 1) \in Seq(Octets) /\ Len(From(in.rest, k + 1)) = Len(in.rest) - k
  BY <1>4, FromOf
<1>8. in.rest # <<>> /\ [Next]_vars
  BY <1>4, EmptySeq DEF Next
<1>9. CASE in'.rest # <<>>
  <2>1. Finished' = Finished
    BY <1>2, <1>8, <1>9 DEF Finished
  <2> QED
    BY <1>2, <1>6, <1>8, <2>1, Stutters
<1>10. CASE in'.rest = <<>>
  <2>1. Finished = in.frame - 1 /\ Finished' = in.frame
    BY <1>2, <1>4, <1>8, <1>10 DEF Finished
  <2>2. Len(got) + 1 \in 1..in.frame
    <3>1. Len(Ahead) > 0
      <4>1. /\ Len(Ahead) = (Len(call.bytes) + Len(in.bytes)) + Len(in.rest)
            /\ Len(call.bytes) \in Nat /\ Len(in.bytes) \in Nat
        BY AheadParts
      <4>2. \A x, y, z \in Nat : z > 0 => (x + y) + z > 0
        OBVIOUS
      <4>3. Len(in.rest) > 0
        BY <1>4
      <4> QED
        BY <1>4, <4>1, <4>2, <4>3
    <3> QED
      BY <1>3, <3>1, NextFrame
  <2>3. in.frame - 1 \in Int /\ Len(got) <= in.frame - 1 /\ (in.frame - 1) + 1 = in.frame
    BY <1>4, <2>2
  <2>4. Append(Between(Len(got), in.frame - 1), in.frame) = Between(Len(got), in.frame)
    BY <1>4, <2>3, Counting
  <2>5. Pipe' = Between(Len(got), in.frame)
    BY <1>2, <2>1 DEF Pipe, Between, Finished
  <2>6. Pipe' = Append(Pipe, in.frame)
    BY <2>1, <2>4, <2>5, PipeIsBetween
  <2>7. Waiting' = Append(Waiting, in.frame)
    BY <1>2, <2>6 DEF Waiting
  <2>8. in.frame \in 1..MaxFrames
    BY <1>4, <2>2, BoundsAssumption DEF ReceiveInv
  <2>9. Contract!Put
    BY <1>2, <2>7, <2>8, ContractUnfolds
  <2>10. ReceiveInv'
    BY <1>6, <1>8, PeerFrames DEF ReceiveInv
  <2> QED
    BY <2>9, <2>10, ContractUnfolds DEF Simulates
<1> QED
  BY <1>9, <1>10

LEMMA HangUpEnds ==
    ASSUME Types, ReceiveInv, ~in.broken, HangUp
    PROVE  Simulates
<1>1. up /\ up' = FALSE /\ UNCHANGED <<in, call, last, got>> /\ [Next]_vars
  BY DEF HangUp, Next
<1>2. InFrames' \/ Ended'
  BY <1>1 DEF ReceiveInv, InFrames, Ended, Ahead
<1>3. ReceiveInv'
  BY <1>1, <1>2, PeerFrames DEF ReceiveInv
<1>4. Contract!End
  BY <1>1, SamePipe, ContractUnfolds DEF Finished
<1> QED
  BY <1>3, <1>4, ContractUnfolds DEF Simulates

LEMMA InitReceives == Init => ReceiveInv /\ Contract!Init
<1> SUFFICES ASSUME Init PROVE ReceiveInv /\ Contract!Init
  OBVIOUS
<1>1. /\ up = TRUE /\ in.bytes = <<>> /\ in.frame = 0 /\ in.rest = <<>> /\ in.broken = FALSE
      /\ call.bytes = <<>> /\ call.at = "idle" /\ got = <<>>
      /\ last = [result |-> "none", message |-> 0]
  BY DEF Init, NoCall
<1>2. <<>> \in Seq(Octets) /\ Len(<<>>) = 0
  BY EmptySeq
<1>3. Ahead = <<>>
  BY <1>1, <1>2, ConcatEmptySeq DEF Ahead
<1>4. Stream(<<>>, Numbers(0), 0, 1)
  <2>1. Len(Numbers(0)) = 0
    BY NumbersProperties
  <2>2. Flows(<<>>) /\ Ordered(<<>>, Numbers(0))
    <3>1. 1..0 = {} /\ 1..(0 - 1) = {}
      OBVIOUS
    <3> QED
      BY <1>2, <3>1 DEF Flows, Ordered
  <2> QED
    BY <1>2, <2>1, <2>2 DEF Stream
<1>5. InFrames
  BY <1>1, <1>2, <1>3, <1>4 DEF InFrames
<1>6. ReceiveInv
  BY <1>1, <1>2, <1>5, BoundsAssumption DEF ReceiveInv
<1>7. Waiting = <<>>
  <2>1. Len(got) = 0 /\ Finished = 0
    BY <1>1, <1>2 DEF Finished
  <2>2. Pipe = Between(0, 0)
    BY <2>1, PipeIsBetween
  <2>3. Between(0, 0) = <<>>
    BY Counting
  <2> QED
    BY <2>2, <2>3 DEF Waiting
<1> QED
  BY <1>1, <1>6, <1>7, ContractUnfolds

LEMMA StepsReceive ==
    ASSUME Types, ReceiveInv, [Next]_vars
    PROVE  Simulates
<1>1. CASE in.broken
  <2>1. in'.broken = TRUE
    <3>1. in'.broken
      BY <1>1, PeerFrames
    <3>2. Types'
      BY NextTypes
    <3> QED
      BY <3>1, <3>2 DEF Types
  <2> QED
    BY <1>1, <2>1, BrokenSimulates
<1>2. CASE ~in.broken
  BY <1>2, OthersStutter, ReadStutters, HeaderStutters, MessageGets, TimeoutMisses, StopMisses,
     BeginStutters, WritePuts, HangUpEnds DEF Next, Proceed
<1> QED
  BY <1>1, <1>2

-----------------------------------------------------------------------------
(* Theorems.                                                               *)

\* Every variable holds what its users expect: whole numbers, sequences of bytes,
\* and a call that has not read more than it wants.
THEOREM TypesHold == Spec => []Types
<1>1. Init => Types
  BY InitTypes
<1>2. Types /\ [Next]_vars => Types'
  BY NextTypes
<1> QED
  BY <1>1, <1>2, PTL DEF Spec

\* SDMMD_ServiceReceive, whatever the peer's writes and the reads are cut into, and
\* for headers and messages of any size, is the receive that the modules of the
\* protocols above take for granted: the peer's messages one at a time, in order and
\* whole, and none only if none is there, until it gives up inside a message.
THEOREM ReceivesLikeFrameContract == Spec => ReceivesAsPromised
<1>1. Init => ReceiveInv /\ Contract!Init
  BY InitReceives
<1>2. Types /\ ReceiveInv /\ [Next]_vars => ReceiveInv' /\ [Contract!Next]_(Contract!vars)
  BY StepsReceive DEF Simulates
<1>3. Spec => []Types
  BY TypesHold
<1> QED
  BY <1>1, <1>2, <1>3, PTL DEF Spec, ReceivesAsPromised, Contract!Spec

-----------------------------------------------------------------------------
(* How many frames end in a sequence of bytes.                             *)

LEMMA LastFinite ==
    ASSUME NEW S \in Seq(Octets)
    PROVE  IsFiniteSet(Last(S)) /\ Cardinality(Last(S)) \in Nat
<1>1. Len(S) \in Nat
  BY LenProperties
<1>2. IsFiniteSet(1..Len(S))
  BY <1>1, FS_Interval
<1>3. Last(S) \in SUBSET (1..Len(S))
  BY DEF Last
<1> QED
  BY <1>2, <1>3, FS_Subset, FS_CardinalityType

\* The first k bytes of S are those of a frame, the rest is T.
LEMMA LastDrop ==
    ASSUME NEW S \in Seq(Octets), NEW T \in Seq(Octets), NEW k \in 1..Len(S),
           Len(T) = Len(S) - k, \A j \in 1..Len(T) : T[j] = S[j + k],
           \A j \in 1..k : S[j].i = HeaderSize + S[j].n <=> j = k
    PROVE  Cardinality(Last(S)) = Cardinality(Last(T)) + 1
<1>1. Len(S) \in Nat /\ Len(T) \in Nat /\ k \in Nat /\ k > 0
  BY LenProperties
<1> DEFINE R == Last(S) \ {k}
           f == [j \in Last(T) |-> j + k]
<1>2. \A j \in Last(T) : j \in 1..Len(T) /\ T[j].i = HeaderSize + T[j].n
  BY DEF Last
<1>3. \A j \in R : j \in 1..Len(S) /\ S[j].i = HeaderSize + S[j].n /\ j > k
  <2> SUFFICES ASSUME NEW j \in R
               PROVE  j \in 1..Len(S) /\ S[j].i = HeaderSize + S[j].n /\ j > k
    OBVIOUS
  <2>1. j \in 1..Len(S) /\ S[j].i = HeaderSize + S[j].n /\ j # k
    BY DEF Last
  <2>2. j \notin 1..k
    BY <2>1
  <2> QED
    BY <1>1, <2>1, <2>2
<1>4. f \in [Last(T) -> R]
  <2> SUFFICES ASSUME NEW j \in Last(T) PROVE j + k \in R
    OBVIOUS
  <2>1. j \in 1..Len(T) /\ T[j].i = HeaderSize + T[j].n /\ T[j] = S[j + k]
    BY <1>2
  <2>2. j + k \in 1..Len(S) /\ j + k # k
    BY <1>1, <2>1
  <2> QED
    BY <2>1, <2>2 DEF Last
<1>5. \A a, b \in Last(T) : f[a] = f[b] => a = b
  BY <1>1, <1>2
<1>6. \A t \in R : \E s \in Last(T) : f[s] = t
  <2> SUFFICES ASSUME NEW t \in R PROVE \E s \in Last(T) : f[s] = t
    OBVIOUS
  <2>1. t \in 1..Len(S) /\ S[t].i = HeaderSize + S[t].n /\ t > k
    BY <1>3
  <2>2. t - k \in 1..Len(T) /\ (t - k) + k = t
    BY <1>1, <2>1
  <2>3. t - k \in Last(T)
    BY <2>1, <2>2 DEF Last
  <2> QED
    BY <2>2, <2>3
<1> HIDE DEF R, f
<1>7. ExistsBijection(Last(T), R)
  BY <1>4, <1>5, <1>6, Fun_IsBij, Fun_ExistsBij DEF Surjection
<1>8. Cardinality(R) = Cardinality(Last(T))
  BY <1>7, LastFinite, FS_Bijection
<1>9. k \in Last(S)
  BY <1>1 DEF Last
<1>10. Cardinality(R) = Cardinality(Last(S)) - 1
  BY <1>9, LastFinite, FS_RemoveElement DEF R
<1> QED
  BY <1>8, <1>10, LastFinite

\* What follows S in T ends no frame but at its last byte.
LEMMA LastPut ==
    ASSUME NEW S \in Seq(Octets), NEW T \in Seq(Octets), Len(S) <= Len(T),
           \A j \in 1..Len(S) : T[j] = S[j],
           \A j \in (Len(S) + 1)..Len(T) : T[j].i = HeaderSize + T[j].n => j = Len(T)
    PROVE  Cardinality(Last(T)) =
              IF Len(S) < Len(T) /\ T[Len(T)].i = HeaderSize + T[Len(T)].n
              THEN Cardinality(Last(S)) + 1 ELSE Cardinality(Last(S))
<1>1. Len(S) \in Nat /\ Len(T) \in Nat
  BY LenProperties
<1>2. \A j : j \in 1..Len(S) => j \in 1..Len(T) /\ j # Len(T) + 1 /\ T[j] = S[j]
  BY <1>1
<1>3. \A j : j \in 1..Len(T) => j \in 1..Len(S) \/ j \in (Len(S) + 1)..Len(T)
  BY <1>1
<1>4. CASE Len(S) < Len(T) /\ T[Len(T)].i = HeaderSize + T[Len(T)].n
  <2>1. Len(T) \in 1..Len(T) /\ Len(T) \notin 1..Len(S)
    BY <1>1, <1>4
  <2>2. Last(T) = Last(S) \union {Len(T)}
    <3>1. ASSUME NEW j \in Last(T) PROVE j \in Last(S) \union {Len(T)}
      <4>1. j \in 1..Len(T) /\ T[j].i = HeaderSize + T[j].n
        BY DEF Last
      <4>2. CASE j \in 1..Len(S)
        BY <1>2, <4>1, <4>2 DEF Last
      <4>3. CASE j \in (Len(S) + 1)..Len(T)
        BY <4>1, <4>3
      <4> QED
        BY <1>3, <4>1, <4>2, <4>3
    <3>2. ASSUME NEW j \in Last(S) PROVE j \in Last(T)
      BY <1>2 DEF Last
    <3>3. Len(T) \in Last(T)
      BY <1>4, <2>1 DEF Last
    <3> QED
      BY <3>1, <3>2, <3>3
  <2>3. Len(T) \notin Last(S)
    BY <2>1 DEF Last
  <2> QED
    BY <1>4, <2>2, <2>3, LastFinite, FS_AddElement
<1>5. CASE ~(Len(S) < Len(T) /\ T[Len(T)].i = HeaderSize + T[Len(T)].n)
  <2>1. Last(T) = Last(S)
    <3>1. ASSUME NEW j \in Last(T) PROVE j \in Last(S)
      <4>1. j \in 1..Len(T) /\ T[j].i = HeaderSize + T[j].n
        BY DEF Last
      <4>2. CASE j \in 1..Len(S)
        BY <1>2, <4>1, <4>2 DEF Last
      <4>3. CASE j \in (Len(S) + 1)..Len(T)
        <5>1. j = Len(T) /\ Len(S) < Len(T)
          BY <1>1, <4>1, <4>3
        <5> QED
          BY <1>5, <4>1, <5>1
      <4> QED
        BY <1>3, <4>1, <4>2, <4>3
    <3>2. ASSUME NEW j \in Last(S) PROVE j \in Last(T)
      BY <1>2 DEF Last
    <3> QED
      BY <3>1, <3>2
  <2> QED
    BY <1>5, <2>1
<1> QED
  BY <1>4, <1>5

\* An append, element by element.
LEMMA Appended ==
    ASSUME NEW E \in Seq(Nat), NEW m \in Nat
    PROVE  /\ Append(E, m) \in Seq(Nat) /\ Len(E) \in Nat
           /\ Len(Append(E, m)) = Len(E) + 1
           /\ \A k \in 1..Len(E) : Append(E, m)[k] = E[k]
           /\ Append(E, m)[Len(E) + 1] = m
           /\ OneMore(Append(E, m), E, m)
BY AppendProperties, LenProperties DEF OneMore

\* What is appended to different numbers is different from them.
LEMMA DistinctAppend ==
    ASSUME NEW E \in Seq(Nat), NEW m \in Nat
    PROVE  Distinct(Append(E, m)) <=> Distinct(E) /\ \A k \in 1..Len(E) : E[k] # m
<1> DEFINE F == Append(E, m)
<1>1. /\ Len(E) \in Nat /\ Len(F) = Len(E) + 1
      /\ \A k \in 1..Len(E) : F[k] = E[k]
      /\ F[Len(E) + 1] = m
  BY Appended
<1> HIDE DEF F
<1>2. ASSUME Distinct(F) PROVE Distinct(E) /\ \A k \in 1..Len(E) : E[k] # m
  <2>1. \A k \in 1..Len(E) : k \in 1..Len(F) /\ k # Len(E) + 1 /\ Len(E) + 1 \in 1..Len(F)
    BY <1>1
  <2>2. ASSUME NEW j \in 1..Len(E), NEW k \in 1..Len(E), E[j] = E[k] PROVE j = k
    <3>1. F[j] = F[k] /\ j \in 1..Len(F) /\ k \in 1..Len(F)
      BY <1>1, <2>1, <2>2
    <3> QED
      BY <1>2, <3>1 DEF Distinct
  <2>3. ASSUME NEW k \in 1..Len(E) PROVE E[k] # m
    BY <1>1, <1>2, <2>1 DEF Distinct
  <2> QED
    BY <2>2, <2>3 DEF Distinct
<1>3. ASSUME Distinct(E), \A k \in 1..Len(E) : E[k] # m PROVE Distinct(F)
  <2>1. \A k \in 1..Len(F) : k \in 1..Len(E) \/ k = Len(E) + 1
    BY <1>1
  <2> SUFFICES ASSUME NEW j \in 1..Len(F), NEW k \in 1..Len(F), F[j] = F[k] PROVE j = k
    BY DEF Distinct
  <2> QED
    BY <1>1, <1>3, <2>1 DEF Distinct
<1> QED
  BY <1>2, <1>3 DEF F

-----------------------------------------------------------------------------
(* Every step keeps SendInv.                                               *)

LEMMA Concatenated ==
    ASSUME NEW a \in Seq(Octets), NEW b \in Seq(Octets)
    PROVE  /\ a \o b \in Seq(Octets) /\ Len(a) \in Nat /\ Len(b) \in Nat
           /\ Len(a \o b) = Len(a) + Len(b)
           /\ \A j \in 1..Len(a) : (a \o b)[j] = a[j]
           /\ \A j \in 1..Len(b) : (a \o b)[Len(a) + j] = b[j]
           /\ \A j \in (Len(a) + 1)..Len(a \o b) :
                 j - Len(a) \in 1..Len(b) /\ (a \o b)[j] = b[j - Len(a)]
<1>1. /\ a \o b \in Seq(Octets) /\ Len(a) \in Nat /\ Len(b) \in Nat
      /\ Len(a \o b) = Len(a) + Len(b)
      /\ \A j \in 1..(Len(a) + Len(b)) :
            (a \o b)[j] = IF j <= Len(a) THEN a[j] ELSE b[j - Len(a)]
  BY ConcatProperties, LenProperties
<1>2. \A j \in 1..Len(a) : (a \o b)[j] = a[j]
  BY <1>1
<1>3. ASSUME NEW j \in 1..Len(b) PROVE (a \o b)[Len(a) + j] = b[j]
  <2>1. /\ Len(a) + j \in 1..(Len(a) + Len(b)) /\ ~(Len(a) + j <= Len(a))
        /\ (Len(a) + j) - Len(a) = j
    BY <1>1
  <2> QED
    BY <1>1, <2>1
<1>4. ASSUME NEW j \in (Len(a) + 1)..Len(a \o b)
      PROVE  j - Len(a) \in 1..Len(b) /\ (a \o b)[j] = b[j - Len(a)]
  <2>1. j \in 1..(Len(a) + Len(b)) /\ ~(j <= Len(a)) /\ j - Len(a) \in 1..Len(b)
    BY <1>1
  <2> QED
    BY <1>1, <2>1
<1> QED
  BY <1>1, <1>2, <1>3, <1>4

LEMMA OutTypes ==
    ASSUME Types
    PROVE  /\ out.bytes \in Seq(Octets) /\ Len(out.bytes) \in Nat
           /\ out.sent \in Seq(Nat) /\ Len(out.sent) \in Nat
           /\ out.taken \in Seq(Nat) /\ Len(out.taken) \in Nat
           /\ out.begun \in Nat
BY LenProperties DEF Types

\* Nothing is sent or taken.
LEMMA SameSends ==
    ASSUME SendInv, UNCHANGED <<up, out>>,
           \/ UNCHANGED call
           \/ call.at # "sendMessage" /\ call'.at \notin {"sendHeader", "sendMessage"}
    PROVE  SendInv'
<1>1. Claimed' = Claimed /\ Due' = Due
  BY DEF Claimed, Due
<1>2. NewFrame'
  BY DEF SendInv, NewFrame
<1> QED
  BY <1>1, <1>2 DEF SendInv

LEMMA SendBegins ==
    ASSUME Types, SendInv, Send
    PROVE  SendInv'
<1>1. PICK n \in Lengths : call' = [NoCall EXCEPT !.at = "sendHeader", !.wants = n]
  BY DEF Send
<1>2. /\ call.at = "idle" /\ call'.at = "sendHeader" /\ up' = up
      /\ out'.begun = out.begun + 1 /\ out'.bytes = out.bytes /\ out'.sent = out.sent
      /\ out'.taken = out.taken /\ out'.cut = out.cut
  BY <1>1 DEF Send, Idle, NoCall, Types
<1>3. Claimed' = Claimed /\ Due' = Due
  BY <1>2 DEF Claimed, Due
<1>4. ASSUME NEW j \in 1..Len(out.sent) PROVE out.sent[j] < out'.begun /\ out.sent[j] <= out'.begun
  <2>1. out.sent[j] \in Nat /\ out.sent[j] <= out.begun
    BY OutTypes, ElementOfSeq DEF SendInv
  <2> QED
    BY <1>2, <2>1, OutTypes
<1>5. NewFrame' /\ \A j \in 1..Len(out'.sent) : out'.sent[j] <= out'.begun
  BY <1>2, <1>4 DEF NewFrame
<1> QED
  BY <1>2, <1>3, <1>5 DEF SendInv

LEMMA HeaderInStep ==
    ASSUME Types, SendInv, SendHeader
    PROVE  SendInv'
<1> DEFINE m == out.begun
           n == call.wants
<1>1. call.at = "sendHeader" /\ up' = up /\ n \in Lengths
  BY DEF SendHeader, Types
<1>2. /\ out'.begun = m /\ out'.bytes = Written(Header(m, n)) /\ out'.sent = out.sent
      /\ out'.taken = out.taken /\ out'.cut = out.cut
  BY DEF SendHeader, SentHeader, Types
<1>3. call'.at = "sendMessage" /\ call'.wants = n
  BY DEF SendHeader, Types
<1>4. call.at # "sendMessage" /\ up' = up
  BY <1>1
<1>5. /\ m \in Nat /\ \A j \in 1..Len(out.sent) : out.sent[j] \in Nat /\ out.sent[j] < m
  <2>1. ASSUME NEW j \in 1..Len(out.sent) PROVE out.sent[j] \in Nat /\ out.sent[j] < m
    <3>1. out.sent[j] \in Nat /\ out.sent[j] < out.begun
      BY <1>1, OutTypes, ElementOfSeq DEF SendInv, NewFrame
    <3> QED
      BY <3>1
  <2> QED
    BY <2>1, OutTypes
<1>6. Claimed = out.sent /\ Claimed' = Append(out.sent, m) /\ Due = out.bytes
  BY <1>2, <1>3, <1>4 DEF Claimed, Due
<1> HIDE DEF m, n
<1>7. Distinct(Claimed')
  <2>1. Distinct(out.sent)
    BY <1>6 DEF SendInv
  <2> QED
    <3>1. \A j \in 1..Len(out.sent) : out.sent[j] # m
      BY <1>5
    <3> DEFINE E == out.sent
    <3>2. E \in Seq(Nat) /\ Distinct(E) /\ \A j \in 1..Len(E) : E[j] # m
      BY <2>1, <3>1, OutTypes
    <3> HIDE DEF E
    <3>3. Distinct(Append(E, m))
      BY <1>5, <3>2, DistinctAppend
    <3> QED
      BY <1>6, <3>3 DEF E
<1>8. \A j \in 1..Len(out'.sent) : out'.sent[j] <= out'.begun
  BY <1>2, <1>5
<1>9. ASSUME ~out'.cut, up'
      PROVE  /\ Stream(Due', Claimed', Len(out'.taken), 1)
             /\ Cardinality(Last(out'.bytes)) = Len(out'.sent) - Len(out'.taken)
  <2> DEFINE S == out.bytes
             h == Header(m, n)
             g == Message(m, n)
             f == Frame(m, n)
             T == S \o f
             E == out.sent
             F == Append(out.sent, m)
             d == Len(out.taken)
  <2>1. /\ Stream(S, E, d, 1)
        /\ Cardinality(Last(S)) = Len(out.sent) - Len(out.taken)
    BY <1>2, <1>4, <1>6, <1>9 DEF SendInv
  <2>2. /\ S \in Seq(Octets) /\ h \in Seq(Octets) /\ g \in Seq(Octets) /\ f \in Seq(Octets)
        /\ Len(h) = HeaderSize /\ Len(f) = HeaderSize + n
        /\ \A j \in 1..HeaderSize : h[j] = Byte(m, j, n)
        /\ \A j \in 1..(HeaderSize + n) : f[j] = Byte(m, j, n)
        /\ f = h \o g
    BY <1>1, <1>5, OutTypes, FrameBytes DEF Frame
  <2>3. out'.bytes = S \o h
    BY <1>2, <1>4, <1>9 DEF Written
  <2> HIDE DEF S, h, g, f
  <2>4. Due' = T
    <3>1. (S \o h) \o g = S \o (h \o g)
      BY SMTT(30), <2>2, Associate
    <3>2. Due' = (S \o h) \o g
      BY <1>2, <1>3, <2>3 DEF Due, g
    <3> QED
      BY <2>2, <3>1, <3>2
  <2>5. T \in Seq(Octets) /\ FrameAfter(T, S, m, n)
    <3>1. /\ S \o f \in Seq(Octets) /\ Len(S \o f) = Len(S) + Len(f)
          /\ \A j \in 1..Len(S) : (S \o f)[j] = S[j]
          /\ \A j \in 1..Len(f) : (S \o f)[Len(S) + j] = f[j]
      BY <2>2, Concatenated
    <3> QED
      BY <2>2, <3>1 DEF FrameAfter
  <2> HIDE DEF T
  <2>6. Stream(T, F, d, 1)
    <3>1. Distinct(F) /\ OneMore(F, E, m) /\ d \in Nat /\ 1 \in Nat \ {0}
      BY <1>5, <1>6, <1>7, OutTypes, Appended
    <3> HIDE DEF F, E, d
    <3> QED
      BY <1>1, <1>5, <2>1, <2>2, <2>5, <3>1, PutFrame
  <2>7. Cardinality(Last(S \o h)) = Cardinality(Last(S))
    <3> DEFINE U == S \o h
    <3>1. /\ U \in Seq(Octets) /\ Len(S) \in Nat /\ Len(U) = Len(S) + HeaderSize
          /\ \A j \in 1..Len(S) : U[j] = S[j]
          /\ \A j \in (Len(S) + 1)..Len(U) :
                j - Len(S) \in 1..HeaderSize /\ U[j] = h[j - Len(S)]
      BY ZenonT(60), <2>2, Concatenated
    <3>2. HeaderSize \in Nat /\ n \in Nat /\ n > 0
      BY <1>1, SizesAssumption
    <3> HIDE DEF U
    <3>3. ASSUME NEW j \in (Len(S) + 1)..Len(U) PROVE U[j].i # HeaderSize + U[j].n
      <4>1. j - Len(S) \in 1..HeaderSize /\ U[j] = Byte(m, j - Len(S), n)
        BY <2>2, <3>1
      <4>2. U[j].i = j - Len(S) /\ U[j].n = n
        BY <4>1 DEF Byte
      <4> QED
        BY <3>2, <4>1, <4>2
    <3>4. /\ Len(S) <= Len(U)
          /\ Len(S) < Len(U) => Len(U) \in (Len(S) + 1)..Len(U)
      BY <3>1, <3>2
    <3>5. Cardinality(Last(U)) = Cardinality(Last(S))
      BY <2>2, <3>1, <3>3, <3>4, LastPut
    <3> QED
      BY <3>5 DEF U
  <2> QED
    BY <1>2, <1>6, <2>1, <2>3, <2>4, <2>6, <2>7 DEF S
<1> QED
  BY <1>2, <1>3, <1>7, <1>8, <1>9 DEF SendInv, NewFrame

LEMMA HeaderFailsInStep ==
    ASSUME Types, SendInv, SendHeaderFails
    PROVE  SendInv'
<1> DEFINE h == SentHeader
<1>1. call.at = "sendHeader" /\ call' = NoCall /\ up' = up /\ call.wants \in Lengths
  BY DEF SendHeaderFails, Types
<1>2. PICK k \in Stops(h) :
         out' = [out EXCEPT !.bytes = Written(First(h, k)), !.cut = @ \/ k > 0]
  BY DEF SendHeaderFails
<1>3. /\ out'.begun = out.begun /\ out'.bytes = Written(First(h, k))
      /\ out'.sent = out.sent /\ out'.taken = out.taken /\ out'.cut = (out.cut \/ k > 0)
  BY <1>2 DEF Types
<1>4. call.at # "sendMessage" /\ call'.at = "idle" /\ up' = up
  BY <1>1 DEF NoCall
<1>5. Claimed' = Claimed /\ Claimed = out.sent
  BY <1>3, <1>4 DEF Claimed
<1>6. h \in Seq(Octets) /\ Len(h) \in Nat
  BY <1>1, OutTypes, FrameBytes, LenProperties DEF SentHeader
<1>7. k \in 0..(Len(h) - 1)
  BY DEF Stops
<1> HIDE DEF h
<1>8. ASSUME ~out'.cut PROVE Due' = Due /\ out'.bytes = out.bytes /\ ~out.cut
  <2>1. k = 0 /\ ~out.cut
    <3>1. ~out.cut /\ ~(k > 0)
      BY <1>3, <1>8
    <3> QED
      BY <1>6, <1>7, <3>1
  <2>2. First(h, 0) = <<>>
    <3>1. 0 \in 0..Len(h)
      BY <1>6
    <3>2. First(h, 0) \in Seq(Octets) /\ Len(First(h, 0)) = 0
      BY <1>6, <3>1, FirstOf
    <3> QED
      BY <3>2, EmptySeq
  <2>3. out.bytes \o <<>> = out.bytes
    BY OutTypes, ConcatEmptySeq
  <2>4. out'.bytes = out.bytes
    BY <1>3, <2>1, <2>2, <2>3 DEF Written
  <2> QED
    BY <1>4, <2>1, <2>4 DEF Due
<1>9. \A j \in 1..Len(out'.sent) : out'.sent[j] <= out'.begun
  BY <1>3 DEF SendInv
<1> QED
  BY <1>3, <1>4, <1>5, <1>8, <1>9 DEF SendInv, NewFrame

LEMMA MessageInStep ==
    ASSUME Types, SendInv, SendMessage
    PROVE  SendInv'
<1> DEFINE m == out.begun
           n == call.wants
           g == Message(m, n)
           S == out.bytes
           E == out.sent
<1>1. /\ call.at = "sendMessage" /\ call' = NoCall /\ up' = up /\ n \in Lengths
      /\ out' = [out EXCEPT !.bytes = Written(g), !.sent = Append(@, m)]
  BY DEF SendMessage, SentMessage, Types
<1>2. /\ out'.bytes = Written(g) /\ out'.sent = Append(E, m)
      /\ out'.begun = out.begun /\ out'.taken = out.taken /\ out'.cut = out.cut
  BY <1>1 DEF Types
<1>3. call'.at \notin {"sendHeader", "sendMessage"}
  BY <1>1 DEF NoCall
<1>4. Claimed = Append(E, m) /\ Claimed' = Claimed /\ Due = S \o g
  BY <1>1, <1>2, <1>3 DEF Claimed, Due
<1>5. /\ S \in Seq(Octets) /\ E \in Seq(Nat) /\ m \in Nat
      /\ Len(E) \in Nat /\ Len(Append(E, m)) = Len(E) + 1
      /\ \A k \in 1..Len(E) : Append(E, m)[k] = E[k]
      /\ Append(E, m)[Len(E) + 1] = m
      /\ Len(out.taken) \in Nat
  BY OutTypes, Appended
<1>6. /\ g \in Seq(Octets) /\ Len(g) = n
      /\ \A j \in 1..n : g[j] = Byte(m, HeaderSize + j, n)
      /\ HeaderSize \in Nat /\ n \in Nat /\ n > 0
  BY SMTT(30), <1>1, <1>5, FrameBytes, SizesAssumption
<1>7. \A j \in 1..Len(out'.sent) : out'.sent[j] <= out'.begun
  <2>1. \A j \in 1..Len(E) : E[j] <= m
    BY DEF SendInv
  <2>2. \A j \in 1..(Len(E) + 1) : j \in 1..Len(E) \/ j = Len(E) + 1
    BY <1>5
  <2>3. m <= m
    BY <1>5
  <2> QED
    BY <1>2, <1>5, <2>1, <2>2, <2>3
<1> HIDE DEF m, n, g, S, E
<1>8. ASSUME ~out'.cut
      PROVE  /\ Len(out'.taken) <= Len(out'.sent)
             /\ \A j \in 1..Len(out'.taken) : out'.taken[j] = out'.sent[j]
  <2>1. /\ Len(out.taken) <= Len(E)
        /\ \A j \in 1..Len(out.taken) : out.taken[j] = E[j]
    BY <1>2, <1>8 DEF SendInv, E
  <2>2. \A j \in 1..Len(out.taken) : j \in 1..Len(E)
    BY <1>5, <2>1
  <2> QED
    BY <1>2, <1>5, <2>1, <2>2
<1>9. ASSUME ~out'.cut, up'
      PROVE  /\ Stream(Due', Claimed', Len(out'.taken), 1)
             /\ Cardinality(Last(out'.bytes)) = Len(out'.sent) - Len(out'.taken)
  <2>1. /\ Stream(Due, Claimed, Len(out.taken), 1)
        /\ Cardinality(Last(S)) = Len(E) - Len(out.taken)
    BY <1>1, <1>2, <1>9 DEF SendInv, S, E
  <2> DEFINE T == S \o g
  <2>2. out'.bytes = T /\ Due' = T
    BY <1>1, <1>2, <1>3, <1>9 DEF Due, Written, S
  <2>3. /\ T \in Seq(Octets) /\ Len(S) \in Nat /\ Len(T) = Len(S) + n
        /\ \A j \in 1..Len(S) : T[j] = S[j]
        /\ \A j \in (Len(S) + 1)..Len(T) : j - Len(S) \in 1..n /\ T[j] = g[j - Len(S)]
    BY <1>5, <1>6, Concatenated
  <2> HIDE DEF T
  <2>4. ASSUME NEW j \in (Len(S) + 1)..Len(T)
        PROVE  T[j].i = HeaderSize + T[j].n <=> j = Len(T)
    <3>1. j - Len(S) \in 1..n /\ T[j] = Byte(m, HeaderSize + (j - Len(S)), n)
      BY <1>6, <2>3
    <3>2. T[j].i = HeaderSize + (j - Len(S)) /\ T[j].n = n
      BY <3>1 DEF Byte
    <3> QED
      <4>1. \A s, x \in Int : HeaderSize + (x - s) = HeaderSize + n <=> x = s + n
        BY <1>6
      <4>2. Len(S) \in Int /\ j \in Int
        BY <2>3
      <4> QED
        BY <2>3, <3>2, <4>1, <4>2
  <2>5. Len(S) <= Len(T) /\ Len(S) < Len(T) /\ Len(T) \in (Len(S) + 1)..Len(T)
    BY <1>6, <2>3
  <2>6. Cardinality(Last(T)) = Cardinality(Last(S)) + 1
    BY <1>5, <2>3, <2>4, <2>5, LastPut
  <2>7. Cardinality(Last(T)) = Len(out'.sent) - Len(out'.taken)
    BY <1>2, <1>5, <2>1, <2>6
  <2> QED
    BY <1>2, <1>4, <2>1, <2>2, <2>7 DEF T
<1> QED
  BY <1>3, <1>4, <1>7, <1>8, <1>9 DEF SendInv, NewFrame

LEMMA MessageFailsInStep ==
    ASSUME Types, SendInv, SendMessageFails
    PROVE  SendInv'
<1>1. PICK k \in Stops(Message(out.begun, call.wants)) :
         out' = [out EXCEPT !.bytes = Written(First(Message(out.begun, call.wants), k)),
                            !.cut = @ \/ up]
  BY DEF SendMessageFails, SentMessage
<1>2. /\ out'.begun = out.begun /\ out'.sent = out.sent /\ out'.taken = out.taken
      /\ out'.cut = (out.cut \/ up)
  BY <1>1 DEF Types
<1>3. call.at = "sendMessage" /\ call'.at = "idle" /\ up' = up
  BY DEF SendMessageFails, NoCall
<1>4. Claimed = Append(out.sent, out.begun) /\ Claimed' = out.sent
  BY <1>2, <1>3 DEF Claimed
<1>5. Distinct(Claimed')
  BY <1>4, OutTypes, DistinctAppend DEF SendInv
<1> QED
  BY <1>2, <1>3, <1>5 DEF SendInv, NewFrame, Types

LEMMA TakesInStep ==
    ASSUME Types, SendInv, PeerTakes
    PROVE  SendInv'
<1> DEFINE S == out.bytes
           D == Due
           C == Claimed
           d == Len(out.taken)
           h == First(S, HeaderSize)
<1>1. PICK n \in LengthsIn(h) :
         /\ Len(S) >= HeaderSize + n
         /\ out' = [out EXCEPT
              !.taken = Append(@, Parsed(SubSeq(S, HeaderSize + 1, HeaderSize + n))),
              !.bytes = From(@, HeaderSize + n + 1)]
  BY DEF PeerTakes
<1>2. /\ out'.begun = out.begun /\ out'.sent = out.sent /\ out'.cut = out.cut
      /\ out'.taken = Append(out.taken, Parsed(SubSeq(S, HeaderSize + 1, HeaderSize + n)))
      /\ out'.bytes = From(S, HeaderSize + n + 1)
  BY <1>1 DEF Types
<1>3. up /\ up' = up /\ UNCHANGED call /\ Len(S) >= HeaderSize
  BY DEF PeerTakes
<1>4. Claimed' = Claimed
  BY <1>2, <1>3 DEF Claimed
<1>5. Distinct(C) /\ NewFrame' /\ \A j \in 1..Len(out.sent) : out.sent[j] <= out.begun
  BY <1>2, <1>3 DEF SendInv, NewFrame
<1>6. CASE out.cut
  BY <1>2, <1>4, <1>5, <1>6 DEF SendInv
<1>7. CASE ~out.cut
  <2>1. /\ d <= Len(out.sent)
        /\ \A j \in 1..d : out.taken[j] = out.sent[j]
        /\ Stream(D, C, d, 1)
        /\ Cardinality(Last(S)) = Len(out.sent) - d
    BY <1>3, <1>7 DEF SendInv
  <2>2. /\ HeaderSize \in Nat /\ HeaderSize > 0 /\ S \in Seq(Octets) /\ Len(S) \in Nat
        /\ d \in Nat /\ out.sent \in Seq(Nat) /\ Len(out.sent) \in Nat
        /\ out.taken \in Seq(Nat)
    BY OutTypes, SizesAssumption
  <2> DEFINE g == IF call.at = "sendMessage" THEN Message(out.begun, call.wants) ELSE <<>>
  <2>3. g \in Seq(Octets) /\ D = S \o g
    <3>1. CASE call.at = "sendMessage"
      <4>1. call.wants \in Lengths /\ out.begun \in Nat
        BY <3>1 DEF Types
      <4> QED
        BY <3>1, <4>1, FrameBytes DEF Due
    <3>2. CASE call.at # "sendMessage"
      <4>1. <<>> \in Seq(Octets) /\ S \o <<>> = S
        BY <2>2, EmptySeq, ConcatEmptySeq
      <4> QED
        BY <3>2, <4>1 DEF Due
    <3> QED
      BY <3>1, <3>2
  <2>4. /\ C \in Seq(Nat) /\ Len(C) \in Nat
        /\ \A j \in 1..Len(out.sent) : C[j] = out.sent[j]
        /\ Len(C) = Len(out.sent) \/ (Len(C) = Len(out.sent) + 1 /\ C[Len(out.sent) + 1] = out.begun)
    <3>1. CASE call.at = "sendMessage"
      BY <3>1, OutTypes, Appended DEF Claimed
    <3>2. CASE call.at # "sendMessage"
      BY <3>2, OutTypes DEF Claimed
    <3> QED
      BY <3>1, <3>2
  <2> DEFINE w == D[1].n
             e == C[d + 1]
             k == HeaderSize + w
  <2> HIDE DEF S, D, C, d, g
  <2>5. /\ D \in Seq(Octets) /\ Len(D) = Len(S) + Len(g) /\ Len(g) \in Nat
        /\ \A j \in 1..Len(S) : D[j] = S[j]
        /\ \A j \in 1..Len(g) : D[Len(S) + j] = g[j]
    BY <2>2, <2>3, Concatenated
  <2>6. Len(D) > 0 /\ Len(D) \in Nat
    <3>1. \A x, y, z \in Nat : x > 0 /\ y >= x => y + z > 0 /\ y + z \in Nat
      OBVIOUS
    <3> QED
      BY <1>3, <2>2, <2>5, <3>1
  <2>7. /\ w \in Lengths /\ w \in Nat /\ w > 0 /\ k \in Nat
        /\ \A j \in 1..k : D[j] = Byte(e, j, w)
    <3>1. /\ w \in Lengths /\ w \in Nat /\ w > 0
          /\ \A j \in 1..(HeaderSize + w - 1 + 1) : D[j] = Byte(e, 1 + j - 1, w)
      <4>1. 1 \in Nat \ {0}
        OBVIOUS
      <4> QED
        BY <2>1, <2>5, <2>6, <4>1, Front
    <3>2. HeaderSize + w - 1 + 1 = k /\ k \in Nat /\ \A j \in 1..k : 1 + j - 1 = j
      BY <2>2, <3>1
    <3> QED
      BY <3>1, <3>2
  <2>8. d + 1 \in 1..Len(C) /\ e \in Nat
    <3>1. d < Len(C)
      BY <2>1, <2>6 DEF Stream
    <3>2. d + 1 \in 1..Len(C)
      BY <2>2, <2>4, <3>1
    <3> QED
      BY <2>4, <3>2, ElementOfSeq
  <2> HIDE DEF w, e
  <2>9. n = w
    <3>1. HeaderSize \in 0..Len(S) /\ HeaderSize \in 1..HeaderSize
      BY <1>3, <2>2
    <3>2. /\ h \in Seq(Octets) /\ Len(h) = HeaderSize
          /\ \A j \in 1..HeaderSize : h[j] = S[j]
      BY <2>2, <3>1, FirstOf
    <3>3. /\ Header(e, w) \in Seq(Octets) /\ Len(Header(e, w)) = HeaderSize
          /\ \A j \in 1..HeaderSize : Header(e, w)[j] = Byte(e, j, w)
      BY <2>7, <2>8, FrameBytes
    <3>4. \A j \in 1..HeaderSize : j \in 1..Len(S) /\ j \in 1..k
      BY <1>3, <2>2, <2>7
    <3> HIDE DEF h, k
    <3>5. \A j \in 1..HeaderSize : h[j] = Byte(e, j, w)
      BY <2>5, <2>7, <3>2, <3>4
    <3>6. h = Header(e, w)
      BY <3>2, <3>3, <3>5, SeqEqual
    <3>7. h[1] = Byte(e, 1, w)
      <4>1. 1 \in 1..HeaderSize
        BY <2>2
      <4> QED
        BY <3>5, <4>1
    <3>8. h[1].of = e /\ h[1].n = w
      BY <3>7 DEF Byte
    <3>9. LengthsIn(h) = {w}
      BY <3>6, <3>8 DEF LengthsIn
    <3> QED
      BY <1>1, <3>9
  <2>10. k \in 1..Len(S) /\ Len(S) >= k
    BY <1>1, <2>2, <2>7, <2>9
  <2>11. Parsed(SubSeq(S, HeaderSize + 1, HeaderSize + n)) = e
    <3> DEFINE p == SubSeq(S, HeaderSize + 1, HeaderSize + w)
    <3>1. /\ p \in Seq(Octets) /\ Len(p) = w
          /\ \A j \in 1..w : p[j] = S[HeaderSize + j]
      <4>1. \A j \in (HeaderSize + 1)..(HeaderSize + w) : S[j] \in Octets
        <5>1. \A j \in (HeaderSize + 1)..(HeaderSize + w) : j \in 1..Len(S)
          BY <2>2, <2>7, <2>10
        <5> QED
          BY <2>2, <5>1, ElementOfSeq
      <4>2. /\ p \in Seq(Octets)
            /\ Len(p) = IF HeaderSize + 1 <= HeaderSize + w
                        THEN (HeaderSize + w) - (HeaderSize + 1) + 1 ELSE 0
            /\ \A j \in 1..((HeaderSize + w) - (HeaderSize + 1) + 1) :
                  p[j] = S[(HeaderSize + 1) + j - 1]
        BY <2>2, <2>7, <4>1, SubSeqProperties
      <4>3. /\ HeaderSize + 1 <= HeaderSize + w
            /\ (HeaderSize + w) - (HeaderSize + 1) + 1 = w
            /\ \A j \in 1..w : (HeaderSize + 1) + j - 1 = HeaderSize + j
        BY <2>2, <2>7
      <4> QED
        BY <4>2, <4>3
    <3>2. /\ Message(e, w) \in Seq(Octets) /\ Len(Message(e, w)) = w
          /\ \A j \in 1..w : Message(e, w)[j] = Byte(e, HeaderSize + j, w)
      BY <2>7, <2>8, FrameBytes
    <3> HIDE DEF p
    <3>3. ASSUME NEW j \in 1..w PROVE p[j] = Byte(e, HeaderSize + j, w)
      <4>1. HeaderSize + j \in 1..k /\ HeaderSize + j \in 1..Len(S)
        BY <2>2, <2>7, <2>10
      <4> QED
        BY <2>5, <2>7, <3>1, <4>1
    <3>4. p = Message(e, w)
      BY <3>1, <3>2, <3>3, SeqEqual
    <3>5. 1 \in 1..w /\ p # <<>>
      BY <2>7, <3>1, EmptySeq
    <3>6. p[1].of = e /\ p[1].n = w
      <4>1. p[1] = Byte(e, HeaderSize + 1, w)
        BY <3>3, <3>5
      <4> QED
        BY <4>1 DEF Byte
    <3>7. Parsed(p) = e
      BY <3>4, <3>5, <3>6 DEF Parsed
    <3> QED
      BY <2>9, <3>7 DEF p
  <2>12. /\ From(S, k + 1) \in Seq(Octets) /\ Len(From(S, k + 1)) = Len(S) - k
         /\ \A j \in 1..(Len(S) - k) : From(S, k + 1)[j] = S[j + k]
    <3>1. k \in 0..Len(S)
      BY <2>7, <2>10
    <3> QED
      BY <2>2, <3>1, FromOf
  <2> DEFINE R == From(S, k + 1)
             T == R \o g
  <2>13. out'.bytes = R /\ out'.taken = Append(out.taken, e)
    <3>1. out'.bytes = From(S, HeaderSize + n + 1)
      BY <1>2
    <3>2. out'.taken = Append(out.taken, e)
      BY <1>2, <2>11, Zenon
    <3>3. R = From(S, HeaderSize + n + 1)
      BY <2>9
    <3> QED
      BY <3>1, <3>2, <3>3
  <2>14. Due' = T
    <3>1. R \o <<>> = R
      BY <2>12, ConcatEmptySeq
    <3>2. out'.bytes = R /\ out'.begun = out.begun /\ call' = call
      BY <1>2, <1>3, <2>13
    <3> HIDE DEF R
    <3>3. CASE call.at = "sendMessage"
      BY <3>2, <3>3 DEF Due, g
    <3>4. CASE call.at # "sendMessage"
      BY <3>1, <3>2, <3>4 DEF Due, g
    <3> QED
      BY <3>3, <3>4
  <2>15. Cardinality(Last(S)) = Cardinality(Last(R)) + 1
    <3>1. ASSUME NEW j \in 1..k PROVE S[j].i = HeaderSize + S[j].n <=> j = k
      <4>1. j \in 1..Len(S)
        BY <2>2, <2>10
      <4>2. S[j] = Byte(e, j, w)
        BY <2>5, <2>7, <4>1
      <4> QED
        BY <4>2 DEF Byte
    <3> HIDE DEF R, k
    <3> QED
      BY ZenonT(60), <2>2, <2>10, <2>12, <3>1, LastDrop DEF R
  <2>16. d + 1 <= Len(out.sent) /\ e = out.sent[d + 1]
    <3>1. Cardinality(Last(R)) \in Nat
      BY <2>12, LastFinite
    <3>2. d + 1 <= Len(out.sent)
      BY <2>1, <2>2, <2>15, <3>1
    <3> QED
      BY <2>2, <2>4, <3>2 DEF e
  <2>17. Stream(T, C, d + 1, 1)
    <3>1. /\ T \in Seq(Octets) /\ Len(T) = Len(R) + Len(g)
          /\ \A j \in 1..Len(R) : T[j] = R[j]
          /\ \A j \in (Len(R) + 1)..Len(T) : j - Len(R) \in 1..Len(g) /\ T[j] = g[j - Len(R)]
      BY <2>3, <2>12, Concatenated
    <3> HIDE DEF T, R, k
    <3>2. Len(R) = Len(S) - k /\ Len(R) \in Nat /\ k \in Nat
      BY <2>2, <2>7, <2>10, <2>12 DEF R
    <3>3. Len(T) = Len(D) - k
      BY <2>2, <2>5, <3>1, <3>2
    <3>4. ASSUME NEW j \in 1..Len(T) PROVE T[j] = D[j + k]
      <4>1. CASE j <= Len(R)
        <5>1. j \in 1..Len(R) /\ j \in 1..(Len(S) - k) /\ j + k \in 1..Len(S)
          BY <2>2, <3>2, <4>1
        <5> QED
          BY <2>5, <2>12, <3>1, <5>1 DEF R
      <4>2. CASE j > Len(R)
        <5>1. j \in (Len(R) + 1)..Len(T)
          BY <2>5, <3>1, <3>2, <4>2
        <5>2. j - Len(R) \in 1..Len(g) /\ T[j] = g[j - Len(R)]
          BY <3>1, <5>1
        <5>3. D[Len(S) + (j - Len(R))] = g[j - Len(R)]
          BY <2>5, <5>2
        <5>4. Len(S) + (j - Len(R)) = j + k
          BY <2>2, <3>2
        <5> QED
          BY <5>2, <5>3, <5>4
      <4> QED
        BY <3>2, <4>1, <4>2
    <3>5. k = HeaderSize + D[1].n - 1 + 1 /\ 1 \in Nat \ {0}
      BY <2>2, <2>7 DEF k, w
    <3> QED
      BY <1>5, <2>1, <2>2, <2>4, <2>5, <2>6, <3>1, <3>3, <3>4, <3>5, DropFrame
  <2>18. /\ Len(out'.taken) = d + 1
         /\ \A j \in 1..(d + 1) : out'.taken[j] = out.sent[j]
    <3>1. /\ Len(Append(out.taken, e)) = d + 1
          /\ \A j \in 1..d : Append(out.taken, e)[j] = out.taken[j]
          /\ Append(out.taken, e)[d + 1] = e
      BY <2>2, <2>8, Appended DEF d
    <3>2. \A j \in 1..(d + 1) : j \in 1..d \/ j = d + 1
      BY <2>2
    <3> QED
      BY <2>1, <2>13, <2>16, <3>1, <3>2
  <2>19. Cardinality(Last(R)) = Len(out.sent) - (d + 1)
    <3>1. Cardinality(Last(R)) \in Nat
      BY <2>12, LastFinite
    <3> QED
      BY <2>1, <2>2, <2>15, <3>1
  <2>20. Stream(Due', Claimed', Len(out'.taken), 1)
    BY <1>4, <2>14, <2>17, <2>18 DEF C
  <2> QED
    BY <1>2, <1>4, <1>5, <2>13, <2>16, <2>18, <2>19, <2>20 DEF SendInv, C
<1> QED
  BY <1>6, <1>7

LEMMA InitSends == Init => SendInv
<1> SUFFICES ASSUME Init PROVE SendInv
  OBVIOUS
<1>1. /\ out.bytes = <<>> /\ out.sent = <<>> /\ out.taken = <<>> /\ out.begun = 0
      /\ call.at = "idle"
  BY DEF Init, NoCall
<1>2. Len(<<>>) = 0 /\ 1..0 = {} /\ 1..(0 - 1) = {}
  OBVIOUS
<1>3. Claimed = <<>> /\ Due = <<>>
  BY <1>1 DEF Claimed, Due
<1>4. Stream(<<>>, <<>>, 0, 1)
  BY <1>2 DEF Stream, Flows, Ordered
<1>5. Last(<<>>) = {}
  BY <1>2 DEF Last
<1>6. Cardinality(Last(<<>>)) = 0
  BY <1>5, FS_EmptySet
<1> QED
  BY <1>1, <1>2, <1>3, <1>4, <1>6 DEF SendInv, NewFrame, Distinct

LEMMA StepsSend ==
    ASSUME Types, SendInv, [Next]_vars
    PROVE  SendInv'
<1>1. CASE HangUp
  <2>1. /\ up' = FALSE /\ UNCHANGED call /\ out'.sent = out.sent /\ out'.taken = out.taken
        /\ out'.begun = out.begun /\ out'.cut = out.cut
    BY <1>1 DEF HangUp, Types
  <2>2. Claimed' = Claimed
    BY <2>1 DEF Claimed
  <2> QED
    BY <2>1, <2>2 DEF SendInv, NewFrame
<1>2. CASE \/ Receive \/ ReceiveTimesOut \/ Read \/ HeaderRead \/ MessageRead \/ ReadStops
           \/ PeerBegins \/ PeerWrites \/ UNCHANGED vars
  <2>1. UNCHANGED <<up, out>>
    BY <1>2 DEF Receive, ReceiveTimesOut, Read, HeaderRead, MessageRead, ReadStops,
       PeerBegins, PeerWrites, vars
  <2>2. \/ UNCHANGED call
        \/ call.at # "sendMessage" /\ call'.at \notin {"sendHeader", "sendMessage"}
    <3>1. CASE Receive
      BY <3>1 DEF Receive, Idle
    <3>2. CASE ReceiveTimesOut \/ MessageRead \/ ReadStops
      <4>1. call' = NoCall /\ call.at # "sendMessage"
        BY <3>2 DEF ReceiveTimesOut, MessageRead, ReadStops, MessageReceived, Returns, Idle,
           Receiving
      <4> QED
        BY <4>1 DEF NoCall
    <3>3. CASE Read
      <4>1. PICK k \in 1..Smaller(call.wants - Len(call.bytes), Len(in.bytes)) :
               call' = [call EXCEPT !.bytes = @ \o First(in.bytes, k)]
        BY <3>3 DEF Read
      <4> QED
        BY <3>3, <4>1 DEF Read, Receiving, Types
    <3>4. CASE HeaderRead
      <4>1. PICK n \in LengthsIn(call.bytes) :
               call' = [call EXCEPT !.at = "body", !.bytes = <<>>, !.wants = n]
        BY <3>4 DEF HeaderRead
      <4>2. call'.at = "body" /\ call.at = "header"
        BY <3>4, <4>1 DEF HeaderRead, Types
      <4> QED
        BY <4>2
    <3>5. CASE PeerBegins \/ PeerWrites \/ UNCHANGED vars
      BY <3>5 DEF PeerBegins, PeerWrites, vars
    <3> QED
      BY <1>2, <3>1, <3>2, <3>3, <3>4, <3>5
  <2> QED
    BY <2>1, <2>2, SameSends
<1> QED
  BY <1>1, <1>2, SendBegins, HeaderInStep, HeaderFailsInStep, MessageInStep, MessageFailsInStep, TakesInStep
     DEF Next, Proceed

\* Until a send stops inside a frame, the peer takes the messages whose send
\* succeeded, in order and whole, and none is lost while it is there: over any
\* number of sends that fail before their first byte, and whatever is in flight.
THEOREM SendsAreInStep == Spec => []SendsInStep
<1>1. Types /\ SendInv => SendsInStep
  <2> SUFFICES ASSUME Types, SendInv, ~out.cut
               PROVE  /\ Len(out.taken) <= Len(out.sent)
                      /\ out.taken = First(out.sent, Len(out.taken))
                      /\ up => Len(out.sent) - Len(out.taken) = Cardinality(Last(out.bytes))
    BY DEF SendsInStep, Last
  <2>1. /\ Len(out.taken) <= Len(out.sent)
        /\ \A j \in 1..Len(out.taken) : out.taken[j] = out.sent[j]
        /\ up => Cardinality(Last(out.bytes)) = Len(out.sent) - Len(out.taken)
    BY DEF SendInv
  <2> DEFINE t == out.taken s == out.sent
  <2>2. t \in Seq(Nat) /\ s \in Seq(Nat) /\ Len(t) \in 0..Len(s)
    BY <2>1, OutTypes
  <2>3. \A j \in 1..Len(t) : t[j] = s[j]
    BY <2>1
  <2> HIDE DEF t, s
  <2>4. /\ First(s, Len(t)) \in Seq(Nat) /\ Len(First(s, Len(t))) = Len(t)
        /\ \A j \in 1..Len(t) : First(s, Len(t))[j] = s[j]
    BY <2>2, FirstOf
  <2>5. t = First(s, Len(t))
    BY <2>2, <2>3, <2>4, SeqEqual
  <2> QED
    BY <2>1, <2>5 DEF t, s
<1>2. Init => SendInv
  BY InitSends
<1>3. Types /\ SendInv /\ [Next]_vars => SendInv'
  BY StepsSend
<1>4. Spec => []Types
  BY TypesHold
<1> QED
  BY <1>1, <1>2, <1>3, <1>4, PTL DEF Spec
=============================================================================
