-------------------------- MODULE ApplicationsProofs --------------------------
(***************************************************************************)
(* Proofs about Applications, for any numbers of descriptors, commands and *)
(* progress messages.                                                      *)
(***************************************************************************)
EXTENDS Applications, SequenceTheorems, TLAPS

-----------------------------------------------------------------------------
(* The inductive invariant.                                                *)

Calls == [op : DOMAIN Steps \union {"none"}, todo : Seq(StepNames),
          result : {"none", "success"} \union StepNames, afc : Connections, service : Connections,
          sock : Files \union {None}, own : BOOLEAN, n : Nat,
          response : Replies \union {NoReply}, heard : Seq(1..MaxProgress)]
Descriptors == [to : Services \union {"lockdown", "nothing"}, up : BOOLEAN, shut : {"no", "owner", "stale"},
                todo : Seq(Commands), told : 0..MaxProgress, in : Seq(Replies)]

Numbered(reply) == reply.kind = "progress" => reply.k >= 1

Types ==
    /\ wifi \in BOOLEAN /\ attached \in BOOLEAN
    /\ lockdown \in [fd : Files \union {None}, session : BOOLEAN]
    /\ file \in [Files -> Descriptors]
    /\ held \in [Slots -> Connections]
    /\ call \in Calls /\ call.n <= commands
    /\ commands \in 0..MaxCommands
    /\ Numbered(call.response)
    /\ \A d \in Files : \A i \in 1..Len(file[d].in) : Numbered(file[d].in[i])

\* steps is the end of program.
EndOf(steps, program) ==
    /\ Len(steps) <= Len(program)
    /\ \A i \in 1..Len(steps) : steps[i] = program[Len(program) - Len(steps) + i]

\* What SecureStartSessionedService does, and what the others do, after a step
\* that failed
Undo == <<"stop", "disconnect", "hand_over">>
Amends(op) == IF op = "SecureStartSessionedService" THEN Undo ELSE <<"release_proxy">>

\* What a call has still to do is the end of its program, or of what it does
\* when one of its steps has failed.
Program ==
    /\ call.result = "none" => Idle
    /\ call.result = "success" => call.op # "none" /\ EndOf(call.todo, Steps[call.op])
    /\ call.result \in StepNames => call.op # "none" /\ EndOf(call.todo, Amends(call.op))

\* A connection with its socket
Standing(c) == file[c.fd].to = PortOf(c.service) /\ file[c.fd].shut # "owner"

\* Whose descriptor is whose
Sockets ==
    /\ lockdown.fd # None => file[lockdown.fd].to = "lockdown"
    /\ ~call.afc.stale /\ ~call.service.stale
    /\ \A p \in Places : Live(InUse(p)) =>
          /\ Standing(InUse(p)) /\ InUse(p).fd # lockdown.fd
          /\ \A q \in Places \ {p} : Live(InUse(q)) => InUse(q).fd # InUse(p).fd

\* The call talks to the installation proxy over a connection of its own.
Mine ==
    /\ call.service # NoConnection /\ call.service.service = "proxy"
    /\ call.sock = call.service.fd

\* What a proxy, whose end f is, has sent and will send of command n after its
\* k-th progress message
LineOf(f, n, k) ==
    /\ \A i \in 1..Len(f.in) :
          /\ f.in[i].n = n
          /\ f.in[i].kind = "progress" => f.in[i].k = k + i
          /\ f.in[i].kind # "progress" =>
                i = Len(f.in) /\ f.in[i].k = k + i - 1 /\ f.todo = <<>>
    /\ \/ f.todo = <<>>
       \/ Len(f.todo) = 1 /\ f.todo[1] = n /\ f.told = k + Len(f.in)

Line(k) == LineOf(file[call.sock], call.n, k)

Unheard == call.response = NoReply /\ call.heard = <<>>

Talking ==
    /\ \A step \in {"connect", "session", "afc", "proxy", "send", "first"} :
          At(step) => Unheard
    /\ At("keep") => call.service # NoConnection
    /\ At("first") \/ At("loop") => call.sock # None
    /\ call.own /\ At("send") =>
          Mine /\ file[call.sock].todo = <<>> /\ file[call.sock].in = <<>>
               /\ file[call.sock].told = 0
    /\ call.own /\ At("first") => Mine /\ Line(0)
    /\ call.own /\ At("loop") =>
          /\ Mine /\ call.response # NoReply /\ call.response.n = call.n
          /\ call.response.kind = "progress" =>
                /\ call.response.k \in {LastOf(call.heard), LastOf(call.heard) + 1}
                /\ Line(call.response.k)

\* What each step of the two calls leaves
Installing ==
    call.op = "InstallApp" /\ call.result = "success" =>
        /\ Len(call.todo) <= 4 /\ call.own =>
              call.response.kind = "complete" /\ call.response.n = call.n
        /\ Len(call.todo) <= 3 => call.service = NoConnection
        /\ Len(call.todo) <= 2 => call.afc = NoConnection
        /\ Len(call.todo) = 0 => lockdown = Unlocked

Handing ==
    call.op = "SecureStartSessionedService" =>
        /\ Len(call.todo) <= 1 /\ call.result # "connect" => lockdown = Unlocked
        /\ Len(call.todo) <= 3 /\ call.result = "success" <=> call.service # NoConnection

IInv ==
    /\ Types /\ Program /\ Sockets /\ Talking /\ Installing /\ Handing
    /\ CallbackMissesNothing

-----------------------------------------------------------------------------
(* Where a call is in its program.                                         *)

\* The first two steps of what is left of a program, and what is left after one.
LEMMA EndPlaces ==
    ASSUME NEW S, NEW t \in Seq(S), NEW P \in Seq(S), t # <<>>, EndOf(t, P)
    PROVE  /\ Len(t) >= 1 /\ Len(t) <= Len(P) /\ Len(t) \in Nat
           /\ Head(t) = P[Len(P) - Len(t) + 1]
           /\ Tail(t) \in Seq(S) /\ Len(Tail(t)) = Len(t) - 1 /\ EndOf(Tail(t), P)
           /\ Tail(t) # <<>> => /\ Len(t) >= 2
                               /\ Head(Tail(t)) = P[Len(P) - Len(t) + 2]
<1>1. /\ Len(t) \in Nat /\ Len(P) \in Nat /\ Len(t) >= 1 /\ Len(t) <= Len(P)
  BY EmptySeq DEF EndOf
<1>2. /\ Tail(t) \in Seq(S) /\ Len(Tail(t)) = Len(t) - 1
      /\ \A i \in 1..Len(Tail(t)) : Tail(t)[i] = t[i + 1]
  BY <1>1, HeadTailProperties
<1>3. Head(t) = P[Len(P) - Len(t) + 1]
  <2>1. 1 \in 1..Len(t)
    BY <1>1
  <2>2. Head(t) = t[1]
    BY HeadTailProperties
  <2> QED
    BY <2>1, <2>2 DEF EndOf
<1>4. EndOf(Tail(t), P)
  <2>1. ASSUME NEW i \in 1..Len(Tail(t))
        PROVE  Tail(t)[i] = P[Len(P) - Len(Tail(t)) + i]
    <3>1. i + 1 \in 1..Len(t) /\ Tail(t)[i] = t[i + 1]
      BY <1>1, <1>2
    <3>2. t[i + 1] = P[Len(P) - Len(t) + (i + 1)]
      BY <3>1 DEF EndOf
    <3>3. Len(P) - Len(t) + (i + 1) = Len(P) - Len(Tail(t)) + i
      BY <1>1, <1>2
    <3> QED
      BY <3>1, <3>2, <3>3
  <2> QED
    BY <1>1, <1>2, <2>1 DEF EndOf
<1>5. ASSUME Tail(t) # <<>>
      PROVE  Len(t) >= 2 /\ Head(Tail(t)) = P[Len(P) - Len(t) + 2]
  <2>1. Len(t) >= 2
    BY <1>1, <1>2, <1>5, EmptySeq
  <2>2. Head(Tail(t)) = Tail(t)[1]
    BY <1>2, <1>5, HeadTailProperties
  <2>3. 1 \in 1..Len(Tail(t)) /\ 2 \in 1..Len(t)
    BY <1>1, <1>2, <2>1
  <2> QED
    BY <1>2, <2>1, <2>2, <2>3 DEF EndOf
<1> QED
  BY <1>1, <1>2, <1>3, <1>4, <1>5

\* What comes before each step in every program
Follows(step, next) ==
    /\ step \notin {"keep", "hand_over"} /\ next # "connect"
    /\ next = "session" => step = "connect"
    /\ next \in {"afc", "service"} => step = "session"
    /\ next = "proxy" => step \in {"afc"}
    /\ next = "send" => step = "proxy"
    /\ next = "first" => step = "send"
    /\ next = "loop" => step = "first"
    /\ next = "keep" => step = "service"

\* The same by position in the program
LEMMA EndAt ==
    ASSUME NEW t \in Seq(StepNames), t # <<>>, NEW P \in Seq(StepNames), EndOf(t, P)
    PROVE  \E n \in Nat :
              /\ n >= 1 /\ n <= Len(P) /\ Len(t) = Len(P) + 1 - n
              /\ Head(t) = P[n]
              /\ Tail(t) # <<>> => n < Len(P) /\ Head(Tail(t)) = P[n + 1]
<1>1. /\ Len(t) >= 1 /\ Len(t) <= Len(P) /\ Len(t) \in Nat /\ Len(P) \in Nat
      /\ Head(t) = P[Len(P) - Len(t) + 1]
      /\ Tail(t) # <<>> => Len(t) >= 2 /\ Head(Tail(t)) = P[Len(P) - Len(t) + 2]
  BY EndPlaces
<1>2. PICK k \in Nat, m \in Nat : k = Len(t) /\ m = Len(P)
  BY <1>1
<1>3. k >= 1 /\ k <= m
  BY <1>1, <1>2, Zenon
<1>4. PICK n \in Nat : n = m - k + 1
  BY <1>3
<1>5. m - k + 2 = n + 1 /\ k = m + 1 - n /\ n >= 1 /\ n <= m /\ (k >= 2 => n < m)
  BY <1>3, <1>4
<1>6. Head(t) = P[n]
  BY <1>1, <1>2, <1>4, Zenon
<1>7. Tail(t) # <<>> => k >= 2 /\ Head(Tail(t)) = P[n + 1]
  BY <1>1, <1>2, <1>5, Zenon
<1> QED
  BY <1>2, <1>5, <1>6, <1>7, Zenon

\* What InstallApp is made of, step by step
LEMMA InstallAppSteps ==
    LET P == Steps["InstallApp"] IN
    /\ P \in Seq(StepNames) /\ Len(P) = 11
    /\ P[1] = "connect" /\ P[2] = "session" /\ P[3] = "afc" /\ P[4] = "proxy"
    /\ P[5] = "send" /\ P[6] = "first" /\ P[7] = "loop" /\ P[8] = "release_proxy"
    /\ P[9] = "release_afc" /\ P[10] = "stop" /\ P[11] = "disconnect"
  BY DEF Steps, StepNames

\* Where a call is in InstallApp, by the number of steps left
LEMMA InstallAppPlaces ==
    ASSUME NEW t \in Seq(StepNames), t # <<>>, EndOf(t, Steps["InstallApp"])
    PROVE  /\ Tail(t) # <<>> => Follows(Head(t), Head(Tail(t)))
           /\ Head(t) = "connect" <=> Len(t) = 11
           /\ Head(t) = "session" <=> Len(t) = 10
           /\ Head(t) = "afc" <=> Len(t) = 9
           /\ Head(t) = "proxy" <=> Len(t) = 8
           /\ Head(t) = "send" <=> Len(t) = 7
           /\ Head(t) = "first" <=> Len(t) = 6
           /\ Head(t) = "loop" <=> Len(t) = 5
           /\ Head(t) = "release_proxy" <=> Len(t) = 4
           /\ Head(t) = "release_afc" <=> Len(t) = 3
           /\ Head(t) = "stop" <=> Len(t) = 2
           /\ Head(t) = "disconnect" <=> Len(t) = 1
           /\ Head(t) \in {"connect", "session", "afc", "proxy", "send", "first",
                          "loop", "release_proxy", "release_afc", "stop", "disconnect"}
<1>1. PICK P \in Seq(StepNames) :
          /\ P = Steps["InstallApp"] /\ Len(P) = 11
          /\ P[1] = "connect" /\ P[2] = "session" /\ P[3] = "afc" /\ P[4] = "proxy"
          /\ P[5] = "send" /\ P[6] = "first" /\ P[7] = "loop" /\ P[8] = "release_proxy"
          /\ P[9] = "release_afc" /\ P[10] = "stop" /\ P[11] = "disconnect"
  BY InstallAppSteps
<1>2. EndOf(t, P)
  BY <1>1
<1>3. PICK n \in Nat :
          /\ n >= 1 /\ n <= 11 /\ Len(t) = 11 + 1 - n
          /\ Head(t) = P[n]
          /\ Tail(t) # <<>> => n < 11 /\ Head(Tail(t)) = P[n + 1]
  <2>1. PICK m \in Nat : m = Len(P) /\ m = 11
    BY <1>1
  <2>2. PICK n \in Nat :
            /\ n >= 1 /\ n <= m /\ Len(t) = m + 1 - n
            /\ Head(t) = P[n]
            /\ Tail(t) # <<>> => n < m /\ Head(Tail(t)) = P[n + 1]
    BY <1>2, <2>1, EndAt, Zenon
  <2> QED
    BY <2>1, <2>2
<1>4. /\ P[1] = "connect" /\ P[2] = "session" /\ P[3] = "afc" /\ P[4] = "proxy"
      /\ P[5] = "send" /\ P[6] = "first" /\ P[7] = "loop" /\ P[8] = "release_proxy"
      /\ P[9] = "release_afc" /\ P[10] = "stop" /\ P[11] = "disconnect"
  BY <1>1
<1>5. Tail(t) # <<>> => Follows(Head(t), Head(Tail(t)))
  <2> SUFFICES ASSUME Tail(t) # <<>>
               PROVE  Follows(Head(t), Head(Tail(t)))
    OBVIOUS
  <2>1. Tail(t) \in Seq(StepNames)
    BY <1>2, EndPlaces
  <2>2. PICK h \in StepNames : h = Head(t)
    BY HeadTailProperties
  <2>3. PICK e \in StepNames : e = Head(Tail(t))
    BY <2>1, HeadTailProperties
  <2>4. n >= 1 /\ n < 11 /\ h = P[n] /\ e = P[n + 1]
    BY <1>3, <2>2, <2>3
  <2>5. \/ h = "connect" /\ e = "session"
        \/ h = "session" /\ e = "afc"
        \/ h = "afc" /\ e = "proxy"
        \/ h = "proxy" /\ e = "send"
        \/ h = "send" /\ e = "first"
        \/ h = "first" /\ e = "loop"
        \/ h = "loop" /\ e = "release_proxy"
        \/ h = "release_proxy" /\ e = "release_afc"
        \/ h = "release_afc" /\ e = "stop"
        \/ h = "stop" /\ e = "disconnect"
    <3>1. n = 1 \/ n = 2 \/ n = 3 \/ n = 4 \/ n = 5 \/ n = 6
          \/ n = 7 \/ n = 8 \/ n = 9 \/ n = 10
      BY <2>4
    <3> QED
      BY SMTT(30), <1>4, <2>4, <3>1
  <2>6. Follows(h, e)
    BY <2>5 DEF Follows
  <2> QED
    BY <2>2, <2>3, <2>6, Zenon
<1>6. PICK h \in StepNames : h = Head(t)
  BY HeadTailProperties
<1>7. h = P[n] /\ n >= 1 /\ n <= 11
  BY <1>3, <1>6
<1>8. /\ h = "connect" <=> n = 1
      /\ h = "session" <=> n = 2
      /\ h = "afc" <=> n = 3
      /\ h = "proxy" <=> n = 4
      /\ h = "send" <=> n = 5
      /\ h = "first" <=> n = 6
      /\ h = "loop" <=> n = 7
      /\ h = "release_proxy" <=> n = 8
      /\ h = "release_afc" <=> n = 9
      /\ h = "stop" <=> n = 10
      /\ h = "disconnect" <=> n = 11
      /\ h \in {"connect", "session", "afc", "proxy", "send", "first",
               "loop", "release_proxy", "release_afc", "stop", "disconnect"}
  <2>1. \/ n = 1 /\ h = "connect"
        \/ n = 2 /\ h = "session"
        \/ n = 3 /\ h = "afc"
        \/ n = 4 /\ h = "proxy"
        \/ n = 5 /\ h = "send"
        \/ n = 6 /\ h = "first"
        \/ n = 7 /\ h = "loop"
        \/ n = 8 /\ h = "release_proxy"
        \/ n = 9 /\ h = "release_afc"
        \/ n = 10 /\ h = "stop"
        \/ n = 11 /\ h = "disconnect"
    BY <1>4, <1>7
  <2> QED
    BY <2>1
<1>9. /\ n = 1 <=> Len(t) = 11
      /\ n = 2 <=> Len(t) = 10
      /\ n = 3 <=> Len(t) = 9
      /\ n = 4 <=> Len(t) = 8
      /\ n = 5 <=> Len(t) = 7
      /\ n = 6 <=> Len(t) = 6
      /\ n = 7 <=> Len(t) = 5
      /\ n = 8 <=> Len(t) = 4
      /\ n = 9 <=> Len(t) = 3
      /\ n = 10 <=> Len(t) = 2
      /\ n = 11 <=> Len(t) = 1
  BY <1>3
<1> QED
  BY <1>5, <1>6, <1>8, <1>9, Zenon

\* What SecureStartSessionedService is made of, step by step
LEMMA SecureStartSessionedServiceSteps ==
    LET P == Steps["SecureStartSessionedService"] IN
    /\ P \in Seq(StepNames) /\ Len(P) = 6
    /\ P[1] = "connect" /\ P[2] = "session" /\ P[3] = "service" /\ P[4] = "stop"
    /\ P[5] = "disconnect" /\ P[6] = "hand_over"
  BY DEF Steps, StepNames

\* Where a call is in SecureStartSessionedService, by the number of steps left
LEMMA SecureStartSessionedServicePlaces ==
    ASSUME NEW t \in Seq(StepNames), t # <<>>, EndOf(t, Steps["SecureStartSessionedService"])
    PROVE  /\ Tail(t) # <<>> => Follows(Head(t), Head(Tail(t)))
           /\ Head(t) = "connect" <=> Len(t) = 6
           /\ Head(t) = "session" <=> Len(t) = 5
           /\ Head(t) = "service" <=> Len(t) = 4
           /\ Head(t) = "stop" <=> Len(t) = 3
           /\ Head(t) = "disconnect" <=> Len(t) = 2
           /\ Head(t) = "hand_over" <=> Len(t) = 1
           /\ Head(t) \in {"connect", "session", "service", "stop", "disconnect", "hand_over"}
<1>1. PICK P \in Seq(StepNames) :
          /\ P = Steps["SecureStartSessionedService"] /\ Len(P) = 6
          /\ P[1] = "connect" /\ P[2] = "session" /\ P[3] = "service" /\ P[4] = "stop"
          /\ P[5] = "disconnect" /\ P[6] = "hand_over"
  BY SecureStartSessionedServiceSteps
<1>2. EndOf(t, P)
  BY <1>1
<1>3. PICK n \in Nat :
          /\ n >= 1 /\ n <= 6 /\ Len(t) = 6 + 1 - n
          /\ Head(t) = P[n]
          /\ Tail(t) # <<>> => n < 6 /\ Head(Tail(t)) = P[n + 1]
  BY ZenonT(60), <1>1, <1>2, EndAt
<1>4. /\ P[1] = "connect" /\ P[2] = "session" /\ P[3] = "service" /\ P[4] = "stop"
      /\ P[5] = "disconnect" /\ P[6] = "hand_over"
  BY <1>1
<1>5. Tail(t) # <<>> => Follows(Head(t), Head(Tail(t)))
  <2> SUFFICES ASSUME Tail(t) # <<>>
               PROVE  Follows(Head(t), Head(Tail(t)))
    OBVIOUS
  <2>1. Tail(t) \in Seq(StepNames)
    BY <1>2, EndPlaces
  <2>2. PICK h \in StepNames : h = Head(t)
    BY HeadTailProperties
  <2>3. PICK e \in StepNames : e = Head(Tail(t))
    BY <2>1, HeadTailProperties
  <2>4. n >= 1 /\ n < 6 /\ h = P[n] /\ e = P[n + 1]
    BY <1>3, <2>2, <2>3
  <2>5. \/ h = "connect" /\ e = "session"
        \/ h = "session" /\ e = "service"
        \/ h = "service" /\ e = "stop"
        \/ h = "stop" /\ e = "disconnect"
        \/ h = "disconnect" /\ e = "hand_over"
    BY SMTT(30), <1>4, <2>4
  <2>6. Follows(h, e)
    BY <2>5 DEF Follows
  <2> QED
    BY <2>2, <2>3, <2>6, Zenon
<1>6. PICK h \in StepNames : h = Head(t)
  BY HeadTailProperties
<1>7. h = P[n] /\ n >= 1 /\ n <= 6
  BY <1>3, <1>6
<1>8. /\ h = "connect" <=> n = 1
      /\ h = "session" <=> n = 2
      /\ h = "service" <=> n = 3
      /\ h = "stop" <=> n = 4
      /\ h = "disconnect" <=> n = 5
      /\ h = "hand_over" <=> n = 6
      /\ h \in {"connect", "session", "service", "stop", "disconnect", "hand_over"}
  <2>1. \/ n = 1 /\ h = "connect"
        \/ n = 2 /\ h = "session"
        \/ n = 3 /\ h = "service"
        \/ n = 4 /\ h = "stop"
        \/ n = 5 /\ h = "disconnect"
        \/ n = 6 /\ h = "hand_over"
    BY <1>4, <1>7
  <2> QED
    BY <2>1
<1>9. /\ n = 1 <=> Len(t) = 6
      /\ n = 2 <=> Len(t) = 5
      /\ n = 3 <=> Len(t) = 4
      /\ n = 4 <=> Len(t) = 3
      /\ n = 5 <=> Len(t) = 2
      /\ n = 6 <=> Len(t) = 1
  BY <1>3
<1> QED
  BY <1>5, <1>6, <1>8, <1>9, Zenon

\* What CopyApplication is made of, step by step
LEMMA CopyApplicationSteps ==
    LET P == Steps["CopyApplication"] IN
    /\ P \in Seq(StepNames) /\ Len(P) = 7
    /\ P[1] = "connect" /\ P[2] = "session" /\ P[3] = "afc" /\ P[4] = "transfer"
    /\ P[5] = "release_afc" /\ P[6] = "stop" /\ P[7] = "disconnect"
  BY DEF Steps, StepNames

\* Where a call is in CopyApplication, by the number of steps left
LEMMA CopyApplicationPlaces ==
    ASSUME NEW t \in Seq(StepNames), t # <<>>, EndOf(t, Steps["CopyApplication"])
    PROVE  Tail(t) # <<>> => Follows(Head(t), Head(Tail(t)))
<1>1. PICK P \in Seq(StepNames) :
          /\ P = Steps["CopyApplication"] /\ Len(P) = 7
          /\ P[1] = "connect" /\ P[2] = "session" /\ P[3] = "afc" /\ P[4] = "transfer"
          /\ P[5] = "release_afc" /\ P[6] = "stop" /\ P[7] = "disconnect"
  BY CopyApplicationSteps
<1>2. EndOf(t, P)
  BY <1>1
<1>3. PICK n \in Nat :
          /\ n >= 1 /\ n <= 7 /\ Len(t) = 7 + 1 - n
          /\ Head(t) = P[n]
          /\ Tail(t) # <<>> => n < 7 /\ Head(Tail(t)) = P[n + 1]
  BY ZenonT(60), <1>1, <1>2, EndAt
<1>4. /\ P[1] = "connect" /\ P[2] = "session" /\ P[3] = "afc" /\ P[4] = "transfer"
      /\ P[5] = "release_afc" /\ P[6] = "stop" /\ P[7] = "disconnect"
  BY <1>1
<1>5. Tail(t) # <<>> => Follows(Head(t), Head(Tail(t)))
  <2> SUFFICES ASSUME Tail(t) # <<>>
               PROVE  Follows(Head(t), Head(Tail(t)))
    OBVIOUS
  <2>1. Tail(t) \in Seq(StepNames)
    BY <1>2, EndPlaces
  <2>2. PICK h \in StepNames : h = Head(t)
    BY HeadTailProperties
  <2>3. PICK e \in StepNames : e = Head(Tail(t))
    BY <2>1, HeadTailProperties
  <2>4. n >= 1 /\ n < 7 /\ h = P[n] /\ e = P[n + 1]
    BY <1>3, <2>2, <2>3
  <2>5. \/ h = "connect" /\ e = "session"
        \/ h = "session" /\ e = "afc"
        \/ h = "afc" /\ e = "transfer"
        \/ h = "transfer" /\ e = "release_afc"
        \/ h = "release_afc" /\ e = "stop"
        \/ h = "stop" /\ e = "disconnect"
    <3>1. n = 1 \/ n = 2 \/ n = 3 \/ n = 4 \/ n = 5 \/ n = 6
      BY <2>4
    <3> QED
      BY <1>4, <2>4, <3>1
  <2>6. Follows(h, e)
    BY <2>5 DEF Follows
  <2> QED
    BY <2>2, <2>3, <2>6, Zenon
<1> QED
  BY <1>5

\* What LookupApplications is made of, step by step
LEMMA LookupApplicationsSteps ==
    LET P == Steps["LookupApplications"] IN
    /\ P \in Seq(StepNames) /\ Len(P) = 4
    /\ P[1] = "proxy" /\ P[2] = "send" /\ P[3] = "first" /\ P[4] = "loop"
  BY DEF Steps, StepNames

\* Where a call is in LookupApplications, by the number of steps left
LEMMA LookupApplicationsPlaces ==
    ASSUME NEW t \in Seq(StepNames), t # <<>>, EndOf(t, Steps["LookupApplications"])
    PROVE  Tail(t) # <<>> => Follows(Head(t), Head(Tail(t)))
<1>1. PICK P \in Seq(StepNames) :
          /\ P = Steps["LookupApplications"] /\ Len(P) = 4
          /\ P[1] = "proxy" /\ P[2] = "send" /\ P[3] = "first" /\ P[4] = "loop"
  BY LookupApplicationsSteps
<1>2. EndOf(t, P)
  BY <1>1
<1>3. PICK n \in Nat :
          /\ n >= 1 /\ n <= 4 /\ Len(t) = 4 + 1 - n
          /\ Head(t) = P[n]
          /\ Tail(t) # <<>> => n < 4 /\ Head(Tail(t)) = P[n + 1]
  BY ZenonT(60), <1>1, <1>2, EndAt
<1>4. P[1] = "proxy" /\ P[2] = "send" /\ P[3] = "first" /\ P[4] = "loop"
  BY <1>1
<1>5. Tail(t) # <<>> => Follows(Head(t), Head(Tail(t)))
  <2> SUFFICES ASSUME Tail(t) # <<>>
               PROVE  Follows(Head(t), Head(Tail(t)))
    OBVIOUS
  <2>1. Tail(t) \in Seq(StepNames)
    BY <1>2, EndPlaces
  <2>2. PICK h \in StepNames : h = Head(t)
    BY HeadTailProperties
  <2>3. PICK e \in StepNames : e = Head(Tail(t))
    BY <2>1, HeadTailProperties
  <2>4. n >= 1 /\ n < 4 /\ h = P[n] /\ e = P[n + 1]
    BY <1>3, <2>2, <2>3
  <2>5. \/ h = "proxy" /\ e = "send"
        \/ h = "send" /\ e = "first"
        \/ h = "first" /\ e = "loop"
    BY <1>4, <2>4
  <2>6. Follows(h, e)
    BY <2>5 DEF Follows
  <2> QED
    BY <2>2, <2>3, <2>6, Zenon
<1> QED
  BY <1>5

\* What LookupAppInfo is made of, step by step
LEMMA LookupAppInfoSteps ==
    LET P == Steps["LookupAppInfo"] IN
    /\ P \in Seq(StepNames) /\ Len(P) = 5
    /\ P[1] = "proxy" /\ P[2] = "send" /\ P[3] = "first" /\ P[4] = "loop"
    /\ P[5] = "release_proxy"
  BY DEF Steps, StepNames

\* Where a call is in LookupAppInfo, by the number of steps left
LEMMA LookupAppInfoPlaces ==
    ASSUME NEW t \in Seq(StepNames), t # <<>>, EndOf(t, Steps["LookupAppInfo"])
    PROVE  Tail(t) # <<>> => Follows(Head(t), Head(Tail(t)))
<1>1. PICK P \in Seq(StepNames) :
          /\ P = Steps["LookupAppInfo"] /\ Len(P) = 5
          /\ P[1] = "proxy" /\ P[2] = "send" /\ P[3] = "first" /\ P[4] = "loop"
          /\ P[5] = "release_proxy"
  BY LookupAppInfoSteps
<1>2. EndOf(t, P)
  BY <1>1
<1>3. PICK n \in Nat :
          /\ n >= 1 /\ n <= 5 /\ Len(t) = 5 + 1 - n
          /\ Head(t) = P[n]
          /\ Tail(t) # <<>> => n < 5 /\ Head(Tail(t)) = P[n + 1]
  BY ZenonT(60), <1>1, <1>2, EndAt
<1>4. /\ P[1] = "proxy" /\ P[2] = "send" /\ P[3] = "first" /\ P[4] = "loop"
      /\ P[5] = "release_proxy"
  BY <1>1
<1>5. Tail(t) # <<>> => Follows(Head(t), Head(Tail(t)))
  <2> SUFFICES ASSUME Tail(t) # <<>>
               PROVE  Follows(Head(t), Head(Tail(t)))
    OBVIOUS
  <2>1. Tail(t) \in Seq(StepNames)
    BY <1>2, EndPlaces
  <2>2. PICK h \in StepNames : h = Head(t)
    BY HeadTailProperties
  <2>3. PICK e \in StepNames : e = Head(Tail(t))
    BY <2>1, HeadTailProperties
  <2>4. n >= 1 /\ n < 5 /\ h = P[n] /\ e = P[n + 1]
    BY <1>3, <2>2, <2>3
  <2>5. \/ h = "proxy" /\ e = "send"
        \/ h = "send" /\ e = "first"
        \/ h = "first" /\ e = "loop"
        \/ h = "loop" /\ e = "release_proxy"
    BY <1>4, <2>4
  <2>6. Follows(h, e)
    BY <2>5 DEF Follows
  <2> QED
    BY <2>2, <2>3, <2>6, Zenon
<1> QED
  BY <1>5

\* What StartService is made of, step by step
LEMMA StartServiceSteps ==
    LET P == Steps["StartService"] IN
    /\ P \in Seq(StepNames) /\ Len(P) = 2
    /\ P[1] = "service" /\ P[2] = "keep"
  BY DEF Steps, StepNames

\* Where a call is in StartService, by the number of steps left
LEMMA StartServicePlaces ==
    ASSUME NEW t \in Seq(StepNames), t # <<>>, EndOf(t, Steps["StartService"])
    PROVE  Tail(t) # <<>> => Follows(Head(t), Head(Tail(t)))
<1>1. PICK P \in Seq(StepNames) :
          /\ P = Steps["StartService"] /\ Len(P) = 2
          /\ P[1] = "service" /\ P[2] = "keep"
  BY StartServiceSteps
<1>2. EndOf(t, P)
  BY <1>1
<1>3. PICK n \in Nat :
          /\ n >= 1 /\ n <= 2 /\ Len(t) = 2 + 1 - n
          /\ Head(t) = P[n]
          /\ Tail(t) # <<>> => n < 2 /\ Head(Tail(t)) = P[n + 1]
  BY ZenonT(60), <1>1, <1>2, EndAt
<1>4. P[1] = "service" /\ P[2] = "keep"
  BY <1>1
<1>5. Tail(t) # <<>> => Follows(Head(t), Head(Tail(t)))
  <2> SUFFICES ASSUME Tail(t) # <<>>
               PROVE  Follows(Head(t), Head(Tail(t)))
    OBVIOUS
  <2>1. Tail(t) \in Seq(StepNames)
    BY <1>2, EndPlaces
  <2>2. PICK h \in StepNames : h = Head(t)
    BY HeadTailProperties
  <2>3. PICK e \in StepNames : e = Head(Tail(t))
    BY <2>1, HeadTailProperties
  <2>4. n >= 1 /\ n < 2 /\ h = P[n] /\ e = P[n + 1]
    BY <1>3, <2>2, <2>3
  <2>5. \/ h = "service" /\ e = "keep"
    BY <1>4, <2>4
  <2>6. Follows(h, e)
    BY <2>5 DEF Follows
  <2> QED
    BY <2>2, <2>3, <2>6, Zenon
<1> QED
  BY <1>5

\* What Undo is made of, step by step
LEMMA UndoSteps ==
    LET P == Undo IN
    /\ P \in Seq(StepNames) /\ Len(P) = 3
    /\ P[1] = "stop" /\ P[2] = "disconnect" /\ P[3] = "hand_over"
  BY DEF Undo, StepNames

\* Where a call is in Undo, by the number of steps left
LEMMA UndoPlaces ==
    ASSUME NEW t \in Seq(StepNames), t # <<>>, EndOf(t, Undo)
    PROVE  /\ Tail(t) # <<>> => Follows(Head(t), Head(Tail(t)))
           /\ Head(t) = "stop" <=> Len(t) = 3
           /\ Head(t) = "disconnect" <=> Len(t) = 2
           /\ Head(t) = "hand_over" <=> Len(t) = 1
           /\ Head(t) \in {"stop", "disconnect", "hand_over"}
<1>1. PICK P \in Seq(StepNames) :
          /\ P = Undo /\ Len(P) = 3
          /\ P[1] = "stop" /\ P[2] = "disconnect" /\ P[3] = "hand_over"
  BY UndoSteps
<1>2. EndOf(t, P)
  BY <1>1
<1>3. PICK n \in Nat :
          /\ n >= 1 /\ n <= 3 /\ Len(t) = 3 + 1 - n
          /\ Head(t) = P[n]
          /\ Tail(t) # <<>> => n < 3 /\ Head(Tail(t)) = P[n + 1]
  BY ZenonT(60), <1>1, <1>2, EndAt
<1>4. P[1] = "stop" /\ P[2] = "disconnect" /\ P[3] = "hand_over"
  BY <1>1
<1>5. Tail(t) # <<>> => Follows(Head(t), Head(Tail(t)))
  <2> SUFFICES ASSUME Tail(t) # <<>>
               PROVE  Follows(Head(t), Head(Tail(t)))
    OBVIOUS
  <2>1. Tail(t) \in Seq(StepNames)
    BY <1>2, EndPlaces
  <2>2. PICK h \in StepNames : h = Head(t)
    BY HeadTailProperties
  <2>3. PICK e \in StepNames : e = Head(Tail(t))
    BY <2>1, HeadTailProperties
  <2>4. n >= 1 /\ n < 3 /\ h = P[n] /\ e = P[n + 1]
    BY <1>3, <2>2, <2>3
  <2>5. \/ h = "stop" /\ e = "disconnect"
        \/ h = "disconnect" /\ e = "hand_over"
    BY <1>4, <2>4
  <2>6. Follows(h, e)
    BY <2>5 DEF Follows
  <2> QED
    BY <2>2, <2>3, <2>6, Zenon
<1>6. PICK h \in StepNames : h = Head(t)
  BY HeadTailProperties
<1>7. h = P[n] /\ n >= 1 /\ n <= 3
  BY <1>3, <1>6
<1>8. /\ h = "stop" <=> n = 1
      /\ h = "disconnect" <=> n = 2
      /\ h = "hand_over" <=> n = 3
      /\ h \in {"stop", "disconnect", "hand_over"}
  <2>1. \/ n = 1 /\ h = "stop"
        \/ n = 2 /\ h = "disconnect"
        \/ n = 3 /\ h = "hand_over"
    BY <1>4, <1>7
  <2> QED
    BY <2>1
<1>9. /\ n = 1 <=> Len(t) = 3
      /\ n = 2 <=> Len(t) = 2
      /\ n = 3 <=> Len(t) = 1
  BY <1>3
<1> QED
  BY <1>5, <1>6, <1>8, <1>9, Zenon

\* What is left when a step of the other calls has failed
LEMMA AmendPlaces ==
    ASSUME NEW t \in Seq(StepNames), t # <<>>, EndOf(t, <<"release_proxy">>)
    PROVE  Tail(t) = <<>> /\ Head(t) = "release_proxy"
<1>1. PICK P \in Seq(StepNames) : P = <<"release_proxy">> /\ Len(P) = 1 /\ P[1] = "release_proxy"
  <2>1. <<"release_proxy">> \in Seq(StepNames) /\ Len(<<"release_proxy">>) = 1
    BY DEF StepNames
  <2> QED
    BY <2>1
<1>2. PICK n \in Nat :
          /\ n >= 1 /\ n <= 1 /\ Len(t) = 1 + 1 - n
          /\ Head(t) = P[n]
          /\ Tail(t) # <<>> => n < 1 /\ Head(Tail(t)) = P[n + 1]
  BY <1>1, EndAt
<1>3. n = 1
  BY <1>2
<1> QED
  BY <1>1, <1>2, <1>3

\* The programs of one step
LEMMA SingleSteps ==
    \A op \in {"Connect", "StartSession", "StopSession", "Disconnect"} :
        Steps[op] \in Seq(StepNames) /\ Len(Steps[op]) = 1
<1>1. /\ Steps["Connect"] = <<"connect">> /\ Steps["StartSession"] = <<"session">>
      /\ Steps["StopSession"] = <<"stop">> /\ Steps["Disconnect"] = <<"disconnect">>
  BY DEF Steps
<1>2. \A s \in StepNames : <<s>> \in Seq(StepNames) /\ Len(<<s>>) = 1
  OBVIOUS
<1>3. {"connect", "session", "stop", "disconnect"} \subseteq StepNames
  BY DEF StepNames
<1> QED
  BY <1>1, <1>2, <1>3

\* Programs are sequences of step names.
LEMMA ProgramTypes ==
    /\ \A op \in DOMAIN Steps : op # "none" /\ Steps[op] \in Seq(StepNames)
    /\ \A op : Amends(op) \in Seq(StepNames)
<1>1. DOMAIN Steps = {"InstallApp", "CopyApplication", "LookupApplications", "LookupAppInfo",
                      "SecureStartSessionedService", "StartService"}
                     \union {"Connect", "StartSession", "StopSession", "Disconnect"}
  BY DEF Steps
<1>2. \A op \in DOMAIN Steps : op # "none" /\ Steps[op] \in Seq(StepNames)
  BY <1>1, SingleSteps, InstallAppSteps, CopyApplicationSteps, LookupApplicationsSteps,
     LookupAppInfoSteps, SecureStartSessionedServiceSteps, StartServiceSteps
<1>3. <<"release_proxy">> \in Seq(StepNames)
  BY DEF StepNames
<1>4. \A op : Amends(op) \in Seq(StepNames)
  BY <1>3, UndoSteps DEF Amends
<1> QED
  BY <1>2, <1>4

-----------------------------------------------------------------------------
(* Lemmas about what is left of a call.                                    *)

\* A step goes with the next one in its program.
LEMMA Going ==
    ASSUME Types, Program, ~Idle
    PROVE  /\ call.op \in DOMAIN Steps /\ call.result \in {"success"} \union StepNames
           /\ call.todo \in Seq(StepNames) /\ call.todo # <<>>
           /\ Tail(call.todo) # <<>> => Follows(Head(call.todo), Head(Tail(call.todo)))
<1>1. call.op \in DOMAIN Steps /\ call.result \in {"success"} \union StepNames
      /\ call.todo \in Seq(StepNames) /\ call.todo # <<>>
  BY DEF Types, Program, Calls, Idle
<1>2. ASSUME call.result \in StepNames, Tail(call.todo) # <<>>
      PROVE  Follows(Head(call.todo), Head(Tail(call.todo)))
  BY <1>1, <1>2, UndoPlaces, AmendPlaces DEF Program, Amends
<1>3. ASSUME call.result = "success", Tail(call.todo) # <<>>
      PROVE  Follows(Head(call.todo), Head(Tail(call.todo)))
  <2>1. EndOf(call.todo, Steps[call.op])
    BY <1>3 DEF Program
  <2>2. ASSUME call.op \in {"Connect", "StartSession", "StopSession", "Disconnect"}
        PROVE  FALSE
    <3>1. Len(Steps[call.op]) = 1 /\ Steps[call.op] \in Seq(StepNames)
      BY <2>2, SingleSteps
    <3>2. Len(call.todo) <= Len(Steps[call.op])
      BY <2>1 DEF EndOf
    <3>4. Len(call.todo) >= 2
      BY <1>1, <1>3, <2>1, <3>1, EndPlaces
    <3>5. Len(call.todo) \in Nat
      BY <1>1
    <3> QED
      BY <3>1, <3>2, <3>4, <3>5
  <2>3. call.op \in {"InstallApp", "CopyApplication", "LookupApplications", "LookupAppInfo",
                     "SecureStartSessionedService", "StartService"}
    BY <1>1, <2>2 DEF Steps
  <2> QED
    BY <1>1, <1>3, <2>1, <2>3, InstallAppPlaces, CopyApplicationPlaces,
       LookupApplicationsPlaces, LookupAppInfoPlaces,
       SecureStartSessionedServicePlaces, StartServicePlaces
<1> QED
  BY <1>1, <1>2, <1>3

\* A call that goes on to its next step stays in its program.
LEMMA NextProgram ==
    ASSUME Types, Program, ~Idle,
           call'.op = call.op, call'.result = call.result, call'.todo = Tail(call.todo)
    PROVE  Program' /\ Len(call.todo') = Len(call.todo) - 1 /\ Len(call.todo) \in Nat
<1>1. /\ call.op \in DOMAIN Steps /\ call.result \in {"success"} \union StepNames
      /\ call.todo \in Seq(StepNames) /\ call.todo # <<>>
  BY Going
<1>2. Len(call.todo') = Len(call.todo) - 1 /\ Len(call.todo) \in Nat
  BY <1>1, HeadTailProperties
<1>3. Steps[call.op] \in Seq(StepNames) /\ Amends(call.op) \in Seq(StepNames)
  BY <1>1, ProgramTypes
<1>5. call.op # "none"
  BY <1>1, ProgramTypes
<1>6. ASSUME call.result = "success" PROVE EndOf(call'.todo, Steps[call'.op])
  BY <1>1, <1>3, <1>6, EndPlaces DEF Program
<1>7. ASSUME call.result \in StepNames PROVE EndOf(call'.todo, Amends(call'.op))
  BY <1>1, <1>3, <1>7, EndPlaces DEF Program
<1> QED
  BY <1>1, <1>2, <1>5, <1>6, <1>7 DEF Program

\* The fields of a call after a step that succeeded.
LEMMA PassedCall ==
    ASSUME Types, Program, ~Idle, NEW c \in Calls,
           c.op = call.op, c.result = call.result, c.todo = call.todo, Passed(c)
    PROVE  /\ call' \in Calls /\ Program'
           /\ call'.todo = Tail(call.todo) /\ Len(call'.todo) = Len(call.todo) - 1
           /\ Len(call.todo) \in Nat
           /\ call'.op = call.op /\ call'.result = call.result
           /\ call'.afc = c.afc /\ call'.service = c.service /\ call'.sock = c.sock
           /\ call'.own = c.own /\ call'.n = c.n
           /\ call'.response = c.response /\ call'.heard = c.heard
<1>1. Tail(call.todo) \in Seq(StepNames)
  BY Going, HeadTailProperties
<1>2. /\ call' \in Calls /\ call'.todo = Tail(call.todo)
      /\ call'.op = call.op /\ call'.result = call.result
      /\ call'.afc = c.afc /\ call'.service = c.service /\ call'.sock = c.sock
      /\ call'.own = c.own /\ call'.n = c.n
      /\ call'.response = c.response /\ call'.heard = c.heard
  BY <1>1 DEF Passed, Calls
<1> QED
  BY <1>2, NextProgram

\* What is still done when a step has failed
LEMMA Cleanups ==
    ASSUME NEW step
    PROVE  /\ Cleanup(step) \in Seq(StepNames)
           /\ EndOf(Cleanup(step), Amends(call.op))
           /\ Cleanup(step) # <<>> =>
                 Head(Cleanup(step)) \in {"release_proxy", "stop", "disconnect"}
           /\ step \in {"keep", "stop"} => Cleanup(step) = <<>>
           /\ call.op = "SecureStartSessionedService" =>
                 /\ step = "session" => Len(Cleanup(step)) = 2
                 /\ step = "service" => Len(Cleanup(step)) = 3
<1>1. ASSUME call.op = "SecureStartSessionedService", step = "session"
      PROVE  Cleanup(step) = <<"disconnect", "hand_over">>
  BY <1>1 DEF Cleanup
<1>2. ASSUME call.op = "SecureStartSessionedService", step = "service"
      PROVE  Cleanup(step) = Undo
  BY <1>2 DEF Cleanup, Undo
<1>3. ASSUME \/ /\ call.op \in {"InstallApp", "LookupAppInfo"}
                /\ step \in {"send", "first", "loop"}
             \/ call.op = "LookupAppInfo" /\ step = "proxy"
      PROVE  Cleanup(step) = <<"release_proxy">>
  BY <1>3 DEF Cleanup
<1>4. ASSUME ~(call.op = "SecureStartSessionedService" /\ step \in {"session", "service"}),
             ~(call.op \in {"InstallApp", "LookupAppInfo"} /\ step \in {"send", "first", "loop"}),
             ~(call.op = "LookupAppInfo" /\ step = "proxy")
      PROVE  Cleanup(step) = <<>>
  BY <1>4 DEF Cleanup
<1>5. /\ <<"disconnect", "hand_over">> \in Seq(StepNames)
      /\ <<"release_proxy">> \in Seq(StepNames) /\ Undo \in Seq(StepNames)
      /\ <<>> \in Seq(StepNames)
  BY DEF StepNames, Undo
<1>6. /\ EndOf(<<"disconnect", "hand_over">>, Undo) /\ EndOf(Undo, Undo)
      /\ EndOf(<<"release_proxy">>, <<"release_proxy">>)
  BY DEF EndOf, Undo
<1>7. EndOf(<<>>, Undo) /\ EndOf(<<>>, <<"release_proxy">>)
  BY DEF EndOf, Undo
<1>8. /\ Head(<<"disconnect", "hand_over">>) = "disconnect" /\ Head(Undo) = "stop"
      /\ Head(<<"release_proxy">>) = "release_proxy"
  BY DEF Undo
<1>9. /\ call.op = "SecureStartSessionedService" => Amends(call.op) = Undo
      /\ call.op # "SecureStartSessionedService" => Amends(call.op) = <<"release_proxy">>
  BY DEF Amends
<1>10. Len(<<"disconnect", "hand_over">>) = 2 /\ Len(Undo) = 3
  BY DEF Undo
<1>11. ASSUME step \in {"keep", "stop"}
       PROVE  Cleanup(step) = <<>>
  BY <1>4, <1>11
<1>12. CASE call.op = "SecureStartSessionedService"
  BY <1>1, <1>2, <1>4, <1>5, <1>6, <1>7, <1>8, <1>9, <1>10, <1>11, <1>12
<1>13. CASE call.op # "SecureStartSessionedService"
  BY <1>3, <1>4, <1>5, <1>6, <1>7, <1>8, <1>9, <1>11, <1>13
<1> QED
  BY <1>12, <1>13

\* The fields of a call after a step that failed
LEMMA FailedCall ==
    ASSUME Types, Program, NEW step, At(step), Failed(step)
    PROVE  /\ call' \in Calls /\ Program' /\ step \in StepNames
           /\ call'.todo = Cleanup(step) /\ call'.result = step /\ call'.op = call.op
           /\ call'.afc = call.afc /\ call'.service = call.service /\ call'.sock = call.sock
           /\ call'.own = call.own /\ call'.n = call.n
           /\ call'.response = call.response /\ call'.heard = call.heard
<1>1. Cleanup(step) \in Seq(StepNames) /\ EndOf(Cleanup(step), Amends(call.op))
  BY Cleanups
<1>4. ~Idle /\ step \in StepNames
  BY Going, HeadTailProperties DEF At
<1>2. /\ call' \in Calls /\ call'.todo = Cleanup(step)
      /\ call'.result = step /\ call'.op = call.op
      /\ call'.afc = call.afc /\ call'.service = call.service /\ call'.sock = call.sock
      /\ call'.own = call.own /\ call'.n = call.n
      /\ call'.response = call.response /\ call'.heard = call.heard
  BY <1>1, <1>4 DEF Failed, Types, Calls
<1>3. call.op # "none"
  BY <1>4, Going, ProgramTypes
<1>5. step \notin {"none", "success"}
  BY <1>4 DEF StepNames
<1> QED
  BY <1>1, <1>2, <1>3, <1>4, <1>5 DEF Program

\* Steps that do not talk to the proxy
Silent == StepNames \ {"proxy", "send", "first", "loop"}

\* A step that does not talk to the proxy leads to no talk it could spoil.
LEMMA SilentTalking ==
    ASSUME Types, Program, Talking, NEW step \in Silent, At(step),
           call'.todo = Tail(call.todo),
           call'.response = call.response, call'.heard = call.heard,
           step = "service" => call'.service # NoConnection
    PROVE  Talking'
<1>1. ~Idle /\ Head(call.todo) = step
  BY DEF At
<1>2. call'.todo # <<>> => Follows(step, Head(call'.todo))
  BY <1>1, Going
<1>3. ASSUME NEW s \in {"connect", "session", "afc", "proxy", "send", "first"}, At(s)'
      PROVE  Unheard'
  <2>1. Follows(step, s)
    BY <1>2, <1>3 DEF At, Idle
  <2>2. step \in {"connect", "session", "afc"}
    BY <1>3, <2>1 DEF Follows, Silent
  <2> QED
    BY <1>1, <2>2 DEF Talking, At, Unheard
<1>4. ASSUME NEW s \in {"send", "first", "loop"}, At(s)'
      PROVE  FALSE
  <2>1. Follows(step, s)
    BY <1>2, <1>4 DEF At, Idle
  <2> QED
    BY <1>4, <2>1 DEF Follows, Silent
<1>5. ASSUME At("keep")'
      PROVE  call'.service # NoConnection
  <2>1. Follows(step, "keep")
    BY <1>2, <1>5 DEF At, Idle
  <2> QED
    BY <2>1 DEF Follows
<1> QED
  BY <1>3, <1>4, <1>5 DEF Talking

\* After a failure there is no more talk.
LEMMA FailedTalking ==
    ASSUME NEW step, call'.todo = Cleanup(step)
    PROVE  Talking'
<1>1. call'.todo # <<>> => Head(call'.todo) \in {"release_proxy", "stop", "disconnect"}
  BY Cleanups
<1>2. \A s \in {"connect", "session", "afc", "proxy", "send", "first", "loop", "keep"} : ~At(s)'
  BY <1>1 DEF At, Idle
<1> QED
  BY <1>2 DEF Talking

\* Nor does an ended call talk.
LEMMA IdleTalking ==
    ASSUME Idle'
    PROVE  Talking'
  BY DEF Talking, At

\* Where the two calls are whose end the properties speak of
LEMMA InstallPlaces ==
    ASSUME Types, Program, NEW step, At(step),
           call.op = "InstallApp", call.result = "success"
    PROVE  /\ step \in {"connect", "session", "afc", "proxy", "send", "first"}
                 => Len(call.todo) >= 6
           /\ step = "loop" => Len(call.todo) = 5
           /\ step = "release_proxy" => Len(call.todo) = 4
           /\ step = "release_afc" => Len(call.todo) = 3
           /\ step = "stop" => Len(call.todo) = 2
           /\ step = "disconnect" => Len(call.todo) = 1
           /\ step \notin {"transfer", "service", "hand_over", "keep"}
<1>1. /\ call.todo \in Seq(StepNames) /\ call.todo # <<>> /\ Head(call.todo) = step
      /\ EndOf(call.todo, Steps["InstallApp"])
  BY Going DEF At, Program
<1>2. PICK k \in Nat : k = Len(call.todo)
  BY <1>1
<1>3. /\ step = "connect" <=> k = 11
      /\ step = "session" <=> k = 10
      /\ step = "afc" <=> k = 9
      /\ step = "proxy" <=> k = 8
      /\ step = "send" <=> k = 7
      /\ step = "first" <=> k = 6
      /\ step = "loop" <=> k = 5
      /\ step = "release_proxy" <=> k = 4
      /\ step = "release_afc" <=> k = 3
      /\ step = "stop" <=> k = 2
      /\ step = "disconnect" <=> k = 1
      /\ step \in {"connect", "session", "afc", "proxy", "send", "first",
                   "loop", "release_proxy", "release_afc", "stop", "disconnect"}
  BY <1>1, <1>2, InstallAppPlaces, Zenon
<1>4. /\ step \in {"connect", "session", "afc", "proxy", "send", "first"} => k >= 6
      /\ step \notin {"transfer", "service", "hand_over", "keep"}
  BY <1>3
<1> QED
  BY <1>2, <1>3, <1>4, Zenon

\* The same for SecureStartSessionedService, also after a failed step.
LEMMA SessionedPlaces ==
    ASSUME Types, Program, NEW step, At(step), call.op = "SecureStartSessionedService"
    PROVE  /\ step \in {"connect", "session", "service", "stop", "disconnect", "hand_over"}
           /\ step = "service" => call.result = "success" /\ Len(call.todo) = 4
           /\ step \in {"connect", "session"} => Len(call.todo) > 4
           /\ step = "stop" => Len(call.todo) = 3
           /\ step = "disconnect" => Len(call.todo) = 2
           /\ step = "hand_over" => Len(call.todo) = 1
           /\ Len(call.todo) \in Nat
<1>1. /\ call.todo \in Seq(StepNames) /\ call.todo # <<>> /\ Head(call.todo) = step
      /\ call.result \in {"success"} \union StepNames
  BY Going DEF At
<1>2. PICK k \in Nat : k = Len(call.todo)
  BY <1>1
<1>3. CASE call.result = "success"
  <2>1. EndOf(call.todo, Steps["SecureStartSessionedService"])
    BY <1>3 DEF Program
  <2>2. /\ step = "connect" <=> k = 6
        /\ step = "session" <=> k = 5
        /\ step = "service" <=> k = 4
        /\ step = "stop" <=> k = 3
        /\ step = "disconnect" <=> k = 2
        /\ step = "hand_over" <=> k = 1
        /\ step \in {"connect", "session", "service", "stop", "disconnect", "hand_over"}
    BY <1>1, <1>2, <2>1, SecureStartSessionedServicePlaces, Zenon
  <2>3. step \in {"connect", "session"} => k > 4
    BY <2>2
  <2> QED
    BY <1>2, <1>3, <2>2, <2>3, Zenon
<1>4. CASE call.result \in StepNames
  <2>1. EndOf(call.todo, Undo)
    BY <1>4 DEF Program, Amends
  <2>2. /\ step = "stop" <=> k = 3
        /\ step = "disconnect" <=> k = 2
        /\ step = "hand_over" <=> k = 1
        /\ step \in {"stop", "disconnect", "hand_over"}
    BY <1>1, <1>2, <2>1, UndoPlaces, Zenon
  <2>3. step \notin {"connect", "session", "service"}
    BY <2>2
  <2> QED
    BY <1>2, <1>4, <2>2, <2>3
<1> QED
  BY <1>1, <1>3, <1>4

\* Before its last steps an installation has nothing to have left.
LEMMA EarlyInstalling ==
    ASSUME Types, Program, NEW step, At(step),
           step \notin {"loop", "release_proxy", "release_afc", "stop", "disconnect"},
           Len(call'.todo) = Len(call.todo) - 1, Len(call.todo) \in Nat,
           call'.op = call.op, call'.result = call.result
    PROVE  Installing'
<1> SUFFICES ASSUME call.op = "InstallApp", call.result = "success"
             PROVE  Installing'
  BY DEF Installing
<1>1. Len(call.todo) >= 6
  <2>1. step \in StepNames
    BY Going, HeadTailProperties DEF At
  <2> QED
    BY <2>1, InstallPlaces DEF StepNames
<1>2. PICK k \in Nat : k = Len(call.todo)
  OBVIOUS
<1>3. PICK m \in Nat : m = Len(call'.todo) /\ m >= 5
  BY <1>1, <1>2
<1>4. \A x \in Nat : x >= 5 => ~(x <= 4) /\ ~(x <= 3) /\ ~(x <= 2) /\ x # 0
  OBVIOUS
<1> QED
  BY <1>3, <1>4, Zenon DEF Installing

\* A failed installation promises nothing.
LEMMA FailedInstalling ==
    ASSUME call'.result # "success"
    PROVE  Installing'
  BY DEF Installing

\* A step of SecureStartSessionedService that passes keeps what it hands over.
LEMMA NextHanding ==
    ASSUME Types, Program, Handing, NEW step, At(step), step # "service",
           Len(call'.todo) = Len(call.todo) - 1,
           call'.op = call.op, call'.result = call.result,
           step \in {"release_proxy", "release_afc"} \/ call'.service = call.service,
           step \in {"connect", "session", "stop", "disconnect"} \/ lockdown' = lockdown,
           step = "disconnect" => lockdown' = Unlocked
    PROVE  Handing'
<1> SUFFICES ASSUME call.op = "SecureStartSessionedService"
             PROVE  Handing'
  BY DEF Handing
<1>1. /\ Len(call.todo) <= 1 /\ call.result # "connect" => lockdown = Unlocked
      /\ Len(call.todo) <= 3 /\ call.result = "success" <=> call.service # NoConnection
  BY DEF Handing
<1>2. PICK k \in Nat : k = Len(call.todo)
  BY SessionedPlaces
<1>3. /\ step \in {"connect", "session"} => k > 4
      /\ step = "stop" => k = 3
      /\ step = "disconnect" => k = 2
      /\ step = "hand_over" => k = 1
      /\ step \in {"connect", "session", "stop", "disconnect", "hand_over"}
  BY <1>2, SessionedPlaces
<1>4. Len(call'.todo) = k - 1 /\ call'.service = call.service
  BY <1>2, <1>3
<1>5. k - 1 <= 1 /\ call.result # "connect" => lockdown' = Unlocked
  <2>1. CASE step = "disconnect"
    BY <2>1
  <2>2. CASE step = "hand_over"
    <3>1. lockdown' = lockdown
      BY <2>2
    <3>2. k <= 1
      BY <1>3, <2>2
    <3> QED
      BY <1>1, <1>2, <3>1, <3>2, Zenon
  <2>3. CASE step \in {"connect", "session", "stop"}
    BY <1>3, <2>3
  <2> QED
    BY <1>3, <2>1, <2>2, <2>3
<1>6. k - 1 <= 3 <=> k <= 3
  BY <1>3
<1> QED
  BY <1>1, <1>2, <1>4, <1>5, <1>6 DEF Handing

\* A step that fails has nothing to hand over, and undoes what was done.
LEMMA FailedHanding ==
    ASSUME Types, Program, Handing, NEW step, At(step),
           step \notin {"disconnect", "hand_over"},
           step # "stop" \/ call.op # "SecureStartSessionedService",
           call'.op = call.op, call'.service = call.service,
           call'.todo = Cleanup(step), call'.result = step
    PROVE  Handing'
<1> SUFFICES ASSUME call.op = "SecureStartSessionedService"
             PROVE  Handing'
  BY DEF Handing
<1>1. PICK k \in Nat : k = Len(call.todo)
  BY SessionedPlaces
<1>2. step \in {"connect", "session", "service"}
  BY SessionedPlaces
<1>3. ~(k <= 3)
  <2>1. k > 4 \/ k = 4
    BY <1>1, <1>2, SessionedPlaces, Zenon
  <2> QED
    BY <2>1
<1>4. call.service = NoConnection
  BY <1>1, <1>3, Zenon DEF Handing
<1>5. call'.result # "connect" => ~(Len(call'.todo) <= 1)
  <2>1. step # "connect" => Len(call'.todo) = 2 \/ Len(call'.todo) = 3
    BY <1>2, Cleanups, Zenon
  <2>2. ~(2 <= 1) /\ ~(3 <= 1)
    OBVIOUS
  <2> QED
    BY <2>1, <2>2, Zenon
<1>6. call'.result # "success"
  BY <1>2
<1> QED
  BY <1>4, <1>5, <1>6, Zenon DEF Handing

-----------------------------------------------------------------------------
(* Lemmas about descriptors and connections.                               *)

\* The ends of sockets and what they keep when they change
LEMMA DescriptorTypes ==
    /\ Free \in Descriptors
    /\ \A to \in Services \union {"lockdown"} :
          /\ Socket(to) \in Descriptors /\ Socket(to).to = to
          /\ Socket(to).shut = "no" /\ Socket(to).todo = <<>> /\ Socket(to).in = <<>>
          /\ Socket(to).told = 0
    /\ \A f \in Descriptors :
          /\ Gone(f) \in Descriptors /\ Gone(f).to = f.to /\ Gone(f).shut = f.shut
          /\ Gone(f).in = f.in /\ Gone(f).todo = <<>> /\ Gone(f).told = 0
    /\ \A f \in Descriptors :
          \A by \in {"owner", "stale"} :
          LET g == [Gone(f) EXCEPT !.shut = by, !.in = <<>>] IN
          g \in Descriptors /\ g.to = f.to /\ g.shut = by /\ g.in = <<>>
    /\ Free.to = "nothing" /\ Free.in = <<>>
<1>1. 0 \in 0..MaxProgress
  BY BoundsAssumption
<1>2. <<>> \in Seq(Commands) /\ <<>> \in Seq(Replies)
  OBVIOUS
<1>3. Free \in Descriptors /\ Free.to = "nothing" /\ Free.in = <<>>
  BY <1>1, <1>2 DEF Free, Descriptors
<1>4. \A f \in Descriptors :
          /\ Gone(f) \in Descriptors /\ Gone(f).to = f.to /\ Gone(f).shut = f.shut
          /\ Gone(f).in = f.in /\ Gone(f).todo = <<>> /\ Gone(f).told = 0
  BY <1>1, <1>2 DEF Gone, Descriptors
<1>5. \A to \in Services \union {"lockdown"} :
          /\ Socket(to) \in Descriptors /\ Socket(to).to = to
          /\ Socket(to).shut = "no" /\ Socket(to).todo = <<>> /\ Socket(to).in = <<>>
          /\ Socket(to).told = 0
  BY <1>1, <1>2 DEF Socket, Free, Descriptors
<1>6. \A f \in Descriptors :
          \A by \in {"owner", "stale"} :
          LET g == [Gone(f) EXCEPT !.shut = by, !.in = <<>>] IN
          g \in Descriptors /\ g.to = f.to /\ g.shut = by /\ g.in = <<>>
  BY <1>1, <1>2 DEF Gone, Descriptors
<1> QED
  BY <1>3, <1>4, <1>5, <1>6

\* socket(2) returns a free descriptor.
LEMMA LowestIsFree ==
    ASSUME NEW files, NEW d \in Lowest(files)
    PROVE  d \in Files /\ d # None /\ files[d] = Free
  BY DEF Lowest, Files, None

\* Connections and the absence of one
LEMMA ConnectionTypes ==
    /\ NoConnection \in Connections /\ NoConnection.stale = FALSE
    /\ \A d \in Files, to \in Services :
          LET c == NewConnection(d, to) IN
          /\ c \in Connections /\ c # NoConnection /\ c.stale = FALSE
          /\ c.fd = d /\ c.service = to
    /\ \A c \in Connections \ {NoConnection} :
          c.fd \in Files /\ c.fd # None /\ c.service \in Services /\ c.stale \in BOOLEAN
  BY DEF Connections, NoConnection, NewConnection, None, Files, Services

\* No message is numbered anew.
LEMMA KeptTypes ==
    ASSUME Types, wifi' = wifi,
           attached' \in BOOLEAN, lockdown' \in [fd : Files \union {None}, session : BOOLEAN],
           file' \in [Files -> Descriptors], held' \in [Slots -> Connections],
           call' \in Calls, call'.n = call.n, commands' = commands,
           call'.response = call.response,
           \A d \in Files : file'[d].in = file[d].in \/ file'[d].in = <<>>
    PROVE  Types'
<1>1. ASSUME NEW d \in Files, NEW i \in 1..Len(file'[d].in)
      PROVE  Numbered(file'[d].in[i])
  <2>1. file'[d].in # <<>>
    OBVIOUS
  <2>2. file'[d].in = file[d].in
    BY <2>1
  <2> QED
    BY <2>2 DEF Types
<1> QED
  BY <1>1 DEF Types

\* The places of the caller's connections
LEMMA HeldPlaces ==
    \A p \in Slots : InUse(p) = held[p] /\ InUse(p)' = held'[p]
<1>1. MaxHeld \in Nat
  BY BoundsAssumption
<1>2. \A p \in Slots : p # MaxHeld + 1 /\ p # MaxHeld + 2
  BY <1>1 DEF Slots
<1> QED
  BY <1>2 DEF InUse

\* The connections somebody may use, and their places
LEMMA UsedConnections ==
    ASSUME Types
    PROVE  /\ \A p \in Places : InUse(p) \in Connections
           /\ Slots \subseteq Places
           /\ MaxHeld + 1 \in Places \ Slots /\ MaxHeld + 2 \in Places \ Slots
           /\ MaxHeld + 1 # MaxHeld + 2
           /\ \A p \in Slots : InUse(p) = held[p]
           /\ ~Idle => InUse(MaxHeld + 1) = call.afc /\ InUse(MaxHeld + 2) = call.service
           /\ \A p \in Places \ Slots :
                 \/ p \in {MaxHeld + 1, MaxHeld + 2} /\ ~Idle
                 \/ InUse(p) = NoConnection
<1>1. MaxHeld \in Nat
  BY BoundsAssumption
<1>2. /\ Slots \subseteq Places
      /\ MaxHeld + 1 \in Places \ Slots /\ MaxHeld + 2 \in Places \ Slots
      /\ MaxHeld + 1 # MaxHeld + 2
      /\ \A p \in Places \ Slots : p \in {MaxHeld + 1, MaxHeld + 2}
  BY <1>1 DEF Slots, Places
<1>3. call.afc \in Connections /\ call.service \in Connections
      /\ held \in [Slots -> Connections] /\ NoConnection \in Connections
  BY ConnectionTypes DEF Types, Calls
<1>4. \A p \in Slots : InUse(p) = held[p]
  BY <1>2 DEF InUse
<1>5. ~Idle => InUse(MaxHeld + 1) = call.afc /\ InUse(MaxHeld + 2) = call.service
  BY <1>2 DEF InUse
<1>6. ASSUME Idle, NEW p \in Places \ Slots
      PROVE  InUse(p) = NoConnection
  BY <1>6 DEF InUse
<1> QED
  BY <1>2, <1>3, <1>4, <1>5, <1>6

\* The sockets of live connections
LEMMA LiveSockets ==
    ASSUME Types, Sockets, NEW p \in Places, Live(InUse(p))
    PROVE  /\ InUse(p) \in Connections /\ InUse(p) # NoConnection
           /\ InUse(p).fd \in Files /\ InUse(p).fd # None /\ InUse(p).fd # lockdown.fd
           /\ Standing(InUse(p)) /\ file[InUse(p).fd].to # "nothing"
<1>1. InUse(p) \in Connections \ {NoConnection}
  BY UsedConnections DEF Live
<1>2. PICK c \in Connections : c = InUse(p)
  BY <1>1
<1>3. c.fd \in Files /\ c.fd # None /\ c.service \in Services
  BY <1>1, <1>2, ConnectionTypes
<1>4. Standing(c) /\ c.fd # lockdown.fd
  BY <1>2 DEF Sockets
<1>5. PortOf(c.service) # "nothing"
  BY <1>3 DEF PortOf, Services
<1> QED
  BY <1>1, <1>2, <1>3, <1>4, <1>5 DEF Standing

\* The sockets of live connections are left alone.
LiveStands ==
    /\ wifi' = wifi
    /\ \A p \in Places : Live(InUse(p)) =>
          LET d == InUse(p).fd IN
          /\ file'[d].to = file[d].to
          /\ file[d].shut # "owner" => file'[d].shut # "owner"
          /\ d # lockdown'.fd

\* Connection c has its socket after a step.
StandsNext(c) == file'[c.fd].to = PortOf(c.service) /\ file'[c.fd].shut # "owner"

\* The port of a service stays the same.
LEMMA StandsOn ==
    ASSUME wifi' = wifi
    PROVE  /\ \A p : StandsNext(InUse(p)) /\ InUse(p)' = InUse(p) => Standing(InUse(p))'
           /\ \A p, q : StandsNext(InUse(q)) /\ InUse(p)' = InUse(q) => Standing(InUse(p))'
<1>1. \A to : PortOf(to)' = PortOf(to)
  BY DEF PortOf
<1>2. ASSUME NEW p, NEW q, StandsNext(InUse(q)), InUse(p)' = InUse(q)
      PROVE  Standing(InUse(p))'
  BY <1>1, <1>2 DEF Standing, StandsNext
<1> QED
  BY <1>2

\* A step that leaves services and connections alone keeps their sockets.
LEMMA KeptSockets ==
    ASSUME Types, Sockets, LiveStands, held' = held, Idle => Idle',
           call'.afc = call.afc, call'.service = call.service,
           lockdown'.fd # None => file'[lockdown'.fd].to = "lockdown"
    PROVE  Sockets'
<1>1. \A p \in Places : InUse(p)' = InUse(p) \/ InUse(p)' = NoConnection
  BY DEF InUse
<1>2. \A p \in Places : Live(InUse(p))' => InUse(p)' = InUse(p) /\ Live(InUse(p))
  BY <1>1 DEF Live
<1>3. ASSUME NEW p \in Places, Live(InUse(p))
      PROVE  Live(InUse(p)) /\ StandsNext(InUse(p)) /\ InUse(p).fd # lockdown'.fd
  <2>1. /\ file[InUse(p).fd].to = PortOf(InUse(p).service)
        /\ file[InUse(p).fd].shut # "owner"
    BY <1>3 DEF Sockets, Standing
  <2>2. /\ file'[InUse(p).fd].to = file[InUse(p).fd].to
        /\ file'[InUse(p).fd].shut # "owner" /\ InUse(p).fd # lockdown'.fd
    BY <1>3, <2>1 DEF LiveStands
  <2> QED
    BY <1>3, <2>1, <2>2 DEF StandsNext
<1>4. ASSUME NEW p \in Places, Live(InUse(p))'
      PROVE  /\ Standing(InUse(p))' /\ InUse(p)'.fd # lockdown'.fd
             /\ \A q \in Places \ {p} : Live(InUse(q))' => InUse(q)'.fd # InUse(p)'.fd
  <2>1. InUse(p)' = InUse(p) /\ Live(InUse(p))
    BY <1>2, <1>4
  <2>2. Standing(InUse(p))' /\ InUse(p)'.fd # lockdown'.fd
    <3>1. StandsNext(InUse(p)) /\ InUse(p).fd # lockdown'.fd
      BY <1>3, <2>1
    <3>2. wifi' = wifi
      BY DEF LiveStands
    <3> QED
      BY <2>1, <3>1, <3>2, StandsOn
  <2>3. ASSUME NEW q \in Places \ {p}, Live(InUse(q))'
        PROVE  InUse(q)'.fd # InUse(p)'.fd
    <3>1. InUse(q)' = InUse(q) /\ Live(InUse(q))
      BY <1>2, <2>3
    <3> QED
      BY <2>1, <3>1 DEF Sockets
  <2> QED
    BY <2>2, <2>3
<1> QED
  BY <1>4 DEF Sockets

\* A step that leaves the descriptors in use alone, but for that of lockdown
LEMMA NewStands ==
    ASSUME Types, Sockets, wifi' = wifi,
           \A d \in Files : file[d].to # "nothing" /\ d # lockdown.fd => file'[d] = file[d],
           \/ lockdown'.fd \in {None, lockdown.fd}
           \/ lockdown'.fd \in Files /\ file[lockdown'.fd].to = "nothing"
    PROVE  LiveStands
<1> SUFFICES ASSUME NEW p \in Places, Live(InUse(p))
             PROVE  LET d == InUse(p).fd IN
                    /\ file'[d].to = file[d].to
                    /\ file[d].shut # "owner" => file'[d].shut # "owner"
                    /\ d # lockdown'.fd
  BY DEF LiveStands
<1>1. /\ InUse(p).fd \in Files /\ InUse(p).fd # None /\ InUse(p).fd # lockdown.fd
      /\ file[InUse(p).fd].to # "nothing"
  BY LiveSockets
<1> QED
  BY <1>1

\* The same for a step that closes no descriptor and shuts down none.
LEMMA SameStands ==
    ASSUME Types, Sockets, wifi' = wifi, lockdown'.fd = lockdown.fd,
           \A d \in Files : file'[d].to = file[d].to /\ file'[d].shut = file[d].shut
    PROVE  LiveStands
  BY LiveSockets DEF LiveStands

\* What SDMMD_AMDeviceDisconnect leaves
LEMMA ClosedSockets ==
    ASSUME Types, Sockets
    PROVE  /\ Closed \in [Files -> Descriptors]
           /\ \A d \in Files : Closed[d] = file[d] \/ Closed[d] = Free
           /\ \A d \in Files : d # lockdown.fd => Closed[d] = file[d]
<1>1. lockdown.fd # None => lockdown.fd \in Files
  BY DEF Types
<1>2. file \in [Files -> Descriptors] /\ Free \in Descriptors
  BY DescriptorTypes DEF Types
<1>3. CASE lockdown.fd = None
  BY <1>2, <1>3 DEF Closed
<1>4. CASE lockdown.fd # None
  <2>1. Closed = [file EXCEPT ![lockdown.fd] = Free]
    BY <1>4 DEF Closed
  <2> QED
    BY <1>1, <1>2, <1>4, <2>1
<1> QED
  BY <1>3, <1>4

\* A shut down connection keeps its service; a stale one is not its owner.
LEMMA ShutDownSockets ==
    ASSUME Types, NEW c \in Connections
    PROVE  /\ ShutDown(c) \in [Files -> Descriptors]
           /\ \A d \in Files : ShutDown(c)[d].to = file[d].to
           /\ \A d \in Files : ShutDown(c)[d].in = file[d].in \/ ShutDown(c)[d].in = <<>>
           /\ \A d \in Files : c = NoConnection \/ d # c.fd => ShutDown(c)[d] = file[d]
           /\ c.stale => \A d \in Files :
                 file[d].shut # "owner" => ShutDown(c)[d].shut # "owner"
<1>1. file \in [Files -> Descriptors]
  BY DEF Types
<1>2. CASE ShutDown(c) = file
  BY <1>1, <1>2
<1>3. CASE ShutDown(c) # file
  <2>0. c.fd # None
    BY <1>3 DEF ShutDown
  <2>1. c # NoConnection /\ c.fd \in Files
    BY <2>0, ConnectionTypes DEF NoConnection, NewConnection
  <2> DEFINE f == file[c.fd]
             by == IF c.stale THEN "stale" ELSE "owner"
             g == [Gone(f) EXCEPT !.shut = by, !.in = <<>>]
  <2>2. f \in Descriptors
    BY <1>1, <2>1
  <2>3. g \in Descriptors /\ g.to = f.to /\ g.shut = by /\ g.in = <<>>
    <3>1. by \in {"owner", "stale"}
      OBVIOUS
    <3> HIDE DEF by
    <3> QED
      BY <2>2, <3>1, DescriptorTypes
  <2>4. ShutDown(c) = [file EXCEPT ![c.fd] = g]
    BY <1>3 DEF ShutDown
  <2>5. g.to = file[c.fd].to /\ (c.stale => g.shut # "owner")
    BY <2>3
  <2> HIDE DEF g
  <2>6. /\ ShutDown(c) \in [Files -> Descriptors]
        /\ ShutDown(c)[c.fd] = g
        /\ \A d \in Files : d # c.fd => ShutDown(c)[d] = file[d]
    BY <1>1, <2>1, <2>3, <2>4
  <2> QED
    BY <2>1, <2>3, <2>5, <2>6
<1> QED
  BY <1>2, <1>3

-----------------------------------------------------------------------------
(* Steps that leave the services alone.                                    *)

\* The last steps of an installation each leave what they should.
LEMMA LateInstalling ==
    ASSUME Types, Program, Installing, NEW step, At(step),
           step \in {"release_proxy", "release_afc", "stop", "disconnect"},
           Len(call'.todo) = Len(call.todo) - 1, Len(call.todo) \in Nat,
           call'.op = call.op, call'.result = call.result, call'.own = call.own,
           call'.n = call.n, call'.response = call.response,
           step = "release_proxy" \/ call.service = NoConnection
               => call'.service = NoConnection,
           step = "release_afc" \/ call.afc = NoConnection => call'.afc = NoConnection,
           step = "disconnect" => lockdown' = Unlocked
    PROVE  Installing'
<1> SUFFICES ASSUME call.op = "InstallApp", call.result = "success"
             PROVE  Installing'
  BY DEF Installing
<1>1. /\ Len(call.todo) <= 4 /\ call.own =>
            call.response.kind = "complete" /\ call.response.n = call.n
      /\ Len(call.todo) <= 3 => call.service = NoConnection
      /\ Len(call.todo) <= 2 => call.afc = NoConnection
  BY DEF Installing
<1>2. PICK k \in Nat : k = Len(call.todo)
  OBVIOUS
<1>3. /\ step = "release_proxy" => k = 4
      /\ step = "release_afc" => k = 3
      /\ step = "stop" => k = 2
      /\ step = "disconnect" => k = 1
  BY <1>2, InstallPlaces
<1>4. PICK m \in Nat : m = Len(call'.todo) /\ m = k - 1
  <2>1. k >= 1
    BY <1>3
  <2> QED
    BY <1>2, <2>1
<1>5. k <= 4
  BY <1>3
<1>6. call'.own => call'.response.kind = "complete" /\ call'.response.n = call'.n
  BY <1>1, <1>2, <1>5, Zenon
<1>7. m <= 3 => call'.service = NoConnection
  <2>1. step = "release_proxy" \/ k <= 3
    BY <1>3
  <2> QED
    BY <1>1, <1>2, <2>1, Zenon
<1>8. m <= 2 => call'.afc = NoConnection
  <2>1. m <= 2 => step = "release_afc" \/ k <= 2
    BY <1>3, <1>4
  <2> QED
    BY <1>1, <1>2, <2>1, Zenon
<1>9. m = 0 => lockdown' = Unlocked
  BY <1>3, <1>4
<1> QED
  BY <1>4, <1>6, <1>7, <1>8, <1>9, Zenon DEF Installing

\* A step of lockdown or of the file transfer succeeds.
LEMMA OpenPasses ==
    ASSUME IInv, NEW step \in {"connect", "session", "transfer", "stop", "disconnect"},
           At(step), Passed(call), LiveStands, held' = held, commands' = commands,
           attached' \in BOOLEAN, lockdown' \in [fd : Files \union {None}, session : BOOLEAN],
           file' \in [Files -> Descriptors],
           \A d \in Files : file'[d].in = file[d].in \/ file'[d].in = <<>>,
           lockdown'.fd # None => file'[lockdown'.fd].to = "lockdown",
           step = "transfer" => lockdown' = lockdown,
           step = "disconnect" => lockdown' = Unlocked
    PROVE  IInv'
<1> USE DEF IInv
<1>1. ~Idle /\ call \in Calls
  BY DEF At, Types
<1>2. /\ call' \in Calls /\ Program'
      /\ call'.todo = Tail(call.todo) /\ Len(call'.todo) = Len(call.todo) - 1
      /\ Len(call.todo) \in Nat
      /\ call'.op = call.op /\ call'.result = call.result
      /\ call'.afc = call.afc /\ call'.service = call.service /\ call'.sock = call.sock
      /\ call'.own = call.own /\ call'.n = call.n
      /\ call'.response = call.response /\ call'.heard = call.heard
  BY <1>1, PassedCall
<1>3. Types'
  BY <1>2, KeptTypes DEF Types, LiveStands
<1>4. Sockets'
  BY <1>1, <1>2, KeptSockets
<1>5. Talking'
  <2>1. step \in Silent
    BY DEF Silent, StepNames
  <2> QED
    BY <1>2, <2>1, SilentTalking
<1>6. Installing'
  <2>1. CASE step \in {"connect", "session", "transfer"}
    BY <1>2, <2>1, EarlyInstalling
  <2>2. CASE step \in {"stop", "disconnect"}
    BY <1>2, <2>2, LateInstalling
  <2> QED
    BY <2>1, <2>2
<1>7. Handing'
  <2>1. step # "service"
    OBVIOUS
  <2> QED
    BY <1>2, <2>1, NextHanding
<1>8. CallbackMissesNothing'
  BY <1>2 DEF CallbackMissesNothing
<1> QED
  BY <1>2, <1>3, <1>4, <1>5, <1>6, <1>7, <1>8

\* A step fails.
LEMMA StepFails ==
    ASSUME IInv, NEW step, At(step), Failed(step), LiveStands,
           step \notin {"disconnect", "hand_over"},
           step # "stop" \/ call.op # "SecureStartSessionedService",
           held' = held, commands' = commands,
           attached' \in BOOLEAN, lockdown' \in [fd : Files \union {None}, session : BOOLEAN],
           file' \in [Files -> Descriptors],
           \A d \in Files : file'[d].in = file[d].in \/ file'[d].in = <<>>,
           lockdown'.fd # None => file'[lockdown'.fd].to = "lockdown"
    PROVE  IInv'
<1> USE DEF IInv
<1>1. ~Idle /\ call \in Calls
  BY DEF At, Types
<1>2. /\ call' \in Calls /\ Program'
      /\ call'.todo = Cleanup(step) /\ call'.result = step /\ step \in StepNames
      /\ call'.op = call.op
      /\ call'.afc = call.afc /\ call'.service = call.service /\ call'.sock = call.sock
      /\ call'.own = call.own /\ call'.n = call.n
      /\ call'.response = call.response /\ call'.heard = call.heard
  BY <1>1, FailedCall
<1>3. Types'
  BY <1>2, KeptTypes DEF Types, LiveStands
<1>4. Sockets'
  BY <1>1, <1>2, KeptSockets
<1>5. Talking'
  BY <1>2, FailedTalking
<1>6. Installing'
  BY <1>2, FailedInstalling DEF StepNames
<1>7. Handing'
  BY <1>2, FailedHanding
<1>8. CallbackMissesNothing'
  BY <1>2 DEF CallbackMissesNothing
<1> QED
  BY <1>2, <1>3, <1>4, <1>5, <1>6, <1>7, <1>8

-----------------------------------------------------------------------------
(* The lockdown calls preserve the invariant.                              *)

\* A new socket on a free descriptor
LEMMA NewSocket ==
    ASSUME NEW files \in [Files -> Descriptors], NEW d \in Lowest(files),
           NEW to \in Services \union {"lockdown"},
           NEW now, now = [files EXCEPT ![d] = Socket(to)]
    PROVE  /\ now \in [Files -> Descriptors]
           /\ now[d] = Socket(to) /\ now[d].to = to
           /\ \A e \in Files : e # d => now[e] = files[e]
           /\ \A e \in Files : now[e].in = files[e].in \/ now[e].in = <<>>
           /\ \A e \in Files : files[e].to # "nothing" => now[e] = files[e]
           /\ d \in Files /\ files[d].to = "nothing"
<1>1. d \in Files /\ files[d].to = "nothing"
  <2>1. d \in Files /\ files[d] = Free
    BY LowestIsFree
  <2>2. Free.to = "nothing"
    BY DescriptorTypes
  <2> QED
    BY <2>1, <2>2
<1>2. Socket(to) \in Descriptors /\ Socket(to).to = to /\ Socket(to).in = <<>>
  BY DescriptorTypes
<1> QED
  BY <1>1, <1>2

\* A socket whose connect was refused
LEMMA RefusedSocket ==
    ASSUME NEW files \in [Files -> Descriptors],
           NEW to \in Services \union {"lockdown"}, NEW now \in Refused(files, to)
    PROVE  /\ now \in [Files -> Descriptors]
           /\ \A e \in Files : now[e].in = files[e].in \/ now[e].in = <<>>
           /\ \A e \in Files : files[e].to # "nothing" => now[e] = files[e]
<1>1. CASE now = files
  BY <1>1
<1>2. CASE \E d \in Lowest(files) : now = [files EXCEPT ![d] = Gone(Socket(to))]
  <2>1. PICK d \in Lowest(files) : now = [files EXCEPT ![d] = Gone(Socket(to))]
    BY <1>2
  <2>2. d \in Files /\ files[d] = Free /\ Free.to = "nothing"
    <3>1. d \in Files /\ files[d] = Free
      BY LowestIsFree
    <3> QED
      BY <3>1, DescriptorTypes
  <2>3. Socket(to) \in Descriptors /\ Socket(to).in = <<>>
    BY DescriptorTypes
  <2>4. Gone(Socket(to)) \in Descriptors /\ Gone(Socket(to)).in = <<>>
    BY <2>3, DescriptorTypes
  <2> QED
    BY <2>1, <2>2, <2>4
<1> QED
  BY <1>1, <1>2 DEF Refused

\* SDMMD_AMDeviceConnect
LEMMA LockdownConnects ==
    ASSUME IInv, ConnectOpens \/ ConnectFails
    PROVE  IInv'
<1>1. /\ file \in [Files -> Descriptors] /\ attached \in BOOLEAN
      /\ lockdown \in [fd : Files \union {None}, session : BOOLEAN]
      /\ lockdown.fd # None => file[lockdown.fd].to = "lockdown"
  BY DEF IInv, Types, Sockets
<1>2. CASE ConnectOpens
  <2>1. PICK d \in Lowest(file) :
            /\ file' = [file EXCEPT ![d] = Socket("lockdown")]
            /\ lockdown' = [lockdown EXCEPT !.fd = d]
    BY <1>2 DEF ConnectOpens
  <2>2. d \in Files
    BY LowestIsFree
  <2>3. /\ file' \in [Files -> Descriptors] /\ file'[d].to = "lockdown"
        /\ \A e \in Files : file'[e].in = file[e].in \/ file'[e].in = <<>>
        /\ \A e \in Files : file[e].to # "nothing" => file'[e] = file[e]
        /\ file[d].to = "nothing"
    <3>1. PICK to \in Services \union {"lockdown"} : to = "lockdown"
      OBVIOUS
    <3>2. file' = [file EXCEPT ![d] = Socket(to)]
      BY <2>1, <3>1
    <3>3. /\ file' \in [Files -> Descriptors] /\ file'[d].to = to
          /\ \A e \in Files : file'[e].in = file[e].in \/ file'[e].in = <<>>
          /\ \A e \in Files : file[e].to # "nothing" => file'[e] = file[e]
          /\ file[d].to = "nothing"
      BY <1>1, <3>2, NewSocket
    <3> QED
      BY <3>1, <3>3
  <2>4. LiveStands
    <3>1. wifi' = wifi /\ lockdown'.fd = d
      BY <1>1, <1>2, <2>1 DEF ConnectOpens
    <3> QED
      BY <2>2, <2>3, <3>1, NewStands DEF IInv
  <2>5. /\ lockdown' \in [fd : Files \union {None}, session : BOOLEAN]
        /\ file'[lockdown'.fd].to = "lockdown"
    BY <1>1, <2>1, <2>2, <2>3
  <2> QED
    BY <1>1, <1>2, <2>3, <2>4, <2>5, OpenPasses, StepFails DEF ConnectOpens
<1>3. CASE ConnectFails
  <2>1. CASE UNCHANGED <<lockdown, file>>
    <3>1. LiveStands
      BY <1>3, <2>1, NewStands DEF IInv, ConnectFails
    <3> QED
      BY <1>1, <1>3, <2>1, <3>1, StepFails DEF ConnectFails
  <2>2. CASE lockdown' = Unlocked /\ file' = Closed
    <3>1. LiveStands
      BY <1>3, <2>2, ClosedSockets, NewStands DEF IInv, ConnectFails, Unlocked
    <3>2. /\ file' \in [Files -> Descriptors]
          /\ \A d \in Files : file'[d].in = file[d].in \/ file'[d].in = <<>>
      BY <2>2, ClosedSockets, DescriptorTypes DEF IInv
    <3>3. lockdown'.fd = None /\ lockdown' \in [fd : Files \union {None}, session : BOOLEAN]
      BY <2>2 DEF Unlocked
    <3> QED
      BY <1>1, <1>3, <3>1, <3>2, <3>3, StepFails DEF ConnectFails
  <2>3. CASE lockdown' = lockdown /\ file' \in Refused(file, "lockdown")
    <3>1. /\ file' \in [Files -> Descriptors]
          /\ \A e \in Files : file'[e].in = file[e].in \/ file'[e].in = <<>>
          /\ \A e \in Files : file[e].to # "nothing" => file'[e] = file[e]
      BY <1>1, <2>3, RefusedSocket
    <3>2. LiveStands
      BY <1>3, <2>3, <3>1, NewStands DEF IInv, ConnectFails
    <3>3. lockdown'.fd # None => file'[lockdown'.fd].to = "lockdown"
      BY <1>1, <2>3, <3>1
    <3> QED
      BY <1>1, <1>3, <2>3, <3>1, <3>2, <3>3, StepFails DEF ConnectFails
  <2> QED
    BY <1>3, <2>1, <2>2, <2>3 DEF ConnectFails
<1> QED
  BY <1>2, <1>3

\* SDMMD_AMDeviceStartSession
LEMMA LockdownSession ==
    ASSUME IInv, SessionOpens \/ SessionFails \/ SessionReconnects
    PROVE  IInv'
<1>1. /\ file \in [Files -> Descriptors] /\ attached \in BOOLEAN
      /\ lockdown \in [fd : Files \union {None}, session : BOOLEAN]
      /\ lockdown.fd # None => file[lockdown.fd].to = "lockdown"
  BY DEF IInv, Types, Sockets
<1>2. CASE SessionOpens \/ SessionFails
  <2>1. /\ file' = file /\ held' = held /\ commands' = commands
        /\ wifi' = wifi /\ attached' = attached
    BY <1>2 DEF SessionOpens, SessionFails
  <2>3. lockdown' \in [fd : Files \union {None}, session : BOOLEAN] /\ lockdown'.fd = lockdown.fd
    BY <1>1, <1>2 DEF SessionOpens, SessionFails
  <2>2. LiveStands
    BY <2>1, <2>3, SameStands DEF IInv
  <2>4. At("session") /\ (Passed(call) \/ Failed("session"))
    BY <1>2 DEF SessionOpens, SessionFails
  <2> QED
    BY <1>1, <2>1, <2>2, <2>3, <2>4, OpenPasses, StepFails
<1>3. CASE SessionReconnects
  <2>1. /\ At("session") /\ Failed("session")
        /\ wifi' = wifi /\ attached' = attached /\ held' = held /\ commands' = commands
    BY <1>3 DEF SessionReconnects
  <2>2. /\ Closed \in [Files -> Descriptors]
        /\ \A d \in Files : Closed[d].in = file[d].in \/ Closed[d].in = <<>>
        /\ \A d \in Files : d # lockdown.fd => Closed[d] = file[d]
        /\ \A d \in Files : Closed[d] = file[d] \/ Closed[d] = Free
    BY ClosedSockets, DescriptorTypes DEF IInv
  <2>3. CASE \E d \in Lowest(Closed) :
                /\ file' = [Closed EXCEPT ![d] = Socket("lockdown")]
                /\ lockdown' = [fd |-> d, session |-> FALSE]
    <3>1. PICK d \in Lowest(Closed) :
              /\ file' = [Closed EXCEPT ![d] = Socket("lockdown")]
              /\ lockdown' = [fd |-> d, session |-> FALSE]
      BY <2>3
    <3>2. d \in Files
      BY LowestIsFree
    <3>3. /\ file' \in [Files -> Descriptors] /\ file'[d].to = "lockdown"
          /\ \A e \in Files : file'[e].in = Closed[e].in \/ file'[e].in = <<>>
          /\ \A e \in Files : Closed[e].to # "nothing" => file'[e] = Closed[e]
          /\ Closed[d].to = "nothing"
      BY <2>2, <3>1, NewSocket
    <3>4. LiveStands
      <4>1. lockdown'.fd = d
        BY <3>1
      <4>2. d = lockdown.fd \/ file[d].to = "nothing"
        BY <2>2, <3>2, <3>3
      <4>3. \A e \in Files : file[e].to # "nothing" /\ e # lockdown.fd => file'[e] = file[e]
        BY <2>2, <3>3
      <4> QED
        BY <2>1, <3>2, <4>1, <4>2, <4>3, NewStands DEF IInv
    <3>5. \A e \in Files : file'[e].in = file[e].in \/ file'[e].in = <<>>
      BY <2>2, <3>3
    <3>6. /\ lockdown' \in [fd : Files \union {None}, session : BOOLEAN]
          /\ file'[lockdown'.fd].to = "lockdown"
      BY <3>1, <3>2, <3>3
    <3> QED
      BY <1>1, <2>1, <3>3, <3>4, <3>5, <3>6, StepFails
  <2>4. CASE file' \in Refused(Closed, "lockdown") /\ lockdown' = Unlocked
    <3>1. /\ file' \in [Files -> Descriptors]
          /\ \A e \in Files : file'[e].in = Closed[e].in \/ file'[e].in = <<>>
          /\ \A e \in Files : Closed[e].to # "nothing" => file'[e] = Closed[e]
      BY <2>2, <2>4, RefusedSocket
    <3>2. \A e \in Files : file[e].to # "nothing" /\ e # lockdown.fd => file'[e] = file[e]
      BY <2>2, <3>1
    <3>3. lockdown'.fd = None /\ lockdown' \in [fd : Files \union {None}, session : BOOLEAN]
      BY <2>4 DEF Unlocked
    <3>4. LiveStands
      BY <2>1, <3>2, <3>3, NewStands DEF IInv
    <3>5. \A e \in Files : file'[e].in = file[e].in \/ file'[e].in = <<>>
      BY <2>2, <3>1
    <3> QED
      BY <1>1, <2>1, <3>1, <3>3, <3>4, <3>5, StepFails
  <2> QED
    BY <1>3, <2>3, <2>4 DEF SessionReconnects
<1> QED
  BY <1>2, <1>3

\* SDMMD_AMDeviceStopSession, SDMMD_AMDeviceDisconnect
LEMMA LockdownStops ==
    ASSUME IInv, StopSession \/ StopSessionFails \/ Disconnect
    PROVE  IInv'
<1>1. /\ file \in [Files -> Descriptors] /\ attached \in BOOLEAN
      /\ lockdown \in [fd : Files \union {None}, session : BOOLEAN]
      /\ lockdown.fd # None => file[lockdown.fd].to = "lockdown"
  BY DEF IInv, Types, Sockets
<1>2. CASE StopSession \/ StopSessionFails
  <2>1. /\ file' = file /\ held' = held /\ commands' = commands
        /\ wifi' = wifi /\ attached' = attached
    BY <1>2 DEF StopSession, StopSessionFails
  <2>3. lockdown' \in [fd : Files \union {None}, session : BOOLEAN] /\ lockdown'.fd = lockdown.fd
    BY <1>1, <1>2 DEF StopSession, StopSessionFails
  <2>2. LiveStands
    BY <2>1, <2>3, SameStands DEF IInv
  <2>4. /\ At("stop")
        /\ Passed(call) \/ (Failed("stop") /\ call.op # "SecureStartSessionedService")
    BY <1>2 DEF StopSession, StopSessionFails
  <2> QED
    BY <1>1, <2>1, <2>2, <2>3, <2>4, OpenPasses, StepFails
<1>3. CASE Disconnect
  <2>1. /\ At("disconnect") /\ Passed(call) /\ lockdown' = Unlocked /\ file' = Closed
        /\ wifi' = wifi /\ attached' = attached /\ held' = held /\ commands' = commands
    BY <1>3 DEF Disconnect
  <2>2. LiveStands
    BY <2>1, ClosedSockets, NewStands DEF IInv, Unlocked
  <2>3. /\ file' \in [Files -> Descriptors]
        /\ \A d \in Files : file'[d].in = file[d].in \/ file'[d].in = <<>>
    BY <2>1, ClosedSockets, DescriptorTypes DEF IInv
  <2>4. lockdown'.fd = None /\ lockdown' \in [fd : Files \union {None}, session : BOOLEAN]
    BY <2>1 DEF Unlocked
  <2> QED
    BY <1>1, <2>1, <2>2, <2>3, <2>4, OpenPasses
<1> QED
  BY <1>2, <1>3

\* SDMMD_AMDeviceTransferApplication
LEMMA TransferEnds ==
    ASSUME IInv, Transfer
    PROVE  IInv'
<1>1. /\ file \in [Files -> Descriptors] /\ attached \in BOOLEAN
      /\ lockdown \in [fd : Files \union {None}, session : BOOLEAN]
      /\ lockdown.fd # None => file[lockdown.fd].to = "lockdown"
  BY DEF IInv, Types, Sockets
<1>2. LiveStands
  BY SameStands DEF IInv, Transfer
<1> QED
  BY <1>1, <1>2, OpenPasses, StepFails DEF Transfer

-----------------------------------------------------------------------------
(* The calls for services preserve the invariant.                          *)

\* SDMMD_AMDeviceSecureStartService succeeds: its connection has a descriptor no
\* other connection names.
LEMMA ServiceConnects ==
    ASSUME IInv, NEW step \in Starts, ServiceStarts(step)
    PROVE  IInv'
<1> USE DEF IInv
<1>1. /\ At(step) /\ ~Idle
      /\ wifi' = wifi /\ attached' = attached /\ lockdown' = lockdown
      /\ held' = held /\ commands' = commands
  BY DEF ServiceStarts, At
<1>2. /\ file \in [Files -> Descriptors] /\ call \in Calls /\ held \in [Slots -> Connections]
      /\ call.afc \in Connections /\ call.service \in Connections
      /\ lockdown \in [fd : Files \union {None}, session : BOOLEAN]
  BY DEF Types, Calls
<1>3. step \in Services /\ PortOf(step) \in Services \union {"lockdown"}
  BY DEF Starts, Services, PortOf
<1>4. PICK d \in Lowest(file) :
          /\ file' = Handed(d, step)
          /\ Passed(Holding(NewConnection(d, step)))
  BY DEF ServiceStarts
<1>5. d \in Files /\ d # None /\ file[d] = Free
  BY LowestIsFree
<1>6. PICK c \in Connections :
          /\ c = NewConnection(d, step)
          /\ c # NoConnection /\ c.fd = d /\ c.service = step /\ c.stale = FALSE
  BY <1>3, <1>5, ConnectionTypes
<1>7. /\ file' \in [Files -> Descriptors]
      /\ file'[d] = Socket(PortOf(step)) /\ file'[d].to = PortOf(step)
      /\ file[d].to = "nothing"
      /\ \A e \in Files : file'[e].in = file[e].in \/ file'[e].in = <<>>
      /\ \A e \in Files : file[e].to # "nothing" => file'[e] = file[e]
  BY <1>2, <1>3, <1>4, NewSocket DEF Handed
<1>8. file'[d].shut = "no" /\ file'[d].todo = <<>> /\ file'[d].in = <<>> /\ file'[d].told = 0
  <2>1. LET f == Socket(PortOf(step)) IN
        f.shut = "no" /\ f.todo = <<>> /\ f.in = <<>> /\ f.told = 0
    BY <1>3, DescriptorTypes
  <2> QED
    BY <1>7, <2>1
<1>9. PICK hold : hold = Holding(c)
  OBVIOUS
<1>10. /\ hold \in Calls /\ hold.op = call.op /\ hold.result = call.result
       /\ hold.todo = call.todo /\ hold.own = call.own /\ hold.n = call.n
       /\ hold.response = call.response /\ hold.heard = call.heard
       /\ step = "afc" => /\ hold.afc = c /\ hold.service = call.service
                          /\ hold.sock = call.sock
       /\ step # "afc" => hold.afc = call.afc /\ hold.service = c /\ hold.sock = d
  BY <1>1, <1>2, <1>5, <1>6, <1>9 DEF Holding, Calls, At
<1>11. Passed(hold)
  BY <1>4, <1>6, <1>9
<1>12. /\ call' \in Calls /\ Program'
       /\ call'.todo = Tail(call.todo) /\ Len(call'.todo) = Len(call.todo) - 1
       /\ Len(call.todo) \in Nat
       /\ call'.op = call.op /\ call'.result = call.result
       /\ call'.afc = hold.afc /\ call'.service = hold.service /\ call'.sock = hold.sock
       /\ call'.own = call.own /\ call'.n = call.n
       /\ call'.response = call.response /\ call'.heard = call.heard
  BY <1>1, <1>10, <1>11, PassedCall
<1>13. Types'
  BY <1>1, <1>2, <1>7, <1>12, KeptTypes DEF Types
<1>14. Sockets'
  <2>1. lockdown'.fd # None => file'[lockdown'.fd].to = "lockdown"
    BY <1>1, <1>2, <1>7 DEF Sockets
  <2>2. ~call'.afc.stale /\ ~call'.service.stale
    BY <1>6, <1>10, <1>12 DEF Sockets
  <2>3. PICK at \in Places :
            /\ step = "afc" => at = MaxHeld + 1
            /\ step # "afc" => at = MaxHeld + 2
    BY <1>2, UsedConnections
  <2>4. \A p \in Places : /\ p = at => InUse(p)' = c \/ InUse(p)' = NoConnection
                          /\ p # at => InUse(p)' = InUse(p) \/ InUse(p)' = NoConnection
    BY <1>1, <1>10, <1>12, <2>3, BoundsAssumption DEF InUse, Slots
  <2>5. \A p \in Places : Live(InUse(p))' =>
            /\ p = at => InUse(p)' = c
            /\ p # at => InUse(p)' = InUse(p) /\ Live(InUse(p))
    BY <2>4 DEF Live
  <2>6. /\ c.fd = d /\ d # lockdown'.fd
        /\ \A p : InUse(p)' = c => Standing(InUse(p))'
    <3>1. file'[d].to = PortOf(step)'
      BY <1>1, <1>7 DEF PortOf
    <3>2. d # lockdown.fd
      BY <1>2, <1>5, <1>7 DEF Sockets
    <3> QED
      BY <1>1, <1>6, <1>8, <3>1, <3>2 DEF Standing
  <2>7. ASSUME NEW p \in Places, Live(InUse(p))
        PROVE  /\ StandsNext(InUse(p)) /\ InUse(p).fd # lockdown'.fd /\ InUse(p).fd # d
               /\ \A q \in Places \ {p} : Live(InUse(q)) => InUse(q).fd # InUse(p).fd
    <3>1. /\ InUse(p).fd \in Files /\ InUse(p).fd # lockdown.fd
          /\ Standing(InUse(p)) /\ file[InUse(p).fd].to # "nothing"
      BY <2>7, LiveSockets
    <3>2. file'[InUse(p).fd] = file[InUse(p).fd] /\ InUse(p).fd # d
      BY <1>7, <3>1
    <3>3. StandsNext(InUse(p))
      BY <3>1, <3>2 DEF Standing, StandsNext
    <3> QED
      BY <1>1, <2>7, <3>1, <3>2, <3>3 DEF Sockets
  <2>8. ASSUME NEW p \in Places, Live(InUse(p))'
        PROVE  /\ Standing(InUse(p))' /\ InUse(p)'.fd # lockdown'.fd
               /\ \A q \in Places \ {p} : Live(InUse(q))' => InUse(q)'.fd # InUse(p)'.fd
    <3>1. CASE p = at
      <4>1. InUse(p)' = c
        BY <2>5, <2>8, <3>1
      <4>2. Standing(InUse(p))' /\ InUse(p)'.fd # lockdown'.fd
        BY <2>6, <4>1
      <4>3. \A q \in Places \ {p} : Live(InUse(q))' => InUse(q)'.fd # d
        BY <2>5, <2>7, <3>1
      <4> QED
        BY <2>6, <4>1, <4>2, <4>3
    <3>2. CASE p # at
      <4>1. InUse(p)' = InUse(p) /\ Live(InUse(p))
        BY <2>5, <2>8, <3>2
      <4>2. Standing(InUse(p))' /\ InUse(p).fd # lockdown'.fd /\ InUse(p).fd # d
        BY <1>1, <2>7, <4>1, StandsOn
      <4>3. ASSUME NEW q \in Places \ {p}, Live(InUse(q))'
            PROVE  InUse(q)'.fd # InUse(p).fd
        <5>1. CASE q = at
          BY <2>5, <2>6, <4>2, <4>3, <5>1
        <5>2. CASE q # at
          BY <2>5, <2>7, <4>1, <4>3, <5>2
        <5> QED
          BY <5>1, <5>2
      <4> QED
        BY <4>1, <4>2, <4>3
    <3> QED
      BY <3>1, <3>2
  <2> QED
    BY <2>1, <2>2, <2>8 DEF Sockets
<1>15. Talking'
  <2>1. CASE step \in {"afc", "service"}
    <3>1. step \in Silent
      BY <2>1 DEF Silent, StepNames
    <3>2. step = "service" => call'.service # NoConnection
      BY <1>6, <1>10, <1>12
    <3> QED
      BY <1>1, <1>12, <3>1, <3>2, SilentTalking
  <2>2. CASE step = "proxy"
    <3>1. call'.todo # <<>> => Follows("proxy", Head(call'.todo))
      BY <1>1, <1>12, <2>2, Going DEF At
    <3>2. \A s \in {"connect", "session", "afc", "proxy", "first", "loop", "keep"} : ~At(s)'
      BY <3>1 DEF At, Idle, Follows
    <3>3. Unheard'
      BY <1>1, <1>12, <2>2 DEF Talking, Unheard
    <3>4. Mine'
      BY <1>6, <1>10, <1>12, <2>2 DEF Mine
    <3>5. call'.sock = d
      BY <1>10, <1>12, <2>2
    <3> QED
      BY <1>8, <3>2, <3>3, <3>4, <3>5 DEF Talking
  <2> QED
    BY <2>1, <2>2 DEF Starts
<1>16. Installing'
  <2>1. step \notin {"loop", "release_proxy", "release_afc", "stop", "disconnect"}
    BY DEF Starts
  <2> QED
    BY <1>1, <1>12, <2>1, EarlyInstalling
<1>17. Handing'
  <2>1. CASE call.op # "SecureStartSessionedService"
    BY <1>12, <2>1 DEF Handing
  <2>2. CASE call.op = "SecureStartSessionedService"
    <3>1. step = "service"
      BY <1>1, <2>2, SessionedPlaces DEF Starts
    <3>2. call.result = "success" /\ Len(call.todo) = 4
      BY <1>1, <2>2, <3>1, SessionedPlaces
    <3>3. Len(call'.todo) = 3
      BY <1>12, <3>2
    <3>4. Len(call'.todo) <= 3 /\ ~(Len(call'.todo) <= 1)
      BY <3>3
    <3>5. call'.service # NoConnection
      BY <1>6, <1>10, <1>12, <3>1
    <3> QED
      BY <1>12, <3>2, <3>4, <3>5 DEF Handing
  <2> QED
    BY <2>1, <2>2
<1>18. CallbackMissesNothing'
  BY <1>12 DEF CallbackMissesNothing
<1> QED
  BY <1>12, <1>13, <1>14, <1>15, <1>16, <1>17, <1>18

\* SDMMD_AMDeviceSecureStartService fails, and may leave a socket behind.
LEMMA ServiceRefused ==
    ASSUME IInv, NEW step \in Starts, ServiceFails(step)
    PROVE  IInv'
<1>1. /\ file \in [Files -> Descriptors] /\ attached \in BOOLEAN
      /\ lockdown \in [fd : Files \union {None}, session : BOOLEAN]
      /\ lockdown.fd # None => file[lockdown.fd].to = "lockdown"
  BY DEF IInv, Types, Sockets
<1>2. /\ At(step) /\ Failed(step)
      /\ wifi' = wifi /\ attached' = attached /\ lockdown' = lockdown
      /\ held' = held /\ commands' = commands
  BY DEF ServiceFails
<1>3. /\ step \notin {"disconnect", "hand_over", "stop"}
      /\ PortOf(step) \in Services \union {"lockdown"}
  BY DEF Starts, Services, PortOf
<1>4. CASE file' = file
  <2>1. LiveStands
    BY <1>2, <1>4, SameStands DEF IInv
  <2> QED
    BY <1>1, <1>2, <1>3, <1>4, <2>1, StepFails
<1>5. CASE file' \in Refused(file, PortOf(step))
  <2>1. /\ file' \in [Files -> Descriptors]
        /\ \A e \in Files : file'[e].in = file[e].in \/ file'[e].in = <<>>
        /\ \A e \in Files : file[e].to # "nothing" => file'[e] = file[e]
    BY <1>1, <1>3, <1>5, RefusedSocket
  <2>2. LiveStands
    BY <1>2, <2>1, NewStands DEF IInv
  <2>3. lockdown'.fd # None => file'[lockdown'.fd].to = "lockdown"
    BY <1>1, <1>2, <2>1
  <2> QED
    BY <1>1, <1>2, <1>3, <2>1, <2>2, <2>3, StepFails
<1> QED
  BY <1>4, <1>5 DEF ServiceFails

\* The process as it starts
LEMMA InitInvariant ==
    ASSUME Init
    PROVE  IInv
<1>1. /\ lockdown = Unlocked /\ file = [d \in Files |-> Free] /\ held = [i \in Slots |-> NoConnection]
      /\ call = NoCall /\ attached = TRUE /\ wifi \in BOOLEAN /\ commands \in 0..MaxCommands
  BY BoundsAssumption DEF Init
<1>2. /\ Idle /\ call.op = "none" /\ call.result = "none" /\ call.heard = <<>>
      /\ call.response = NoReply /\ call.sock = None
  BY <1>1 DEF NoCall, Idle
<1>3. Types
  <2>1. call \in Calls /\ call.n <= commands
    BY <1>1, ConnectionTypes DEF Calls, NoCall
  <2>2. lockdown \in [fd : Files \union {None}, session : BOOLEAN]
    BY <1>1 DEF Unlocked
  <2>3. Free \in Descriptors /\ Free.in = <<>>
    BY DescriptorTypes
  <2>4. Numbered(call.response)
    BY <1>2 DEF NoReply, Numbered
  <2>5. \A d \in Files : file[d] = Free /\ Len(file[d].in) = 0
    BY <1>1, <2>3
  <2>6. file \in [Files -> Descriptors]
    BY <1>1, <2>3
  <2> QED
    BY <1>1, <2>1, <2>2, <2>4, <2>5, <2>6, ConnectionTypes DEF Types
<1>4. Program /\ Talking /\ Installing /\ Handing
  <2>1. "none" \notin StepNames
    BY DEF StepNames
  <2> QED
    BY <1>2, <2>1 DEF Program, Talking, At, Installing, Handing
<1>5. Sockets
  <2>1. \A p \in Places : ~Live(InUse(p))
    BY <1>1, <1>2 DEF InUse, Live
  <2>2. ~NoConnection.stale
    BY ConnectionTypes
  <2> QED
    BY <1>1, <2>1, <2>2 DEF Sockets, Unlocked, NoCall
<1>6. CallbackMissesNothing
  BY <1>2 DEF CallbackMissesNothing, NoReply
<1> QED
  BY <1>3, <1>4, <1>5, <1>6 DEF IInv

\* The process as it starts again
LEMMA RestartInvariant ==
    ASSUME IInv, Restarted
    PROVE  IInv'
<1>1. /\ lockdown' = Unlocked /\ file' = [d \in Files |-> Free] /\ held' = [i \in Slots |-> NoConnection]
      /\ call' = NoCall /\ attached' = TRUE /\ wifi' \in BOOLEAN /\ commands' \in 0..MaxCommands
  BY BoundsAssumption DEF Restarted, IInv, Types
<1>2. /\ Idle' /\ call'.op = "none" /\ call'.result = "none" /\ call'.heard = <<>>
      /\ call'.response = NoReply /\ call'.sock = None
  BY <1>1 DEF NoCall, Idle
<1>3. Types'
  <2>1. call' \in Calls /\ call'.n <= commands'
    BY <1>1, ConnectionTypes DEF Calls, NoCall
  <2>2. lockdown' \in [fd : Files \union {None}, session : BOOLEAN]
    BY <1>1 DEF Unlocked
  <2>3. Free \in Descriptors /\ Free.in = <<>>
    BY DescriptorTypes
  <2>4. Numbered(call'.response)
    BY <1>2 DEF NoReply, Numbered
  <2>5. \A d \in Files : file'[d] = Free /\ Len(file'[d].in) = 0
    BY <1>1, <2>3
  <2>6. file' \in [Files -> Descriptors]
    BY <1>1, <2>3
  <2> QED
    BY <1>1, <2>1, <2>2, <2>4, <2>5, <2>6, ConnectionTypes DEF Types
<1>4. Program' /\ Talking' /\ Installing' /\ Handing'
  <2>1. "none" \notin StepNames
    BY DEF StepNames
  <2> QED
    BY <1>2, <2>1 DEF Program, Talking, At, Installing, Handing
<1>5. Sockets'
  <2>1. \A p \in Places : ~Live(InUse(p))'
    BY <1>1, <1>2 DEF InUse, Live
  <2>2. ~NoConnection.stale
    BY ConnectionTypes
  <2> QED
    BY <1>1, <2>1, <2>2 DEF Sockets, Unlocked, NoCall
<1>6. CallbackMissesNothing'
  BY <1>2 DEF CallbackMissesNothing, NoReply
<1> QED
  BY <1>3, <1>4, <1>5, <1>6 DEF IInv

\* A call is at the beginning of its program.
LEMMA CallBegins ==
    ASSUME IInv, NEW op \in DOMAIN Steps, Call(op)
    PROVE  IInv'
<1> USE DEF IInv
<1>1. /\ Idle /\ wifi' = wifi /\ attached' = attached /\ lockdown' = lockdown /\ file' = file
      /\ held' = held /\ commands' = commands
      /\ call' = [NoCall EXCEPT !.op = op, !.todo = Steps[op], !.result = "success"]
  BY DEF Call
<1>2. op # "none" /\ Steps[op] \in Seq(StepNames)
  BY ProgramTypes
<1>3. /\ call'.op = op /\ call'.todo = Steps[op] /\ call'.result = "success"
      /\ call'.afc = NoConnection /\ call'.service = NoConnection /\ call'.sock = None
      /\ call'.own = TRUE /\ call'.n = 0 /\ call'.response = NoReply /\ call'.heard = <<>>
  BY <1>1 DEF NoCall
<1>4. call' \in Calls
  <2>1. NoCall \in Calls
    BY ConnectionTypes DEF NoCall, Calls
  <2>2. op \in DOMAIN Steps \union {"none"}
    OBVIOUS
  <2> QED
    BY <1>1, <1>2, <2>1, <2>2 DEF Calls
<1>5. Types'
  <2>1. Numbered(NoReply)
    BY DEF Numbered, NoReply
  <2>2. 0 <= commands'
    BY <1>1 DEF Types
  <2> QED
    BY <1>1, <1>3, <1>4, <2>1, <2>2 DEF Types
<1>6. Program'
  <2>1. PICK k \in Nat : k = Len(Steps[op])
    BY <1>2
  <2>2. k <= k /\ \A i \in 1..k : k - k + i = i
    OBVIOUS
  <2>3. EndOf(Steps[op], Steps[op])
    BY <2>1, <2>2 DEF EndOf
  <2> QED
    BY <1>2, <1>3, <2>3 DEF Program, StepNames
<1>7. Sockets'
  <2>1. \A p \in Places : InUse(p)' = InUse(p) \/ InUse(p)' = NoConnection
    BY <1>1, <1>3 DEF InUse
  <2>2. \A p \in Places : Live(InUse(p))' => InUse(p)' = InUse(p) /\ Live(InUse(p))
    BY <2>1 DEF Live
  <2>3. ~NoConnection.stale
    BY ConnectionTypes
  <2> QED
    BY <1>1, <1>3, <2>2, <2>3 DEF Sockets, Standing, PortOf
<1>8. Talking'
  <2>1. Head(Steps[op]) \notin {"send", "first", "loop", "keep"}
    BY DEF Steps
  <2>2. ~At("send")' /\ ~At("first")' /\ ~At("loop")' /\ ~At("keep")'
    BY <1>3, <2>1 DEF At
  <2>3. Unheard'
    BY <1>3 DEF Unheard
  <2> QED
    BY <2>2, <2>3 DEF Talking
<1>9. Installing'
  <2>1. Len(Steps["InstallApp"]) = 11
    BY DEF Steps
  <2>2. PICK k \in Nat : k = Len(call'.todo)
    BY <1>2, <1>3
  <2>3. op = "InstallApp" => ~(k <= 4) /\ ~(k <= 3) /\ ~(k <= 2) /\ k # 0
    <3>1. op = "InstallApp" => k = 11
      BY <1>3, <2>1, <2>2
    <3> QED
      BY <3>1
  <2> QED
    BY <1>3, <2>2, <2>3, Zenon DEF Installing
<1>10. Handing'
  <2>1. Len(Steps["SecureStartSessionedService"]) = 6
    BY DEF Steps
  <2>2. PICK k \in Nat : k = Len(call'.todo)
    BY <1>2, <1>3
  <2>3. op = "SecureStartSessionedService" => ~(k <= 1) /\ ~(k <= 3)
    <3>1. op = "SecureStartSessionedService" => k = 6
      BY <1>3, <2>1, <2>2
    <3> HIDE DEF Steps
    <3> QED
      BY <3>1
  <2> QED
    BY <1>3, <2>2, <2>3, Zenon DEF Handing
<1>11. CallbackMissesNothing'
  BY <1>3 DEF CallbackMissesNothing, NoReply
<1> QED
  BY <1>5, <1>6, <1>7, <1>8, <1>9, <1>10, <1>11

\* An installation without a proxy has no connection of its own.
LEMMA InstallGoesOn ==
    ASSUME IInv, InstallWithoutProxy
    PROVE  IInv'
<1> USE DEF IInv
<1>1. At("proxy") /\ ~Idle /\ call.op = "InstallApp"
  BY DEF InstallWithoutProxy, At
<1>2. CASE Restarted
  BY <1>2, RestartInvariant
<1>3. CASE /\ \E d \in {None} \union {e \in Files : file[e].to # "nothing"} :
                 Passed([call EXCEPT !.own = FALSE, !.sock = d])
           /\ UNCHANGED <<wifi, attached, lockdown, file, held, commands>>
  <2>1. PICK d \in Files \union {None} : Passed([call EXCEPT !.own = FALSE, !.sock = d])
    BY <1>3
  <2> DEFINE c == [call EXCEPT !.own = FALSE, !.sock = d]
  <2>9. call \in Calls
    BY DEF Types
  <2>2. /\ c \in Calls
        /\ c.op = call.op /\ c.result = call.result /\ c.todo = call.todo
        /\ c.afc = call.afc /\ c.service = call.service
        /\ c.own = FALSE /\ c.n = call.n
        /\ c.response = call.response /\ c.heard = call.heard
    BY <2>9 DEF Calls
  <2>10. Passed(c)
    BY <2>1
  <2> HIDE DEF c
  <2>3. /\ call' \in Calls /\ Program'
        /\ call'.todo = Tail(call.todo) /\ Len(call'.todo) = Len(call.todo) - 1
        /\ Len(call.todo) \in Nat
        /\ call'.op = call.op /\ call'.result = call.result
        /\ call'.afc = call.afc /\ call'.service = call.service
        /\ call'.own = FALSE /\ call'.n = call.n
        /\ call'.response = call.response /\ call'.heard = call.heard
    BY <1>1, <2>2, <2>10, PassedCall
  <2>4. Types'
    BY <1>3, <2>3, KeptTypes DEF Types
  <2>5. Sockets'
    <3>1. LiveStands
      BY <1>3, SameStands
    <3>2. lockdown'.fd # None => file'[lockdown'.fd].to = "lockdown"
      BY <1>3 DEF Sockets
    <3> QED
      BY <1>1, <1>3, <2>3, <3>1, <3>2, KeptSockets
  <2>6. Talking'
    <3>1. call'.todo # <<>> => Follows("proxy", Head(call'.todo))
      BY <1>1, <2>3, Going DEF At
    <3>2. ~At("first")' /\ ~At("loop")' /\ ~At("keep")'
      BY <3>1 DEF At, Idle, Follows
    <3>3. Unheard'
      BY <1>1, <2>3 DEF Talking, Unheard
    <3> QED
      BY <2>3, <3>2, <3>3 DEF Talking
  <2>7. Installing'
    BY <1>1, <2>3, EarlyInstalling
  <2>8. Handing' /\ CallbackMissesNothing'
    BY <1>1, <2>3 DEF Handing, CallbackMissesNothing
  <2> QED
    BY <2>3, <2>4, <2>5, <2>6, <2>7, <2>8
<1> QED
  BY <1>2, <1>3 DEF InstallWithoutProxy

\* The caller gets a connection of the call in a place of its own.
LEMMA HandedOver ==
    ASSUME Types, Sockets, ~Idle, Idle', call.service # NoConnection,
           NEW c \in Connections, HandOver(c),
           c.fd = call.service.fd, c.stale \/ c = call.service,
           call'.afc = call.afc, call'.service = call.service,
           wifi' = wifi, lockdown' = lockdown,
           \A d \in Files : d # c.fd \/ c = call.service => file'[d] = file[d]
    PROVE  held' \in [Slots -> Connections] /\ Sockets'
<1>1. /\ held \in [Slots -> Connections] /\ call.service \in Connections
      /\ lockdown \in [fd : Files \union {None}, session : BOOLEAN]
  BY DEF Types, Calls
<1>2. PICK i \in Slots : held' = [held EXCEPT ![i] = c]
  BY DEF HandOver
<1>3. /\ held' \in [Slots -> Connections] /\ held'[i] = c
      /\ \A p \in Slots : p # i => held'[p] = held[p]
  BY <1>1, <1>2
<1>4. PICK at \in Places \ Slots : at = MaxHeld + 2 /\ InUse(at) = call.service
  BY UsedConnections
<1>5. Live(InUse(at)) /\ ~call.afc.stale /\ ~call.service.stale
  BY <1>4 DEF Live, Sockets
<1>6. ASSUME NEW p \in Places, Live(InUse(p))'
      PROVE  \/ p = i /\ InUse(p)' = InUse(at)
             \/ p # i /\ p # at /\ InUse(p)' = InUse(p) /\ Live(InUse(p))
  <2>1. p \in Slots
    BY <1>6 DEF InUse, Live
  <2>2. InUse(p)' = held'[p] /\ InUse(p) = held[p]
    BY <2>1, HeldPlaces
  <2>3. CASE p = i
    <3>1. InUse(p)' = c
      BY <1>3, <2>2, <2>3
    <3>2. ~c.stale
      BY <1>6, <3>1 DEF Live
    <3> QED
      BY <1>4, <2>3, <3>1, <3>2
  <2>4. CASE p # i
    BY <1>3, <1>4, <1>6, <2>1, <2>2, <2>4 DEF Live
  <2> QED
    BY <2>3, <2>4
<1>7. ASSUME NEW p \in Places, Live(InUse(p)), p # at \/ c = call.service
      PROVE  StandsNext(InUse(p)) /\ InUse(p).fd # lockdown'.fd
  <2>1. /\ InUse(p).fd \in Files /\ InUse(p).fd # lockdown.fd /\ Standing(InUse(p))
    BY <1>7, LiveSockets
  <2>2. InUse(p).fd # c.fd \/ c = call.service
    BY <1>4, <1>5, <1>7 DEF Sockets
  <2>3. file'[InUse(p).fd] = file[InUse(p).fd]
    BY <2>1, <2>2
  <2> QED
    BY <2>1, <2>3 DEF Standing, StandsNext
<1>8. ASSUME NEW p \in Places, Live(InUse(p))'
      PROVE  /\ Standing(InUse(p))' /\ InUse(p)'.fd # lockdown'.fd
             /\ \A q \in Places \ {p} : Live(InUse(q))' => InUse(q)'.fd # InUse(p)'.fd
  <2>1. CASE p = i
    <3>1. InUse(p)' = InUse(at) /\ InUse(p)' = c
      BY <1>3, <1>6, <1>8, <2>1 DEF InUse
    <3>2. c = call.service
      BY <1>4, <3>1
    <3>3. Standing(InUse(p))' /\ InUse(p)'.fd # lockdown'.fd
      BY <1>5, <1>7, <3>1, <3>2, StandsOn
    <3>4. \A q \in Places \ {p} : Live(InUse(q))' => InUse(q)'.fd # InUse(at).fd
      BY <1>5, <1>6, <2>1 DEF Sockets
    <3> QED
      BY <3>1, <3>3, <3>4
  <2>2. CASE p # i
    <3>1. InUse(p)' = InUse(p) /\ Live(InUse(p)) /\ p # at
      BY <1>6, <1>8, <2>2
    <3>2. Standing(InUse(p))' /\ InUse(p)'.fd # lockdown'.fd
      BY <1>7, <3>1, StandsOn
    <3>3. \A q \in Places \ {p} : Live(InUse(q))' => InUse(q)'.fd # InUse(p).fd
      BY <1>5, <1>6, <3>1 DEF Sockets
    <3> QED
      BY <3>1, <3>2, <3>3
  <2> QED
    BY <2>1, <2>2
<1>9. lockdown'.fd # None => file'[lockdown'.fd].to = "lockdown"
  <2> SUFFICES ASSUME lockdown.fd # None
               PROVE  file'[lockdown.fd].to = "lockdown"
    OBVIOUS
  <2>1. lockdown.fd \in Files /\ lockdown.fd # c.fd
    BY <1>1, <1>4, <1>5, LiveSockets
  <2> QED
    BY <2>1 DEF Sockets
<1> QED
  BY <1>3, <1>5, <1>8, <1>9 DEF Sockets

\* SDMMD_AMDeviceStartService closes no socket but its own.
LEMMA StartServiceInvariant ==
    ASSUME IInv, StartServiceEnds
    PROVE  IInv'
<1> USE DEF IInv
<1>1. /\ At("keep") /\ ~Idle /\ Head(call.todo) = "keep"
      /\ wifi' = wifi /\ attached' = attached /\ lockdown' = lockdown /\ commands' = commands
  BY DEF StartServiceEnds, At
<1>2. /\ call \in Calls /\ call.service \in Connections /\ file \in [Files -> Descriptors]
      /\ lockdown \in [fd : Files \union {None}, session : BOOLEAN]
  BY DEF Types, Calls
<1>3. call.service # NoConnection /\ call.service.fd \in Files
  BY <1>1, <1>2, ConnectionTypes DEF Talking
<1>4. call.op # "SecureStartSessionedService"
  BY <1>1, SessionedPlaces
<1>5. CASE HandOver(call.service) /\ file' = file /\ Passed(call)
  <2>1. /\ call' \in Calls /\ Program'
        /\ call'.todo = Tail(call.todo) /\ Len(call'.todo) = Len(call.todo) - 1
        /\ Len(call.todo) \in Nat
        /\ call'.op = call.op /\ call'.result = call.result
        /\ call'.afc = call.afc /\ call'.service = call.service /\ call'.n = call.n
        /\ call'.own = call.own
        /\ call'.response = call.response /\ call'.heard = call.heard
    BY <1>1, <1>2, <1>5, PassedCall
  <2>2. Idle'
    <3>1. \A s : ~Follows("keep", s)
      BY DEF Follows
    <3> QED
      BY <1>1, <2>1, <3>1, Going DEF Idle
  <2>3. held' \in [Slots -> Connections] /\ Sockets'
    BY <1>1, <1>2, <1>3, <1>5, <2>1, <2>2, HandedOver
  <2>4. Types'
    BY <1>1, <1>2, <1>5, <2>1, <2>3, KeptTypes DEF Types
  <2>5. Installing'
    BY <1>1, <2>1, EarlyInstalling
  <2>6. Handing'
    BY <1>4, <2>1 DEF Handing
  <2> QED
    BY <2>1, <2>2, <2>3, <2>4, <2>5, <2>6, IdleTalking DEF CallbackMissesNothing
<1>6. CASE /\ HandOver([call.service EXCEPT !.stale = TRUE])
           /\ file' = [file EXCEPT ![call.service.fd] = Free]
           /\ Failed("keep")
  <2>1. /\ call' \in Calls /\ Program' /\ call'.result = "keep" /\ call'.op = call.op
        /\ call'.todo = Cleanup("keep")
        /\ call'.afc = call.afc /\ call'.service = call.service /\ call'.n = call.n
        /\ call'.own = call.own
        /\ call'.response = call.response /\ call'.heard = call.heard
    BY <1>1, <1>6, FailedCall
  <2>2. Idle'
    BY <2>1, Cleanups DEF Idle
  <2>3. PICK c \in Connections :
            /\ c = [call.service EXCEPT !.stale = TRUE]
            /\ c.fd = call.service.fd /\ c.stale
    <3>1. call.service \in [fd : Files, service : Services, stale : BOOLEAN]
      BY <1>2, <1>3 DEF Connections
    <3>2. [call.service EXCEPT !.stale = TRUE] \in Connections
      BY <3>1 DEF Connections
    <3> QED
      BY <3>1, <3>2
  <2>4. /\ file' \in [Files -> Descriptors]
        /\ \A d \in Files : file'[d].in = file[d].in \/ file'[d].in = <<>>
        /\ \A d \in Files : d # call.service.fd => file'[d] = file[d]
    BY <1>2, <1>3, <1>6, DescriptorTypes
  <2>5. ~call.service.stale /\ HandOver(c)
    BY <1>6, <2>3 DEF Sockets
  <2>6. held' \in [Slots -> Connections] /\ Sockets'
    BY <1>1, <1>3, <2>1, <2>2, <2>3, <2>4, <2>5, HandedOver
  <2>7. Types'
    BY <1>1, <1>2, <2>1, <2>4, <2>6, KeptTypes DEF Types
  <2>8. Installing'
    BY <2>1, FailedInstalling
  <2>9. Handing'
    BY <1>4, <2>1 DEF Handing
  <2> QED
    BY <2>1, <2>2, <2>6, <2>7, <2>8, <2>9, IdleTalking DEF CallbackMissesNothing
<1> QED
  BY <1>5, <1>6 DEF StartServiceEnds

\* SDMMD_AMDeviceSecureStartSessionedService hands the connection over.
LEMMA SessionedInvariant ==
    ASSUME IInv, SessionedEnds
    PROVE  IInv'
<1> USE DEF IInv
<1>1. /\ At("hand_over") /\ ~Idle /\ Passed(call)
      /\ IF call.service = NoConnection THEN UNCHANGED held ELSE HandOver(call.service)
      /\ wifi' = wifi /\ attached' = attached /\ lockdown' = lockdown /\ file' = file
      /\ commands' = commands
  BY DEF SessionedEnds, At
<1>2. call \in Calls /\ call.service \in Connections /\ held \in [Slots -> Connections]
  BY DEF Types, Calls
<1>3. /\ call' \in Calls /\ Program'
      /\ call'.todo = Tail(call.todo) /\ Len(call'.todo) = Len(call.todo) - 1
      /\ Len(call.todo) \in Nat
      /\ call'.op = call.op /\ call'.result = call.result
      /\ call'.afc = call.afc /\ call'.service = call.service /\ call'.sock = call.sock
      /\ call'.own = call.own /\ call'.n = call.n
      /\ call'.response = call.response /\ call'.heard = call.heard
  BY <1>1, <1>2, PassedCall
<1>4. Idle'
  <2>1. \A s : ~Follows("hand_over", s)
    BY DEF Follows
  <2> QED
    BY <1>1, <1>3, <2>1, Going DEF At, Idle
<1>5. held' \in [Slots -> Connections] /\ Sockets'
  <2>1. CASE call.service = NoConnection
    <3>1. held' = held
      BY <1>1, <2>1
    <3>2. LiveStands
      BY <1>1, SameStands
    <3>3. lockdown'.fd # None => file'[lockdown'.fd].to = "lockdown"
      BY <1>1 DEF Sockets
    <3> QED
      BY <1>2, <1>3, <1>4, <3>1, <3>2, <3>3, KeptSockets
  <2>2. CASE call.service # NoConnection
    BY <1>1, <1>2, <1>3, <1>4, <2>2, HandedOver
  <2> QED
    BY <2>1, <2>2
<1>6. Types'
  BY <1>1, <1>3, <1>5, KeptTypes DEF Types
<1>7. Installing'
  BY <1>1, <1>3, EarlyInstalling
<1>8. Handing'
  <2>1. "hand_over" # "service"
    OBVIOUS
  <2> QED
    BY <1>1, <1>3, <2>1, NextHanding
<1> QED
  BY <1>3, <1>4, <1>5, <1>6, <1>7, <1>8, IdleTalking DEF CallbackMissesNothing

\* The caller releases a connection; only a stale one shuts down another's socket.
LEMMA ReleaseInvariant ==
    ASSUME IInv, NEW i \in Slots, Release(i)
    PROVE  IInv'
<1>1. CASE Restarted
  BY <1>1, RestartInvariant
<1>2. CASE /\ file' = ShutDown(held[i])
           /\ held' = [held EXCEPT ![i] = NoConnection]
           /\ call' = NoCall
           /\ UNCHANGED <<wifi, attached, lockdown, commands>>
  <2> USE DEF IInv
  <2>1. /\ Idle /\ held \in [Slots -> Connections] /\ held[i] \in Connections
        /\ held[i] # NoConnection
        /\ lockdown \in [fd : Files \union {None}, session : BOOLEAN]
    BY DEF Release, Types
  <2>2. /\ file' \in [Files -> Descriptors]
        /\ \A d \in Files : file'[d].to = file[d].to
        /\ \A d \in Files : file'[d].in = file[d].in \/ file'[d].in = <<>>
        /\ \A d \in Files : d # held[i].fd => file'[d] = file[d]
        /\ held[i].stale => \A d \in Files :
              file[d].shut # "owner" => file'[d].shut # "owner"
    BY <1>2, <2>1, ShutDownSockets
  <2>3. /\ held' \in [Slots -> Connections] /\ held'[i] = NoConnection
        /\ \A p \in Slots : p # i => held'[p] = held[p]
    BY <1>2, <2>1, ConnectionTypes
  <2>4. /\ Idle' /\ call'.op = "none" /\ call'.result = "none" /\ call'.heard = <<>>
        /\ call'.response = NoReply /\ call'.n = 0
        /\ call'.afc = NoConnection /\ call'.service = NoConnection
    BY <1>2 DEF NoCall, Idle
  <2>5. Types'
    <3>1. call' \in Calls /\ call'.n <= commands'
      <4>1. call' \in Calls
        BY <1>2, ConnectionTypes DEF Calls, NoCall
      <4>2. commands' \in 0..MaxCommands /\ call'.n = 0
        BY <1>2, <2>4 DEF Types
      <4> QED
        BY <4>1, <4>2, BoundsAssumption
    <3>2. Numbered(call'.response)
      BY <2>4 DEF NoReply, Numbered
    <3>3. ASSUME NEW d \in Files, NEW j \in 1..Len(file'[d].in)
          PROVE  Numbered(file'[d].in[j])
      <4>1. file'[d].in # <<>>
        OBVIOUS
      <4>2. file'[d].in = file[d].in
        BY <2>2, <4>1
      <4> QED
        BY <4>2 DEF Types
    <3> QED
      BY <1>2, <2>2, <2>3, <3>1, <3>2, <3>3 DEF Types
  <2>6. Program' /\ Talking' /\ Installing' /\ Handing'
    <3>1. "none" \notin StepNames
      BY DEF StepNames
    <3> QED
      BY <2>4, <3>1 DEF Program, Talking, At, Installing, Handing
  <2>7. CallbackMissesNothing'
    BY <2>4 DEF CallbackMissesNothing, NoReply
  <2>8. Sockets'
    <3>1. ASSUME NEW p \in Places, Live(InUse(p))'
          PROVE  InUse(p)' = InUse(p) /\ Live(InUse(p)) /\ p # i
      <4>1. p \in Slots
        BY <2>4, <3>1 DEF InUse, Live
      <4>2. InUse(p)' = held'[p] /\ InUse(p) = held[p]
        BY <4>1, HeldPlaces
      <4>3. p # i
        BY <2>3, <3>1, <4>2 DEF Live
      <4> QED
        BY <2>3, <3>1, <4>1, <4>2, <4>3 DEF Live
    <3>2. ASSUME NEW p \in Places, Live(InUse(p)), p # i
          PROVE  StandsNext(InUse(p)) /\ InUse(p).fd # lockdown'.fd
      <4>1. /\ InUse(p).fd \in Files /\ InUse(p).fd # lockdown.fd /\ Standing(InUse(p))
        BY <3>2, LiveSockets
      <4>2. i \in Places /\ InUse(i) = held[i]
        BY UsedConnections
      <4>3. held[i].stale \/ InUse(p).fd # held[i].fd
        BY <2>1, <3>2, <4>2 DEF Sockets, Live
      <4>4. /\ file'[InUse(p).fd].to = file[InUse(p).fd].to
            /\ file'[InUse(p).fd].shut # "owner"
        BY <2>2, <4>1, <4>3 DEF Standing
      <4> QED
        BY <1>2, <4>1, <4>4 DEF Standing, StandsNext
    <3>3. ASSUME NEW p \in Places, Live(InUse(p))'
          PROVE  /\ Standing(InUse(p))' /\ InUse(p)'.fd # lockdown'.fd
                 /\ \A q \in Places \ {p} : Live(InUse(q))' => InUse(q)'.fd # InUse(p)'.fd
      <4>1. InUse(p)' = InUse(p) /\ Live(InUse(p)) /\ p # i
        BY <3>1, <3>3
      <4>2. \A q \in Places \ {p} : Live(InUse(q))' => InUse(q)'.fd # InUse(p).fd
        BY <3>1, <4>1 DEF Sockets
      <4>3. Standing(InUse(p))' /\ InUse(p)'.fd # lockdown'.fd
        BY <1>2, <3>2, <4>1, StandsOn
      <4> QED
        BY <4>1, <4>2, <4>3
    <3>4. lockdown'.fd # None => file'[lockdown'.fd].to = "lockdown"
      BY <1>2, <2>1, <2>2 DEF Sockets
    <3>5. ~call'.afc.stale /\ ~call'.service.stale
      BY <2>4, ConnectionTypes
    <3> QED
      BY <3>3, <3>4, <3>5 DEF Sockets
  <2> QED
    BY <2>5, <2>6, <2>7, <2>8
<1> QED
  BY <1>1, <1>2 DEF Release

\* A call releases its connection, and no other is shut down.
LEMMA DropInvariant ==
    ASSUME IInv, NEW step, NEW c, Drop(step, c),
           \/ step = "release_proxy" /\ c = call.service
           \/ step = "release_afc" /\ c = call.afc
    PROVE  IInv'
<1> USE DEF IInv
<1>1. /\ At(step) /\ ~Idle
      /\ file' = ShutDown(c) /\ held' = held
      /\ UNCHANGED <<wifi, attached, lockdown, held, commands>>
  BY DEF Drop, At
<1>2. /\ call \in Calls /\ call.service \in Connections /\ call.afc \in Connections
      /\ held \in [Slots -> Connections] /\ c \in Connections
      /\ lockdown \in [fd : Files \union {None}, session : BOOLEAN]
  BY DEF Types, Calls
<1> DEFINE left == [call EXCEPT !.afc = IF @ = c THEN NoConnection ELSE @,
                                !.service = IF @ = c THEN NoConnection ELSE @]
<1>3. Passed(left)
  BY DEF Drop
<1>4. /\ left \in Calls
      /\ left.op = call.op /\ left.result = call.result /\ left.todo = call.todo
      /\ left.sock = call.sock /\ left.own = call.own /\ left.n = call.n
      /\ left.response = call.response /\ left.heard = call.heard
      /\ left.afc = IF call.afc = c THEN NoConnection ELSE call.afc
      /\ left.service = IF call.service = c THEN NoConnection ELSE call.service
  BY <1>2, ConnectionTypes DEF Calls
<1> HIDE DEF left
<1>5. /\ call' \in Calls /\ Program'
      /\ call'.todo = Tail(call.todo) /\ Len(call'.todo) = Len(call.todo) - 1
      /\ Len(call.todo) \in Nat
      /\ call'.op = call.op /\ call'.result = call.result
      /\ call'.afc = left.afc /\ call'.service = left.service /\ call'.sock = call.sock
      /\ call'.own = call.own /\ call'.n = call.n
      /\ call'.response = call.response /\ call'.heard = call.heard
  BY <1>1, <1>3, <1>4, PassedCall
<1>6. /\ file' \in [Files -> Descriptors]
      /\ \A d \in Files : file'[d].to = file[d].to
      /\ \A d \in Files : file'[d].in = file[d].in \/ file'[d].in = <<>>
      /\ \A d \in Files : c = NoConnection \/ d # c.fd => file'[d] = file[d]
  BY <1>1, <1>2, ShutDownSockets
<1>7. Types'
  BY <1>1, <1>2, <1>5, <1>6, KeptTypes DEF Types
<1>8. Sockets'
  <2>1. lockdown'.fd # None => file'[lockdown'.fd].to = "lockdown"
    BY <1>1, <1>2, <1>6 DEF Sockets
  <2>2. ~call'.afc.stale /\ ~call'.service.stale
    BY <1>4, <1>5, ConnectionTypes DEF Sockets
  <2>3. PICK at \in Places : InUse(at) = c /\ InUse(at)' = NoConnection
    <3>1. /\ MaxHeld + 1 \in Places \ Slots /\ MaxHeld + 2 \in Places \ Slots
          /\ MaxHeld + 1 # MaxHeld + 2
          /\ InUse(MaxHeld + 1) = call.afc /\ InUse(MaxHeld + 2) = call.service
      BY <1>1, UsedConnections
    <3>2. CASE c = call.afc
      <4>1. InUse(MaxHeld + 1)' = NoConnection
        BY <1>4, <1>5, <3>1, <3>2 DEF InUse
      <4> QED
        BY <3>1, <3>2, <4>1
    <3>3. CASE c = call.service
      <4>1. InUse(MaxHeld + 2)' = NoConnection
        BY <1>4, <1>5, <3>1, <3>3 DEF InUse
      <4> QED
        BY <3>1, <3>3, <4>1
    <3> QED
      BY <3>2, <3>3
  <2>4. \A p \in Places : InUse(p)' = InUse(p) \/ InUse(p)' = NoConnection
    BY <1>1, <1>4, <1>5 DEF InUse
  <2>5. \A p \in Places : Live(InUse(p))' =>
            InUse(p)' = InUse(p) /\ Live(InUse(p)) /\ p # at
    BY <2>3, <2>4 DEF Live
  <2>6. c = NoConnection \/ Live(InUse(at))
    BY <2>2, <2>3 DEF Live, Sockets
  <2>7. ASSUME NEW p \in Places, Live(InUse(p)), p # at
        PROVE  StandsNext(InUse(p)) /\ InUse(p).fd # lockdown'.fd
    <3>1. /\ InUse(p).fd \in Files /\ InUse(p).fd # lockdown.fd /\ Standing(InUse(p))
      BY <2>7, LiveSockets
    <3>2. c = NoConnection \/ InUse(p).fd # c.fd
      BY <2>3, <2>6, <2>7 DEF Sockets
    <3>3. file'[InUse(p).fd] = file[InUse(p).fd]
      BY <1>6, <3>1, <3>2
    <3> QED
      BY <1>1, <3>1, <3>3 DEF Standing, StandsNext
  <2>8. ASSUME NEW p \in Places, Live(InUse(p))'
        PROVE  /\ Standing(InUse(p))' /\ InUse(p)'.fd # lockdown'.fd
               /\ \A q \in Places \ {p} : Live(InUse(q))' => InUse(q)'.fd # InUse(p)'.fd
    <3>1. InUse(p)' = InUse(p) /\ Live(InUse(p)) /\ p # at
      BY <2>5, <2>8
    <3>2. \A q \in Places \ {p} : Live(InUse(q))' => InUse(q)'.fd # InUse(p).fd
      BY <2>5, <3>1 DEF Sockets
    <3>3. Standing(InUse(p))' /\ InUse(p)'.fd # lockdown'.fd
      BY <1>1, <2>7, <3>1, StandsOn
    <3> QED
      BY <3>1, <3>2, <3>3
  <2> QED
    BY <2>1, <2>2, <2>8 DEF Sockets
<1>9. Talking'
  <2>1. step \in Silent
    BY DEF Silent, StepNames
  <2> QED
    BY <1>1, <1>5, <2>1, SilentTalking
<1>10. Installing'
  BY <1>1, <1>4, <1>5, LateInstalling
<1>11. Handing'
  <2>1. step # "service" /\ step \in {"release_proxy", "release_afc"}
    OBVIOUS
  <2> QED
    BY <1>1, <1>5, <2>1, NextHanding
<1>12. CallbackMissesNothing'
  BY <1>5 DEF CallbackMissesNothing
<1> QED
  BY <1>5, <1>7, <1>8, <1>9, <1>10, <1>11, <1>12

-----------------------------------------------------------------------------
(* Lemmas about what a proxy sends.                                        *)

\* Indices after the first message is taken
LEMMA Shifted ==
    \A i \in Nat, k \in Nat, l \in Nat :
        i >= 1 /\ i <= l - 1 =>
            /\ i + 1 \in 1..l
            /\ k + (i + 1) = k + 1 + i
            /\ i + 1 = l => i = l - 1
            /\ k + (i + 1) - 1 = k + 1 + i - 1
  OBVIOUS

\* The sum of what was sent stays.
LEMMA Moved ==
    \A k \in Nat, l \in Nat : k + l = k + 1 + (l - 1)
  OBVIOUS

\* The oldest message is the next of its command, and the rest are still in line.
LEMMA LineTaken ==
    ASSUME NEW f \in Descriptors, NEW n, NEW k \in Nat, LineOf(f, n, k), f.in # <<>>
    PROVE  /\ Head(f.in) \in Replies /\ Head(f.in).n = n
           /\ Head(f.in).kind = "progress" =>
                 Head(f.in).k = k + 1 /\ LineOf([f EXCEPT !.in = Tail(@)], n, k + 1)
           /\ Head(f.in).kind # "progress" => Head(f.in).k = k
<1>1. /\ f.in \in Seq(Replies) /\ f.todo \in Seq(Commands) /\ f.told \in 0..MaxProgress
  BY DEF Descriptors
<1>2. PICK l \in Nat : l = Len(f.in) /\ l >= 1
  BY <1>1, EmptySeq
<1>3. Head(f.in) = f.in[1] /\ Head(f.in) \in Replies
  BY <1>1, <1>2
<1>4. 1 \in 1..l /\ k + 1 - 1 = k
  BY <1>2
<1>5. /\ f.in[1].n = n /\ (f.in[1].kind = "progress" => f.in[1].k = k + 1)
      /\ f.in[1].kind # "progress" => f.in[1].k = k + 1 - 1
  BY <1>2, <1>4, Zenon DEF LineOf
<1>6. ASSUME Head(f.in).kind = "progress"
      PROVE  LineOf([f EXCEPT !.in = Tail(@)], n, k + 1)
  <2> DEFINE g == [f EXCEPT !.in = Tail(@)]
  <2>1. g.in = Tail(f.in) /\ g.todo = f.todo /\ g.told = f.told
    BY DEF Descriptors
  <2>2. /\ Tail(f.in) \in Seq(Replies) /\ Len(Tail(f.in)) = l - 1
        /\ \A i \in 1..(l - 1) : Tail(f.in)[i] = f.in[i + 1]
    BY <1>1, <1>2, HeadTailProperties
  <2> HIDE DEF g
  <2>3. ASSUME NEW i \in 1..(l - 1)
        PROVE  /\ g.in[i].n = n
               /\ g.in[i].kind = "progress" => g.in[i].k = k + 1 + i
               /\ g.in[i].kind # "progress" =>
                     i = l - 1 /\ g.in[i].k = k + 1 + i - 1 /\ g.todo = <<>>
    <3>0. i \in Nat /\ i >= 1 /\ i <= l - 1
      BY <1>2
    <3>1. /\ i + 1 \in 1..l
          /\ k + (i + 1) = k + 1 + i
          /\ i + 1 = l => i = l - 1
          /\ k + (i + 1) - 1 = k + 1 + i - 1
      BY <1>2, <3>0, Shifted, Zenon
    <3>2. g.in[i] = f.in[i + 1]
      BY <2>1, <2>2
    <3>3. /\ f.in[i + 1].n = n
          /\ f.in[i + 1].kind = "progress" => f.in[i + 1].k = k + (i + 1)
          /\ f.in[i + 1].kind # "progress" =>
                i + 1 = l /\ f.in[i + 1].k = k + (i + 1) - 1 /\ f.todo = <<>>
      BY <1>2, <3>1, Zenon DEF LineOf
    <3> QED
      BY <2>1, <3>1, <3>2, <3>3, Zenon
  <2>4. Len(g.in) = l - 1
    BY <2>1, <2>2
  <2>5. \/ g.todo = <<>>
        \/ Len(g.todo) = 1 /\ g.todo[1] = n /\ g.told = k + 1 + Len(g.in)
    <3>1. \/ f.todo = <<>>
          \/ Len(f.todo) = 1 /\ f.todo[1] = n /\ f.told = k + Len(f.in)
      BY DEF LineOf
    <3>2. k + l = k + 1 + (l - 1)
      BY <1>2, Moved
    <3> QED
      BY <1>2, <2>1, <2>4, <3>1, <3>2, Zenon
  <2>6. LineOf(g, n, k + 1)
    BY <2>3, <2>4, <2>5, Zenon DEF LineOf
  <2> QED
    BY <2>6 DEF g
<1> QED
  BY <1>2, <1>3, <1>4, <1>5, <1>6

\* The proxy sends another message about the command, or the last one.
LEMMA LineGrows ==
    ASSUME NEW f \in Descriptors, NEW g \in Descriptors, NEW n, NEW k \in Nat,
           LineOf(f, n, k), f.todo # <<>>, NEW reply \in Replies,
           g.in = Append(f.in, reply), reply.n = Head(f.todo),
           \/ /\ reply.kind = "progress" /\ reply.k = f.told + 1
              /\ g.todo = f.todo /\ g.told = f.told + 1
           \/ /\ reply.kind # "progress" /\ reply.k = f.told
              /\ g.todo = Tail(f.todo)
    PROVE  LineOf(g, n, k)
<1>1. /\ f.in \in Seq(Replies) /\ f.todo \in Seq(Commands) /\ f.told \in Nat
  BY DEF Descriptors
<1>2. PICK l \in Nat : l = Len(f.in)
  BY <1>1
<1>3. Len(f.todo) = 1 /\ f.todo[1] = n /\ f.told = k + l
  BY <1>2 DEF LineOf
<1>4. Head(f.todo) = n /\ Tail(f.todo) = <<>>
  <2>1. Head(f.todo) = f.todo[1] /\ Tail(f.todo) \in Seq(Commands) /\ Len(Tail(f.todo)) = 0
    BY <1>1, <1>3, HeadTailProperties
  <2> QED
    BY <1>3, <2>1, EmptySeq
<1>5. /\ Len(g.in) = l + 1 /\ g.in[l + 1] = reply
      /\ \A i \in 1..l : g.in[i] = f.in[i]
  BY <1>1, <1>2, AppendProperties
<1>6. \A i \in 1..l : f.in[i].n = n /\ f.in[i].kind = "progress" /\ f.in[i].k = k + i
  BY <1>2 DEF LineOf
<1>7. /\ reply.n = n
      /\ reply.kind = "progress" =>
            reply.k = k + (l + 1) /\ g.todo = f.todo /\ g.told = k + (l + 1)
      /\ reply.kind # "progress" => reply.k = k + (l + 1) - 1 /\ g.todo = <<>>
  <2>1. f.told + 1 = k + (l + 1) /\ f.told = k + (l + 1) - 1
    BY <1>2, <1>3
  <2> QED
    BY <1>4, <2>1
<1>8. ASSUME NEW i \in 1..(l + 1)
      PROVE  /\ g.in[i].n = n
             /\ g.in[i].kind = "progress" => g.in[i].k = k + i
             /\ g.in[i].kind # "progress" =>
                   i = l + 1 /\ g.in[i].k = k + i - 1 /\ g.todo = <<>>
  <2>1. CASE i = l + 1
    BY <1>4, <1>5, <1>7, <2>1
  <2>2. CASE i # l + 1
    <3>1. i \in 1..l
      BY <1>2, <2>2
    <3> QED
      BY <1>5, <1>6, <3>1
  <2> QED
    BY <2>1, <2>2
<1>9. \/ g.todo = <<>>
      \/ Len(g.todo) = 1 /\ g.todo[1] = n /\ g.told = k + Len(g.in)
  BY <1>3, <1>5, <1>7
<1> QED
  BY <1>5, <1>8, <1>9, Zenon DEF LineOf

\* A peer that leaves sends no more.
LEMMA LineEnds ==
    ASSUME NEW f \in Descriptors, NEW n, NEW k \in Nat, LineOf(f, n, k)
    PROVE  LineOf(Gone(f), n, k)
<1>1. Gone(f).in = f.in /\ Gone(f).todo = <<>>
  BY DescriptorTypes
<1> QED
  BY <1>1, Zenon DEF LineOf

\* What the callback heard: every message, in order, each once or more
InOrder(heard) ==
    /\ heard # <<>> => heard[1] = 1
    /\ \A i \in 1..(Len(heard) - 1) : heard[i + 1] \in {heard[i], heard[i] + 1}

\* The callback hears of the next message, or of the last one again.
LEMMA ToldNext ==
    ASSUME NEW heard \in Seq(1..MaxProgress), NEW message,
           message.k \in 1..MaxProgress
    PROVE  /\ Told(heard, message) \in Seq(1..MaxProgress)
           /\ InOrder(heard) /\ message.k \in {LastOf(heard), LastOf(heard) + 1}
              => InOrder(Told(heard, message)) /\ LastOf(Told(heard, message)) = message.k
<1>1. PICK l \in Nat : l = Len(heard)
  OBVIOUS
<1>2. PICK m \in 1..MaxProgress : m = message.k
  OBVIOUS
<1>3. CASE Told(heard, message) = heard
  <2>1. CASE LastOf(heard) = m
    BY <1>2, <1>3, <2>1
  <2>2. CASE LastOf(heard) # m
    <3>1. heard = Append(heard, m)
      BY <1>2, <1>3, <2>2 DEF Told
    <3>2. Len(Append(heard, m)) = l + 1
      BY <1>1, AppendProperties
    <3> QED
      BY <1>1, <3>1, <3>2
  <2> QED
    BY <2>1, <2>2
<1>4. CASE Told(heard, message) # heard
  <2> DEFINE new == Append(heard, m)
  <2>1. Told(heard, message) = new
    BY <1>2, <1>4 DEF Told
  <2>2. /\ new \in Seq(1..MaxProgress) /\ Len(new) = l + 1 /\ new[l + 1] = m
        /\ \A i \in 1..l : new[i] = heard[i]
    BY <1>1, AppendProperties
  <2> HIDE DEF new
  <2>3. new # <<>> /\ LastOf(new) = m
    BY <1>1, <2>2, EmptySeq DEF LastOf
  <2>4. ASSUME InOrder(heard), m \in {LastOf(heard), LastOf(heard) + 1}
        PROVE  InOrder(new)
    <3>1. CASE heard = <<>>
      <4>1. l = 0 /\ LastOf(heard) = 0
        BY <1>1, <3>1 DEF LastOf
      <4>2. m = 1
        BY <1>2, <2>4, <4>1
      <4> QED
        BY <2>2, <4>1, <4>2 DEF InOrder
    <3>2. CASE heard # <<>>
      <4>1. l >= 1 /\ LastOf(heard) = heard[l]
        BY <1>1, <3>2, EmptySeq DEF LastOf
      <4>2. new[1] = 1
        BY <2>2, <2>4, <3>2, <4>1 DEF InOrder
      <4>3. ASSUME NEW i \in 1..l
            PROVE  new[i + 1] \in {new[i], new[i] + 1}
        <5>1. CASE i = l
          BY <2>2, <2>4, <4>1, <5>1
        <5>2. CASE i # l
          <6>1. i \in 1..(l - 1) /\ i + 1 \in 1..l
            BY <5>2
          <6>2. heard[i + 1] \in {heard[i], heard[i] + 1}
            BY <1>1, <2>4, <6>1 DEF InOrder
          <6> QED
            BY <2>2, <6>1, <6>2
        <5> QED
          BY <5>1, <5>2
      <4> QED
        BY <2>2, <4>2, <4>3 DEF InOrder
    <3> QED
      BY <3>1, <3>2
  <2> QED
    BY <1>2, <2>1, <2>2, <2>3, <2>4
<1> QED
  BY <1>3, <1>4

-----------------------------------------------------------------------------
(* The steps of SDMMD_perform_command preserve the invariant.              *)

\* The steps Talking speaks of
Talks == {"connect", "session", "afc", "proxy", "send", "first", "loop", "keep"}

\* A command is sent, answered and followed, in this order.
LEMMA TalkSteps ==
    \A s \in Talks :
        /\ Follows("send", s) => s = "first"
        /\ Follows("first", s) => s = "loop"
        /\ ~Follows("loop", s)
  BY DEF Follows, Talks

\* The command is sent.
LEMMA SendInvariant ==
    ASSUME IInv, Send
    PROVE  IInv'
<1> USE DEF IInv
<1> DEFINE s == call.sock
           n == commands + 1
           f == file[s]
           sent == [call EXCEPT !.n = commands + 1]
<1>1. /\ At("send") /\ ~Idle /\ s # None /\ commands < MaxCommands /\ commands' = n
      /\ Passed(sent) /\ UNCHANGED <<wifi, attached, lockdown, held>>
  BY DEF Send, At
<1>2. /\ call \in Calls /\ file \in [Files -> Descriptors]
      /\ call.n <= commands /\ commands \in Nat /\ MaxCommands \in Nat
  BY BoundsAssumption DEF Types
<1>3. s \in Files /\ f \in Descriptors
  BY <1>1, <1>2 DEF Calls
<1>4. /\ sent \in Calls
      /\ sent.op = call.op /\ sent.result = call.result /\ sent.todo = call.todo
      /\ sent.afc = call.afc /\ sent.service = call.service /\ sent.sock = s
      /\ sent.own = call.own /\ sent.n = n
      /\ sent.response = call.response /\ sent.heard = call.heard
  <2>1. n \in Nat
    BY <1>2
  <2> HIDE DEF n
  <2>2. sent = [call EXCEPT !.n = n]
    BY DEF n
  <2> HIDE DEF sent
  <2> QED
    BY <1>2, <2>1, <2>2 DEF Calls
<1> HIDE DEF sent
<1>5. /\ call' \in Calls /\ Program'
      /\ call'.todo = Tail(call.todo) /\ Len(call'.todo) = Len(call.todo) - 1
      /\ Len(call.todo) \in Nat
      /\ call'.op = call.op /\ call'.result = call.result
      /\ call'.afc = call.afc /\ call'.service = call.service /\ call'.sock = s
      /\ call'.own = call.own /\ call'.n = n
      /\ call'.response = call.response /\ call'.heard = call.heard
  BY <1>1, <1>4, PassedCall
<1> DEFINE g == IF f.to = "proxy" THEN [f EXCEPT !.todo = Append(@, n)] ELSE Gone(f)
<1>6. file' = [file EXCEPT ![s] = g]
  BY DEF Send, Sock
<1>7. n \in Commands
  BY <1>1, <1>2 DEF Commands
<1>8. /\ g \in Descriptors /\ g.to = f.to /\ g.shut = f.shut /\ g.in = f.in
      /\ f.to = "proxy" => g.todo = Append(f.todo, n) /\ g.told = f.told
      /\ f.to # "proxy" => g.todo = <<>>
  <2>1. CASE f.to = "proxy"
    <3>1. Append(f.todo, n) \in Seq(Commands)
      BY <1>3, <1>7, AppendProperties DEF Descriptors
    <3> QED
      BY <1>3, <2>1, <3>1 DEF Descriptors
  <2>2. CASE f.to # "proxy"
    BY <1>3, <2>2, DescriptorTypes
  <2> QED
    BY <2>1, <2>2
<1> HIDE DEF g
<1>9. /\ file' \in [Files -> Descriptors] /\ file'[s] = g
      /\ \A d \in Files : /\ file'[d].to = file[d].to /\ file'[d].shut = file[d].shut
                          /\ file'[d].in = file[d].in
  BY <1>2, <1>3, <1>6, <1>8
<1>10. Types'
  <2>1. call'.n <= commands' /\ commands' \in 0..MaxCommands
    BY <1>1, <1>2, <1>5
  <2>2. \A d \in Files : \A i \in 1..Len(file'[d].in) : Numbered(file'[d].in[i])
    BY <1>9 DEF Types
  <2> QED
    BY <1>1, <1>5, <1>9, <2>1, <2>2 DEF Types
<1>11. Sockets'
  <2>1. LiveStands
    BY <1>1, <1>9, SameStands
  <2>2. lockdown'.fd # None => file'[lockdown'.fd].to = "lockdown"
    BY <1>1, <1>9 DEF Sockets, Types
  <2> QED
    BY <1>1, <1>5, <2>1, <2>2, KeptSockets
<1>12. Talking'
  <2>1. call'.todo # <<>> => Follows("send", Head(call'.todo))
    BY <1>1, <1>5, Going DEF At
  <2>2. \A step \in Talks : At(step)' => step = "first"
    BY <2>1, TalkSteps DEF At, Idle
  <2>3. Unheard'
    BY <1>1, <1>5 DEF Talking, Unheard
  <2>4. ASSUME call.own PROVE Mine' /\ Line(0)'
    <3>1. Mine /\ f.todo = <<>> /\ f.in = <<>> /\ f.told = 0
      BY <1>1, <2>4 DEF Talking
    <3>2. Mine'
      BY <1>5, <3>1 DEF Mine
    <3>3. LineOf(g, n, 0)
      <4>1. Len(g.in) = 0
        BY <1>8, <3>1
      <4>2. CASE f.to = "proxy"
        <5>1. g.todo = Append(<<>>, n) /\ g.told = 0
          BY <1>8, <3>1, <4>2
        <5>2. Len(g.todo) = 1 /\ g.todo[1] = n /\ g.told = 0 + Len(g.in)
          BY <1>7, <4>1, <5>1
        <5> QED
          BY <4>1, <5>2 DEF LineOf
      <4>3. CASE f.to # "proxy"
        BY <1>8, <4>1, <4>3 DEF LineOf
      <4> QED
        BY <4>2, <4>3
    <3> QED
      BY <1>5, <1>9, <3>2, <3>3 DEF Line
  <2> QED
    BY <1>1, <1>5, <2>2, <2>3, <2>4 DEF Talking, Talks
<1>13. Installing'
  BY <1>1, <1>5, EarlyInstalling
<1>14. Handing'
  <2>1. "send" # "service"
    OBVIOUS
  <2> QED
    BY <1>1, <1>5, <2>1, NextHanding
<1>15. CallbackMissesNothing'
  BY <1>5 DEF CallbackMissesNothing
<1> QED
  BY <1>5, <1>10, <1>11, <1>12, <1>13, <1>14, <1>15

\* A step of the command fails.
LEMMA CommandGivesUp ==
    ASSUME IInv, NEW step \in {"send", "first", "loop"}, At(step), Failed(step),
           UNCHANGED <<wifi, attached, lockdown, file, held, commands>>
    PROVE  IInv'
<1>1. /\ file \in [Files -> Descriptors] /\ attached \in BOOLEAN
      /\ lockdown \in [fd : Files \union {None}, session : BOOLEAN]
      /\ lockdown.fd # None => file[lockdown.fd].to = "lockdown"
  BY DEF IInv, Types, Sockets
<1>2. LiveStands
  BY SameStands DEF IInv
<1> QED
  BY <1>1, <1>2, StepFails

\* The command is not sent.
LEMMA SendFailsInvariant ==
    ASSUME IInv, SendFails
    PROVE  IInv'
<1> USE DEF IInv
<1>1. /\ At("send") /\ ~Idle /\ UNCHANGED <<wifi, attached, lockdown, file, held, commands>>
  BY DEF SendFails, At
<1>2. CASE Failed("send")
  BY <1>1, <1>2, CommandGivesUp
<1>3. CASE call.sock # None /\ Sock.shut = "no" /\ Passed(call)
  <2>1. call \in Calls
    BY DEF Types
  <2>2. /\ call' \in Calls /\ Program'
        /\ call'.todo = Tail(call.todo) /\ Len(call'.todo) = Len(call.todo) - 1
        /\ Len(call.todo) \in Nat
        /\ call'.op = call.op /\ call'.result = call.result
        /\ call'.afc = call.afc /\ call'.service = call.service /\ call'.sock = call.sock
        /\ call'.own = call.own /\ call'.n = call.n
        /\ call'.response = call.response /\ call'.heard = call.heard
    BY <1>1, <1>3, <2>1, PassedCall
  <2>3. Types'
    BY <1>1, <2>2 DEF Types
  <2>4. Sockets'
    <3>1. LiveStands
      BY <1>1, SameStands
    <3>2. lockdown'.fd # None => file'[lockdown'.fd].to = "lockdown"
      BY <1>1 DEF Sockets
    <3> QED
      BY <1>1, <2>2, <3>1, <3>2, KeptSockets
  <2>5. Talking'
    <3>1. call'.todo # <<>> => Follows("send", Head(call'.todo))
      BY <1>1, <2>2, Going DEF At
    <3>2. \A step \in Talks : At(step)' => step = "first"
      BY <3>1, TalkSteps DEF At, Idle
    <3>3. Unheard'
      BY <1>1, <2>2 DEF Talking, Unheard
    <3>4. ASSUME call.own PROVE Mine' /\ Line(0)'
      <4>1. Mine /\ file[call.sock].todo = <<>> /\ file[call.sock].in = <<>>
        BY <1>1, <3>4 DEF Talking
      <4>2. LineOf(file[call.sock], call.n, 0)
        <5>1. Len(file[call.sock].in) = 0
          BY <4>1
        <5> QED
          BY <4>1, <5>1 DEF LineOf
      <4> QED
        BY <1>1, <2>2, <4>1, <4>2 DEF Mine, Line
    <3> QED
      BY <1>3, <2>2, <3>2, <3>3, <3>4 DEF Talking, Talks
  <2>6. Installing'
    BY <1>1, <2>2, EarlyInstalling
  <2>7. Handing'
    <3>1. "send" # "service"
      OBVIOUS
    <3> QED
      BY <1>1, <2>2, <3>1, NextHanding
  <2>8. CallbackMissesNothing'
    BY <2>2 DEF CallbackMissesNothing
  <2> QED
    BY <2>2, <2>3, <2>4, <2>5, <2>6, <2>7, <2>8
<1> QED
  BY <1>2, <1>3 DEF SendFails

\* The oldest message is taken.
LEMMA MessageTaken ==
    ASSUME Types, call.sock # None, Message
    PROVE  /\ call.sock \in Files /\ Sock \in Descriptors /\ Sock.in # <<>>
           /\ Head(Sock.in) \in Replies /\ Numbered(Head(Sock.in))
           /\ file' \in [Files -> Descriptors]
           /\ file'[call.sock] = [Sock EXCEPT !.in = Tail(@)]
           /\ \A d \in Files : file'[d].to = file[d].to /\ file'[d].shut = file[d].shut
           /\ \A d \in Files : \A i \in 1..Len(file'[d].in) : Numbered(file'[d].in[i])
<1> DEFINE s == call.sock
           f == file[s]
           g == [f EXCEPT !.in = Tail(@)]
<1>1. file \in [Files -> Descriptors] /\ call \in Calls
  BY DEF Types
<1>2. s \in Files /\ f \in Descriptors /\ Sock = f
  BY <1>1 DEF Calls, Sock
<1>3. f.in # <<>> /\ file' = [file EXCEPT ![s] = g]
  BY <1>2 DEF Message, Sock
<1>4. f.in \in Seq(Replies)
  BY <1>2 DEF Descriptors
<1>5. PICK l \in Nat : l = Len(f.in) /\ l >= 1
  BY <1>3, <1>4, EmptySeq
<1>6. /\ Head(f.in) = f.in[1] /\ Head(f.in) \in Replies
      /\ Tail(f.in) \in Seq(Replies) /\ Len(Tail(f.in)) = l - 1
      /\ \A i \in 1..(l - 1) : Tail(f.in)[i] = f.in[i + 1]
  BY <1>3, <1>4, <1>5, HeadTailProperties
<1>7. \A i \in 1..l : Numbered(f.in[i])
  BY <1>2, <1>5 DEF Types
<1>8. /\ g \in Descriptors /\ g.to = f.to /\ g.shut = f.shut /\ g.in = Tail(f.in)
  BY <1>2, <1>6 DEF Descriptors
<1> HIDE DEF g
<1>9. /\ file' \in [Files -> Descriptors] /\ file'[s] = g
      /\ \A d \in Files : d # s => file'[d] = file[d]
  BY <1>1, <1>2, <1>3, <1>8
<1>10. Numbered(f.in[1])
  BY <1>5, <1>7
<1>11. ASSUME NEW i \in 1..(l - 1)
       PROVE  Numbered(g.in[i])
  <2>1. i + 1 \in 1..l
    BY <1>5
  <2> QED
    BY <1>6, <1>7, <1>8, <2>1
<1>12. ASSUME NEW d \in Files, NEW i \in 1..Len(file'[d].in)
       PROVE  Numbered(file'[d].in[i])
  <2>1. CASE d = s
    BY <1>6, <1>8, <1>9, <1>11, <2>1
  <2>2. CASE d # s
    BY <1>9, <2>2 DEF Types
  <2> QED
    BY <2>1, <2>2
<1>13. file'[s] = [Sock EXCEPT !.in = Tail(@)]
  BY <1>2, <1>9 DEF g
<1> QED
  BY <1>2, <1>3, <1>6, <1>8, <1>9, <1>10, <1>12, <1>13

\* What a reply can be
LEMMA ReplyKinds ==
    /\ NoReply.kind = "none"
    /\ \A reply \in Replies :
          /\ reply # NoReply /\ reply.kind \in {"progress", "complete", "error"}
          /\ reply.k \in 0..MaxProgress /\ reply.k \in Nat
  BY BoundsAssumption DEF NoReply, Replies

\* The first reply, or none
LEMMA FirstReplyInvariant ==
    ASSUME IInv, FirstReply
    PROVE  IInv'
<1> USE DEF IInv
<1>1. /\ At("first") /\ ~Idle /\ UNCHANGED <<wifi, attached, lockdown, held, commands>>
      /\ call.sock # None
  BY DEF FirstReply, At, Talking
<1>2. CASE NoMessage /\ Failed("first")
  <2>1. UNCHANGED <<wifi, attached, lockdown, file, held, commands>>
    BY <1>1, <1>2 DEF NoMessage
  <2> QED
    BY <1>1, <1>2, <2>1, CommandGivesUp
<1>3. CASE Message /\ Passed([call EXCEPT !.response = Head(Sock.in)])
  <2> DEFINE reply == Head(Sock.in)
             had == [call EXCEPT !.response = reply]
  <2>1. /\ call.sock \in Files /\ Sock \in Descriptors /\ Sock.in # <<>>
        /\ reply \in Replies /\ Numbered(reply)
        /\ file' \in [Files -> Descriptors]
        /\ file'[call.sock] = [Sock EXCEPT !.in = Tail(@)]
        /\ \A d \in Files : file'[d].to = file[d].to /\ file'[d].shut = file[d].shut
        /\ \A d \in Files : \A i \in 1..Len(file'[d].in) : Numbered(file'[d].in[i])
    BY <1>1, <1>3, MessageTaken
  <2>2. call \in Calls /\ Passed(had)
    BY <1>3 DEF Types
  <2> HIDE DEF reply
  <2>3. /\ had \in Calls
        /\ had.op = call.op /\ had.result = call.result /\ had.todo = call.todo
        /\ had.afc = call.afc /\ had.service = call.service /\ had.sock = call.sock
        /\ had.own = call.own /\ had.n = call.n
        /\ had.response = reply /\ had.heard = call.heard
    BY <2>1, <2>2 DEF Calls
  <2> HIDE DEF had
  <2>4. /\ call' \in Calls /\ Program'
        /\ call'.todo = Tail(call.todo) /\ Len(call'.todo) = Len(call.todo) - 1
        /\ Len(call.todo) \in Nat
        /\ call'.op = call.op /\ call'.result = call.result
        /\ call'.afc = call.afc /\ call'.service = call.service /\ call'.sock = call.sock
        /\ call'.own = call.own /\ call'.n = call.n
        /\ call'.response = reply /\ call'.heard = call.heard
    BY <1>1, <2>2, <2>3, PassedCall
  <2>5. Types'
    BY <1>1, <2>1, <2>4 DEF Types
  <2>6. Sockets'
    <3>1. LiveStands
      BY <1>1, <2>1, SameStands
    <3>2. lockdown'.fd # None => file'[lockdown'.fd].to = "lockdown"
      BY <1>1, <2>1 DEF Sockets, Types
    <3> QED
      BY <1>1, <2>4, <3>1, <3>2, KeptSockets
  <2>7. Unheard
    BY <1>1 DEF Talking
  <2>8. ASSUME call.own
        PROVE  /\ Mine' /\ reply.n = call.n
               /\ reply.kind = "progress" => reply.k = 1 /\ Line(1)'
               /\ reply.kind # "progress" => reply.k = 0
    <3>1. Mine /\ LineOf(Sock, call.n, 0)
      BY <1>1, <2>8 DEF Talking, Line, Sock
    <3>2. /\ reply.n = call.n
          /\ reply.kind = "progress" =>
                reply.k = 0 + 1 /\ LineOf([Sock EXCEPT !.in = Tail(@)], call.n, 0 + 1)
          /\ reply.kind # "progress" => reply.k = 0
      BY <2>1, <3>1, LineTaken DEF reply
    <3>3. 0 + 1 = 1
      OBVIOUS
    <3> QED
      BY <2>1, <2>4, <3>1, <3>2, <3>3 DEF Line, Mine
  <2>9. Talking'
    <3>1. call'.todo # <<>> => Follows("first", Head(call'.todo))
      BY <1>1, <2>4, Going DEF At
    <3>2. \A step \in Talks : At(step)' => step = "loop"
      BY <3>1, TalkSteps DEF At, Idle
    <3>3. LastOf(call'.heard) = 0
      BY <2>4, <2>7 DEF Unheard, LastOf
    <3>4. reply # NoReply
      BY <2>1, ReplyKinds
    <3> QED
      BY <1>1, <2>4, <2>8, <3>2, <3>3, <3>4 DEF Talking, Talks
  <2>10. Installing'
    BY <1>1, <2>4, EarlyInstalling
  <2>11. Handing'
    <3>1. "first" # "service"
      OBVIOUS
    <3> QED
      BY <1>1, <2>4, <3>1, NextHanding
  <2>12. CallbackMissesNothing'
    <3>1. call'.heard = <<>> /\ Len(call'.heard) = 0 /\ LastOf(call'.heard) = 0
      BY <2>4, <2>7 DEF Unheard, LastOf
    <3>2. \A i \in 1..(0 - 1) : FALSE
      OBVIOUS
    <3> QED
      BY <2>4, <2>8, <3>1, <3>2 DEF CallbackMissesNothing
  <2> QED
    BY <2>4, <2>5, <2>6, <2>9, <2>10, <2>11, <2>12
<1> QED
  BY <1>2, <1>3 DEF FirstReply

\* The last reply
LEMMA CommandEndsInvariant ==
    ASSUME IInv, CommandEnds
    PROVE  IInv'
<1> USE DEF IInv
<1>1. /\ At("loop") /\ ~Idle /\ UNCHANGED <<wifi, attached, lockdown, file, held, commands>>
  BY DEF CommandEnds, At
<1>2. CASE Failed("loop")
  BY <1>1, <1>2, CommandGivesUp
<1>3. CASE call.response.kind = "complete" /\ Passed(call)
  <2>1. call \in Calls
    BY DEF Types
  <2>2. /\ call' \in Calls /\ Program'
        /\ call'.todo = Tail(call.todo) /\ Len(call'.todo) = Len(call.todo) - 1
        /\ Len(call.todo) \in Nat
        /\ call'.op = call.op /\ call'.result = call.result
        /\ call'.afc = call.afc /\ call'.service = call.service /\ call'.sock = call.sock
        /\ call'.own = call.own /\ call'.n = call.n
        /\ call'.response = call.response /\ call'.heard = call.heard
    BY <1>1, <1>3, <2>1, PassedCall
  <2>3. Types'
    BY <1>1, <2>2 DEF Types
  <2>4. Sockets'
    <3>1. LiveStands
      BY <1>1, SameStands
    <3>2. lockdown'.fd # None => file'[lockdown'.fd].to = "lockdown"
      BY <1>1 DEF Sockets
    <3> QED
      BY <1>1, <2>2, <3>1, <3>2, KeptSockets
  <2>5. Talking'
    <3>1. call'.todo # <<>> => Follows("loop", Head(call'.todo))
      BY <1>1, <2>2, Going DEF At
    <3>2. \A step \in Talks : ~At(step)'
      BY <3>1, TalkSteps DEF At, Idle
    <3> QED
      BY <3>2 DEF Talking, Talks
  <2>6. Installing'
    <3>1. ASSUME call.op = "InstallApp", call.result = "success"
          PROVE  ~(Len(call'.todo) <= 3) /\ ~(Len(call'.todo) <= 2) /\ Len(call'.todo) # 0
      <4>1. Len(call.todo) = 5
        BY <1>1, <3>1, InstallPlaces
      <4>2. Len(call'.todo) = 4
        BY <2>2, <4>1
      <4> QED
        BY <4>2
    <3>2. call.own => call.response.n = call.n
      BY <1>1 DEF Talking
    <3> QED
      BY <1>3, <2>2, <3>1, <3>2 DEF Installing
  <2>7. Handing'
    <3>1. "loop" # "service"
      OBVIOUS
    <3> QED
      BY <1>1, <2>2, <3>1, NextHanding
  <2>8. CallbackMissesNothing'
    BY <2>2 DEF CallbackMissesNothing
  <2> QED
    BY <2>2, <2>3, <2>4, <2>5, <2>6, <2>7, <2>8
<1> QED
  BY <1>2, <1>3 DEF CommandEnds

\* The callback is called, and the next message is the next in line or the same.
LEMMA ProgressesInvariant ==
    ASSUME IInv, Progresses
    PROVE  IInv'
<1> USE DEF IInv
<1> DEFINE heard == Told(call.heard, call.response)
<1>1. /\ At("loop") /\ ~Idle /\ UNCHANGED <<wifi, attached, lockdown, held, commands>>
      /\ call.sock # None /\ call.response.kind = "progress"
  BY DEF Progresses, At, Talking
<1>2. call \in Calls /\ file \in [Files -> Descriptors]
  BY DEF Types
<1>3. call.response \in Replies /\ call.response.k \in 1..MaxProgress
  <2>1. call.response \in Replies
    BY <1>1, <1>2, ReplyKinds DEF Calls
  <2>2. call.response.k >= 1
    BY <1>1 DEF Types, Numbered
  <2> QED
    BY <2>1, <2>2, ReplyKinds
<1>4. /\ heard \in Seq(1..MaxProgress)
      /\ call.own => InOrder(heard) /\ LastOf(heard) = call.response.k
  <2>1. call.heard \in Seq(1..MaxProgress)
    BY <1>2 DEF Calls
  <2>2. call.own => /\ InOrder(call.heard)
                    /\ call.response.k \in {LastOf(call.heard), LastOf(call.heard) + 1}
    BY <1>1 DEF CallbackMissesNothing, Talking, InOrder
  <2> QED
    BY <1>3, <2>1, <2>2, ToldNext
<1> HIDE DEF heard
<1>5. call.own => Mine /\ call.response.n = call.n /\ LineOf(Sock, call.n, call.response.k)
  BY <1>1 DEF Talking, Line, Sock
<1>6. PICK reply \in Replies :
          /\ call' = [call EXCEPT !.heard = heard, !.response = reply] /\ Numbered(reply)
          /\ file' \in [Files -> Descriptors]
          /\ \A d \in Files : file'[d].to = file[d].to /\ file'[d].shut = file[d].shut
          /\ \A d \in Files : \A i \in 1..Len(file'[d].in) : Numbered(file'[d].in[i])
          /\ call.own =>
                /\ reply.n = call.n
                /\ reply.kind = "progress" =>
                      /\ reply.k \in {LastOf(heard), LastOf(heard) + 1}
                      /\ LineOf(file'[call.sock], call.n, reply.k)
                /\ reply.kind # "progress" => reply.k = LastOf(heard)
  <2>1. CASE NoMessage /\ call' = [call EXCEPT !.heard = heard]
    <3>1. call' = [call EXCEPT !.heard = heard, !.response = call.response]
      BY <1>2, <2>1 DEF Calls
    <3>2. file' = file
      BY <2>1 DEF NoMessage
    <3>3. Numbered(call.response)
          /\ \A d \in Files : \A i \in 1..Len(file[d].in) : Numbered(file[d].in[i])
      BY DEF Types
    <3> QED
      BY <1>1, <1>2, <1>3, <1>4, <1>5, <3>1, <3>2, <3>3 DEF Sock
  <2>2. CASE /\ Message
             /\ call' = [[call EXCEPT !.heard = heard] EXCEPT !.response = Head(Sock.in)]
    <3> DEFINE reply == Head(Sock.in)
    <3>1. /\ Sock \in Descriptors /\ Sock.in # <<>>
          /\ reply \in Replies /\ Numbered(reply)
          /\ file' \in [Files -> Descriptors]
          /\ file'[call.sock] = [Sock EXCEPT !.in = Tail(@)]
          /\ \A d \in Files : file'[d].to = file[d].to /\ file'[d].shut = file[d].shut
          /\ \A d \in Files : \A i \in 1..Len(file'[d].in) : Numbered(file'[d].in[i])
      BY <1>1, <2>2, MessageTaken
    <3>2. call' = [call EXCEPT !.heard = heard, !.response = reply]
      BY <2>2
    <3> DEFINE k == call.response.k
    <3>3. k \in Nat
      BY <1>3, ReplyKinds
    <3> HIDE DEF k
    <3>4. call.own =>
             /\ reply.n = call.n
             /\ reply.kind = "progress" =>
                   reply.k = k + 1 /\ LineOf(file'[call.sock], call.n, k + 1)
             /\ reply.kind # "progress" => reply.k = k
      <4> SUFFICES ASSUME call.own
                   PROVE  /\ reply.n = call.n
                          /\ reply.kind = "progress" =>
                                reply.k = k + 1 /\ LineOf(file'[call.sock], call.n, k + 1)
                          /\ reply.kind # "progress" => reply.k = k
        OBVIOUS
      <4>1. LineOf(Sock, call.n, k)
        BY <1>5 DEF k
      <4>2. /\ reply.n = call.n
            /\ reply.kind = "progress" =>
                  reply.k = k + 1 /\ LineOf([Sock EXCEPT !.in = Tail(@)], call.n, k + 1)
            /\ reply.kind # "progress" => reply.k = k
        BY <3>1, <3>3, <4>1, LineTaken
      <4> QED
        BY <3>1, <4>2
    <3>5. call.own => LastOf(heard) = k
      BY <1>4 DEF k
    <3> HIDE DEF reply
    <3> QED
      BY <3>1, <3>2, <3>4, <3>5
  <2> QED
    BY <2>1, <2>2 DEF Progresses, heard
<1>7. /\ call' \in Calls /\ call'.todo = call.todo
      /\ call'.op = call.op /\ call'.result = call.result
      /\ call'.afc = call.afc /\ call'.service = call.service /\ call'.sock = call.sock
      /\ call'.own = call.own /\ call'.n = call.n
      /\ call'.response = reply /\ call'.heard = heard
  BY <1>2, <1>4, <1>6 DEF Calls
<1>8. Types'
  BY <1>1, <1>6, <1>7 DEF Types
<1>9. Program'
  BY <1>7 DEF Program, Idle
<1>10. Sockets'
  <2>1. LiveStands
    BY <1>1, <1>6, SameStands
  <2>2. lockdown'.fd # None => file'[lockdown'.fd].to = "lockdown"
    BY <1>1, <1>6 DEF Sockets, Types
  <2> QED
    BY <1>1, <1>7, <2>1, <2>2, KeptSockets
<1>11. Talking'
  <2>1. \A step : At(step)' => step = "loop"
    BY <1>1, <1>7 DEF At, Idle
  <2>2. call.own => Mine'
    BY <1>5, <1>7 DEF Mine
  <2> QED
    BY <1>1, <1>6, <1>7, <2>1, <2>2, ReplyKinds DEF Talking, Line
<1>12. Installing'
  <2>1. ASSUME call.op = "InstallApp", call.result = "success"
        PROVE  /\ ~(Len(call'.todo) <= 4) /\ ~(Len(call'.todo) <= 3)
               /\ ~(Len(call'.todo) <= 2) /\ Len(call'.todo) # 0
    <3>1. Len(call'.todo) = 5
      BY <1>1, <1>7, <2>1, InstallPlaces
    <3> QED
      BY <3>1
  <2> QED
    BY <1>7, <2>1 DEF Installing
<1>13. Handing'
  <2>1. call.op # "SecureStartSessionedService"
    BY <1>1, SessionedPlaces
  <2> QED
    BY <1>7, <2>1 DEF Handing
<1>14. CallbackMissesNothing'
  BY <1>4, <1>6, <1>7 DEF CallbackMissesNothing, InOrder
<1> QED
  BY <1>8, <1>9, <1>10, <1>11, <1>12, <1>13, <1>14

-----------------------------------------------------------------------------
(* The device's own steps preserve the invariant.                          *)

\* A step outside the calls that keeps every line and every silence
LEMMA DeviceKeeps ==
    ASSUME IInv, attached' \in BOOLEAN, UNCHANGED <<wifi, lockdown, held, call, commands>>,
           file' \in [Files -> Descriptors],
           \A d \in Files : file'[d].to = file[d].to /\ file'[d].shut = file[d].shut,
           \A d \in Files : \A i \in 1..Len(file'[d].in) : Numbered(file'[d].in[i]),
           \A d \in Files : \A n : \A k \in Nat :
               LineOf(file[d], n, k) => LineOf(file'[d], n, k),
           \A d \in Files :
               file[d].todo = <<>> /\ file[d].in = <<>> /\ file[d].told = 0 =>
                   file'[d].todo = <<>> /\ file'[d].in = <<>> /\ file'[d].told = 0
    PROVE  IInv'
<1> USE DEF IInv
<1>1. Types'
  BY DEF Types
<1>2. Program' /\ Installing' /\ Handing' /\ CallbackMissesNothing'
  BY DEF Program, Idle, Installing, Handing, CallbackMissesNothing
<1>3. Sockets'
  <2>1. LiveStands
    BY SameStands
  <2>2. lockdown'.fd # None => file'[lockdown'.fd].to = "lockdown"
    BY DEF Sockets, Types
  <2>3. Idle => Idle'
    BY DEF Idle
  <2> QED
    BY <2>1, <2>2, <2>3, KeptSockets
<1>4. Talking'
  <2>1. call \in Calls
    BY DEF Types
  <2>2. call.sock # None => call.sock \in Files
    BY <2>1 DEF Calls
  <2>3. \A step : At(step)' <=> At(step)
    BY DEF At, Idle
  <2>4. /\ Unheard => Unheard'
        /\ Mine => Mine'
    BY DEF Unheard, Mine
  <2>5. ASSUME call.own, At("send")
        PROVE  /\ file'[call.sock].todo = <<>> /\ file'[call.sock].in = <<>>
               /\ file'[call.sock].told = 0
    <3>1. call.sock \in Files
      BY <2>1, <2>5, ConnectionTypes DEF Talking, Mine, Calls
    <3> QED
      BY <2>5, <3>1 DEF Talking
  <2>6. ASSUME call.sock # None, NEW k \in Nat, Line(k)
        PROVE  LineOf(file'[call.sock], call.n, k)
    BY <2>2, <2>6 DEF Line
  <2>7. call.response.kind = "progress" => call.response.k \in Nat
    BY <2>1, ReplyKinds DEF Calls
  <2>8. 0 \in Nat
    OBVIOUS
  <2> QED
    BY <2>3, <2>4, <2>5, <2>6, <2>7, <2>8 DEF Talking, Line
<1> QED
  BY <1>1, <1>2, <1>3, <1>4

\* A proxy sends a message.
LEMMA ProxySends ==
    ASSUME IInv, NEW d \in Files, NEW g \in Descriptors, NEW reply \in Replies,
           UNCHANGED <<wifi, attached, lockdown, held, call, commands>>,
           file' = [file EXCEPT ![d] = g], file[d].todo # <<>>,
           g.to = file[d].to, g.shut = file[d].shut,
           g.in = Append(file[d].in, reply), reply.n = Head(file[d].todo),
           \/ /\ reply.kind = "progress" /\ reply.k = file[d].told + 1
              /\ g.todo = file[d].todo /\ g.told = file[d].told + 1
           \/ /\ reply.kind # "progress" /\ reply.k = file[d].told
              /\ g.todo = Tail(file[d].todo)
    PROVE  IInv'
<1>1. /\ file \in [Files -> Descriptors] /\ file[d] \in Descriptors /\ attached \in BOOLEAN
      /\ \A e \in Files : \A i \in 1..Len(file[e].in) : Numbered(file[e].in[i])
  BY DEF IInv, Types
<1>2. /\ file' \in [Files -> Descriptors] /\ file'[d] = g
      /\ \A e \in Files : e # d => file'[e] = file[e]
  BY <1>1
<1>3. \A e \in Files : file'[e].to = file[e].to /\ file'[e].shut = file[e].shut
  BY <1>2
<1>4. Numbered(reply)
  <2>1. file[d].told \in Nat
    BY <1>1 DEF Descriptors
  <2> QED
    BY <2>1 DEF Numbered
<1>5. ASSUME NEW e \in Files, NEW i \in 1..Len(file'[e].in)
      PROVE  Numbered(file'[e].in[i])
  <2>1. CASE e # d
    BY <1>1, <1>2, <2>1
  <2>2. CASE e = d
    <3>1. file[d].in \in Seq(Replies)
      BY <1>1 DEF Descriptors
    <3>2. PICK l \in Nat : l = Len(file[d].in)
      BY <3>1
    <3>3. /\ Len(g.in) = l + 1 /\ g.in[l + 1] = reply
          /\ \A j \in 1..l : g.in[j] = file[d].in[j]
      BY <3>1, <3>2, AppendProperties
    <3>4. i \in 1..(l + 1)
      BY <1>2, <2>2, <3>3
    <3>5. CASE i = l + 1
      BY <1>2, <1>4, <2>2, <3>3, <3>5
    <3>6. CASE i # l + 1
      <4>1. i \in 1..l
        BY <3>2, <3>4, <3>6
      <4> QED
        BY <1>1, <1>2, <2>2, <3>2, <3>3, <4>1
    <3> QED
      BY <3>5, <3>6
  <2> QED
    BY <2>1, <2>2
<1>6. ASSUME NEW e \in Files, NEW n, NEW k \in Nat, LineOf(file[e], n, k)
      PROVE  LineOf(file'[e], n, k)
  <2>1. CASE e # d
    BY <1>2, <1>6, <2>1
  <2>2. CASE e = d
    <3>1. LineOf(g, n, k)
      BY <1>1, <1>6, <2>2, LineGrows
    <3> QED
      BY <1>2, <2>2, <3>1
  <2> QED
    BY <2>1, <2>2
<1>7. ASSUME NEW e \in Files,
             file[e].todo = <<>> /\ file[e].in = <<>> /\ file[e].told = 0
      PROVE  file'[e].todo = <<>> /\ file'[e].in = <<>> /\ file'[e].told = 0
  BY <1>2, <1>7
<1> QED
  BY <1>1, <1>2, <1>3, <1>5, <1>6, <1>7, DeviceKeeps

\* A proxy works.
LEMMA ProxyInvariant ==
    ASSUME IInv, NEW d \in Files, Proxy(d)
    PROVE  IInv'
<1> DEFINE f == file[d]
<1>1. f \in Descriptors
  BY DEF IInv, Types
<1>2. /\ f.todo \in Seq(Commands) /\ f.told \in 0..MaxProgress /\ f.in \in Seq(Replies)
      /\ f.told \in Nat /\ MaxProgress \in Nat
  BY <1>1, BoundsAssumption DEF Descriptors
<1>3. CASE ProxyReports(d)
  <2> DEFINE reply == Reply(Head(f.todo), "progress", f.told + 1)
             g == [f EXCEPT !.told = @ + 1, !.in = Append(@, reply)]
  <2>1. /\ f.todo # <<>> /\ f.told < MaxProgress
        /\ file' = [file EXCEPT ![d] = g]
        /\ UNCHANGED <<wifi, attached, lockdown, held, call, commands>>
    BY <1>3 DEF ProxyReports
  <2>2. Head(f.todo) \in Commands /\ f.told + 1 \in 0..MaxProgress
    BY <1>2, <2>1
  <2>3. /\ reply \in Replies /\ reply.n = Head(f.todo) /\ reply.kind = "progress"
        /\ reply.k = f.told + 1
    BY <2>2 DEF Reply, Replies
  <2> HIDE DEF reply
  <2>4. Append(f.in, reply) \in Seq(Replies)
    BY <1>2, <2>3, AppendProperties
  <2>5. /\ g \in Descriptors /\ g.to = f.to /\ g.shut = f.shut
        /\ g.in = Append(f.in, reply) /\ g.todo = f.todo /\ g.told = f.told + 1
    BY <1>1, <2>2, <2>4 DEF Descriptors
  <2> HIDE DEF g
  <2> QED
    BY <2>1, <2>3, <2>5, ProxySends
<1>4. CASE ProxyEnds(d)
  <2>1. f.todo # <<>> /\ UNCHANGED <<wifi, attached, lockdown, held, call, commands>>
    BY <1>4 DEF ProxyEnds
  <2>2. PICK kind \in {"complete", "error"} :
            file' = [file EXCEPT ![d] = [f EXCEPT !.told = 0, !.todo = Tail(@),
                        !.in = Append(@, Reply(Head(f.todo), kind, f.told))]]
    BY <1>4 DEF ProxyEnds
  <2> DEFINE reply == Reply(Head(f.todo), kind, f.told)
             g == [f EXCEPT !.told = 0, !.todo = Tail(@), !.in = Append(@, reply)]
  <2>3. file' = [file EXCEPT ![d] = g]
    BY <2>2
  <2>4. Head(f.todo) \in Commands /\ Tail(f.todo) \in Seq(Commands) /\ 0 \in 0..MaxProgress
    BY <1>2, <2>1, HeadTailProperties
  <2>5. /\ reply \in Replies /\ reply.n = Head(f.todo) /\ reply.kind # "progress"
        /\ reply.k = f.told
    BY <1>2, <2>4 DEF Reply, Replies
  <2> HIDE DEF reply
  <2>6. Append(f.in, reply) \in Seq(Replies)
    BY <1>2, <2>5, AppendProperties
  <2>7. /\ g \in Descriptors /\ g.to = f.to /\ g.shut = f.shut
        /\ g.in = Append(f.in, reply) /\ g.todo = Tail(f.todo)
    BY <1>1, <2>4, <2>6 DEF Descriptors
  <2> HIDE DEF g
  <2> QED
    BY <2>1, <2>3, <2>5, <2>7, ProxySends
<1> QED
  BY <1>3, <1>4 DEF Proxy

\* Peers are gone.
LEMMA PeersLeave ==
    ASSUME IInv, attached' \in BOOLEAN, UNCHANGED <<wifi, lockdown, held, call, commands>>,
           file' \in [Files -> Descriptors],
           \A d \in Files : file'[d] = file[d] \/ file'[d] = Gone(file[d])
    PROVE  IInv'
<1>1. /\ file \in [Files -> Descriptors]
      /\ \A d \in Files : \A i \in 1..Len(file[d].in) : Numbered(file[d].in[i])
  BY DEF IInv, Types
<1>2. ASSUME NEW d \in Files
      PROVE  /\ file'[d].to = file[d].to /\ file'[d].shut = file[d].shut
             /\ file'[d].in = file[d].in
             /\ \A n : \A k \in Nat : LineOf(file[d], n, k) => LineOf(file'[d], n, k)
             /\ file[d].todo = <<>> /\ file[d].in = <<>> /\ file[d].told = 0 =>
                   file'[d].todo = <<>> /\ file'[d].in = <<>> /\ file'[d].told = 0
  <2>1. file[d] \in Descriptors
    BY <1>1
  <2>2. /\ Gone(file[d]).to = file[d].to /\ Gone(file[d]).shut = file[d].shut
        /\ Gone(file[d]).in = file[d].in /\ Gone(file[d]).todo = <<>> /\ Gone(file[d]).told = 0
    BY <2>1, DescriptorTypes
  <2>3. \A n : \A k \in Nat : LineOf(file[d], n, k) => LineOf(Gone(file[d]), n, k)
    BY <2>1, LineEnds
  <2>4. CASE file'[d] = file[d]
    BY <2>4
  <2>5. CASE file'[d] = Gone(file[d])
    BY <2>2, <2>3, <2>5
  <2> QED
    BY <2>4, <2>5
<1>3. \A d \in Files : \A i \in 1..Len(file'[d].in) : Numbered(file'[d].in[i])
  BY <1>1, <1>2
<1> QED
  BY <1>2, <1>3, DeviceKeeps

\* The device, the cable and the proxies
LEMMA DeviceInvariant ==
    ASSUME IInv, DeviceStep
    PROVE  IInv'
<1>1. file \in [Files -> Descriptors] /\ attached \in BOOLEAN
  BY DEF IInv, Types
<1>2. \A d \in Files : Gone(file[d]) \in Descriptors
  BY <1>1, DescriptorTypes
<1>3. CASE Unplug
  <2>1. /\ file' \in [Files -> Descriptors] /\ attached' \in BOOLEAN
        /\ \A d \in Files : file'[d] = Gone(file[d])
        /\ UNCHANGED <<wifi, lockdown, held, call, commands>>
    BY <1>2, <1>3 DEF Unplug
  <2> QED
    BY <2>1, PeersLeave
<1>4. ASSUME NEW d \in Files, Hangup(d) PROVE IInv'
  <2>1. /\ file' \in [Files -> Descriptors] /\ attached' \in BOOLEAN
        /\ \A e \in Files : file'[e] = file[e] \/ file'[e] = Gone(file[e])
        /\ UNCHANGED <<wifi, lockdown, held, call, commands>>
    BY <1>1, <1>2, <1>4 DEF Hangup
  <2> QED
    BY <2>1, PeersLeave
<1>5. CASE Answers
  <2>1. call.sock # None
    BY <1>5 DEF Answers, Performing, IInv, Talking
  <2>2. call.sock \in Files
    BY <2>1 DEF IInv, Types, Calls
  <2> QED
    BY <1>5, <2>2, ProxyInvariant DEF Answers
<1> QED
  BY <1>3, <1>4, <1>5 DEF DeviceStep

-----------------------------------------------------------------------------
(* The theorems.                                                           *)

\* Every step preserves the invariant.
LEMMA StepInvariant ==
    ASSUME IInv, Next
    PROVE  IInv'
<1>1. CASE Begin
  BY <1>1, CallBegins DEF Begin
<1>2. CASE LockdownStep
  BY <1>2, LockdownConnects, LockdownSession, LockdownStops DEF LockdownStep
<1>3. CASE ServiceStep
  BY <1>3, ServiceConnects, ServiceRefused, InstallGoesOn, StartServiceInvariant,
     TransferEnds, SessionedInvariant, DropInvariant DEF ServiceStep
<1>4. CASE CommandStep
  BY <1>4, SendInvariant, SendFailsInvariant, FirstReplyInvariant, CommandEndsInvariant,
     ProgressesInvariant DEF CommandStep
<1>5. CASE \E i \in Slots : Release(i)
  BY <1>5, ReleaseInvariant
<1>6. CASE DeviceStep
  BY <1>6, DeviceInvariant
<1> QED
  BY <1>1, <1>2, <1>3, <1>4, <1>5, <1>6 DEF Next, CallStep

\* So does a stutter.
LEMMA StutterInvariant ==
    ASSUME IInv, UNCHANGED vars
    PROVE  IInv'
<1>1. /\ wifi' = wifi
      /\ attached' = attached /\ lockdown' = lockdown /\ file' = file /\ held' = held
      /\ call' = call /\ commands' = commands
  BY DEF vars
<1>2. /\ attached \in BOOLEAN /\ file \in [Files -> Descriptors]
      /\ \A d \in Files : \A i \in 1..Len(file[d].in) : Numbered(file[d].in[i])
  BY DEF IInv, Types
<1> QED
  BY <1>1, <1>2, DeviceKeeps

\* The inductive invariant holds of every behaviour.
THEOREM Invariance == Spec => []IInv
<1>1. Init => IInv
  BY InitInvariant
<1>2. IInv /\ [Next]_vars => IInv'
  BY StepInvariant, StutterInvariant
<1> QED
  BY <1>1, <1>2, PTL DEF Spec

\* Descriptors, connections, calls and messages are what their variables say
\* (TypeOK).
THEOREM TypeCorrect == Spec => []TypeOK
<1>1. IInv => TypeOK
  <2> SUFFICES ASSUME IInv PROVE TypeOK
    OBVIOUS
  <2>1. Types
    BY DEF IInv
  <2>2. /\ call.op \in DOMAIN Steps \union {"none"}
        /\ call.result \in {"none", "success"} \union StepNames
        /\ call.afc \in Connections /\ call.service \in Connections
        /\ call.sock \in Files \union {None} /\ call.own \in BOOLEAN
        /\ call.n \in Nat /\ call.response \in Replies \union {NoReply}
        /\ call.heard \in Seq(1..MaxProgress)
    BY <2>1 DEF Types, Calls
  <2>3. call.n \in 0..commands
    BY <2>1, <2>2, BoundsAssumption DEF Types
  <2>4. file \in [Files -> [to : Services \cup {"lockdown", "nothing"},
                            up : BOOLEAN, shut : {"no", "owner", "stale"},
                            todo : Seq(Commands), told : 0..MaxProgress,
                            in : Seq(Replies)]]
    BY <2>1 DEF Types, Descriptors
  <2> QED
    BY <2>1, <2>2, <2>3, <2>4 DEF TypeOK, Types
<1> QED
  BY <1>1, Invariance, PTL

\* Two live connections in use never share a descriptor, none has lockdown's,
\* and each leads to what answers at the port of its service, which over USB is
\* lockdownd (OwnSocket): however descriptors are used again, what the calls
\* close and release is their own.  Only the release of a connection that
\* StartService had closed may have shut down the socket of another.
THEOREM SocketsAreOwn == Spec => []OwnSocket
<1>1. IInv => OwnSocket
  <2> SUFFICES ASSUME IInv, NEW p \in Places, Live(InUse(p))
               PROVE  LET c == InUse(p) IN
                      /\ file[c.fd].to = PortOf(c.service) /\ file[c.fd].shut # "owner"
                      /\ c.fd # lockdown.fd
                      /\ \A q \in Places \ {p} : Live(InUse(q)) => InUse(q).fd # c.fd
    BY DEF OwnSocket
  <2> QED
    BY DEF IInv, Sockets, Standing
<1> QED
  BY <1>1, Invariance, PTL

\* SDMMD_perform_command calls back with every progress message of a command, in
\* order, none left out and each at least once (CallbackMissesNothing).
THEOREM CallbacksMissNothing == Spec => []CallbackMissesNothing
<1>1. IInv => CallbackMissesNothing
  BY DEF IInv
<1> QED
  BY <1>1, Invariance, PTL

\* SDMMD_AMDeviceInstallApp reports success only of a command the proxy has
\* completed, and leaves no connection behind (InstalledMeansCompleted).
THEOREM InstallsAreCompleted == Spec => []InstalledMeansCompleted
<1>1. IInv => InstalledMeansCompleted
  <2> SUFFICES ASSUME IInv, Idle, call.op = "InstallApp", call.result = "success", call.own
               PROVE  /\ call.response.kind = "complete" /\ call.response.n = call.n
                      /\ lockdown = Unlocked
                      /\ call.afc = NoConnection /\ call.service = NoConnection
    BY DEF InstalledMeansCompleted
  <2>1. Len(call.todo) = 0
    BY DEF Idle
  <2>2. Len(call.todo) <= 4 /\ Len(call.todo) <= 3 /\ Len(call.todo) <= 2
    BY <2>1
  <2> QED
    BY <2>1, <2>2 DEF IInv, Installing
<1> QED
  BY <1>1, Invariance, PTL

\* SDMMD_AMDeviceSecureStartSessionedService leaves no lockdown connection,
\* whichever step after its Connect failed, and its caller has a connection just
\* when it reports success (SessionedServiceStandsAlone).
THEOREM SessionedServicesStandAlone == Spec => []SessionedServiceStandsAlone
<1>1. IInv => SessionedServiceStandsAlone
  <2> SUFFICES ASSUME IInv, Idle, call.op = "SecureStartSessionedService",
                      call.result # "connect"
               PROVE  /\ lockdown = Unlocked
                      /\ call.result = "success" <=> call.service # NoConnection
    BY DEF SessionedServiceStandsAlone
  <2>1. Len(call.todo) = 0
    BY DEF Idle
  <2>2. Len(call.todo) <= 1 /\ Len(call.todo) <= 3
    BY <2>1
  <2> QED
    BY <2>2 DEF IInv, Handing
<1> QED
  BY <1>1, Invariance, PTL

=============================================================================
