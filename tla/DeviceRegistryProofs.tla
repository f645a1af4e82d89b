------------------------ MODULE DeviceRegistryProofs ------------------------
(***************************************************************************)
(* Proofs about DeviceRegistry, for any clients, any number of connections *)
(* and of ListDevices requests.                                            *)
(***************************************************************************)
EXTENDS DeviceRegistry, SequenceTheorems, WellFoundedInduction, TLAPS

-----------------------------------------------------------------------------
(* The inductive invariant.                                                *)

Packets == [kind : {"Attached", "Detached", "DeviceList"}, devices : SUBSET Connections]

Attaching == handlerPc \in {"assign attached", "finish attached"}
Detaching == handlerPc \in {"assign detached", "finish detached"}
Assigning == handlerPc \in {"assign attached", "assign detached"}

\* The list as it is once the callback that runs has assigned it
Upcoming == IF Assigning THEN update ELSE deviceList

\* Where the handler stands between callbacks, and what the packets hold.
Handling ==
    /\ handlerPc = "idle" => ~inList
    /\ handlerPc = "list" => inList
    /\ ~inList => todo = {}
    /\ Attaching \/ Detaching => subject.id \in 1..numbered
    /\ \A i \in 1..Len(wire) :
          wire[i].kind # "DeviceList" => \E c \in Connections : wire[i].devices = {c}

\* Packet i reports connection c, or says that it ended.
Reports(i, c) == wire[i].kind # "Detached" /\ c \in wire[i].devices
Ends(i, c) == wire[i].kind = "Detached" /\ c \in wire[i].devices

\* The connections usbmuxd has, and those whose end the handler has not read
Alive == {c \in Connections : c \in plugged \/ \E i \in 1..Len(wire) : Ends(i, c)}

\* A connection that was reported is alive until its end, the last that is said
\* of it, is read.  Its number is its own.
Reported ==
    /\ \A c \in Alive : c.id <= numbered
    /\ \A c, d \in Alive : c.id = d.id => c = d
    /\ todo \subseteq Alive
    /\ \A i \in 1..Len(wire) : \A c \in wire[i].devices :
          IF wire[i].kind = "Detached"
          THEN c \notin plugged /\ \A j \in (i + 1)..Len(wire) : c \notin wire[j].devices
          ELSE c \in plugged \/ \E j \in (i + 1)..Len(wire) : Ends(j, c)

\* Whatever is listed is alive, and what is plugged in is listed or soon will be.
Tracked ==
    /\ \A id \in Ids(Upcoming) : id \in UsbIds(Alive)
    /\ \A c \in plugged :
          \/ c.type # "USB"
          \/ c.id \in Ids(Upcoming)
          \/ c \in todo
          \/ \E i \in 1..Len(wire) : wire[i].kind = "Attached" /\ c \in wire[i].devices

\* What a callback is about to assign
Updating ==
    /\ handlerPc = "assign attached" => Ids(deviceList) \subseteq Ids(update)
    /\ handlerPc = "assign detached" => Ids(deviceList) \ {subject.id} \subseteq Ids(update)
    /\ Attaching /\ subject.id \in UsbIds(plugged) => subject.id \in Ids(Upcoming)
    /\ Detaching => \A c \in Alive : c.id # subject.id

\* Who was told that a connection has gone is not told again.
Told ==
    \A i \in 1..Len(mainQueue) :
        mainQueue[i].name = "DetachedFinished" => \A c \in Alive : c.id # mainQueue[i].id

\* A call knows whether its device was listed.
Watched ==
    \A t \in Clients :
        /\ pc[t] # "idle" /\ target[t] \in Ids(deviceList) => once[t]
        /\ pc[t] = "answered" /\ answer[t] => once[t]

IInv ==
    /\ TypeOK /\ Handling /\ Reported /\ Tracked /\ Updating
    /\ Told /\ FinishedIsVisible /\ Watched

-----------------------------------------------------------------------------
(* Sequences, and the loop of detachedCallback.                            *)

LEMMA Least ==
    ASSUME NEW T \in SUBSET Nat, T # {}
    PROVE  \E m \in T : \A k \in T : m <= k
<1>1. PICK m \in T : \A k \in T : <<k, m>> \notin OpToRel(<, Nat)
  BY NatLessThanWellFounded, WFMin
<1>2. \A k \in T : ~ (k < m)
  BY <1>1, Zenon DEF OpToRel
<1> QED
  BY <1>2

\* The first number from 0 on for which something fails, if it does for one.
LEMMA FirstFailure ==
    ASSUME NEW T \in SUBSET Nat, NEW n \in Nat, n \notin T, 0 \in T,
           \A k \in 0..n : k \in T /\ k < n => k + 1 \in T
    PROVE  FALSE
<1> DEFINE Bad == {k \in Nat : k <= n /\ k \notin T}
<1>1. PICK m \in Bad : \A k \in Bad : m <= k
  <2>1. Bad \in SUBSET Nat /\ n \in Bad
    OBVIOUS
  <2> HIDE DEF Bad
  <2> QED
    BY <2>1, Least
<1>2. m # 0 /\ m - 1 \in Nat /\ m - 1 \in T /\ m - 1 < n
  BY <1>1
<1> QED
  BY <1>1, <1>2

\* f is what the loop has kept of list after each of its first n rounds.
Keeps(f, list, id, n) ==
    f = [i \in 0..n |->
           IF i = 0 THEN <<>>
           ELSE IF list[i].id = id THEN f[i - 1] ELSE Append(f[i - 1], list[i])]

LEMMA WithoutExists ==
    ASSUME NEW S, NEW list \in Seq(S), NEW id
    PROVE  \E f : Keeps(f, list, id, Len(list))
<1> DEFINE T == {n \in Nat : \E f : Keeps(f, list, id, n)}
<1>1. 0 \in T
  <2>1. Keeps([i \in 0..0 |-> <<>>], list, id, 0)
    BY DEF Keeps
  <2> QED
    BY <2>1
<1>2. ASSUME NEW n \in T, n < Len(list) PROVE n + 1 \in T
  <2>1. PICK f : Keeps(f, list, id, n)
    OBVIOUS
  <2> DEFINE g == [i \in 0..(n + 1) |->
                     IF i <= n THEN f[i]
                     ELSE IF list[i].id = id THEN f[i - 1] ELSE Append(f[i - 1], list[i])]
             h == [i \in 0..(n + 1) |-> IF i = 0 THEN <<>>
                                        ELSE IF list[i].id = id THEN g[i - 1]
                                             ELSE Append(g[i - 1], list[i])]
  <2>2. \A i \in 0..n : g[i] = f[i]
    OBVIOUS
  <2>3. ASSUME NEW i \in 0..(n + 1) PROVE g[i] = h[i]
    <3>1. CASE i = n + 1
      <4>1. g[i - 1] = f[i - 1] /\ i # 0 /\ ~(i <= n)
        BY <2>2, <3>1
      <4> HIDE DEF g
      <4>2. g[i] = IF list[i].id = id THEN f[i - 1] ELSE Append(f[i - 1], list[i])
        BY <4>1 DEF g
      <4> QED
        BY <4>1, <4>2
    <3>2. CASE i # n + 1
      <4>1. i \in 0..n /\ g[i] = f[i] /\ (i # 0 => i - 1 \in 0..n /\ g[i - 1] = f[i - 1])
        BY <2>2, <3>2
      <4>2. f[i] = IF i = 0 THEN <<>>
                   ELSE IF list[i].id = id THEN f[i - 1] ELSE Append(f[i - 1], list[i])
        BY <2>1, <4>1 DEF Keeps
      <4> HIDE DEF g
      <4> QED
        BY <4>1, <4>2
    <3> QED
      BY <3>1, <3>2
  <2>4. Keeps(g, list, id, n + 1)
    <3>1. g = h
      BY <2>3
    <3> QED
      BY <3>1 DEF Keeps
  <2> HIDE DEF g
  <2> QED
    BY <2>4
<1>3. Len(list) \in T
  <2>1. T \in SUBSET Nat /\ Len(list) \in Nat
    BY LenProperties
  <2> HIDE DEF T
  <2> QED
    BY <1>1, <1>2, <2>1, FirstFailure
<1> QED
  BY <1>3

\* Without drops what has the id, and nothing else.
LEMMA WithoutProperties ==
    ASSUME NEW S, NEW list \in Seq(S), NEW id
    PROVE  /\ Without(list, id) \in Seq(S)
           /\ Len(Without(list, id)) <= Len(list)
           /\ Ids(Without(list, id)) = Ids(list) \ {id}
<1> DEFINE kept == CHOOSE f : Keeps(f, list, id, Len(list))
           IdsTo(n) == {list[i].id : i \in 1..n}
           T == {n \in Nat : n <= Len(list) =>
                   /\ kept[n] \in Seq(S)
                   /\ Len(kept[n]) <= n
                   /\ Ids(kept[n]) = IdsTo(n) \ {id}}
<1>1. Without(list, id) = kept[Len(list)]
  BY DEF Without, Keeps
<1>2. kept = [i \in 0..Len(list) |->
                IF i = 0 THEN <<>>
                ELSE IF list[i].id = id THEN kept[i - 1] ELSE Append(kept[i - 1], list[i])]
  <2>1. \E f : Keeps(f, list, id, Len(list))
    BY WithoutExists
  <2>2. Keeps(kept, list, id, Len(list))
    BY <2>1
  <2> QED
    BY <2>2 DEF Keeps
<1> HIDE DEF kept
<1>3. 0 \in T
  <2>1. kept[0] = <<>>
    BY <1>2
  <2>2. 1..Len(<<>>) = {} /\ 1..0 = {}
    OBVIOUS
  <2>3. Ids(<<>>) = {} /\ IdsTo(0) = {}
    BY <2>2 DEF Ids
  <2>4. kept[0] \in Seq(S) /\ Len(kept[0]) <= 0 /\ Ids(kept[0]) = IdsTo(0) \ {id}
    <3> HIDE DEF IdsTo
    <3> QED
      BY <2>1, <2>3, EmptySeq
  <2> QED
    BY <2>4
<1>4. ASSUME NEW n \in T, n < Len(list) PROVE n + 1 \in T
  <2>1. /\ kept[n] \in Seq(S) /\ Len(kept[n]) <= n
        /\ Ids(kept[n]) = IdsTo(n) \ {id}
    BY <1>4
  <2>2. /\ n + 1 \in 1..Len(list) /\ list[n + 1] \in S
        /\ IdsTo(n + 1) = IdsTo(n) \union {list[n + 1].id}
    <3>1. n \in Nat /\ n + 1 \in 1..Len(list)
      BY <1>4
    <3>2. list[n + 1] \in S
      BY <3>1
    <3>3. 1..(n + 1) = (1..n) \union {n + 1}
      BY <3>1
    <3> QED
      BY <3>1, <3>2, <3>3
  <2>3. kept[n + 1] = IF list[n + 1].id = id THEN kept[n] ELSE Append(kept[n], list[n + 1])
    <3>1. n + 1 \in 0..Len(list) /\ n + 1 # 0 /\ (n + 1) - 1 = n
      BY <2>2, <1>4
    <3> QED
      BY <1>2, <3>1
  <2>4. CASE list[n + 1].id = id
    <3>1. IdsTo(n + 1) \ {id} = IdsTo(n) \ {id}
      BY <2>2, <2>4
    <3> HIDE DEF IdsTo
    <3> QED
      BY <2>1, <2>3, <2>4, <3>1
  <2>5. CASE list[n + 1].id # id
    <3>1. /\ kept[n + 1] \in Seq(S) /\ Len(kept[n + 1]) = Len(kept[n]) + 1
          /\ Len(kept[n]) \in Nat
          /\ kept[n + 1][Len(kept[n]) + 1] = list[n + 1]
          /\ \A i \in 1..Len(kept[n]) : kept[n + 1][i] = kept[n][i]
      BY <2>1, <2>2, <2>3, <2>5, AppendProperties
    <3>2. Ids(kept[n + 1]) = Ids(kept[n]) \union {list[n + 1].id}
      <4>1. 1..Len(kept[n + 1]) = (1..Len(kept[n])) \union {Len(kept[n]) + 1}
        BY <3>1
      <4>2. ASSUME NEW x PROVE x \in Ids(kept[n + 1])
                               <=> x \in Ids(kept[n]) \union {list[n + 1].id}
        BY <3>1, <4>1 DEF Ids
      <4> QED
        BY <4>2
    <3>3. IdsTo(n + 1) \ {id} = (IdsTo(n) \ {id}) \union {list[n + 1].id}
      BY <2>2, <2>5
    <3> HIDE DEF IdsTo
    <3> QED
      BY <2>1, <3>1, <3>2, <3>3
  <2> QED
    BY <2>4, <2>5
<1>5. Len(list) \in T
  <2>1. T \in SUBSET Nat
    OBVIOUS
  <2> HIDE DEF T
  <2> QED
    BY <1>3, <1>4, <2>1, FirstFailure
<1>6. IdsTo(Len(list)) = Ids(list)
  BY DEF Ids
<1> QED
  BY <1>1, <1>5, <1>6

LEMMA Appended ==
    ASSUME NEW S, NEW list \in Seq(S), NEW d \in S
    PROVE  /\ Append(list, d) \in Seq(S)
           /\ Len(list) \in Nat /\ Len(Append(list, d)) = Len(list) + 1
           /\ Append(list, d)[Len(list) + 1] = d
           /\ \A i \in 1..Len(list) : Append(list, d)[i] = list[i]
           /\ 1..Len(Append(list, d)) = 1..Len(list) \union {Len(list) + 1}
  BY AppendProperties, LenProperties

LEMMA IdsAppend ==
    ASSUME NEW S, NEW list \in Seq(S), NEW d \in S
    PROVE  Ids(Append(list, d)) = Ids(list) \union {d.id}
<1>1. /\ Len(Append(list, d)) = Len(list) + 1 /\ Len(list) \in Nat
      /\ Append(list, d)[Len(list) + 1] = d
      /\ \A i \in 1..Len(list) : Append(list, d)[i] = list[i]
  BY AppendProperties
<1>2. 1..(Len(list) + 1) = (1..Len(list)) \union {Len(list) + 1}
  BY <1>1
<1>3. ASSUME NEW x PROVE x \in Ids(Append(list, d)) <=> x \in Ids(list) \union {d.id}
  BY <1>1, <1>2 DEF Ids
<1> QED
  BY <1>3

-----------------------------------------------------------------------------
(* Types.                                                                  *)

Notices == [name : {"Attached", "AttachedFinished", "Detached", "DetachedFinished"},
            id : 1..numbered]

LEMMA ConnectionTypes ==
    /\ \A c \in Connections : c.id \in 1..MaxConnections /\ c.type \in {"USB", "WiFi"}
    /\ \A id \in 1..MaxConnections, type \in {"USB", "WiFi"} :
          /\ Connection(id, type) \in Connections
          /\ Connection(id, type).id = id /\ Connection(id, type).type = type
<1>1. ASSUME NEW c \in Connections
      PROVE  c.id \in 1..MaxConnections /\ c.type \in {"USB", "WiFi"}
  BY DEF Connections, Connection
<1>2. ASSUME NEW id \in 1..MaxConnections, NEW type \in {"USB", "WiFi"}
      PROVE  /\ Connection(id, type) \in Connections
             /\ Connection(id, type).id = id /\ Connection(id, type).type = type
  BY DEF Connections, Connection
<1> QED
  BY <1>1, <1>2

LEMMA NumbersTypes ==
    ASSUME TypeOK
    PROVE  numbered \in Nat /\ numbered <= MaxConnections /\ allocated \in Nat
<1>1. numbered \in 0..MaxConnections /\ allocated \in Nat
  BY DEF TypeOK
<1> QED
  BY <1>1, BoundsAssumption

\* The sets the lists are of only grow.
LEMMA Growing ==
    ASSUME TypeOK, numbered' \in Nat, allocated' \in Nat,
           numbered <= numbered', allocated <= allocated'
    PROVE  /\ deviceList \in Seq(Devices') /\ update \in Seq(Devices')
           /\ mainQueue \in Seq(Notices')
           /\ target \in [Clients -> 0..numbered'] /\ listed \subseteq 1..numbered'
<1>1. numbered \in Nat /\ allocated \in Nat
  BY NumbersTypes
<1>2. 1..numbered \subseteq 1..numbered' /\ 1..allocated \subseteq 1..allocated'
      /\ 0..numbered \subseteq 0..numbered'
  BY <1>1
<1>3. Devices \subseteq Devices' /\ Notices \subseteq Notices'
  BY <1>2 DEF Devices, Notices
<1>4. deviceList \in Seq(Devices) /\ update \in Seq(Devices) /\ mainQueue \in Seq(Notices)
  BY DEF TypeOK, Notices
<1> QED
  BY <1>2, <1>3, <1>4, SeqMonotonic DEF TypeOK

\* A list with new notices is one.
LEMMA NoticeTypes ==
    ASSUME TypeOK
    PROVE  /\ \A c \in Alive : IInv => AttachNotices(c) \in Seq(Notices)
           /\ \A id \in 1..numbered : DetachNotices(id) \in Seq(Notices)
<1>1. ASSUME NEW c \in Alive, IInv PROVE AttachNotices(c) \in Seq(Notices)
  <2>1. c.id \in 1..numbered
    BY <1>1, ConnectionTypes, NumbersTypes, BoundsAssumption DEF IInv, Reported, Alive
  <2>2. <<Notice("Attached", c.id)>> \in Seq(Notices)
    BY <2>1 DEF Notice, Notices
  <2> QED
    BY <2>2, EmptySeq DEF AttachNotices
<1>2. ASSUME NEW id \in 1..numbered PROVE DetachNotices(id) \in Seq(Notices)
  <2>1. deviceList \in Seq(Devices)
    BY DEF TypeOK
  <2>2. Len(deviceList) - Len(WithoutDetached(id)) \in Nat
    <3>1. /\ WithoutDetached(id) \in Seq(Devices) /\ Len(WithoutDetached(id)) <= Len(deviceList)
      BY <2>1, WithoutProperties DEF WithoutDetached
    <3> QED
      BY <2>1, <3>1, LenProperties
  <2>3. Notice("Detached", id) \in Notices
    BY DEF Notice, Notices
  <2> DEFINE n == Len(deviceList) - Len(WithoutDetached(id))
  <2> HIDE DEF n
  <2>4. [i \in 1..n |-> Notice("Detached", id)] \in Seq(Notices)
    BY <2>2, <2>3 DEF n
  <2> QED
    BY <2>4 DEF DetachNotices, n
<1> QED
  BY <1>1, <1>2

MuxTypes ==
    /\ numbered \in 0..MaxConnections /\ plugged \subseteq Connections
    /\ wire \in Seq(Packets)
    /\ requests \in 0..requested /\ requested \in 0..MaxRequests

HandlerTypes ==
    /\ allocated \in Nat /\ deviceList \in Seq(Devices) /\ update \in Seq(Devices)
    /\ handlerPc \in {"idle", "list", "assign attached", "assign detached",
                      "finish attached", "finish detached"}
    /\ inList \in BOOLEAN
    /\ todo \subseteq Connections
    /\ subject \in Connections \union {NoConnection}
    /\ mainQueue \in Seq(Notices)

ClientTypes ==
    /\ pc \in [Clients -> {"idle", "counting", "fetching", "answered"}]
    /\ target \in [Clients -> 0..numbered] /\ index \in [Clients -> Nat]
    /\ answer \in [Clients -> BOOLEAN] /\ listed \subseteq 1..numbered
    /\ throughout \in [Clients -> BOOLEAN] /\ once \in [Clients -> BOOLEAN]
    /\ aborted \in BOOLEAN

LEMMA TypeParts == TypeOK <=> MuxTypes /\ HandlerTypes /\ ClientTypes
  BY DEF TypeOK, MuxTypes, HandlerTypes, ClientTypes, Packets, Notices

LEMMA TypePartsNext == TypeOK' <=> MuxTypes' /\ HandlerTypes' /\ ClientTypes'
  BY DEF TypeOK, MuxTypes, HandlerTypes, ClientTypes, Packets, Notices

LEMMA WireAppend ==
    ASSUME MuxTypes, NEW p \in Packets, wire' = Append(wire, p)
    PROVE  /\ wire' \in Seq(Packets) /\ Len(wire) \in Nat
           /\ Len(wire') = Len(wire) + 1 /\ wire'[Len(wire) + 1] = p
           /\ \A i \in 1..Len(wire) : wire'[i] = wire[i]
  BY AppendProperties, LenProperties DEF MuxTypes

LEMMA WireTail ==
    ASSUME MuxTypes, wire # <<>>, wire' = Tail(wire)
    PROVE  /\ wire' \in Seq(Packets) /\ Len(wire) \in Nat /\ Len(wire) >= 1
           /\ Len(wire') = Len(wire) - 1
           /\ \A i \in 1..Len(wire') : wire'[i] = wire[i + 1]
           /\ Head(wire) = wire[1] /\ wire[1] \in Packets
<1>1. Len(wire) \in Nat /\ Len(wire) >= 1
  BY EmptySeq DEF MuxTypes
<1> QED
  BY <1>1, HeadTailProperties DEF MuxTypes

LEMMA PacketTypes ==
    \A kind \in {"Attached", "Detached", "DeviceList"}, devices \in SUBSET Connections :
        /\ Packet(kind, devices) \in Packets
        /\ Packet(kind, devices).kind = kind /\ Packet(kind, devices).devices = devices
  BY DEF Packet, Packets

\* usbmuxd's steps.
LEMMA MuxStepTypes ==
    ASSUME TypeOK, MuxStep
    PROVE  TypeOK'
<1>0. /\ MuxTypes /\ HandlerTypes /\ ClientTypes
      /\ numbered \in Nat /\ numbered <= MaxConnections /\ allocated \in Nat
  BY TypeParts, NumbersTypes
<1>1. ASSUME NEW type \in {"USB", "WiFi"}, Plug(type) PROVE TypeOK'
  <2> DEFINE c == Connection(numbered + 1, type)
  <2>1. c \in Connections /\ numbered + 1 \in 0..MaxConnections
    BY <1>0, <1>1, ConnectionTypes, BoundsAssumption DEF Plug
  <2>2. Packet("Attached", {c}) \in Packets
    BY <2>1, PacketTypes
  <2>3. wire' \in Seq(Packets)
    BY <1>0, <1>1, <2>2, WireAppend DEF Plug
  <2>4. MuxTypes'
    BY <1>0, <1>1, <2>1, <2>3 DEF MuxTypes, Plug, Packets, clientVars
  <2>5. HandlerTypes'
    <3>1. numbered' = numbered + 1 /\ allocated' = allocated
      BY <1>1 DEF Plug, handlerVars
    <3>2. deviceList \in Seq(Devices') /\ update \in Seq(Devices') /\ mainQueue \in Seq(Notices')
      BY <1>0, <3>1, Growing
    <3> QED
      BY <1>0, <1>1, <3>2 DEF HandlerTypes, Plug, handlerVars
  <2>6. ClientTypes'
    <3>1. 0..numbered \subseteq 0..numbered' /\ 1..numbered \subseteq 1..numbered'
      BY <1>0, <1>1 DEF Plug
    <3> QED
      BY <1>0, <1>1, <3>1 DEF ClientTypes, Plug, clientVars, ghostVars
  <2> QED
    BY <2>4, <2>5, <2>6, TypePartsNext
<1>2. ASSUME NEW c \in plugged, Unplug(c) PROVE TypeOK'
  <2>1. c \in Connections
    BY <1>0 DEF MuxTypes
  <2>2. Packet("Detached", {c}) \in Packets
    BY <2>1, PacketTypes
  <2>3. wire' \in Seq(Packets)
    BY <1>0, <1>2, <2>2, WireAppend DEF Unplug
  <2>4. MuxTypes'
    BY <1>0, <1>2, <2>3 DEF MuxTypes, Unplug, Packets, clientVars
  <2>5. HandlerTypes' /\ ClientTypes'
    BY <1>0, <1>2 DEF HandlerTypes, ClientTypes, Unplug, handlerVars, clientVars, ghostVars,
       Devices, Notices
  <2> QED
    BY <2>4, <2>5, TypePartsNext
<1>3. CASE AnswerListDevices
  <2>2. Packet("DeviceList", plugged) \in Packets
    BY <1>0, PacketTypes DEF MuxTypes
  <2>3. wire' \in Seq(Packets)
    BY <1>0, <1>3, <2>2, WireAppend DEF AnswerListDevices
  <2>4. MuxTypes'
    BY <1>0, <1>3, <2>3, BoundsAssumption DEF MuxTypes, AnswerListDevices, Packets, clientVars
  <2>5. HandlerTypes' /\ ClientTypes'
    BY <1>0, <1>3 DEF HandlerTypes, ClientTypes, AnswerListDevices, handlerVars, clientVars,
       ghostVars, Devices, Notices
  <2> QED
    BY <2>4, <2>5, TypePartsNext
<1> QED
  BY <1>1, <1>2, <1>3 DEF MuxStep

\* The readers' steps, and the main thread's.
LEMMA ReaderTypes ==
    ASSUME TypeOK, \/ Deliver \/ UpdateDeviceList \/ \E t \in Clients : ClientStep(t)
    PROVE  TypeOK'
<1>0. /\ MuxTypes /\ HandlerTypes /\ ClientTypes
      /\ numbered \in Nat /\ MaxRequests \in Nat
  BY TypeParts, NumbersTypes, BoundsAssumption
<1>1. CASE Deliver
  <2>1. mainQueue' \in Seq(Notices)
    BY <1>0, <1>1, HeadTailProperties DEF HandlerTypes, Deliver
  <2>2. MuxTypes' /\ HandlerTypes' /\ ClientTypes'
    BY <1>0, <1>1, <2>1 DEF MuxTypes, HandlerTypes, ClientTypes, Deliver, muxVars, handlerVars,
       clientVars, ghostVars, Devices, Notices, Packets
  <2> QED
    BY <2>2, TypePartsNext
<1>2. ASSUME Request, UNCHANGED <<plugged, numbered, wire>> PROVE MuxTypes'
  BY <1>0, <1>2 DEF Request, MuxTypes, Packets
<1>3. CASE UpdateDeviceList
  <2>1. MuxTypes' /\ HandlerTypes' /\ ClientTypes'
    BY <1>0, <1>2, <1>3 DEF HandlerTypes, ClientTypes, UpdateDeviceList, handlerVars, ghostVars,
       Devices, Notices
  <2> QED
    BY <2>1, TypePartsNext
<1>4. ASSUME NEW t \in Clients, CallIsAttached(t) PROVE TypeOK'
  <2>1. PICK id \in listed :
          /\ target' = [target EXCEPT ![t] = id]
          /\ throughout' = [throughout EXCEPT ![t] = id \in Ids(deviceList)]
          /\ once' = [once EXCEPT ![t] = id \in Ids(deviceList)]
    BY <1>4 DEF CallIsAttached
  <2>2. target' \in [Clients -> 0..numbered]
    BY <1>0, <2>1 DEF ClientTypes
  <2>3. throughout' \in [Clients -> BOOLEAN] /\ once' \in [Clients -> BOOLEAN]
    BY <1>0, <2>1 DEF ClientTypes
  <2>4. MuxTypes' /\ HandlerTypes' /\ ClientTypes'
    BY <1>0, <1>2, <1>4, <2>2, <2>3 DEF HandlerTypes, ClientTypes, CallIsAttached, handlerVars,
       Devices, Notices
  <2> QED
    BY <2>4, TypePartsNext
<1>5. ASSUME NEW t \in Clients, CheckCount(t) \/ Fetch(t) \/ FetchRaises(t) \/ Leave(t)
      PROVE  TypeOK'
  <2>1. MuxTypes' /\ HandlerTypes'
    BY <1>0, <1>5 DEF MuxTypes, HandlerTypes, CheckCount, Fetch, FetchRaises, Leave, muxVars,
       handlerVars, clientVars, Devices, Notices, Packets
  <2>2. ClientTypes'
    <3>1. CASE CheckCount(t)
      <4>1. /\ pc' \in [Clients -> {"idle", "counting", "fetching", "answered"}]
            /\ answer' \in [Clients -> BOOLEAN]
        BY <1>0, <3>1 DEF ClientTypes, CheckCount, Return
      <4> QED
        BY <1>0, <3>1, <4>1 DEF ClientTypes, CheckCount, muxVars, ghostVars
    <3>2. CASE Fetch(t)
      <4>1. /\ pc' \in [Clients -> {"idle", "counting", "fetching", "answered"}]
            /\ answer' \in [Clients -> BOOLEAN]
        BY <1>0, <3>2 DEF ClientTypes, Fetch, Return
      <4>2. index' \in [Clients -> Nat]
        <5>1. index' = index \/ index' = [index EXCEPT ![t] = @ + 1]
          BY <3>2 DEF Fetch
        <5> QED
          BY <1>0, <5>1 DEF ClientTypes
      <4> QED
        BY <1>0, <3>2, <4>1, <4>2 DEF ClientTypes, Fetch, muxVars, ghostVars
    <3>3. CASE FetchRaises(t)
      BY <1>0, <3>3 DEF ClientTypes, FetchRaises, muxVars, clientVars, ghostVars
    <3>4. CASE Leave(t)
      BY <1>0, <3>4 DEF ClientTypes, Leave, muxVars
    <3> QED
      BY <1>5, <3>1, <3>2, <3>3, <3>4
  <2> QED
    BY <2>1, <2>2, TypePartsNext
<1> QED
  BY <1>1, <1>3, <1>4, <1>5 DEF ClientStep

-----------------------------------------------------------------------------
(* The handler's steps.                                                    *)

\* A new object is in no list yet, so that attachedCallback: always adds it.
LEMMA NewIsNew ==
    ASSUME TypeOK, NEW c \in Connections
    PROVE  /\ ~ContainsObject(deviceList, NewDevice(c))
           /\ WithAttached(c) = IF c.type = "USB" THEN Append(deviceList, NewDevice(c))
                                ELSE deviceList
<1>1. \A i \in 1..Len(deviceList) : deviceList[i].object \in 1..allocated
  <2>1. deviceList \in Seq(Devices)
    BY TypeParts DEF HandlerTypes
  <2>2. \A d \in Devices : d.object \in 1..allocated
    BY DEF Devices
  <2> QED
    BY <2>1, <2>2, ElementOfSeq
<1>2. NewDevice(c).object = allocated + 1 /\ allocated \in Nat
  BY NumbersTypes DEF NewDevice
<1> QED
  BY <1>1, <1>2 DEF ContainsObject, IsEqual, WithAttached

\* What attachedCallback: is about to assign, of a connection that is alive.
LEMMA BegunAttach ==
    ASSUME TypeOK, NEW c \in Connections, c.id <= numbered, BeginAttach(c), UNCHANGED numbered
    PROVE  /\ allocated' = allocated + 1
           /\ update' \in Seq(Devices') /\ deviceList \in Seq(Devices')
           /\ mainQueue' \in Seq(Notices)
           /\ Ids(update') = Ids(deviceList) \union {id \in {c.id} : c.type = "USB"}
           /\ \A i \in 1..Len(mainQueue') :
                 (i \in 1..Len(mainQueue) /\ mainQueue'[i] = mainQueue[i])
                 \/ mainQueue'[i].name = "Attached"
<1>0. /\ HandlerTypes /\ numbered \in Nat /\ allocated \in Nat
      /\ c.id \in 1..numbered
  BY TypeParts, NumbersTypes, ConnectionTypes, BoundsAssumption
<1>1. /\ allocated' = allocated + 1 /\ update' = WithAttached(c)
      /\ mainQueue' = mainQueue \o AttachNotices(c)
  BY DEF BeginAttach
<1>2. deviceList \in Seq(Devices')
  BY <1>0, <1>1, Growing
<1>3. c.type = "USB" => NewDevice(c) \in Devices' /\ NewDevice(c).id = c.id
  BY <1>0, <1>1 DEF NewDevice, Devices
<1>4. update' \in Seq(Devices')
  BY <1>1, <1>2, <1>3, NewIsNew, AppendProperties
<1>5. Ids(update') = Ids(deviceList) \union {id \in {c.id} : c.type = "USB"}
  <2>1. CASE c.type = "USB"
    <3> DEFINE d == NewDevice(c)
    <3>1. d \in Devices' /\ d.id = c.id
      BY <1>3, <2>1
    <3>2. update' = Append(deviceList, d)
      BY <1>1, <2>1, NewIsNew
    <3> HIDE DEF d
    <3>3. Ids(Append(deviceList, d)) = Ids(deviceList) \union {d.id}
      BY <1>2, <3>1, IdsAppend
    <3>4. {id \in {c.id} : c.type = "USB"} = {c.id}
      BY <2>1
    <3> QED
      BY <3>1, <3>2, <3>3, <3>4
  <2>2. CASE c.type # "USB"
    BY <1>1, <2>2, NewIsNew
  <2> QED
    BY <2>1, <2>2
<1>6. /\ AttachNotices(c) \in Seq(Notices)
      /\ \A i \in 1..Len(AttachNotices(c)) : AttachNotices(c)[i].name = "Attached"
  <2>1. Notice("Attached", c.id) \in Notices /\ Notice("Attached", c.id).name = "Attached"
    BY <1>0 DEF Notice, Notices
  <2>2. /\ <<Notice("Attached", c.id)>> \in Seq(Notices)
        /\ Len(<<Notice("Attached", c.id)>>) = 1
        /\ <<Notice("Attached", c.id)>>[1] = Notice("Attached", c.id)
        /\ <<>> \in Seq(Notices) /\ 1..Len(<<>>) = {}
    BY <2>1
  <2> QED
    BY <2>1, <2>2 DEF AttachNotices
<1>7. /\ mainQueue' \in Seq(Notices)
      /\ \A i \in 1..Len(mainQueue') :
            (i \in 1..Len(mainQueue) /\ mainQueue'[i] = mainQueue[i])
            \/ mainQueue'[i].name = "Attached"
  <2> DEFINE more == AttachNotices(c)
  <2>1. mainQueue \in Seq(Notices) /\ Len(mainQueue) \in Nat /\ Len(more) \in Nat
    BY <1>0, <1>6, LenProperties DEF HandlerTypes
  <2> HIDE DEF more
  <2>2. /\ mainQueue \o more \in Seq(Notices)
        /\ Len(mainQueue \o more) = Len(mainQueue) + Len(more)
        /\ \A i \in 1..(Len(mainQueue) + Len(more)) : (mainQueue \o more)[i] =
              IF i <= Len(mainQueue) THEN mainQueue[i] ELSE more[i - Len(mainQueue)]
    BY <1>6, <2>1, ConcatProperties DEF more
  <2>3. \A i \in 1..(Len(mainQueue) + Len(more)) :
           i \in 1..Len(mainQueue) \/ i - Len(mainQueue) \in 1..Len(more)
    BY <2>1
  <2> QED
    BY <1>1, <1>6, <2>1, <2>2, <2>3 DEF more
<1> QED
  BY <1>1, <1>2, <1>4, <1>5, <1>7

\* What detachedCallback: is about to assign.
LEMMA BegunDetach ==
    ASSUME TypeOK, NEW id \in 1..numbered, update' = WithoutDetached(id),
           mainQueue' = mainQueue \o DetachNotices(id)
    PROVE  /\ update' \in Seq(Devices)
           /\ mainQueue' \in Seq(Notices)
           /\ Ids(update') = Ids(deviceList) \ {id}
           /\ \A i \in 1..Len(mainQueue') :
                 (i \in 1..Len(mainQueue) /\ mainQueue'[i] = mainQueue[i])
                 \/ mainQueue'[i].name = "Detached"
<1>0. /\ HandlerTypes /\ deviceList \in Seq(Devices)
  BY TypeParts DEF HandlerTypes
<1>1. update' \in Seq(Devices) /\ Ids(update') = Ids(deviceList) \ {id}
  BY <1>0, WithoutProperties DEF WithoutDetached
<1> DEFINE n == Len(deviceList) - Len(WithoutDetached(id))
           more == DetachNotices(id)
<1>2. more \in Seq(Notices)
  BY NoticeTypes
<1>3. n \in Nat
  <2>1. /\ WithoutDetached(id) \in Seq(Devices) /\ Len(WithoutDetached(id)) <= Len(deviceList)
    BY <1>0, WithoutProperties DEF WithoutDetached
  <2> QED
    BY <1>0, <2>1, LenProperties
<1>4. Len(more) = n /\ \A i \in 1..n : more[i].name = "Detached"
  <2>1. more = [i \in 1..n |-> Notice("Detached", id)]
    BY DEF DetachNotices
  <2>2. Notice("Detached", id).name = "Detached"
    BY DEF Notice
  <2>3. DOMAIN more = 1..Len(more) /\ Len(more) \in Nat
    BY <1>2, LenProperties
  <2> HIDE DEF n, more
  <2>4. DOMAIN more = 1..n
    BY <2>1
  <2> QED
    BY <1>3, <2>1, <2>2, <2>3, <2>4
<1> HIDE DEF n, more
<1>5. mainQueue \in Seq(Notices) /\ Len(mainQueue) \in Nat
  BY <1>0, LenProperties DEF HandlerTypes
<1>6. /\ mainQueue \o more \in Seq(Notices)
      /\ Len(mainQueue \o more) = Len(mainQueue) + Len(more)
      /\ \A i \in 1..(Len(mainQueue) + Len(more)) : (mainQueue \o more)[i] =
            IF i <= Len(mainQueue) THEN mainQueue[i] ELSE more[i - Len(mainQueue)]
  BY <1>2, <1>5, ConcatProperties
<1>7. \A i \in 1..(Len(mainQueue) + Len(more)) :
         i \in 1..Len(mainQueue) \/ i - Len(mainQueue) \in 1..Len(more)
  BY <1>3, <1>4, <1>5
<1>8. mainQueue' = mainQueue \o more
  BY DEF more
<1> QED
  BY <1>1, <1>3, <1>4, <1>5, <1>6, <1>7, <1>8

\* Whatever a packet names is alive.
LEMMA NamedAlive ==
    ASSUME TypeOK, Reported, NEW i \in 1..Len(wire), NEW c \in wire[i].devices
    PROVE  c \in Alive
<1>0. Len(wire) \in Nat /\ wire[i] \in Packets
  BY TypeParts, ElementOfSeq, LenProperties DEF MuxTypes
<1>1. c \in Connections
  BY <1>0 DEF Packets
<1>2. CASE wire[i].kind = "Detached"
  BY <1>1, <1>2 DEF Alive, Ends
<1>3. CASE wire[i].kind # "Detached"
  <2>1. c \in plugged \/ \E j \in (i + 1)..Len(wire) : Ends(j, c)
    BY <1>3 DEF Reported
  <2>2. (i + 1)..Len(wire) \subseteq 1..Len(wire)
    BY <1>0
  <2> QED
    BY <1>1, <2>1, <2>2 DEF Alive
<1> QED
  BY <1>2, <1>3

\* The handler reads a packet.
LEMMA ReadReported ==
    ASSUME TypeOK, Handling, Reported, wire # <<>>, wire' = Tail(wire),
           UNCHANGED <<plugged, numbered>>,
           todo' = {} \/ (wire[1].kind # "Detached" /\ todo' \subseteq wire[1].devices)
    PROVE  /\ Alive' = IF wire[1].kind = "Detached" THEN Alive \ wire[1].devices ELSE Alive
           /\ Reported'
<1>0. /\ Len(wire) \in Nat /\ Len(wire) >= 1 /\ Len(wire') = Len(wire) - 1
      /\ \A i \in 1..Len(wire') : wire'[i] = wire[i + 1]
  BY TypeParts, WireTail
<1>1. ASSUME NEW c PROVE /\ \A i \in 1..Len(wire') : Ends(i, c)' <=> Ends(i + 1, c)
                         /\ (\E i \in 1..Len(wire') : Ends(i, c)')
                               <=> \E i \in 2..Len(wire) : Ends(i, c)
  <2>1. \A i \in 1..Len(wire') : Ends(i, c)' <=> Ends(i + 1, c)
    BY <1>0 DEF Ends
  <2>2. \A i \in 2..Len(wire) : i - 1 \in 1..Len(wire') /\ (i - 1) + 1 = i
    BY <1>0
  <2>3. \A i \in 1..Len(wire') : i + 1 \in 2..Len(wire)
    BY <1>0
  <2> QED
    BY <2>1, <2>2, <2>3
<1>2. 1 \in 1..Len(wire) /\ 1..Len(wire) = {1} \union (2..Len(wire))
  BY <1>0
<1>3. ASSUME NEW c \in Connections
      PROVE  c \in Alive' <=> c \in plugged \/ \E i \in 2..Len(wire) : Ends(i, c)
  BY <1>1 DEF Alive
<1>4. Alive' = IF wire[1].kind = "Detached" THEN Alive \ wire[1].devices ELSE Alive
  <2>1. CASE wire[1].kind = "Detached"
    <3>1. \A c \in wire[1].devices :
             c \notin plugged /\ \A j \in 2..Len(wire) : c \notin wire[j].devices
      BY <1>2, <2>1 DEF Reported
    <3>2. ASSUME NEW c \in Connections PROVE c \in Alive' <=> c \in Alive /\ c \notin wire[1].devices
      BY <1>2, <1>3, <2>1, <3>1 DEF Alive, Ends
    <3> QED
      BY <2>1, <3>2 DEF Alive
  <2>2. CASE wire[1].kind # "Detached"
    <3>1. ASSUME NEW c \in Connections PROVE c \in Alive' <=> c \in Alive
      BY <1>2, <1>3, <2>2 DEF Alive, Ends
    <3> QED
      BY <2>2, <3>1 DEF Alive
  <2> QED
    BY <2>1, <2>2
<1>5. Alive' \subseteq Alive
  BY <1>4
<1>6. todo' \subseteq Alive'
  BY <1>2, <1>4, NamedAlive
<1>7. ASSUME NEW i \in 1..Len(wire'), NEW c \in wire'[i].devices
      PROVE  IF wire'[i].kind = "Detached"
             THEN c \notin plugged' /\ \A j \in (i + 1)..Len(wire') : c \notin wire'[j].devices
             ELSE c \in plugged' \/ \E j \in (i + 1)..Len(wire') : Ends(j, c)'
  <2>1. i + 1 \in 1..Len(wire) /\ wire'[i] = wire[i + 1]
    BY <1>0
  <2>2. /\ \A j \in (i + 1)..Len(wire') : j \in 1..Len(wire') /\ j + 1 \in (i + 2)..Len(wire)
        /\ \A j \in (i + 2)..Len(wire) :
              /\ j - 1 \in (i + 1)..Len(wire') /\ j - 1 \in 1..Len(wire')
              /\ (j - 1) + 1 = j
        /\ (i + 1) + 1 = i + 2
    BY <1>0
  <2>3. IF wire[i + 1].kind = "Detached"
        THEN c \notin plugged /\ \A j \in (i + 2)..Len(wire) : c \notin wire[j].devices
        ELSE c \in plugged \/ \E j \in (i + 2)..Len(wire) : Ends(j, c)
    BY <1>7, <2>1, <2>2 DEF Reported
  <2>4. CASE wire'[i].kind = "Detached"
    BY <1>0, <2>1, <2>2, <2>3, <2>4
  <2>5. CASE wire'[i].kind # "Detached"
    <3>1. ASSUME NEW j \in (i + 2)..Len(wire), Ends(j, c)
          PROVE  \E k \in (i + 1)..Len(wire') : Ends(k, c)'
      <4>1. j - 1 \in 1..Len(wire') /\ j - 1 \in (i + 1)..Len(wire') /\ (j - 1) + 1 = j
        BY <2>2
      <4>2. Ends(j - 1, c)' <=> Ends((j - 1) + 1, c)
        BY <1>1, <4>1
      <4> QED
        BY <3>1, <4>1, <4>2
    <3> QED
      BY <2>1, <2>3, <2>5, <3>1
  <2> QED
    BY <2>4, <2>5
<1> QED
  BY <1>4, <1>5, <1>6, <1>7 DEF Reported

\* What is plugged in and not listed is in what is read, or still under way.
LEMMA ReadTracked ==
    ASSUME TypeOK, Tracked, todo = {}, wire # <<>>, wire' = Tail(wire),
           NEW c \in plugged, c.type = "USB", c.id \notin Ids(Upcoming)
    PROVE  \/ wire[1].kind = "Attached" /\ c \in wire[1].devices
           \/ \E i \in 1..Len(wire') : wire'[i].kind = "Attached" /\ c \in wire'[i].devices
<1>0. /\ Len(wire) \in Nat /\ Len(wire') = Len(wire) - 1
      /\ \A i \in 1..Len(wire') : wire'[i] = wire[i + 1]
  BY TypeParts, WireTail
<1>1. PICK i \in 1..Len(wire) : wire[i].kind = "Attached" /\ c \in wire[i].devices
  BY DEF Tracked
<1>2. CASE i # 1
  <2>1. i - 1 \in 1..Len(wire') /\ (i - 1) + 1 = i
    BY <1>0, <1>2
  <2>2. wire'[i - 1] = wire[i]
    BY <1>0, <2>1
  <2> QED
    BY <1>1, <2>1, <2>2
<1> QED
  BY <1>1, <1>2

LEMMA ReadHandling ==
    ASSUME TypeOK, Handling, wire # <<>>, wire' = Tail(wire)
    PROVE  /\ \A i \in 1..Len(wire') : wire'[i].kind # "DeviceList" =>
                 \E c \in Connections : wire'[i].devices = {c}
           /\ wire[1].kind # "DeviceList" => \E c \in Connections : wire[1].devices = {c}
           /\ Head(wire) = wire[1] /\ 1 \in 1..Len(wire) /\ wire[1] \in Packets
           /\ UNCHANGED <<plugged, numbered, requests, requested>> => MuxTypes'
<1>0. /\ Len(wire) \in Nat /\ Len(wire) >= 1 /\ Len(wire') = Len(wire) - 1
      /\ \A i \in 1..Len(wire') : wire'[i] = wire[i + 1]
      /\ Head(wire) = wire[1] /\ wire[1] \in Packets
      /\ wire' \in Seq(Packets) /\ MuxTypes
  BY TypeParts, WireTail
<1>1. 1 \in 1..Len(wire) /\ \A i \in 1..Len(wire') : i + 1 \in 1..Len(wire)
  BY <1>0
<1> QED
  BY <1>0, <1>1 DEF Handling, MuxTypes, Packets

\* Notifications that nothing has been finished change nothing.
LEMMA QueueGrows ==
    ASSUME Told, FinishedIsVisible,
           \A i \in 1..Len(mainQueue') :
              (i \in 1..Len(mainQueue) /\ mainQueue'[i] = mainQueue[i])
              \/ mainQueue'[i].name \in {"Attached", "Detached"},
           Alive' \subseteq Alive, UNCHANGED <<plugged, deviceList>>
    PROVE  Told' /\ FinishedIsVisible'
  BY DEF Told, FinishedIsVisible

\* attachedCallback: begins, in whatever loop.
LEMMA AttachNext ==
    ASSUME IInv, NEW c \in Alive, BeginAttach(c), handlerPc \in {"idle", "list"},
           UNCHANGED <<numbered, plugged, deviceList, inList, clientVars, ghostVars, aborted>>,
           MuxTypes', Alive' = Alive, Reported', ~inList => todo' = {},
           \A i \in 1..Len(wire') : wire'[i].kind # "DeviceList" =>
              \E d \in Connections : wire'[i].devices = {d},
           \A d \in plugged :
              \/ d.type # "USB" \/ d.id \in Ids(deviceList) \/ d = c \/ d \in todo'
              \/ \E i \in 1..Len(wire') : wire'[i].kind = "Attached" /\ d \in wire'[i].devices
    PROVE  IInv'
<1>0. /\ TypeOK /\ HandlerTypes /\ ClientTypes /\ numbered \in Nat /\ allocated \in Nat
      /\ c \in Connections /\ c.id \in 1..numbered /\ MuxTypes
  BY TypeParts, NumbersTypes, ConnectionTypes, BoundsAssumption DEF IInv, Alive, Reported
<1>1. /\ allocated' = allocated + 1
      /\ update' \in Seq(Devices') /\ deviceList \in Seq(Devices')
      /\ mainQueue' \in Seq(Notices)
      /\ Ids(update') = Ids(deviceList) \union {id \in {c.id} : c.type = "USB"}
      /\ \A i \in 1..Len(mainQueue') :
            (i \in 1..Len(mainQueue) /\ mainQueue'[i] = mainQueue[i])
            \/ mainQueue'[i].name = "Attached"
  BY <1>0, BegunAttach
<1>2. subject' = c /\ handlerPc' = "assign attached"
  BY DEF BeginAttach
<1>3. Upcoming = deviceList /\ Upcoming' = update'
  BY <1>2 DEF Upcoming, Assigning
<1>4. TypeOK'
  <2>1. todo' \subseteq Connections
    BY DEF Reported, Alive
  <2>2. HandlerTypes'
    <3>1. allocated' \in Nat
      BY <1>0, <1>1
    <3>2. Notices' = Notices
      BY DEF Notices
    <3>3. deviceList' \in Seq(Devices') /\ inList' \in BOOLEAN
      BY <1>0, <1>1 DEF HandlerTypes
    <3> QED
      BY <1>0, <1>1, <1>2, <2>1, <3>1, <3>2, <3>3 DEF HandlerTypes
  <2>3. ClientTypes'
    BY <1>0 DEF ClientTypes, clientVars, ghostVars
  <2> QED
    BY <2>2, <2>3, TypePartsNext
<1>5. Handling'
  BY <1>0, <1>2 DEF Handling, Attaching, Detaching
<1>6. Tracked'
  <2>1. \A id \in Ids(update') : id \in UsbIds(Alive')
    BY <1>1, <1>3 DEF IInv, Tracked, UsbIds
  <2> QED
    BY <1>1, <1>3, <2>1 DEF Tracked
<1>7. Updating'
  <2>1. ASSUME c.id \in UsbIds(plugged) PROVE c.type = "USB"
    <3>1. PICK d \in plugged : d.type = "USB" /\ d.id = c.id
      BY <2>1 DEF UsbIds
    <3>2. d \in Alive
      BY <1>0 DEF Alive, MuxTypes
    <3> QED
      BY <3>1, <3>2 DEF IInv, Reported
  <2> QED
    BY <1>1, <1>2, <1>3, <2>1 DEF Updating, Attaching, Detaching
<1>8. Told' /\ FinishedIsVisible'
  BY <1>1, QueueGrows DEF IInv
<1>9. Watched'
  BY DEF IInv, Watched, clientVars, ghostVars
<1> QED
  BY <1>4, <1>5, <1>6, <1>7, <1>8, <1>9 DEF IInv

LEMMA ReceiveAttachedNext ==
    ASSUME IInv, ReceiveAttached
    PROVE  IInv'
<1>1. /\ handlerPc = "idle" /\ wire # <<>> /\ Head(wire).kind = "Attached"
      /\ wire' = Tail(wire) /\ ~inList /\ todo = {} /\ todo' = {}
      /\ UNCHANGED <<numbered, plugged, requests, requested, deviceList, inList, clientVars,
                     ghostVars, aborted>>
  BY DEF ReceiveAttached, IInv, Handling, clientVars
<1>2. PICK c \in Head(wire).devices : BeginAttach(c)
  BY DEF ReceiveAttached
<1>3. /\ wire[1].kind = "Attached" /\ wire[1].devices = {c} /\ 1 \in 1..Len(wire)
      /\ MuxTypes'
      /\ \A i \in 1..Len(wire') : wire'[i].kind # "DeviceList" =>
            \E d \in Connections : wire'[i].devices = {d}
  BY <1>1, <1>2, ReadHandling DEF IInv
<1>4. c \in Alive
  BY <1>3, NamedAlive DEF IInv
<1>5. Alive' = Alive /\ Reported'
  BY <1>1, <1>3, ReadReported DEF IInv
<1>6. ASSUME NEW d \in plugged
      PROVE  \/ d.type # "USB" \/ d.id \in Ids(deviceList) \/ d = c
             \/ \E i \in 1..Len(wire') : wire'[i].kind = "Attached" /\ d \in wire'[i].devices
  <2>1. Upcoming = deviceList
    BY <1>1 DEF Upcoming, Assigning
  <2> QED
    BY <1>1, <1>3, <2>1, ReadTracked DEF IInv
<1> QED
  BY <1>1, <1>2, <1>3, <1>4, <1>5, <1>6, AttachNext

LEMMA ReceiveDetachedNext ==
    ASSUME IInv, ReceiveDetached
    PROVE  IInv'
<1>1. /\ handlerPc = "idle" /\ wire # <<>> /\ Head(wire).kind = "Detached"
      /\ wire' = Tail(wire) /\ ~inList /\ todo = {} /\ todo' = {}
      /\ handlerPc' = "assign detached"
      /\ UNCHANGED <<numbered, plugged, requests, requested, deviceList, allocated, inList,
                     clientVars, ghostVars, aborted>>
  BY DEF ReceiveDetached, IInv, Handling, clientVars
<1>2. PICK c \in Head(wire).devices :
         /\ subject' = c
         /\ update' = WithoutDetached(c.id)
         /\ mainQueue' = mainQueue \o DetachNotices(c.id)
  BY DEF ReceiveDetached
<1>3. /\ wire[1].kind = "Detached" /\ wire[1].devices = {c} /\ 1 \in 1..Len(wire)
      /\ MuxTypes'
      /\ \A i \in 1..Len(wire') : wire'[i].kind # "DeviceList" =>
            \E d \in Connections : wire'[i].devices = {d}
  BY <1>1, <1>2, ReadHandling DEF IInv
<1>4. c \in Alive
  BY <1>3, NamedAlive DEF IInv
<1>5. Alive' = Alive \ {c} /\ Reported'
  BY <1>1, <1>3, ReadReported DEF IInv
<1>6. /\ TypeOK /\ HandlerTypes /\ ClientTypes /\ numbered \in Nat /\ allocated \in Nat
      /\ c \in Connections /\ c.id \in 1..numbered
  BY <1>4, TypeParts, NumbersTypes, ConnectionTypes, BoundsAssumption DEF IInv, Alive, Reported
<1>7. /\ update' \in Seq(Devices)
      /\ mainQueue' \in Seq(Notices)
      /\ Ids(update') = Ids(deviceList) \ {c.id}
      /\ \A i \in 1..Len(mainQueue') :
            (i \in 1..Len(mainQueue) /\ mainQueue'[i] = mainQueue[i])
            \/ mainQueue'[i].name = "Detached"
  BY <1>2, <1>6, BegunDetach
<1>8. Upcoming = deviceList /\ Upcoming' = update'
  BY <1>1 DEF Upcoming, Assigning
<1>9. \A d \in Alive' : d.id # c.id
  BY <1>4, <1>5 DEF IInv, Reported
<1>10. TypeOK'
  <2>1. Notices' = Notices /\ Devices' = Devices
    BY <1>1 DEF Notices, Devices
  <2>2. HandlerTypes'
    BY <1>1, <1>2, <1>6, <1>7, <2>1 DEF HandlerTypes
  <2>3. ClientTypes'
    BY <1>1, <1>6 DEF ClientTypes, clientVars, ghostVars
  <2> QED
    BY <1>3, <2>2, <2>3, TypePartsNext
<1>11. Handling'
  BY <1>1, <1>2, <1>3, <1>6 DEF Handling, Attaching, Detaching
<1>12. Tracked'
  <2>1. ASSUME NEW id \in Ids(update') PROVE id \in UsbIds(Alive')
    <3>1. id \in Ids(deviceList) /\ id # c.id
      BY <1>7
    <3>2. id \in UsbIds(Alive)
      BY <1>8, <3>1 DEF IInv, Tracked
    <3> QED
      BY <1>5, <3>1, <3>2 DEF UsbIds
  <2>2. ASSUME NEW d \in plugged
        PROVE  \/ d.type # "USB" \/ d.id \in Ids(update')
               \/ \E i \in 1..Len(wire') : wire'[i].kind = "Attached" /\ d \in wire'[i].devices
    <3>1. \/ d.type # "USB" \/ d.id \in Ids(deviceList)
          \/ \E i \in 1..Len(wire') : wire'[i].kind = "Attached" /\ d \in wire'[i].devices
      BY <1>1, <1>3, <1>8, ReadTracked DEF IInv
    <3>2. d \in Alive'
      BY <1>1, <1>6, TypeParts DEF Alive, MuxTypes
    <3>3. d.id # c.id
      BY <1>9, <3>2
    <3> QED
      BY <1>7, <3>1, <3>3
  <2> QED
    BY <1>1, <1>8, <2>1, <2>2 DEF Tracked
<1>13. Updating'
  BY <1>1, <1>2, <1>7, <1>9 DEF Updating, Attaching, Detaching
<1>14. Told' /\ FinishedIsVisible'
  BY <1>1, <1>5, <1>7, QueueGrows DEF IInv
<1>15. Watched'
  BY <1>1 DEF IInv, Watched, clientVars, ghostVars
<1> QED
  BY <1>5, <1>10, <1>11, <1>12, <1>13, <1>14, <1>15 DEF IInv

\* Reading a list, and what deviceListCallback: does between two devices.
LEMMA ListNext ==
    ASSUME IInv, ReceiveDeviceList \/ AttachListed \/ EndList
    PROVE  IInv'
<1>0. /\ TypeOK /\ MuxTypes /\ HandlerTypes /\ ClientTypes
  BY TypeParts DEF IInv
<1>1. CASE ReceiveDeviceList
  <2>1. /\ handlerPc = "idle" /\ wire # <<>> /\ Head(wire).kind = "DeviceList"
        /\ wire' = Tail(wire) /\ ~inList /\ todo = {} /\ todo' = Head(wire).devices
        /\ handlerPc' = "list" /\ inList' = TRUE
        /\ UNCHANGED <<numbered, plugged, requests, requested, deviceList, allocated, update,
                       subject, mainQueue, clientVars, ghostVars, aborted>>
    BY <1>1 DEF ReceiveDeviceList, IInv, Handling, clientVars
  <2>2. /\ wire[1].kind = "DeviceList" /\ todo' = wire[1].devices /\ MuxTypes'
        /\ wire[1] \in Packets
        /\ \A i \in 1..Len(wire') : wire'[i].kind # "DeviceList" =>
              \E d \in Connections : wire'[i].devices = {d}
    BY <2>1, ReadHandling DEF IInv
  <2>3. Alive' = Alive /\ Reported'
    BY <2>1, <2>2, ReadReported DEF IInv
  <2>4. TypeOK'
    <3>1. todo' \subseteq Connections
      BY <2>2 DEF Packets
    <3>2. HandlerTypes' /\ ClientTypes'
      BY <1>0, <2>1, <3>1 DEF HandlerTypes, ClientTypes, Notices, Devices, clientVars, ghostVars
    <3> QED
      BY <2>2, <3>2, TypePartsNext
  <2>5. Handling'
    BY <2>1, <2>2 DEF Handling, Attaching, Detaching
  <2>6. Upcoming = deviceList /\ Upcoming' = deviceList
    BY <2>1 DEF Upcoming, Assigning
  <2>7. Tracked'
    <3>1. ASSUME NEW d \in plugged
          PROVE  \/ d.type # "USB" \/ d.id \in Ids(deviceList)
                 \/ \E i \in 1..Len(wire') : wire'[i].kind = "Attached" /\ d \in wire'[i].devices
      BY <2>1, <2>2, <2>6, ReadTracked DEF IInv
    <3>2. \A id \in Ids(deviceList) : id \in UsbIds(Alive')
      BY <2>3, <2>6 DEF IInv, Tracked
    <3> QED
      BY <2>1, <2>6, <3>1, <3>2 DEF Tracked
  <2>8. Updating' /\ Watched' /\ Told' /\ FinishedIsVisible'
    BY <2>1, <2>3 DEF Updating, Attaching, Detaching, IInv, Watched, Told, FinishedIsVisible,
       clientVars, ghostVars
  <2> QED
    BY <2>3, <2>4, <2>5, <2>7, <2>8 DEF IInv
<1>2. CASE AttachListed
  <2>1. PICK c \in todo :
           /\ todo' = todo \ {c}
           /\ \/ BeginAttach(c)
              \/ ContainsObject(deviceList, NewDevice(c))
    BY <1>2 DEF AttachListed
  <2>2. c \in Connections /\ c \in Alive
    BY <1>0 DEF HandlerTypes, IInv, Reported
  <2>3. BeginAttach(c)
    BY <1>0, <2>1, <2>2, NewIsNew
  <2>4. /\ handlerPc = "list" /\ inList
        /\ UNCHANGED <<numbered, plugged, wire, requests, requested, deviceList, inList,
                       clientVars, ghostVars, aborted>>
    BY <1>2 DEF AttachListed, muxVars, clientVars, IInv, Handling
  <2>5. MuxTypes' /\ Alive' = Alive
    BY <1>0, <2>4 DEF MuxTypes, Alive, Ends, Packets
  <2>6. Reported'
    BY <2>1, <2>4, <2>5 DEF IInv, Reported, Ends
  <2>7. \A d \in plugged :
           \/ d.type # "USB" \/ d.id \in Ids(deviceList) \/ d = c \/ d \in todo'
           \/ \E i \in 1..Len(wire') : wire'[i].kind = "Attached" /\ d \in wire'[i].devices
    <3>1. Upcoming = deviceList
      BY <2>4 DEF Upcoming, Assigning
    <3> QED
      BY <2>1, <2>4, <3>1 DEF IInv, Tracked
  <2>8. \A i \in 1..Len(wire') : wire'[i].kind # "DeviceList" =>
           \E d \in Connections : wire'[i].devices = {d}
    BY <2>4 DEF IInv, Handling
  <2> QED
    BY <2>2, <2>3, <2>4, <2>5, <2>6, <2>7, <2>8, AttachNext
<1>3. CASE EndList
  <2>1. /\ handlerPc = "list" /\ todo = {} /\ inList' = FALSE /\ handlerPc' = "idle"
        /\ UNCHANGED <<numbered, plugged, wire, requests, requested, deviceList, allocated,
                       update, todo, subject, mainQueue, clientVars, ghostVars, aborted>>
    BY <1>3 DEF EndList, muxVars, clientVars
  <2>2. Alive' = Alive /\ Upcoming' = Upcoming
    BY <2>1 DEF Alive, Ends, Upcoming, Assigning
  <2>3. TypeOK'
    <3>1. MuxTypes' /\ HandlerTypes' /\ ClientTypes'
      BY <1>0, <2>1 DEF MuxTypes, HandlerTypes, ClientTypes, Notices, Devices, Packets,
         clientVars, ghostVars
    <3> QED
      BY <3>1, TypePartsNext
  <2>4. Handling'
    BY <2>1 DEF IInv, Handling, Attaching, Detaching
  <2>5. Reported' /\ Tracked' /\ Updating'
    BY <2>1, <2>2 DEF IInv, Reported, Ends, Tracked, Updating, Attaching, Detaching
  <2>6. Watched' /\ Told' /\ FinishedIsVisible'
    BY <2>1, <2>2 DEF IInv, Watched, Told, FinishedIsVisible, clientVars, ghostVars
  <2> QED
    BY <2>3, <2>4, <2>5, <2>6 DEF IInv
<1> QED
  BY <1>1, <1>2, <1>3

\* The new list is assigned, and its callback ends.
LEMMA FinishNext ==
    ASSUME IInv, AssignDeviceList \/ PostFinished
    PROVE  IInv'
<1>0. /\ TypeOK /\ MuxTypes /\ HandlerTypes /\ ClientTypes /\ numbered \in Nat
  BY TypeParts, NumbersTypes DEF IInv
<1>1. UNCHANGED <<plugged, numbered, wire, requests, requested, allocated, inList, todo>>
  BY DEF AssignDeviceList, PostFinished, muxVars, clientVars
<1>2. MuxTypes' /\ Alive' = Alive /\ Devices' = Devices /\ Notices' = Notices
  BY <1>0, <1>1 DEF MuxTypes, Packets, Alive, Ends, Devices, Notices
<1>3. Reported'
  BY <1>1, <1>2 DEF IInv, Reported, Ends
<1>4. plugged \subseteq Alive
  BY <1>0 DEF MuxTypes, Alive
<1>5. CASE AssignDeviceList
  <2>1. /\ handlerPc \in {"assign attached", "assign detached"} /\ deviceList' = update
        /\ handlerPc' = IF handlerPc = "assign attached"
                        THEN "finish attached" ELSE "finish detached"
        /\ listed' = listed \union Ids(update)
        /\ throughout' = [t \in Clients |-> throughout[t] /\ target[t] \in Ids(update)]
        /\ once' = [t \in Clients |-> once[t] \/ target[t] \in Ids(update)]
        /\ update' = <<>>
        /\ UNCHANGED <<subject, mainQueue, pc, target, index, answer, aborted>>
    BY <1>5 DEF AssignDeviceList, clientVars
  <2>2. Upcoming = update /\ Upcoming' = update
    BY <2>1 DEF Upcoming, Assigning
  <2>3. Ids(update) \subseteq 1..numbered
    <3>1. \A d \in Devices : d.id \in 1..numbered
      BY DEF Devices
    <3>2. update \in Seq(Devices)
      BY <1>0 DEF HandlerTypes
    <3> QED
      BY <3>1, <3>2, ElementOfSeq DEF Ids
  <2>4. TypeOK'
    <3>1. <<>> \in Seq(Devices) /\ deviceList' \in Seq(Devices)
      BY <1>0, <2>1, EmptySeq DEF HandlerTypes
    <3>2. HandlerTypes'
      BY <1>0, <1>1, <1>2, <2>1, <3>1 DEF HandlerTypes
    <3>3. ClientTypes'
      BY <1>0, <1>1, <2>1, <2>3 DEF ClientTypes
    <3> QED
      BY <1>2, <3>2, <3>3, TypePartsNext
  <2>5. Handling'
    BY <1>1, <2>1 DEF IInv, Handling, Attaching, Detaching
  <2>6. Tracked'
    BY <1>1, <1>2, <2>2 DEF IInv, Tracked
  <2>7. Updating'
    BY <1>1, <1>2, <2>1, <2>2 DEF IInv, Updating, Attaching, Detaching
  <2>8. Told'
    BY <1>2, <2>1 DEF IInv, Told
  <2>9. FinishedIsVisible'
    <3> SUFFICES ASSUME NEW i \in 1..Len(mainQueue)
                 PROVE  /\ mainQueue[i].name = "AttachedFinished"
                              /\ mainQueue[i].id \in UsbIds(plugged)
                           => mainQueue[i].id \in Ids(update)
                        /\ mainQueue[i].name = "DetachedFinished"
                           => mainQueue[i].id \notin Ids(update)
      BY <1>1, <2>1 DEF FinishedIsVisible
    <3>1. ASSUME mainQueue[i].name = "AttachedFinished", mainQueue[i].id \in UsbIds(plugged)
          PROVE  mainQueue[i].id \in Ids(update)
      <4>1. mainQueue[i].id \in Ids(deviceList)
        BY <3>1 DEF IInv, FinishedIsVisible
      <4>2. CASE handlerPc = "assign attached"
        BY <4>1, <4>2 DEF IInv, Updating
      <4>3. CASE handlerPc = "assign detached"
        <5>1. PICK c \in plugged : c.id = mainQueue[i].id
          BY <3>1 DEF UsbIds
        <5>2. c.id # subject.id
          BY <1>4, <4>3 DEF IInv, Updating, Detaching
        <5> QED
          BY <4>1, <4>3, <5>1, <5>2 DEF IInv, Updating
      <4> QED
        BY <2>1, <4>2, <4>3
    <3>2. ASSUME mainQueue[i].name = "DetachedFinished", mainQueue[i].id \in Ids(update)
          PROVE  FALSE
      <4>1. mainQueue[i].id \in UsbIds(Alive)
        BY <2>2, <3>2 DEF IInv, Tracked
      <4> QED
        BY <3>2, <4>1 DEF IInv, Told, UsbIds
    <3> QED
      BY <3>1, <3>2
  <2>10. Watched'
    BY <2>1 DEF IInv, Watched
  <2> QED
    BY <1>3, <2>4, <2>5, <2>6, <2>7, <2>8, <2>9, <2>10 DEF IInv
<1>6. CASE PostFinished
  <2>a. PICK notice : notice = Notice(IF handlerPc = "finish attached"
                                      THEN "AttachedFinished" ELSE "DetachedFinished",
                                      subject.id)
    OBVIOUS
  <2>1. /\ handlerPc \in {"finish attached", "finish detached"}
        /\ mainQueue' = Append(mainQueue, notice)
        /\ subject' = NoConnection
        /\ handlerPc' = IF inList THEN "list" ELSE "idle"
        /\ UNCHANGED <<deviceList, update, clientVars, ghostVars, aborted>>
    BY <1>6, <2>a DEF PostFinished
  <2>2. Upcoming = deviceList /\ Upcoming' = deviceList
    BY <2>1 DEF Upcoming, Assigning
  <2>3. notice \in Notices /\ notice.id = subject.id
        /\ notice.name = IF handlerPc = "finish attached"
                         THEN "AttachedFinished" ELSE "DetachedFinished"
    BY <2>a, <2>1 DEF Notice, Notices, IInv, Handling, Attaching, Detaching
  <2>4. /\ mainQueue' \in Seq(Notices)
        /\ \A i \in 1..Len(mainQueue') :
              (i \in 1..Len(mainQueue) /\ mainQueue'[i] = mainQueue[i])
              \/ mainQueue'[i] = notice
    <3>1. mainQueue \in Seq(Notices)
      BY <1>0 DEF HandlerTypes
    <3>2. notice \in Notices
      BY <2>3
    <3>3. /\ Append(mainQueue, notice) \in Seq(Notices)
          /\ 1..Len(Append(mainQueue, notice)) = 1..Len(mainQueue) \union {Len(mainQueue) + 1}
          /\ Append(mainQueue, notice)[Len(mainQueue) + 1] = notice
          /\ \A i \in 1..Len(mainQueue) : Append(mainQueue, notice)[i] = mainQueue[i]
      BY <3>1, <3>2, Appended
    <3> QED
      BY <2>1, <3>3
  <2>5. TypeOK'
    <3>1. HandlerTypes'
      BY <1>0, <1>1, <1>2, <2>1, <2>4 DEF HandlerTypes
    <3>2. ClientTypes'
      BY <1>0, <1>1, <2>1 DEF ClientTypes, clientVars, ghostVars
    <3> QED
      BY <1>2, <3>1, <3>2, TypePartsNext
  <2>6. Handling'
    BY <1>1, <2>1 DEF IInv, Handling, Attaching, Detaching
  <2>7. Tracked'
    BY <1>1, <1>2, <2>2 DEF IInv, Tracked
  <2>8. Updating'
    BY <2>1 DEF Updating, Attaching, Detaching
  <2>9. Told'
    BY <1>2, <2>1, <2>3, <2>4 DEF IInv, Told, Updating, Detaching
  <2>10. FinishedIsVisible'
    <3>1. ASSUME handlerPc = "finish detached" PROVE subject.id \notin Ids(deviceList)
      <4>1. subject.id \notin UsbIds(Alive)
        BY <3>1 DEF IInv, Updating, Detaching, UsbIds
      <4> QED
        BY <2>2, <4>1 DEF IInv, Tracked
    <3>2. ASSUME handlerPc = "finish attached", subject.id \in UsbIds(plugged)
          PROVE  subject.id \in Ids(deviceList)
      BY <2>2, <3>2 DEF IInv, Updating, Attaching
    <3> QED
      BY <1>1, <2>1, <2>3, <2>4, <3>1, <3>2 DEF IInv, FinishedIsVisible
  <2>11. Watched'
    BY <2>1 DEF IInv, Watched, clientVars, ghostVars
  <2> QED
    BY <1>3, <2>5, <2>6, <2>7, <2>8, <2>9, <2>10, <2>11 DEF IInv
<1> QED
  BY <1>5, <1>6

-----------------------------------------------------------------------------
(* The other steps.                                                        *)

\* usbmuxd says that one of its connections has ended, or what it has.
LEMMA SendReported ==
    ASSUME TypeOK, Reported, NEW p \in Packets, wire' = Append(wire, p),
           \A d \in plugged : d \in plugged' \/ (p.kind = "Detached" /\ d \in p.devices),
           \A d \in Alive : d \in plugged \/ (d \notin p.devices /\ d \notin plugged'),
           IF p.kind = "Detached" THEN p.devices \intersect plugged' = {}
                                  ELSE p.devices \subseteq plugged'
    PROVE  /\ \A i \in 1..Len(wire') : \A d \in wire'[i].devices :
                 IF wire'[i].kind = "Detached"
                 THEN d \notin plugged' /\ \A j \in (i + 1)..Len(wire') : d \notin wire'[j].devices
                 ELSE d \in plugged' \/ \E j \in (i + 1)..Len(wire') : Ends(j, d)'
           /\ \A d : (\E i \in 1..Len(wire') : Ends(i, d)')
                      <=> \/ \E i \in 1..Len(wire) : Ends(i, d)
                          \/ p.kind = "Detached" /\ d \in p.devices
           /\ \A i \in 1..Len(wire) : i \in 1..Len(wire') /\ wire'[i] = wire[i]
           /\ \A i \in 1..Len(wire') : i \in 1..Len(wire) \/ wire'[i] = p
           /\ Len(wire') \in 1..Len(wire') /\ wire'[Len(wire')] = p
<1>0. /\ Len(wire) \in Nat /\ Len(wire') = Len(wire) + 1 /\ wire'[Len(wire) + 1] = p
      /\ \A i \in 1..Len(wire) : wire'[i] = wire[i]
  BY TypeParts, WireAppend
<1>1. /\ \A i \in 1..Len(wire) : i \in 1..Len(wire') /\ wire'[i] = wire[i]
      /\ \A i \in 1..Len(wire') : i \in 1..Len(wire) \/ (i = Len(wire') /\ wire'[i] = p)
      /\ Len(wire') \in 1..Len(wire') /\ wire'[Len(wire')] = p
  <2>1. /\ \A i \in 1..Len(wire') : i \in 1..Len(wire) \/ i = Len(wire')
        /\ \A i \in 1..Len(wire) : i \in 1..Len(wire')
        /\ Len(wire') \in 1..Len(wire')
    BY <1>0
  <2>2. wire'[Len(wire')] = p /\ Len(wire) + 1 = Len(wire')
    BY <1>0
  <2>3. \A i \in 1..Len(wire') : i \in 1..Len(wire) \/ (i = Len(wire') /\ wire'[i] = p)
    BY <2>1, <2>2, Zenon
  <2> QED
    BY <1>0, <2>1, <2>2, <2>3
<1>2. ASSUME NEW d
      PROVE  (\E i \in 1..Len(wire') : Ends(i, d)')
                <=> \/ \E i \in 1..Len(wire) : Ends(i, d)
                    \/ p.kind = "Detached" /\ d \in p.devices
  BY <1>1 DEF Ends
<1>3. ASSUME NEW i \in 1..Len(wire'), NEW d \in wire'[i].devices
      PROVE  IF wire'[i].kind = "Detached"
             THEN d \notin plugged' /\ \A j \in (i + 1)..Len(wire') : d \notin wire'[j].devices
             ELSE d \in plugged' \/ \E j \in (i + 1)..Len(wire') : Ends(j, d)'
  <2>1. CASE i = Len(wire')
    <3>1. (i + 1)..Len(wire') = {}
      BY <1>0, <2>1
    <3> QED
      BY <1>1, <1>3, <2>1, <3>1
  <2>2. CASE i # Len(wire')
    <3>1. /\ i \in 1..Len(wire) /\ wire'[i] = wire[i] /\ d \in wire[i].devices
          /\ \A j \in (i + 1)..Len(wire) : j \in 1..Len(wire) /\ j \in (i + 1)..Len(wire')
          /\ \A j \in (i + 1)..Len(wire') : j \in (i + 1)..Len(wire) \/ wire'[j] = p
          /\ \A j \in (i + 1)..Len(wire) : wire'[j] = wire[j]
          /\ Len(wire') \in (i + 1)..Len(wire')
      BY <1>0, <1>1, <1>3, <2>2
    <3>2. d \in Alive
      BY <3>1, NamedAlive
    <3>3. IF wire[i].kind = "Detached"
          THEN d \notin plugged /\ \A j \in (i + 1)..Len(wire) : d \notin wire[j].devices
          ELSE d \in plugged \/ \E j \in (i + 1)..Len(wire) : Ends(j, d)
      BY <3>1 DEF Reported
    <3>4. CASE wire[i].kind = "Detached"
      BY <3>1, <3>2, <3>3, <3>4
    <3>5. CASE wire[i].kind # "Detached" /\ d \in plugged
      <4>1. PICK n \in (i + 1)..Len(wire') : n = Len(wire')
        BY <3>1
      <4>2. d \in plugged' \/ Ends(n, d)'
        BY <1>1, <3>5, <4>1 DEF Ends
      <4> QED
        BY <3>1, <3>5, <4>1, <4>2
    <3>6. CASE wire[i].kind # "Detached" /\ \E j \in (i + 1)..Len(wire) : Ends(j, d)
      BY <3>1, <3>6 DEF Ends
    <3> QED
      BY <3>3, <3>4, <3>5, <3>6
  <2> QED
    BY <2>1, <2>2
<1> QED
  BY <1>1, <1>2, <1>3

LEMMA MuxNext ==
    ASSUME IInv, MuxStep
    PROVE  IInv'
<1>0. /\ TypeOK /\ MuxTypes /\ HandlerTypes /\ numbered \in Nat /\ TypeOK'
      /\ plugged \subseteq Alive
  BY TypeParts, NumbersTypes, MuxStepTypes DEF IInv, MuxTypes, Alive
<1>1. UNCHANGED <<handlerVars, mainQueue, clientVars, ghostVars>>
  BY DEF MuxStep, Plug, Unplug, AnswerListDevices, clientVars
<1>2. Upcoming' = Upcoming
  BY <1>1 DEF Upcoming, Assigning, handlerVars
<1>3. Watched'
  BY <1>1 DEF IInv, Watched, clientVars, ghostVars, handlerVars
<1>4. \A i \in 1..Len(mainQueue) : mainQueue[i].id \in 1..numbered
  <2>1. mainQueue \in Seq(Notices) /\ \A q \in Notices : q.id \in 1..numbered
    BY <1>0 DEF HandlerTypes, Notices
  <2> QED
    BY <2>1, ElementOfSeq
<1>5. ASSUME NEW type \in {"USB", "WiFi"}, Plug(type) PROVE IInv'
  <2>a. PICK c : c = Connection(numbered + 1, type)
    OBVIOUS
  <2>1. /\ numbered' = numbered + 1 /\ plugged' = plugged \union {c}
        /\ wire' = Append(wire, Packet("Attached", {c}))
    BY <1>5, <2>a DEF Plug
  <2>2. /\ c \in Connections /\ c.id = numbered + 1 /\ c.type = type
    BY <1>0, <1>5, <2>a, ConnectionTypes, BoundsAssumption DEF Plug
  <2>3. PICK p \in Packets : /\ p = Packet("Attached", {c})
                             /\ p.kind = "Attached" /\ p.devices = {c}
    BY <2>2, PacketTypes
  <2>4. \A d \in Alive : d # c /\ d.id # c.id /\ d.id <= numbered
    <3>1. \A d \in Alive : d.id <= numbered /\ d.id \in Nat
      BY ConnectionTypes, BoundsAssumption DEF IInv, Reported, Alive
    <3> QED
      BY <1>0, <2>2, <3>1
  <2>5. /\ \A d \in plugged : d \in plugged' \/ (p.kind = "Detached" /\ d \in p.devices)
        /\ \A d \in Alive : d \in plugged \/ (d \notin p.devices /\ d \notin plugged')
        /\ IF p.kind = "Detached" THEN p.devices \intersect plugged' = {}
                                  ELSE p.devices \subseteq plugged'
    BY <2>1, <2>3, <2>4
  <2>6. /\ \A i \in 1..Len(wire') : \A d \in wire'[i].devices :
              IF wire'[i].kind = "Detached"
              THEN d \notin plugged' /\ \A j \in (i + 1)..Len(wire') : d \notin wire'[j].devices
              ELSE d \in plugged' \/ \E j \in (i + 1)..Len(wire') : Ends(j, d)'
        /\ \A d : (\E i \in 1..Len(wire') : Ends(i, d)')
                   <=> \/ \E i \in 1..Len(wire) : Ends(i, d)
                       \/ p.kind = "Detached" /\ d \in p.devices
        /\ \A i \in 1..Len(wire) : i \in 1..Len(wire') /\ wire'[i] = wire[i]
        /\ \A i \in 1..Len(wire') : i \in 1..Len(wire) \/ wire'[i] = p
        /\ Len(wire') \in 1..Len(wire') /\ wire'[Len(wire')] = p
    BY <1>0, <2>1, <2>3, <2>5, SendReported DEF IInv
  <2>7. Alive' = Alive \union {c}
    <3>1. ASSUME NEW d \in Connections PROVE d \in Alive' <=> d \in Alive \/ d = c
      BY <2>1, <2>3, <2>6 DEF Alive
    <3> QED
      BY <2>2, <3>1 DEF Alive
  <2>8. Reported'
    <3>1. todo' \subseteq Alive'
      BY <1>1, <2>7 DEF handlerVars, IInv, Reported
    <3>2. \A d \in Alive' : d.id <= numbered'
      BY <1>0, <2>1, <2>2, <2>4, <2>7, ConnectionTypes DEF Alive
    <3>3. \A d, e \in Alive' : d.id = e.id => d = e
      BY <2>4, <2>7 DEF IInv, Reported
    <3> QED
      BY <2>6, <3>1, <3>2, <3>3 DEF Reported
  <2>9. Handling'
    <3>1. \A i \in 1..Len(wire') : wire'[i].kind # "DeviceList" =>
             \E d \in Connections : wire'[i].devices = {d}
      BY <2>2, <2>3, <2>6 DEF IInv, Handling
    <3>2. 1..numbered \subseteq 1..numbered'
      BY <1>0, <2>1
    <3> QED
      BY <1>1, <3>1, <3>2 DEF IInv, Handling, Attaching, Detaching, handlerVars
  <2>10. Tracked'
    <3>1. \A id \in Ids(Upcoming) : id \in UsbIds(Alive')
      BY <2>7 DEF IInv, Tracked, UsbIds
    <3>2. ASSUME NEW d \in plugged'
          PROVE  \/ d.type # "USB" \/ d.id \in Ids(Upcoming) \/ d \in todo
                 \/ \E i \in 1..Len(wire') : wire'[i].kind = "Attached" /\ d \in wire'[i].devices
      <4>1. CASE d = c
        BY <2>3, <2>6, <4>1
      <4>2. CASE d \in plugged
        BY <2>6, <4>2 DEF IInv, Tracked
      <4> QED
        BY <2>1, <4>1, <4>2
    <3> QED
      BY <1>1, <1>2, <3>1, <3>2 DEF Tracked, handlerVars
  <2>11. ASSUME NEW id \in 1..numbered
         PROVE  id # c.id /\ (id \in UsbIds(plugged') <=> id \in UsbIds(plugged))
    <3>1. id # c.id
      BY <1>0, <2>2
    <3> QED
      BY <2>1, <3>1 DEF UsbIds
  <2>12. Updating'
    <3>1. Attaching \/ Detaching => subject.id \in 1..numbered
      BY DEF IInv, Handling
    <3> QED
      BY <1>1, <1>2, <2>7, <2>11, <3>1 DEF IInv, Updating, Attaching, Detaching, handlerVars
  <2>13. Told'
    BY <1>1, <1>4, <2>7, <2>11 DEF IInv, Told
  <2>14. FinishedIsVisible'
    BY <1>1, <1>4, <2>11 DEF IInv, FinishedIsVisible, handlerVars
  <2> QED
    BY <1>0, <1>3, <2>8, <2>9, <2>10, <2>12, <2>13, <2>14 DEF IInv
<1>6. ASSUME NEW p \in Packets, wire' = Append(wire, p), UNCHANGED numbered,
             plugged' \subseteq plugged,
             \/ p.kind = "DeviceList" /\ p.devices = plugged /\ plugged' = plugged
             \/ /\ p.kind = "Detached"
                /\ \E c \in plugged : p.devices = {c} /\ plugged' = plugged \ {c}
      PROVE  IInv'
  <2>1. /\ \A d \in plugged : d \in plugged' \/ (p.kind = "Detached" /\ d \in p.devices)
        /\ \A d \in Alive : d \in plugged \/ (d \notin p.devices /\ d \notin plugged')
        /\ IF p.kind = "Detached" THEN p.devices \intersect plugged' = {}
                                  ELSE p.devices \subseteq plugged'
    BY <1>6
  <2>2. /\ \A i \in 1..Len(wire') : \A d \in wire'[i].devices :
              IF wire'[i].kind = "Detached"
              THEN d \notin plugged' /\ \A j \in (i + 1)..Len(wire') : d \notin wire'[j].devices
              ELSE d \in plugged' \/ \E j \in (i + 1)..Len(wire') : Ends(j, d)'
        /\ \A d : (\E i \in 1..Len(wire') : Ends(i, d)')
                   <=> \/ \E i \in 1..Len(wire) : Ends(i, d)
                       \/ p.kind = "Detached" /\ d \in p.devices
        /\ \A i \in 1..Len(wire) : i \in 1..Len(wire') /\ wire'[i] = wire[i]
        /\ \A i \in 1..Len(wire') : i \in 1..Len(wire) \/ wire'[i] = p
    BY <1>0, <1>6, <2>1, SendReported DEF IInv
  <2>3. Alive' = Alive
    <3>1. ASSUME NEW d \in Connections PROVE d \in Alive' <=> d \in Alive
      BY <1>6, <2>2 DEF Alive
    <3> QED
      BY <3>1 DEF Alive
  <2>4. Reported'
    <3>1. todo' \subseteq Alive'
      BY <1>1, <2>3 DEF handlerVars, IInv, Reported
    <3> QED
      BY <1>6, <2>2, <2>3, <3>1 DEF IInv, Reported
  <2>5. Handling'
    <3>1. \A i \in 1..Len(wire') : wire'[i].kind # "DeviceList" =>
             \E d \in Connections : wire'[i].devices = {d}
      BY <1>0, <1>6, <2>2 DEF IInv, Handling, MuxTypes
    <3> QED
      BY <1>1, <1>6, <3>1 DEF IInv, Handling, Attaching, Detaching, handlerVars
  <2>6. Tracked'
    BY <1>1, <1>2, <1>6, <2>2, <2>3 DEF IInv, Tracked, handlerVars
  <2>7. \A id : id \in UsbIds(plugged') => id \in UsbIds(plugged)
    BY <1>6 DEF UsbIds
  <2>8. Updating' /\ Told' /\ FinishedIsVisible'
    BY <1>1, <1>2, <2>3, <2>7 DEF IInv, Updating, Attaching, Detaching, handlerVars, Told,
       FinishedIsVisible
  <2> QED
    BY <1>0, <1>3, <2>4, <2>5, <2>6, <2>8 DEF IInv
<1>7. ASSUME NEW c \in plugged, Unplug(c) PROVE IInv'
  <2>1. c \in Connections
    BY <1>0 DEF MuxTypes
  <2>2. /\ Packet("Detached", {c}) \in Packets
        /\ Packet("Detached", {c}).kind = "Detached" /\ Packet("Detached", {c}).devices = {c}
    BY <2>1, PacketTypes
  <2> QED
    BY <1>6, <1>7, <2>2 DEF Unplug
<1>8. CASE AnswerListDevices
  <2>1. /\ Packet("DeviceList", plugged) \in Packets
        /\ Packet("DeviceList", plugged).kind = "DeviceList"
        /\ Packet("DeviceList", plugged).devices = plugged
    BY <1>0, PacketTypes DEF MuxTypes
  <2> QED
    BY <1>6, <1>8, <2>1 DEF AnswerListDevices
<1> QED
  BY <1>5, <1>7, <1>8 DEF MuxStep

LEMMA ReadersNext ==
    ASSUME IInv, \/ Deliver \/ UpdateDeviceList \/ \E t \in Clients : ClientStep(t)
    PROVE  IInv'
<1>0. TypeOK' /\ ClientTypes /\ HandlerTypes
  BY TypeParts, ReaderTypes DEF IInv
<1>1. UNCHANGED <<plugged, numbered, wire, handlerVars>>
  BY DEF Deliver, UpdateDeviceList, ClientStep, CallIsAttached, CheckCount, Fetch, FetchRaises,
     Leave, muxVars
<1>2. Alive' = Alive /\ Upcoming' = Upcoming
  BY <1>1 DEF Alive, Ends, Upcoming, Assigning, handlerVars
<1>3. Handling' /\ Reported' /\ Tracked' /\ Updating'
  <2>1. Handling' /\ Reported'
    BY <1>1, <1>2 DEF IInv, Handling, Reported, Ends, Attaching, Detaching, handlerVars
  <2>2. Tracked' /\ Updating'
    BY <1>1, <1>2 DEF IInv, Tracked, Updating, Attaching, Detaching, handlerVars
  <2> QED
    BY <2>1, <2>2
<1>4. Told' /\ FinishedIsVisible'
  <2>1. CASE Deliver
    <3>1. \A i \in 1..Len(mainQueue') :
             i + 1 \in 1..Len(mainQueue) /\ mainQueue'[i] = mainQueue[i + 1]
      <4>1. mainQueue \in Seq(Notices) /\ mainQueue # <<>> /\ mainQueue' = Tail(mainQueue)
        BY <1>0, <2>1 DEF HandlerTypes, Deliver
      <4>2. /\ Len(mainQueue) \in Nat /\ Len(mainQueue) >= 1
            /\ Len(mainQueue') = Len(mainQueue) - 1
            /\ \A i \in 1..Len(mainQueue') : mainQueue'[i] = mainQueue[i + 1]
        BY <4>1, EmptySeq, HeadTailProperties
      <4> QED
        BY <4>2
    <3> QED
      BY <1>1, <1>2, <3>1 DEF IInv, Told, FinishedIsVisible, handlerVars
  <2>2. CASE UNCHANGED mainQueue
    BY <1>1, <1>2, <2>2 DEF IInv, Told, FinishedIsVisible, handlerVars
  <2> QED
    BY <2>1, <2>2 DEF UpdateDeviceList, ClientStep, CallIsAttached, CheckCount, Fetch,
       FetchRaises, Leave
<1>5. Watched'
  <2>1. CASE Deliver \/ UpdateDeviceList
    BY <1>1, <2>1 DEF IInv, Watched, Deliver, UpdateDeviceList, clientVars, ghostVars, handlerVars
  <2>2. ASSUME NEW t \in Clients, ClientStep(t)
        PROVE  Watched'
    <3> SUFFICES ASSUME NEW u \in Clients
                 PROVE  /\ pc'[u] # "idle" /\ target'[u] \in Ids(deviceList) => once'[u]
                        /\ pc'[u] = "answered" /\ answer'[u] => once'[u]
      BY <1>1 DEF Watched, handlerVars
    <3>0. /\ pc[u] # "idle" /\ target[u] \in Ids(deviceList) => once[u]
          /\ pc[u] = "answered" /\ answer[u] => once[u]
      BY DEF IInv, Watched
    <3>1. CASE CallIsAttached(t)
      <4>1. PICK id \in listed :
              /\ target' = [target EXCEPT ![t] = id]
              /\ once' = [once EXCEPT ![t] = id \in Ids(deviceList)]
        BY <3>1 DEF CallIsAttached
      <4>2. answer' = answer /\ pc' = [pc EXCEPT ![t] = "counting"]
        BY <3>1 DEF CallIsAttached
      <4>3. CASE u = t
        <5>1. pc'[u] = "counting" /\ target'[u] = id /\ once'[u] = (id \in Ids(deviceList))
          BY <1>0, <4>1, <4>2, <4>3 DEF ClientTypes
        <5> QED
          BY <5>1
      <4>4. CASE u # t
        <5>1. /\ pc'[u] = pc[u] /\ target'[u] = target[u] /\ once'[u] = once[u]
              /\ answer'[u] = answer[u]
          BY <1>0, <4>1, <4>2, <4>4 DEF ClientTypes
        <5> QED
          BY <3>0, <5>1
      <4> QED
        BY <4>3, <4>4
    <3>2. CASE CheckCount(t)
      <4>1. /\ target' = target /\ once' = once /\ pc[t] = "counting"
            /\ \/ pc' = [pc EXCEPT ![t] = "fetching"] /\ answer' = answer
               \/ /\ pc' = [pc EXCEPT ![t] = "answered"]
                  /\ answer' = [answer EXCEPT ![t] = FALSE]
        BY <3>2 DEF CheckCount, Return, ghostVars
      <4> QED
        BY <1>0, <3>0, <4>1 DEF ClientTypes
    <3>3. CASE Fetch(t)
      <4>1. /\ target' = target /\ once' = once /\ pc[t] = "fetching"
            /\ \/ /\ deviceList[index[t] + 1].id = target[t] /\ index[t] < Len(deviceList)
                  /\ pc' = [pc EXCEPT ![t] = "answered"]
                  /\ answer' = [answer EXCEPT ![t] = TRUE]
               \/ pc' = [pc EXCEPT ![t] = "counting"] /\ answer' = answer
        BY <3>3 DEF Fetch, Return, ghostVars
      <4>2. ASSUME index[t] < Len(deviceList)
            PROVE  deviceList[index[t] + 1].id \in Ids(deviceList)
        <5>1. index[t] \in Nat /\ Len(deviceList) \in Nat
          BY <1>0, LenProperties DEF ClientTypes, HandlerTypes
        <5>2. index[t] + 1 \in 1..Len(deviceList)
          BY <4>2, <5>1
        <5> QED
          BY <5>2 DEF Ids
      <4>3. CASE u = t
        BY <1>0, <3>0, <4>1, <4>2, <4>3 DEF ClientTypes
      <4>4. CASE u # t
        BY <1>0, <3>0, <4>1, <4>4 DEF ClientTypes
      <4> QED
        BY <4>3, <4>4
    <3>4. CASE FetchRaises(t)
      BY <3>0, <3>4 DEF FetchRaises, clientVars, ghostVars
    <3>5. CASE Leave(t)
      <4>1. /\ pc' = [pc EXCEPT ![t] = "idle"] /\ target' = [target EXCEPT ![t] = 0]
            /\ answer' = [answer EXCEPT ![t] = FALSE] /\ once' = [once EXCEPT ![t] = FALSE]
        BY <3>5 DEF Leave
      <4>2. CASE u = t
        <5>1. pc'[u] = "idle"
          BY <1>0, <4>1, <4>2 DEF ClientTypes
        <5> QED
          BY <5>1
      <4>3. CASE u # t
        BY <1>0, <3>0, <4>1, <4>3 DEF ClientTypes
      <4> QED
        BY <4>2, <4>3
    <3> QED
      BY <2>2, <3>1, <3>2, <3>3, <3>4, <3>5 DEF ClientStep
  <2> QED
    BY <2>1, <2>2
<1> QED
  BY <1>0, <1>3, <1>4, <1>5 DEF IInv

LEMMA InitIInv == Init => IInv
<1> SUFFICES ASSUME Init PROVE IInv
  OBVIOUS
<1>1. PICK transport \in [1..numbered -> {"USB", "WiFi"}] :
        LET first == [i \in 1..numbered |-> Connection(i, transport[i])] IN
        /\ plugged = {first[i] : i \in 1..numbered}
        /\ wire = [i \in 1..numbered |-> Packet("Attached", {first[i]})]
  BY DEF Init
<1> DEFINE first == [i \in 1..numbered |-> Connection(i, transport[i])]
<1>2. numbered \in Nat /\ numbered <= MaxConnections /\ numbered \in 0..MaxConnections
  BY BoundsAssumption DEF Init
<1>3. \A i \in 1..numbered : first[i] \in Connections /\ first[i].id = i
  <2> SUFFICES ASSUME NEW i \in 1..numbered
               PROVE  first[i] \in Connections /\ first[i].id = i
    OBVIOUS
  <2>1. i \in 1..MaxConnections /\ transport[i] \in {"USB", "WiFi"}
    BY <1>1, <1>2, BoundsAssumption
  <2> QED
    BY <2>1, ConnectionTypes
<1>4. /\ plugged = {first[i] : i \in 1..numbered}
      /\ wire = [i \in 1..numbered |-> Packet("Attached", {first[i]})]
  BY <1>1
<1> HIDE DEF first
<1>5. \A i \in 1..numbered : /\ Packet("Attached", {first[i]}) \in Packets
                             /\ wire[i] = Packet("Attached", {first[i]})
                             /\ wire[i].kind = "Attached" /\ wire[i].devices = {first[i]}
  BY <1>3, <1>4, PacketTypes
<1>6. wire \in Seq(Packets) /\ Len(wire) = numbered
  BY <1>2, <1>4, <1>5
<1>7. TypeOK
  <2>1. MuxTypes
    <3>1. requests \in 0..requested /\ requested \in 0..MaxRequests
      BY BoundsAssumption DEF Init
    <3> QED
      BY <1>2, <1>3, <1>4, <1>6, <3>1 DEF MuxTypes
  <2>2. HandlerTypes
    <3>1. <<>> \in Seq(Devices) /\ <<>> \in Seq(Notices)
      BY EmptySeq
    <3> QED
      BY <3>1 DEF Init, HandlerTypes
  <2>3. ClientTypes
    <3>1. 0 \in 0..numbered /\ {} \subseteq 1..numbered
      BY <1>2
    <3>2. /\ pc \in [Clients -> {"idle", "counting", "fetching", "answered"}]
          /\ index \in [Clients -> Nat] /\ target \in [Clients -> 0..numbered]
      BY <3>1 DEF Init
    <3>3. /\ answer \in [Clients -> BOOLEAN] /\ throughout \in [Clients -> BOOLEAN]
          /\ once \in [Clients -> BOOLEAN]
      BY DEF Init
    <3> QED
      BY <3>1, <3>2, <3>3 DEF Init, ClientTypes
  <2> QED
    BY <2>1, <2>2, <2>3, TypeParts
<1>8. /\ handlerPc = "idle" /\ ~inList /\ todo = {} /\ deviceList = <<>> /\ mainQueue = <<>>
      /\ Upcoming = <<>> /\ Ids(<<>>) = {}
  <2>1. 1..Len(<<>>) = {}
    OBVIOUS
  <2> QED
    BY <2>1 DEF Init, Upcoming, Assigning, Ids
<1>9. Alive = plugged
  <2>1. \A i \in 1..Len(wire) : wire[i].kind # "Detached"
    BY <1>5, <1>6
  <2>2. plugged \subseteq Connections
    BY <1>3, <1>4
  <2> QED
    BY <2>1, <2>2 DEF Alive, Ends
<1>10. Handling
  BY <1>3, <1>5, <1>6, <1>8 DEF Handling, Attaching, Detaching
<1>11. Reported
  <2>1. \A c \in Alive : c.id <= numbered
    BY <1>2, <1>3, <1>4, <1>9
  <2>2. ASSUME NEW c \in Alive, NEW d \in Alive, c.id = d.id
        PROVE  c = d
    <3>1. PICK i \in 1..numbered : c = first[i]
      BY <1>4, <1>9
    <3>2. PICK j \in 1..numbered : d = first[j]
      BY <1>4, <1>9
    <3> QED
      BY <1>3, <2>2, <3>1, <3>2
  <2>3. ASSUME NEW i \in 1..Len(wire)
        PROVE  wire[i].kind # "Detached" /\ wire[i].devices \subseteq plugged
    <3>1. wire[i].kind = "Attached" /\ wire[i].devices = {first[i]} /\ first[i] \in plugged
      BY <1>4, <1>5, <1>6
    <3> QED
      BY <3>1
  <2> QED
    BY <1>8, <2>1, <2>2, <2>3 DEF Reported
<1>12. Tracked
  <2>1. \A c \in plugged : \E i \in 1..Len(wire) :
           wire[i].kind = "Attached" /\ c \in wire[i].devices
    BY <1>4, <1>5, <1>6
  <2> QED
    BY <1>8, <2>1 DEF Tracked
<1>13. Updating
  BY <1>8 DEF Updating, Attaching, Detaching
<1>14. Told /\ FinishedIsVisible
  <2>1. 1..Len(mainQueue) = {}
    BY <1>8
  <2> QED
    BY <2>1 DEF Told, FinishedIsVisible
<1>15. Watched
  BY DEF Init, Watched
<1> QED
  BY <1>7, <1>10, <1>11, <1>12, <1>13, <1>14, <1>15 DEF IInv

LEMMA NextIInv == IInv /\ [Next]_vars => IInv'
<1> SUFFICES ASSUME IInv, [Next]_vars PROVE IInv'
  OBVIOUS
<1>1. CASE HandlerStep
  BY <1>1, ReceiveAttachedNext, ReceiveDetachedNext, ListNext, FinishNext DEF HandlerStep
<1>2. CASE MuxStep
  BY <1>2, MuxNext
<1>3. CASE \/ Deliver \/ UpdateDeviceList \/ \E t \in Clients : ClientStep(t)
  BY <1>3, ReadersNext
<1>4. CASE UNCHANGED vars
  <2>1. UNCHANGED <<plugged, numbered, wire, requests, requested, deviceList, allocated,
                    handlerPc, update, inList, todo, subject, mainQueue>>
    BY <1>4 DEF vars, muxVars, handlerVars, clientVars
  <2>2. UNCHANGED <<pc, target, index, answer, listed, throughout, once, aborted>>
    BY <1>4 DEF vars, clientVars, ghostVars
  <2>3. TypeOK'
    BY <2>1, <2>2 DEF IInv, TypeOK, Devices
  <2>4. Alive' = Alive /\ Upcoming' = Upcoming
    BY <2>1 DEF Alive, Ends, Upcoming, Assigning
  <2>5. Handling' /\ Reported'
    BY <2>1, <2>4 DEF IInv, Handling, Reported, Ends, Attaching, Detaching
  <2>6. Tracked' /\ Updating'
    BY <2>1, <2>4 DEF IInv, Tracked, Updating, Attaching, Detaching
  <2>7. Told' /\ FinishedIsVisible' /\ Watched'
    BY <2>1, <2>2, <2>4 DEF IInv, Told, FinishedIsVisible, Watched
  <2> QED
    BY <2>3, <2>5, <2>6, <2>7 DEF IInv
<1> QED
  BY <1>1, <1>2, <1>3, <1>4 DEF Next, Rest

-----------------------------------------------------------------------------
(* The theorems.                                                           *)

\* All that the list, the packets on the way, the running callback and the
\* queued notifications keep between them.
THEOREM Invariance == Spec => []IInv
<1>1. Init => IInv
  BY InitIInv
<1>2. IInv /\ [Next]_vars => IInv'
  BY NextIInv
<1> QED
  BY <1>1, <1>2, PTL DEF Spec

\* Every variable of the listener, its handler and its readers keeps its type.
THEOREM TypeCorrect == Spec => []TypeOK
<1>1. IInv => TypeOK
  BY DEF IInv
<1> QED
  BY <1>1, Invariance, PTL

\* Once the socket queue has read what usbmuxd sent, deviceList names exactly
\* the devices on USB, in whatever order packets, lists and callbacks came.
THEOREM QuietListIsRight == Spec => []QuietListIsPlugged
<1>1. IInv => QuietListIsPlugged
  <2> SUFFICES ASSUME IInv, handlerPc = "idle", wire = <<>>
               PROVE  Ids(deviceList) = UsbIds(plugged)
    BY DEF QuietListIsPlugged
  <2>1. plugged \subseteq Connections
    BY DEF IInv, TypeOK
  <2>2. 1..Len(wire) = {} /\ todo = {} /\ Upcoming = deviceList
    BY DEF IInv, Handling, Upcoming, Assigning
  <2>3. Alive = plugged
    BY <2>1, <2>2 DEF Alive
  <2>4. \A id \in Ids(deviceList) : id \in UsbIds(plugged)
    BY <2>2, <2>3 DEF IInv, Tracked
  <2>5. \A c \in plugged : c.type # "USB" \/ c.id \in Ids(deviceList)
    BY <2>2 DEF IInv, Tracked
  <2> QED
    BY <2>4, <2>5 DEF UsbIds
<1> QED
  BY <1>1, Invariance, PTL

\* A Finished notification is never ahead of, or behind, the list its receiver
\* sees: the main thread may take it at any later time.
THEOREM FinishedIsSeen == Spec => []FinishedIsVisible
<1>1. IInv => FinishedIsVisible
  BY DEF IInv
<1> QED
  BY <1>1, Invariance, PTL

\* SDMMD_AMDeviceIsAttached finds only what was listed while it looked.
THEOREM AnswersWereListed == Spec => []AttachedWasListed
<1>1. IInv => AttachedWasListed
  BY DEF IInv, Watched, AttachedWasListed
<1> QED
  BY <1>1, Invariance, PTL
=============================================================================
