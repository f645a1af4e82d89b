--------------------------- MODULE DeviceRegistry ---------------------------
(***************************************************************************)
(* The list of devices SDMMD_USBMuxListener keeps: how the socket queue    *)
(* updates it from the Attached, Detached and DeviceList packets of        *)
(* usbmuxd, which notifications it queues for the main thread on the way,  *)
(* and how other threads read the list in SDMMD_AMDeviceIsAttached.        *)
(*                                                                         *)
(* Only the socket queue writes the list, but it does so in several steps, *)
(* between which the main thread and the readers run.  The connection      *)
(* listens from the start.  When send: returns is USBMuxChannel's subject: *)
(* here it may return at any time, before or after its answer.             *)
(***************************************************************************)
EXTENDS Integers, Sequences, SequencesExt, FiniteSets

CONSTANTS
    Clients,        \* threads that call SDMMD_AMDeviceIsAttached
    Initial,        \* how many devices may be plugged when the listener starts
    MaxConnections, \* bound: connections usbmuxd ever numbers
    MaxRequests     \* bound: ListDevices requests made

ASSUME BoundsAssumption ==
    /\ MaxConnections \in Nat /\ MaxRequests \in Nat
    /\ Initial \in 0..MaxConnections

VARIABLES
    plugged,        \* usbmuxd's connections, with the transport of each
    numbered,       \* DeviceIDs usbmuxd has given out: each is used once
    wire,           \* packets on the way to the socket queue
    requests,       \* ListDevices requests usbmuxd has not answered
    requested,      \* how many requests were made
    deviceList,     \* self.deviceList
    allocated,      \* SDMMD_AMDevice objects created so far
    handlerPc,      \* where the socket queue's handler stands
    update,         \* the copy of deviceList the callback works on
    inList,         \* deviceListCallback: is running
    todo,           \* devices of its packet still to be looked at
    subject,        \* the connection the running callback is about
    mainQueue,      \* notifications queued for the main thread
    pc,             \* pc[t]: where client t stands in IsAttached
    target,         \* target[t]: the DeviceID t asks for
    index,          \* index[t]: t's loop variable
    answer,         \* answer[t]: what IsAttached returns
    listed,         \* DeviceIDs of the devices that ever were in the list
    throughout,     \* throughout[t]: target[t] was listed since the call began
    once,           \* once[t]: target[t] was listed at some time of the call
    aborted         \* objectAtIndex: raised, nothing catches it

muxVars == <<plugged, numbered, wire, requests>>
handlerVars == <<deviceList, allocated, handlerPc, update, inList, todo, subject>>
clientVars == <<requested, pc, target, index, answer>>
ghostVars == <<listed, throughout, once>>
vars == <<muxVars, handlerVars, mainQueue, clientVars, ghostVars, aborted>>

Connection(id, type) == [id |-> id, type |-> type]
NoConnection == Connection(0, "None")

Connections == {Connection(id, type) :
                   id \in 1..MaxConnections, type \in {"USB", "WiFi"}}

Packet(kind, devices) == [kind |-> kind, devices |-> devices]
Notice(name, id) == [name |-> name, id |-> id]

\* The DeviceIDs in a list of devices, or in a set of connections by USB.
Ids(list) == {list[i].id : i \in 1..Len(list)}
UsbIds(set) == {c.id : c \in {d \in set : d.type = "USB"}}

\* usbmuxd reports the devices it knows to a connection that starts to listen.
Init ==
    /\ numbered \in 0..Initial
    /\ \E transport \in [1..numbered -> {"USB", "WiFi"}] :
          LET first == [i \in 1..numbered |-> Connection(i, transport[i])] IN
          /\ plugged = {first[i] : i \in 1..numbered}
          /\ wire = [i \in 1..numbered |-> Packet("Attached", {first[i]})]
    /\ requests = 0
    /\ requested = 0
    /\ deviceList = <<>>
    /\ allocated = 0
    /\ handlerPc = "idle"
    /\ update = <<>>
    /\ inList = FALSE
    /\ todo = {}
    /\ subject = NoConnection
    /\ mainQueue = <<>>
    /\ pc = [t \in Clients |-> "idle"]
    /\ target = [t \in Clients |-> 0]
    /\ index = [t \in Clients |-> 0]
    /\ answer = [t \in Clients |-> FALSE]
    /\ listed = {}
    /\ throughout = [t \in Clients |-> FALSE]
    /\ once = [t \in Clients |-> FALSE]
    /\ aborted = FALSE

-----------------------------------------------------------------------------
(* usbmuxd.                                                                *)

Plug(type) ==
    LET c == Connection(numbered + 1, type) IN
    /\ numbered < MaxConnections
    /\ numbered' = numbered + 1
    /\ plugged' = plugged \union {c}
    /\ wire' = Append(wire, Packet("Attached", {c}))
    /\ UNCHANGED <<requests, handlerVars, mainQueue, clientVars, ghostVars, aborted>>

Unplug(c) ==
    /\ plugged' = plugged \ {c}
    /\ wire' = Append(wire, Packet("Detached", {c}))
    /\ UNCHANGED <<numbered, requests, handlerVars, mainQueue, clientVars,
                   ghostVars, aborted>>

AnswerListDevices ==
    /\ requests > 0
    /\ requests' = requests - 1
    /\ wire' = Append(wire, Packet("DeviceList", plugged))
    /\ UNCHANGED <<plugged, numbered, handlerVars, mainQueue, clientVars,
                   ghostVars, aborted>>

-----------------------------------------------------------------------------
(* The callbacks, on the socket queue.                                     *)

\* SDMMD_AMDeviceCreateFromProperties.
NewDevice(c) == [object |-> allocated + 1, id |-> c.id, type |-> c.type]

IsEqualType(a, b) == a.type = b.type

\* -[SDMMD_AMDevice isEqual:] asks NSObject's isEqual: first, which compares
\* addresses; DeviceID and serial number are then never looked at.
IsEqual(a, b) == a.object = b.object

ContainsObject(list, d) == \E i \in 1..Len(list) : IsEqual(list[i], d)

WithAttachedAny(c) == Append(deviceList, NewDevice(c))

\* The list as attachedCallback: leaves it: only devices on USB are added.
WithAttached(c) ==
    IF c.type = "USB" /\ ~ContainsObject(deviceList, NewDevice(c))
    THEN Append(deviceList, NewDevice(c))
    ELSE deviceList

WithoutFirst(id) ==
    LET first == SelectInSeq(deviceList, LAMBDA d : d.id = id) IN
    IF first = 0 THEN deviceList ELSE RemoveAt(deviceList, first)

\* The loop of detachedCallback: over the list, keeping what has another id.
Without(list, id) ==
    LET kept[i \in 0..Len(list)] ==
            IF i = 0 THEN <<>>
            ELSE IF list[i].id = id THEN kept[i - 1] ELSE Append(kept[i - 1], list[i])
    IN  kept[Len(list)]

\* The list as detachedCallback: leaves it: without every device of that id.
WithoutDetached(id) == Without(deviceList, id)

\* What attachedCallback: posts before it assigns the new list.
AttachNotices(c) ==
    IF WithAttached(c) = deviceList THEN <<>> ELSE <<Notice("Attached", c.id)>>

DetachNoticesEarly(id) == <<Notice("Detached", id), Notice("DetachedFinished", id)>>

\* What detachedCallback: posts before it assigns the new list: one notice for
\* each device it removes.
DetachNotices(id) ==
    [i \in 1..(Len(deviceList) - Len(WithoutDetached(id))) |->
        Notice("Detached", id)]

\* attachedCallback: up to the assignment.
BeginAttach(c) ==
    /\ subject' = c
    /\ update' = WithAttached(c)
    /\ mainQueue' = mainQueue \o AttachNotices(c)
    /\ allocated' = allocated + 1
    /\ handlerPc' = "assign attached"

ReceiveAttached ==
    /\ handlerPc = "idle"
    /\ wire # <<>>
    /\ Head(wire).kind = "Attached"
    /\ \E c \in Head(wire).devices : BeginAttach(c)
    /\ wire' = Tail(wire)
    /\ UNCHANGED <<plugged, numbered, requests, deviceList, inList, todo,
                   clientVars, ghostVars, aborted>>

\* detachedCallback: up to the assignment.
ReceiveDetached ==
    /\ handlerPc = "idle"
    /\ wire # <<>>
    /\ Head(wire).kind = "Detached"
    /\ \E c \in Head(wire).devices :
          /\ subject' = c
          /\ update' = WithoutDetached(c.id)
          /\ mainQueue' = mainQueue \o DetachNotices(c.id)
    /\ wire' = Tail(wire)
    /\ handlerPc' = "assign detached"
    /\ UNCHANGED <<plugged, numbered, requests, deviceList, allocated, inList,
                   todo, clientVars, ghostVars, aborted>>

\* deviceListCallback: starts to go through the devices of the packet.
ReceiveDeviceList ==
    /\ handlerPc = "idle"
    /\ wire # <<>>
    /\ Head(wire).kind = "DeviceList"
    /\ inList' = TRUE
    /\ todo' = Head(wire).devices
    /\ wire' = Tail(wire)
    /\ handlerPc' = "list"
    /\ UNCHANGED <<plugged, numbered, requests, deviceList, allocated, update,
                   subject, mainQueue, clientVars, ghostVars, aborted>>

\* A device made from the next properties is compared with the list and then
\* thrown away; attachedCallback: makes another one.
AttachListed ==
    /\ handlerPc = "list"
    /\ \E c \in todo :
          /\ todo' = todo \ {c}
          /\ \/ /\ ~ContainsObject(deviceList, NewDevice(c))
                /\ BeginAttach(c)
             \/ /\ ContainsObject(deviceList, NewDevice(c))
                /\ UNCHANGED <<subject, update, mainQueue, allocated, handlerPc>>
    /\ UNCHANGED <<muxVars, deviceList, inList, clientVars, ghostVars, aborted>>

EndList ==
    /\ handlerPc = "list"
    /\ todo = {}
    /\ inList' = FALSE
    /\ handlerPc' = "idle"
    /\ UNCHANGED <<muxVars, deviceList, allocated, update, todo, subject,
                   mainQueue, clientVars, ghostVars, aborted>>

\* self.deviceList = ...
AssignDeviceList ==
    /\ handlerPc \in {"assign attached", "assign detached"}
    /\ deviceList' = update
    /\ handlerPc' = IF handlerPc = "assign attached"
                    THEN "finish attached" ELSE "finish detached"
    /\ listed' = listed \union Ids(update)
    /\ throughout' = [t \in Clients |-> throughout[t] /\ target[t] \in Ids(update)]
    /\ once' = [t \in Clients |-> once[t] \/ target[t] \in Ids(update)]
    /\ update' = <<>>
    /\ UNCHANGED <<muxVars, allocated, inList, todo, subject, mainQueue,
                   clientVars, aborted>>

\* The callback ends by posting its Finished notification, and returns to the
\* loop of deviceListCallback: when that called it.
PostFinished ==
    /\ handlerPc \in {"finish attached", "finish detached"}
    /\ mainQueue' = Append(mainQueue,
                        Notice(IF handlerPc = "finish attached"
                               THEN "AttachedFinished" ELSE "DetachedFinished",
                               subject.id))
    /\ subject' = NoConnection
    /\ handlerPc' = IF inList THEN "list" ELSE "idle"
    /\ UNCHANGED <<muxVars, deviceList, allocated, update, inList, todo,
                   clientVars, ghostVars, aborted>>

\* The main thread runs the oldest notification's observers.
Deliver ==
    /\ mainQueue # <<>>
    /\ mainQueue' = Tail(mainQueue)
    /\ UNCHANGED <<muxVars, handlerVars, clientVars, ghostVars, aborted>>

-----------------------------------------------------------------------------
(* The readers.                                                            *)

\* updateDeviceList, and the send: at the start of SDMMD_AMDeviceIsAttached.
Request ==
    /\ requested < MaxRequests
    /\ requested' = requested + 1
    /\ requests' = requests + 1

UpdateDeviceList ==
    /\ Request
    /\ UNCHANGED <<plugged, numbered, wire, handlerVars, mainQueue, pc, target,
                   index, answer, ghostVars, aborted>>

\* The device asked for is one the caller has from the list of now or earlier.
CallIsAttached(t) ==
    /\ pc[t] = "idle"
    /\ Request
    /\ \E id \in listed :
          /\ target' = [target EXCEPT ![t] = id]
          /\ throughout' = [throughout EXCEPT ![t] = id \in Ids(deviceList)]
          /\ once' = [once EXCEPT ![t] = id \in Ids(deviceList)]
    /\ pc' = [pc EXCEPT ![t] = "counting"]
    /\ index' = [index EXCEPT ![t] = 0]
    /\ UNCHANGED <<plugged, numbered, wire, handlerVars, mainQueue, answer,
                   listed, aborted>>

Return(t, result) ==
    /\ answer' = [answer EXCEPT ![t] = result]
    /\ pc' = [pc EXCEPT ![t] = "answered"]

\* i < deviceList.count, on the list of that moment.
CheckCount(t) ==
    /\ pc[t] = "counting"
    /\ \/ /\ index[t] < Len(deviceList)
          /\ pc' = [pc EXCEPT ![t] = "fetching"]
          /\ UNCHANGED answer
       \/ /\ index[t] >= Len(deviceList)
          /\ Return(t, FALSE)
    /\ UNCHANGED <<muxVars, handlerVars, mainQueue, requested, target, index,
                   ghostVars, aborted>>

FetchAny(t) ==
    /\ pc[t] = "fetching"
    /\ index[t] < Len(deviceList)
    /\ Return(t, TRUE)
    /\ UNCHANGED <<muxVars, handlerVars, mainQueue, requested, target, index,
                   ghostVars, aborted>>

\* objectAtIndex: on the list of this moment, which may be another one.
Fetch(t) ==
    /\ pc[t] = "fetching"
    /\ index[t] < Len(deviceList)
    /\ \/ /\ deviceList[index[t] + 1].id = target[t]
          /\ Return(t, TRUE)
          /\ UNCHANGED index
       \/ /\ deviceList[index[t] + 1].id # target[t]
          /\ index' = [index EXCEPT ![t] = @ + 1]
          /\ pc' = [pc EXCEPT ![t] = "counting"]
          /\ UNCHANGED answer
    /\ UNCHANGED <<muxVars, handlerVars, mainQueue, requested, target,
                   ghostVars, aborted>>

FetchRaises(t) ==
    /\ pc[t] = "fetching"
    /\ index[t] >= Len(deviceList)
    /\ aborted' = TRUE
    /\ UNCHANGED <<muxVars, handlerVars, mainQueue, clientVars, ghostVars>>

Leave(t) ==
    /\ pc[t] = "answered"
    /\ pc' = [pc EXCEPT ![t] = "idle"]
    /\ target' = [target EXCEPT ![t] = 0]
    /\ index' = [index EXCEPT ![t] = 0]
    /\ answer' = [answer EXCEPT ![t] = FALSE]
    /\ throughout' = [throughout EXCEPT ![t] = FALSE]
    /\ once' = [once EXCEPT ![t] = FALSE]
    /\ UNCHANGED <<muxVars, handlerVars, mainQueue, requested, listed, aborted>>

-----------------------------------------------------------------------------
HandlerStep ==
    \/ ReceiveAttached
    \/ ReceiveDetached
    \/ ReceiveDeviceList
    \/ AttachListed
    \/ EndList
    \/ AssignDeviceList
    \/ PostFinished

MuxStep ==
    \/ \E type \in {"USB", "WiFi"} : Plug(type)
    \/ \E c \in plugged : Unplug(c)
    \/ AnswerListDevices

ClientStep(t) ==
    \/ CallIsAttached(t)
    \/ CheckCount(t)
    \/ Fetch(t)
    \/ FetchRaises(t)
    \/ Leave(t)

\* The bounds are reached, or the process is gone.
Rest ==
    /\ aborted \/ (handlerPc = "idle" /\ wire = <<>>)
    /\ UNCHANGED vars

Next ==
    \/ /\ ~aborted
       /\ \/ HandlerStep
          \/ MuxStep
          \/ Deliver
          \/ UpdateDeviceList
          \/ \E t \in Clients : ClientStep(t)
    \/ Rest

Spec == Init /\ [][Next]_vars

\* The socket queue runs as long as there is something to read.
FairSpec == Spec /\ WF_vars(~aborted /\ HandlerStep)

-----------------------------------------------------------------------------
(* Properties                                                              *)

Devices == [object : 1..allocated, id : 1..numbered, type : {"USB"}]

TypeOK ==
    /\ numbered \in 0..MaxConnections
    /\ plugged \subseteq Connections
    /\ wire \in Seq([kind : {"Attached", "Detached", "DeviceList"},
                     devices : SUBSET Connections])
    /\ requests \in 0..requested
    /\ requested \in 0..MaxRequests
    /\ allocated \in Nat
    /\ deviceList \in Seq(Devices)
    /\ handlerPc \in {"idle", "list", "assign attached", "assign detached",
                      "finish attached", "finish detached"}
    /\ update \in Seq(Devices)
    /\ inList \in BOOLEAN
    /\ todo \subseteq Connections
    /\ subject \in Connections \union {NoConnection}
    /\ mainQueue \in Seq([name : {"Attached", "AttachedFinished",
                                  "Detached", "DetachedFinished"},
                          id : 1..numbered])
    /\ pc \in [Clients -> {"idle", "counting", "fetching", "answered"}]
    /\ target \in [Clients -> 0..numbered]
    /\ index \in [Clients -> Nat]
    /\ answer \in [Clients -> BOOLEAN]
    /\ listed \subseteq 1..numbered
    /\ throughout \in [Clients -> BOOLEAN]
    /\ once \in [Clients -> BOOLEAN]
    /\ aborted \in BOOLEAN

\* Once the socket queue has read all that usbmuxd sent, the list names exactly
\* the devices on USB: no packet order leaves a detached device behind, however
\* many objects stood for it, or brings one back.
QuietListIsPlugged ==
    handlerPc = "idle" /\ wire = <<>> => Ids(deviceList) = UsbIds(plugged)

\* Who is told that an attach or a detach is finished sees it in the list: the
\* device is there unless it was unplugged again, or is gone for good.
FinishedIsVisible ==
    \A i \in 1..Len(mainQueue) :
        LET notice == mainQueue[i] IN
        /\ notice.name = "AttachedFinished" /\ notice.id \in UsbIds(plugged)
              => notice.id \in Ids(deviceList)
        /\ notice.name = "DetachedFinished" => notice.id \notin Ids(deviceList)

\* IsAttached says yes only of a device that was in the list during the call.
AttachedWasListed ==
    \A t \in Clients : pc[t] = "answered" /\ answer[t] => once[t]

\* A device plugged into USB is listed, unless it is unplugged first.
PluggedIsListed ==
    \A id \in 1..MaxConnections :
        id \in UsbIds(plugged) ~>
            (id \in Ids(deviceList) \/ id \notin UsbIds(plugged) \/ aborted)

\* SDMMD_AMDevice.h:201, "a sanity check to ensure that a specific device is
\* still attached": IsAttached says yes of a device listed during all its call.
AttachedDeviceIsReported ==
    \A t \in Clients : pc[t] = "answered" /\ throughout[t] => answer[t]
=============================================================================
