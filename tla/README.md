# SDMMobileDevice in TLA+

SDMMobileDevice is a client library for iOS devices: it speaks to `usbmuxd` to
find devices, to `lockdownd` on a device to pair with it and open sessions, and to
the services lockdownd starts (file conduit, installation proxy, image mounter,
debug server). `iOSConsole` is a command line over it. This directory holds TLA+
models of the library, the TLC configurations that check them, and proofs checked
by TLAPS. `PROJECT.json` lists, for every definition that models code, the lines
it stands for; for every run its properties; and the hazards of the code with the
properties that watch them.

Paths below are relative to `src/Framework/src/`.

## 1. Inventory

| Component | State | Operations | Talks to | What is hard | What makes it correct |
|---|---|---|---|---|---|
| **USBMux channel** (`SDMMD_USBMuxListener.m`, `SDMMD_USBMux_Protocol.m`, `UsbMuxPacket/`) | socket, static `transactionId`, `_operationQueue`, `_semaphore`, `responses`, `isActive` | `start`, `send:`, the event handler and its callbacks, `SDMMD_USBMuxConnectByPort` | usbmuxd over a socket; callers on any thread | several threads, one handler queue, timeouts, late answers, an unlocked counter, end of file | sends are serial; a response goes to one caller; no lost wake-up; every send and `start` return |
| **Device list** (same file; `SDMMD_AMDeviceIsAttached`) | `deviceList`, queued notifications, device objects | Attached, Detached and DeviceList callbacks, `updateDeviceList`, `IsAttached` | the channel; main thread observers; readers | the list is copied, changed and assigned in steps while others read it | it converges to what is plugged; Finished notifications see their effect; `IsAttached` invents nothing |
| **Lockdown client, pairing** (`SDMMD_AMDevice.m`, `SDMMD_Functions.m`) | `device_active`, `lockdown_conn`, `ssl`, `session`, the pairing record on disk | Connect, Disconnect, IsValid, Copy/SetValue, (De)Activate, ValidatePairing, Pair, Unpair, Start/StopSession | lockdownd; the device list; the file system | replies have no numbers and receives give up; handshake failures reconnect inside a call; device leaves; process dies | replies and requests in step; host's and device's session agree; one socket that reached lockdownd; the record is one the device accepted |
| **Service connections, applications** (`SDMMD_Connection.m`, `SDMMD_Connection_Class.m`, `SDMMD_Applications.m`) | connection objects, descriptors, command in progress | SecureStartService, StartService, SecureStartSessionedService, `perform_command`, InstallApp, CopyApplication, LookupAppInfo, LookupApplications | lockdown client; installation proxy | early exits, descriptors that are reused, a placeholder connection, a loop that ignores receive errors | a live connection names its own socket and nobody else's release shuts it down; callbacks miss nothing; an install reported done was done |
| **Service framing** (`SDMMD_Service.m`) | none of its own | length-prefixed send and receive, `select` with 10 s, raw receive | sockets, OpenSSL | partial reads and writes, writes without a time-out, end of stream in a frame, `-1` results | messages arrive whole and in order; a receive that gave up is noticed; every call returns, or is blocked for ever in a write over USB |
| **Apple File Conduit** (`SDMMD_AppleFileConduit.m` and its types) | connection with a serial queue and a semaphore; operations | ProcessOperation, file open/read/write/close, copies of files and trees | AFC service | answers are not matched by number; statuses are ignored; wrapping offsets | an answer is taken by who asked; a copy whose packets were granted is the file; handles are closed |
| **Debug server protocol** (`SDMMD_Debugger.m`) | `ackEnabled`, connection | packets with checksum and acknowledgement, QStartNoAckMode | debugserver | half-checked checksums, resent packets, receives that give up between bytes, end of stream | a response is one packet's contents, then zeros if anything, and the answer to its command; both ends agree on acknowledgements |
| **Image mounter** (same file) | the lockdown connection calls leave behind | MountImage, MountDeveloperImage, start and stop of the debug connection | mobile_image_mounter, AFC, lockdown client | re-examined replies, announced and sent lengths, early exits, cut frames | replies and bytes in step; an image reported mounted was mounted; the next call can connect |
| **Errors** (`SDMMD_Error.c`) | none | conversion tables, `SDMMD__ErrorHandler` | all of the above | – | – |
| **SSL helpers** (`SDMMD_SSL_Functions.c`) | none | certificates and keys through OpenSSL | Pair | – | – |
| **Initialisation** (`SDMMD_MCP.m`, `SDMMD_Initialize.m`) | `once` | `InitializeSDMMobileDevice` | the channel | everybody waits for `start` | `start` returns |
| **iOSConsole, tests, `sdm_usbmuxd`, restore modes, personalisation, relay/backup/notification, `Framework/old`, OpenSSL** | – | – | – | – | left out: see section 7 |

How they interact: `InitializeSDMMobileDevice` runs `start` once; the handler of
the socket queue then feeds both the waiting `send:` and the device list. A
lockdown call opens its own socket through `SDMMD_USBMuxConnectByPort`, and only
asks the device list whether its device is still there. A service start is a
lockdown request followed by another socket. Nothing but the device list and the
packet counter is shared between devices.

## 2. Modules

| Module | Models | Runs |
|---|---|---|
| `SendContract` | what `send:` promises | refined in `channel` |
| `USBMuxChannel` | the USBMux channel | `channel`, `channel_answer_is_found`, `channel_active_means_listening` |
| `DeviceRegistry` | the device list and `IsAttached` | `device_registry`, `registry_attached_is_reported` |
| `Lockdown` | one device object, lockdownd, the record | `lockdown`, `lockdown_value_is_the_one_asked` |
| `FrameContract` | what receiving a message promises | refined in `framing` |
| `Framing` | the frames of `SDMMD_Service.m` on a byte stream | `framing` |
| `Applications` | service connections, installs, lookups | `applications` |
| `FileConduit` | an AFC connection, its queue, copies | `file_conduit` |
| `DebugProtocol` | packets to and from debugserver | `debug_protocol` |
| `ImageMount` | MountImage and the calls around it | `image_mount` |
| `MC...` | instances of the above for TLC | |
| `...Proofs` | theorems, see section 5 | |

### USBMuxChannel

Threads are `Starter`, which runs `-start` inside `dispatch_once`, and `Clients`,
which make a packet once the listener is active. A call of `send:` is the chain
`ReadTransactionId`, `IncrementTransactionId` (the unlocked counter, two steps),
`SubmitSend` (`dispatch_sync`), `BeginSend` (the block starts: new semaphore,
write), `Wake` or `TimeOut`, `FinishSend` (search and remove) or
`EnumerationRaises`, `SendReturned`. The socket queue is `ReceiveResponse` /
`ReceiveEvent` / `ReceiveEndOfFile`, then `Signal` or `SignalNil`: the append and
the signal are two steps, between which any thread may run. usbmuxd answers in
order, at any time or never, and may close. A packet is its number on the wire,
tag, kind, result code and the request it answers; the last is not visible to the
code and only used by properties. `SDMMD_USBMuxReceive` keeps the payload and
loses the tag of the header (`USBMuxReceive`).

### DeviceRegistry

`ReceiveAttached`, `ReceiveDetached` and `ReceiveDeviceList` are the callbacks up
to the assignment of `deviceList`, `AssignDeviceList` and `PostFinished` the rest;
`AttachListed` is one turn of the loop of `deviceListCallback:`, which calls the
attach callback. `IsEqual` is `-isEqual:` as it is: by address. Readers run
`CheckCount` and `Fetch` with the list read anew each time. `listed`, `throughout`
and `once` are history variables.

### Lockdown

The device object is `[active, conn, ssl, session]`; a socket is a record of both
ends: requests and replies under way, whether lockdownd speaks plain or TLS or
awaits the handshake, its session. Each call is an action that sends (`Call...`)
and one that takes the reply (`...Ends`); calls that send several requests have a
step for each. `Receipts` is `lockconn_receive_message`: the oldest reply, noise
if it comes in the other encryption, or nothing (end of stream, or ten seconds
passed). `RefusedToPort` is the way out of `SDMMD__connect_to_port` when usbmuxd
or the device refuses: `close` is called only if there is no socket, so the socket
stays open for good, and takes a descriptor. `Serve` is lockdownd: it answers or
refuses any request, opens and stops sessions, accepts and forgets pairings.
`Unplug`, `Delist`, `Hangup` and `Restart` may come between any two steps.

### Applications

Each call is a list of steps (`Steps`); a step that fails leaves what `Cleanup`
says is still done. The lockdown steps have the outcomes module `Lockdown` shows:
`SessionReconnects`, for instance, is `HandshakeFails` and `Reconnect`.
Descriptors are the lowest free number, so a closed one is soon another socket.
`PortOf` is what answers at the port of a service: over Wi-Fi the service, over
USB lockdownd, because `USBMuxPacket` writes lockdownd's port into every Connect
packet. A connect that is refused leaves its socket open (`Refused`). Connections
are shut down on release and never closed. The caller holds several (`held`); one
that `StartService` refused because it speaks TLS is `stale`, its socket closed
under it, and its release shuts down whatever has the descriptor by then, also
when that is another connection the caller holds (`shut` tells which sort of
release it was). Whether a service speaks TLS is not modelled elsewhere, as
nothing else depends on it. `FirstReply`, `CommandEnds` and `Progresses` are the
loop of `SDMMD_perform_command`; `heard` has every call of the callback, a message
repeated by a receive that failed as often as it is repeated. The proxy reports,
ends or fails each command in order, while somebody waits for it: what it would
say earlier nobody reads earlier. `InstallWithoutProxy` is an install whose proxy
did not start: the placeholder connection lets it go on with an uninitialized
socket, which may be any descriptor, none, or the end of the process.

### Framing

The thread is `idle`, before one of the two writes of `SDMMD_ServiceSend`
(`sendHeader`, `sendMessage`), or in the loop that reads a header or a message
(`header`, `body`). `Read` takes as many bytes as `recv` or `SSL_read` returned;
`ReadStops` is one that returned nothing, because the stream ended or the socket's
timeout passed. A write is done when what is written has room (`Writes`:
`socket.room` bytes may be on their way before the peer takes them). `Stops` says
how much is written when it fails: nothing when the peer is gone, and over Wi-Fi
(`SO_SNDTIMEO`, 25 s) as much as has room. Over USB no time-out is set for writes,
so a write without room has no step until the peer takes some: `Blocked`. A byte
knows its frame and place, so that a length can be read from bytes that are no
header (`Strays`), and so that only a whole message is a property list (`Parsed`).

`FrameContract` is the queue of messages that `Lockdown`, `Applications` and
`ImageMount` have for a connection: `Get` the next, `Miss` with nothing taken, or
`Break`. `Framing` implements it with the frames written to the last byte and not
yet received for the queue. Of the conditions under which `Break` happens (a
receive gives up when it has read a part of a frame) the other modules have the
one they meet, a receive that gives up between frames; the one inside a frame,
after which lengths are read from the middle of a message, they leave to this
module, `FileConduit` (`ReceiveTorn`) and `DebugProtocol` (a packet half read).

### FileConduit

A thread's call is a record: the files it has still to do, the step of the file at
hand (`mkdir`, `open`, `write`, `read`, `close`, or a `single` operation), the
number it believes to be the handle, the packet index. `Submit` is `dispatch_sync`
on `operationQueue`, `Send` and the `Receive...` actions are
`SDMMD_AFCSendOperation` and `SDMMD_AFCReceiveOperation` for the thread at the
front; `Completes` is what the code between two operations makes of the answer.
Every request has the same number, so `Receive` takes whatever is next.
`ReceiveNothing` is a receive that waited in vain, which over a plain socket is a
success with an empty packet; `ReceiveTorn` a header whose body is late;
`ReceiveStalls` the `-1` of `recv`, inside a packet, subtracted from an unsigned
remainder, after which the loop goes on to the end of the stream and
`ReceiveOutside` stores what comes later where it does not belong, which may end
the process; through OpenSSL the `-1` of `SSL_read` does that at any byte.
`StopReading` leaves no room for what is being written: over Wi-Fi `SendFails`
gives up after 25 seconds, over USB the send at the front of the queue has no step
any more. `Offset` is the 32-bit product, reduced modulo `OffsetLimit`. The
conduit (`Serve...`, `Refuse`, `HangUp`) is the environment, with files, handles
and positions of its own; over USB lockdownd is in its place and serves nothing.

### DebugProtocol

The client is at an `ack`, in the `prefix` before a `$`, in the `body`, or at the
`check` of a checksum; each receive takes one byte or gives up. One that gives up
in the body puts a zero into the buffer, as the code does, and so into the
response. Over OpenSSL a receive does not give up: when its socket's time-out
passes (`ReceiveLate`) the place for the next bytes is outside the buffer, where
they are lost or end the process (`ReceiveOutside`), until the stream ends.
`Valid` is `SDMMD_ValidateChecksumForBuffer`: the first digit is compared, of the
second it asks only that it is not zero on either side. `Accept` and `Refuse` send
`+` or `-` when acknowledgements are on. debugserver acknowledges at once
(`TakeCommand`), answers in two pieces (`BeginAnswer`, `EndAnswer`), so that a
receive can give up inside a packet, and resends its last packet when it is
refused. A byte carries which command and packet it belongs to, which only
properties look at.

### ImageMount

A call is at a place: `support`, `service`, `version`, `copy`, or before the send
or the receive of an exchange (`LookupImage`, `ReceiveBytes`, the bytes,
`MountImage`, `Hangup`). `Announced` is what `lstat` says, also of a link. A
timeout or a cut frame ends the call (`ReceiveNothing`); of the replies that come
`Refuses` tells the failures, and that after the bytes the code looks at the first
reply once more instead of the last. What `Applications` and `FileConduit` have
step by step, starting a session and a service and copying a file, is one step
here with the outcomes it has there. Over USB lockdownd is where the mounter
should be and takes the commands for requests (`Lockdownd`). Between two mounts
the caller may connect, disconnect, and start or stop the debug connection:
`lockdown` says what each leaves open.

## 3. Runs

| Run | Bounds | What it shows |
|---|---|---|
| `channel` | start thread with 2 packets and 2 clients with 1 each, tags mod 3, usbmuxd sends 4 packets | types; sends never overlap and run in order; no response in two places; no send sleeps on an answer that has been dealt with; every submitted send returns and `start` becomes active; `send:` implements `SendContract` |
| `channel_answer_is_found` (violated) | 1 client | a send comes back empty though its answer is in the list it searched: the tag was lost |
| `channel_active_means_listening` (violated) | 1 client | `start` ends on the empty packet of a timeout, with no Listen accepted |
| `device_registry` | 1 reader, up to 1 device at the start, 2 connections, 2 list requests | the quiet list is what is plugged by USB; Finished notifications; `IsAttached` says yes only of listed devices; a plugged device gets listed |
| `registry_attached_is_reported` (violated) | same | `IsAttached` steps over a device that is listed throughout |
| `lockdown` | 2 sockets, refused ones included, 4 requests ever | replies in step; sessions agree; one connection among those that reached lockdownd; record accepted; pairing answers hold; calls return |
| `lockdown_value_is_the_one_asked` (violated) | 1 socket, 5 requests | CopyValue returns the value of an earlier request that gave up |
| `applications` | Wi-Fi or USB; 3 descriptors, 2 connections held, 2 commands ever, 2 progress messages each, repeats recorded up to 2 | a live connection has its own socket to what answers at its port, shut down by nobody else but the release of a stale one; callbacks complete and in order; install success means completed; a sessioned service leaves no lockdown connection and hands out one just when it succeeds; commands return while the proxy stays |
| `framing` | 2 frames each way, headers and messages of 2 bytes; room for 5 or 7 bytes on their way; a stray header asks for 0, 1 or 3; socket or OpenSSL, USB or Wi-Fi | the peer takes what was sent, until a send stops inside a frame; receiving keeps `FrameContract`; calls return, or are blocked in a write over USB for ever |
| `file_conduit` | Wi-Fi or USB, socket or OpenSSL; 2 threads, one call each; 2 units a packet, offsets mod 4; a file of 5, an empty one, a directory with a missing file; 2 handles; 1 refusal, 1 late answer | answers, handles and files stay apart; what was sent or fetched and granted is whole; files are closed; plain calls return, unless a write over USB or a receive that counts a failure holds the queue for ever |
| `debug_protocol` | 3 commands; digits to base 4; answers whose checksums end in zero, do not, and are 00; no more zeros recorded once a buffer has 2 bytes | the response is the contents of one packet and zeros after them, and the command's own; both ends agree on acknowledgements; plain commands return while connected |
| `image_mount` | Wi-Fi or USB; 3 calls; an image of 5 bytes in pieces of 2; one of 4 behind a link of 3 | replies and bytes in step; success means mounted; a call that sent nothing leaves the next able to connect |

Why the bounds are enough to be interesting. The clients wait for `start`, so it
takes two of them for a race on the counter and the queue; the second packet of
the start thread and those of the clients meet answers that came too late; a
modulus of 3 makes the counter wrap within the four packets. The invariants and
the contract are proved for any number of threads and packets (section 5). Two
device connections let one leave under the index of a reader that looks for the
other, and let a DeviceList be older than the Detached before it. Four requests
cover a Pair (three) with a call before or after it, and a StartSession with the
WiFi question, a StopSession and one more call; two sockets let a reconnect or a
later Connect follow one that was refused and left its socket, and let the host
run out of them. Three descriptors are the AFC and proxy connections of an install
besides lockdown's, and too few for a second call after one that leaked. Two
commands let one read what is left of the other's answer. Two connections held are
one whose socket is closed and another that gets its descriptor, before the first
is released.

In `framing` two frames let one follow a send or receive that stopped anywhere in
the other, with a stray length short of, at, and past what is there; a header of
two bytes can be read in two parts, and the room is for a frame and part of the
next header, or part of its message, so that each of the two writes can be the one
for which there is none.

In `file_conduit` the longest file passes the place where the offset wraps, its
last packet is short, and the conduit's own statuses are numbers a handle can
have; one refusal and one late answer are enough for an answer to be taken by the
other thread. In `debug_protocol` one command can leave a packet half read, the
second meet it, and the third meet what the second left. In `image_mount` three
calls let a mount follow one that left a connection, with a Connect or Disconnect
between.

Deadlock is checked in every run. `Rest`, where a module has it, is the state in
which nothing is left to do; that a state which is not quiet can always move is
thus checked.

## 4. Fairness

- `USBMuxChannel`: weak fairness of each thread inside a call, of the start loop's
  next attempt, and of the socket queue: GCD schedules both. None for usbmuxd,
  which owes nothing: sends return because waits time out.
- `DeviceRegistry`: weak fairness of the socket queue.
- `Lockdown`: weak fairness of the steps inside a call. Each wait is bounded by
  `select` (10 s) or `SO_RCVTIMEO`. Nothing is asked of lockdownd.
- `Applications`: weak fairness of the steps inside a call, and of the proxy the
  call waits for, as long as it is connected. The property `CommandReturns` claims
  nothing once the proxy is gone, because there the loop of `perform_command` does
  not end.
- `Framing`: weak fairness of the thread inside a send or receive. Every socket to
  a service has a receive timeout (10 s over USB, 25 s over Wi-Fi), so that a read
  always returns, and over Wi-Fi one for writes. Over USB there is none, and a
  write that finds no room is not enabled: `CallReturns` says that calls return
  again and again, or that such a write is blocked for ever. Nothing is asked of
  the peer.
- `FileConduit`: weak fairness of each thread inside a call, which is the thread
  and the serial queue. Nothing is asked of the conduit: a plain receive gives up
  after a second, and `PlainCallReturns` claims nothing of OpenSSL, where
  `SSL_read` is repeated. It excepts what is `Stuck` for ever: a write over USB to
  a conduit that reads no more, and a receive that counts failures of `recv` until
  the stream ends. Bytes that are stored outside the buffer (`ReceiveOutside`) owe
  nothing.
- `DebugProtocol`: weak fairness of the caller's thread, and of debugserver ending
  a packet that it began while the connection is up: the receive loop has no way
  out inside a packet, so without the second nothing returns.
- `ImageMount`: none; its properties are safety.

## 5. Proofs

The theorems hold for every value of the constants that satisfies the named
assumptions of the module; TLC evaluates these on its instances. Each invariant
below was first checked by TLC. The layout is the same everywhere: a state
predicate `IInv` made of named parts, a lemma for the initial states, one lemma or
step for each action, and a temporal step at the end.

**`USBMuxChannelProofs`**: `TypeCorrect`, `SendsAreSerial`,
`ResponsesGoToOneCaller`, `NoSendMissesItsWakeup`, all from `Invariance` with
`IInv = TypeOK /\ QueueInv /\ NumberInv /\ IssuedInv /\ NoMissedWakeup`.
`SendsDontOverlap` is not inductive: that the head of the queue is the running
thread says nothing about the next head, so `QueueInv` states that the queue has
no thread twice and holds exactly the threads inside `send:`. `EachResponseOnce`
needs to know that what will arrive is new: `NumberInv` orders the numbers of the
wire after those of the list and the replies. `NoMissedWakeup` needs that a send
that is just beginning, with a fresh semaphore, cannot find an answer to it in the
list: `IssuedInv` says an answer, a packet on the wire or a request bears the
number of a packet already sent. Then the only step that puts the waited-for
answer in the list is followed by a signal before the handler is idle again, and
only the waiting thread itself takes signals away.

Its second part is `SendKeepsItsPromise`, that `Spec` implements `SendContract`
under the refinement mapping of `ImplementsContract`. On top of `IInv` it needs
`WireInv`: packets have the numbers they were sent with, in order, so that what
the handler receives next is a response that never arrived before. Every action is
then a step of the contract or a stutter.

**`DeviceRegistryProofs`**: `TypeCorrect`, `QuietListIsRight`, `FinishedIsSeen`,
`AnswersWereListed`. The first of the properties says something only of the quiet
state, so its invariant has to say what the list will be: `Upcoming` folds the
packets on the way over the list, and `Reported` and `Tracked` say that the result
is what is plugged, whatever the running callback has read and not yet assigned
(`Handling`, `Updating`). `Alive` and `Told` tie the queued notifications to the
list, `Watched` the readers to the devices listed since they began. That the loop
which deletes from the list deletes every object of the device is an induction on
the list's length, made with a least counterexample.

**`LockdownProofs`**: `TypeCorrect`, `TurnsAreKept`, `SocketsAreOne`,
`RecordsAreAccepted`, from `IInv = Types /\ Placed /\ InStep /\ OneConnection /\
PairsHold /\ RecordIsAccepted`: where each call can be (`Placed`), that one
request or one reply is under way at exactly those places if no receive gave up
(`InStep`), and that a pairing the device answered is one it has (`PairsHold`).
Its second part adds `SessionsAgree`, with `SessionInv`: a session the object
holds is lockdownd's (`Held`), a session being asked for has its request, reply or
handshake under way (`AskedFor`), and the two ends change encryption together
(`Granted`). Its third adds `PairingAnswersAreRight`, from `PairingInv`: what
lockdownd has answered about a pairing, and the call has not yet looked at, is so,
and no other step pairs or unpairs before the call returns. `OneConnection` is
kept because a refused connect adds a socket that is none of the reached ones, and
nothing ever gives it to the device object.

**`FramingProofs`**: `ReceivesLikeFrameContract`, `SendsAreInStep`, and the types
they stand on (`TypesHold`). That receiving implements `FrameContract` is a
refinement: `ReceiveInv` says what the stream has in front of the reader (`Ahead`)
at each place of a receive, the frames still whole (`InFrames`) or the end of the
stream inside one (`Ended`), so that every read either takes bytes of the next
frame, finishes it, or leaves the stream torn. `SendInv` follows the bytes of a
frame from the two writes to the peer: what is on the stream continues what the
peer has taken (`Claimed`) and is continued by what the send has still to write
(`Due`). The number of frames whose last byte is on the stream is a cardinality,
kept by lemmas on appending to and taking from a sequence.

**`DebugProtocolProofs`**: `TypeCorrect`, `ResponsesAreOnePacket`,
`CallsAreInStep`. `PacketInv` holds whatever happens: behind each `$` that is
coming stand the contents and behind them a `#` (`Follows`), across the two pieces
of a packet and up to where debugserver hung up, so that a receive past a `$` has
the contents at most once in its buffer (`Reading`). Neither the checksum nor
acknowledgements are needed for it. `StepInv` speaks of calm only: between calls
nothing is under way but acknowledgements (`Silent`), and a call's command is on
its way, taken or answered (`OnItsWay`, `Taken`, `Answered`); what is left of the
answer, and where the call stands in it, go together byte by byte (`Ending`). Calm
never returns, which is why a step's invariant can be assumed before it
(`CalmBefore`).

**`FileConduitProofs`**: `AnswersAreOwn`, `HandlesAreOwn`, `FilesGetClosed`,
`TypeCorrect`, `CopiesAreRight`. One exchange is somewhere on its way
(`OnItsWay`): asked by the thread at the front of the queue (`AskingIsAtFront`),
with its request or its answer on the link and nothing else there (`LinkInv`).
`HandleInv` stands on that: the request is the one its call asks, so a handle the
conduit opens becomes that call's (`HandleOf`), and each open handle has a call
that holds it or is about to receive it (`Holds`), until the request to close it
is answered. Since the conduit gives no open handle out again, nobody else's
handle is among those a call writes to or closes. `TypeCorrect` needs, beyond the
types themselves, what a call has before it in each state (`Standing`): a file it
is copying, whose length is a number, and a packet of it still to do; a number of
files copied and left that together fit the width of a directory. `CopiesAreRight`
is the contents. `CopyInv` says, as long as every answer about a file granted what
was asked (`Good`), how much of the file the packets that were answered cover
(`Units`, the answer on its way included): that much of the conduit's file is the
local one's (`Sent`), or what the call has received and the piece on its way
continue one another (`Fetched`), and the handle stands there (`Position`). A call
leaves the packets before the last only when an answer did not come or was not
sure, so a file it is sure of is closed whole (`InOrder`). It rests on `HandleInv`
throughout: that a packet names its call's own handle keeps the other calls out of
the file. `WorksAssumption` asks for a width of at least one: the path of a single
file is the first.

**`ImageMountProofs`**: `TypeCorrect`, `ExchangesAreInStep`, `SuccessIsMounted`.
`Line` says, for each place of a call, what is under way: nothing (`Quiet`), the
command (`Asked`), the reply (`Answered`), or pieces of the image that continue
one another (`Consecutive`) between what the mounter has taken and what the call
has sent; `Exchange` and `Fresh` that the reply a call goes by is the awaited one;
`Mounting` and `Freed` carry the outcome to the end of the call.

**`ApplicationsProofs`**: `TypeCorrect`, `SocketsAreOwn`, `CallbacksMissNothing`,
`InstallsAreCompleted`, `SessionedServicesStandAlone`. The properties of a call's
end depend on where it is, so `Program` says that what is left to do is the end of
the call's program, or of what follows a failed step (the result of a call names
it); the lemmas on places turn a step's name into the number of steps left, and
back. `Sockets` says, for each place where a connection can be kept, whose
descriptor is whose: a live connection has one that no other live connection and
no lockdown connection has, and where it leads; stale ones may name any. `Talking`
what waits on the socket of the command being performed: `LineOf` numbers the
messages the proxy has sent and will send, from the one the callback was last
given (`LastOf`). `Installing` and `Handing` carry what each step leaves to the
end of the call.

Every invariant a passing run checks is thereby a theorem. Only model-checked: all
liveness (fairness and ENABLED are beyond the prover). What a checksum is, a
recursive function over data, is beyond the prover's induction; no theorem depends
on it.

## 6. Abstractions

Time is not modelled: a wait gives up at any moment it has nothing to return.
Outside `Framing`, which justifies it, a frame is sent whole, and received whole
except where a module has the cut (`ImageMount`), the late body (`FileConduit`) or
bytes (`DebugProtocol`). In `Framing` a write that OpenSSL failed is one that
wrote a part or nothing, and the next may succeed. Contents of property lists,
certificates, keys and names are left out but for what control depends on. In
`Lockdown` and `Applications` one thread uses one device: `SDMMD__mutex_lock`
(`SDMMD_Functions.m:56`) locks a copy of the mutex, so the code does not serialise
two, and the models do not pretend it does. No property is stated for two threads
on one device object: their requests mix on one socket, a race without any order
the code could promise. In `Lockdown` deleting the record succeeds, and a host
that has no socket left cannot connect. In `Applications` messages without Status,
which change nothing, commands the caller sends on a connection of its own, and
the contents of a file transfer are left out. In `FileConduit` a conduit that
stopped reading does not read again (over Wi-Fi, what it would make of a request
of which a part was written), and it stops only while frames are whole. In
`FileConduit` a file is the sequence of its units, an answer's body is the number
its first eight bytes are, nested directories and the parsing of lists are left
out, and a caller's own operations are one that wants a body and one that does
not. In `DebugProtocol` the contents of a packet are one byte, and a caller that
asks on after a command without a response is left out; its commands are a few
bytes, and a send of one never finds the socket full. In `Lockdown`,
`Applications` and `ImageMount` writes do not block either: the first two have one
small request under way at a time, and the properties of the last do not ask that
a call return. In `ImageMount` the developer image is found or not, and its
signature is data.

Some properties hold only under a condition on the history: in `FileConduit`
`link.waited` and `link.torn` (`Trusted`), `link.full` and `device.misled`; in
`DebugProtocol` `link.waited` and `link.lost`; in `ImageMount` `call.mute`; in
`Applications` `call.own`, and of a connection that it is not `stale`. Each is the
hazard itself, at its line in `PROJECT.json`: after it the code promises nothing,
and the run explores it all the same.

## 7. Not modelled

The reasons stand in `PROJECT.json`, by component. In short: SSL helpers, error
tables and iOSConsole have no state of their own; the relay, backup, notification
and personalisation files are not built by the Xcode project, and call functions
with signatures that are gone; the restore mode files, `sdm_usbmuxd` and
`Framework/old` are empty, stubs or dead; the tests run against devices; OpenSSL
(most of the repository's lines) is vendored and external, of which `Lockdown`,
`FileConduit` and `DebugProtocol` model the results the framework meets.

## 8. What is left

The channel and the registry composed over one wire.
