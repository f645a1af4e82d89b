---------------------------- MODULE Applications ----------------------------
(***************************************************************************)
(* The calls that install, copy and look up applications, the service      *)
(* connections they run over, and the installation proxy they command.     *)
(*                                                                         *)
(* Each is a program of lockdown calls and service calls, run by one       *)
(* thread; an error leaves it early.  A lockdown call is one step here,    *)
(* with the outcomes module Lockdown shows it has.  What the copy of the   *)
(* package over AFC does is left to its result.  Descriptors are numbered  *)
(* by the system, the lowest free one first.                               *)
(***************************************************************************)
EXTENDS Naturals, Sequences

CONSTANTS
    MaxFiles,     \* bound: descriptors
    MaxHeld,      \* bound: connections the caller has at a time
    MaxCommands,  \* bound: commands ever sent to installation proxies
    MaxProgress,  \* bound: progress messages for a command
    MaxHeard      \* bound: calls of a callback after which repeated ones are
                  \* no longer recorded

ASSUME BoundsAssumption ==
    /\ MaxFiles \in Nat /\ MaxHeld \in Nat /\ MaxCommands \in Nat
    /\ MaxProgress \in Nat /\ MaxHeard \in Nat

VARIABLES
    wifi,        \* the device is attached over Wi-Fi, and not over USB
    attached,    \* the device's attachment lasts
    lockdown,    \* the device object's lockdown_conn (its descriptor) and session
    file,        \* file[d]: what descriptor d is
    held,        \* the connections the caller has of StartService and
                 \* SecureStartSessionedService
    call,        \* the call in progress, or the last one
    commands     \* how many commands were sent

vars == <<wifi, attached, lockdown, file, held, call, commands>>

None == 0
Files == 1..MaxFiles
Commands == 1..MaxCommands
Slots == 1..MaxHeld

-----------------------------------------------------------------------------
(* Descriptors and connections.                                            *)

\* What a descriptor leads to, whether the peer is there, through which of the
\* host's connections it was shut down if it was, what a proxy has to do, how
\* many messages it sent about the first of that, and what waits to be received
Free == [to |-> "nothing", up |-> FALSE, shut |-> "no",
         todo |-> <<>>, told |-> 0, in |-> <<>>]
Gone(f) == [f EXCEPT !.up = FALSE, !.todo = <<>>, !.told = 0]
Socket(to) == [Free EXCEPT !.to = to, !.up = TRUE]

\* What answers at the port of a service: a Connect packet of usbmuxd has
\* lockdownd's port, whichever it was made for
PortOf(service) == IF wifi THEN service ELSE "lockdown"

\* The descriptors socket(2) may return
Lowest(files) ==
    {d \in Files : files[d] = Free /\ \A e \in 1..(d - 1) : files[e] # Free}

\* SDMMD_AMDServiceConnectionCreate.  StartService asks for a connection that
\* is not shut down when it is released; the option is read the wrong way
\* round, so that every connection is.  A connection is stale once StartService
\* has closed its socket.
NewConnection(d, service) == [fd |-> d, service |-> service, stale |-> FALSE]
NoConnection == NewConnection(None, "nothing")

\* Finalize and Invalidate: the socket is shut down and never closed
ShutDown(c) ==
    IF c.fd = None \/ file[c.fd] = Free THEN file
    ELSE [file EXCEPT ![c.fd] = [Gone(@) EXCEPT
             !.shut = IF c.stale THEN "stale" ELSE "owner", !.in = <<>>]]

\* SDMMD_lockdown_connection_destory, as SDMMD_AMDeviceDisconnect calls it
Unlocked == [fd |-> None, session |-> FALSE]
Closed == IF lockdown.fd = None THEN file ELSE [file EXCEPT ![lockdown.fd] = Free]

-----------------------------------------------------------------------------
(* The calls, and the steps each is made of.                               *)

Steps ==
    [InstallApp |-> <<"connect", "session", "afc", "proxy", "send", "first",
                      "loop", "release_proxy", "release_afc", "stop", "disconnect">>,
     CopyApplication |-> <<"connect", "session", "afc", "transfer", "release_afc",
                           "stop", "disconnect">>,
     LookupApplications |-> <<"proxy", "send", "first", "loop">>,
     LookupAppInfo |-> <<"proxy", "send", "first", "loop", "release_proxy">>,
     SecureStartSessionedService |-> <<"connect", "session", "service", "stop",
                                       "disconnect", "hand_over">>,
     StartService |-> <<"service", "keep">>,
     Connect |-> <<"connect">>,
     StartSession |-> <<"session">>,
     StopSession |-> <<"stop">>,
     Disconnect |-> <<"disconnect">>]

NoReply == [n |-> 0, kind |-> "none", k |-> 0]

NoCall ==
    [op |-> "none", todo |-> <<>>, result |-> "none",
     afc |-> NoConnection, service |-> NoConnection, sock |-> None,
     own |-> TRUE, n |-> 0, response |-> NoReply, heard |-> <<>>]

Idle == call.todo = <<>>
At(step) == ~Idle /\ Head(call.todo) = step

\* What is still done when a step fails.  SecureInstallApplication and
\* LookupAppInfo release the proxy's connection, LookupAppInfo a placeholder
\* where it got none, SecureStartSessionedService undoes what it did; the
\* others jump to their ExitLabel.
Cleanup(step) ==
    CASE \/ call.op \in {"InstallApp", "LookupAppInfo"} /\ step \in {"send", "first", "loop"}
         \/ call.op = "LookupAppInfo" /\ step = "proxy"
            -> <<"release_proxy">>
      [] call.op = "SecureStartSessionedService" /\ step = "session"
            -> <<"disconnect", "hand_over">>
      [] call.op = "SecureStartSessionedService" /\ step = "service"
            -> <<"stop", "disconnect", "hand_over">>
      [] OTHER -> <<>>

\* Each step ends with one of these
Passed(c) == call' = [c EXCEPT !.todo = Tail(@)]
Failed(step) == call' = [call EXCEPT !.todo = Cleanup(step), !.result = step]

\* The step that failed, if any, is the result
Call(op) ==
    /\ Idle
    /\ op \in {"StartService", "SecureStartSessionedService"} =>
          \E i \in Slots : held[i] = NoConnection
    /\ call' = [NoCall EXCEPT !.op = op, !.todo = Steps[op], !.result = "success"]
    /\ UNCHANGED <<wifi, attached, lockdown, file, held, commands>>

\* The process ends and is started anew with the device attached
Restarted ==
    /\ attached' = TRUE
    /\ lockdown' = Unlocked
    /\ file' = [d \in Files |-> Free]
    /\ held' = [i \in Slots |-> NoConnection]
    /\ call' = NoCall
    /\ UNCHANGED <<wifi, commands>>

Init ==
    /\ wifi \in BOOLEAN
    /\ attached = TRUE
    /\ lockdown = Unlocked
    /\ file = [d \in Files |-> Free]
    /\ held = [i \in Slots |-> NoConnection]
    /\ call = NoCall
    /\ commands = 0

-----------------------------------------------------------------------------
(* The lockdown calls.                                                     *)

\* lockdownd names itself in time, or does not: the connection stays either way
ConnectOpens ==
    /\ At("connect") /\ attached /\ lockdown.fd = None
    /\ \E d \in Lowest(file) :
          /\ file' = [file EXCEPT ![d] = Socket("lockdown")]
          /\ lockdown' = [lockdown EXCEPT !.fd = d]
    /\ Passed(call) \/ Failed("connect")
    /\ UNCHANGED <<wifi, attached, held, commands>>

\* A connect that is refused leaves its socket open, if it came to have one.
\* Nobody takes commands at the end of it, nor where a handshake failed.
Refused(files, to) ==
    {files} \cup {[files EXCEPT ![d] = Gone(Socket(to))] : d \in Lowest(files)}

\* usbmuxd refuses, or the device is connected already; a connection to a
\* device that left is dropped
ConnectFails ==
    /\ At("connect")
    /\ \/ lockdown.fd # None /\ UNCHANGED <<lockdown, file>>
       \/ lockdown.fd = None /\ lockdown' = lockdown /\ file' \in Refused(file, "lockdown")
       \/ ~attached /\ lockdown.fd # None /\ lockdown' = Unlocked /\ file' = Closed
    /\ Failed("connect")
    /\ UNCHANGED <<wifi, attached, held, commands>>

Lockdownd == lockdown.fd # None /\ file[lockdown.fd].up

SessionOpens ==
    /\ At("session") /\ Lockdownd
    /\ lockdown' = [lockdown EXCEPT !.session = TRUE]
    /\ Passed(call)
    /\ UNCHANGED <<wifi, attached, file, held, commands>>

\* There is no record, or lockdownd refuses
SessionFails ==
    /\ At("session")
    /\ \E session \in {lockdown.session, FALSE} :
          lockdown' = [lockdown EXCEPT !.session = session]
    /\ Failed("session")
    /\ UNCHANGED <<wifi, attached, file, held, commands>>

\* The handshake fails: Disconnect, Connect
SessionReconnects ==
    /\ At("session") /\ lockdown.fd # None
    /\ \/ \E d \in Lowest(Closed) :
             /\ attached
             /\ file' = [Closed EXCEPT ![d] = Socket("lockdown")]
             /\ lockdown' = [fd |-> d, session |-> FALSE]
       \/ file' \in Refused(Closed, "lockdown") /\ lockdown' = Unlocked
    /\ Failed("session")
    /\ UNCHANGED <<wifi, attached, held, commands>>

StopSession ==
    /\ At("stop") /\ lockdown.session /\ Lockdownd
    /\ lockdown' = [lockdown EXCEPT !.session = FALSE]
    /\ Passed(call)
    /\ UNCHANGED <<wifi, attached, file, held, commands>>

\* Mutant of StopSessionFails: SecureStartSessionedService gives up too
StopSessionFailsAll ==
    /\ At("stop")
    /\ \E session \in {lockdown.session, FALSE} :
          lockdown' = [lockdown EXCEPT !.session = session]
    /\ Failed("stop")
    /\ UNCHANGED <<wifi, attached, file, held, commands>>

\* No session, no answer, or an inactive device, which keeps its session.
\* SecureStartSessionedService does not look.
StopSessionFails ==
    /\ At("stop")
    /\ \E session \in {lockdown.session, FALSE} :
          lockdown' = [lockdown EXCEPT !.session = session]
    /\ IF call.op = "SecureStartSessionedService" THEN Passed(call) ELSE Failed("stop")
    /\ UNCHANGED <<wifi, attached, file, held, commands>>

Disconnect ==
    /\ At("disconnect")
    /\ lockdown' = Unlocked
    /\ file' = Closed
    /\ Passed(call)
    /\ UNCHANGED <<wifi, attached, held, commands>>

-----------------------------------------------------------------------------
(* SDMMD_AMDeviceSecureStartService and its callers.                       *)

Starts == {"afc", "proxy", "service"}

\* The call's variable that gets connection c
Holding(c) ==
    IF At("afc") THEN [call EXCEPT !.afc = c]
    ELSE [call EXCEPT !.service = c, !.sock = c.fd]

\* Mutant of Handed: closes the socket it has just handed over, as the code
\* in the comment at the end of SecureStartService would in the plain case
HandedClosed(d, service) == [file EXCEPT ![d] = Free]
Handed(d, service) == [file EXCEPT ![d] = Socket(PortOf(service))]

\* lockdownd gives a port, the port answers, and the handshake succeeds if
\* the service has one
ServiceStarts(step) ==
    /\ At(step) /\ lockdown.session /\ Lockdownd
    /\ \E d \in Lowest(file) :
          /\ file' = Handed(d, step)
          /\ Passed(Holding(NewConnection(d, step)))
    /\ UNCHANGED <<wifi, attached, lockdown, held, commands>>

\* There is no session, lockdownd refuses, or the port or its handshake does,
\* which leaves the socket open
ServiceFails(step) ==
    /\ At(step)
    /\ call.op = "InstallApp" => step # "proxy"
    /\ \/ file' = file
       \/ lockdown.session /\ Lockdownd /\ file' \in Refused(file, PortOf(step))
    /\ Failed(step)
    /\ UNCHANGED <<wifi, attached, lockdown, held, commands>>

\* SecureInstallApplication goes on without a connection of its own, because
\* of the placeholder InstallApplication passed it.  The SocketConnection of
\* no connection is an uninitialized value: it may end the process, be no
\* descriptor, or name a socket that happens to be open.
InstallWithoutProxy ==
    /\ At("proxy") /\ call.op = "InstallApp"
    /\ \/ Restarted
       \/ /\ \E d \in {None} \cup {e \in Files : file[e].to # "nothing"} :
                Passed([call EXCEPT !.own = FALSE, !.sock = d])
          /\ UNCHANGED <<wifi, attached, lockdown, file, held, commands>>

\* The caller keeps what it is given in its first free place
HandOver(c) ==
    \E i \in Slots :
        /\ held[i] = NoConnection /\ \A j \in 1..(i - 1) : held[j] # NoConnection
        /\ held' = [held EXCEPT ![i] = c]

\* StartService closes a service that speaks TLS, frees its SSL object and
\* reports an error, and leaves the connection object with the caller.  Only
\* here does it matter whether the service speaks TLS; over USB none does, as
\* lockdownd in its place would have failed the handshake.
StartServiceEnds ==
    /\ At("keep")
    /\ LET c == call.service IN
       \/ HandOver(c) /\ file' = file /\ Passed(call)
       \/ /\ wifi
          /\ HandOver([c EXCEPT !.stale = TRUE])
          /\ file' = [file EXCEPT ![c.fd] = Free]
          /\ Failed("keep")
    /\ UNCHANGED <<wifi, attached, lockdown, commands>>

\* The caller of SecureStartSessionedService has what it started, if anything
SessionedEnds ==
    /\ At("hand_over")
    /\ IF call.service = NoConnection THEN UNCHANGED held ELSE HandOver(call.service)
    /\ Passed(call)
    /\ UNCHANGED <<wifi, attached, lockdown, file, commands>>

\* The caller releases a connection it was given.  That of a service
\* StartService has closed shuts down whatever has its descriptor now, and may
\* end the process, as its SSL object is freed a second time.
Release(i) ==
    /\ Idle /\ held[i] # NoConnection
    /\ \/ /\ file' = ShutDown(held[i])
          /\ held' = [held EXCEPT ![i] = NoConnection]
          /\ call' = NoCall
          /\ UNCHANGED <<wifi, attached, lockdown, commands>>
       \/ held[i].stale /\ Restarted

\* The call's own release
Drop(step, c) ==
    /\ At(step)
    /\ file' = ShutDown(c)
    /\ Passed([call EXCEPT !.afc = IF @ = c THEN NoConnection ELSE @,
                           !.service = IF @ = c THEN NoConnection ELSE @])
    /\ UNCHANGED <<wifi, attached, lockdown, held, commands>>

Transfer ==
    /\ At("transfer")
    /\ Passed(call) \/ Failed("transfer")
    /\ UNCHANGED <<wifi, attached, lockdown, file, held, commands>>

-----------------------------------------------------------------------------
(* SDMMD_perform_command.  A message without Status changes nothing and is *)
(* left out.                                                               *)

Sock == file[call.sock]

\* A peer that is no installation proxy hangs up on what it cannot read
Send ==
    /\ At("send") /\ call.sock # None /\ Sock.up /\ commands < MaxCommands
    /\ commands' = commands + 1
    /\ file' = IF Sock.to = "proxy"
               THEN [file EXCEPT ![call.sock].todo = Append(@, commands + 1)]
               ELSE [file EXCEPT ![call.sock] = Gone(@)]
    /\ Passed([call EXCEPT !.n = commands + 1])
    /\ UNCHANGED <<wifi, attached, lockdown, held>>

\* The first frame after the peer has left may still be taken
SendFails ==
    /\ At("send") /\ (call.sock # None => ~Sock.up)
    /\ \/ Failed("send")
       \/ call.sock # None /\ Sock.shut = "no" /\ Passed(call)
    /\ UNCHANGED <<wifi, attached, lockdown, file, held, commands>>

\* SDMMD_ServiceReceiveStream takes the oldest message; where there is none,
\* the stream has ended or 10 seconds pass
Message == /\ Sock.in # <<>>
           /\ file' = [file EXCEPT ![call.sock].in = Tail(@)]
NoMessage == Sock.in = <<>> /\ file' = file

FirstReply ==
    /\ At("first")
    /\ \/ Message /\ Passed([call EXCEPT !.response = Head(Sock.in)])
       \/ NoMessage /\ Failed("first")
    /\ UNCHANGED <<wifi, attached, lockdown, held, commands>>

\* Mutants of CommandEnds: Complete is not looked for; Error is not looked for;
\* the callback is called with the last message too
CommandFails ==
    /\ At("loop")
    /\ \/ call.response.kind = "error" /\ Failed("loop")
       \/ call.response.kind = "complete" /\ call' = call
    /\ UNCHANGED <<wifi, attached, lockdown, file, held, commands>>
CommandEndsAnyway ==
    /\ At("loop") /\ call.response.kind \in {"complete", "error"}
    /\ Passed(call)
    /\ UNCHANGED <<wifi, attached, lockdown, file, held, commands>>
CommandEndsTold ==
    /\ At("loop") /\ call.response.kind = "complete"
    /\ Passed([call EXCEPT !.heard = Append(@, call.response.k)])
    /\ UNCHANGED <<wifi, attached, lockdown, file, held, commands>>

CommandEnds ==
    /\ At("loop")
    /\ \/ call.response.kind = "complete" /\ Passed(call)
       \/ call.response.kind = "error" /\ Failed("loop")
    /\ UNCHANGED <<wifi, attached, lockdown, file, held, commands>>

LastOf(heard) == IF heard = <<>> THEN 0 ELSE heard[Len(heard)]

\* The messages the callback was called with, each as often as it was
Told(heard, message) ==
    IF Len(heard) >= MaxHeard /\ LastOf(heard) = message.k THEN heard
    ELSE Append(heard, message.k)

\* Mutant of Progresses: receives, then calls the callback
ProgressesLate ==
    /\ At("loop") /\ call.response.kind = "progress"
    /\ \/ NoMessage /\ call' = call
       \/ /\ Message
          /\ call' = [call EXCEPT !.response = Head(Sock.in),
                                  !.heard = Told(@, Head(Sock.in))]
    /\ UNCHANGED <<wifi, attached, lockdown, held, commands>>

\* Calls the callback with the message it has, and receives again.  What that
\* returns is not looked at: without a message the old one is handled again,
\* for ever if none comes.
Progresses ==
    /\ At("loop") /\ call.response.kind = "progress"
    /\ LET told == [call EXCEPT !.heard = Told(@, call.response)] IN
       \/ Message /\ call' = [told EXCEPT !.response = Head(Sock.in)]
       \/ NoMessage /\ call' = told
    /\ UNCHANGED <<wifi, attached, lockdown, held, commands>>

-----------------------------------------------------------------------------
(* The installation proxies, lockdownd and the cable.                      *)

Reply(n, kind, k) == [n |-> n, kind |-> kind, k |-> k]

ProxyReports(d) ==
    LET f == file[d] IN
    /\ f.up /\ f.todo # <<>> /\ f.told < MaxProgress
    /\ file' = [file EXCEPT ![d] = [f EXCEPT !.told = @ + 1,
          !.in = Append(@, Reply(Head(f.todo), "progress", f.told + 1))]]
    /\ UNCHANGED <<wifi, attached, lockdown, held, call, commands>>

\* The last message of a command
ProxyEnds(d) ==
    LET f == file[d] IN
    /\ f.up /\ f.todo # <<>>
    /\ \E kind \in {"complete", "error"} :
          file' = [file EXCEPT ![d] = [f EXCEPT !.told = 0, !.todo = Tail(@),
                      !.in = Append(@, Reply(Head(f.todo), kind, f.told))]]
    /\ UNCHANGED <<wifi, attached, lockdown, held, call, commands>>

Proxy(d) == ProxyReports(d) \/ ProxyEnds(d)

Hangup(d) ==
    /\ file[d].up
    /\ file' = [file EXCEPT ![d] = Gone(@)]
    /\ UNCHANGED <<wifi, attached, lockdown, held, call, commands>>

Unplug ==
    /\ attached
    /\ attached' = FALSE
    /\ file' = [d \in Files |-> Gone(file[d])]
    /\ UNCHANGED <<wifi, lockdown, held, call, commands>>

-----------------------------------------------------------------------------
Begin == \E op \in DOMAIN Steps : Call(op)

LockdownStep ==
    \/ ConnectOpens \/ ConnectFails
    \/ SessionOpens \/ SessionFails \/ SessionReconnects
    \/ StopSession \/ StopSessionFails
    \/ Disconnect

ServiceStep ==
    \/ \E step \in Starts : ServiceStarts(step) \/ ServiceFails(step)
    \/ InstallWithoutProxy
    \/ StartServiceEnds
    \/ Transfer
    \/ SessionedEnds
    \/ Drop("release_proxy", call.service)
    \/ Drop("release_afc", call.afc)

CommandStep ==
    Send \/ SendFails \/ FirstReply \/ CommandEnds \/ Progresses

CallStep == LockdownStep \/ ServiceStep \/ CommandStep

Performing == At("first") \/ At("loop")

\* A proxy acts while perform_command waits on its socket: what it would say at
\* other times nobody would read before then
Answers == Performing /\ Proxy(call.sock)

DeviceStep == Answers \/ Unplug \/ \E d \in Files : Hangup(d)

Next ==
    \/ Begin
    \/ CallStep
    \/ \E i \in Slots : Release(i)
    \/ DeviceStep

Spec == Init /\ [][Next]_vars

\* A call runs on, and the proxy it waits for finishes what it was told.
FairSpec ==
    Spec /\ WF_vars(CallStep) /\ WF_vars(Answers)

-----------------------------------------------------------------------------
(* Properties                                                              *)

Services == {"afc", "proxy", "service"}
Replies == [n : Commands, kind : {"progress", "complete", "error"}, k : 0..MaxProgress]
StepNames ==
    {"connect", "session", "afc", "proxy", "service", "send", "first", "loop", "transfer",
     "release_proxy", "release_afc", "stop", "disconnect", "keep", "hand_over"}
Connections ==
    [fd : Files, service : Services, stale : BOOLEAN] \cup {NoConnection}

TypeOK ==
    /\ wifi \in BOOLEAN /\ attached \in BOOLEAN
    /\ lockdown \in [fd : Files \cup {None}, session : BOOLEAN]
    /\ file \in [Files -> [to : Services \cup {"lockdown", "nothing"},
                           up : BOOLEAN, shut : {"no", "owner", "stale"},
                           todo : Seq(Commands), told : 0..MaxProgress,
                           in : Seq(Replies)]]
    /\ held \in [Slots -> Connections]
    /\ {call.afc, call.service} \subseteq Connections
    /\ call.op \in DOMAIN Steps \cup {"none"}
    /\ call.result \in {"none", "success"} \cup StepNames
    /\ call.sock \in Files \cup {None}
    /\ call.own \in BOOLEAN
    /\ call.n \in 0..commands
    /\ call.response \in Replies \cup {NoReply}
    /\ call.heard \in Seq(1..MaxProgress)
    /\ commands \in 0..MaxCommands

\* The connections somebody may still use: the caller's, then those of the call
Places == 1..(MaxHeld + 2)
InUse(p) ==
    CASE p \in Slots -> held[p]
      [] p = MaxHeld + 1 /\ ~Idle -> call.afc
      [] p = MaxHeld + 2 /\ ~Idle -> call.service
      [] OTHER -> NoConnection

\* Live: not one of StartService whose socket it has closed
Live(c) == c # NoConnection /\ ~c.stale

\* A live connection in use names an open socket of its own, to what answers at
\* the port of its service: no other live one and no lockdown_conn names it,
\* nobody has closed it, and if it was shut down that was the release of a
\* connection StartService had closed.
OwnSocket ==
    \A p \in Places : Live(InUse(p)) =>
        LET c == InUse(p) IN
        /\ file[c.fd].to = PortOf(c.service) /\ file[c.fd].shut # "owner"
        /\ c.fd # lockdown.fd
        /\ \A q \in Places \ {p} : Live(InUse(q)) => InUse(q).fd # c.fd

\* The callback of a command on a connection of its own is called with every
\* progress message of the proxy, in order and none left out, one or more times
\* each; at the end of a command that succeeds it was called with all of them.
CallbackMissesNothing ==
    call.own =>
        /\ call.heard # <<>> => call.heard[1] = 1
        /\ \A i \in 1..(Len(call.heard) - 1) :
              call.heard[i + 1] \in {call.heard[i], call.heard[i] + 1}
        /\ call.response.kind = "complete" =>
              call.response.k = LastOf(call.heard)

\* InstallApp reports success only if the proxy completed this very command,
\* and then leaves the device as it found it, with the sockets of both services
\* shut down.  The command needs a connection of its own.
InstalledMeansCompleted ==
    (Idle /\ call.op = "InstallApp" /\ call.result = "success" /\ call.own) =>
        /\ call.response.kind = "complete" /\ call.response.n = call.n
        /\ lockdown = Unlocked
        /\ call.afc = NoConnection /\ call.service = NoConnection

\* SecureStartSessionedService leaves no lockdown connection, whichever step
\* after its Connect failed, and hands out a connection if and only if it
\* reports success.
SessionedServiceStandsAlone ==
    (Idle /\ call.op = "SecureStartSessionedService" /\ call.result # "connect") =>
        /\ lockdown = Unlocked
        /\ call.result = "success" <=> call.service # NoConnection

\* A command returns if the proxy stays: only a connection lost after its first
\* message keeps perform_command in its loop.
CommandReturns ==
    Performing ~> (~Performing \/ ~Sock.up \/ Sock.to # "proxy")
=============================================================================
