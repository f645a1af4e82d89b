------------------------------ MODULE Lockdown ------------------------------
(***************************************************************************)
(* One SDMMD_AMDevice and the lockdownd it talks to: the calls of the      *)
(* public interface that connect, pair, open a session and exchange        *)
(* requests, over one socket at a time, with the pairing record on disk.   *)
(*                                                                         *)
(* The calls are made one after the other.  mutex_lock is passed by value, *)
(* so it orders nothing and the program has to.  A request is one frame    *)
(* and so is its reply; every reply bears the number of its request, which *)
(* the wire does not carry and the code cannot see.                        *)
(*                                                                         *)
(* A call turned away before it changes anything (the device is inactive,  *)
(* an argument or the record is missing) is a stuttering step: it is an    *)
(* action only where a property looks at what it returned.                 *)
(***************************************************************************)
EXTENDS Naturals, Sequences

CONSTANTS
    MaxSockets,  \* bound: sockets that exist at a time
    MaxRequests  \* bound: requests ever sent

ASSUME BoundsAssumption ==
    /\ MaxSockets \in Nat
    /\ MaxRequests \in Nat /\ MaxRequests >= 1

VARIABLES
    attached,   \* the device's attachment this object was made for lasts
    listed,     \* its device_id is in the listener's deviceList
    device,     \* the SDMMD_AMDevice object
    call,       \* the call in progress, or what the last one returned
    link,       \* link[s]: both ends of socket s
    sent,       \* how many requests were sent
    record,     \* the pairing record on disk
    trusted,    \* pairings the device honours
    accepted    \* pairings the device ever accepted

vars == <<attached, listed, device, call, link, sent, record, trusted, accepted>>

Sockets == 1..MaxSockets
Requests == 1..MaxRequests
None == 0   \* nil: no socket, no session, no record

----------------------------------------------------------------------------
(* Requests and replies.                                                   *)

\* Calls of one request whose reply is only looked at for an error
PlainCalls == {"SetValue", "Activate", "ValidatePairing", "Unpair"}

\* A pairing is named by the number of the Pair request that made it
Request(kind, about) ==
    [n |-> sent + 1, kind |-> kind, about |-> about, tls |-> device.ssl]

\* The replies lockdownd may give.  "other" is the Type of another daemon.
Verdicts(kind) ==
    {"good", "error"} \cup (IF kind = "QueryType" THEN {"other"} ELSE {})

Reply(q, verdict, tls) ==
    [n |-> q.n, kind |-> q.kind, verdict |-> verdict, tls |-> tls]

\* What a receive that fails returns: an error code and an empty dictionary
NoReply == [n |-> 0, kind |-> "none", verdict |-> "failed", tls |-> FALSE]

Good(a, kind) == a.verdict = "good" /\ a.kind = kind

\* Mutant of NoError: any reply will do
AnyReply(a) == a.verdict # "failed"

\* No Error key: all that SDMMD__ErrorHandler and StopSession look for
NoError(a) == a.verdict \in {"good", "other"}

\* A connection: the host's descriptor, lockdownd's end, the requests and
\* replies under way, whether lockdownd speaks TLS ("await" is between its
\* reply to StartSession and the handshake), its session, and how many
\* receives gave up on this connection.
Silent(isOpen, isUp) ==
    [open |-> isOpen, up |-> isUp, req |-> <<>>, rep |-> <<>>,
     mode |-> "plain", session |-> None, late |-> 0]

\* What a connect that is refused leaves: the host's socket, still open
Refused == [Silent(TRUE, FALSE) EXCEPT !.mode = "refused"]

\* socket(2) takes the lowest descriptor that is free
Free(s) == ~link[s].open /\ ~link[s].up
NextFree(s) == Free(s) /\ \A r \in 1..(s - 1) : ~Free(r)

\* lockconn_send_message: what ServiceSend returns is ignored
Sent(l, q) == IF l.up THEN [l EXCEPT !.req = Append(@, q)] ELSE l

\* Mutant of Receipts: waits for as long as the connection lasts
PatientReceipts(l) ==
    IF l.rep # <<>>
    THEN {[reply |-> Head(l.rep), link |-> [l EXCEPT !.rep = Tail(@)]]}
    ELSE IF l.up THEN {} ELSE {[reply |-> NoReply, link |-> l]}

\* lockconn_receive_message on a connection: the replies it may return, each
\* with the connection it leaves.  A frame of the other encryption is noise
\* that takes what follows it along.  Nothing to read is the end of the
\* stream, or 10 seconds of silence after which the reply may yet come.
Receipts(l) ==
    IF l.rep # <<>>
    THEN IF Head(l.rep).tls = device.ssl
         THEN {[reply |-> Head(l.rep), link |-> [l EXCEPT !.rep = Tail(@)]]}
         ELSE {[reply |-> NoReply,
                link |-> [l EXCEPT !.rep = <<>>, !.late = @ + 1]]}
    ELSE {[reply |-> NoReply,
           link |-> IF l.up THEN [l EXCEPT !.late = @ + 1] ELSE l]}

----------------------------------------------------------------------------
(* The device object and the call in progress.                             *)

NewDevice == [active |-> TRUE, conn |-> None, ssl |-> FALSE, session |-> None]

Idle == call.op = "none"

\* A call that waits for the reply to the request it is sending
Waiting(op, at, about) ==
    [op |-> op, at |-> at, want |-> sent + 1, about |-> about,
     result |-> "none", got |-> 0]

NoCall == [op |-> "none", at |-> "none", want |-> 0, about |-> None,
           result |-> "none", got |-> 0]

\* Between calls: the last call and what it returned
Returned(op, result) == [NoCall EXCEPT !.at = op, !.result = result]
Return(op, result) == call' = Returned(op, result)

At(op, at) == call.op = op /\ call.at = at

NoRecord == [id |-> None, clean |-> TRUE]

Conn == link[device.conn]
Connected == device.conn # None

\* The bound of the model: requests a call may still have to send
Room(k) == sent + k <= MaxRequests

\* Puts a request on connection l of the device and waits for the reply
Ask(l, op, at, kind, about) ==
    /\ link' = [link EXCEPT ![device.conn] = Sent(l, Request(kind, about))]
    /\ sent' = sent + 1
    /\ call' = Waiting(op, at, about)

\* Takes what a receive returned off the connection
Take(r) == link' = [link EXCEPT ![device.conn] = r.link]

\* SDMMD_AMDeviceIsValid: a device that is not listed is inactive for good
Validated == [device EXCEPT !.active = @ /\ listed]
IsValid == device.active /\ listed

\* Mutant of Disconnected: keeps the session
DisconnectedInSession == [device EXCEPT !.conn = None, !.ssl = FALSE]

\* SDMMD_AMDeviceDisconnect
Disconnected == [device EXCEPT !.conn = None, !.ssl = FALSE, !.session = None]
\* Mutant of Closed: lockdown_conn is set to nil and its socket stays open
NotClosed == link

Closed ==
    IF Connected
    THEN [link EXCEPT ![device.conn].open = FALSE, ![device.conn].rep = <<>>]
    ELSE link

\* The process ends, which closes its sockets, and is started anew with the
\* device attached (again)
Restarted ==
    /\ attached' = TRUE
    /\ listed' = TRUE
    /\ device' = NewDevice
    /\ call' = NoCall
    /\ link' = [s \in Sockets |-> [link[s] EXCEPT !.open = FALSE, !.rep = <<>>]]
    /\ UNCHANGED <<sent, record, trusted, accepted>>

\* There may be a record, of a pairing made earlier as request 1, which the
\* device may have forgotten since
Init ==
    /\ attached = TRUE
    /\ listed = TRUE
    /\ device = NewDevice
    /\ call = NoCall
    /\ link = [s \in Sockets |-> Silent(FALSE, FALSE)]
    /\ \/ sent = 0 /\ record = NoRecord /\ accepted = {} /\ trusted = {}
       \/ /\ sent = 1 /\ record = [id |-> 1, clean |-> TRUE]
          /\ accepted = {1} /\ trusted \in SUBSET {1}

outside == <<attached, listed, trusted, accepted>>

----------------------------------------------------------------------------
(* lockdownd, usbmuxd and the listener.                                    *)

\* lockdownd answers the first request of socket s.  A frame it cannot
\* decode, or one in place of the handshake, makes it hang up.
Serve(s) ==
    LET l == link[s] q == Head(l.req) IN
    /\ l.up /\ l.req # <<>>
    /\ IF l.mode = "await" \/ q.tls # (l.mode = "tls")
       THEN /\ link' = [link EXCEPT ![s].up = FALSE, ![s].req = <<>>]
            /\ UNCHANGED <<trusted, accepted>>
       ELSE \E verdict \in Verdicts(q.kind) :
            LET good == verdict = "good"
                answered == [l EXCEPT
                    !.req = Tail(@),
                    !.rep = IF l.open THEN Append(@, Reply(q, verdict, q.tls)) ELSE @]
            IN  /\ good /\ q.kind \in {"ValidatePairing", "StartSession", "Unpair"}
                        => q.about \in trusted
                /\ good /\ q.kind = "StartSession" => l.session = None
                /\ good /\ q.kind = "StopSession" => l.session = q.about
                /\ link' = [link EXCEPT ![s] =
                    IF good /\ q.kind = "StartSession"
                    THEN [answered EXCEPT !.mode = "await", !.session = q.n]
                    ELSE IF good /\ q.kind = "StopSession"
                         THEN [answered EXCEPT !.mode = "plain", !.session = None]
                         ELSE answered]
                /\ trusted' = IF good /\ q.kind = "Pair" THEN trusted \cup {q.n}
                              ELSE IF good /\ q.kind = "Unpair" THEN trusted \ {q.about}
                              ELSE trusted
                /\ accepted' = accepted \cup trusted'
    /\ UNCHANGED <<attached, listed, device, call, sent, record>>

\* lockdownd hangs up, on its own or because the host did
Hangup(s) ==
    /\ link[s].up
    /\ link' = [link EXCEPT ![s].up = FALSE, ![s].req = <<>>]
    /\ UNCHANGED <<outside, device, call, sent, record>>

Unplug ==
    /\ attached
    /\ attached' = FALSE
    /\ link' = [s \in Sockets |-> [link[s] EXCEPT !.up = FALSE, !.req = <<>>]]
    /\ UNCHANGED <<listed, device, call, sent, record, trusted, accepted>>

\* The listener's detachedCallback:
Delist ==
    /\ listed /\ ~attached
    /\ listed' = FALSE
    /\ UNCHANGED <<attached, device, call, link, sent, record, trusted, accepted>>

\* The process is killed, at any point of any call
Restart == Restarted

----------------------------------------------------------------------------
(* Connect, Disconnect, IsValid.                                           *)

\* SDMMD__connect_to_port
ConnectToPort(op) ==
    \E s \in Sockets :
        /\ attached /\ NextFree(s)
        /\ device' = [device EXCEPT !.conn = s, !.ssl = FALSE]
        /\ link' = [link EXCEPT ![s] =
            Sent(Silent(TRUE, TRUE),
                 [n |-> sent + 1, kind |-> "QueryType", about |-> None, tls |-> FALSE])]
        /\ sent' = sent + 1
        /\ call' = Waiting(op, "daemon", None)

\* The way out of connect_to_port that is taken when usbmuxd or the device
\* refuses: close(2) is called if sock is -1, which is when there is none.
\* The socket is left open, unless usbmuxd itself could not be reached.
RefusedToPort ==
    \/ link' = link
    \/ \E s \in Sockets : NextFree(s) /\ link' = [link EXCEPT ![s] = Refused]

\* Connect opens a socket and asks lockdownd for its name
CallConnect ==
    /\ Idle /\ device.active /\ ~Connected /\ Room(1)
    /\ ConnectToPort("Connect")
    /\ UNCHANGED <<outside, record>>

ConnectRefused ==
    /\ Idle /\ device.active /\ ~Connected
    /\ RefusedToPort
    /\ Return("Connect", "Disconnected")
    /\ UNCHANGED <<outside, device, sent, record>>

\* Connect of a device that is connected never succeeds
ConnectAgain ==
    /\ Idle /\ device.active /\ Connected
    /\ device' = IF IsValid THEN device ELSE [Disconnected EXCEPT !.active = FALSE]
    /\ link' = IF IsValid THEN link ELSE Closed
    /\ Return("Connect", "Disconnected")
    /\ UNCHANGED <<outside, sent, record>>

\* Connect, called by the program or to replace a connection whose handshake
\* failed, ends with the daemon's name.  Only a wrong name closes the socket.
\* StartSession does not look at what Connect returned.
ConnectEnds ==
    /\ call.at = "daemon"
    /\ \E r \in Receipts(Conn) :
        /\ IF r.reply.verdict = "other"
           THEN device' = Disconnected /\ link' = Closed
           ELSE device' = device /\ Take(r)
        /\ Return(call.op, IF call.op = "Connect" /\ Good(r.reply, "QueryType")
                           THEN "success" ELSE "failed")
    /\ UNCHANGED <<outside, sent, record>>

CallDisconnect ==
    /\ Idle
    /\ device' = Disconnected
    /\ link' = Closed
    /\ Return("Disconnect", "success")
    /\ UNCHANGED <<outside, sent, record>>

CallIsValid ==
    /\ Idle
    /\ device' = Validated
    /\ Return("IsValid", IF IsValid THEN "success" ELSE "failed")
    /\ UNCHANGED <<outside, link, sent, record>>

----------------------------------------------------------------------------
(* Calls of one request.                                                   *)

CallCopyValue ==
    /\ Idle /\ device.active /\ Connected /\ Room(1)
    /\ Ask(Conn, "CopyValue", "value", "GetValue", None)
    /\ UNCHANGED <<outside, device, record>>

\* A reply without Error and without Value: CFRetain(NULL) ends the process
Valueless(a) == NoError(a) /\ a.kind # "GetValue"

CopyValueEnds ==
    /\ At("CopyValue", "value")
    /\ \E r \in Receipts(Conn) :
        IF Valueless(r.reply)
        THEN Restarted
        ELSE /\ Take(r)
             /\ call' = IF Good(r.reply, "GetValue")
                        THEN [Returned("CopyValue", "success") EXCEPT
                                !.want = call.want, !.got = r.reply.n]
                        ELSE Returned("CopyValue", "failed")
             /\ UNCHANGED <<outside, device, sent, record>>

\* SetValue, Activate and Deactivate, ValidatePairing, Unpair.  The last two
\* need the record, and Unpair removes it first, before it tells the device.
CallPlain(op) ==
    LET needsRecord == op \in {"ValidatePairing", "Unpair"} IN
    /\ Idle /\ device.active
    /\ needsRecord => record.id # None
    /\ record' = IF op = "Unpair" THEN NoRecord ELSE record
    /\ IF Connected
       THEN /\ Room(1)
            /\ Ask(Conn, op, "reply", op, IF needsRecord THEN record.id ELSE None)
            /\ device' = device
       ELSE \* Activate and Deactivate find out in lockconn_send_message
            /\ device' = IF op = "Activate" THEN Validated ELSE device
            /\ Return(op, "failed")
            /\ UNCHANGED <<link, sent>>
    /\ UNCHANGED outside

PlainEnds(op) ==
    /\ At(op, "reply")
    /\ \E r \in Receipts(Conn) :
        /\ Take(r)
        /\ call' = IF NoError(r.reply)
                   THEN [Returned(op, "success") EXCEPT !.about = call.about]
                   ELSE Returned(op, "failed")
    /\ UNCHANGED <<outside, device, sent, record>>

----------------------------------------------------------------------------
(* StartSession and StopSession.                                           *)

\* The record is read, and stored again with the host's BUID
CallStartSession ==
    /\ Idle /\ device.active /\ Connected /\ record.id # None /\ Room(2)
    /\ Ask(Conn, "StartSession", "session", "StartSession", record.id)
    /\ UNCHANGED <<outside, device, record>>

\* There is no record, it cannot be stored again, or there is no connection:
\* the session stays as it is
StartSessionLacksRecord ==
    /\ Idle /\ device.active
    /\ Return("StartSession", "failed")
    /\ UNCHANGED <<outside, device, link, sent, record>>

\* SSL_do_handshake can succeed if lockdownd expects it next
MayShakeHands(l) == l.up /\ l.mode = "await" /\ l.req = <<>> /\ l.rep = <<>>

SessionOpens ==
    /\ At("StartSession", "session")
    /\ \E r \in Receipts(Conn) :
        /\ Good(r.reply, "StartSession") /\ MayShakeHands(r.link)
        /\ link' = [link EXCEPT ![device.conn] = [r.link EXCEPT !.mode = "tls"]]
        /\ device' = [device EXCEPT !.ssl = TRUE, !.session = r.reply.n]
    /\ call' = [call EXCEPT !.at = "bag"]
    /\ UNCHANGED <<outside, sent, record>>

\* Any other reply, or none: session is nil, even if there was one
SessionFails ==
    /\ At("StartSession", "session")
    /\ \E r \in Receipts(Conn) : ~Good(r.reply, "StartSession") /\ Take(r)
    /\ device' = [device EXCEPT !.session = None]
    /\ Return("StartSession", "failed")
    /\ UNCHANGED <<outside, sent, record>>

\* Mutant of HandshakeFails: disconnects and reads on
HandshakeReadsOn ==
    /\ At("StartSession", "session")
    /\ \E r \in Receipts(Conn) : Good(r.reply, "StartSession")
    /\ device' = Disconnected
    /\ link' = Closed
    /\ UNCHANGED <<call, outside, sent, record>>

\* The handshake fails: Disconnect and Connect, unless the device is gone
HandshakeFails ==
    /\ At("StartSession", "session")
    /\ \E r \in Receipts(Conn) :
        /\ Good(r.reply, "StartSession")
        /\ IF IsValid
           THEN /\ device' = Disconnected
                /\ link' = Closed
                /\ call' = [call EXCEPT !.at = "reconnect"]
           ELSE /\ device' = [Validated EXCEPT !.session = None]
                /\ Take(r)
                /\ Return("StartSession", "failed")
    /\ UNCHANGED <<outside, sent, record>>

Reconnect ==
    /\ At("StartSession", "reconnect")
    /\ ConnectToPort("StartSession")
    /\ UNCHANGED <<outside, record>>

ReconnectRefused ==
    /\ At("StartSession", "reconnect")
    /\ RefusedToPort
    /\ Return("StartSession", "failed")
    /\ UNCHANGED <<outside, device, sent, record>>

\* Mutant of CopyBag: asks for the address and does not wait for the reply
CopyBagNoWait ==
    /\ At("StartSession", "bag")
    /\ link' = [link EXCEPT ![device.conn] = Sent(@, Request("GetValue", None))]
    /\ sent' = sent + 1
    /\ Return("StartSession", "success")
    /\ UNCHANGED <<outside, device, record>>

\* SDMMD__CopyEscrowBag: a record without WiFiMACAddress asks for it
CopyBag ==
    /\ At("StartSession", "bag")
    /\ \/ /\ Return("StartSession", "success")
          /\ UNCHANGED <<link, sent>>
       \/ Ask(Conn, "StartSession", "wifi", "GetValue", None)
    /\ UNCHANGED <<outside, device, record>>

BagEnds ==
    /\ At("StartSession", "wifi")
    /\ \E r \in Receipts(Conn) :
        IF Valueless(r.reply)
        THEN Restarted
        ELSE /\ Take(r)
             /\ Return("StartSession", "success")
             /\ UNCHANGED <<outside, device, sent, record>>

CallStopSession ==
    /\ Idle /\ device.active /\ device.session # None /\ Connected /\ Room(1)
    /\ Ask(Conn, "StopSession", "stopped", "StopSession", device.session)
    /\ UNCHANGED <<outside, device, record>>

StopSessionHasNone ==
    /\ Idle /\ device.active /\ device.session = None
    /\ Return("StopSession", "SessionInactive")
    /\ UNCHANGED <<outside, device, link, sent, record>>

StopSessionEnds ==
    /\ At("StopSession", "stopped")
    /\ \E r \in Receipts(Conn) :
        /\ Take(r)
        /\ device' = [device EXCEPT !.session = None,
                                    !.ssl = @ /\ ~NoError(r.reply)]
        /\ Return("StopSession", IF NoError(r.reply) THEN "success" ELSE "failed")
    /\ UNCHANGED <<outside, sent, record>>

----------------------------------------------------------------------------
(* Pair: two values of the device, the Pair request, the record.           *)

\* SDMMD_AMDevicePair asks for the record only
PairHasRecord ==
    /\ Idle /\ record.id # None
    /\ Return("Pair", "success")
    /\ UNCHANGED <<outside, device, link, sent, record>>

CallPair ==
    /\ Idle /\ device.active
    /\ IF Connected
       THEN Room(3) /\ Ask(Conn, "Pair", "wifi", "GetValue", None)
       ELSE Return("Pair", "failed") /\ UNCHANGED <<link, sent>>
    /\ UNCHANGED <<outside, device, record>>

PairAsksKey ==
    /\ At("Pair", "wifi")
    /\ \E r \in Receipts(Conn) :
        IF Valueless(r.reply)
        THEN Restarted
        ELSE /\ Ask(r.link, "Pair", "key", "GetValue", None)
             /\ UNCHANGED <<outside, device, record>>

\* Mutant of PairSends: stores the record before the device has accepted it
PairStoresFirst ==
    /\ At("Pair", "key")
    /\ \E r \in Receipts(Conn) :
        /\ Good(r.reply, "GetValue")
        /\ Ask(r.link, "Pair", "paired", "Pair", None)
    /\ record' = [id |-> sent + 1, clean |-> TRUE]
    /\ UNCHANGED <<outside, device>>

\* A value of the wrong type ends the call as a missing one does
PairSends ==
    /\ At("Pair", "key")
    /\ \E r \in Receipts(Conn) :
        /\ Good(r.reply, "GetValue")
        /\ Ask(r.link, "Pair", "paired", "Pair", None)
    /\ UNCHANGED <<outside, device, record>>

PairLacksKey ==
    /\ At("Pair", "key")
    /\ \E r \in Receipts(Conn) :
        IF Valueless(r.reply)
        THEN Restarted
        ELSE /\ Take(r)
             /\ Return("Pair", "failed")
             /\ UNCHANGED <<outside, device, sent, record>>

\* SDMMD_store_dict: the file is replaced as a whole.  A failed write leaves
\* it alone and is not reported if there is a file.
PairStores ==
    /\ At("Pair", "paired")
    /\ \E r \in Receipts(Conn) :
        /\ Good(r.reply, "Pair")
        /\ Take(r)
        /\ \/ /\ record' = [id |-> call.want, clean |-> r.link.late = 0]
              /\ Return("Pair", "success")
           \/ /\ record' = record
              /\ Return("Pair", IF record.id # None THEN "success" ELSE "failed")
    /\ UNCHANGED <<outside, device, sent>>

\* No reply, an error, a reply without EscrowBag, a file that cannot be opened
PairFails ==
    /\ At("Pair", "paired")
    /\ \E r \in Receipts(Conn) : Take(r)
    /\ Return("Pair", "failed")
    /\ UNCHANGED <<outside, device, sent, record>>

----------------------------------------------------------------------------
CallStep ==
    \/ CallConnect \/ ConnectRefused \/ ConnectAgain \/ CallDisconnect
    \/ CallIsValid \/ CallCopyValue \/ (\E op \in PlainCalls : CallPlain(op))
    \/ CallStartSession \/ StartSessionLacksRecord
    \/ CallStopSession \/ StopSessionHasNone \/ PairHasRecord \/ CallPair

EndStep ==
    \/ ConnectEnds \/ CopyValueEnds \/ (\E op \in PlainCalls : PlainEnds(op))
    \/ SessionOpens \/ SessionFails \/ HandshakeFails
    \/ Reconnect \/ ReconnectRefused \/ CopyBag \/ BagEnds \/ StopSessionEnds
    \/ PairAsksKey \/ PairSends \/ PairLacksKey \/ PairStores \/ PairFails

OutsideStep ==
    \/ (\E s \in Sockets : Serve(s) \/ Hangup(s)) \/ Unplug \/ Delist \/ Restart

Next == CallStep \/ EndStep \/ OutsideStep

Spec == Init /\ [][Next]_vars

\* A call that has begun runs on: select(2) and SO_RCVTIMEO bound each wait.
\* Nothing is asked of lockdownd, and the program need not call.
FairSpec == Spec /\ WF_vars(EndStep)

----------------------------------------------------------------------------
Ops == {"Connect", "CopyValue", "StartSession", "StopSession", "Pair",
        "Disconnect", "IsValid"} \cup PlainCalls

Places == {"none", "daemon", "value", "reply", "session", "reconnect", "bag",
           "wifi", "stopped", "key", "paired"}

Kinds == {"QueryType", "GetValue", "StartSession", "StopSession", "Pair"}
             \cup PlainCalls

Numbers == 0..MaxRequests

Requested == [n : Requests, kind : Kinds, about : Numbers, tls : BOOLEAN]
Replied == [n : Requests, kind : Kinds, verdict : {"good", "error", "other"},
            tls : BOOLEAN]

\* The state's type, and: a call that waits has a connection to wait on.
TypeOK ==
    /\ attached \in BOOLEAN /\ listed \in BOOLEAN
    /\ device \in [active : BOOLEAN, conn : 0..MaxSockets, ssl : BOOLEAN,
                   session : Numbers]
    /\ call \in [op : Ops \cup {"none"}, at : Ops \cup Places, want : Numbers,
                 about : Numbers,
                 result : {"none", "success", "failed", "Disconnected", "SessionInactive"},
                 got : Numbers]
    /\ DOMAIN link = Sockets
    /\ \A s \in Sockets :
        /\ link[s] \in [open : BOOLEAN, up : BOOLEAN, req : Seq(Requested),
                        rep : Seq(Replied), mode : {"plain", "await", "tls", "refused"},
                        session : Numbers, late : Nat]
    /\ sent \in Numbers
    /\ record \in [id : Numbers, clean : BOOLEAN]
    /\ trusted \subseteq Requests /\ accepted \subseteq Requests
    /\ ~Idle /\ call.at \notin {"reconnect"} => Connected

\* As long as no receive gave up on the connection, a call reads the reply to
\* its own request, and nothing is left for the next call: lockdown's protocol
\* has no request numbers, so every path that sends has to receive.
RepliesInStep ==
    Connected /\ Conn.late = 0 =>
        LET pending == Conn.req \o Conn.rep IN
        IF Idle \/ call.at \in {"bag", "reconnect"} THEN pending = <<>>
        ELSE Len(pending) <= 1 /\ \A i \in 1..Len(pending) : pending[i].n = call.want

\* Between calls, a session the device object holds is the one lockdownd has
\* open on this very connection, and both ends of it speak TLS: StartSession,
\* StopSession, Disconnect and the reconnection after a failed handshake keep
\* the two ends together, unless a reply came late or lockdownd hung up.
SessionIsLockdownds ==
    Idle /\ device.session # None =>
        /\ Connected
        /\ Conn.up /\ Conn.late = 0 =>
            device.ssl /\ Conn.mode = "tls" /\ Conn.session = device.session

\* Of the sockets that reached lockdownd only that of lockdown_conn is open:
\* a Connect that fails later, a handshake that fails and a Disconnect leave
\* none behind.  Sockets whose connect was refused do stay open, and nothing
\* but the end of the process closes them; the device object never holds one.
OneConnection ==
    /\ \A s \in Sockets : link[s].open /\ link[s].mode # "refused" => s = device.conn
    /\ Connected => Conn.open /\ Conn.mode # "refused"

\* A pairing record on disk is one the device accepted, wherever the process
\* was killed or a store failed, unless its Pair reply may have been another's.
RecordIsAccepted ==
    record.id # None /\ record.clean => record.id \in accepted

\* What Unpair and ValidatePairing report of the pairing is so, on a
\* connection where no reply came late.
PairingAnswersHold ==
    (Idle /\ call.result = "success" /\ Connected /\ Conn.late = 0) =>
        /\ call.at = "Unpair" => call.about \notin trusted
        /\ call.at = "ValidatePairing" => call.about \in trusted

\* Every call returns, whatever lockdownd does.
CallsReturn == ~Idle ~> Idle

\* SDMMD_AMDevice.h:210: CopyValue "Fetchs data associated with a particular
\* device key": a value it returns is the reply to its own request.
ValueIsTheOneAsked ==
    (Idle /\ call.at = "CopyValue" /\ call.result = "success") => call.got = call.want
=============================================================================
