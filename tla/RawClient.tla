----------------------------- MODULE RawClient -----------------------------
(***************************************************************************)
(* The client of the raw socket library (socket/Socket/Client_Socket.cpp), *)
(* built with mul_thread, and the packets the server cuts its messages     *)
(* into (Server_Socket::queueSend_new).  Three kinds of thread: the user   *)
(* of the class (log in, go on and off line, shut down), the receive       *)
(* thread, and the tasks of the thread pool.                               *)
(*                                                                         *)
(* Lengths are in units; a packet is a header of Header units and at most  *)
(* MaxPacketSize - Header units of the message, and recv is asked for      *)
(* MaxPacketSize units (1024 bytes, with a header of 20).                  *)
(***************************************************************************)
EXTENDS Integers, Sequences, FiniteSetsExt

CONSTANTS MaxPacketSize, Header,
          ChatLengths,     \* lengths of the chat messages
          LoginLength,     \* length of an answer to a login
          Messages, Chats, \* bounds: messages of the server, chat messages
          Offlines         \* onOffline may be called while connect_event is less

Payload == MaxPacketSize - Header
Ids     == 1..Messages
Count(len)  == (len + MaxPacketSize) \div MaxPacketSize  \* totalPacketCount
Packs(len)  == (len + Payload - 1) \div Payload          \* packets really sent
SizeOf(len, k) == Min({Payload, len - k * Payload})      \* of its k-th packet
Pieces(len) == {[sub |-> k, size |-> SizeOf(len, k)] : k \in 0..(Packs(len) - 1)}
Unknown == 0   \* loginStatus: nobody logged in, 1 success, -1 failure

VARIABLES
    sending,   \* server: messages whose packets are being sent
    nextId,    \* server: PACKET_ID
    asked,     \* server: logins it has to answer
    wire,      \* packets and parts of packets under way
    sock,      \* units in the socket's receive buffer
    edge,      \* epoll has not reported the last arrival
    peer,      \* what the server's side did: "up", "closed", "reset"
    isConnected, everythingDead,
    used,      \* the socket has been connected: it cannot be a second time
    connect_event, login_event, stop_event,   \* counters of the eventfds
    loginStatus,
    recvBuffer,
    stores,    \* receiveDataStores: id -> numbers of its packets that came
    tasks,     \* submitted handle_data calls
    rt,        \* the receive thread
    ui,        \* the user's thread
    verdict,   \* login -> what the server decided
    logins,    \* number of logins begun
    handled,   \* history: messages shown, with the packets they were made of
    times,     \* history: id -> how often it was submitted
    full,      \* history: a recv was satisfied in full and left units unread
    early,     \* history: the receive thread tested everythingDead between the
               \* two steps of shutdown that should wake it and tell it why
    wrong      \* history: a login returned true that the server did not accept

server == <<sending, nextId, asked, verdict>>
net    == <<wire, sock, edge, peer>>
flags  == <<isConnected, everythingDead, used>>
events == <<connect_event, login_event, stop_event>>
ghosts == <<handled, times, full, early, wrong>>
vars   == <<server, net, flags, events, loginStatus, recvBuffer, stores, tasks,
            rt, ui, logins, ghosts>>

TypeOK ==
    /\ nextId \in 1..(Messages + 1) /\ asked \in 0..Messages
    /\ peer \in {"up", "closed", "reset"} /\ edge \in BOOLEAN
    /\ isConnected \in BOOLEAN /\ everythingDead \in BOOLEAN /\ used \in BOOLEAN
    /\ connect_event \in Nat /\ login_event \in Nat /\ stop_event \in 0..1
    /\ loginStatus \in {-1, Unknown, 1}
    /\ \A id \in DOMAIN stores : id \in Ids
    /\ rt \in {"top", "off", "read", "chk", "wait", "recv", "cut", "done"}
    /\ ui \in {"free", "login", "offline", "dying", "flag", "stop", "over"}
    /\ logins \in 0..Messages

(* The constructor has tried to connect: the receive thread starts next.   *)
Init ==
    /\ isConnected \in BOOLEAN /\ used = isConnected
    /\ connect_event = (IF isConnected THEN 1 ELSE 0)
    /\ login_event = 0 /\ stop_event = 0 /\ everythingDead = FALSE
    /\ sending = {} /\ nextId = 1 /\ asked = 0 /\ verdict = <<>>
    /\ wire = <<>> /\ sock = <<>> /\ edge = FALSE /\ peer = "up"
    /\ loginStatus = Unknown /\ recvBuffer = <<>> /\ stores = <<>> /\ tasks = {}
    /\ rt = "top" /\ ui = "free" /\ logins = 0
    /\ handled = {} /\ times = [id \in Ids |-> 0]
    /\ full = FALSE /\ early = FALSE /\ wrong = FALSE

----------------------------------------------------------------------------
(* The server and the network.                                             *)

Message(kind, n, len) ==
    [id |-> nextId, kind |-> kind, n |-> n, len |-> len, sub |-> 0]

Answer ==
    /\ peer = "up" /\ used /\ asked > 0
    /\ sending' = sending \cup {Message("login", Len(verdict) + 1, LoginLength)}
    /\ \E ok \in BOOLEAN : verdict' = Append(verdict, ok)
    /\ nextId' = nextId + 1 /\ asked' = asked - 1
    /\ UNCHANGED <<net, flags, events, loginStatus, recvBuffer, stores, tasks, rt,
                   ui, logins, ghosts>>

Forward ==
    /\ peer = "up" /\ used /\ nextId + asked <= Messages
    /\ nextId - Len(verdict) <= Chats
    /\ \E len \in ChatLengths : sending' = sending \cup {Message("text", 0, len)}
    /\ nextId' = nextId + 1
    /\ UNCHANGED <<asked, verdict, net, flags, events, loginStatus, recvBuffer,
                   stores, tasks, rt, ui, logins, ghosts>>

(* One pass of the loop of queueSend_new.  Two messages may be sent at the *)
(* same time, by two workers: their packets mix, their ids tell them apart.*)
SendPacket(m) ==
    LET size == SizeOf(m.len, m.sub)
        unit == [m |-> [m EXCEPT !.sub = 0], sub |-> m.sub, size |-> size]
    IN
    /\ peer = "up"
    /\ wire' = wire \o [i \in 1..(Header + size) |-> unit]
    /\ sending' = (sending \ {m}) \cup
                  (IF m.sub + 1 = Packs(m.len) THEN {} ELSE {[m EXCEPT !.sub = @ + 1]})
    /\ UNCHANGED <<nextId, asked, verdict, sock, edge, peer, flags, events,
                   loginStatus, recvBuffer, stores, tasks, rt, ui, logins, ghosts>>

Arrive ==
    /\ peer = "up" /\ wire # <<>>
    /\ sock' = Append(sock, Head(wire)) /\ wire' = Tail(wire)
    /\ edge' = TRUE
    /\ UNCHANGED <<server, peer, flags, events, loginStatus, recvBuffer, stores,
                   tasks, rt, ui, logins, ghosts>>

(* The end of the stream comes behind what was sent, a reset at any time.  *)
PeerLeaves ==
    /\ peer = "up" /\ used
    /\ \/ peer' = "closed" /\ wire = <<>>
       \/ peer' = "reset"
    /\ edge' = TRUE /\ wire' = <<>> /\ sending' = {}
    /\ UNCHANGED <<nextId, asked, verdict, sock, flags, events, loginStatus, recvBuffer,
                   stores, tasks, rt, ui, logins, ghosts>>

----------------------------------------------------------------------------
(* The receive thread: receive_message.                                    *)

rtRest == <<server, net, flags, login_event, stop_event, loginStatus, recvBuffer,
            stores, tasks, ui, logins, handled, times, full, wrong>>

Top ==
    /\ rt = "top" /\ rt' = IF isConnected THEN "chk" ELSE "off"
    /\ UNCHANGED <<rtRest, connect_event, early>>

Off ==
    /\ rt = "off"
    /\ rt' = IF everythingDead THEN "done" ELSE "read"
    /\ early' = (early \/ ui = "flag")
    /\ UNCHANGED <<rtRest, connect_event>>

ReadConnectEvent ==
    /\ rt = "read" /\ connect_event > 0
    /\ connect_event' = 0 /\ rt' = "top"
    /\ UNCHANGED <<rtRest, early>>

CheckDead ==
    /\ rt = "chk" /\ rt' = IF everythingDead THEN "done" ELSE "wait"
    /\ UNCHANGED <<rtRest, connect_event, early>>

Stopped ==
    /\ rt = "wait" /\ stop_event > 0
    /\ stop_event' = 0 /\ rt' = "done"
    /\ UNCHANGED <<server, net, flags, connect_event, login_event, loginStatus,
                   recvBuffer, stores, tasks, ui, logins, ghosts>>

(* Edge triggered: an arrival is reported once, if there is still          *)
(* something to read.                                                      *)
Reported ==
    /\ rt = "wait" /\ edge /\ (sock # <<>> \/ peer # "up")
    /\ edge' = FALSE /\ rt' = "recv"
    /\ UNCHANGED <<server, wire, sock, peer, flags, events, loginStatus,
                   recvBuffer, stores, tasks, ui, logins, ghosts>>

(* onOffline up to the write to connect_event.                             *)
Reset ==
    /\ recvBuffer' = <<>> /\ stores' = <<>>
    /\ loginStatus' = Unknown /\ isConnected' = FALSE

(* One recv of a buffer's size, however much there is; 0 bytes, the end of *)
(* the stream, only lead back to the top.                                  *)
Receive ==
    LET n == Min({MaxPacketSize, Len(sock)}) IN
    /\ rt = "recv" /\ ~(sock = <<>> /\ peer = "reset")
    /\ recvBuffer' = recvBuffer \o SubSeq(sock, 1, n)
    /\ sock' = SubSeq(sock, n + 1, Len(sock))
    /\ full' = (full \/ Len(sock) > n)
    /\ rt' = "cut"
    /\ UNCHANGED <<server, wire, edge, peer, flags, events, loginStatus, stores,
                   tasks, ui, logins, handled, times, early, wrong>>

ReceiveFails ==
    /\ rt = "recv" /\ peer = "reset"
    /\ Reset
    /\ connect_event' = connect_event + 1
    /\ sock' = <<>> /\ rt' = "top"
    /\ UNCHANGED <<server, wire, edge, peer, everythingDead, used, login_event,
                   stop_event, tasks, ui, logins, ghosts>>

Whole == /\ Len(recvBuffer) >= Header
         /\ Len(recvBuffer) >= Header + recvBuffer[1].size

CutEnds ==
    /\ rt = "cut" /\ ~Whole /\ rt' = "top"
    /\ UNCHANGED <<rtRest, connect_event, early>>

CompleteOrMore(new, len) ==   \* mutant: >= for = in the test of the count
    /\ Cardinality(new) >= Count(len)
    /\ {x.sub : x \in new} = 0..(Cardinality(new) - 1)
Complete(new, len) == /\ Cardinality(new) = Count(len)
                      /\ {x.sub : x \in new} = 0..(Cardinality(new) - 1)

(* handle_packet: when as many packets as the header says have come, they  *)
(* are merged and handle_data is submitted.  The entry stays.              *)
handle_packet ==
    LET p == recvBuffer[1]
        old == IF p.m.id \in DOMAIN stores THEN stores[p.m.id] ELSE {}
        new == old \cup {[sub |-> p.sub, size |-> p.size]}
    IN
    /\ rt = "cut" /\ Whole
    /\ stores' = [id \in DOMAIN stores \cup {p.m.id} |->
                    IF id = p.m.id THEN new ELSE stores[id]]
    /\ recvBuffer' = SubSeq(recvBuffer, Header + p.size + 1, Len(recvBuffer))
    /\ IF Complete(new, p.m.len)
       THEN /\ tasks' = tasks \cup {[m |-> p.m, at |-> "start", packets |-> new]}
            /\ times' = [times EXCEPT ![p.m.id] = @ + 1]
       ELSE UNCHANGED <<tasks, times>>
    /\ UNCHANGED <<server, net, flags, events, loginStatus, rt, ui, logins, handled,
                   full, early, wrong>>

----------------------------------------------------------------------------
(* handle_data on a pool thread.  The size of the json part is looked up   *)
(* in the store when the task runs: after onOffline it is 0, nothing can   *)
(* be parsed, and the message is dropped.                                  *)

HandleData(t) ==
    /\ t.at = "start"
    /\ IF t.m.id \notin DOMAIN stores
       THEN tasks' = tasks \ {t} /\ UNCHANGED <<handled, loginStatus>>
       ELSE IF t.m.kind = "login"
       THEN /\ loginStatus' = IF verdict[t.m.n] THEN 1 ELSE -1
            /\ tasks' = (tasks \ {t}) \cup {[t EXCEPT !.at = "event"]}
            /\ UNCHANGED handled
       ELSE /\ handled' = handled \cup {[id |-> t.m.id, sent |-> t.m.len, shown |-> t.packets]}
            /\ tasks' = tasks \ {t} /\ UNCHANGED loginStatus
    /\ UNCHANGED <<server, net, flags, events, recvBuffer, stores, rt, ui, logins,
                   times, full, early, wrong>>

LoginEvent(t) ==
    /\ t.at = "event"
    /\ login_event' = login_event + 1 /\ tasks' = tasks \ {t}
    /\ UNCHANGED <<server, net, flags, connect_event, stop_event, loginStatus,
                   recvBuffer, stores, rt, ui, logins, ghosts>>

----------------------------------------------------------------------------
(* The user's thread.                                                      *)

uiRest == <<sending, nextId, verdict, net, recvBuffer, stores, tasks, rt,
            handled, times, full, early>>

(* login: send_to (a request reaches the server only over a connection)    *)
(* and wait_for_login, which blocks.                                       *)
login ==
    /\ ui = "free" /\ logins < Messages /\ nextId + asked <= Messages
    /\ ui' = "login" /\ logins' = logins + 1
    /\ asked' = IF used /\ peer = "up" THEN asked + 1 ELSE asked
    /\ UNCHANGED <<uiRest, flags, events, loginStatus, wrong>>

NonBlocking(n) == n >= 0   \* mutant: the eventfd made with EFD_NONBLOCK
Blocking(n) == n > 0
Accepted(n) == n \in DOMAIN verdict /\ verdict[n]

wait_for_login ==
    /\ ui = "login" /\ Blocking(login_event)
    /\ login_event' = 0 /\ ui' = "free"
    /\ wrong' = (wrong \/ (loginStatus = 1 /\ ~Accepted(logins)))
    /\ UNCHANGED <<uiRest, asked, logins, flags, connect_event, stop_event, loginStatus>>

(* A socket that has been connected once cannot be connected again.        *)
onOnline ==
    /\ ui = "free" /\ ~isConnected
    /\ \E ok \in IF used THEN {FALSE} ELSE BOOLEAN :
          /\ isConnected' = ok /\ used' = (used \/ ok)
          /\ connect_event' = connect_event + (IF ok THEN 1 ELSE 0)
    /\ UNCHANGED <<uiRest, asked, logins, everythingDead, login_event, stop_event,
                   loginStatus, ui, wrong>>

StartOffline(next) ==
    /\ ui = "free" /\ ui' = next
    /\ Reset
    /\ UNCHANGED <<server, net, everythingDead, used, events, tasks, rt, logins, ghosts>>
onOffline == connect_event < Offlines /\ StartOffline("offline")
shutdown  == StartOffline("dying")

WakeOffline ==   \* mutant: shutdown goes offline without the event
    connect_event' = connect_event + (IF ui = "offline" THEN 1 ELSE 0)
Wake == connect_event' = connect_event + 1

(* Both write connect_event, shutdown then sets the flag and stop_event.   *)
WriteConnectEvent ==
    /\ ui \in {"offline", "dying"}
    /\ Wake
    /\ ui' = IF ui = "offline" THEN "free" ELSE "flag"
    /\ UNCHANGED <<uiRest, asked, logins, flags, login_event, stop_event,
                   loginStatus, wrong>>

SetDead ==
    /\ ui = "flag" /\ ui' = "stop" /\ everythingDead' = TRUE
    /\ UNCHANGED <<uiRest, asked, logins, isConnected, used, events, loginStatus, wrong>>

WriteStopEvent ==
    /\ ui = "stop" /\ ui' = "over" /\ stop_event' = 1
    /\ UNCHANGED <<uiRest, asked, logins, flags, connect_event, login_event,
                   loginStatus, wrong>>

Next ==
    \/ Answer \/ Forward \/ (\E m \in sending : SendPacket(m)) \/ Arrive \/ PeerLeaves
    \/ Top \/ Off \/ ReadConnectEvent \/ CheckDead \/ Stopped \/ Reported
    \/ Receive \/ ReceiveFails \/ CutEnds \/ handle_packet
    \/ (\E t \in tasks : HandleData(t) \/ LoginEvent(t))
    \/ login \/ wait_for_login \/ onOnline \/ onOffline \/ shutdown
    \/ WriteConnectEvent \/ SetDead \/ WriteStopEvent

Spec == Init /\ [][Next]_vars

----------------------------------------------------------------------------
(* However the stream is cut and the packets of two messages are mixed, a  *)
(* message is submitted once, and shown made of all its packets; packets   *)
(* are missing only when totalPacketCount, computed with MaxPacketSize     *)
(* instead of the payload, is less than the number of packets sent.        *)
MessagesWhole ==
    /\ \A id \in Ids : times[id] <= 1
    /\ \A h \in handled : h.shown = Pieces(h.sent) \/ Count(h.sent) < Packs(h.sent)

(* login() returns true only if the server accepted this very login,       *)
(* although its answer is handled on a pool thread and the connection may  *)
(* go down under it.                                                       *)
LoginHonest == ~wrong

(* The receive thread sleeps on connect_event after everythingDead was set *)
(* for ever only if it tested the flag after shutdown wrote the event and  *)
(* before it set the flag; and it waits in epoll with units to read only   *)
(* if a recv of one buffer's size once left some behind.                   *)
SleepExplained ==
    /\ (rt = "read" /\ connect_event = 0 /\ everythingDead) => early
    /\ (rt = "wait" /\ ~edge /\ sock # <<>>) => full
=============================================================================
