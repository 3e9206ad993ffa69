----------------------------- MODULE RawServer -----------------------------
(***************************************************************************)
(* The epoll server of the raw socket library (socket/Socket/              *)
(* Server_Socket.cpp), built with mul_thread: the thread in run() hands    *)
(* every event to the thread pool, whose workers accept connections, read, *)
(* cut the stream into descriptor, header and body, log users in and       *)
(* forward chat messages.                                                  *)
(*                                                                         *)
(* A descriptor is a number and the kernel gives out the lowest free one.  *)
(* Every accepted connection also takes the two eventfds of its            *)
(* Client_Socket, which nobody closes.  Number 0 stands for the -1 of a    *)
(* failed accept.                                                          *)
(***************************************************************************)
EXTENDS Integers, Sequences, FiniteSetsExt, TLC

CONSTANTS Conns,      \* connections clients make, each at most once
          Users,      \* user names
          Workers,    \* threads of the pool
          Limits,     \* possible numbers of free descriptors at start-up
          Packets,    \* packets a forwarded message is cut into
          Msgs,       \* messages clients may send, all connections together
          HangUps,    \* clients that may hang up
          None        \* no connection, no user

ASSUME RawServerAssumption ==
    /\ Limits \subseteq Nat \ {0} /\ IsFiniteSet(Limits) /\ Limits # {}
    /\ Packets \in Nat \ {0} /\ Msgs \in Nat /\ HangUps \in Nat
    /\ None \notin Conns \cup Users

Fds     == UNION {1..n : n \in Limits}
Failed  == 0
Keys    == {Failed} \cup Fds
(* A message: its header (kind, user it names) and whether a body follows. *)
Headers == [t : {"login"}, u : Users, body : {FALSE}]
      \cup [t : {"chat"}, u : Users, body : BOOLEAN]
      \cup [t : {"bad"}, u : {None}, body : {FALSE}]
NoHeader == [t |-> "none", u |-> None, body |-> FALSE]
Parts(h) == LET part(k) == [k |-> k, h |-> h]
            IN IF h.body THEN <<part("desc"), part("header"), part("body")>>
                         ELSE <<part("desc"), part("header")>>

VARIABLES
    limit,    \* descriptors of the process
    backlog,  \* connections the kernel has completed and accept has not taken
    edge,     \* the listening socket has an event epoll has not reported
    left,     \* conn -> parts of the message being sent that are still to come
    inbox,    \* conn -> parts in the socket's receive buffer
    gone,     \* connections whose client has hung up
    sent,     \* number of messages begun
    tasks,    \* events submitted to the pool, Failed standing for the listener
    conn,     \* fd -> connection it is open on, or None
    leaked,   \* eventfds of Client_Sockets
    clients,  \* keys of the table of connected clients
    armed,    \* fds epoll would report
    buf,      \* fd -> recvBuffer
    data,     \* fd -> clientsData: the state of the framing
    fd_name, name_fd, online,
    owner,    \* history: user -> the connection it logged in on last
    stuck,    \* clients_mutex is locked for ever
    pc,       \* worker -> what it does
    crashed,  \* a null Client_Socket was used
    threw,    \* history: connections whose handler was left by an exception
    failures, \* history: number of accepts that failed
    dropped,  \* history: connections the server closed
    pulled,   \* history: the server closed a connection that a worker had in
              \* hand or whose event was with the pool
    strays    \* history: packets that reached another connection than meant

kernel == <<limit, backlog, edge, left, inbox, gone, sent>>
tables == <<fd_name, name_fd, online, owner>>
table  == <<conn, leaked, clients, armed>>
stream == <<buf, data>>
ghosts == <<threw, failures, dropped, pulled, strays>>
vars   == <<kernel, tasks, table, stream, tables, stuck, pc, crashed, ghosts>>

Idle == [at |-> "idle", fd |-> Failed, to |-> Failed, n |-> 0, meant |-> None]
Ready == [state |-> "desc", hdr |-> NoHeader]

TypeOK ==
    /\ limit \in Limits /\ backlog \in Seq(Conns) /\ edge \in BOOLEAN
    /\ gone \subseteq Conns /\ sent \in 0..Msgs
    /\ tasks \in Seq(Keys)
    /\ conn \in [Fds -> Conns \cup {None}] /\ leaked \subseteq 1..limit
    /\ clients \subseteq Keys /\ armed \subseteq Fds
    /\ data \in [Fds -> [state : {"desc", "header", "body", "never"},
                         hdr : Headers \cup {NoHeader}]]
    /\ fd_name \in [Fds -> Users \cup {None}]
    /\ name_fd \in [Users -> Keys] /\ online \subseteq Users
    /\ stuck \in BOOLEAN /\ crashed \in BOOLEAN
    /\ \A w \in Workers : pc[w].at \in {"idle", "accept", "add", "recv",
           "parse", "send", "del", "erase", "sent", "rearm", "lock"}
    /\ pulled \in BOOLEAN /\ dropped \subseteq Conns /\ threw \subseteq Conns

Init ==
    /\ limit \in Limits /\ backlog = <<>> /\ edge = FALSE
    /\ left = [c \in Conns |-> <<>>] /\ inbox = [c \in Conns |-> <<>>]
    /\ gone = {} /\ sent = 0 /\ tasks = <<>>
    /\ conn = [f \in Fds |-> None] /\ leaked = {} /\ clients = {}
    /\ armed = {} /\ buf = [f \in Fds |-> <<>>]
    /\ data = [f \in Fds |-> Ready]
    /\ fd_name = [f \in Fds |-> None] /\ name_fd = [u \in Users |-> Failed]
    /\ online = {} /\ owner = [u \in Users |-> None] /\ stuck = FALSE /\ crashed = FALSE
    /\ pc = [w \in Workers |-> Idle]
    /\ threw = {} /\ failures = 0 /\ dropped = {} /\ pulled = FALSE /\ strays = {}

Open     == {f \in Fds : conn[f] # None}
Free     == (1..limit) \ (Open \cup leaked)
Known    == {conn[f] : f \in Open} \cup dropped \cup {backlog[i] : i \in DOMAIN backlog}
Step(w, at) == pc' = [pc EXCEPT ![w].at = at]
Return(w)   == pc' = [pc EXCEPT ![w] = Idle]

----------------------------------------------------------------------------
(* The clients and the kernel.                                             *)

Connect(c) ==
    /\ ~crashed /\ c \notin Known
    /\ backlog' = Append(backlog, c) /\ edge' = TRUE
    /\ UNCHANGED <<limit, left, inbox, gone, sent, tasks, table, stream,
                   tables, stuck, pc, crashed, ghosts>>

(* The next part of a message arrives; TCP may cut the stream between any  *)
(* two of them.                                                            *)
ClientSends(c) ==
    /\ ~crashed /\ c \in Known \ (gone \cup dropped)
    /\ \/ /\ left[c] # <<>>
          /\ inbox' = [inbox EXCEPT ![c] = Append(@, Head(left[c]))]
          /\ left' = [left EXCEPT ![c] = Tail(@)]
          /\ UNCHANGED sent
       \/ /\ left[c] = <<>> /\ sent < Msgs
          /\ \E h \in Headers :
                /\ inbox' = [inbox EXCEPT ![c] = Append(@, Head(Parts(h)))]
                /\ left' = [left EXCEPT ![c] = Tail(Parts(h))]
          /\ sent' = sent + 1
    /\ UNCHANGED <<limit, backlog, edge, gone, tasks, table, stream,
                   tables, stuck, pc, crashed, ghosts>>

HangUp(c) ==
    /\ ~crashed /\ c \in Known \ (gone \cup dropped)
    /\ Cardinality(gone) < HangUps /\ gone' = gone \cup {c}
    /\ left' = [left EXCEPT ![c] = <<>>]
    /\ UNCHANGED <<limit, backlog, edge, inbox, sent, tasks, table,
                   stream, tables, stuck, pc, crashed, ghosts>>

----------------------------------------------------------------------------
(* The thread of run().                                                    *)

Submit(f) ==
    /\ ~crashed
    /\ tasks' = Append(tasks, f)

(* The listening socket is edge triggered: one event, however many came.   *)
ReportListener ==
    /\ edge /\ edge' = FALSE
    /\ Submit(Failed)
    /\ UNCHANGED <<limit, backlog, left, inbox, gone, sent, table, stream,
                   tables, stuck, pc, crashed, ghosts>>

(* EPOLLONESHOT: the descriptor is reported once and then disabled.        *)
NotOneShot(f) == UNCHANGED armed   \* mutant: registered without EPOLLONESHOT
OneShot(f) == armed' = armed \ {f}

ReportClient(f) ==
    /\ f \in armed /\ conn[f] # None
    /\ inbox[conn[f]] # <<>> \/ conn[f] \in gone
    /\ OneShot(f)
    /\ Submit(f)
    /\ UNCHANGED <<kernel, conn, leaked, clients, stream, tables, stuck,
                   pc, crashed, ghosts>>

(* A worker takes an event and begins: it accepts, or tests under the      *)
(* mutex that the connection is still in the table (recv_to_buffer).       *)
Take(w) ==
    LET f == Head(tasks) IN
    /\ pc[w].at = "idle" /\ tasks # <<>> /\ ~crashed /\ ~stuck
    /\ tasks' = Tail(tasks)
    /\ pc' = [pc EXCEPT ![w] = [Idle EXCEPT !.fd = f,
                 !.at = IF f = Failed THEN "accept"
                        ELSE IF f \in clients THEN "recv" ELSE "parse"]]
    /\ UNCHANGED <<kernel, table, stream, tables, stuck, crashed, ghosts>>

----------------------------------------------------------------------------
(* register_client: accept, then the insertion under clients_mutex.  The   *)
(* listening socket blocks: accept waits for a connection, unless there is *)
(* no descriptor for it.  A key that is in the table already makes         *)
(* register_client call close_client, which locks the same mutex again.    *)

Lowest(S, n) == IF Cardinality(S) <= n THEN S
                ELSE CHOOSE T \in SUBSET S : Cardinality(T) = n
                       /\ \A x \in T, y \in S \ T : x < y

TakenOnce(k) == k \notin clients   \* mutant: the test of the insertion inverted
Taken(k) == k \in clients

register_client(w) ==
    /\ pc[w].at = "accept" /\ ~crashed /\ ~stuck
    /\ \/ /\ Free = {}
          /\ failures' = failures + 1
          /\ IF Taken(Failed)
             THEN stuck' = TRUE /\ Step(w, "lock") /\ UNCHANGED clients
             ELSE clients' = clients \cup {Failed} /\ Return(w) /\ UNCHANGED stuck
          /\ UNCHANGED <<backlog, conn, leaked>>
       \/ \E f \in Free :
          /\ \A g \in Free : f <= g
          /\ backlog # <<>> /\ backlog' = Tail(backlog)
          /\ conn' = [conn EXCEPT ![f] = Head(backlog)]
          /\ IF Taken(f)
             THEN stuck' = TRUE /\ Step(w, "lock") /\ UNCHANGED <<clients, leaked>>
             ELSE /\ clients' = clients \cup {f}
                  /\ leaked' = leaked \cup Lowest(Free \ {f}, 2)
                  /\ pc' = [pc EXCEPT ![w].at = "add", ![w].fd = f]
                  /\ UNCHANGED stuck
          /\ UNCHANGED failures
    /\ UNCHANGED <<limit, edge, left, inbox, gone, sent, tasks, armed,
                   stream, tables, crashed, threw, dropped, pulled, strays>>

(* set_non_blocking and EPOLL_CTL_ADD follow without the mutex; the        *)
(* insertion into clientsData leaves an entry of an earlier connection     *)
(* with that number as it is.                                              *)
Add(w) ==
    /\ pc[w].at = "add" /\ ~crashed
    /\ IF pc[w].fd \in clients
       THEN armed' = armed \cup {pc[w].fd} /\ Return(w) /\ UNCHANGED crashed
       ELSE crashed' = TRUE /\ UNCHANGED <<armed, pc>>
    /\ UNCHANGED <<kernel, tasks, conn, leaked, clients, stream, tables,
                   stuck, ghosts>>

----------------------------------------------------------------------------
(* The reads of recv_to_buffer follow without the mutex.  An end of file   *)
(* or an error only ends them.                                             *)
recv_to_buffer(w) ==
    LET f == pc[w].fd IN
    /\ pc[w].at = "recv" /\ ~crashed
    /\ IF f \in clients
       THEN /\ buf' = [buf EXCEPT ![f] = @ \o inbox[conn[f]]]
            /\ inbox' = [inbox EXCEPT ![conn[f]] = <<>>]
            /\ Step(w, "parse")
            /\ UNCHANGED crashed
       ELSE crashed' = TRUE /\ UNCHANGED <<buf, inbox, pc>>
    /\ UNCHANGED <<limit, backlog, edge, left, gone, sent, tasks, table,
                   data, tables, stuck, ghosts>>

(* The buffer holds at least nextSize bytes: a body of size 0 is there     *)
(* already.                                                                *)
Enough(f) == \/ data[f].state = "body" /\ ~data[f].hdr.body
             \/ data[f].state # "never" /\ buf[f] # <<>>

(* The loop is left, or its first test returns.                            *)
ParseEnds(w) ==
    LET f == pc[w].fd IN
    /\ pc[w].at = "parse" /\ ~crashed
    /\ \/ ~Enough(f) /\ Step(w, "rearm")
       \/ Enough(f) /\ f \notin clients /\ Return(w)
    /\ UNCHANGED <<kernel, tasks, table, stream, tables, stuck, crashed, ghosts>>

Parsing(w, state) ==
    LET f == pc[w].fd IN
    /\ pc[w].at = "parse" /\ ~crashed /\ ~stuck
    /\ f \in clients /\ Enough(f) /\ data[f].state = state
Framed(f) == Head(buf[f]).k = data[f].state

ParseDescriptor(w) ==
    LET f == pc[w].fd IN
    /\ Parsing(w, "desc") /\ Framed(f)
    /\ data' = [data EXCEPT ![f].state = "header"]
    /\ buf' = [buf EXCEPT ![f] = Tail(@)]
    /\ UNCHANGED <<kernel, tasks, table, tables, stuck, pc, crashed, ghosts>>

(* A header that is no JSON object, or has no size, throws out of the      *)
(* handler: the pool keeps the exception in a future nobody looks at.      *)
Threw(w) == Return(w) /\ threw' = threw \cup {conn[pc[w].fd]}

ParseHeader(w) ==
    LET f == pc[w].fd  h == Head(buf[f]).h IN
    /\ Parsing(w, "header") /\ Framed(f)
    /\ buf' = [buf EXCEPT ![f] = Tail(@)]
    /\ IF h.t = "bad"
       THEN Threw(w) /\ UNCHANGED data
       ELSE data' = [data EXCEPT ![f] = [state |-> "body", hdr |-> h]]
            /\ UNCHANGED <<pc, threw>>
    /\ UNCHANGED <<kernel, tasks, table, tables, stuck, crashed, failures,
                   dropped, pulled, strays>>

(* The stream of a connection read in the state another one left behind,   *)
(* or that the sender of a failed packet has set.  A descriptor is no      *)
(* header: an exception.  Text read as a length is one that never arrives. *)
(* What is taken for a body is sent on (Chat).                             *)
ParseGarbled(w) ==
    LET f == pc[w].fd IN
    /\ \E state \in {"desc", "header"} : Parsing(w, state) /\ ~Framed(f)
    /\ IF data[f].state = "header"
       THEN Threw(w) /\ UNCHANGED data
       ELSE data' = [data EXCEPT ![f].state = "never"] /\ UNCHANGED <<pc, threw>>
    /\ UNCHANGED <<kernel, tasks, table, buf, tables, stuck, crashed,
                   failures, dropped, pulled, strays>>

(* The end of an iteration that handled a message.                         *)
MessageDone(w) ==
    /\ data' = [data EXCEPT ![pc[w].fd].state = "desc"]
    /\ pc' = [pc EXCEPT ![w].at = "parse", ![w].n = 0]

(* The packets go to a number, found in a table when the sending starts.   *)
StartSending(w, f, c) ==
    pc' = [pc EXCEPT ![w].at = "send", ![w].to = f, ![w].n = Packets, ![w].meant = c]

TakeBody(f) == buf' = [buf EXCEPT ![f] = IF data[f].hdr.body THEN Tail(@) ELSE @]

(* Whatever the password, the name becomes online at this descriptor.      *)
Login(w) ==
    LET f == pc[w].fd  u == data[f].hdr.u IN
    /\ Parsing(w, "body") /\ data[f].hdr.t = "login"
    /\ TakeBody(f)
    /\ fd_name' = [fd_name EXCEPT ![f] = u]
    /\ name_fd' = [name_fd EXCEPT ![u] = f]
    /\ online' = online \cup {u} /\ owner' = [owner EXCEPT ![u] = conn[f]]
    /\ StartSending(w, f, conn[f])
    /\ UNCHANGED <<kernel, tasks, table, data, stuck, crashed, ghosts>>

Requester(w, u) == pc[w].fd   \* mutant: requestFd for name_fd[to]
Addressee(w, u) == name_fd[u]

Chat(w) ==
    LET f == pc[w].fd  u == data[f].hdr.u IN
    /\ Parsing(w, "body") /\ data[f].hdr.t = "chat" /\ data[f].hdr.body
    /\ TakeBody(f)
    /\ IF u \in online
       THEN StartSending(w, Addressee(w, u), owner[u]) /\ UNCHANGED data
       ELSE MessageDone(w)
    /\ UNCHANGED <<kernel, tasks, table, tables, stuck, crashed, ghosts>>

(* An empty chat message closes the connection of its sender, and leaves   *)
(* the state of the framing as it is.                                      *)
ChatEmpty(w) ==
    LET f == pc[w].fd IN
    /\ Parsing(w, "body") /\ data[f].hdr.t = "chat" /\ ~data[f].hdr.body
    /\ pc' = [pc EXCEPT ![w].at = "del", ![w].to = f, ![w].n = 0]
    /\ UNCHANGED <<kernel, tasks, table, stream, tables, stuck, crashed, ghosts>>

RearmedWhenDone(f) ==   \* mutant: re-armed only between two messages
    armed \cup IF f \in clients /\ data[f].state = "desc" THEN {f} ELSE {}
Rearmed(f) == armed \cup IF f \in clients THEN {f} ELSE {}

(* clients_mutex is taken for the test and the re-arming.                  *)
ReArm(w) ==
    /\ pc[w].at = "rearm" /\ ~stuck /\ ~crashed
    /\ armed' = Rearmed(pc[w].fd)
    /\ Return(w)
    /\ UNCHANGED <<kernel, tasks, conn, leaked, clients, stream, tables,
                   stuck, crashed, ghosts>>

----------------------------------------------------------------------------
(* queueSend_new and send_to_client, one packet at a time.                 *)

PacketDone(w) ==
    IF pc[w].n <= 1 THEN MessageDone(w)
    ELSE pc' = [pc EXCEPT ![w].at = "send", ![w].n = pc[w].n - 1] /\ UNCHANGED data

send_to_client(w) ==
    LET f == pc[w].to IN
    /\ pc[w].at = "send" /\ ~crashed
    /\ \/ /\ f \notin clients
          /\ PacketDone(w) /\ UNCHANGED strays
       \/ /\ f \in clients /\ f # Failed
          /\ strays' = IF conn[f] = pc[w].meant THEN strays
                       ELSE strays \cup {[meant |-> pc[w].meant, got |-> conn[f]]}
          /\ PacketDone(w)
    /\ UNCHANGED <<kernel, tasks, table, buf, tables, stuck, crashed,
                   threw, failures, dropped, pulled>>

(* The client has hung up: EPIPE or ECONNRESET, and the connection of that *)
(* number is closed.                                                       *)
SendFails(w) ==
    LET f == pc[w].to IN
    /\ pc[w].at = "send" /\ ~crashed
    /\ f \in clients \cap Open /\ conn[f] \in gone
    /\ Step(w, "del")
    /\ UNCHANGED <<kernel, tasks, table, stream, tables, stuck, crashed, ghosts>>

InUse(f) ==
    \/ \E i \in DOMAIN tasks : tasks[i] = f
    \/ \E v \in Workers : pc[v].at \notin {"idle", "accept"} /\ pc[v].fd = f

(* close_client: out of epoll, then out of the table under the mutex; the  *)
(* Client_Socket goes with its entry and closes the descriptor.            *)
EpollDel(w) ==
    /\ pc[w].at = "del" /\ ~crashed
    /\ armed' = armed \ {pc[w].to}
    /\ Step(w, "erase")
    /\ UNCHANGED <<kernel, tasks, conn, leaked, clients, stream, tables,
                   stuck, crashed, ghosts>>

close_client(w) ==
    LET f == pc[w].to IN
    /\ pc[w].at = "erase" /\ ~stuck /\ ~crashed
    /\ clients' = clients \ {f}
    /\ IF f \in clients
       THEN LET c == conn[f] IN
            /\ conn' = [conn EXCEPT ![f] = None] /\ dropped' = dropped \cup {c}
            /\ armed' = armed \ {f} /\ pulled' = (pulled \/ InUse(f))
            /\ inbox' = [inbox EXCEPT ![c] = <<>>] /\ left' = [left EXCEPT ![c] = <<>>]
       ELSE UNCHANGED <<conn, dropped, armed, pulled, inbox, left>>
    /\ Step(w, IF pc[w].n = 0 THEN "parse" ELSE "sent")
    /\ UNCHANGED <<limit, backlog, edge, gone, sent, tasks, leaked, stream, tables, stuck,
                   crashed, threw, failures, strays>>

(* The sender whose packet failed goes on: with the next one, or with its  *)
(* own loop, where it sets the state of a number that may be another's.    *)
SendReturns(w) ==
    /\ pc[w].at = "sent" /\ ~crashed
    /\ PacketDone(w)
    /\ UNCHANGED <<kernel, tasks, table, buf, tables, stuck, crashed, ghosts>>

Handler(w) ==
    \/ Take(w) \/ register_client(w) \/ Add(w) \/ recv_to_buffer(w)
    \/ ParseEnds(w) \/ ParseDescriptor(w) \/ ParseHeader(w) \/ ParseGarbled(w)
    \/ Login(w) \/ Chat(w) \/ ChatEmpty(w) \/ ReArm(w)
    \/ send_to_client(w) \/ SendFails(w) \/ EpollDel(w) \/ close_client(w)
    \/ SendReturns(w)

Next ==
    \/ \E c \in Conns : Connect(c) \/ ClientSends(c) \/ HangUp(c)
    \/ ReportListener
    \/ \E f \in Fds : ReportClient(f)
    \/ \E w \in Workers : Handler(w)

Spec == Init /\ [][Next]_vars

Symmetric == Permutations(Conns) \cup Permutations(Workers)

----------------------------------------------------------------------------
(* Descriptors in the hands of a worker that reads or answers them.        *)
Handled(w) == pc[w].at \notin {"idle", "accept", "add", "lock"}
Closing(f) == \E w \in Workers : pc[w].at = "erase" /\ pc[w].to = f

(* EPOLLONESHOT gives a connection to one worker at a time: two workers    *)
(* handle the same descriptor only after the server closed it while a      *)
(* worker was not done with it: the reader of a client a message to which  *)
(* failed, or the very worker that closes it for an empty message and goes *)
(* on with its loop.                                                       *)
OneHandler ==
    \A v, w \in Workers :
        (v # w /\ Handled(v) /\ Handled(w) /\ pc[v].fd = pc[w].fd) => pulled

(* No lost wake-up: a connection in the table is armed, or its event is    *)
(* with the pool or with a worker who will arm it again, or its handler    *)
(* ended with an exception, or somebody is about to close it, or close_    *)
(* client took the event of its predecessor's number away.                 *)
NobodyForgotten ==
    \A f \in Fds \cap clients :
        \/ f \in armed
        \/ \E i \in DOMAIN tasks : tasks[i] = f
        \/ \E w \in Workers : pc[w].fd = f /\ pc[w].at # "idle"
        \/ conn[f] \in threw
        \/ Closing(f)

(* A forwarded packet reaches the connection its addressee had when it was *)
(* sent; another one gets it only when the server had closed that one and  *)
(* the number has been given out again.                                    *)
AddressKept ==
    \A s \in strays : s.meant = None \/ s.meant \in dropped

(* A null Client_Socket is used only after the server closed a connection  *)
(* that another worker was reading or adding, and clients_mutex is locked  *)
(* for good by the second accept that finds no descriptor, and only then.  *)
BreakdownExplained ==
    /\ crashed => pulled
    /\ stuck <=> failures > 1
=============================================================================
