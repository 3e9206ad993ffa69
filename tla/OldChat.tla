------------------------------ MODULE OldChat ------------------------------
(***************************************************************************)
(* The older, command line chat program (projects/boostAsioServer): the    *)
(* server, whose handlers run on two io threads (the one of tcp_service    *)
(* and main), and its clients, whose handlers run on five.  No table is    *)
(* locked on the server.  How a Session writes is WriteQueue's subject;    *)
(* here the socket takes what is sent, or the connection is down.          *)
(***************************************************************************)
EXTENDS Integers, Sequences, FiniteSets, Functions

CONSTANTS Clients, Users,
          MaxConns,    \* bound on the connections made
          MaxSends,    \* bound on the messages clients send
          MaxBoth,     \* bound on connections and messages together
          IoThreads,   \* io threads of the server (2)
          NoUser

NoSession == -1        \* the id of a user in the file, before he logs in
ConnIds   == 1..MaxConns
(* Every session has the number of its accept, from 0; the code gives      *)
(* numbers of the same counter to messages, which only leaves gaps.        *)
Id(c)     == c - 1

VARIABLES
    known,     \* users with an entry in local_user_table
    isOnline,
    id,        \* user -> session id in his entry
    accepted,  \* number of connections the server has accepted
    handlers,  \* posted data_handlers: messages in the order they were read
    threadsAt, \* what the io threads have begun
    crashed,   \* send() through a null session
    conns,     \* connections: whose, whether it is up, and what is on its way
    completed, \* connections whose async_connect handler has run
    session0,  \* client -> the connection sessions[0] is, 0 if there is none
    is_connected,
    logining,  \* client -> user login_success was called for last
    chats,     \* number of messages sent
    logged,    \* history: user -> connections he logged in on, in order
    answered,  \* history: users whose login the server has answered
    strays,    \* history: chats put on a session that was not the last login
    fresh,     \* history: chats whose addressee had never completed a login
               \* when his id was read
    misled     \* history: chats answered with failed although the addressee's
               \* login had been answered when they were begun

tablesOfServer == <<known, isOnline, id>>
serverVars == <<tablesOfServer, accepted, handlers, threadsAt, crashed>>
clientVars == <<completed, session0, is_connected, logining, chats>>
storyVars  == <<logged, answered, strays, fresh, misled>>
oldVars    == <<serverVars, conns, clientVars, storyVars>>

(* A user of the file user_table.txt has an entry without a session, the   *)
(* others have none.                                                       *)
Init ==
    /\ known \in SUBSET Users
    /\ isOnline = [u \in Users |-> FALSE]
    /\ id = [u \in Users |-> IF u \in known THEN NoSession ELSE 0]
    /\ accepted = 0 /\ handlers = <<>> /\ threadsAt = {} /\ crashed = FALSE
    /\ conns = <<>> /\ completed = {} /\ session0 = [k \in Clients |-> 0]
    /\ is_connected = [k \in Clients |-> FALSE]
    /\ logining = [k \in Clients |-> NoUser] /\ chats = 0
    /\ logged = [u \in Users |-> <<>>] /\ answered = {} /\ strays = {}
    /\ fresh = {} /\ misled = {}

----------------------------------------------------------------------------
(* Connections.                                                            *)

Connect(k) ==
    /\ ~crashed /\ Len(conns) < MaxConns
    /\ Len(conns) + chats < MaxBoth
    /\ conns' = Append(conns, [client |-> k, up |-> TRUE, toServer |-> <<>>, toClient |-> <<>>])
    /\ UNCHANGED <<serverVars, clientVars, storyVars>>

(* The handler of async_connect: the first one gets number 0, and nobody   *)
(* ever takes is_connected back.                                           *)
ConnectHandler(c) ==
    LET k == conns[c].client IN
    /\ ~crashed /\ c \in DOMAIN conns \ completed
    /\ completed' = completed \cup {c}
    /\ session0' = [session0 EXCEPT ![k] = IF @ = 0 THEN c ELSE @]
    /\ is_connected' = [is_connected EXCEPT ![k] = TRUE]
    /\ UNCHANGED <<serverVars, conns, logining, chats, storyVars>>

do_accept ==
    /\ ~crashed /\ accepted < Len(conns) /\ accepted' = accepted + 1
    /\ UNCHANGED <<tablesOfServer, handlers, threadsAt, crashed, conns,
                   clientVars, storyVars>>

(* Either side's handle_error only writes a line: the sessions stay.       *)
Lost(c) ==
    /\ ~crashed /\ c \in DOMAIN conns /\ conns[c].up
    /\ conns' = [conns EXCEPT ![c].up = FALSE, ![c].toServer = <<>>, ![c].toClient = <<>>]
    /\ UNCHANGED <<serverVars, clientVars, storyVars>>

----------------------------------------------------------------------------
(* The client's user: everything is sent on sessions[0].                   *)

NewestSession(k) ==   \* mutant: the connection made last
    CHOOSE c \in completed :
        conns[c].client = k /\ \A d \in completed : conns[d].client = k => d <= c
FirstSession(k) == session0[k]

send_to(k) ==
    /\ ~crashed /\ is_connected[k] /\ chats < MaxSends
    /\ Len(conns) + chats < MaxBoth
    /\ chats' = chats + 1
    /\ LET c == FirstSession(k) IN
       \E kind \in {"login", "chat"}, u \in Users, long \in BOOLEAN :
          conns' = IF ~conns[c].up THEN conns
                   ELSE [conns EXCEPT ![c].toServer =
                          Append(@, [n |-> chats', kind |-> kind, user |-> u, long |-> long])]
    /\ UNCHANGED <<serverVars, completed, session0, is_connected, logining, storyVars>>

Without(s, i) == SubSeq(s, 1, i - 1) \o SubSeq(s, i + 1, Len(s))

(* The client's handlers run on five threads: in any order.  A message of  *)
(* more than one fragment is never put together.                           *)
ClientHandles(c, i) ==
    /\ ~crashed /\ c \in completed /\ i \in DOMAIN conns[c].toClient
    /\ LET m == conns[c].toClient[i] IN
       logining' = IF m.kind = "login" /\ m.ok
                   THEN [logining EXCEPT ![conns[c].client] = m.user] ELSE logining
    /\ conns' = [conns EXCEPT ![c].toClient = Without(@, i)]
    /\ UNCHANGED <<serverVars, completed, session0, is_connected, chats, storyVars>>

----------------------------------------------------------------------------
(* The server: process_data, and the handlers it posts.                    *)

process_data(c) ==
    /\ ~crashed /\ c <= accepted /\ conns[c].toServer # <<>>
    /\ LET m == Head(conns[c].toServer) IN
       handlers' = IF m.long THEN handlers ELSE Append(handlers, [m |-> m, from |-> c])
    /\ conns' = [conns EXCEPT ![c].toServer = Tail(@)]
    /\ UNCHANGED <<tablesOfServer, accepted, threadsAt, crashed, clientVars, storyVars>>

Begin ==
    /\ ~crashed /\ handlers # <<>> /\ Cardinality(threadsAt) < IoThreads
    /\ handlers' = Tail(handlers)
    /\ LET h == Head(handlers) IN
       threadsAt' = threadsAt \cup
          {[m |-> h.m, from |-> h.from, at |-> IF h.m.kind = "login" THEN "verify" ELSE "get_id",
            to |-> NoSession, ok |-> FALSE, told |-> h.m.user \in answered]}
    /\ UNCHANGED <<tablesOfServer, accepted, crashed, conns, clientVars, storyVars>>

At(t, step)   == t \in threadsAt /\ t.at = step /\ ~crashed
Becomes(t, s) == threadsAt' = (threadsAt \ {t}) \cup s
serverRest    == <<accepted, handlers, conns, clientVars>>

(* The database may accept, refuse, or fail: then the exception ends the   *)
(* handler, without an answer.                                             *)
verifyUserInfo(t) ==
    /\ At(t, "verify")
    /\ \/ Becomes(t, {[t EXCEPT !.at = "set_online", !.ok = TRUE]})
       \/ Becomes(t, {[t EXCEPT !.at = "answer"]})
       \/ Becomes(t, {})
    /\ UNCHANGED <<tablesOfServer, crashed, serverRest, storyVars>>

(* user_login: two assignments, the first of which may create the entry.   *)
SetOnline(t) ==
    /\ At(t, "set_online")
    /\ known' = known \cup {t.m.user} /\ isOnline' = [isOnline EXCEPT ![t.m.user] = TRUE]
    /\ Becomes(t, {[t EXCEPT !.at = "set_id"]})
    /\ UNCHANGED <<id, crashed, serverRest, storyVars>>

NewestId(t) == accepted - 1   \* mutant: the session accepted last
from_id(t) == Id(t.from)

SetId(t) ==
    /\ At(t, "set_id")
    /\ id' = [id EXCEPT ![t.m.user] = from_id(t)]
    /\ logged' = [logged EXCEPT ![t.m.user] = Append(@, t.from)]
    /\ Becomes(t, {[t EXCEPT !.at = "answer"]})
    /\ UNCHANGED <<known, isOnline, crashed, serverRest, answered, strays, fresh, misled>>

Put(c, m) == conns' = IF conns[c].up THEN [conns EXCEPT ![c].toClient = Append(@, m)] ELSE conns

(* The answer to a login, the feedback to a chat: to the session it came   *)
(* from, whoever was there.                                                *)
Answer(t) ==
    /\ At(t, "answer")
    /\ Put(t.from, [kind |-> IF t.m.kind = "login" THEN "login" ELSE "feedback",
                    user |-> t.m.user, ok |-> t.ok])
    /\ answered' = IF t.m.kind = "login" /\ t.ok THEN answered \cup {t.m.user} ELSE answered
    /\ misled' = IF t.m.kind = "chat" /\ ~t.ok /\ t.told THEN misled \cup {t.m.n} ELSE misled
    /\ Becomes(t, {})
    /\ UNCHANGED <<tablesOfServer, accepted, handlers, crashed, clientVars, logged,
                   strays, fresh>>

(* A chat: get_id, is_online and transmitMessage, one after the other.     *)
get_id(t) ==
    /\ At(t, "get_id")
    /\ Becomes(t, {[t EXCEPT !.at = IF t.m.user \in known THEN "is_online" ELSE "answer",
                             !.to = id[t.m.user]]})
    /\ fresh' = IF logged[t.m.user] = <<>> THEN fresh \cup {t.m.n} ELSE fresh
    /\ UNCHANGED <<tablesOfServer, crashed, serverRest, logged, answered, strays, misled>>

is_online(t) ==
    /\ At(t, "is_online")
    /\ Becomes(t, {[t EXCEPT !.at = IF isOnline[t.m.user] THEN "transmit" ELSE "answer"]})
    /\ UNCHANGED <<tablesOfServer, crashed, serverRest, storyVars>>

(* sessions[id] makes a null entry for an id that has none.                *)
transmitMessage(t) ==
    /\ At(t, "transmit")
    /\ IF t.to = NoSession
       THEN crashed' = TRUE /\ UNCHANGED <<conns, strays, threadsAt>>
       ELSE LET c == t.to + 1 IN
            /\ Put(c, [kind |-> "chat", user |-> t.m.user, ok |-> TRUE])
            /\ strays' = IF logged[t.m.user] # <<>> /\ logged[t.m.user][Len(logged[t.m.user])] = c THEN strays
                         ELSE strays \cup {[n |-> t.m.n, user |-> t.m.user, got |-> c]}
            /\ Becomes(t, {[t EXCEPT !.at = "answer", !.ok = TRUE]})
            /\ UNCHANGED crashed
    /\ UNCHANGED <<tablesOfServer, accepted, handlers, clientVars, logged, answered,
                   fresh, misled>>

Next ==
    \/ \E k \in Clients : Connect(k) \/ send_to(k)
    \/ do_accept \/ Begin
    \/ \E c \in DOMAIN conns :
          \/ ConnectHandler(c) \/ Lost(c) \/ process_data(c)
          \/ \E i \in DOMAIN conns[c].toClient : ClientHandles(c, i)
    \/ \E t \in threadsAt :
          \/ verifyUserInfo(t) \/ SetOnline(t) \/ SetId(t) \/ Answer(t)
          \/ get_id(t) \/ is_online(t) \/ transmitMessage(t)

Spec == Init /\ [][Next]_oldVars

----------------------------------------------------------------------------
(* A forwarded message goes to the session its addressee logged in on last *)
(* or on an earlier one; to anybody else's, or to none, which ends the     *)
(* server, only if he had not logged in yet when his id was read: between  *)
(* that and the test of isOnline his login set the flag but not yet the id.*)
RoutingExplained ==
    /\ \A s \in strays : s.n \in fresh \/ s.got \in Range(logged[s.user])
    /\ crashed => \E t \in threadsAt : t.at = "transmit" /\ t.m.n \in fresh

(* What a client believes: it sends only when sessions[0] is a connection  *)
(* of its own whose handler has run, for ever the same one; who it thinks  *)
(* it is has logged in over that connection; and nobody is told that a     *)
(* user is unknown or not online whose login had been answered before.     *)
ClientsBelieve ==
    /\ \A k \in Clients :
          /\ is_connected[k] => session0[k] \in completed /\ conns[session0[k]].client = k
          /\ logining[k] # NoUser => session0[k] \in Range(logged[logining[k]])
    /\ misled = {}
=============================================================================
