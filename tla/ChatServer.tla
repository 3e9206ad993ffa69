------------------------------ MODULE ChatServer ------------------------------
(***************************************************************************)
(* The chat server (ix::m_boost::Server::Server, its ServerDispatcher and  *)
(* the window that shows who is online).  The messages of all sessions are *)
(* handled on the io threads at the same time, and neither the map of      *)
(* sessions nor the table of users has a lock: a step is one access to one *)
(* of them, one statement for the data base, or one message given to a     *)
(* session to send.                                                        *)
(*                                                                         *)
(* That a session hands over every message once, and the end of its stream *)
(* after them all, is what module Session shows.                           *)
(***************************************************************************)
EXTENDS Naturals, FiniteSets

CONSTANTS Threads,      (* the io threads                                   *)
          Users,        (* the user names                                   *)
          NoUser,       (* the empty name                                   *)
          MaxConns,     (* bound: how many clients connect                  *)
          MaxMessages,  (* bound: how many messages they send               *)
          MaxFailures,  (* bound: how many statements fail                  *)
          Actions       (* the actions the clients use, of ClientActions    *)

ClientActions == {"login", "chat", "chat_to_room", "log_out",
                  "request_chat_his_from_client", "sign_in"}

ASSUME ServerAssumption == /\ IsFiniteSet(Threads)
                           /\ NoUser \notin Users
                           /\ {MaxConns, MaxMessages, MaxFailures} \subseteq Nat
                           /\ Actions \subseteq ClientActions

\* Sessions are numbered from 0 as they are accepted; that the numbers of the
\* messages come from the same counter only leaves gaps.
Ids == 0..(MaxConns - 1)

VARIABLES
  id_increment,
  peer,             (* per client: not yet there, open, or closed           *)
  sessions,         (* the ids in the map                                   *)
  info,             (* per session: the name given by update_info           *)
  local_user_table, (* user name -> whether online, and in which session    *)
  status,           (* the users whose status in the data base is ONLINE    *)
  io,               (* what each io thread executes                         *)
  outbox,           (* per session: what it was given to send               *)
  signals,          (* user_connected signals that the window has not seen  *)
  shown,            (* the users in the window's table                      *)
  life,             (* how far the end of the server has come               *)
  crashed,          (* why the process died                                 *)
  messages, failures,
  granted,          (* history: the sessions that gave a user's password    *)
  told,             (* history: the user a disconnect has set OFFLINE       *)
  late              (* history: who was logging in when the server stopped  *)
tables == <<sessions, info, local_user_table>>
window == <<signals, shown>>
counts == <<id_increment, peer, messages>>
hist == <<granted, told, late>>
vars == <<counts, tables, status, io, outbox, window, life, crashed, failures, hist>>

-----------------------------------------------------------------------------
Idle == [pc |-> "idle", conn |-> 0, user |-> NoUser, to |-> 0]
Handler(pc, c, u) == [pc |-> pc, conn |-> c, user |-> u, to |-> c]

At(t, pc) == io[t].pc = pc
Goto(t, pc) == io' = [io EXCEPT ![t].pc = pc]
Return(t) == io' = [io EXCEPT ![t] = Idle]

\* A null pointer is used: operator[] has made it for an id that is not there.
NullSession(t, i) == /\ i \notin sessions
                     /\ io' = [io EXCEPT ![t].pc = "crash", ![t].to = i]
                     /\ crashed' = "null session"

\* Mutant: whether the session is still there is not looked at.
TransmitLeniently(t, i, msg) == /\ outbox' = [outbox EXCEPT ![i] = @ \cup {msg}]
                                /\ UNCHANGED crashed

\* transmitMessage to session i, if the map has it.
Transmit(t, i, msg) == /\ i \in sessions
                       /\ outbox' = [outbox EXCEPT ![i] = @ \cup {msg}]
                       /\ UNCHANGED crashed

\* ... or to one that is no longer there.
TransmitNull(t, i) == NullSession(t, i) /\ UNCHANGED outbox

-----------------------------------------------------------------------------
(* do_accept and the start of a handler *)

\* One accept is pending at a time.
AcceptStart(t) ==
  /\ At(t, "idle") /\ life = "running"
  /\ id_increment < MaxConns
  /\ \A s \in Threads : ~At(s, "accept")
  /\ io' = [io EXCEPT ![t] = Handler("accept", id_increment, NoUser)]
  /\ id_increment' = id_increment + 1
  /\ UNCHANGED <<peer, messages, tables, status, outbox, window, life, crashed, failures, hist>>

Accept(t) ==
  /\ At(t, "accept")
  /\ sessions' = sessions \cup {io[t].conn}
  /\ peer' = [peer EXCEPT ![io[t].conn] = "open"]
  /\ Return(t)
  /\ UNCHANGED <<id_increment, messages, info, local_user_table, status, outbox, window, life,
                 crashed, failures, hist>>

\* The first step of the handler of each action.
FirstStep == [login |-> "verifyUserInfo", chat |-> "get_id", chat_to_room |-> "room_query",
              log_out |-> "log_out_query", request_chat_his_from_client |-> "history_query",
              sign_in |-> "sign_in"]

\* Mutant: a stopped io_context still starts handlers.
StartStopped(t) ==
  /\ At(t, "idle")
  /\ messages < MaxMessages
  /\ \E c \in Ids, action \in Actions, u \in Users :
       /\ peer[c] = "open"
       /\ io' = [io EXCEPT ![t] = Handler(FirstStep[action], c, u)]
  /\ messages' = messages + 1
  /\ UNCHANGED <<id_increment, peer, tables, status, outbox, window, life, crashed, failures, hist>>

\* A client sends a message and a thread begins to handle it.
Start(t) ==
  /\ At(t, "idle") /\ life = "running"
  /\ messages < MaxMessages
  /\ \E c \in Ids, action \in Actions, u \in Users :
       /\ peer[c] = "open"
       /\ io' = [io EXCEPT ![t] = Handler(FirstStep[action], c, u)]
  /\ messages' = messages + 1
  /\ UNCHANGED <<id_increment, peer, tables, status, outbox, window, life, crashed, failures, hist>>

\* A client closes its connection and a thread handles that: the message made
\* by Session::disconnect has the name that the session has now.
StartDisconnect(t) ==
  /\ At(t, "idle") /\ life = "running"
  /\ \E c \in Ids :
       /\ peer[c] = "open"
       /\ peer' = [peer EXCEPT ![c] = "closed"]
       /\ io' = [io EXCEPT ![t] = Handler("erase", c, info[c])]
  /\ UNCHANGED <<id_increment, messages, tables, status, outbox, window, life, crashed, failures,
                 hist>>

-----------------------------------------------------------------------------
(* login *)

LoginReply(u, ok) == [type |-> "login", user |-> u, confirm |-> ok]

\* Mutant: the password is not looked at.
verifyAnything(t) ==
  /\ At(t, "verifyUserInfo")
  /\ Goto(t, "add_user")
  /\ UNCHANGED <<counts, tables, status, outbox, window, life, crashed, failures, hist>>

\* The password is right or not.
verifyUserInfo(t) ==
  /\ At(t, "verifyUserInfo")
  /\ \/ /\ Goto(t, "add_user")
        /\ granted' = [granted EXCEPT ![io[t].user] = @ \cup {io[t].conn}]
     \/ /\ Goto(t, "reply_failed")
        /\ UNCHANGED granted
  /\ UNCHANGED <<counts, tables, status, outbox, window, life, crashed, failures, told, late>>

ZeroUserInfo == [isOnline |-> FALSE, id |-> 0]

\* Mutant: an entry starts as in load_user_table, with an id that no session has.
AddUserUnset(t) ==
  /\ At(t, "add_user")
  /\ local_user_table' = [u \in DOMAIN local_user_table \cup {io[t].user} |->
                            IF u \in DOMAIN local_user_table THEN local_user_table[u]
                            ELSE [isOnline |-> TRUE, id |-> MaxConns]]
  /\ Goto(t, "set_online")
  /\ UNCHANGED <<counts, sessions, info, status, outbox, window, life, crashed, failures, hist>>

\* user_login: operator[] makes the entry, all zero, if it is missing ...
AddUser(t) ==
  /\ At(t, "add_user")
  /\ local_user_table' = [u \in DOMAIN local_user_table \cup {io[t].user} |->
                            IF u \in DOMAIN local_user_table THEN local_user_table[u]
                            ELSE ZeroUserInfo]
  /\ Goto(t, "set_online")
  /\ UNCHANGED <<counts, sessions, info, status, outbox, window, life, crashed, failures, hist>>

SetOnline(t) ==
  /\ At(t, "set_online")
  /\ local_user_table' = [local_user_table EXCEPT ![io[t].user].isOnline = TRUE]
  /\ Goto(t, "set_id")
  /\ UNCHANGED <<counts, sessions, info, status, outbox, window, life, crashed, failures, hist>>

SetId(t) ==
  /\ At(t, "set_id")
  /\ local_user_table' = [local_user_table EXCEPT ![io[t].user].id = io[t].conn]
  /\ Goto(t, "update_info")
  /\ UNCHANGED <<counts, sessions, info, status, outbox, window, life, crashed, failures, hist>>

UpdateInfo(t) ==
  /\ At(t, "update_info")
  /\ \/ /\ io[t].conn \in sessions
        /\ info' = [info EXCEPT ![io[t].conn] = io[t].user]
        /\ Goto(t, "set_status")
        /\ UNCHANGED crashed
     \/ NullSession(t, io[t].conn) /\ UNCHANGED info
  /\ UNCHANGED <<counts, sessions, local_user_table, status, outbox, window, life, failures, hist>>

SetStatus(t) ==
  /\ At(t, "set_status")
  /\ status' = status \cup {io[t].user}
  /\ Goto(t, "send_rooms")
  /\ UNCHANGED <<counts, tables, outbox, window, life, crashed, failures, hist>>

SendRooms(t) ==
  /\ At(t, "send_rooms")
  /\ \/ Transmit(t, io[t].conn, [type |-> "rooms_receive"]) /\ Goto(t, "on_user_log")
     \/ TransmitNull(t, io[t].conn)
  /\ UNCHANGED <<counts, tables, status, window, life, failures, hist>>

\* Mutant: the window is told nothing.
OnUserLogSilently(t) ==
  /\ At(t, "on_user_log")
  /\ Goto(t, "reply")
  /\ UNCHANGED <<counts, tables, status, outbox, window, life, crashed, failures, hist>>

OnUserLog(t) ==
  /\ At(t, "on_user_log")
  /\ signals' = signals + 1
  /\ Goto(t, "reply")
  /\ UNCHANGED <<counts, tables, status, outbox, shown, life, crashed, failures, hist>>

Reply(t) ==
  /\ io[t].pc \in {"reply", "reply_failed"}
  /\ \/ Transmit(t, io[t].conn, LoginReply(io[t].user, At(t, "reply"))) /\ Return(t)
     \/ TransmitNull(t, io[t].conn)
  /\ UNCHANGED <<counts, tables, status, window, life, failures, hist>>

-----------------------------------------------------------------------------
(* disconnect and log_out *)

\* Mutant: the session accepted last is erased.
delete_user_last(t) ==
  /\ At(t, "erase")
  /\ sessions' = sessions \ {id_increment - 1}
  /\ Goto(t, "set_offline")
  /\ UNCHANGED <<counts, info, local_user_table, status, outbox, window, life, crashed, failures,
                 hist>>

delete_user(t) ==
  /\ At(t, "erase")
  /\ sessions' = sessions \ {io[t].conn}
  /\ Goto(t, "set_offline")
  /\ UNCHANGED <<counts, info, local_user_table, status, outbox, window, life, crashed, failures,
                 hist>>

SetOffline(t) ==
  /\ At(t, "set_offline")
  /\ status' = status \ {io[t].user}
  /\ told' = [told EXCEPT ![io[t].conn] = io[t].user]
  /\ Return(t)
  /\ UNCHANGED <<counts, tables, outbox, window, life, crashed, failures, granted, late>>

\* handle_user_log_out: a query whose answer is not looked at, the update, the signal.
LogOutQuery(t) ==
  /\ At(t, "log_out_query")
  /\ Goto(t, "log_out_offline")
  /\ UNCHANGED <<counts, tables, status, outbox, window, life, crashed, failures, hist>>

LogOutOffline(t) ==
  /\ At(t, "log_out_offline")
  /\ status' = status \ {io[t].user}
  /\ Goto(t, "log_out_signal")
  /\ UNCHANGED <<counts, tables, outbox, window, life, crashed, failures, hist>>

LogOutSignal(t) ==
  /\ At(t, "log_out_signal")
  /\ signals' = signals + 1
  /\ Return(t)
  /\ UNCHANGED <<counts, tables, status, outbox, shown, life, crashed, failures, hist>>

-----------------------------------------------------------------------------
(* chat *)

Chat(c, u) == [type |-> "chat", from |-> c, to |-> u]
Feedback(u, condition) == [type |-> "feedback", to |-> u, condition |-> condition]

\* The id of the addressee, if the table has one.
get_id(t) ==
  /\ At(t, "get_id")
  /\ IF io[t].user \in DOMAIN local_user_table
     THEN io' = [io EXCEPT ![t].pc = "is_online", ![t].to = local_user_table[io[t].user].id]
     ELSE Goto(t, "feedback_failed")
  /\ UNCHANGED <<counts, tables, status, outbox, window, life, crashed, failures, hist>>

\* Mutant: who is not online is passed over without a word.
is_onlineSilently(t) ==
  /\ At(t, "is_online")
  /\ Goto(t, IF local_user_table[io[t].user].isOnline THEN "forward" ELSE "feedback")
  /\ UNCHANGED <<counts, tables, status, outbox, window, life, crashed, failures, hist>>

is_online(t) ==
  /\ At(t, "is_online")
  /\ Goto(t, IF local_user_table[io[t].user].isOnline THEN "forward" ELSE "feedback_failed")
  /\ UNCHANGED <<counts, tables, status, outbox, window, life, crashed, failures, hist>>

Forward(t) ==
  /\ At(t, "forward")
  /\ \/ Transmit(t, io[t].to, Chat(io[t].conn, io[t].user)) /\ Goto(t, "feedback")
     \/ TransmitNull(t, io[t].to)
  /\ UNCHANGED <<counts, tables, status, window, life, failures, hist>>

GiveFeedback(t) ==
  /\ io[t].pc \in {"feedback", "feedback_failed"}
  /\ \/ /\ Transmit(t, io[t].conn,
                    Feedback(io[t].user, IF At(t, "feedback") THEN "success" ELSE "failed"))
        /\ Return(t)
     \/ TransmitNull(t, io[t].conn)
  /\ UNCHANGED <<counts, tables, status, window, life, failures, hist>>

-----------------------------------------------------------------------------
(* The other actions.  The messages of rooms are kept in the data base only. *)

\* chat_to_room: if the room exists, a feedback and then the insertion.
RoomQuery(t) ==
  /\ At(t, "room_query")
  /\ Goto(t, "room_feedback") \/ Return(t)
  /\ UNCHANGED <<counts, tables, status, outbox, window, life, crashed, failures, hist>>

RoomFeedback(t) ==
  /\ At(t, "room_feedback")
  /\ \/ Transmit(t, io[t].conn, [type |-> "room_feedback"]) /\ Goto(t, "uploading_message")
     \/ TransmitNull(t, io[t].conn)
  /\ UNCHANGED <<counts, tables, status, window, life, failures, hist>>

HistoryQuery(t) ==
  /\ At(t, "history_query")
  /\ Goto(t, "history_send")
  /\ UNCHANGED <<counts, tables, status, outbox, window, life, crashed, failures, hist>>

HistorySend(t) ==
  /\ At(t, "history_send")
  /\ \/ Transmit(t, io[t].conn, [type |-> "history"]) /\ Return(t)
     \/ TransmitNull(t, io[t].conn)
  /\ UNCHANGED <<counts, tables, status, window, life, failures, hist>>

\* uploading_message inserts; sign_in ends in an exception: transmitMessage is
\* called with a number where it needs an object.  Nothing modelled changes.
Finish(t) ==
  /\ io[t].pc \in {"uploading_message", "sign_in"}
  /\ Return(t)
  /\ UNCHANGED <<counts, tables, status, outbox, window, life, crashed, failures, hist>>

\* A statement throws: the handler ends (Session and ServerDispatcher catch it).
Throws(t) ==
  /\ io[t].pc \in {"verifyUserInfo", "set_status", "set_offline", "log_out_query",
                   "log_out_offline", "room_query", "uploading_message", "history_query"}
  /\ failures < MaxFailures
  /\ failures' = failures + 1
  /\ Return(t)
  /\ UNCHANGED <<counts, tables, status, outbox, window, life, crashed, hist>>

-----------------------------------------------------------------------------
(* Accesses without a lock *)

UsesSessions(t) == io[t].pc \in {"accept", "erase", "update_info", "send_rooms", "reply",
                                 "reply_failed", "forward", "feedback", "feedback_failed",
                                 "room_feedback", "history_send"}
ModifiesSessions(t) == io[t].pc \in {"accept", "erase"}
UsesTable(t) == io[t].pc \in {"add_user", "set_online", "set_id", "get_id", "is_online"}
ModifiesTable(t) == At(t, "add_user") /\ io[t].user \notin DOMAIN local_user_table

\* Two threads are in the same std::unordered_map and one of them changes it:
\* that may go well, and it may end the process.
Race ==
  /\ \E s, t \in Threads : /\ s # t
                           /\ \/ ModifiesSessions(s) /\ UsesSessions(t)
                              \/ ModifiesTable(s) /\ UsesTable(t)
  /\ crashed' = "race"
  /\ UNCHANGED <<counts, tables, status, io, outbox, window, life, failures, hist>>

-----------------------------------------------------------------------------
(* The window, and the end *)

\* onRefreshUserTable, for a signal.
onRefreshUserTable ==
  /\ signals > 0 /\ life = "running"
  /\ signals' = signals - 1
  /\ shown' = status
  /\ UNCHANGED <<counts, tables, status, io, outbox, life, crashed, failures, hist>>

on_btn_load_sql_users_clicked ==
  /\ life = "running"
  /\ shown' = status
  /\ UNCHANGED <<counts, tables, status, io, outbox, signals, life, crashed, failures, hist>>

\* The window is closed: io_context.stop(), and no further handler starts.
Stop ==
  /\ life = "running"
  /\ life' = "stopped"
  /\ late' = {io[t].user : t \in {s \in Threads : io[s].pc \in
                {"verifyUserInfo", "add_user", "set_online", "set_id", "update_info",
                 "set_status"}}}
  /\ UNCHANGED <<counts, tables, status, io, outbox, window, crashed, failures, granted, told>>

\* ~Server: everybody is OFFLINE ...
SetAllOffline ==
  /\ life = "stopped"
  /\ life' = "offline"
  /\ status' = {}
  /\ UNCHANGED <<counts, tables, io, outbox, window, crashed, failures, hist>>

\* ... then its members go, while handlers may still run ...
DestroyMembers ==
  /\ life = "offline"
  /\ life' = "destroyed"
  /\ UNCHANGED <<counts, tables, status, io, outbox, window, crashed, failures, hist>>

\* ... which then use them: that may go well, and it may end the process ...
UseAfterDestruction(t) ==
  /\ life = "destroyed"
  /\ ~At(t, "idle")
  /\ crashed' = "destroyed"
  /\ UNCHANGED <<counts, tables, status, io, outbox, window, life, failures, hist>>

\* ... and only then ~tcp_service joins the threads.
Join ==
  /\ life = "destroyed"
  /\ \A t \in Threads : At(t, "idle")
  /\ life' = "joined"
  /\ UNCHANGED <<counts, tables, status, io, outbox, window, crashed, failures, hist>>

-----------------------------------------------------------------------------
Init == /\ id_increment = 0 /\ messages = 0 /\ failures = 0
        /\ peer = [c \in Ids |-> "none"]
        /\ sessions = {} /\ info = [c \in Ids |-> NoUser]
        /\ local_user_table = [u \in {} |-> ZeroUserInfo]
        /\ status = {}
        /\ io = [t \in Threads |-> Idle]
        /\ outbox = [c \in Ids |-> {}]
        /\ signals = 0 /\ shown = {}
        /\ life = "running" /\ crashed = "no"
        /\ granted = [u \in Users |-> {}] /\ told = [c \in Ids |-> NoUser] /\ late = {}

Login(t) == \/ verifyUserInfo(t) \/ AddUser(t) \/ SetOnline(t) \/ SetId(t) \/ UpdateInfo(t)
            \/ SetStatus(t) \/ SendRooms(t) \/ OnUserLog(t) \/ Reply(t)

Leave(t) == delete_user(t) \/ SetOffline(t) \/ LogOutQuery(t) \/ LogOutOffline(t) \/ LogOutSignal(t)

Talk(t) == \/ get_id(t) \/ is_online(t) \/ Forward(t) \/ GiveFeedback(t)
           \/ RoomQuery(t) \/ RoomFeedback(t) \/ HistoryQuery(t) \/ HistorySend(t)

Handle(t) == Accept(t) \/ Login(t) \/ Leave(t) \/ Talk(t) \/ Finish(t)

Begin(t) == AcceptStart(t) \/ Start(t) \/ StartDisconnect(t)

Ending == Stop \/ SetAllOffline \/ DestroyMembers \/ Join

Next == /\ crashed = "no"
        /\ \/ \E t \in Threads : Begin(t) \/ Handle(t) \/ Throws(t) \/ UseAfterDestruction(t)
           \/ Race \/ onRefreshUserTable \/ on_btn_load_sql_users_clicked \/ Ending

Spec == Init /\ [][Next]_vars
-----------------------------------------------------------------------------
Places == {"idle", "crash", "accept", "verifyUserInfo", "add_user", "set_online", "set_id",
           "update_info", "set_status", "send_rooms", "on_user_log", "reply", "reply_failed",
           "erase", "set_offline", "log_out_query", "log_out_offline", "log_out_signal",
           "get_id", "is_online", "forward", "feedback", "feedback_failed", "room_query",
           "room_feedback", "uploading_message", "history_query", "history_send", "sign_in"}

MessageType == [type : {"rooms_receive", "room_feedback", "history"}]
               \cup [type : {"login"}, user : Users, confirm : BOOLEAN]
               \cup [type : {"chat"}, from : Ids, to : Users]
               \cup [type : {"feedback"}, to : Users, condition : {"success", "failed"}]

\* Types.
TypeOK ==
  /\ id_increment \in 0..MaxConns /\ messages \in 0..MaxMessages /\ failures \in 0..MaxFailures
  /\ peer \in [Ids -> {"none", "open", "closed"}]
  /\ sessions \subseteq Ids /\ info \in [Ids -> Users \cup {NoUser}]
  /\ DOMAIN local_user_table \subseteq Users
  /\ \A u \in DOMAIN local_user_table : local_user_table[u] \in [isOnline : BOOLEAN, id : Ids]
  /\ {status, shown, late} \subseteq SUBSET Users
  /\ io \in [Threads -> [pc : Places, conn : Ids \cup {0}, user : Users \cup {NoUser},
                         to : Ids \cup {0}]]
  /\ outbox \in [Ids -> SUBSET MessageType]
  /\ signals \in 0..MaxMessages
  /\ life \in {"running", "stopped", "offline", "destroyed", "joined"}
  /\ crashed \in {"no", "null session", "race", "destroyed"}
  /\ granted \in [Users -> SUBSET Ids] /\ told \in [Ids -> Users \cup {NoUser}]

Quiet == crashed = "no" /\ \A t \in Threads : At(t, "idle")

\* The table never sends a message to a session whose user has not given the
\* addressee's password, except that user_login sets isOnline before id: while
\* it is between the two for the first time, the addressee seems to be session 0.
AddressHonest ==
  /\ \A u \in DOMAIN local_user_table :
       \/ local_user_table[u].id \in granted[u]
       \/ local_user_table[u].id = 0 /\ \E t \in Threads :
            io[t].pc \in {"set_online", "set_id"} /\ io[t].user = u
  /\ \A i \in Ids : \A m \in outbox[i] :
       m.type = "chat" => i \in granted[m.to] \/ (i = 0 /\ granted[m.to] # {})

\* The only sessions that are asked for in vain are those whose client has
\* disconnected: the map never lacks one that is connected.
MissingHaveLeft ==
  /\ crashed = "null session" =>
       \E t \in Threads : At(t, "crash") /\ peer[io[t].to] = "closed"
  /\ \A c \in Ids : peer[c] = "open" => c \in sessions

\* While nothing is handled, a user who is ONLINE in the data base has a session
\* that logged in as him and is still there, or one that has ended without his
\* name: because it had got another name since, or had none when its end was
\* noticed, or because the statement failed.
OnlineExplained ==
  Quiet => \A u \in status : \E c \in granted[u] : c \in sessions \/ told[c] # u

\* While nothing is handled and no signal is on its way, the window shows
\* everybody who is ONLINE.
OnlineShown == Quiet /\ signals = 0 /\ life = "running" => status \subseteq shown

\* The three agree: the map of sessions with the connections, the data base with
\* the map, the window with the data base.
StatusExplained == TypeOK /\ MissingHaveLeft /\ OnlineExplained /\ OnlineShown

\* A sender who is told that a message has got through has sent one that did,
\* and one for whom none got through is not told so.
FeedbackHonest ==
  \A c \in Ids, u \in Users :
    Feedback(u, "success") \in outbox[c] => \E i \in Ids : Chat(c, u) \in outbox[i]

\* When the server has ended, only users that were logging in when it was
\* stopped can still be ONLINE.
OfflineAtTheEnd == life = "joined" => status \subseteq late
=============================================================================
