------------------------------ MODULE ChatClient ------------------------------
(***************************************************************************)
(* The chat client: Client, its ClientDispatcher, and the two windows that *)
(* main.cpp connects.  The window thread executes one slot at a time, but  *)
(* every message box runs an event loop of its own, in which queued        *)
(* signals start further slots: ui is the stack of the boxes that are      *)
(* open.  The io threads execute completions of connect and messages of    *)
(* the server.  sessions, cur_id, is_connected and is_logined are shared   *)
(* without a lock (connect alone takes sessions_mtx): a step is one access *)
(* that decides something.                                                 *)
(***************************************************************************)
EXTENDS Naturals, Sequences, SequencesExt

CONSTANTS Threads,      (* the io threads                                   *)
          MaxConnects,  (* bound: how often connect is pressed              *)
          MaxLogins   (* bound: how often login is pressed                *)

ASSUME ClientAssumption == MaxConnects \in Nat /\ MaxLogins \in Nat

Ids == 1..MaxConnects
NoId == 0

VARIABLES
  ui,               (* the open message boxes, the innermost last           *)
  sending,          (* what the window thread is about to send, or "no"     *)
  login_visible, main_visible, rows,
  signals,          (* queued to the window: the io threads' emits          *)
  connecting,       (* async_connect calls under way                        *)
  presses, logins,
  io,               (* what each io thread executes                         *)
  id_increment, cur_id, sessions, is_connected, is_logined,
  link,             (* per session: none, open, closed by the peer, broken  *)
  requests,         (* per session: what the server has yet to answer       *)
  inbox,            (* per session: what the server has sent                *)
  crashed,
  erased,           (* history: the sessions a disconnect has taken out     *)
  told,             (* history: the ends the window has been shown          *)
  overlapped,       (* history: two connections were asked for at a time    *)
  overtaken,        (* history: an end was handled while connect finished   *)
  nested,           (* history: an answer was shown over an open box        *)
  outrun            (* history: the end was shown while a login was accepted*)
window == <<ui, login_visible, main_visible, rows>>
shared == <<id_increment, cur_id, sessions, is_connected, is_logined>>
net == <<link, requests, inbox>>
counts == <<connecting, presses, logins>>
hist == <<erased, told, overlapped, overtaken, nested, outrun>>
vars == <<window, sending, signals, counts, io, shared, net, crashed, hist>>

-----------------------------------------------------------------------------
Idle == [pc |-> "idle", sess |-> NoId]
At(t, pc) == io[t].pc = pc
Goto(t, pc) == io' = [io EXCEPT ![t].pc = pc]
Return(t) == io' = [io EXCEPT ![t] = Idle]
Emit(sig) == signals' = Append(signals, sig)
Running == crashed = "no"
\* The window thread is in an event loop: its own or that of a box.
InEventLoop == Running /\ sending = "no"
NoBox == InEventLoop /\ ui = <<>>
Open(box) == ui' = Append(ui, box)

-----------------------------------------------------------------------------
(* The windows *)

\* Nobody but the answer to an earlier press can make has_connect true.
on_btn_connect_clicked ==
  /\ NoBox /\ login_visible /\ ~is_connected
  /\ presses < MaxConnects
  /\ presses' = presses + 1
  /\ \/ /\ connecting' = connecting + 1
        /\ overlapped' = (overlapped \/ connecting > 0 \/ \E t \in Threads : ~At(t, "idle"))
        /\ UNCHANGED crashed
     \/ /\ crashed' = "unresolved"       \* resolve throws, and nobody catches it
        /\ UNCHANGED <<connecting, overlapped>>
  /\ UNCHANGED <<window, sending, signals, logins, io, shared, net, erased, told, overtaken,
                 nested, outrun>>

on_btn_login_clicked ==
  /\ NoBox /\ login_visible
  /\ \/ ~is_connected /\ Open("not_connected") /\ UNCHANGED <<sending, logins>>
     \/ /\ is_connected /\ logins < MaxLogins
        /\ sending' = "login" /\ logins' = logins + 1
        /\ UNCHANGED ui
  /\ UNCHANGED <<login_visible, main_visible, rows, signals, connecting, presses, io, shared, net,
                 crashed, hist>>

\* The request for the history of a row: nothing is asked before it is sent.
on_tableWidget_chat_cellDoubleClicked ==
  /\ NoBox /\ main_visible /\ rows
  /\ sending' = "history"
  /\ UNCHANGED <<window, signals, counts, io, shared, net, crashed, hist>>

btn_log_out ==
  /\ NoBox /\ main_visible
  /\ Open("confirm")
  /\ UNCHANGED <<login_visible, main_visible, rows, sending, signals, counts, io, shared, net,
                 crashed, hist>>

\* log_out, main.cpp: the user is forgotten, the main window cleared and
\* closed, and the login window shown.
LoggedOut ==
  /\ is_logined' = FALSE
  /\ rows' = FALSE /\ main_visible' = FALSE /\ login_visible' = TRUE

\* Is there something to log out, and somebody to tell?
log_out ==
  IF is_logined /\ is_connected
  THEN sending' = "log_out" /\ UNCHANGED <<is_logined, rows, main_visible, login_visible>>
  ELSE LoggedOut /\ UNCHANGED sending

\* send_to: the session of cur_id; what is sent over a dead link is lost.
send_to ==
  /\ Running /\ sending # "no"
  /\ \/ /\ cur_id \in sessions
        /\ requests' = [requests EXCEPT ![cur_id] =
                          IF sending = "login" /\ link[cur_id] = "open" THEN @ + 1 ELSE @]
        /\ sending' = "no"
        /\ IF sending = "log_out" THEN LoggedOut
           ELSE UNCHANGED <<is_logined, rows, main_visible, login_visible>>
        /\ UNCHANGED crashed
     \/ /\ cur_id \notin sessions
        /\ crashed' = "null session"
        /\ UNCHANGED <<requests, sending, is_logined, rows, main_visible, login_visible>>
  /\ UNCHANGED <<ui, signals, counts, io, id_increment, cur_id, sessions, is_connected, link, inbox,
                 hist>>

\* Mutant: after a failed connection the main window is not left.
DismissAndStay ==
  /\ InEventLoop /\ ui # <<>>
  /\ ui' = Front(ui)
  /\ main_visible' = (main_visible \/ Last(ui) = "login_ok")
  /\ login_visible' = (login_visible /\ Last(ui) # "login_ok")
  /\ UNCHANGED <<rows, sending, signals, counts, io, shared, net, crashed, hist>>

\* The user closes the innermost box, and the slot that opened it goes on.
Dismiss ==
  /\ InEventLoop /\ ui # <<>>
  /\ LET box == Last(ui) IN
     \/ /\ box \in {"connected", "login_bad", "not_connected", "confirm"}
        /\ ui' = Front(ui)
        /\ UNCHANGED <<login_visible, main_visible, rows, sending, is_logined>>
     \/ /\ box \in {"confirm", "reconnect"}
        /\ ui' = Front(ui) /\ log_out
     \/ /\ box = "failed"
        /\ ui' = IF login_visible THEN Front(ui) ELSE Append(Front(ui), "reconnect")
        /\ UNCHANGED <<login_visible, main_visible, rows, sending, is_logined>>
     \/ /\ box = "login_ok"
        /\ ui' = Front(ui)
        /\ login_visible' = FALSE /\ main_visible' = TRUE
        /\ UNCHANGED <<rows, sending, is_logined>>
  /\ UNCHANGED <<signals, counts, io, id_increment, cur_id, sessions, is_connected, net, crashed, hist>>

\* A login that is being accepted and that the windows do not show yet.
LoginUnderWay == \/ is_logined /\ login_visible
                 \/ \E t \in Threads : io[t].pc \in {"login_success", "emit_login"}
                 \/ \E i \in DOMAIN signals : signals[i].type = "can_check_login"

\* on_connect, on_login and on_recv_chat_lists, also inside a box.
HandleSignal ==
  /\ InEventLoop /\ signals # <<>>
  /\ signals' = Tail(signals)
  /\ LET sig == Head(signals) IN
     \/ /\ sig.type = "can_check_connect"
        /\ Open(IF is_connected THEN "connected" ELSE "failed")
        /\ told' = told \cup ({sig.sess} \cap Ids)
        /\ nested' = (nested \/ ui # <<>>)
        /\ outrun' = (outrun \/ (~is_connected /\ LoginUnderWay))
        /\ UNCHANGED rows
     \/ /\ sig.type = "can_check_login"
        /\ Open(IF is_logined THEN "login_ok" ELSE "login_bad")
        /\ nested' = (nested \/ ui # <<>>)
        /\ UNCHANGED <<rows, told, outrun>>
     \/ /\ sig.type = "recv_chat_lists"
        /\ rows' = TRUE
        /\ UNCHANGED <<ui, told, nested, outrun>>
  /\ UNCHANGED <<login_visible, main_visible, sending, counts, io, shared, net, crashed,
                 erased, overlapped, overtaken>>

-----------------------------------------------------------------------------
(* The io threads: the completion of connect *)

MutexFree == \A t \in Threads : io[t].pc \notin {"emplace", "set_connected"}

ConnectFails(t) ==
  /\ Running /\ At(t, "idle") /\ connecting > 0
  /\ connecting' = connecting - 1
  /\ Emit([type |-> "can_check_connect", sess |-> NoId])
  /\ UNCHANGED <<window, sending, presses, logins, io, shared, net, crashed, hist>>

\* Mutant: connected is said before there is a session.
TakeIdConnected(t) ==
  /\ Running /\ At(t, "idle") /\ connecting > 0 /\ MutexFree
  /\ connecting' = connecting - 1
  /\ id_increment' = id_increment + 1
  /\ cur_id' = id_increment + 1
  /\ is_connected' = TRUE
  /\ io' = [io EXCEPT ![t] = [pc |-> "emplace", sess |-> id_increment + 1]]
  /\ UNCHANGED <<window, sending, signals, presses, logins, sessions,
                 is_logined, net, crashed, hist>>

\* The id is taken, under the mutex of the map, ...
TakeId(t) ==
  /\ Running /\ At(t, "idle") /\ connecting > 0 /\ MutexFree
  /\ connecting' = connecting - 1
  /\ id_increment' = id_increment + 1
  /\ cur_id' = id_increment + 1
  /\ io' = [io EXCEPT ![t] = [pc |-> "emplace", sess |-> id_increment + 1]]
  /\ UNCHANGED <<window, sending, signals, presses, logins, sessions, is_connected,
                 is_logined, net, crashed, hist>>

\* ... the session is made and starts to read, ...
Emplace(t) ==
  /\ Running /\ At(t, "emplace")
  /\ sessions' = sessions \cup {io[t].sess}
  /\ link' = [link EXCEPT ![io[t].sess] = "open"]
  /\ Goto(t, "set_connected")
  /\ UNCHANGED <<window, sending, signals, counts, id_increment, cur_id, is_connected, is_logined,
                 requests, inbox, crashed, hist>>

\* ... and only then is the client connected.
SetConnected(t) ==
  /\ Running /\ At(t, "set_connected")
  /\ is_connected' = TRUE
  /\ Goto(t, "emit_connect")
  /\ UNCHANGED <<window, sending, signals, counts, id_increment, cur_id, sessions, is_logined, net,
                 crashed, hist>>

on_connect_callback(t) ==
  /\ Running /\ At(t, "emit_connect")
  /\ Emit([type |-> "can_check_connect", sess |-> NoId])
  /\ Return(t)
  /\ UNCHANGED <<window, sending, counts, shared, net, crashed, hist>>

-----------------------------------------------------------------------------
(* The io threads: the messages of a session, ClientDispatcher::handle_data *)

FirstStep == [login_ok |-> "login_success", login_bad |-> "emit_login", rooms |-> "set_lists",
              eof |-> "set_disconnected"]

\* Messages are started in the order in which they came.
handle_data(t) ==
  /\ Running /\ At(t, "idle")
  /\ \E s \in Ids :
       /\ inbox[s] # <<>>
       /\ inbox' = [inbox EXCEPT ![s] = Tail(@)]
       /\ io' = [io EXCEPT ![t] = [pc |-> FirstStep[Head(inbox[s])], sess |-> s]]
  /\ UNCHANGED <<window, sending, signals, counts, shared, link, requests, crashed, hist>>

login_success(t) ==
  /\ Running /\ At(t, "login_success")
  /\ is_logined' = TRUE
  /\ Goto(t, "emit_login")
  /\ UNCHANGED <<window, sending, signals, counts, id_increment, cur_id, sessions, is_connected,
                 net, crashed, hist>>

on_login_callback(t) ==
  /\ Running /\ At(t, "emit_login")
  /\ Emit([type |-> "can_check_login", sess |-> NoId])
  /\ Return(t)
  /\ UNCHANGED <<window, sending, counts, shared, net, crashed, hist>>

set_chatRoom_list(t) ==
  /\ Running /\ At(t, "set_lists")
  /\ Emit([type |-> "recv_chat_lists", sess |-> NoId])
  /\ Return(t)
  /\ UNCHANGED <<window, sending, counts, shared, net, crashed, hist>>

\* disconnect: the flag, then the session of cur_id, whichever that is.
SetDisconnected(t) ==
  /\ Running /\ At(t, "set_disconnected")
  /\ is_connected' = FALSE
  /\ overtaken' = (overtaken \/ ~MutexFree)
  /\ Goto(t, "erase")
  /\ UNCHANGED <<window, sending, signals, counts, id_increment, cur_id, sessions, is_logined, net,
                 crashed, erased, told, overlapped, nested, outrun>>

\* Mutant: the session stays in the map.
EraseNothing(t) ==
  /\ Running /\ At(t, "erase")
  /\ erased' = erased \cup ({cur_id} \cap sessions)
  /\ Goto(t, "emit_disconnect")
  /\ UNCHANGED <<window, sending, signals, counts, shared, net, crashed, told, overlapped, overtaken,
                 nested, outrun>>

Erase(t) ==
  /\ Running /\ At(t, "erase")
  /\ sessions' = sessions \ {cur_id}
  /\ erased' = erased \cup ({cur_id} \cap sessions)
  /\ Goto(t, "emit_disconnect")
  /\ UNCHANGED <<window, sending, signals, counts, id_increment, cur_id, is_connected, is_logined,
                 net, crashed, told, overlapped, overtaken, nested, outrun>>

\* Mutant: the window is not told.
DisconnectSilently(t) ==
  /\ Running /\ At(t, "emit_disconnect")
  /\ Return(t)
  /\ UNCHANGED <<window, sending, signals, counts, shared, net, crashed, hist>>

DisconnectCallback(t) ==
  /\ Running /\ At(t, "emit_disconnect")
  /\ Emit([type |-> "can_check_connect", sess |-> io[t].sess])
  /\ Return(t)
  /\ UNCHANGED <<window, sending, counts, shared, net, crashed, hist>>

-----------------------------------------------------------------------------
(* The server and the network *)

\* The server answers a login; the answers to the other messages change
\* nothing but texts.
Answers == {<<"rooms", "login_ok">>, <<"login_bad">>}

Answer(s) ==
  /\ Running /\ link[s] = "open" /\ requests[s] > 0
  /\ requests' = [requests EXCEPT ![s] = @ - 1]
  /\ \E reply \in Answers : inbox' = [inbox EXCEPT ![s] = @ \o reply]
  /\ UNCHANGED <<window, sending, signals, counts, io, shared, link, crashed, hist>>

\* The server closes the connection: Session hands over a last message.
PeerCloses(s) ==
  /\ Running /\ link[s] = "open"
  /\ link' = [link EXCEPT ![s] = "closed"]
  /\ inbox' = [inbox EXCEPT ![s] = Append(@, "eof")]
  /\ UNCHANGED <<window, sending, signals, counts, io, shared, requests, crashed, hist>>

\* Any other error is only logged by Session::handle_error.
LinkBreaks(s) ==
  /\ Running /\ link[s] = "open"
  /\ link' = [link EXCEPT ![s] = "broken"]
  /\ UNCHANGED <<window, sending, signals, counts, io, shared, requests, inbox, crashed, hist>>

-----------------------------------------------------------------------------
Init ==
  /\ ui = <<>> /\ sending = "no" /\ login_visible = TRUE /\ main_visible = FALSE /\ rows = FALSE
  /\ signals = <<>> /\ connecting = 0 /\ presses = 0 /\ logins = 0
  /\ io = [t \in Threads |-> Idle]
  /\ id_increment = 0 /\ cur_id = NoId /\ sessions = {}
  /\ is_connected = FALSE /\ is_logined = FALSE
  /\ link = [s \in Ids |-> "none"]
  /\ requests = [s \in Ids |-> 0]
  /\ inbox = [s \in Ids |-> <<>>]
  /\ crashed = "no"
  /\ erased = {} /\ told = {} /\ overlapped = FALSE /\ overtaken = FALSE /\ nested = FALSE /\ outrun = FALSE

Slot == \/ HandleSignal
        \/ send_to

User == \/ on_btn_connect_clicked
        \/ on_btn_login_clicked
        \/ on_tableWidget_chat_cellDoubleClicked
        \/ btn_log_out
        \/ Dismiss

IoThread(t) == \/ ConnectFails(t)
               \/ TakeId(t)
               \/ Emplace(t)
               \/ SetConnected(t)
               \/ on_connect_callback(t)
               \/ handle_data(t)
               \/ login_success(t)
               \/ on_login_callback(t)
               \/ set_chatRoom_list(t)
               \/ SetDisconnected(t)
               \/ Erase(t)
               \/ DisconnectCallback(t)

Network(s) == \/ Answer(s)
              \/ PeerCloses(s)
              \/ LinkBreaks(s)

Next == \/ Slot
        \/ User
        \/ \E t \in Threads : IoThread(t)
        \/ \E s \in Ids : Network(s)

Spec == Init /\ [][Next]_vars

-----------------------------------------------------------------------------
(* Properties *)

Boxes == {"connected", "failed", "reconnect", "login_ok", "login_bad", "not_connected", "confirm"}
TypeOK ==
  /\ ui \in Seq(Boxes)
  /\ sending \in {"no", "login", "history", "log_out"}
  /\ {login_visible, main_visible, rows, is_connected, is_logined, overlapped, overtaken, nested, outrun}
       \subseteq BOOLEAN
  /\ signals \in Seq([type : {"can_check_connect", "can_check_login", "recv_chat_lists"},
                      sess : Ids \cup {NoId}])
  /\ connecting \in 0..presses /\ presses \in 0..MaxConnects /\ logins \in 0..MaxLogins
  /\ id_increment + connecting <= presses
  /\ sessions \subseteq Ids /\ cur_id \in Ids \cup {NoId} /\ cur_id = id_increment
  /\ erased \subseteq Ids \ sessions
  /\ link \in [Ids -> {"none", "open", "closed", "broken"}]
  /\ \A s \in Ids : ToSet(inbox[s]) \subseteq DOMAIN FirstStep
  /\ crashed \in {"no", "unresolved", "null session"}

Rest == /\ NoBox /\ signals = <<>>
        /\ \A t \in Threads : At(t, "idle")

\* A null session is used only after the end of a connection has taken the
\* session of cur_id out of the map (send_to looks nothing up before it uses
\* it, client.cpp:204), or while a second connection, asked for before the
\* first was there, has set cur_id and not yet made its session.
NullUseExplained ==
  crashed = "null session" => erased # {} \/ overlapped

\* When all is quiet, a client that says it is connected has the session it
\* will use, and no other, unless two connections were asked for at a time
\* or an end overtook the completion of connect, which starts to read before
\* it sets is_connected (client.cpp:33 to 43 and 310 to 315).
ConnectedHasSession ==
  Rest => \/ overlapped
          \/ overtaken
          \/ sessions = IF is_connected THEN {cur_id} ELSE {}

\* What the client believes of its connections, and the types of its variables.
ConnectionsExplained == TypeOK /\ NullUseExplained /\ ConnectedHasSession

\* When all is quiet the main window is shown only to a user who is logged
\* in over a connection, unless a box was opened over another one: the slot
\* below it then acts on an answer that is no longer true (LoginWidget.cpp:95);
\* or the end was shown before the answer to the login.
MainWindowHonest ==
  Rest /\ main_visible => \/ is_logined /\ (is_connected \/ overlapped \/ overtaken)
                          \/ nested
                          \/ outrun

\* When all is quiet the window has been told of every connection that the
\* server closed, whatever box was open; of one that broke it never learns
\* (Session.cpp:115).
EndTold ==
  Rest /\ (\A s \in Ids : inbox[s] = <<>>) => \A s \in Ids : link[s] = "closed" => s \in told
=============================================================================
