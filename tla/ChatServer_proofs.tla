-------------------------- MODULE ChatServer_proofs --------------------------
(***************************************************************************)
(* What holds of ChatServer for every number of io threads, clients,       *)
(* users, messages and failures.                                           *)
(***************************************************************************)
EXTENDS ChatServer, FiniteSetTheorems, TLAPS

-----------------------------------------------------------------------------
(* The inductive invariant *)

Job == [pc : Places, conn : Ids \cup {0}, user : Users \cup {NoUser}, to : Ids \cup {0}]

\* Where a handler is before it has said whom it has set ONLINE, where it acts
\* for somebody whose password was right, and where it may still signal.
BeforeStatus == {"verifyUserInfo", "add_user", "set_online", "set_id", "update_info", "set_status"}
Granted == {"add_user", "set_online", "set_id", "update_info", "set_status", "send_rooms",
            "on_user_log", "reply"}
Signalling == BeforeStatus \cup {"send_rooms", "on_user_log", "log_out_query", "log_out_offline",
                                 "log_out_signal"}
Leaving == {"erase", "set_offline"}

\* Session i may be given what is said to u: it gave u's password, or it is
\* session 0, which u seems to be while user_login is at work for the first time.
MayReach(i, u, grants) == i \in grants[u] \/ (i = 0 /\ grants[u] # {})

\* What is known of a handler under way.
JobHonest(j) ==
  /\ j.pc # "idle" => j.conn \in Ids /\ j.to \in Ids
  /\ j.pc = "accept" => j.conn = id_increment - 1 /\ peer[j.conn] = "none"
  /\ j.pc \notin {"idle", "accept"} => peer[j.conn] # "none" /\ peer[j.to] # "none"
  /\ j.pc \notin {"idle", "accept", "crash", "erase", "set_offline"} => j.user \in Users
  /\ j.pc \in Leaving => peer[j.conn] = "closed" /\ told[j.conn] = NoUser
  /\ j.pc \in Granted => j.conn \in granted[j.user]
  /\ j.pc \in {"is_online", "forward"} => MayReach(j.to, j.user, granted)
  /\ j.pc = "feedback" => \E i \in Ids : Chat(j.conn, j.user) \in outbox[i]
  /\ j.pc \in BeforeStatus /\ life # "running" => j.user \in late
JobsHonest == \A t \in Threads : JobHonest(io[t])

\* Two threads neither accept at a time nor handle the end of the same session.
Alone ==
  \A s, t \in Threads :
    \/ s = t
    \/ /\ ~(At(s, "accept") /\ At(t, "accept"))
       /\ io[s].pc \in Leaving /\ io[t].pc \in Leaving => io[s].conn # io[t].conn

\* The clients are there in the order of their numbers, and the map has those
\* that are connected.
Accepted ==
  /\ \A c \in Ids : peer[c] # "none" => c < id_increment
  /\ \A c \in Ids : c < id_increment /\ peer[c] = "none" =>
       c = id_increment - 1 /\ \E t \in Threads : At(t, "accept")
  /\ \A c \in Ids : peer[c] = "open" => c \in sessions
  /\ \A c \in Ids : told[c] # NoUser => peer[c] = "closed"

\* The table knows sessions that there were.
Table ==
  \A u \in DOMAIN local_user_table : LET i == local_user_table[u].id IN
    /\ i \in Ids /\ peer[i] # "none"
    /\ \/ i \in granted[u]
       \/ i = 0 /\ \E t \in Threads : io[t].pc \in {"set_online", "set_id"} /\ io[t].user = u

\* What sessions were given to send.
Outbox ==
  /\ \A i \in Ids : \A m \in outbox[i] : m.type = "chat" => MayReach(i, m.to, granted)
  /\ FeedbackHonest

Signallers == {t \in Threads : io[t].pc \in Signalling}
SignalsCounted == signals + Cardinality(Signallers) <= messages

Missing == crashed = "null session" =>
             \E t \in Threads : At(t, "crash") /\ peer[io[t].to] = "closed"

\* Who is ONLINE has a session, or one that ended without his name, or it is
\* about to be found out that it is gone.
Online ==
  crashed = "no" =>
    \A u \in status : \E c \in granted[u] :
      \/ c \in sessions \/ told[c] # u
      \/ \E t \in Threads : At(t, "send_rooms") /\ io[t].conn = c

Shown ==
  crashed = "no" /\ life = "running" =>
    \/ status \subseteq shown \/ signals > 0
    \/ \E t \in Threads : io[t].pc \in {"send_rooms", "on_user_log"}

Offline == life \in {"offline", "destroyed", "joined"} => status \subseteq late

IInv == /\ TypeOK /\ JobsHonest /\ Alone /\ Accepted /\ Table /\ Outbox /\ SignalsCounted
        /\ Missing /\ Online /\ Shown /\ Offline

-----------------------------------------------------------------------------
(* What the steps have in common *)

LEMMA Numbers ==
  ASSUME TypeOK
  PROVE  /\ MaxConns \in Nat /\ MaxMessages \in Nat /\ MaxFailures \in Nat
         /\ id_increment \in Nat /\ id_increment <= MaxConns
         /\ messages \in Nat /\ messages <= MaxMessages
         /\ failures \in Nat /\ failures <= MaxFailures
         /\ signals \in Nat /\ signals <= MaxMessages
<1>1. MaxConns \in Nat /\ MaxMessages \in Nat /\ MaxFailures \in Nat
  BY ServerAssumption
<1>2. /\ id_increment \in 0..MaxConns /\ messages \in 0..MaxMessages
      /\ failures \in 0..MaxFailures /\ signals \in 0..MaxMessages
  BY DEF TypeOK
<1> QED
  BY <1>1, <1>2

\* Thread t goes on to pc in the same handler, or ends it.
Continues(t, pc) ==
  /\ io' \in [Threads -> Job]
  /\ io'[t].pc = pc
  /\ pc # "idle" => io'[t].conn = io[t].conn /\ io'[t].user = io[t].user
  /\ \A s \in Threads \ {t} : io'[s] = io[s]
Moves(t, pc) == Continues(t, pc) /\ (pc # "idle" => io'[t].to = io[t].to)

LEMMA Moved ==
  ASSUME TypeOK, NEW t \in Threads, NEW pc \in Places
  PROVE  /\ Goto(t, pc) => Moves(t, pc)
         /\ Return(t) => Moves(t, "idle")
<1>1. io \in [Threads -> Job] /\ io[t] \in Job
  BY DEF TypeOK, Job
<1>2. ASSUME Goto(t, pc) PROVE Moves(t, pc)
  <2>1. io' = [io EXCEPT ![t] = [@ EXCEPT !.pc = pc]]
    BY <1>2 DEF Goto
  <2>2. [io[t] EXCEPT !.pc = pc] \in Job
    BY <1>1 DEF Job
  <2> QED
    BY <1>1, <2>1, <2>2 DEF Moves, Continues, Job
<1>3. ASSUME Return(t) PROVE Moves(t, "idle")
  <2>1. Idle \in Job /\ Idle.pc = "idle"
    BY DEF Idle, Job, Places
  <2> QED
    BY <1>1, <1>3, <2>1 DEF Return, Moves, Continues
<1> QED
  BY <1>2, <1>3

\* A thread begins to execute a handler.
LEMMA Begun ==
  ASSUME TypeOK, NEW t \in Threads, NEW pc \in Places, NEW c \in Ids, NEW u \in Users \cup {NoUser},
         io' = [io EXCEPT ![t] = Handler(pc, c, u)]
  PROVE  /\ io' \in [Threads -> Job]
         /\ io'[t].pc = pc /\ io'[t].conn = c /\ io'[t].user = u /\ io'[t].to = c
         /\ \A s \in Threads \ {t} : io'[s] = io[s]
<1>1. io \in [Threads -> Job]
  BY DEF TypeOK, Job
<1>2. Handler(pc, c, u) \in Job
  BY DEF Handler, Job
<1> QED
  BY <1>1, <1>2 DEF Handler

\* The other handlers stay what they are.
LEMMA OthersHonest ==
  ASSUME IInv, NEW t \in Threads, \A s \in Threads \ {t} : io'[s] = io[s],
         UNCHANGED <<id_increment, peer, told, life, late>>,
         \A u \in Users : granted[u] \subseteq granted'[u],
         \A i \in Ids : outbox[i] \subseteq outbox'[i],
         JobHonest(io[t])'
  PROVE  JobsHonest'
<1> SUFFICES ASSUME NEW s \in Threads, s # t PROVE JobHonest(io[s])'
  BY DEF JobsHonest
<1>1. JobHonest(io[s]) /\ io'[s] = io[s]
  BY DEF IInv, JobsHonest
<1>2. ASSUME io[s].user \in Users, io[s].pc \in {"is_online", "forward"}
      PROVE  MayReach(io[s].to, io[s].user, granted')
  BY <1>1, <1>2 DEF JobHonest, MayReach
<1>3. ASSUME io[s].pc = "feedback"
      PROVE  \E i \in Ids : Chat(io[s].conn, io[s].user) \in outbox'[i]
  BY <1>1, <1>3 DEF JobHonest
<1>4. io[s].pc \in Granted => io[s].user \in Users
  BY <1>1 DEF JobHonest, Granted
<1> QED
  BY <1>1, <1>2, <1>3, <1>4 DEF JobHonest

LEMMA AloneKept ==
  ASSUME IInv, NEW t \in Threads, NEW pc, Continues(t, pc),
         pc # "accept", pc \in Leaving => io[t].pc \in Leaving
  PROVE  Alone'
BY DEF IInv, Alone, Continues, Leaving, At

LEMMA Counted ==
  ASSUME NEW t \in Threads, \A s \in Threads \ {t} : io'[s] = io[s]
  PROVE  /\ Cardinality(Signallers) \in Nat /\ Cardinality(Signallers') \in Nat
         /\ Cardinality(Signallers') <= Cardinality(Signallers) + 1
         /\ io[t].pc \in Signalling \/ io'[t].pc \notin Signalling =>
              Cardinality(Signallers') <= Cardinality(Signallers)
         /\ io[t].pc \in Signalling /\ io'[t].pc \notin Signalling =>
              Cardinality(Signallers') + 1 <= Cardinality(Signallers)
<1> DEFINE S == Signallers
<1>1. IsFiniteSet(S)
  BY ServerAssumption, FS_Subset DEF Signallers
<1>2. Cardinality(S) \in Nat
  BY <1>1, FS_CardinalityType
<1>3. S' = IF io'[t].pc \in Signalling THEN S \cup {t} ELSE S \ {t}
  BY DEF Signallers
<1>4. t \in S <=> io[t].pc \in Signalling
  BY DEF Signallers
<1> HIDE DEF S
<1>5. /\ Cardinality(S \cup {t}) = IF t \in S THEN Cardinality(S) ELSE Cardinality(S) + 1
      /\ Cardinality(S \ {t}) = IF t \in S THEN Cardinality(S) - 1 ELSE Cardinality(S)
  BY <1>1, FS_AddElement, FS_RemoveElement
<1>6. t \in S => Cardinality(S) # 0
  BY <1>1, FS_EmptySet
<1>7. /\ Cardinality(S) \in Nat /\ Cardinality(S') \in Nat
      /\ Cardinality(S') <= Cardinality(S) + 1
      /\ t \in S \/ io'[t].pc \notin Signalling => Cardinality(S') <= Cardinality(S)
      /\ t \in S /\ io'[t].pc \notin Signalling => Cardinality(S') + 1 <= Cardinality(S)
  BY <1>2, <1>3, <1>5, <1>6
<1> QED
  BY <1>4, <1>7 DEF S

LEMMA TableKept ==
  ASSUME IInv, NEW t \in Threads, \A s \in Threads \ {t} : io'[s] = io[s],
         io[t].pc \notin {"set_online", "set_id"},
         \A u \in Users : granted[u] \subseteq granted'[u],
         \A c \in Ids : peer[c] # "none" => peer'[c] # "none",
         UNCHANGED local_user_table
  PROVE  Table'
<1>1. DOMAIN local_user_table \subseteq Users
  BY DEF IInv, TypeOK
<1> SUFFICES ASSUME NEW u \in DOMAIN local_user_table
             PROVE  LET i == local_user_table[u].id
                    IN  /\ i \in Ids /\ peer'[i] # "none"
                        /\ \/ i \in granted'[u]
                           \/ i = 0 /\ \E s \in Threads :
                                io'[s].pc \in {"set_online", "set_id"} /\ io'[s].user = u
  BY DEF Table
<1> QED
  BY <1>1 DEF IInv, Table

LEMMA OutboxKept ==
  ASSUME IInv, \A u \in Users : granted[u] \subseteq granted'[u], UNCHANGED outbox
  PROVE  Outbox'
<1>1. \A i \in Ids : outbox[i] \subseteq MessageType
  BY DEF IInv, TypeOK
<1>2. \A m \in MessageType : m.type = "chat" => m.to \in Users
  BY DEF MessageType
<1>3. ASSUME NEW i \in Ids, NEW m \in outbox[i], m.type = "chat" PROVE MayReach(i, m.to, granted')
  BY <1>1, <1>2, <1>3 DEF IInv, Outbox, MayReach
<1>4. FeedbackHonest'
  BY DEF IInv, Outbox, FeedbackHonest, Feedback, Chat
<1> QED
  BY <1>3, <1>4 DEF Outbox

\* A step of a handler that changes neither the map of sessions nor the data
\* base nor the window, and that only adds to what was granted and sent.
LEMMA PlainStep ==
  ASSUME IInv, crashed = "no", NEW t \in Threads, NEW pc, Continues(t, pc),
         pc \notin {"accept", "erase", "crash"},
         pc = "set_offline" => io[t].pc = "erase",
         pc \in Signalling => io[t].pc \in Signalling,
         io[t].pc = "send_rooms" => pc = "on_user_log" /\ io[t].conn \in sessions,
         io[t].pc \notin {"on_user_log", "accept"},
         UNCHANGED <<counts, sessions, status, window, life, crashed, told, late>>,
         failures' \in 0..MaxFailures, info' \in [Ids -> Users \cup {NoUser}],
         granted' \in [Users -> SUBSET Ids], outbox' \in [Ids -> SUBSET MessageType],
         DOMAIN local_user_table' \subseteq Users,
         \A u \in DOMAIN local_user_table' : local_user_table'[u] \in [isOnline : BOOLEAN, id : Ids],
         \A u \in Users : granted[u] \subseteq granted'[u],
         \A i \in Ids : outbox[i] \subseteq outbox'[i],
         JobHonest(io[t])', Table', Outbox'
  PROVE  IInv'
<1>1. UNCHANGED <<id_increment, peer, messages, sessions, status, signals, shown, life, crashed,
                  told, late>>
  BY DEF counts, window
<1>2. TypeOK'
  BY <1>1 DEF IInv, TypeOK, Continues, Job
<1>3. JobsHonest'
  BY <1>1, OthersHonest DEF Continues
<1>4. Alone'
  BY AloneKept DEF Leaving
<1>5. Accepted'
  <2>1. ASSUME NEW c \in Ids, c < id_increment, peer[c] = "none"
        PROVE  c = id_increment - 1 /\ \E s \in Threads : At(s, "accept")
    BY <2>1 DEF IInv, Accepted
  <2>2. ASSUME NEW s \in Threads, At(s, "accept"), s # t PROVE At(s, "accept")'
    BY <2>2 DEF Continues, At
  <2>3. ~At(t, "accept")
    BY DEF At
  <2>4. \A c \in Ids : c < id_increment' /\ peer'[c] = "none" =>
          c = id_increment' - 1 /\ \E s \in Threads : At(s, "accept")'
    BY <1>1, <2>1, <2>2, <2>3
  <2> QED
    BY <1>1, <2>4 DEF IInv, Accepted
<1>6. SignalsCounted'
  <2> DEFINE n == Cardinality(Signallers)
  <2>1. n \in Nat /\ n' \in Nat /\ n' <= n
    BY Counted DEF Continues
  <2>2. signals + n <= messages /\ signals \in Nat /\ messages \in Nat
    BY Numbers DEF IInv, SignalsCounted
  <2>3. signals + n' <= messages
    BY <2>1, <2>2
  <2> QED
    BY <1>1, <2>3 DEF SignalsCounted
<1>7. Missing'
  BY <1>1 DEF Missing
<1>8. Online'
  <2> SUFFICES ASSUME NEW u \in status
               PROVE  \E c \in granted'[u] :
                        \/ c \in sessions \/ told[c] # u
                        \/ \E s \in Threads : At(s, "send_rooms")' /\ io'[s].conn = c
    BY <1>1 DEF Online
  <2>1. u \in Users
    BY DEF IInv, TypeOK
  <2>2. PICK c \in granted[u] : \/ c \in sessions \/ told[c] # u
                                \/ \E s \in Threads : At(s, "send_rooms") /\ io[s].conn = c
    BY DEF IInv, Online
  <2>3. ASSUME NEW s \in Threads, At(s, "send_rooms"), io[s].conn = c, c \notin sessions
        PROVE  At(s, "send_rooms")' /\ io'[s].conn = c
    BY <2>3 DEF Continues, At
  <2> QED
    BY <2>1, <2>2, <2>3
<1>9. Shown' /\ Offline'
  <2>1. ASSUME NEW s \in Threads, io[s].pc \in {"send_rooms", "on_user_log"}
        PROVE  io'[s].pc \in {"send_rooms", "on_user_log"}
    BY <2>1 DEF Continues
  <2> QED
    BY <1>1, <2>1 DEF IInv, Shown, Offline
<1> QED
  BY <1>2, <1>3, <1>4, <1>5, <1>6, <1>7, <1>8, <1>9 DEF IInv

LEMMA IdleHonest == ASSUME NEW t \in Threads, io'[t].pc = "idle" PROVE JobHonest(io[t])'
BY DEF JobHonest, Leaving, Granted, BeforeStatus

\* A handler goes on after what it has done for a user.
LEMMA GoesOn ==
  ASSUME IInv, NEW t \in Threads, NEW pc, Moves(t, pc),
         io[t].pc \notin {"idle", "accept", "crash", "erase", "set_offline"},
         pc \notin {"idle", "accept", "erase", "set_offline"},
         UNCHANGED <<id_increment, peer, life, late>>,
         \A u \in Users : granted[u] \subseteq granted'[u],
         pc \in Granted => io[t].pc \in Granted \/ io[t].conn \in granted'[io[t].user],
         pc \in {"is_online", "forward"} => io[t].pc \in {"is_online", "forward"},
         pc = "feedback" => \E i \in Ids : Chat(io[t].conn, io[t].user) \in outbox'[i],
         pc \in BeforeStatus => io[t].pc \in BeforeStatus
  PROVE  JobHonest(io[t])'
<1>1. JobHonest(io[t])
  BY DEF IInv, JobsHonest
<1>2. /\ io'[t].pc = pc /\ io'[t].conn = io[t].conn /\ io'[t].user = io[t].user
      /\ io'[t].to = io[t].to
  BY DEF Moves, Continues
<1>3. io[t].user \in Users
  BY <1>1 DEF JobHonest
<1>4. pc \in Granted => io[t].conn \in granted'[io[t].user]
  BY <1>1, <1>3 DEF JobHonest
<1>5. pc \in {"is_online", "forward"} => MayReach(io[t].to, io[t].user, granted')
  BY <1>1, <1>3 DEF JobHonest, MayReach
<1>6. pc \in BeforeStatus /\ life # "running" => io[t].user \in late
  BY <1>1 DEF JobHonest
<1> QED
  BY <1>1, <1>2, <1>3, <1>4, <1>5, <1>6 DEF JobHonest, Leaving

\* A step of a handler that changes nothing but where it is.
LEMMA SilentStep ==
  ASSUME IInv, crashed = "no", NEW t \in Threads, NEW pc, Moves(t, pc),
         pc \notin {"accept", "erase", "crash", "set_offline"},
         pc \in Signalling => io[t].pc \in Signalling,
         io[t].pc \notin {"send_rooms", "on_user_log", "accept", "set_online", "set_id"},
         UNCHANGED <<counts, tables, status, outbox, window, life, crashed, hist>>,
         failures' \in 0..MaxFailures,
         JobHonest(io[t])'
  PROVE  IInv'
<1>1. UNCHANGED <<counts, sessions, status, window, life, crashed, told, late, info, granted,
                  local_user_table, outbox, peer>>
  BY DEF tables, hist, counts
<1>2. Table' /\ Outbox'
  BY <1>1, TableKept, OutboxKept DEF Moves, Continues
<1>3. /\ info' \in [Ids -> Users \cup {NoUser}]
      /\ granted' \in [Users -> SUBSET Ids] /\ outbox' \in [Ids -> SUBSET MessageType]
      /\ DOMAIN local_user_table' \subseteq Users
      /\ \A u \in DOMAIN local_user_table' : local_user_table'[u] \in [isOnline : BOOLEAN, id : Ids]
      /\ \A u \in Users : granted[u] \subseteq granted'[u]
      /\ \A i \in Ids : outbox[i] \subseteq outbox'[i]
  BY <1>1 DEF IInv, TypeOK
<1> QED
  BY <1>1, <1>2, <1>3, PlainStep DEF Moves

LEMMA SilentSteps ==
  ASSUME IInv, crashed = "no", NEW t \in Threads,
         \/ is_online(t) \/ LogOutQuery(t) \/ RoomQuery(t) \/ HistoryQuery(t) \/ Finish(t) \/ Throws(t)
  PROVE  IInv'
<1>0. TypeOK /\ failures \in 0..MaxFailures /\ MaxFailures \in Nat
  BY ServerAssumption DEF IInv, TypeOK
<1>1. ASSUME NEW pc \in {"forward", "feedback_failed", "log_out_offline", "room_feedback",
                         "history_send"},
             Goto(t, pc),
             <<io[t].pc, pc>> \in {<<"is_online", "forward">>, <<"is_online", "feedback_failed">>,
                                   <<"log_out_query", "log_out_offline">>,
                                   <<"room_query", "room_feedback">>,
                                   <<"history_query", "history_send">>},
             UNCHANGED <<counts, tables, status, outbox, window, life, crashed, failures, hist>>
      PROVE  IInv'
  <2>1. Moves(t, pc)
    BY <1>0, <1>1, Moved DEF Places
  <2>2. UNCHANGED <<id_increment, peer, granted, late>> /\ failures' \in 0..MaxFailures
    BY <1>0, <1>1 DEF counts, hist
  <2>3. JobHonest(io[t])'
    BY <1>1, <2>1, <2>2, GoesOn DEF Granted, BeforeStatus
  <2> QED
    BY <1>1, <2>1, <2>2, <2>3, SilentStep DEF Signalling, BeforeStatus
<1>2. ASSUME Return(t), io[t].pc \notin {"send_rooms", "on_user_log", "accept", "set_online", "set_id"},
             UNCHANGED <<counts, tables, status, outbox, window, life, crashed, hist>>,
             failures' \in 0..MaxFailures
      PROVE  IInv'
  <2>1. Moves(t, "idle")
    BY <1>0, <1>2, Moved DEF Places
  <2>2. JobHonest(io[t])'
    BY <2>1, IdleHonest DEF Moves, Continues
  <2> QED
    BY <1>2, <2>1, <2>2, SilentStep DEF Signalling, BeforeStatus
<1>3. CASE is_online(t)
  BY <1>1, <1>3 DEF is_online, At
<1>4. CASE LogOutQuery(t)
  BY <1>1, <1>4 DEF LogOutQuery, At
<1>5. CASE RoomQuery(t)
  BY <1>0, <1>1, <1>2, <1>5 DEF RoomQuery, At
<1>6. CASE HistoryQuery(t)
  BY <1>1, <1>6 DEF HistoryQuery, At
<1>7. CASE Finish(t)
  BY <1>0, <1>2, <1>7 DEF Finish
<1>8. CASE Throws(t)
  <2>1. failures' \in 0..MaxFailures
    BY <1>0, <1>8 DEF Throws
  <2> QED
    BY <1>2, <1>8, <2>1 DEF Throws
<1> QED
  BY <1>3, <1>4, <1>5, <1>6, <1>7, <1>8

\* A password is right, or it is not.
LEMMA VerifyStep ==
  ASSUME IInv, crashed = "no", NEW t \in Threads, verifyUserInfo(t)
  PROVE  IInv'
<1>1. /\ io[t].pc = "verifyUserInfo"
      /\ UNCHANGED <<counts, tables, status, outbox, window, life, crashed, failures, told, late>>
      /\ TypeOK
  BY DEF verifyUserInfo, At, IInv
<1>2. io[t].conn \in Ids /\ io[t].user \in Users
  BY <1>1 DEF IInv, JobsHonest, JobHonest
<1>3. UNCHANGED <<sessions, info, local_user_table, id_increment, peer>>
  BY <1>1 DEF tables, counts
<1>4. CASE /\ Goto(t, "add_user")
           /\ granted' = [granted EXCEPT ![io[t].user] = @ \cup {io[t].conn}]
  <2>1. Moves(t, "add_user")
    BY <1>1, <1>4, Moved DEF Places
  <2>2. /\ granted' \in [Users -> SUBSET Ids]
        /\ \A u \in Users : granted[u] \subseteq granted'[u]
        /\ io[t].conn \in granted'[io[t].user]
    BY <1>1, <1>2, <1>4 DEF TypeOK
  <2>3. JobHonest(io[t])'
    BY <1>1, <1>3, <2>1, <2>2, GoesOn DEF Granted, BeforeStatus
  <2>4. Table' /\ Outbox'
    BY <1>1, <1>3, <2>1, <2>2, TableKept, OutboxKept DEF Moves, Continues
  <2>5. /\ info' \in [Ids -> Users \cup {NoUser}] /\ outbox' \in [Ids -> SUBSET MessageType]
        /\ DOMAIN local_user_table' \subseteq Users /\ failures' \in 0..MaxFailures
        /\ \A u \in DOMAIN local_user_table' : local_user_table'[u] \in [isOnline : BOOLEAN, id : Ids]
        /\ \A i \in Ids : outbox[i] \subseteq outbox'[i]
    BY <1>1, <1>3 DEF TypeOK
  <2>6. "verifyUserInfo" \in Signalling
    BY DEF Signalling, BeforeStatus
  <2> QED
    BY <1>1, <1>3, <2>1, <2>2, <2>3, <2>4, <2>5, <2>6, PlainStep DEF Moves
<1>5. CASE Goto(t, "reply_failed") /\ UNCHANGED granted
  <2>1. Moves(t, "reply_failed")
    BY <1>1, <1>5, Moved DEF Places
  <2>2. JobHonest(io[t])'
    BY <1>1, <1>3, <1>5, <2>1, GoesOn DEF Granted, BeforeStatus
  <2>3. UNCHANGED hist /\ failures' \in 0..MaxFailures
    BY <1>1, <1>5 DEF hist, TypeOK
  <2> QED
    BY <1>1, <2>1, <2>2, <2>3, SilentStep DEF Signalling, BeforeStatus
<1> QED
  BY <1>4, <1>5 DEF verifyUserInfo

-----------------------------------------------------------------------------
(* The table of users *)

\* Session 0 is there once any session is.
LEMMA FirstIsThere ==
  ASSUME IInv, NEW c \in Ids, peer[c] # "none"
  PROVE  0 \in Ids /\ peer[0] # "none"
<1>1. MaxConns \in Nat /\ id_increment \in Nat
  BY Numbers DEF IInv
<1>2. 0 \in Ids /\ c \in Nat
  BY <1>1 DEF Ids
<1>3. c < id_increment
  BY DEF IInv, Accepted
<1>4. peer[0] = "none" => 0 = id_increment - 1
  BY <1>1, <1>2, <1>3 DEF IInv, Accepted
<1> QED
  BY <1>1, <1>2, <1>3, <1>4

\* A step of a handler of login that changes the table or the name of a session.
LEMMA TableStep ==
  ASSUME IInv, crashed = "no", NEW t \in Threads, NEW pc, Goto(t, pc),
         <<io[t].pc, pc>> \in {<<"add_user", "set_online">>, <<"set_online", "set_id">>,
                               <<"set_id", "update_info">>, <<"update_info", "set_status">>},
         UNCHANGED <<counts, sessions, status, outbox, window, life, crashed, failures, hist>>,
         info' \in [Ids -> Users \cup {NoUser}],
         DOMAIN local_user_table' \subseteq Users,
         \A u \in DOMAIN local_user_table' : local_user_table'[u] \in [isOnline : BOOLEAN, id : Ids],
         Table'
  PROVE  IInv'
<1>1. Moves(t, pc)
  BY Moved DEF IInv, Places
<1>2. UNCHANGED <<id_increment, peer, granted, told, late>>
  BY DEF counts, hist
<1>3. JobHonest(io[t])'
  <2>1. UNCHANGED <<life, late>>
    BY DEF hist
  <2>2. io[t].pc \in Granted \/ pc \notin Granted \/ io[t].conn \in granted'[io[t].user]
    BY DEF Granted
  <2>3. pc \in BeforeStatus => io[t].pc \in BeforeStatus
    BY DEF BeforeStatus
  <2> QED
    BY <1>1, <1>2, <2>1, <2>2, <2>3, GoesOn
<1>4. Outbox'
  BY <1>2, OutboxKept
<1>5. /\ failures' \in 0..MaxFailures
      /\ granted' \in [Users -> SUBSET Ids] /\ outbox' \in [Ids -> SUBSET MessageType]
      /\ \A u \in Users : granted[u] \subseteq granted'[u]
      /\ \A i \in Ids : outbox[i] \subseteq outbox'[i]
  BY <1>2 DEF IInv, TypeOK
<1>6. pc \in Signalling => io[t].pc \in Signalling
  BY DEF Signalling, BeforeStatus
<1> QED
  BY <1>1, <1>2, <1>3, <1>4, <1>5, <1>6, PlainStep DEF Moves

LEMMA LoginTableSteps ==
  ASSUME IInv, crashed = "no", NEW t \in Threads, AddUser(t) \/ SetOnline(t) \/ SetId(t)
  PROVE  IInv'
<1> DEFINE u == io[t].user
           c == io[t].conn
           old == local_user_table
<1>1. /\ io[t].pc \in {"add_user", "set_online", "set_id"}
      /\ UNCHANGED <<counts, sessions, info, status, outbox, window, life, crashed, failures, hist>>
      /\ UNCHANGED <<peer, granted>>
  BY DEF AddUser, SetOnline, SetId, At, counts, hist
<1>2. u \in Users /\ c \in Ids /\ peer[c] # "none" /\ c \in granted[u]
  BY <1>1 DEF IInv, JobsHonest, JobHonest, Granted
<1>3. /\ info' \in [Ids -> Users \cup {NoUser}] /\ DOMAIN old \subseteq Users
      /\ \A v \in DOMAIN old : old[v] \in [isOnline : BOOLEAN, id : Ids]
  BY <1>1 DEF IInv, TypeOK
<1>4. \A v \in DOMAIN old :
        /\ old[v].id \in Ids /\ peer[old[v].id] # "none"
        /\ \/ old[v].id \in granted[v]
           \/ old[v].id = 0 /\ \E s \in Threads :
                io[s].pc \in {"set_online", "set_id"} /\ io[s].user = v
  BY DEF IInv, Table
<1>5. ASSUME NEW pc, Moves(t, pc)
      PROVE  /\ \A s \in Threads \ {t} : io'[s] = io[s]
             /\ io'[t].pc = pc /\ (pc # "idle" => io'[t].user = u)
  BY <1>5 DEF Moves, Continues
<1> HIDE DEF u, c
<1>6. CASE AddUser(t)
  <2>1. /\ At(t, "add_user") /\ Goto(t, "set_online")
        /\ old' = [v \in DOMAIN old \cup {u} |-> IF v \in DOMAIN old THEN old[v] ELSE ZeroUserInfo]
    BY <1>6 DEF AddUser, u
  <2>2. Moves(t, "set_online")
    BY <2>1, Moved DEF IInv, Places
  <2>3. 0 \in Ids /\ peer[0] # "none"
    BY <1>2, FirstIsThere
  <2>4. \A v \in DOMAIN old' : old'[v] \in [isOnline : BOOLEAN, id : Ids]
    BY <1>3, <2>1, <2>3 DEF ZeroUserInfo
  <2>5. Table'
    <3> SUFFICES ASSUME NEW v \in DOMAIN old'
                 PROVE  /\ old'[v].id \in Ids /\ peer'[old'[v].id] # "none"
                        /\ \/ old'[v].id \in granted'[v]
                           \/ old'[v].id = 0 /\ \E s \in Threads :
                                io'[s].pc \in {"set_online", "set_id"} /\ io'[s].user = v
      BY DEF Table
    <3>1. CASE v \in DOMAIN old
      BY <1>1, <1>4, <1>5, <2>1, <2>2, <3>1 DEF At
    <3>2. CASE v \notin DOMAIN old
      <4>1. v = u /\ old'[v].id = 0
        BY <2>1, <3>2 DEF ZeroUserInfo
      <4> QED
        BY <1>1, <1>5, <2>2, <2>3, <4>1
    <3> QED
      BY <3>1, <3>2
  <2> QED
    BY <1>1, <1>2, <1>3, <2>1, <2>4, <2>5, TableStep DEF At
<1>7. CASE SetOnline(t)
  <2>1. /\ At(t, "set_online") /\ Goto(t, "set_id")
        /\ old' = [old EXCEPT ![u].isOnline = TRUE]
    BY <1>7 DEF SetOnline, u
  <2>2. Moves(t, "set_id")
    BY <2>1, Moved DEF IInv, Places
  <2>3. /\ DOMAIN old' = DOMAIN old
        /\ \A v \in DOMAIN old : old'[v] \in [isOnline : BOOLEAN, id : Ids] /\ old'[v].id = old[v].id
    BY <1>3, <2>1
  <2>4. Table'
    <3> SUFFICES ASSUME NEW v \in DOMAIN old
                 PROVE  /\ old[v].id \in Ids /\ peer'[old[v].id] # "none"
                        /\ \/ old[v].id \in granted'[v]
                           \/ old[v].id = 0 /\ \E s \in Threads :
                                io'[s].pc \in {"set_online", "set_id"} /\ io'[s].user = v
      BY <2>3 DEF Table
    <3>1. ASSUME NEW s \in Threads, io[s].pc \in {"set_online", "set_id"}, io[s].user = v
          PROVE  io'[s].pc \in {"set_online", "set_id"} /\ io'[s].user = v
      BY <1>5, <2>1, <2>2, <3>1 DEF u
    <3> QED
      BY <1>1, <1>4, <3>1
  <2> QED
    BY <1>1, <1>3, <2>1, <2>3, <2>4, TableStep DEF At
<1>8. CASE SetId(t)
  <2>1. /\ At(t, "set_id") /\ Goto(t, "update_info")
        /\ old' = [old EXCEPT ![u].id = c]
    BY <1>8 DEF SetId, u, c
  <2>2. Moves(t, "update_info")
    BY <2>1, Moved DEF IInv, Places
  <2>3. /\ DOMAIN old' = DOMAIN old
        /\ \A v \in DOMAIN old : /\ old'[v] \in [isOnline : BOOLEAN, id : Ids]
                                 /\ old'[v].id = IF v = u THEN c ELSE old[v].id
    BY <1>2, <1>3, <2>1
  <2>4. Table'
    <3> SUFFICES ASSUME NEW v \in DOMAIN old
                 PROVE  /\ old'[v].id \in Ids /\ peer'[old'[v].id] # "none"
                        /\ \/ old'[v].id \in granted'[v]
                           \/ old'[v].id = 0 /\ \E s \in Threads :
                                io'[s].pc \in {"set_online", "set_id"} /\ io'[s].user = v
      BY <2>3 DEF Table
    <3>1. CASE v = u
      BY <1>1, <1>2, <2>3, <3>1
    <3>2. CASE v # u
      <4>1. ASSUME NEW s \in Threads, io[s].pc \in {"set_online", "set_id"}, io[s].user = v
            PROVE  io'[s].pc \in {"set_online", "set_id"} /\ io'[s].user = v
        BY <1>5, <2>2, <3>2, <4>1 DEF u
      <4> QED
        BY <1>1, <1>4, <2>3, <3>2, <4>1
    <3> QED
      BY <3>1, <3>2
  <2> QED
    BY <1>1, <1>3, <2>1, <2>3, <2>4, TableStep DEF At
<1> QED
  BY <1>6, <1>7, <1>8

-----------------------------------------------------------------------------
(* Sessions that are used *)

\* A session that is not in the map any more is used: its client has left.
LEMMA CrashStep ==
  ASSUME IInv, NEW t \in Threads, NEW i, i \in {io[t].conn, io[t].to}, NullSession(t, i),
         io[t].pc \notin {"idle", "accept", "set_online", "set_id"},
         UNCHANGED <<counts, tables, status, outbox, window, life, failures, hist>>
  PROVE  IInv'
<1>1. /\ i \notin sessions /\ io' = [io EXCEPT ![t] = [[@ EXCEPT !.pc = "crash"] EXCEPT !.to = i]]
      /\ crashed' = "null session"
      /\ UNCHANGED <<id_increment, peer, messages, sessions, info, local_user_table, status, outbox,
                     signals, shown, life, failures, granted, told, late>>
  BY DEF NullSession, counts, tables, window, hist
<1>2. io \in [Threads -> Job] /\ io[t] \in Job /\ JobHonest(io[t])
  BY DEF IInv, TypeOK, JobsHonest, Job
<1>3. i \in Ids /\ peer[i] # "none" /\ io[t].conn \in Ids /\ peer[io[t].conn] # "none"
  BY <1>2 DEF JobHonest
<1>4. peer[i] = "closed"
  BY <1>1, <1>3 DEF IInv, TypeOK, Accepted
<1>5. /\ io' \in [Threads -> Job]
      /\ io'[t].pc = "crash" /\ io'[t].to = i /\ io'[t].conn = io[t].conn
      /\ \A s \in Threads \ {t} : io'[s] = io[s]
  BY <1>1, <1>2, <1>3 DEF Job, Places
<1>6. TypeOK'
  BY <1>1, <1>5 DEF IInv, TypeOK, Job
<1>7. JobsHonest'
  <2>1. JobHonest(io[t])'
    BY <1>1, <1>3, <1>5 DEF JobHonest, Leaving, Granted, BeforeStatus
  <2> QED
    BY <1>1, <1>5, <2>1, OthersHonest
<1>8. Alone'
  BY <1>5 DEF IInv, Alone, Leaving, At
<1>9. Accepted'
  <2>1. ASSUME NEW s \in Threads, At(s, "accept") PROVE At(s, "accept")'
    BY <1>5, <2>1 DEF At
  <2> QED
    BY <1>1, <2>1 DEF IInv, Accepted
<1>10. Table' /\ Outbox' /\ Offline'
  BY <1>1, <1>5, TableKept, OutboxKept DEF IInv, Offline
<1>11. SignalsCounted'
  <2> DEFINE n == Cardinality(Signallers)
  <2>1. n \in Nat /\ n' \in Nat /\ n' <= n
    <3>1. io'[t].pc \notin Signalling
      BY <1>5 DEF Signalling, BeforeStatus
    <3> QED
      BY <1>5, <3>1, Counted
  <2>2. signals + n <= messages /\ signals \in Nat /\ messages \in Nat
    BY Numbers DEF IInv, SignalsCounted
  <2>3. signals + n' <= messages
    BY <2>1, <2>2
  <2> QED
    BY <1>1, <2>3 DEF SignalsCounted
<1>12. Missing'
  BY <1>1, <1>4, <1>5 DEF Missing, At
<1>13. Online' /\ Shown'
  BY <1>1 DEF Online, Shown
<1> QED
  BY <1>6, <1>7, <1>8, <1>9, <1>10, <1>11, <1>12, <1>13 DEF IInv

LEMMA OutboxGrows ==
  ASSUME IInv, NEW i \in Ids, NEW msg, outbox' = [outbox EXCEPT ![i] = @ \cup {msg}],
         UNCHANGED granted,
         msg.type = "chat" => MayReach(i, msg.to, granted),
         msg.type = "feedback" /\ msg.condition = "success" =>
           \E k \in Ids : Chat(i, msg.to) \in outbox[k]
  PROVE  Outbox'
<1>1. /\ \A k \in Ids : outbox'[k] = IF k = i THEN outbox[k] \cup {msg} ELSE outbox[k]
      /\ \A k \in Ids : outbox[k] \subseteq outbox'[k]
  BY DEF IInv, TypeOK
<1>2. ASSUME NEW k \in Ids, NEW m \in outbox'[k], m.type = "chat" PROVE MayReach(k, m.to, granted)
  <2>1. m \in outbox[k] \/ (k = i /\ m = msg)
    BY <1>1
  <2> QED
    BY <1>2, <2>1 DEF IInv, Outbox
<1>3. ASSUME NEW c \in Ids, NEW u \in Users, Feedback(u, "success") \in outbox'[c]
      PROVE  \E k \in Ids : Chat(c, u) \in outbox'[k]
  <2>1. CASE Feedback(u, "success") \in outbox[c]
    <3>1. PICK k \in Ids : Chat(c, u) \in outbox[k]
      BY <2>1 DEF IInv, Outbox, FeedbackHonest
    <3> QED
      BY <1>1, <3>1
  <2>2. CASE Feedback(u, "success") \notin outbox[c]
    <3>1. c = i /\ msg = Feedback(u, "success")
      BY <1>1, <1>3, <2>2
    <3>2. msg.type = "feedback" /\ msg.condition = "success" /\ msg.to = u
      BY <3>1 DEF Feedback
    <3>3. PICK k \in Ids : Chat(c, u) \in outbox[k]
      BY <3>1, <3>2
    <3> QED
      BY <1>1, <3>3
  <2> QED
    BY <2>1, <2>2
<1>4. FeedbackHonest'
  BY <1>3 DEF FeedbackHonest, Feedback, Chat
<1> QED
  BY <1>2, <1>4 DEF Outbox

\* A message is given to a session that the map has.
LEMMA TransmitStep ==
  ASSUME IInv, crashed = "no", NEW t \in Threads, NEW i \in Ids, NEW msg \in MessageType,
         Transmit(t, i, msg), NEW pc, Moves(t, pc),
         pc \notin {"accept", "erase", "crash", "set_offline"},
         pc \in Signalling => io[t].pc \in Signalling,
         io[t].pc = "send_rooms" => pc = "on_user_log" /\ io[t].conn = i,
         io[t].pc \notin {"on_user_log", "accept", "set_online", "set_id"},
         UNCHANGED <<counts, tables, status, window, life, failures, hist>>,
         msg.type = "chat" => MayReach(i, msg.to, granted),
         msg.type = "feedback" /\ msg.condition = "success" =>
           \E k \in Ids : Chat(i, msg.to) \in outbox[k],
         JobHonest(io[t])'
  PROVE  IInv'
<1>1. /\ i \in sessions /\ outbox' = [outbox EXCEPT ![i] = @ \cup {msg}]
      /\ UNCHANGED <<counts, sessions, info, local_user_table, status, window, life, crashed,
                     granted, told, late, failures, peer>>
  BY DEF Transmit, tables, hist, counts
<1>2. /\ outbox' \in [Ids -> SUBSET MessageType]
      /\ \A k \in Ids : outbox[k] \subseteq outbox'[k]
  BY <1>1 DEF IInv, TypeOK
<1>3. Table' /\ Outbox'
  BY <1>1, TableKept, OutboxGrows DEF Moves, Continues
<1>4. /\ info' \in [Ids -> Users \cup {NoUser}] /\ failures' \in 0..MaxFailures
      /\ granted' \in [Users -> SUBSET Ids]
      /\ DOMAIN local_user_table' \subseteq Users
      /\ \A u \in DOMAIN local_user_table' : local_user_table'[u] \in [isOnline : BOOLEAN, id : Ids]
      /\ \A u \in Users : granted[u] \subseteq granted'[u]
  BY <1>1 DEF IInv, TypeOK
<1> QED
  BY <1>1, <1>2, <1>3, <1>4, PlainStep DEF Moves

LEMMA SessionSteps ==
  ASSUME IInv, crashed = "no", NEW t \in Threads,
         \/ SendRooms(t) \/ Reply(t) \/ Forward(t) \/ GiveFeedback(t)
         \/ RoomFeedback(t) \/ HistorySend(t)
  PROVE  IInv'
<1> DEFINE c == io[t].conn
           u == io[t].user
           msg == IF At(t, "forward") THEN Chat(c, u)
                  ELSE IF At(t, "send_rooms") THEN [type |-> "rooms_receive"]
                  ELSE IF At(t, "room_feedback") THEN [type |-> "room_feedback"]
                  ELSE IF At(t, "history_send") THEN [type |-> "history"]
                  ELSE IF At(t, "feedback") THEN Feedback(u, "success")
                  ELSE IF At(t, "feedback_failed") THEN Feedback(u, "failed")
                  ELSE LoginReply(u, At(t, "reply"))
           i == IF At(t, "forward") THEN io[t].to ELSE c
           next == IF At(t, "forward") THEN "feedback"
                   ELSE IF At(t, "send_rooms") THEN "on_user_log"
                   ELSE IF At(t, "room_feedback") THEN "uploading_message" ELSE "idle"
<1>1. /\ io[t].pc \in {"send_rooms", "reply", "reply_failed", "forward", "feedback",
                       "feedback_failed", "room_feedback", "history_send"}
      /\ UNCHANGED <<counts, tables, status, window, life, failures, hist>>
  BY DEF SendRooms, Reply, Forward, GiveFeedback, RoomFeedback, HistorySend, At
<1>2. JobHonest(io[t])
  BY DEF IInv, JobsHonest
<1>3. /\ c \in Ids /\ i \in Ids /\ u \in Users
      /\ At(t, "forward") => MayReach(i, u, granted)
      /\ At(t, "feedback") => \E k \in Ids : Chat(c, u) \in outbox[k]
  BY <1>1, <1>2 DEF JobHonest, At
<1>4. msg \in MessageType
  <2>1. At(t, "reply") \in BOOLEAN
    BY DEF At
  <2> QED
    BY <1>3, <2>1 DEF MessageType, Chat, Feedback, LoginReply
<1>5. /\ msg.type = "chat" => At(t, "forward") /\ msg.to = u
      /\ msg.type = "feedback" /\ msg.condition = "success" => At(t, "feedback") /\ msg.to = u
  BY DEF Chat, Feedback, LoginReply
<1>6. \/ Transmit(t, i, msg) /\ Moves(t, next)
      \/ TransmitNull(t, i)
  <2>1. Goto(t, next) => Moves(t, next)
    BY Moved DEF IInv, Places
  <2>2. Return(t) => Moves(t, "idle")
    BY Moved DEF IInv, Places
  <2>3. CASE SendRooms(t)
    BY <2>1, <2>3 DEF SendRooms, At
  <2>4. CASE Reply(t)
    BY <2>2, <2>4 DEF Reply, At
  <2>5. CASE Forward(t)
    BY <2>1, <2>5 DEF Forward, At
  <2>6. CASE GiveFeedback(t)
    BY <2>2, <2>6 DEF GiveFeedback, At
  <2>7. CASE RoomFeedback(t)
    BY <2>1, <2>7 DEF RoomFeedback, At
  <2>8. CASE HistorySend(t)
    BY <2>2, <2>8 DEF HistorySend, At
  <2> QED
    BY <2>3, <2>4, <2>5, <2>6, <2>7, <2>8
<1>7. /\ msg.type = "chat" => MayReach(i, msg.to, granted)
      /\ msg.type = "feedback" /\ msg.condition = "success" =>
           \E k \in Ids : Chat(i, msg.to) \in outbox[k]
  BY <1>3, <1>5 DEF At
<1>8. /\ next \notin {"accept", "erase", "crash", "set_offline"}
      /\ next \in Signalling => io[t].pc \in Signalling
      /\ io[t].pc = "send_rooms" => next = "on_user_log" /\ io[t].conn = i
      /\ next \in {"idle", "feedback", "on_user_log", "uploading_message"}
      /\ next = "feedback" => At(t, "forward")
      /\ next = "on_user_log" => io[t].pc \in Granted
      /\ i \in {io[t].conn, io[t].to}
  BY DEF At, Signalling, BeforeStatus, Granted
<1> HIDE DEF msg, i, next
<1>9. CASE Transmit(t, i, msg) /\ Moves(t, next)
  <2>1. UNCHANGED <<id_increment, peer, life, late, granted>>
    BY <1>1 DEF counts, hist
  <2>2. next = "feedback" => \E k \in Ids : Chat(c, u) \in outbox'[k]
    <3>1. next = "feedback" => msg = Chat(c, u)
      BY <1>8 DEF msg
    <3>2. msg \in outbox'[i]
      BY <1>3, <1>9 DEF Transmit, IInv, TypeOK
    <3> QED
      BY <1>3, <3>1, <3>2
  <2>3. JobHonest(io[t])'
    <3>1. CASE next = "idle"
      BY <1>9, <3>1, IdleHonest DEF Moves, Continues
    <3>2. CASE next # "idle"
      BY <1>1, <1>8, <1>9, <2>1, <2>2, <3>2, GoesOn DEF Granted, BeforeStatus
    <3> QED
      BY <3>1, <3>2
  <2> QED
    BY <1>1, <1>3, <1>4, <1>7, <1>8, <1>9, <2>3, TransmitStep
<1>10. CASE TransmitNull(t, i)
  BY <1>1, <1>8, <1>10, CrashStep DEF TransmitNull
<1> QED
  BY <1>6, <1>9, <1>10

LEMMA UpdateInfoStep ==
  ASSUME IInv, crashed = "no", NEW t \in Threads, UpdateInfo(t)
  PROVE  IInv'
<1>1. /\ io[t].pc = "update_info"
      /\ UNCHANGED <<counts, sessions, local_user_table, status, outbox, window, life, failures, hist>>
      /\ UNCHANGED <<peer, granted>>
  BY DEF UpdateInfo, At, counts, hist
<1>2. CASE /\ info' = [info EXCEPT ![io[t].conn] = io[t].user]
           /\ Goto(t, "set_status") /\ UNCHANGED crashed
  <2>1. io[t].user \in Users
    BY <1>1 DEF IInv, JobsHonest, JobHonest
  <2>2. /\ info' \in [Ids -> Users \cup {NoUser}]
        /\ DOMAIN local_user_table' \subseteq Users
        /\ \A u \in DOMAIN local_user_table' : local_user_table'[u] \in [isOnline : BOOLEAN, id : Ids]
    BY <1>1, <1>2, <2>1 DEF IInv, TypeOK
  <2>3. Moves(t, "set_status")
    BY <1>2, Moved DEF IInv, Places
  <2>4. Table'
    BY <1>1, <2>3, TableKept DEF IInv, TypeOK, Moves, Continues
  <2> QED
    BY <1>1, <1>2, <2>2, <2>4, TableStep
<1>3. CASE NullSession(t, io[t].conn) /\ UNCHANGED info
  BY <1>1, <1>3, CrashStep DEF tables
<1> QED
  BY <1>2, <1>3 DEF UpdateInfo

\* The id of the addressee is looked up.
LEMMA GetIdStep ==
  ASSUME IInv, crashed = "no", NEW t \in Threads, get_id(t)
  PROVE  IInv'
<1> DEFINE u == io[t].user
           i == local_user_table[u].id
<1>1. /\ io[t].pc = "get_id"
      /\ UNCHANGED <<counts, tables, status, outbox, window, life, crashed, failures, hist>>
      /\ UNCHANGED <<sessions, info, local_user_table, id_increment, peer, granted, told, late>>
  BY DEF get_id, At, counts, tables, hist
<1>2. io \in [Threads -> Job] /\ io[t] \in Job /\ JobHonest(io[t])
  BY DEF IInv, TypeOK, JobsHonest, Job
<1>3. CASE u \notin DOMAIN local_user_table
  <2>1. Moves(t, "feedback_failed")
    BY <1>3, Moved DEF get_id, IInv, Places
  <2>2. JobHonest(io[t])'
    BY <1>1, <2>1, GoesOn DEF Granted, BeforeStatus
  <2>3. failures' \in 0..MaxFailures
    BY <1>1 DEF IInv, TypeOK
  <2> QED
    BY <1>1, <2>1, <2>2, <2>3, SilentStep DEF Signalling, BeforeStatus
<1>4. CASE u \in DOMAIN local_user_table
  <2>1. io' = [io EXCEPT ![t] = [[@ EXCEPT !.pc = "is_online"] EXCEPT !.to = i]]
    BY <1>4 DEF get_id
  <2>2. i \in Ids /\ peer[i] # "none"
    BY <1>4 DEF IInv, Table
  <2>3. MayReach(i, u, granted)
    <3>1. CASE i \in granted[u]
      BY <3>1 DEF MayReach
    <3>2. CASE i \notin granted[u]
      <4>1. i = 0 /\ \E s \in Threads : io[s].pc \in {"set_online", "set_id"} /\ io[s].user = u
        BY <1>4, <3>2 DEF IInv, Table
      <4>2. granted[u] # {}
        BY <4>1 DEF IInv, JobsHonest, JobHonest, Granted
      <4> QED
        BY <4>1, <4>2 DEF MayReach
    <3> QED
      BY <3>1, <3>2
  <2> HIDE DEF i
  <2>4. /\ io' \in [Threads -> Job] /\ io'[t].pc = "is_online" /\ io'[t].to = i
        /\ io'[t].conn = io[t].conn /\ io'[t].user = u
        /\ \A s \in Threads \ {t} : io'[s] = io[s]
    BY <1>2, <2>1, <2>2 DEF Job, Places
  <2>5. JobHonest(io[t])'
    BY <1>1, <1>2, <2>2, <2>3, <2>4 DEF JobHonest, Leaving, Granted, BeforeStatus
  <2>6. Continues(t, "is_online")
    BY <2>4 DEF Continues
  <2>7. Table' /\ Outbox'
    BY <1>1, <2>4, TableKept, OutboxKept
  <2>8. /\ info' \in [Ids -> Users \cup {NoUser}] /\ failures' \in 0..MaxFailures
        /\ granted' \in [Users -> SUBSET Ids] /\ outbox' \in [Ids -> SUBSET MessageType]
        /\ DOMAIN local_user_table' \subseteq Users
        /\ \A v \in DOMAIN local_user_table' : local_user_table'[v] \in [isOnline : BOOLEAN, id : Ids]
        /\ \A v \in Users : granted[v] \subseteq granted'[v]
        /\ \A k \in Ids : outbox[k] \subseteq outbox'[k]
    BY <1>1 DEF IInv, TypeOK
  <2>9. "is_online" \notin Signalling
    BY DEF Signalling, BeforeStatus
  <2> QED
    BY <1>1, <2>5, <2>6, <2>7, <2>8, <2>9, PlainStep
<1> QED
  BY <1>3, <1>4

-----------------------------------------------------------------------------
(* Beginnings and ends *)

\* What is said of those who are ONLINE stays true when sessions are added and
\* users set OFFLINE.
LEMMA StatusKept ==
  ASSUME IInv, crashed = "no", NEW t \in Threads, \A s \in Threads \ {t} : io'[s] = io[s],
         io[t].pc \notin {"send_rooms", "on_user_log"},
         sessions \subseteq sessions', status' \subseteq status,
         signals' \in Nat, signals <= signals',
         UNCHANGED <<shown, life, crashed, granted, told, late>>
  PROVE  Missing' /\ Online' /\ Shown' /\ Offline'
<1>1. Missing'
  BY DEF Missing
<1>2. ASSUME NEW s \in Threads, io[s].pc \in {"send_rooms", "on_user_log"} PROVE io'[s] = io[s]
  BY <1>2
<1>3. Online'
  <2> SUFFICES ASSUME NEW u \in status'
               PROVE  \E c \in granted[u] :
                        \/ c \in sessions' \/ told[c] # u
                        \/ \E s \in Threads : At(s, "send_rooms")' /\ io'[s].conn = c
    BY DEF Online
  <2>1. PICK c \in granted[u] : \/ c \in sessions \/ told[c] # u
                                \/ \E s \in Threads : At(s, "send_rooms") /\ io[s].conn = c
    BY DEF IInv, Online
  <2> QED
    BY <1>2, <2>1 DEF At
<1>4. Shown'
  BY <1>2, Numbers DEF IInv, Shown
<1>5. Offline'
  BY DEF IInv, Offline
<1> QED
  BY <1>1, <1>3, <1>4, <1>5

LEMMA AcceptStartStep ==
  ASSUME IInv, crashed = "no", NEW t \in Threads, AcceptStart(t)
  PROVE  IInv'
<1> DEFINE c == id_increment
<1>1. /\ io[t].pc = "idle" /\ life = "running" /\ c < MaxConns
      /\ \A s \in Threads : io[s].pc # "accept"
      /\ io' = [io EXCEPT ![t] = Handler("accept", c, NoUser)] /\ id_increment' = c + 1
      /\ UNCHANGED <<peer, messages, sessions, info, local_user_table, status, outbox, signals,
                     shown, life, crashed, failures, granted, told, late>>
  BY DEF AcceptStart, At, tables, window, hist
<1>2. c \in Ids /\ c \in Nat /\ MaxConns \in Nat
  BY <1>1, Numbers DEF IInv, Ids
<1>3. /\ io' \in [Threads -> Job] /\ io'[t].pc = "accept" /\ io'[t].conn = c /\ io'[t].to = c
      /\ \A s \in Threads \ {t} : io'[s] = io[s]
  <2>1. "accept" \in Places /\ NoUser \in Users \cup {NoUser} /\ TypeOK
    BY DEF IInv, Places
  <2>2. io' = [io EXCEPT ![t] = Handler("accept", c, NoUser)]
    BY <1>1
  <2> QED
    BY <1>2, <2>1, <2>2, Begun
<1>4. peer[c] = "none" /\ \A k \in Ids : peer[k] # "none" => k < c
  BY <1>2 DEF IInv, Accepted, TypeOK
<1>5. TypeOK'
  <2>1. id_increment' \in 0..MaxConns
    BY <1>1, <1>2
  <2> QED
    BY <1>1, <1>3, <2>1 DEF IInv, TypeOK, Job
<1>6. JobsHonest'
  <2>1. JobHonest(io[t])'
    BY <1>1, <1>2, <1>3, <1>4 DEF JobHonest, Leaving, Granted, BeforeStatus
  <2>2. ASSUME NEW s \in Threads \ {t} PROVE JobHonest(io[s])'
    <3>1. JobHonest(io[s]) /\ io[s].pc # "accept" /\ io'[s] = io[s]
      BY <1>1, <1>3 DEF IInv, JobsHonest
    <3> QED
      BY <1>1, <3>1 DEF JobHonest
  <2> QED
    BY <2>1, <2>2 DEF JobsHonest
<1>7. Alone'
  BY <1>1, <1>3 DEF IInv, Alone, Leaving, At
<1>8. Accepted'
  <2>1. \A k \in Ids : k \in Nat
    BY <1>2 DEF Ids
  <2>2. ASSUME NEW k \in Ids, k < c + 1, peer[k] = "none" PROVE k = c
    <3>1. ~(k < c)
      BY <1>1, <2>2 DEF IInv, Accepted, At
    <3> QED
      BY <1>2, <2>1, <2>2, <3>1
  <2>3. \A k \in Ids : k < c + 1 /\ peer[k] = "none" =>
          k = (c + 1) - 1 /\ \E s \in Threads : io'[s].pc = "accept"
    BY <1>2, <1>3, <2>2
  <2>4. \A k \in Ids : peer[k] # "none" => k < c + 1
    BY <1>2, <1>4, <2>1
  <2> QED
    BY <1>1, <2>3, <2>4 DEF IInv, Accepted, At
<1>9. SignalsCounted'
  <2> DEFINE n == Cardinality(Signallers)
  <2>1. n \in Nat /\ n' \in Nat /\ n' <= n
    <3>1. io'[t].pc \notin Signalling
      BY <1>3 DEF Signalling, BeforeStatus
    <3> QED
      BY <1>3, <3>1, Counted
  <2>2. signals + n <= messages /\ signals \in Nat /\ messages \in Nat
    BY Numbers DEF IInv, SignalsCounted
  <2>3. signals + n' <= messages
    BY <2>1, <2>2
  <2> QED
    BY <1>1, <2>3 DEF SignalsCounted
<1>10. Table' /\ Outbox'
  BY <1>1, <1>3, TableKept, OutboxKept
<1>11. Missing' /\ Online' /\ Shown' /\ Offline'
  BY <1>1, <1>3, StatusKept, Numbers DEF IInv
<1> QED
  BY <1>5, <1>6, <1>7, <1>8, <1>9, <1>10, <1>11 DEF IInv

LEMMA AcceptStep ==
  ASSUME IInv, crashed = "no", NEW t \in Threads, Accept(t)
  PROVE  IInv'
<1> DEFINE c == io[t].conn
<1>1. /\ io[t].pc = "accept" /\ Return(t)
      /\ sessions' = sessions \cup {c} /\ peer' = [peer EXCEPT ![c] = "open"]
      /\ UNCHANGED <<id_increment, messages, info, local_user_table, status, outbox, signals, shown,
                     life, crashed, failures, granted, told, late>>
  BY DEF Accept, At, window, hist
<1>2. c \in Ids /\ peer[c] = "none" /\ c = id_increment - 1 /\ JobsHonest
  BY <1>1 DEF IInv, JobsHonest, JobHonest
<1>3. /\ io' \in [Threads -> Job] /\ io'[t].pc = "idle" /\ Continues(t, "idle")
      /\ \A s \in Threads \ {t} : io'[s] = io[s]
  BY <1>1, Moved DEF IInv, Moves, Continues, Places
<1>4. \A s \in Threads \ {t} : io[s].pc # "accept"
  BY <1>1 DEF IInv, Alone, At
<1>5. /\ peer' \in [Ids -> {"none", "open", "closed"}] /\ peer'[c] = "open"
      /\ \A k \in Ids \ {c} : peer'[k] = peer[k]
  BY <1>1, <1>2 DEF IInv, TypeOK
<1> HIDE DEF c
<1>6. TypeOK'
  BY <1>1, <1>2, <1>3, <1>5 DEF IInv, TypeOK, Job
<1>7. JobsHonest'
  <2>1. JobHonest(io[t])'
    BY <1>3, IdleHonest
  <2>2. ASSUME NEW s \in Threads \ {t} PROVE JobHonest(io[s])'
    <3>1. JobHonest(io[s]) /\ io[s].pc # "accept" /\ io'[s] = io[s]
      BY <1>2, <1>3, <1>4 DEF JobsHonest
    <3> QED
      BY <1>1, <1>2, <1>5, <3>1 DEF JobHonest, Leaving
  <2> QED
    BY <2>1, <2>2 DEF JobsHonest
<1>8. Alone'
  BY <1>3, AloneKept DEF Leaving
<1>9. Accepted'
  <2>1. id_increment \in Nat /\ \A k \in Ids : k \in Nat
    BY Numbers DEF IInv, Ids
  <2>2. \A k \in Ids : k < id_increment /\ peer[k] = "none" => k = c
    BY <1>2 DEF IInv, Accepted
  <2>3. \A k \in Ids : peer'[k] # "none" => k < id_increment
    BY <1>2, <1>5, <2>1 DEF IInv, Accepted
  <2>4. \A k \in Ids : told[k] # NoUser => k # c
    BY <1>2 DEF IInv, Accepted
  <2> QED
    BY <1>1, <1>5, <2>2, <2>3, <2>4 DEF IInv, Accepted
<1>10. SignalsCounted'
  <2> DEFINE n == Cardinality(Signallers)
  <2>1. n \in Nat /\ n' \in Nat /\ n' <= n
    <3>1. io'[t].pc \notin Signalling
      BY <1>3 DEF Signalling, BeforeStatus
    <3> QED
      BY <1>3, <3>1, Counted
  <2>2. signals + n <= messages /\ signals \in Nat /\ messages \in Nat
    BY Numbers DEF IInv, SignalsCounted
  <2>3. signals + n' <= messages
    BY <2>1, <2>2
  <2> QED
    BY <1>1, <2>3 DEF SignalsCounted
<1>11. Table' /\ Outbox'
  <2>1. \A k \in Ids : peer[k] # "none" => peer'[k] # "none"
    BY <1>5
  <2> QED
    BY <1>1, <1>3, <2>1, TableKept, OutboxKept
<1>12. Missing' /\ Online' /\ Shown' /\ Offline'
  BY <1>1, <1>3, StatusKept, Numbers DEF IInv
<1> QED
  BY <1>6, <1>7, <1>8, <1>9, <1>10, <1>11, <1>12 DEF IInv

LEMMA StartStep ==
  ASSUME IInv, crashed = "no", NEW t \in Threads, Start(t)
  PROVE  IInv'
<1>1. PICK c \in Ids, action \in Actions, u \in Users :
        peer[c] = "open" /\ io' = [io EXCEPT ![t] = Handler(FirstStep[action], c, u)]
  BY DEF Start
<1> DEFINE pc == FirstStep[action]
<1>2. /\ io[t].pc = "idle" /\ life = "running" /\ messages < MaxMessages /\ messages' = messages + 1
      /\ UNCHANGED <<id_increment, peer, sessions, info, local_user_table, status, outbox, signals,
                     shown, life, crashed, failures, granted, told, late>>
  BY DEF Start, At, tables, window, hist
<1>3. pc \in {"verifyUserInfo", "get_id", "room_query", "log_out_query", "history_query", "sign_in"}
  BY ServerAssumption DEF ClientActions, FirstStep
<1> HIDE DEF pc
<1>4. /\ io' \in [Threads -> Job] /\ io'[t].pc = pc /\ io'[t].conn = c /\ io'[t].user = u
      /\ io'[t].to = c /\ \A s \in Threads \ {t} : io'[s] = io[s]
  <2>1. pc \in Places /\ u \in Users \cup {NoUser} /\ TypeOK
    BY <1>3 DEF IInv, Places
  <2>2. io' = [io EXCEPT ![t] = Handler(pc, c, u)]
    BY <1>1 DEF pc
  <2> QED
    BY <2>1, <2>2, Begun
<1>5. TypeOK'
  <2>1. messages' \in 0..MaxMessages
    BY <1>2, Numbers DEF IInv
  <2> QED
    BY <1>2, <1>4, <2>1 DEF IInv, TypeOK, Job
<1>6. JobsHonest'
  <2>1. JobHonest(io[t])'
    BY <1>1, <1>2, <1>3, <1>4 DEF JobHonest, Leaving, Granted, BeforeStatus
  <2> QED
    BY <1>2, <1>4, <2>1, OthersHonest
<1>7. Alone'
  BY <1>3, <1>4 DEF IInv, Alone, Leaving, At
<1>8. Accepted'
  <2>1. ASSUME NEW s \in Threads, At(s, "accept") PROVE At(s, "accept")'
    BY <1>2, <1>4, <2>1 DEF At
  <2> QED
    BY <1>2, <2>1 DEF IInv, Accepted
<1>9. SignalsCounted'
  <2> DEFINE n == Cardinality(Signallers)
  <2>1. n \in Nat /\ n' \in Nat /\ n' <= n + 1
    BY <1>4, Counted
  <2>2. signals + n <= messages /\ signals \in Nat /\ messages \in Nat
    BY Numbers DEF IInv, SignalsCounted
  <2>3. signals + n' <= messages + 1
    BY <2>1, <2>2
  <2> QED
    BY <1>2, <2>3 DEF SignalsCounted
<1>10. Table' /\ Outbox'
  BY <1>2, <1>4, TableKept, OutboxKept
<1>11. Missing' /\ Online' /\ Shown' /\ Offline'
  BY <1>2, <1>4, StatusKept, Numbers DEF IInv
<1> QED
  BY <1>5, <1>6, <1>7, <1>8, <1>9, <1>10, <1>11 DEF IInv

LEMMA StartDisconnectStep ==
  ASSUME IInv, crashed = "no", NEW t \in Threads, StartDisconnect(t)
  PROVE  IInv'
<1>1. PICK c \in Ids : /\ peer[c] = "open" /\ peer' = [peer EXCEPT ![c] = "closed"]
                       /\ io' = [io EXCEPT ![t] = Handler("erase", c, info[c])]
  BY DEF StartDisconnect
<1>2. /\ io[t].pc = "idle"
      /\ UNCHANGED <<id_increment, messages, sessions, info, local_user_table, status, outbox,
                     signals, shown, life, crashed, failures, granted, told, late>>
  BY DEF StartDisconnect, At, tables, window, hist
<1>3. /\ io' \in [Threads -> Job] /\ io'[t].pc = "erase" /\ io'[t].conn = c /\ io'[t].to = c
      /\ \A s \in Threads \ {t} : io'[s] = io[s]
  <2>1. "erase" \in Places /\ info[c] \in Users \cup {NoUser} /\ TypeOK
    BY DEF IInv, TypeOK, Places
  <2>2. PICK u \in Users \cup {NoUser} : io' = [io EXCEPT ![t] = Handler("erase", c, u)]
    BY <1>1, <2>1
  <2> QED
    BY <2>1, <2>2, Begun
<1>4. /\ peer' \in [Ids -> {"none", "open", "closed"}] /\ peer'[c] = "closed"
      /\ \A k \in Ids \ {c} : peer'[k] = peer[k]
  BY <1>1 DEF IInv, TypeOK
<1>5. told[c] = NoUser
  BY <1>1 DEF IInv, Accepted
<1>6. TypeOK'
  BY <1>2, <1>3, <1>4 DEF IInv, TypeOK, Job
<1>7. JobsHonest'
  <2>1. JobHonest(io[t])'
    BY <1>2, <1>3, <1>4, <1>5 DEF JobHonest, Leaving, Granted, BeforeStatus
  <2>2. ASSUME NEW s \in Threads \ {t} PROVE JobHonest(io[s])'
    <3>1. JobHonest(io[s]) /\ io'[s] = io[s]
      BY <1>3 DEF IInv, JobsHonest
    <3> QED
      BY <1>1, <1>2, <1>4, <3>1 DEF JobHonest
  <2> QED
    BY <2>1, <2>2 DEF JobsHonest
<1>8. Alone'
  <2>1. \A s \in Threads : io[s].pc \in Leaving => io[s].conn # c
    BY <1>1 DEF IInv, JobsHonest, JobHonest
  <2>2. "erase" # "accept" /\ io[t].pc \notin Leaving
    BY <1>2 DEF Leaving
  <2> QED
    BY <1>3, <2>1, <2>2 DEF IInv, Alone, At
<1>9. Accepted'
  <2>1. ASSUME NEW s \in Threads, At(s, "accept") PROVE At(s, "accept")'
    BY <1>2, <1>3, <2>1 DEF At
  <2> QED
    BY <1>1, <1>2, <1>4, <2>1 DEF IInv, Accepted
<1>10. SignalsCounted'
  <2> DEFINE n == Cardinality(Signallers)
  <2>1. n \in Nat /\ n' \in Nat /\ n' <= n
    <3>1. io'[t].pc \notin Signalling
      BY <1>3 DEF Signalling, BeforeStatus
    <3> QED
      BY <1>3, <3>1, Counted
  <2>2. signals + n <= messages /\ signals \in Nat /\ messages \in Nat
    BY Numbers DEF IInv, SignalsCounted
  <2>3. signals + n' <= messages
    BY <2>1, <2>2
  <2> QED
    BY <1>2, <2>3 DEF SignalsCounted
<1>11. Table' /\ Outbox'
  <2>1. \A k \in Ids : peer[k] # "none" => peer'[k] # "none"
    BY <1>4
  <2> QED
    BY <1>2, <1>3, <2>1, TableKept, OutboxKept
<1>12. Missing' /\ Online' /\ Shown' /\ Offline'
  BY <1>2, <1>3, StatusKept, Numbers DEF IInv
<1> QED
  BY <1>6, <1>7, <1>8, <1>9, <1>10, <1>11, <1>12 DEF IInv

-----------------------------------------------------------------------------
(* The data base, the map and the window *)

\* What a step keeps that changes status, sessions, signals or told, and takes
\* its handler from one place to another.
LEMMA StatusStep ==
  ASSUME IInv, NEW t \in Threads, NEW pc, Continues(t, pc),
         pc \notin {"accept", "erase"}, io[t].pc \notin {"accept", "set_online", "set_id"},
         pc \in Leaving => io[t].pc \in Leaving,
         UNCHANGED <<id_increment, peer, messages, info, local_user_table, outbox, shown, life,
                     crashed, failures, granted, late>>,
         status' \subseteq Users, sessions' \subseteq Ids,
         \A c \in Ids : peer[c] = "open" => c \in sessions',
         told' \in [Ids -> Users \cup {NoUser}],
         \A c \in Ids : told'[c] # NoUser => peer[c] = "closed",
         JobsHonest',
         signals' \in Nat,
         \/ signals' = signals /\ (pc \in Signalling => io[t].pc \in Signalling)
         \/ signals' = signals + 1 /\ io[t].pc \in Signalling /\ pc \notin Signalling,
         Missing', Online', Shown', Offline'
  PROVE  IInv'
<1>1. Alone'
  BY AloneKept
<1>2. Accepted'
  <2>1. ASSUME NEW s \in Threads, At(s, "accept") PROVE At(s, "accept")'
    BY <2>1 DEF At, Continues
  <2> QED
    BY <2>1 DEF IInv, Accepted
<1>3. Table' /\ Outbox'
  BY TableKept, OutboxKept DEF Continues
<1>4. SignalsCounted'
  <2> DEFINE n == Cardinality(Signallers)
  <2>1. /\ n \in Nat /\ n' \in Nat
        /\ (pc \in Signalling => io[t].pc \in Signalling) => n' <= n
        /\ io[t].pc \in Signalling /\ pc \notin Signalling => n' + 1 <= n
    BY Counted DEF Continues
  <2>2. signals + n <= messages /\ signals \in Nat /\ messages \in Nat
    BY Numbers DEF IInv, SignalsCounted
  <2>3. signals' + n' <= messages
    BY <2>1, <2>2
  <2> QED
    BY <2>3 DEF SignalsCounted
<1>5. TypeOK'
  <2>1. signals' \in 0..MaxMessages
    <3>1. Cardinality(Signallers') \in Nat
      BY Counted DEF Continues
    <3>2. signals' + Cardinality(Signallers') <= messages
      BY <1>4 DEF SignalsCounted
    <3>3. messages \in Nat /\ MaxMessages \in Nat /\ messages <= MaxMessages
      BY Numbers DEF IInv
    <3> QED
      BY <3>1, <3>2, <3>3
  <2>2. {status', shown', late'} \subseteq SUBSET Users
    BY DEF IInv, TypeOK
  <2>3. io' \in [Threads -> Job]
    BY DEF Continues
  <2> QED
    BY <2>1, <2>2, <2>3 DEF IInv, TypeOK, Job
<1> QED
  BY <1>1, <1>2, <1>3, <1>4, <1>5 DEF IInv

LEMMA SetStatusStep ==
  ASSUME IInv, crashed = "no", NEW t \in Threads, SetStatus(t)
  PROVE  IInv'
<1> DEFINE c == io[t].conn
           u == io[t].user
<1>1. /\ io[t].pc = "set_status" /\ Goto(t, "send_rooms") /\ status' = status \cup {u}
      /\ UNCHANGED <<id_increment, peer, messages, sessions, info, local_user_table, outbox, signals,
                     shown, life, crashed, failures, granted, told, late>>
  BY DEF SetStatus, At, counts, tables, window, hist
<1>2. u \in Users /\ c \in granted[u] /\ (life # "running" => u \in late)
  BY <1>1 DEF IInv, JobsHonest, JobHonest, Granted, BeforeStatus
<1>3. Moves(t, "send_rooms")
  BY <1>1, Moved DEF IInv, Places
<1>4. JobsHonest'
  <2>1. JobHonest(io[t])'
    BY <1>1, <1>3, GoesOn DEF Granted, BeforeStatus
  <2> QED
    BY <1>1, <1>3, <2>1, OthersHonest DEF Moves, Continues
<1>5. Missing' /\ Offline'
  BY <1>1, <1>2 DEF Missing, IInv, Offline, TypeOK
<1>6. io'[t].pc = "send_rooms" /\ io'[t].conn = c /\ \A s \in Threads \ {t} : io'[s] = io[s]
  BY <1>3 DEF Moves, Continues
<1>7. Online'
  <2> SUFFICES ASSUME NEW v \in status'
               PROVE  \E k \in granted[v] :
                        \/ k \in sessions \/ told[k] # v
                        \/ \E s \in Threads : io'[s].pc = "send_rooms" /\ io'[s].conn = k
    BY <1>1 DEF Online, At
  <2>1. CASE v = u
    BY <1>2, <1>6, <2>1
  <2>2. CASE v # u
    <3>1. PICK k \in granted[v] : \/ k \in sessions \/ told[k] # v
                                  \/ \E s \in Threads : io[s].pc = "send_rooms" /\ io[s].conn = k
      BY <1>1, <2>2 DEF IInv, Online, At
    <3> QED
      BY <1>1, <1>6, <3>1
  <2> QED
    BY <2>1, <2>2
<1>8. Shown'
  BY <1>6 DEF Shown
<1>9. /\ status' \subseteq Users /\ sessions' \subseteq Ids /\ signals' \in Nat
      /\ \A k \in Ids : peer[k] = "open" => k \in sessions'
      /\ told' \in [Ids -> Users \cup {NoUser}]
      /\ \A k \in Ids : told'[k] # NoUser => peer[k] = "closed"
  BY <1>1, <1>2, Numbers DEF IInv, TypeOK, Accepted
<1>10. Continues(t, "send_rooms") /\ "send_rooms" \notin Leaving /\ "set_status" \in Signalling
  BY <1>3 DEF Moves, Leaving, Signalling, BeforeStatus
<1> QED
  BY <1>1, <1>4, <1>5, <1>7, <1>8, <1>9, <1>10, StatusStep

\* The window is told, by login and by log_out.
LEMMA SignalSteps ==
  ASSUME IInv, crashed = "no", NEW t \in Threads, OnUserLog(t) \/ LogOutSignal(t)
  PROVE  IInv'
<1>1. /\ signals' = signals + 1
      /\ UNCHANGED <<id_increment, peer, messages, sessions, info, local_user_table, status, outbox,
                     shown, life, crashed, failures, granted, told, late>>
  BY DEF OnUserLog, LogOutSignal, counts, tables, hist
<1>2. PICK pc \in {"idle", "reply"} :
        /\ Moves(t, pc) /\ io[t].pc \in {"on_user_log", "log_out_signal"}
        /\ pc = "reply" => io[t].pc = "on_user_log"
  BY Moved DEF IInv, Places, OnUserLog, LogOutSignal, At
<1>3. JobsHonest'
  <2>1. JobHonest(io[t])'
    <3>1. CASE pc = "idle"
      BY <1>2, <3>1, IdleHonest DEF Moves, Continues
    <3>2. CASE pc = "reply"
      <4>1. pc \notin BeforeStatus /\ io[t].pc \in Granted
        BY <1>2, <3>2 DEF BeforeStatus, Granted
      <4> QED
        BY <1>1, <1>2, <3>2, <4>1, GoesOn
    <3> QED
      BY <3>1, <3>2
  <2> QED
    BY <1>1, <1>2, <2>1, OthersHonest DEF Moves, Continues
<1>4. signals \in Nat
  BY Numbers DEF IInv
<1>5. Missing' /\ Offline'
  BY <1>1 DEF Missing, IInv, Offline
<1>6. Shown'
  BY <1>1, <1>4 DEF Shown
<1>7. Online'
  <2> SUFFICES ASSUME NEW u \in status
               PROVE  \E c \in granted[u] :
                        \/ c \in sessions \/ told[c] # u
                        \/ \E s \in Threads : At(s, "send_rooms")' /\ io'[s].conn = c
    BY <1>1 DEF Online
  <2>1. PICK c \in granted[u] : \/ c \in sessions \/ told[c] # u
                                \/ \E s \in Threads : At(s, "send_rooms") /\ io[s].conn = c
    BY DEF IInv, Online
  <2>2. ASSUME NEW s \in Threads, At(s, "send_rooms") PROVE io'[s] = io[s]
    BY <1>2, <2>2 DEF Moves, Continues, At
  <2> QED
    BY <2>1, <2>2 DEF At
<1>8. /\ status' \subseteq Users /\ sessions' \subseteq Ids /\ signals' \in Nat
      /\ \A k \in Ids : peer[k] = "open" => k \in sessions'
      /\ told' \in [Ids -> Users \cup {NoUser}]
      /\ \A k \in Ids : told'[k] # NoUser => peer[k] = "closed"
  BY <1>1, <1>4 DEF IInv, TypeOK, Accepted
<1>9. /\ Continues(t, pc) /\ pc \notin Leaving /\ io[t].pc \in Signalling /\ pc \notin Signalling
  BY <1>2 DEF Moves, Leaving, Signalling, BeforeStatus
<1> QED
  BY <1>1, <1>2, <1>3, <1>5, <1>6, <1>7, <1>8, <1>9, StatusStep

LEMMA LogOutOfflineStep ==
  ASSUME IInv, crashed = "no", NEW t \in Threads, LogOutOffline(t)
  PROVE  IInv'
<1>1. /\ io[t].pc = "log_out_offline" /\ Goto(t, "log_out_signal")
      /\ status' = status \ {io[t].user}
      /\ UNCHANGED <<id_increment, peer, messages, sessions, info, local_user_table, outbox, signals,
                     shown, life, crashed, failures, granted, told, late>>
  BY DEF LogOutOffline, At, counts, tables, window, hist
<1>2. Moves(t, "log_out_signal")
  BY <1>1, Moved DEF IInv, Places
<1>3. JobsHonest'
  <2>1. JobHonest(io[t])'
    BY <1>1, <1>2, GoesOn DEF Granted, BeforeStatus
  <2> QED
    BY <1>1, <1>2, <2>1, OthersHonest DEF Moves, Continues
<1>4. Missing' /\ Online' /\ Shown' /\ Offline'
  BY <1>1, <1>2, StatusKept, Numbers DEF IInv, Moves, Continues
<1>5. /\ status' \subseteq Users /\ sessions' \subseteq Ids /\ signals' \in Nat
      /\ \A k \in Ids : peer[k] = "open" => k \in sessions'
      /\ told' \in [Ids -> Users \cup {NoUser}]
      /\ \A k \in Ids : told'[k] # NoUser => peer[k] = "closed"
  BY <1>1, Numbers DEF IInv, TypeOK, Accepted
<1>6. /\ Continues(t, "log_out_signal") /\ "log_out_signal" \notin Leaving
      /\ "log_out_offline" \in Signalling
  BY <1>2 DEF Moves, Leaving, Signalling, BeforeStatus
<1> QED
  BY <1>1, <1>3, <1>4, <1>5, <1>6, StatusStep

\* The session goes: who had its name is still to be set OFFLINE.
LEMMA DeleteStep ==
  ASSUME IInv, crashed = "no", NEW t \in Threads, delete_user(t)
  PROVE  IInv'
<1> DEFINE c == io[t].conn
<1>1. /\ io[t].pc = "erase" /\ Goto(t, "set_offline") /\ sessions' = sessions \ {c}
      /\ UNCHANGED <<id_increment, peer, messages, info, local_user_table, status, outbox, signals,
                     shown, life, crashed, failures, granted, told, late>>
  BY DEF delete_user, At, counts, window, hist
<1>2. c \in Ids /\ peer[c] = "closed" /\ told[c] = NoUser /\ JobHonest(io[t])
  BY <1>1 DEF IInv, JobsHonest, JobHonest, Leaving
<1>3. Moves(t, "set_offline")
  BY <1>1, Moved DEF IInv, Places
<1>4. JobsHonest'
  <2>1. JobHonest(io[t])'
    BY <1>1, <1>2, <1>3 DEF JobHonest, Moves, Continues, Leaving, Granted, BeforeStatus
  <2> QED
    BY <1>1, <1>3, <2>1, OthersHonest DEF Moves, Continues
<1>5. Missing' /\ Offline'
  BY <1>1 DEF Missing, IInv, Offline
<1>6. ASSUME NEW s \in Threads, io[s].pc \in {"send_rooms", "on_user_log"} PROVE io'[s] = io[s]
  BY <1>1, <1>3, <1>6 DEF Moves, Continues
<1>7. Online'
  <2> SUFFICES ASSUME NEW u \in status
               PROVE  \E k \in granted[u] :
                        \/ k \in sessions \ {c} \/ told[k] # u
                        \/ \E s \in Threads : At(s, "send_rooms")' /\ io'[s].conn = k
    BY <1>1 DEF Online
  <2>1. PICK k \in granted[u] : \/ k \in sessions \/ told[k] # u
                                \/ \E s \in Threads : At(s, "send_rooms") /\ io[s].conn = k
    BY DEF IInv, Online
  <2>2. u # NoUser
    BY ServerAssumption DEF IInv, TypeOK
  <2> QED
    BY <1>2, <1>6, <2>1, <2>2 DEF At
<1>8. Shown'
  BY <1>1, <1>6 DEF IInv, Shown
<1>9. /\ status' \subseteq Users /\ sessions' \subseteq Ids /\ signals' \in Nat
      /\ \A k \in Ids : peer[k] = "open" => k \in sessions'
      /\ told' \in [Ids -> Users \cup {NoUser}]
      /\ \A k \in Ids : told'[k] # NoUser => peer[k] = "closed"
  BY <1>1, <1>2, Numbers DEF IInv, TypeOK, Accepted
<1>10. Continues(t, "set_offline") /\ "erase" \in Leaving /\ "set_offline" \notin Signalling
  BY <1>3 DEF Moves, Leaving, Signalling, BeforeStatus
<1> QED
  BY <1>1, <1>4, <1>5, <1>7, <1>8, <1>9, <1>10, StatusStep

\* Whoever had the name of a session is OFFLINE when its end was handled.
LEMMA SetOfflineStep ==
  ASSUME IInv, crashed = "no", NEW t \in Threads, SetOffline(t)
  PROVE  IInv'
<1> DEFINE c == io[t].conn
           u == io[t].user
<1>1. /\ io[t].pc = "set_offline" /\ Return(t) /\ status' = status \ {u}
      /\ told' = [told EXCEPT ![c] = u]
      /\ UNCHANGED <<id_increment, peer, messages, sessions, info, local_user_table, outbox, signals,
                     shown, life, crashed, failures, granted, late>>
  BY DEF SetOffline, At, counts, tables, window
<1>2. c \in Ids /\ peer[c] = "closed" /\ u \in Users \cup {NoUser}
  BY <1>1 DEF IInv, TypeOK, JobsHonest, JobHonest, Leaving
<1>3. /\ told' \in [Ids -> Users \cup {NoUser}]
      /\ \A k \in Ids : told'[k] = IF k = c THEN u ELSE told[k]
  BY <1>1, <1>2 DEF IInv, TypeOK
<1> HIDE DEF c, u
<1>4. Moves(t, "idle")
  BY <1>1, Moved DEF IInv, Places
<1>5. JobsHonest'
  <2>1. JobHonest(io[t])'
    BY <1>4, IdleHonest DEF Moves, Continues
  <2>2. ASSUME NEW s \in Threads \ {t} PROVE JobHonest(io[s])'
    <3>1. JobHonest(io[s]) /\ io'[s] = io[s]
      BY <1>4 DEF IInv, JobsHonest, Moves, Continues
    <3>2. io[s].pc \in Leaving => io[s].conn # c /\ io[s].conn \in Ids
      BY <1>1, <3>1 DEF IInv, Alone, Leaving, JobHonest, c
    <3> QED
      BY <1>1, <1>3, <3>1, <3>2 DEF JobHonest
  <2> QED
    BY <2>1, <2>2 DEF JobsHonest
<1>6. Missing' /\ Offline'
  BY <1>1 DEF Missing, IInv, Offline
<1>7. ASSUME NEW s \in Threads, io[s].pc \in {"send_rooms", "on_user_log"} PROVE io'[s] = io[s]
  BY <1>1, <1>4, <1>7 DEF Moves, Continues
<1>8. Online'
  <2> SUFFICES ASSUME NEW v \in status, v # u
               PROVE  \E k \in granted[v] :
                        \/ k \in sessions \/ told'[k] # v
                        \/ \E s \in Threads : At(s, "send_rooms")' /\ io'[s].conn = k
    BY <1>1 DEF Online
  <2>1. PICK k \in granted[v] : \/ k \in sessions \/ told[k] # v
                                \/ \E s \in Threads : At(s, "send_rooms") /\ io[s].conn = k
    BY DEF IInv, Online
  <2>2. k \in Ids
    BY DEF IInv, TypeOK
  <2> QED
    BY <1>3, <1>7, <2>1, <2>2 DEF At
<1>9. Shown'
  BY <1>1, <1>7 DEF IInv, Shown
<1>10. /\ status' \subseteq Users /\ sessions' \subseteq Ids /\ signals' \in Nat
       /\ \A k \in Ids : peer[k] = "open" => k \in sessions'
       /\ \A k \in Ids : told'[k] # NoUser => peer[k] = "closed"
  BY <1>1, <1>2, <1>3, Numbers DEF IInv, TypeOK, Accepted
<1>11. Continues(t, "idle") /\ "idle" \notin Leaving /\ "idle" \notin Signalling
  BY <1>4 DEF Moves, Leaving, Signalling, BeforeStatus
<1> QED
  BY <1>1, <1>3, <1>5, <1>6, <1>8, <1>9, <1>10, <1>11, StatusStep

-----------------------------------------------------------------------------
(* The window, the end, and what may kill the process *)

\* Steps that no handler takes.
LEMMA OtherSteps ==
  ASSUME IInv, crashed = "no",
         UNCHANGED <<counts, tables, io, outbox, failures, granted, told>>,
         shown' \subseteq Users, status' \subseteq Users, late' \subseteq Users,
         signals' \in Nat, signals' <= signals,
         life' \in {"running", "stopped", "offline", "destroyed", "joined"},
         crashed' \in {"no", "race", "destroyed"},
         crashed' = "no" => status' \subseteq status,
         crashed' = "no" /\ life' = "running" =>
           /\ life = "running"
           /\ status' \subseteq shown' \/ (UNCHANGED <<status, shown, signals>>),
         life' \in {"offline", "destroyed", "joined"} => status' \subseteq late',
         life' # "running" =>
           \A t \in Threads : io[t].pc \in BeforeStatus => io[t].user \in late'
  PROVE  IInv'
<1>1. UNCHANGED <<id_increment, peer, messages, sessions, info, local_user_table>>
  BY DEF counts, tables
<1>2. TypeOK'
  <2>1. signals' \in 0..MaxMessages
    BY Numbers DEF IInv
  <2> QED
    BY <1>1, <2>1 DEF IInv, TypeOK
<1>3. JobsHonest'
  <2> SUFFICES ASSUME NEW t \in Threads PROVE JobHonest(io[t])'
    BY DEF JobsHonest
  <2>1. JobHonest(io[t])
    BY DEF IInv, JobsHonest
  <2> QED
    BY <1>1, <2>1 DEF JobHonest
<1>4. Alone' /\ Accepted' /\ Table'
  BY <1>1 DEF IInv, Alone, Accepted, Table, At
<1>5. Outbox'
  BY OutboxKept
<1>6. SignalsCounted'
  <2>1. Cardinality(Signallers) \in Nat
    BY ServerAssumption, FS_Subset, FS_CardinalityType DEF Signallers
  <2>2. signals + Cardinality(Signallers) <= messages /\ signals \in Nat /\ messages \in Nat
    BY Numbers DEF IInv, SignalsCounted
  <2>3. signals' + Cardinality(Signallers) <= messages
    BY <2>1, <2>2
  <2> QED
    BY <1>1, <2>3 DEF SignalsCounted, Signallers
<1>7. Missing' /\ Offline'
  BY DEF Missing, Offline
<1>8. Online'
  BY <1>1 DEF IInv, Online, At
<1>9. Shown'
  BY DEF IInv, Shown
<1> QED
  BY <1>2, <1>3, <1>4, <1>5, <1>6, <1>7, <1>8, <1>9 DEF IInv

LEMMA WindowSteps ==
  ASSUME IInv, crashed = "no", onRefreshUserTable \/ on_btn_load_sql_users_clicked
  PROVE  IInv'
<1>1. /\ life = "running" /\ shown' = status
      /\ UNCHANGED <<counts, tables, status, io, outbox, life, crashed, failures, hist>>
      /\ UNCHANGED <<granted, told, late>>
  BY DEF onRefreshUserTable, on_btn_load_sql_users_clicked, hist
<1>2. signals' \in Nat /\ signals' <= signals
  BY Numbers DEF IInv, onRefreshUserTable, on_btn_load_sql_users_clicked
<1>3. /\ status \subseteq Users /\ late \subseteq Users
      /\ life \in {"running", "stopped", "offline", "destroyed", "joined"}
  BY DEF IInv, TypeOK
<1> QED
  BY <1>1, <1>2, <1>3, OtherSteps

LEMMA EndingSteps ==
  ASSUME IInv, crashed = "no", Ending
  PROVE  IInv'
<1>1. UNCHANGED <<counts, tables, io, outbox, window, crashed, failures, granted, told, shown, signals>>
  BY DEF Ending, Stop, SetAllOffline, DestroyMembers, Join, hist, window
<1>2. /\ status \subseteq Users /\ late \subseteq Users /\ shown \subseteq Users
      /\ signals \in Nat /\ signals <= signals
  BY Numbers DEF IInv, TypeOK
<1>3. ASSUME NEW t \in Threads, io[t].pc \in BeforeStatus
      PROVE  io[t].user \in Users /\ (life # "running" => io[t].user \in late)
  BY <1>3 DEF IInv, JobsHonest, JobHonest, BeforeStatus
<1>4. CASE Stop
  <2>1. /\ life' = "stopped" /\ UNCHANGED status
        /\ late' = {io[t].user : t \in {s \in Threads : io[s].pc \in BeforeStatus}}
    BY <1>4 DEF Stop, BeforeStatus
  <2>2. late' \subseteq Users /\ \A t \in Threads : io[t].pc \in BeforeStatus => io[t].user \in late'
    BY <1>3, <2>1
  <2> QED
    BY <1>1, <1>2, <2>1, <2>2, OtherSteps
<1>5. CASE SetAllOffline
  <2>1. life = "stopped" /\ life' = "offline" /\ status' = {} /\ UNCHANGED late
    BY <1>5 DEF SetAllOffline, hist
  <2> QED
    BY <1>1, <1>2, <1>3, <2>1, OtherSteps
<1>6. CASE DestroyMembers \/ Join
  <2>1. /\ life \in {"offline", "destroyed"} /\ life' \in {"destroyed", "joined"}
        /\ UNCHANGED <<status, late>>
    BY <1>6 DEF DestroyMembers, Join, hist
  <2>2. status \subseteq late
    BY <2>1 DEF IInv, Offline
  <2> QED
    BY <1>1, <1>2, <1>3, <2>1, <2>2, OtherSteps
<1> QED
  BY <1>4, <1>5, <1>6 DEF Ending

\* Two threads have met in an unordered_map, or a member is gone.
LEMMA DeadlySteps ==
  ASSUME IInv, crashed = "no", Race \/ \E t \in Threads : UseAfterDestruction(t)
  PROVE  IInv'
<1>1. /\ crashed' \in {"race", "destroyed"}
      /\ UNCHANGED <<counts, tables, status, io, outbox, window, life, failures, hist>>
      /\ UNCHANGED <<granted, told, late, shown, signals>>
  BY DEF Race, UseAfterDestruction, hist, window
<1>2. /\ status \subseteq Users /\ late \subseteq Users /\ shown \subseteq Users
      /\ signals \in Nat /\ signals <= signals
      /\ life \in {"running", "stopped", "offline", "destroyed", "joined"}
  BY Numbers DEF IInv, TypeOK
<1>3. /\ life \in {"offline", "destroyed", "joined"} => status \subseteq late
      /\ life # "running" => \A t \in Threads : io[t].pc \in BeforeStatus => io[t].user \in late
  BY DEF IInv, Offline, JobsHonest, JobHonest
<1> QED
  BY <1>1, <1>2, <1>3, OtherSteps

-----------------------------------------------------------------------------
(* The invariant, and what it says *)

LEMMA InitIInv == Init => IInv
<1> SUFFICES ASSUME Init PROVE IInv
  OBVIOUS
<1>1. \A t \in Threads : io[t] = Idle
  BY DEF Init
<1>2. Idle \in Job /\ Idle.pc = "idle"
  BY DEF Idle, Job, Places
<1>3. MaxConns \in Nat /\ MaxMessages \in Nat /\ MaxFailures \in Nat
  BY ServerAssumption
<1>4. TypeOK
  <2>1. 0 \in 0..MaxConns /\ 0 \in 0..MaxMessages /\ 0 \in 0..MaxFailures
    BY <1>3
  <2> QED
    BY <1>2, <2>1 DEF Init, TypeOK, Job
<1>5. JobsHonest
  BY <1>1, <1>2 DEF JobsHonest, JobHonest, Leaving, Granted, BeforeStatus
<1>6. Alone
  BY <1>1, <1>2 DEF Alone, Leaving, At
<1>7. Accepted
  <2>1. \A c \in Ids : ~(c < 0)
    BY <1>3 DEF Ids
  <2> QED
    BY <2>1 DEF Init, Accepted
<1>8. Table /\ Outbox
  BY DEF Init, Table, Outbox, FeedbackHonest
<1>9. SignalsCounted
  <2>1. Signallers = {}
    BY <1>1, <1>2 DEF Signallers, Signalling, BeforeStatus
  <2>2. signals = 0 /\ messages = 0
    BY DEF Init
  <2> QED
    BY <2>1, <2>2, FS_EmptySet DEF SignalsCounted
<1>10. Missing /\ Online /\ Shown /\ Offline
  BY DEF Init, Missing, Online, Shown, Offline
<1> QED
  BY <1>4, <1>5, <1>6, <1>7, <1>8, <1>9, <1>10 DEF IInv

LEMMA NextIInv ==
  ASSUME IInv, [Next]_vars
  PROVE  IInv'
<1>1. CASE UNCHANGED vars
  <2>1. UNCHANGED <<id_increment, peer, messages, sessions, info, local_user_table, status, io, outbox,
                    signals, shown, life, crashed, failures, granted, told, late>>
    BY <1>1 DEF vars, counts, tables, window, hist
  <2>2. TypeOK' /\ JobsHonest' /\ Alone'
    BY <2>1 DEF IInv, TypeOK, JobsHonest, JobHonest, Alone, At
  <2>3. Accepted' /\ Table' /\ SignalsCounted'
    BY <2>1 DEF IInv, Accepted, Table, SignalsCounted, Signallers, At
  <2>4. Outbox'
    BY <2>1, OutboxKept
  <2>5. Missing' /\ Shown' /\ Offline'
    BY <2>1 DEF IInv, Missing, Shown, Offline, At
  <2>6. Online'
    BY <2>1 DEF IInv, Online, At
  <2> QED
    BY <2>2, <2>3, <2>4, <2>5, <2>6 DEF IInv
<1>2. CASE Next
  <2>1. crashed = "no"
    BY <1>2 DEF Next
  <2>2. ASSUME NEW t \in Threads, Begin(t) PROVE IInv'
    BY <2>1, <2>2, AcceptStartStep, StartStep, StartDisconnectStep DEF Begin
  <2>3. ASSUME NEW t \in Threads, Handle(t) PROVE IInv'
    <3>1. CASE Accept(t) \/ Finish(t)
      BY <2>1, <3>1, AcceptStep, SilentSteps
    <3>2. CASE Login(t)
      BY <2>1, <3>2, VerifyStep, LoginTableSteps, UpdateInfoStep, SetStatusStep, SessionSteps,
         SignalSteps DEF Login
    <3>3. CASE Leave(t)
      BY <2>1, <3>3, DeleteStep, SetOfflineStep, SilentSteps, LogOutOfflineStep, SignalSteps
      DEF Leave
    <3>4. CASE Talk(t)
      BY <2>1, <3>4, GetIdStep, SilentSteps, SessionSteps DEF Talk
    <3> QED
      BY <2>3, <3>1, <3>2, <3>3, <3>4 DEF Handle
  <2>4. ASSUME NEW t \in Threads, Throws(t) PROVE IInv'
    BY <2>1, <2>4, SilentSteps
  <2>5. CASE Race \/ \E t \in Threads : UseAfterDestruction(t)
    BY <2>1, <2>5, DeadlySteps
  <2>6. CASE onRefreshUserTable \/ on_btn_load_sql_users_clicked
    BY <2>1, <2>6, WindowSteps
  <2>7. CASE Ending
    BY <2>1, <2>7, EndingSteps
  <2> QED
    BY <1>2, <2>2, <2>3, <2>4, <2>5, <2>6, <2>7 DEF Next
<1> QED
  BY <1>1, <1>2

THEOREM Invariant == Spec => []IInv
  BY InitIInv, NextIInv, PTL DEF Spec

\* Nothing said to a user reaches a session that did not give his password,
\* however the handlers of all sessions interleave, but for the session 0 that
\* operator[] makes up while user_login enters him for the first time.
THEOREM AddressStaysHonest == Spec => []AddressHonest
<1>1. IInv => AddressHonest
  <2> SUFFICES ASSUME IInv PROVE AddressHonest
    OBVIOUS
  <2>1. \A u \in DOMAIN local_user_table :
          \/ local_user_table[u].id \in granted[u]
          \/ local_user_table[u].id = 0 /\ \E t \in Threads :
               io[t].pc \in {"set_online", "set_id"} /\ io[t].user = u
    BY DEF IInv, Table
  <2>2. \A i \in Ids : \A m \in outbox[i] :
          m.type = "chat" => i \in granted[m.to] \/ (i = 0 /\ granted[m.to] # {})
    BY DEF IInv, Outbox, MayReach
  <2> QED
    BY <2>1, <2>2 DEF AddressHonest
<1> QED
  BY <1>1, Invariant, PTL

\* The map, the data base and the window, which no lock and no transaction
\* holds together: the map has every session whose client is connected; whoever
\* is ONLINE for nothing has ended without his name; and when all signals are
\* seen, the window shows who is ONLINE.
THEOREM StatusStaysExplained == Spec => []StatusExplained
<1>1. IInv => StatusExplained
  <2> SUFFICES ASSUME IInv PROVE StatusExplained
    OBVIOUS
  <2>1. MissingHaveLeft
    BY DEF IInv, Missing, Accepted, MissingHaveLeft
  <2>2. OnlineExplained
    BY DEF IInv, Online, OnlineExplained, Quiet, At
  <2>3. OnlineShown
    <3> SUFFICES ASSUME Quiet, signals = 0, life = "running" PROVE status \subseteq shown
      BY DEF OnlineShown
    <3>1. \A t \in Threads : io[t].pc = "idle"
      BY DEF Quiet, At
    <3> QED
      BY <3>1 DEF IInv, Shown, Quiet
  <2> QED
    BY <2>1, <2>2, <2>3 DEF IInv, StatusExplained
<1> QED
  BY <1>1, Invariant, PTL

\* Who is told "success" has had a message of his put in a session's queue.
THEOREM FeedbackStaysHonest == Spec => []FeedbackHonest
<1>1. IInv => FeedbackHonest
  BY DEF IInv, Outbox
<1> QED
  BY <1>1, Invariant, PTL

\* ~Server leaves nobody ONLINE but those whose login was under way when the
\* io_context was stopped.
THEOREM OfflineInTheEnd == Spec => []OfflineAtTheEnd
<1>1. IInv => OfflineAtTheEnd
  BY DEF IInv, Offline, OfflineAtTheEnd
<1> QED
  BY <1>1, Invariant, PTL
=============================================================================
