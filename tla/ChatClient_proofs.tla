-------------------------- MODULE ChatClient_proofs --------------------------
(***************************************************************************)
(* What holds of ChatClient for every number of io threads, of connections *)
(* and of logins.                                                          *)
(***************************************************************************)
EXTENDS ChatClient, SequenceTheorems, TLAPS

-----------------------------------------------------------------------------
(* The inductive invariant *)

Starting == {"emplace", "set_connected"}
Ending   == {"set_disconnected", "erase", "emit_disconnect"}
PCs      == {"idle", "emit_connect", "login_success", "emit_login", "set_lists"}
              \cup Starting \cup Ending
Job      == [pc : PCs, sess : Ids \cup {NoId}]
Texts    == DOMAIN FirstStep

SomeAt(P) == \E t \in Threads : io[t].pc \in P

\* A signal that is queued for the window, the end of a session among them, and
\* a box that is open.
Says(type) == \E i \in 1..Len(signals) : signals[i].type = type
Names(s) == \E i \in 1..Len(signals) :
              signals[i].type = "can_check_connect" /\ signals[i].sess = s
Boxed(box) == \E i \in 1..Len(ui) : ui[i] = box

Signal == [type : {"can_check_connect", "can_check_login", "recv_chat_lists"},
           sess : Ids \cup {NoId}]

\* The types, in parts that a step changes together.
Flags  == /\ login_visible \in BOOLEAN /\ main_visible \in BOOLEAN /\ rows \in BOOLEAN
          /\ is_connected \in BOOLEAN /\ is_logined \in BOOLEAN
          /\ overlapped \in BOOLEAN /\ overtaken \in BOOLEAN
          /\ nested \in BOOLEAN /\ outrun \in BOOLEAN
Counts == /\ connecting \in Nat /\ presses \in Nat /\ logins \in Nat /\ id_increment \in Nat
          /\ id_increment + connecting <= presses
          /\ presses <= MaxConnects /\ logins <= MaxLogins
          /\ cur_id = id_increment
Stages == /\ sending \in {"no", "login", "history", "log_out"}
          /\ crashed \in {"no", "unresolved", "null session"}
Queued == ui \in Seq(Boxes) /\ signals \in Seq(Signal)
Tables == /\ io \in [Threads -> Job]
          /\ link \in [Ids -> {"none", "open", "closed", "broken"}]
          /\ inbox \in [Ids -> Seq(Texts)]
          /\ requests \in [Ids -> Nat]
Made   == sessions \subseteq Ids /\ erased \subseteq Ids /\ sessions \cap erased = {}
Types  == Flags /\ Counts /\ Stages /\ Queued /\ Tables /\ Made

\* A session: made once, with the id taken last; what it received is the end of
\* the connection only at the end.
SessionHonest(s) ==
  /\ link[s] = "none" <=> s \notin sessions \cup erased
  /\ link[s] = "none" => requests[s] = 0 /\ inbox[s] = <<>>
  /\ s > id_increment => link[s] = "none"
  /\ \A i \in 1..Len(inbox[s]) :
       inbox[s][i] = "eof" => i = Len(inbox[s]) /\ link[s] = "closed"
  /\ link[s] = "closed" /\ inbox[s] # <<>> => inbox[s][Len(inbox[s])] = "eof"

JobHonest(j) ==
  /\ j.pc \in Starting \cup Ending => j.sess \in Ids
  /\ j.pc = "emplace" => j.sess = cur_id /\ link[j.sess] = "none"
  /\ j.pc = "set_connected" => j.sess = cur_id /\ link[j.sess] # "none"
  /\ j.pc \in Ending => link[j.sess] = "closed" /\ inbox[j.sess] = <<>>

Alone ==
  \A t, u \in Threads :
    t # u => /\ ~(io[t].pc \in Starting /\ io[u].pc \in Starting)
             /\ io[t].pc \in Ending /\ io[u].pc \in Ending => io[t].sess # io[u].sess

Honest == /\ \A s \in Ids : SessionHonest(s)
          /\ \A t \in Threads : JobHonest(io[t])
          /\ Alone

\* The end of a connection is never lost between the steps that tell the window.
TellsEnd(s) == \/ inbox[s] # <<>>
               \/ \E t \in Threads : io[t].pc \in Ending /\ io[t].sess = s
               \/ Names(s)
               \/ s \in told
Told == \A s \in Ids : link[s] = "closed" => TellsEnd(s)

\* Nobody uses a session, or knows of one, before there was one.
Used == sessions \cup erased # {}
UseNeedsSession ==
  ~Used => /\ sending = "no" /\ ~is_connected /\ ~is_logined /\ ~main_visible /\ ~rows
           /\ ~Boxed("login_ok") /\ ~Says("recv_chat_lists")
           /\ ~SomeAt({"login_success", "set_lists"})

\* One connection at a time, as long as nobody pressed connect while the io
\* threads were at work.
OneAtATime ==
  ~overlapped => /\ connecting <= 1
                 /\ connecting = 1 => ~SomeAt(Starting \cup {"emit_connect"})

\* The session that was made is the one in use until its end takes it out.
FirstSession ==
  ~overlapped /\ erased = {} /\ sessions # {} =>
    /\ sessions = {cur_id} /\ connecting = 0 /\ ~SomeAt({"emplace"})
    /\ is_connected \/ SomeAt({"set_connected", "erase"})

Clean == ~overlapped /\ ~overtaken

\* The life of a connection, where nothing overlaps: nobody, made, connected,
\* leaving.
Over(s) == link[s] \in {"none", "closed"} /\ inbox[s] = <<>>
           /\ \A t \in Threads : io[t].pc = "set_disconnected" => io[t].sess # s
OthersOver == \A s \in Ids : s # cur_id => Over(s)

Nobody    == /\ sessions = {} /\ ~is_connected
             /\ ~SomeAt({"set_connected", "erase"})
             /\ \A s \in Ids : Over(s)
BeingMade == /\ sessions = {cur_id} /\ cur_id \in Ids /\ ~is_connected /\ connecting = 0
             /\ SomeAt({"set_connected"}) /\ ~SomeAt({"erase"})
             /\ OthersOver
             /\ requests[cur_id] = 0 /\ sending # "login"
             /\ inbox[cur_id] \in {<<>>, <<"eof">>}
Connected == /\ sessions = {cur_id} /\ cur_id \in Ids /\ is_connected /\ connecting = 0
             /\ ~SomeAt(Starting \cup {"erase"})
             /\ OthersOver
GoingDown == /\ sessions = {cur_id} /\ cur_id \in Ids /\ ~is_connected /\ connecting = 0
             /\ ~SomeAt(Starting)
             /\ \E t \in Threads : io[t].pc = "erase" /\ \A u \in Threads : io[u].pc = "erase" => u = t
             /\ \A s \in Ids : Over(s)
Phases == Clean => \/ Nobody \/ BeingMade \/ Connected \/ GoingDown
LoginSent == Clean /\ sending = "login" => connecting = 0 /\ ~SomeAt(Starting)

\* The windows.
Windows ==
  /\ login_visible <=> ~main_visible
  /\ ~nested => /\ Len(ui) <= 1
                /\ sending # "no" => ui = <<>>
                /\ main_visible \/ ui = <<"login_ok">> => is_logined

Coming == \/ SomeAt({"erase", "emit_disconnect"})
          \/ Says("can_check_connect")

Showing == ui \in {<<"failed">>, <<"reconnect">>} \/ sending = "log_out"

\* A user who is logged in without a connection is about to be told.
AboutToLearn ==
  Clean /\ ~nested /\ ~outrun /\ ~is_connected /\ ~Coming =>
    /\ ~SomeAt({"login_success"})
    /\ ~(is_logined /\ login_visible)
    /\ main_visible => Showing

IInv == /\ Types /\ Honest /\ Told /\ UseNeedsSession /\ OneAtATime /\ FirstSession
        /\ NullUseExplained /\ Phases /\ LoginSent /\ Windows /\ AboutToLearn

-----------------------------------------------------------------------------
(* Sequences *)

LEMMA Numbers == /\ MaxConnects \in Nat /\ MaxLogins \in Nat
                 /\ NoId = 0 /\ NoId \notin Ids
                 /\ \A s \in Ids : s \in Nat /\ s > 0
                 /\ \A s : s \in Ids <=> s \in Nat /\ s > 0 /\ s <= MaxConnects
  BY ClientAssumption DEF Ids, NoId

\* Where the elements of a sequence are after one is appended.
LEMMA Appended ==
  ASSUME NEW S, NEW q \in Seq(S), NEW x \in S
  PROVE  /\ Append(q, x) \in Seq(S)
         /\ Len(Append(q, x)) = Len(q) + 1
         /\ Len(q) \in Nat
         /\ \A i \in 1..Len(q) : i \in 1..Len(Append(q, x)) /\ Append(q, x)[i] = q[i]
         /\ Len(q) + 1 \in 1..Len(Append(q, x)) /\ Append(q, x)[Len(q) + 1] = x
         /\ \A i \in 1..Len(Append(q, x)) : i \in 1..Len(q) \/ i = Len(q) + 1
<1>1. /\ Append(q, x) \in Seq(S)
      /\ Len(Append(q, x)) = Len(q) + 1
      /\ \A i \in 1..Len(q) : Append(q, x)[i] = q[i]
      /\ Append(q, x)[Len(q) + 1] = x
  BY AppendProperties
<1>2. Len(q) \in Nat
  BY LenProperties
<1> QED
  BY <1>1, <1>2

\* And after the first is taken.
LEMMA Taken ==
  ASSUME NEW S, NEW q \in Seq(S), q # <<>>
  PROVE  /\ Tail(q) \in Seq(S) /\ Head(q) \in S /\ Head(q) = q[1]
         /\ Len(Tail(q)) = Len(q) - 1
         /\ Len(q) \in Nat /\ Len(q) >= 1
         /\ \A i \in 1..Len(Tail(q)) : i + 1 \in 1..Len(q) /\ Tail(q)[i] = q[i + 1]
         /\ \A i \in 1..Len(q) : i = 1 \/ (i - 1 \in 1..Len(Tail(q)) /\ Tail(q)[i - 1] = q[i])
<1>1. /\ Head(q) \in S
      /\ Tail(q) \in Seq(S)
      /\ Len(Tail(q)) = Len(q) - 1
      /\ \A i \in 1..Len(Tail(q)) : Tail(q)[i] = q[i + 1]
  BY HeadTailProperties
<1>2. Len(q) \in Nat /\ Len(q) >= 1
  BY EmptySeq, LenProperties
<1>3. \A i \in 1..Len(Tail(q)) : i + 1 \in 1..Len(q)
  BY <1>1, <1>2
<1>4. ASSUME NEW i \in 1..Len(q), i # 1
      PROVE  i - 1 \in 1..Len(Tail(q)) /\ Tail(q)[i - 1] = q[i]
  <2>1. i - 1 \in 1..Len(Tail(q)) /\ (i - 1) + 1 = i
    BY <1>1, <1>2, <1>4
  <2> QED
    BY <1>1, <2>1
<1> QED
  BY <1>1, <1>2, <1>3, <1>4

\* The boxes below the innermost one.
LEMMA Fronted ==
  ASSUME NEW S, NEW q \in Seq(S), q # <<>>
  PROVE  /\ Front(q) \in Seq(S) /\ Last(q) \in S
         /\ \A i \in 1..Len(Front(q)) : i \in 1..Len(q) /\ Front(q)[i] = q[i]
         /\ Len(q) \in 1..Len(q) /\ q[Len(q)] = Last(q)
         /\ Len(q) <= 1 => q = <<Last(q)>> /\ Front(q) = <<>>
<1>1. Len(q) \in Nat /\ Len(q) >= 1 /\ \A i \in 1..Len(q) : q[i] \in S
  BY EmptySeq, LenProperties, ElementOfSeq
<1>2. PICK n : n = Len(q) - 1
  OBVIOUS
<1>3. n \in Nat /\ \A i \in 1..n : i \in 1..Len(q) /\ q[i] \in S
  BY <1>1, <1>2
<1>4. /\ SubSeq(q, 1, n) \in Seq(S)
      /\ Len(SubSeq(q, 1, n)) = n
      /\ \A i \in 1..n : SubSeq(q, 1, n)[i] = q[i]
  <2>1. 1 \in Int /\ n \in Int
    BY <1>3
  <2>2. /\ SubSeq(q, 1, n) \in Seq(S)
        /\ Len(SubSeq(q, 1, n)) = IF 1 <= n THEN n - 1 + 1 ELSE 0
        /\ \A i \in 1..n - 1 + 1 : SubSeq(q, 1, n)[i] = q[1 + i - 1]
    BY <1>3, <2>1, SubSeqProperties
  <2>3. n - 1 + 1 = n /\ \A i \in 1..n : 1 + i - 1 = i
    BY <1>3
  <2> QED
    BY <1>3, <2>2, <2>3
<1>5. Front(q) = SubSeq(q, 1, n) /\ Last(q) = q[Len(q)]
  BY <1>2 DEF Front, Last
<1>6. ASSUME Len(q) <= 1 PROVE q = <<Last(q)>> /\ Front(q) = <<>>
  <2>1. Len(q) = 1 /\ n = 0
    BY <1>1, <1>2, <1>6
  <2>2. Front(q) = <<>>
    BY <2>1, <1>4, <1>5, EmptySeq
  <2>3. q = <<q[1]>>
    BY <2>1, IsASeq, SeqEqual
  <2> QED
    BY <2>1, <2>2, <2>3, <1>5
<1> QED
  BY <1>1, <1>3, <1>4, <1>5, <1>6

LEMMA One ==
  ASSUME NEW S, NEW x \in S
  PROVE  /\ Append(<<>>, x) = <<x>>
         /\ Append(<<>>, x) \in Seq(S)
         /\ Len(<<x>>) = 1 /\ <<x>>[1] = x
  BY AppendProperties, EmptySeq

-----------------------------------------------------------------------------
(* Signals and boxes *)

LEMMA Emitted ==
  ASSUME signals \in Seq(Signal), NEW sig \in Signal, Emit(sig)
  PROVE  /\ signals' \in Seq(Signal)
         /\ \A ty : Says(ty)' <=> Says(ty) \/ ty = sig.type
         /\ \A s : Names(s) => Names(s)'
         /\ sig.type = "can_check_connect" => Names(sig.sess)'
<1>1. signals' = Append(signals, sig)
  BY DEF Emit
<1>2. /\ signals' \in Seq(Signal)
      /\ \A i \in 1..Len(signals) : i \in 1..Len(signals') /\ signals'[i] = signals[i]
      /\ Len(signals) + 1 \in 1..Len(signals') /\ signals'[Len(signals) + 1] = sig
      /\ \A i \in 1..Len(signals') : i \in 1..Len(signals) \/ i = Len(signals) + 1
  BY <1>1, Appended
<1>3. \A ty : Says(ty)' <=> Says(ty) \/ ty = sig.type
  BY <1>2 DEF Says
<1> QED
  BY <1>2, <1>3 DEF Names

LEMMA Delivered ==
  ASSUME signals \in Seq(Signal), signals # <<>>, signals' = Tail(signals)
  PROVE  /\ signals' \in Seq(Signal) /\ Head(signals) \in Signal
         /\ \A ty : Says(ty)' => Says(ty)
         /\ \A ty : Says(ty) => Says(ty)' \/ ty = Head(signals).type
         /\ \A s : Names(s) =>
              Names(s)' \/ (s = Head(signals).sess /\ Head(signals).type = "can_check_connect")
         /\ Says(Head(signals).type)
<1>1. /\ signals' \in Seq(Signal) /\ Head(signals) \in Signal /\ Head(signals) = signals[1]
      /\ Len(signals) \in Nat /\ Len(signals) >= 1
      /\ \A i \in 1..Len(signals') : i + 1 \in 1..Len(signals) /\ signals'[i] = signals[i + 1]
      /\ \A i \in 1..Len(signals) :
           i = 1 \/ (i - 1 \in 1..Len(signals') /\ signals'[i - 1] = signals[i])
  BY Taken
<1>2. 1 \in 1..Len(signals)
  BY <1>1
<1>3. \A ty : Says(ty)' => Says(ty)
  BY <1>1 DEF Says
<1>4. \A ty : Says(ty) => Says(ty)' \/ ty = Head(signals).type
  BY <1>1 DEF Says
<1>5. \A s : Names(s) =>
        Names(s)' \/ (s = Head(signals).sess /\ Head(signals).type = "can_check_connect")
  BY <1>1 DEF Names
<1> QED
  BY <1>1, <1>2, <1>3, <1>4, <1>5 DEF Says

LEMMA Opened ==
  ASSUME ui \in Seq(Boxes), NEW box \in Boxes, Open(box)
  PROVE  /\ ui' \in Seq(Boxes)
         /\ \A b : Boxed(b)' <=> Boxed(b) \/ b = box
         /\ ui = <<>> => ui' = <<box>>
<1>1. ui' = Append(ui, box)
  BY DEF Open
<1>2. /\ ui' \in Seq(Boxes)
      /\ \A i \in 1..Len(ui) : i \in 1..Len(ui') /\ ui'[i] = ui[i]
      /\ Len(ui) + 1 \in 1..Len(ui') /\ ui'[Len(ui) + 1] = box
      /\ \A i \in 1..Len(ui') : i \in 1..Len(ui) \/ i = Len(ui) + 1
  BY <1>1, Appended
<1>3. ui = <<>> => ui' = <<box>>
  BY <1>1, One
<1>4. \A b : Boxed(b)' <=> Boxed(b) \/ b = box
  BY <1>2 DEF Boxed
<1> QED
  BY <1>2, <1>3, <1>4

LEMMA Closed ==
  ASSUME ui \in Seq(Boxes), ui # <<>>, ui' = Front(ui)
  PROVE  /\ ui' \in Seq(Boxes) /\ Last(ui) \in Boxes /\ Boxed(Last(ui))
         /\ \A b : Boxed(b)' => Boxed(b)
         /\ Len(ui) <= 1 => ui' = <<>> /\ ui = <<Last(ui)>>
  BY Fronted DEF Boxed

LEMMA Replaced ==
  ASSUME ui \in Seq(Boxes), ui # <<>>, NEW box \in Boxes, ui' = Append(Front(ui), box)
  PROVE  /\ ui' \in Seq(Boxes)
         /\ \A b : Boxed(b)' => Boxed(b) \/ b = box
         /\ Len(ui) <= 1 => ui' = <<box>> /\ ui = <<Last(ui)>>
<1> DEFINE q == Front(ui)
<1>1. /\ q \in Seq(Boxes)
      /\ \A i \in 1..Len(q) : i \in 1..Len(ui) /\ q[i] = ui[i]
      /\ Len(ui) <= 1 => q = <<>> /\ ui = <<Last(ui)>>
  BY Fronted
<1> HIDE DEF q
<1>2. ui' = Append(q, box)
  BY DEF q
<1>3. /\ ui' \in Seq(Boxes)
      /\ \A i \in 1..Len(q) : ui'[i] = q[i]
      /\ ui'[Len(q) + 1] = box
      /\ \A i \in 1..Len(ui') : i \in 1..Len(q) \/ i = Len(q) + 1
  BY <1>1, <1>2, Appended
<1>4. Len(ui) <= 1 => ui' = <<box>>
  BY <1>1, <1>2, One
<1> QED
  BY <1>1, <1>3, <1>4 DEF Boxed

-----------------------------------------------------------------------------
(* The io threads *)

LEMMA Moved ==
  ASSUME io \in [Threads -> Job], NEW t \in Threads, NEW j \in Job, io' = [io EXCEPT ![t] = j]
  PROVE  /\ io' \in [Threads -> Job]
         /\ io'[t] = j /\ \A u \in Threads : u # t => io'[u] = io[u]
         /\ \A P : SomeAt(P)' => SomeAt(P) \/ j.pc \in P
         /\ \A P : SomeAt(P) => SomeAt(P)' \/ io[t].pc \in P
         /\ \A P : j.pc \in P => SomeAt(P)'
         /\ \A P : io[t].pc \in P => SomeAt(P)
<1>1. io' \in [Threads -> Job] /\ io'[t] = j /\ \A u \in Threads : u # t => io'[u] = io[u]
  OBVIOUS
<1> QED
  BY <1>1 DEF SomeAt

LEMMA Going ==
  ASSUME io \in [Threads -> Job], NEW t \in Threads, NEW pc \in PCs, Goto(t, pc)
  PROVE  \E j \in Job : j.pc = pc /\ j.sess = io[t].sess /\ io' = [io EXCEPT ![t] = j]
<1>1. io[t] \in Job
  OBVIOUS
<1> DEFINE j == [pc |-> pc, sess |-> io[t].sess]
<1>2. j \in Job
  BY <1>1 DEF Job
<1>3. [io[t] EXCEPT !.pc = pc] = j
  BY <1>1 DEF Job
<1>4. io' = [io EXCEPT ![t] = j]
  BY <1>3 DEF Goto
<1> QED
  BY <1>2, <1>4

LEMMA Returning ==
  ASSUME NEW t \in Threads, Return(t)
  PROVE  io' = [io EXCEPT ![t] = Idle] /\ Idle \in Job /\ Idle.pc = "idle"
  BY DEF Return, Idle, Job, PCs

LEMMA Signals ==
  ASSUME NEW ty \in {"can_check_connect", "can_check_login", "recv_chat_lists"},
         NEW s \in Ids \cup {NoId}
  PROVE  [type |-> ty, sess |-> s] \in Signal
  BY DEF Signal

-----------------------------------------------------------------------------
(* The parts of the invariant and what they depend on *)

LEMMA Typed == ASSUME Types PROVE TypeOK
<1>1. ASSUME NEW s \in Ids PROVE ToSet(inbox[s]) \subseteq DOMAIN FirstStep
  <2>1. inbox[s] \in Seq(Texts)
    BY DEF Types, Tables
  <2>2. \A i \in 1..Len(inbox[s]) : inbox[s][i] \in Texts
    BY <2>1, ElementOfSeq
  <2> QED
    BY <2>1, <2>2, LenProperties DEF ToSet, Texts
<1>2. connecting \in 0..presses /\ presses \in 0..MaxConnects /\ logins \in 0..MaxLogins
  BY ClientAssumption DEF Types, Counts
<1>3. id_increment + connecting <= presses /\ cur_id = id_increment
  BY DEF Types, Counts
<1>4. cur_id \in Ids \cup {NoId}
  BY ClientAssumption DEF Types, Counts, Ids, NoId
<1>5. sessions \subseteq Ids /\ erased \subseteq Ids \ sessions
  BY DEF Types, Made
<1>6. {login_visible, main_visible, rows, is_connected, is_logined, overlapped, overtaken, nested,
       outrun} \subseteq BOOLEAN
  BY DEF Types, Flags
<1>7. link \in [Ids -> {"none", "open", "closed", "broken"}]
  BY DEF Types, Tables
<1>8. ui \in Seq(Boxes) /\ signals \in Seq([type : {"can_check_connect", "can_check_login",
                                                   "recv_chat_lists"}, sess : Ids \cup {NoId}])
  BY DEF Types, Queued, Signal
<1> QED
  BY <1>1, <1>2, <1>3, <1>4, <1>5, <1>6, <1>7, <1>8 DEF TypeOK, Types, Stages

LEMMA Stays ==
  ASSUME IInv
  PROVE  /\ UNCHANGED <<login_visible, main_visible, rows, is_connected, is_logined, overlapped,
                        overtaken, nested, outrun>> => Flags'
         /\ UNCHANGED <<counts, id_increment, cur_id>> => Counts'
         /\ UNCHANGED <<sending, crashed>> => Stages'
         /\ UNCHANGED <<ui, signals>> => Queued'
         /\ UNCHANGED <<io, link, inbox, requests>> => Tables'
         /\ UNCHANGED <<sessions, erased>> => Made'
         /\ UNCHANGED <<io, link, sessions, erased, requests, inbox, id_increment, cur_id>> => Honest'
         /\ UNCHANGED <<io, link, inbox, told, signals>> => Told'
         /\ UNCHANGED <<io, sessions, erased, sending, is_connected, is_logined, main_visible, rows,
                        ui, signals>> => UseNeedsSession'
         /\ UNCHANGED <<overlapped, connecting, io>> => OneAtATime'
         /\ UNCHANGED <<overlapped, erased, sessions, cur_id, connecting, io, is_connected>>
              => FirstSession'
         /\ UNCHANGED <<crashed, erased, overlapped>> => NullUseExplained'
         /\ UNCHANGED <<overlapped, overtaken, sessions, cur_id, is_connected, io, connecting, link,
                        inbox, requests, sending>> => Phases'
         /\ UNCHANGED <<overlapped, overtaken, sending, connecting, io>> => LoginSent'
         /\ UNCHANGED <<login_visible, main_visible, nested, ui, sending, is_logined>> => Windows'
         /\ UNCHANGED <<overlapped, overtaken, nested, outrun, is_connected, io, signals, is_logined,
                        login_visible, main_visible, ui, sending>> => AboutToLearn'
<1>1. UNCHANGED <<io, link, sessions, erased, requests, inbox, id_increment, cur_id>> => Honest'
  BY DEF IInv, Honest, SessionHonest, JobHonest, Alone
<1>2. UNCHANGED <<io, link, inbox, told, signals>> => Told'
  BY DEF IInv, Told, TellsEnd, Names
<1>3. UNCHANGED <<io, sessions, erased, sending, is_connected, is_logined, main_visible, rows,
                  ui, signals>> => UseNeedsSession'
  BY DEF IInv, UseNeedsSession, Used, SomeAt, Boxed, Says
<1>4. UNCHANGED <<overlapped, connecting, io>> => OneAtATime'
  BY DEF IInv, OneAtATime, SomeAt
<1>5. UNCHANGED <<overlapped, erased, sessions, cur_id, connecting, io, is_connected>>
        => FirstSession'
  BY DEF IInv, FirstSession, SomeAt
<1>6. UNCHANGED <<crashed, erased, overlapped>> => NullUseExplained'
  <2>1. overlapped \in BOOLEAN /\ NullUseExplained
    BY DEF IInv, Types, Flags
  <2>2. SUFFICES ASSUME UNCHANGED <<crashed, erased, overlapped>>, crashed' = "null session"
                 PROVE  (erased # {} \/ overlapped)'
    BY DEF NullUseExplained
  <2>3. crashed = "null session" /\ erased' = erased /\ overlapped' = overlapped
    BY <2>2
  <2>4. erased # {} \/ overlapped = TRUE
    BY <2>1, <2>3 DEF NullUseExplained
  <2> QED
    BY <2>1, <2>3, <2>4
<1>7. UNCHANGED <<overlapped, overtaken, sessions, cur_id, is_connected, io, connecting, link,
                  inbox, requests, sending>> => Phases'
  BY DEF IInv, Phases, Clean, Nobody, BeingMade, Connected, GoingDown, OthersOver, Over, SomeAt
<1>8. UNCHANGED <<overlapped, overtaken, sending, connecting, io>> => LoginSent'
  BY DEF IInv, LoginSent, Clean, SomeAt
<1>9. UNCHANGED <<login_visible, main_visible, nested, ui, sending, is_logined>> => Windows'
  BY DEF IInv, Windows
<1>10. UNCHANGED <<overlapped, overtaken, nested, outrun, is_connected, io, signals, is_logined,
                   login_visible, main_visible, ui, sending>> => AboutToLearn'
  BY DEF IInv, AboutToLearn, Clean, Coming, Showing, SomeAt, Says
<1>11. /\ UNCHANGED <<login_visible, main_visible, rows, is_connected, is_logined, overlapped,
                      overtaken, nested, outrun>> => Flags'
       /\ UNCHANGED <<counts, id_increment, cur_id>> => Counts'
       /\ UNCHANGED <<sending, crashed>> => Stages'
       /\ UNCHANGED <<ui, signals>> => Queued'
       /\ UNCHANGED <<io, link, inbox, requests>> => Tables'
       /\ UNCHANGED <<sessions, erased>> => Made'
  <2>1. Flags /\ Counts /\ Stages /\ Queued /\ Tables /\ Made
    BY DEF IInv, Types
  <2>2. UNCHANGED <<login_visible, main_visible, rows, is_connected, is_logined, overlapped,
                    overtaken, nested, outrun>> => Flags'
    BY <2>1 DEF Flags
  <2>3. UNCHANGED <<counts, id_increment, cur_id>> => Counts'
    BY <2>1 DEF Counts, counts
  <2>4. UNCHANGED <<sending, crashed>> => Stages'
    BY <2>1 DEF Stages
  <2>5. UNCHANGED <<ui, signals>> => Queued'
    BY <2>1 DEF Queued
  <2>6. UNCHANGED <<io, link, inbox, requests>> => Tables'
    BY <2>1 DEF Tables
  <2>7. UNCHANGED <<sessions, erased>> => Made'
    BY <2>1 DEF Made
  <2> QED
    BY <2>2, <2>3, <2>4, <2>5, <2>6, <2>7
<1> QED
  BY <1>1, <1>2, <1>3, <1>4, <1>5, <1>6, <1>7, <1>8, <1>9, <1>10, <1>11

-----------------------------------------------------------------------------
(* The window: what the user does *)

LEMMA ConnectPressed ==
  ASSUME IInv, on_btn_connect_clicked
  PROVE  IInv'
<1>1. /\ UNCHANGED <<window, sending, signals, logins, io, shared, net, erased, told, overtaken,
                     nested, outrun>>
      /\ sending = "no" /\ login_visible /\ ~is_connected /\ presses < MaxConnects
      /\ presses' = presses + 1
  BY DEF on_btn_connect_clicked, NoBox, InEventLoop
<1>2. /\ Queued' /\ Tables' /\ Made'
      /\ Honest' /\ Told' /\ UseNeedsSession' /\ Windows'
      /\ UNCHANGED <<io, shared, net, sending, erased>>
  BY <1>1, Stays DEF window, shared, net
<1>3. LoginSent'
  BY <1>1 DEF LoginSent
<1>4. /\ connecting \in Nat /\ overlapped \in BOOLEAN /\ Flags /\ Counts /\ Stages
  BY DEF IInv, Types, Flags, Counts
<1>5. CASE /\ connecting' = connecting + 1
           /\ overlapped' = (overlapped \/ connecting > 0 \/ \E t \in Threads : ~At(t, "idle"))
           /\ UNCHANGED crashed
  <2>1. overlapped' \in BOOLEAN
    BY <1>5
  <2>2. ~overlapped' => /\ ~overlapped /\ ~(connecting > 0)
                        /\ \A t \in Threads : io[t].pc = "idle"
    BY <1>5 DEF At
  <2>3. ~overlapped' => \A P : "idle" \notin P => ~SomeAt(P)
    BY <2>2 DEF SomeAt
  <2>4. ~overlapped' => /\ ~SomeAt({"set_connected", "erase"})
                        /\ ~SomeAt(Starting \cup {"emit_connect"}) /\ ~SomeAt({"set_connected"})
                        /\ \A t \in Threads : io[t].pc # "erase"
    BY <2>2, <2>3 DEF Starting
  <2>5. Flags' /\ Stages'
    BY <1>1, <1>4, <1>5, <2>1 DEF Flags, Stages, window, shared
  <2>6. Counts'
    BY <1>1, <1>4, <1>5, ClientAssumption DEF Counts, shared
  <2>7. OneAtATime'
    BY <1>1, <1>4, <1>5, <2>2, <2>4 DEF OneAtATime, SomeAt
  <2>8. FirstSession'
    BY <1>1, <1>5, <2>2, <2>4 DEF IInv, FirstSession, shared
  <2>9. NullUseExplained'
    BY <1>1, <1>4, <1>5, <2>1, <2>2 DEF IInv, NullUseExplained
  <2>10. Phases'
    <3>1. SUFFICES ASSUME Clean' PROVE Nobody'
      BY DEF Phases
    <3>2. Clean /\ Nobody
      BY <1>1, <2>2, <2>4, <3>1 DEF IInv, Phases, Clean, BeingMade, Connected, GoingDown
    <3> QED
      BY <1>1, <3>2 DEF Nobody, Over, SomeAt, shared, net
  <2>11. AboutToLearn'
    BY <1>1, <2>2 DEF IInv, AboutToLearn, Clean, Coming, Showing, SomeAt, Says, window, shared
  <2> QED
    BY <1>2, <1>3, <2>5, <2>6, <2>7, <2>8, <2>9, <2>10, <2>11 DEF IInv, Types
<1>6. CASE crashed' = "unresolved" /\ UNCHANGED <<connecting, overlapped>>
  <2>1. Flags' /\ Stages'
    BY <1>1, <1>4, <1>6 DEF Flags, Stages, window, shared
  <2>2. Counts'
    BY <1>1, <1>4, <1>6, ClientAssumption DEF Counts, shared
  <2>3. OneAtATime' /\ FirstSession' /\ Phases' /\ AboutToLearn'
    BY <1>1, <1>6, Stays DEF window, shared, net
  <2>4. NullUseExplained'
    BY <1>6 DEF NullUseExplained
  <2> QED
    BY <1>2, <1>3, <2>1, <2>2, <2>3, <2>4 DEF IInv, Types
<1> QED
  BY <1>1, <1>5, <1>6 DEF on_btn_connect_clicked

LEMMA LoginPressed ==
  ASSUME IInv, on_btn_login_clicked
  PROVE  IInv'
<1>1. /\ UNCHANGED <<login_visible, main_visible, rows, signals, connecting, presses, io, shared, net,
                     crashed, hist>>
      /\ sending = "no" /\ ui = <<>> /\ login_visible
  BY DEF on_btn_login_clicked, NoBox, InEventLoop
<1>2. /\ Flags' /\ Tables' /\ Made' /\ Honest' /\ Told' /\ OneAtATime' /\ FirstSession'
      /\ NullUseExplained'
      /\ UNCHANGED <<sessions, erased, is_connected, is_logined, nested, overlapped, overtaken, outrun>>
  BY <1>1, Stays DEF shared, net, hist
<1>3. ui \in Seq(Boxes) /\ signals \in Seq(Signal) /\ Counts /\ Stages /\ Windows /\ UseNeedsSession
  BY DEF IInv, Types, Queued
<1>4. CASE ~is_connected /\ Open("not_connected") /\ UNCHANGED <<sending, logins>>
  <2>1. /\ Counts' /\ Stages' /\ Phases' /\ LoginSent'
    BY <1>1, <1>4, Stays DEF shared, net, hist, counts
  <2>2. /\ ui' \in Seq(Boxes) /\ ui' = <<"not_connected">>
        /\ Boxed("login_ok")' => Boxed("login_ok")
    BY <1>1, <1>3, <1>4, Opened DEF Boxes
  <2>3. Len(ui') <= 1 /\ ui' # <<"login_ok">> /\ sending' = "no"
    BY <1>1, <1>4, <2>2
  <2>4. Queued'
    BY <1>1, <1>3, <2>2 DEF Queued
  <2>5. UseNeedsSession'
    BY <1>1, <1>2, <1>3, <1>4, <2>2 DEF UseNeedsSession, Used, SomeAt, Says
  <2>6. Windows'
    BY <1>1, <1>2, <1>3, <2>3 DEF Windows
  <2>7. AboutToLearn'
    <3>1. ~main_visible
      BY <1>1, <1>3 DEF Windows
    <3> QED
      BY <1>1, <1>2, <1>4, <3>1 DEF IInv, AboutToLearn, Clean, Coming, SomeAt, Says
  <2> QED
    BY <1>2, <2>1, <2>4, <2>5, <2>6, <2>7 DEF IInv, Types
<1>5. CASE /\ is_connected /\ logins < MaxLogins
           /\ sending' = "login" /\ logins' = logins + 1
           /\ UNCHANGED ui
  <2>1. Counts'
    BY <1>1, <1>3, <1>5, ClientAssumption DEF Counts, shared
  <2>2. Stages' /\ Queued'
    BY <1>1, <1>3, <1>5 DEF Stages, Queued
  <2>3. UseNeedsSession'
    BY <1>2, <1>3, <1>5 DEF UseNeedsSession, Used
  <2>4. Clean => Connected
    BY <1>5 DEF IInv, Phases, Nobody, BeingMade, GoingDown
  <2>5. Clean' = Clean
    BY <1>2 DEF Clean
  <2>6. Phases'
    BY <1>1, <2>4, <2>5 DEF Phases, Connected, OthersOver, Over, SomeAt, shared, net
  <2>7. LoginSent'
    <3>1. Clean => ~SomeAt(Starting)
      BY <2>4 DEF Connected, SomeAt
    <3> QED
      BY <1>1, <2>4, <2>5, <3>1 DEF LoginSent, Connected, SomeAt
  <2>8. Windows'
    BY <1>1, <1>2, <1>3, <1>5 DEF Windows
  <2>9. AboutToLearn'
    BY <1>2, <1>5 DEF AboutToLearn
  <2> QED
    BY <1>2, <2>1, <2>2, <2>3, <2>6, <2>7, <2>8, <2>9 DEF IInv, Types
<1> QED
  BY <1>4, <1>5 DEF on_btn_login_clicked

LEMMA HistoryAsked ==
  ASSUME IInv, on_tableWidget_chat_cellDoubleClicked
  PROVE  IInv'
<1>1. /\ UNCHANGED <<window, signals, counts, io, shared, net, crashed, hist>>
      /\ sending = "no" /\ ui = <<>> /\ main_visible /\ rows /\ sending' = "history"
  BY DEF on_tableWidget_chat_cellDoubleClicked, NoBox, InEventLoop
<1>2. /\ Flags' /\ Counts' /\ Queued' /\ Tables' /\ Made' /\ Honest' /\ Told' /\ OneAtATime'
      /\ FirstSession' /\ NullUseExplained'
  BY <1>1, Stays DEF window, shared, net, hist, counts
<1>3. Stages'
  BY <1>1 DEF IInv, Types, Stages
<1>4. UseNeedsSession'
  BY <1>1 DEF IInv, UseNeedsSession, Used, window, shared, hist
<1>5. Phases'
  BY <1>1 DEF IInv, Phases, Clean, Nobody, BeingMade, Connected, GoingDown, OthersOver, Over, SomeAt,
              shared, net, hist, counts
<1>6. LoginSent'
  BY <1>1 DEF LoginSent
<1>7. Windows'
  BY <1>1 DEF IInv, Windows, window, shared, hist
<1>8. AboutToLearn'
  <2>1. ui \notin {<<"failed">>, <<"reconnect">>}
    BY <1>1
  <2> QED
    BY <1>1, <2>1 DEF IInv, AboutToLearn, Clean, Coming, Showing, SomeAt, Says, window, shared, hist
<1> QED
  BY <1>2, <1>3, <1>4, <1>5, <1>6, <1>7, <1>8 DEF IInv, Types

LEMMA LogOutPressed ==
  ASSUME IInv, btn_log_out
  PROVE  IInv'
<1>1. /\ UNCHANGED <<login_visible, main_visible, rows, sending, signals, counts, io, shared, net,
                     crashed, hist>>
      /\ sending = "no" /\ ui = <<>> /\ main_visible /\ Open("confirm")
  BY DEF btn_log_out, NoBox, InEventLoop
<1>2. /\ Flags' /\ Counts' /\ Stages' /\ Tables' /\ Made' /\ Honest' /\ Told' /\ OneAtATime'
      /\ FirstSession' /\ NullUseExplained' /\ Phases' /\ LoginSent'
  BY <1>1, Stays DEF shared, net, hist, counts
<1>3. ui \in Seq(Boxes) /\ signals \in Seq(Signal) /\ Windows /\ UseNeedsSession
  BY DEF IInv, Types, Queued
<1>4. /\ ui' \in Seq(Boxes) /\ ui' = <<"confirm">>
      /\ Boxed("login_ok")' => Boxed("login_ok")
  BY <1>1, <1>3, Opened DEF Boxes
<1>5. Len(ui') = 1 /\ ui' # <<"login_ok">> /\ ui \notin {<<"failed">>, <<"reconnect">>}
  BY <1>1, <1>4
<1>6. Queued'
  BY <1>1, <1>3, <1>4 DEF Queued
<1>7. UseNeedsSession'
  BY <1>1, <1>3, <1>4 DEF UseNeedsSession, Used, SomeAt, Says, shared, hist
<1>8. Windows'
  BY <1>1, <1>3, <1>5 DEF Windows, shared, hist
<1>9. AboutToLearn'
  BY <1>1, <1>5 DEF IInv, AboutToLearn, Clean, Coming, Showing, SomeAt, Says, shared, hist
<1> QED
  BY <1>2, <1>6, <1>7, <1>8, <1>9 DEF IInv, Types

-----------------------------------------------------------------------------
(* The window: what is sent, and the boxes *)

LEMMA Sent ==
  ASSUME IInv, send_to
  PROVE  IInv'
<1>1. /\ UNCHANGED <<ui, signals, counts, io, id_increment, cur_id, sessions, is_connected, link, inbox,
                     hist>>
      /\ sending # "no"
  BY DEF send_to
<1>2. /\ Counts' /\ Queued' /\ Made' /\ Told' /\ OneAtATime' /\ FirstSession'
  BY <1>1, Stays DEF counts, hist
<1>3. Types /\ Honest /\ Windows /\ UseNeedsSession /\ AboutToLearn /\ Phases
  BY DEF IInv
<1>4. CASE cur_id \notin sessions /\ crashed' = "null session"
           /\ UNCHANGED <<requests, sending, is_logined, rows, main_visible, login_visible>>
  <2>1. /\ Flags' /\ Tables' /\ Honest' /\ UseNeedsSession' /\ Phases' /\ LoginSent'
        /\ Windows' /\ AboutToLearn'
    BY <1>1, <1>4, Stays DEF counts, hist
  <2>2. Stages'
    BY <1>3, <1>4 DEF Types, Stages
  <2>3. NullUseExplained'
    <3>1. Used
      BY <1>1, <1>3 DEF UseNeedsSession
    <3>2. erased = {} /\ ~overlapped => FALSE
      BY <1>4, <3>1 DEF IInv, FirstSession, Used
    <3> QED
      BY <1>1, <3>2 DEF NullUseExplained, hist
  <2> QED
    BY <1>2, <2>1, <2>2, <2>3 DEF IInv, Types
<1>5. CASE /\ cur_id \in sessions
           /\ requests' = [requests EXCEPT ![cur_id] =
                             IF sending = "login" /\ link[cur_id] = "open" THEN @ + 1 ELSE @]
           /\ sending' = "no"
           /\ IF sending = "log_out" THEN LoggedOut
              ELSE UNCHANGED <<is_logined, rows, main_visible, login_visible>>
           /\ UNCHANGED crashed
  <2>1. cur_id \in Ids /\ requests[cur_id] \in Nat /\ requests \in [Ids -> Nat]
    BY <1>3, <1>5 DEF Types, Tables, Made
  <2>2. /\ requests' \in [Ids -> Nat]
        /\ \A s \in Ids : requests'[s] = requests[s] \/ (s = cur_id /\ link[s] = "open")
        /\ sending # "login" => requests' = requests
    BY <1>5, <2>1
  <2>3. \/ UNCHANGED <<is_logined, rows, main_visible, login_visible>> /\ sending # "log_out"
        \/ is_logined' = FALSE /\ rows' = FALSE /\ main_visible' = FALSE /\ login_visible' = TRUE
    BY <1>5 DEF LoggedOut
  <2>4. Flags'
    BY <1>1, <1>3, <2>3 DEF Types, Flags, hist
  <2>5. Stages' /\ Tables'
    BY <1>1, <1>3, <1>5, <2>2 DEF Types, Stages, Tables
  <2>6. NullUseExplained' /\ LoginSent'
    BY <1>1, <1>5, Stays DEF LoginSent, hist
  <2>7. Honest'
    BY <1>1, <1>3, <2>2 DEF Honest, SessionHonest, JobHonest, Alone, hist
  <2>8. UseNeedsSession'
    BY <1>1, <1>5 DEF UseNeedsSession, Used
  <2>9. Phases'
    <3>1. Clean' = Clean
      BY <1>1 DEF Clean, hist
    <3>2. BeingMade => BeingMade'
      BY <1>1, <1>5, <2>2 DEF BeingMade, OthersOver, Over, SomeAt, counts
    <3>3. (Nobody => Nobody') /\ (Connected => Connected') /\ (GoingDown => GoingDown')
      BY <1>1 DEF Nobody, Connected, GoingDown, OthersOver, Over, SomeAt, counts
    <3> QED
      BY <1>3, <3>1, <3>2, <3>3 DEF Phases
  <2>10. Windows'
    <3>1. ~nested' => Len(ui') <= 1 /\ ui' = <<>>
      BY <1>1, <1>3 DEF Windows, hist
    <3>2. <<>> # <<"login_ok">>
      OBVIOUS
    <3>3. (main_visible' \/ ui' = <<"login_ok">>) /\ ~nested' => is_logined'
      BY <1>1, <1>3, <2>3, <3>1, <3>2 DEF Windows, hist
    <3>4. login_visible' <=> ~main_visible'
      BY <1>3, <2>3 DEF Windows
    <3> QED
      BY <1>5, <3>1, <3>3, <3>4 DEF Windows
  <2>11. AboutToLearn'
    BY <1>1, <1>3, <1>5, <2>3 DEF AboutToLearn, Clean, Coming, Showing, SomeAt, Says, hist
  <2> QED
    BY <1>2, <2>4, <2>5, <2>6, <2>7, <2>8, <2>9, <2>10, <2>11 DEF IInv, Types
<1> QED
  BY <1>4, <1>5 DEF send_to

\* The user logs out in a box: there is somebody to tell, or not.
LEMMA LoggedOutStep ==
  ASSUME IInv, ui # <<>>, ui' = Front(ui), sending = "no",
         \/ /\ is_logined /\ is_connected /\ sending' = "log_out"
            /\ UNCHANGED <<is_logined, rows, main_visible, login_visible>>
         \/ /\ is_logined' = FALSE /\ rows' = FALSE
            /\ main_visible' = FALSE /\ login_visible' = TRUE
            /\ sending' = "no",
         UNCHANGED <<signals, counts, io, id_increment, cur_id, sessions, is_connected, net,
                     crashed, hist>>
  PROVE  IInv'
<1>1. Types /\ Windows /\ UseNeedsSession /\ AboutToLearn /\ Phases
  BY DEF IInv
<1>2. /\ Counts' /\ Tables' /\ Made' /\ Honest' /\ Told' /\ OneAtATime' /\ FirstSession'
      /\ NullUseExplained'
  BY Stays DEF net, counts, hist
<1>3. /\ ui' \in Seq(Boxes)
      /\ Boxed("login_ok")' => Boxed("login_ok")
      /\ Len(ui) <= 1 => ui' = <<>> /\ ui = <<Last(ui)>>
  BY <1>1, Closed DEF Types, Queued
<1>4. Flags'
  BY <1>1 DEF Types, Flags, hist
<1>5. Stages' /\ Queued'
  <2>1. sending' \in {"log_out", "no"}
    OBVIOUS
  <2>2. Stages'
    BY <1>1, <2>1 DEF Types, Stages
  <2> QED
    BY <1>1, <1>3, <2>2 DEF Types, Queued
<1>6. UseNeedsSession'
  <2>1. CASE is_connected
    BY <1>1, <2>1 DEF UseNeedsSession, Used, hist
  <2>2. CASE ~is_connected
    <3>1. sending' = "no" /\ ~is_logined' /\ ~rows' /\ ~main_visible'
      BY <2>2
    <3> QED
      BY <1>1, <1>3, <2>2, <3>1 DEF UseNeedsSession, Used, SomeAt, Says, hist
  <2> QED
    BY <2>1, <2>2
<1>7. Phases'
  <2>1. Clean' = Clean
    BY DEF Clean, hist
  <2>2. (BeingMade => BeingMade')
    BY DEF BeingMade, OthersOver, Over, SomeAt, net, counts
  <2>3. (Nobody => Nobody') /\ (Connected => Connected') /\ (GoingDown => GoingDown')
    BY DEF Nobody, Connected, GoingDown, OthersOver, Over, SomeAt, counts, net
  <2> QED
    BY <1>1, <2>1, <2>2, <2>3 DEF Phases
<1>8. LoginSent'
  BY DEF LoginSent
<1>9. Windows'
  <2>1. ~nested' => ui' = <<>>
    BY <1>1, <1>3 DEF Windows, hist
  <2>2. <<>> # <<"login_ok">> /\ Len(<<>>) <= 1
    OBVIOUS
  <2>3. ~nested' => Len(ui') <= 1
    BY <2>1, <2>2
  <2>4. (main_visible' \/ ui' = <<"login_ok">>) /\ ~nested' => is_logined'
    BY <1>1, <2>1, <2>2 DEF Windows, hist
  <2>5. login_visible' <=> ~main_visible'
    BY <1>1 DEF Windows
  <2> QED
    BY <2>1, <2>3, <2>4, <2>5 DEF Windows
<1>10. AboutToLearn'
  BY <1>1 DEF AboutToLearn, Clean, Coming, Showing, SomeAt, Says, hist
<1> QED
  BY <1>2, <1>4, <1>5, <1>6, <1>7, <1>8, <1>9, <1>10 DEF IInv, Types

LEMMA Dismissed ==
  ASSUME IInv, Dismiss
  PROVE  IInv'
<1>1. /\ UNCHANGED <<signals, counts, io, id_increment, cur_id, sessions, is_connected, net,
                     crashed, hist>>
      /\ sending = "no" /\ ui # <<>>
  BY DEF Dismiss, InEventLoop
<1>2. Types /\ Windows /\ UseNeedsSession /\ AboutToLearn /\ ui \in Seq(Boxes)
  BY DEF IInv, Types, Queued
<1>3. /\ Counts' /\ Tables' /\ Made' /\ Honest' /\ Told' /\ OneAtATime' /\ FirstSession'
      /\ NullUseExplained'
  BY <1>1, Stays DEF net, counts, hist
<1>4. ASSUME ui' = Front(ui)
      PROVE  /\ Queued' /\ (Boxed("login_ok")' => Boxed("login_ok")) /\ Boxed(Last(ui))
             /\ ~nested => ui' = <<>> /\ ui = <<Last(ui)>>
             /\ ~nested => Len(ui') <= 1 /\ ui' # <<"login_ok">>
  <2>1. /\ ui' \in Seq(Boxes) /\ Boxed(Last(ui))
        /\ \A b : Boxed(b)' => Boxed(b)
        /\ Len(ui) <= 1 => ui' = <<>> /\ ui = <<Last(ui)>>
    BY <1>1, <1>2, <1>4, Closed
  <2>2. Len(<<>>) <= 1 /\ <<>> # <<"login_ok">>
    OBVIOUS
  <2> QED
    BY <1>1, <1>2, <2>1, <2>2 DEF Queued, Windows, Types
<1>5. CASE /\ Last(ui) \in {"connected", "login_bad", "not_connected", "confirm"}
           /\ ui' = Front(ui)
           /\ UNCHANGED <<login_visible, main_visible, rows, sending, is_logined>>
  <2>1. Flags' /\ Stages' /\ Phases' /\ LoginSent'
    BY <1>1, <1>5, Stays DEF net, hist, counts
  <2>2. UseNeedsSession'
    BY <1>1, <1>2, <1>4, <1>5 DEF UseNeedsSession, Used, SomeAt, Says, hist
  <2>3. Windows'
    BY <1>1, <1>2, <1>4, <1>5 DEF Windows, hist
  <2>4. AboutToLearn'
    <3>1. ~nested => ui \notin {<<"failed">>, <<"reconnect">>}
      BY <1>4, <1>5
    <3> QED
      BY <1>1, <1>2, <1>5, <3>1 DEF AboutToLearn, Clean, Coming, Showing, SomeAt, Says, hist
  <2> QED
    BY <1>3, <1>4, <1>5, <2>1, <2>2, <2>3, <2>4 DEF IInv, Types
<1>6. CASE Last(ui) \in {"confirm", "reconnect"} /\ ui' = Front(ui) /\ log_out
  <2>1. \/ /\ is_logined /\ is_connected /\ sending' = "log_out"
           /\ UNCHANGED <<is_logined, rows, main_visible, login_visible>>
        \/ /\ is_logined' = FALSE /\ rows' = FALSE
           /\ main_visible' = FALSE /\ login_visible' = TRUE
           /\ sending' = "no"
    BY <1>1, <1>6 DEF log_out, LoggedOut
  <2> QED
    BY <1>1, <1>6, <2>1, LoggedOutStep
<1>7. CASE /\ Last(ui) = "failed"
           /\ ui' = IF login_visible THEN Front(ui) ELSE Append(Front(ui), "reconnect")
           /\ UNCHANGED <<login_visible, main_visible, rows, sending, is_logined>>
  <2>1. Flags' /\ Stages' /\ Phases' /\ LoginSent'
    BY <1>1, <1>7, Stays DEF net, hist, counts
  <2>2. /\ Queued' /\ (Boxed("login_ok")' => Boxed("login_ok"))
        /\ ~nested => Len(ui') <= 1 /\ ui' # <<"login_ok">>
        /\ ~nested => ui' = IF login_visible THEN <<>> ELSE <<"reconnect">>
    <3>1. CASE login_visible
      BY <1>4, <1>7, <3>1
    <3>2. CASE ~login_visible
      <4>1. /\ ui' \in Seq(Boxes)
            /\ Boxed("login_ok")' => Boxed("login_ok")
            /\ Len(ui) <= 1 => ui' = <<"reconnect">>
        BY <1>1, <1>2, <1>7, <3>2, Replaced DEF Boxes
      <4>2. Len(<<"reconnect">>) <= 1 /\ <<"reconnect">> # <<"login_ok">>
        OBVIOUS
      <4> QED
        BY <1>1, <1>2, <3>2, <4>1, <4>2 DEF Queued, Windows, Types
    <3> QED
      BY <3>1, <3>2
  <2>3. UseNeedsSession'
    BY <1>1, <1>2, <1>7, <2>2 DEF UseNeedsSession, Used, SomeAt, Says, hist
  <2>4. Windows'
    BY <1>1, <1>2, <1>7, <2>2 DEF Windows, hist
  <2>5. AboutToLearn'
    BY <1>1, <1>2, <1>7, <2>2 DEF AboutToLearn, Clean, Coming, Showing, SomeAt, Says, Windows, hist
  <2> QED
    BY <1>3, <2>1, <2>2, <2>3, <2>4, <2>5 DEF IInv, Types
<1>8. CASE /\ Last(ui) = "login_ok"
           /\ ui' = Front(ui)
           /\ login_visible' = FALSE /\ main_visible' = TRUE
           /\ UNCHANGED <<rows, sending, is_logined>>
  <2>1. Stages' /\ Phases' /\ LoginSent'
    BY <1>1, <1>8, Stays DEF net, hist, counts
  <2>2. Flags'
    BY <1>1, <1>2, <1>8 DEF Types, Flags, hist
  <2>3. UseNeedsSession'
    BY <1>1, <1>2, <1>4, <1>8 DEF UseNeedsSession, Used, hist
  <2>4. Windows'
    BY <1>1, <1>2, <1>4, <1>8 DEF Windows, hist
  <2>5. AboutToLearn'
    <3>1. ~nested => ui \notin {<<"failed">>, <<"reconnect">>} /\ ui = <<"login_ok">> /\ is_logined
      BY <1>2, <1>4, <1>8 DEF Windows
    <3> QED
      BY <1>1, <1>2, <1>8, <3>1 DEF AboutToLearn, Clean, Coming, Showing, SomeAt, Says, Windows, hist
  <2> QED
    BY <1>3, <1>4, <1>8, <2>1, <2>2, <2>3, <2>4, <2>5 DEF IInv, Types
<1> QED
  BY <1>5, <1>6, <1>7, <1>8 DEF Dismiss

LEMMA SignalHandled ==
  ASSUME IInv, HandleSignal
  PROVE  IInv'
<1>1. /\ UNCHANGED <<login_visible, main_visible, sending, counts, io, shared, net, crashed,
                     erased, overlapped, overtaken>>
      /\ sending = "no" /\ signals # <<>> /\ signals' = Tail(signals)
  BY DEF HandleSignal, InEventLoop
<1>2. /\ Types /\ Windows /\ UseNeedsSession /\ AboutToLearn /\ Told
      /\ ui \in Seq(Boxes) /\ signals \in Seq(Signal)
  BY DEF IInv, Types, Queued
<1>3. /\ Counts' /\ Stages' /\ Tables' /\ Made' /\ Honest' /\ OneAtATime' /\ FirstSession'
      /\ NullUseExplained' /\ Phases' /\ LoginSent'
  BY <1>1, Stays DEF shared, net, counts
<1>4. /\ signals' \in Seq(Signal) /\ Head(signals) \in Signal
      /\ \A ty : Says(ty)' => Says(ty)
      /\ \A ty : Says(ty) => Says(ty)' \/ ty = Head(signals).type
      /\ \A s : Names(s) =>
           Names(s)' \/ (s = Head(signals).sess /\ Head(signals).type = "can_check_connect")
      /\ Says(Head(signals).type)
  BY <1>1, <1>2, Delivered
<1>5. \A P : SomeAt(P)' <=> SomeAt(P)
  BY <1>1 DEF SomeAt
<1>6. ASSUME Head(signals).type # "can_check_connect", told' = told
      PROVE  Told'
  <2>1. \A s : Names(s) => Names(s)'
    BY <1>4, <1>6
  <2> QED
    BY <1>1, <1>2, <1>6, <2>1 DEF Told, TellsEnd, net
<1>7. ASSUME NEW box \in Boxes, Open(box), nested' = (nested \/ ui # <<>>)
      PROVE  /\ Queued' /\ nested' \in BOOLEAN
             /\ Boxed("login_ok")' => Boxed("login_ok") \/ box = "login_ok"
             /\ ~nested' => ~nested /\ ui = <<>> /\ ui' = <<box>> /\ Len(ui') <= 1
  <2>1. /\ ui' \in Seq(Boxes)
        /\ Boxed("login_ok")' => Boxed("login_ok") \/ box = "login_ok"
        /\ ui = <<>> => ui' = <<box>>
    BY <1>2, <1>7, Opened
  <2>2. nested' \in BOOLEAN /\ (~nested' => ~nested /\ ui = <<>>)
    BY <1>7
  <2>3. Len(<<box>>) <= 1
    OBVIOUS
  <2> QED
    BY <1>4, <2>1, <2>2, <2>3 DEF Queued
<1>8. CASE /\ Head(signals).type = "can_check_connect"
           /\ Open(IF is_connected THEN "connected" ELSE "failed")
           /\ told' = told \cup ({Head(signals).sess} \cap Ids)
           /\ nested' = (nested \/ ui # <<>>)
           /\ outrun' = (outrun \/ (~is_connected /\ LoginUnderWay))
           /\ UNCHANGED rows
  <2>1. PICK box \in Boxes : box = IF is_connected THEN "connected" ELSE "failed"
    BY DEF Boxes
  <2>2. /\ Queued' /\ nested' \in BOOLEAN
        /\ Boxed("login_ok")' => Boxed("login_ok")
        /\ ~nested' => ~nested /\ ui = <<>> /\ ui' = <<box>> /\ Len(ui') <= 1
    BY <1>7, <1>8, <2>1
  <2>3. outrun' \in BOOLEAN /\ (~outrun' => ~outrun /\ (is_connected \/ ~LoginUnderWay))
    BY <1>8
  <2>4. Flags'
    BY <1>1, <1>2, <1>8, <2>2, <2>3 DEF Types, Flags, shared
  <2>5. Told'
    <3>1. \A s \in Ids : Names(s) => Names(s)' \/ s \in told'
      BY <1>4, <1>8
    <3>2. \A s \in Ids : s \in told => s \in told'
      BY <1>8
    <3> QED
      BY <1>1, <1>2, <3>1, <3>2 DEF Told, TellsEnd, net
  <2>6. UseNeedsSession'
    BY <1>1, <1>2, <1>4, <1>5, <1>8, <2>2 DEF UseNeedsSession, Used, shared
  <2>7. Windows'
    <3>1. <<box>> # <<"login_ok">>
      BY <2>1
    <3> QED
      BY <1>1, <1>2, <2>2, <3>1 DEF Windows, shared
  <2>8. AboutToLearn'
    <3>1. SUFFICES ASSUME ~nested', ~outrun', ~is_connected'
                   PROVE  /\ ~SomeAt({"login_success"})' /\ ~(is_logined /\ login_visible)'
                          /\ Showing'
      BY DEF AboutToLearn
    <3>2. ~LoginUnderWay
      BY <1>1, <2>3, <3>1 DEF shared
    <3>3. ~SomeAt({"login_success"}) /\ ~(is_logined /\ login_visible)
      BY <3>2 DEF LoginUnderWay, SomeAt
    <3>4. ui' = <<"failed">>
      BY <1>1, <2>1, <2>2, <3>1 DEF shared
    <3> QED
      BY <1>1, <1>5, <3>3, <3>4 DEF Showing, shared
  <2> QED
    BY <1>3, <2>2, <2>4, <2>5, <2>6, <2>7, <2>8 DEF IInv, Types
<1>9. CASE /\ Head(signals).type = "can_check_login"
           /\ Open(IF is_logined THEN "login_ok" ELSE "login_bad")
           /\ nested' = (nested \/ ui # <<>>)
           /\ UNCHANGED <<rows, told, outrun>>
  <2>1. PICK box \in Boxes : box = IF is_logined THEN "login_ok" ELSE "login_bad"
    BY DEF Boxes
  <2>2. /\ Queued' /\ nested' \in BOOLEAN
        /\ Boxed("login_ok")' => Boxed("login_ok") \/ box = "login_ok"
        /\ ~nested' => ~nested /\ ui = <<>> /\ ui' = <<box>> /\ Len(ui') <= 1
    BY <1>7, <1>9, <2>1
  <2>3. Flags'
    BY <1>1, <1>2, <1>9, <2>2 DEF Types, Flags, shared
  <2>4. Told'
    BY <1>6, <1>9
  <2>5. UseNeedsSession'
    <3>1. box = "login_ok" => is_logined
      BY <2>1
    <3> QED
      BY <1>1, <1>2, <1>4, <1>5, <1>9, <2>2, <3>1 DEF UseNeedsSession, Used, shared
  <2>6. Windows'
    <3>1. <<box>> = <<"login_ok">> => is_logined
      BY <2>1
    <3> QED
      BY <1>1, <1>2, <2>2, <3>1 DEF Windows, shared
  <2>7. AboutToLearn'
    <3>1. SUFFICES ASSUME Clean', ~nested', ~outrun', ~is_connected', ~Coming'
                   PROVE  /\ ~SomeAt({"login_success"})' /\ ~(is_logined /\ login_visible)'
                          /\ ~main_visible'
      BY DEF AboutToLearn
    <3>2. ~Coming
      BY <1>4, <1>5, <1>9, <3>1 DEF Coming
    <3>3. /\ ~SomeAt({"login_success"}) /\ ~(is_logined /\ login_visible)
          /\ main_visible => Showing
      BY <1>1, <1>2, <1>9, <2>2, <3>1, <3>2 DEF AboutToLearn, Clean, shared
    <3>4. ~Showing
      BY <1>1, <2>2, <3>1 DEF Showing
    <3> QED
      BY <1>1, <1>5, <3>3, <3>4 DEF shared
  <2> QED
    BY <1>3, <2>2, <2>3, <2>4, <2>5, <2>6, <2>7 DEF IInv, Types
<1>10. CASE /\ Head(signals).type = "recv_chat_lists"
            /\ rows' = TRUE
            /\ UNCHANGED <<ui, told, nested, outrun>>
  <2>1. Queued' /\ Windows'
    BY <1>1, <1>2, <1>4, <1>10, Stays DEF Queued, shared
  <2>2. Flags'
    BY <1>1, <1>2, <1>10 DEF Types, Flags, shared
  <2>3. Told'
    BY <1>6, <1>10
  <2>4. UseNeedsSession'
    BY <1>1, <1>2, <1>4, <1>10 DEF UseNeedsSession, Used, shared
  <2>5. AboutToLearn'
    <3>1. ~Coming' => ~Coming
      BY <1>4, <1>5, <1>10 DEF Coming
    <3> QED
      BY <1>1, <1>2, <1>5, <1>10, <3>1 DEF AboutToLearn, Clean, Showing, shared
  <2> QED
    BY <1>3, <2>1, <2>2, <2>3, <2>4, <2>5 DEF IInv, Types
<1> QED
  BY <1>8, <1>9, <1>10 DEF HandleSignal

-----------------------------------------------------------------------------
(* The io threads: the completion of connect *)

\* A thread that moves between steps that touch neither the map of the sessions
\* nor the end of one.
Plain == {"idle", "emit_connect", "login_success", "emit_login", "set_lists"}

LEMMA PlainStep ==
  ASSUME IInv, NEW t \in Threads, NEW j \in Job, io' = [io EXCEPT ![t] = j],
         io[t].pc \in Plain, j.pc \in Plain \ {"emit_connect"},
         UNCHANGED <<counts, sending, id_increment, cur_id, sessions, is_connected, net, crashed, hist>>,
         \A s : Names(s) => Names(s)'
  PROVE  /\ Counts' /\ Stages' /\ Tables' /\ Made' /\ Honest' /\ Told' /\ OneAtATime' /\ FirstSession'
         /\ NullUseExplained' /\ Phases' /\ LoginSent'
         /\ SomeAt({"erase", "emit_disconnect"})' <=> SomeAt({"erase", "emit_disconnect"})
<1>1. Types /\ Honest /\ Told /\ OneAtATime /\ FirstSession /\ Phases /\ LoginSent /\ Tables
  BY DEF IInv, Types
<1>2. /\ io' \in [Threads -> Job] /\ io'[t] = j /\ \A u \in Threads : u # t => io'[u] = io[u]
      /\ \A P : SomeAt(P)' => SomeAt(P) \/ j.pc \in P
      /\ \A P : SomeAt(P) => SomeAt(P)' \/ io[t].pc \in P
  BY <1>1, Moved DEF Tables
<1>3. Counts' /\ Stages' /\ Made' /\ NullUseExplained'
  BY Stays DEF hist
<1>4. Tables'
  BY <1>1, <1>2 DEF Tables, net
<1>5. \A u \in Threads : /\ io'[u].pc \in Starting \cup Ending => io'[u] = io[u]
                         /\ io[u].pc \in Starting \cup Ending => io'[u] = io[u]
  BY <1>2 DEF Plain, Starting, Ending
<1>6. Honest'
  <2>1. \A s \in Ids : SessionHonest(s)'
    BY <1>1 DEF Honest, SessionHonest, net, hist
  <2>2. \A u \in Threads : JobHonest(io[u])'
    BY <1>1, <1>5 DEF Honest, JobHonest, Starting, Ending, net
  <2>3. Alone'
    BY <1>1, <1>5 DEF Honest, Alone
  <2> QED
    BY <2>1, <2>2, <2>3 DEF Honest
<1>7. Told'
  BY <1>1, <1>5 DEF Told, TellsEnd, net, hist
<1>8. /\ SomeAt(Starting)' <=> SomeAt(Starting)
      /\ SomeAt({"emplace"})' <=> SomeAt({"emplace"})
      /\ SomeAt({"set_connected"})' <=> SomeAt({"set_connected"})
      /\ SomeAt({"erase"})' <=> SomeAt({"erase"})
      /\ SomeAt({"set_connected", "erase"})' <=> SomeAt({"set_connected", "erase"})
      /\ SomeAt({"erase", "emit_disconnect"})' <=> SomeAt({"erase", "emit_disconnect"})
      /\ SomeAt(Starting \cup {"erase"})' <=> SomeAt(Starting \cup {"erase"})
      /\ SomeAt(Starting \cup {"emit_connect"})' => SomeAt(Starting \cup {"emit_connect"})
  BY <1>2 DEF Plain, Starting
<1>9. OneAtATime' /\ FirstSession' /\ LoginSent'
  BY <1>1, <1>8 DEF OneAtATime, FirstSession, LoginSent, Clean, hist, counts
<1>10. Phases'
  <2>1. \A u \in Threads : /\ io'[u].pc = "set_disconnected" <=> io[u].pc = "set_disconnected"
                           /\ io'[u].pc = "set_disconnected" => io'[u].sess = io[u].sess
                           /\ io'[u].pc = "erase" <=> io[u].pc = "erase"
    BY <1>2 DEF Plain
  <2>2. \A s \in Ids : Over(s)' <=> Over(s)
    BY <2>1 DEF Over, net
  <2>3. /\ Nobody' <=> Nobody
        /\ BeingMade' <=> BeingMade
        /\ Connected' <=> Connected
        /\ GoingDown' <=> GoingDown
    BY <1>8, <2>1, <2>2 DEF Nobody, BeingMade, Connected, GoingDown, OthersOver, net, counts
  <2> QED
    BY <1>1, <2>3 DEF Phases, Clean, hist
<1> QED
  BY <1>3, <1>4, <1>6, <1>7, <1>8, <1>9, <1>10

LEMMA ConnectRefused ==
  ASSUME IInv, NEW t \in Threads, ConnectFails(t)
  PROVE  IInv'
<1>1. /\ UNCHANGED <<window, sending, presses, logins, io, shared, net, crashed, hist>>
      /\ connecting > 0 /\ connecting' = connecting - 1
      /\ Emit([type |-> "can_check_connect", sess |-> NoId])
  BY DEF ConnectFails
<1>2. Types /\ Counts /\ Queued /\ Told /\ UseNeedsSession /\ OneAtATime /\ FirstSession /\ Phases
  BY DEF IInv, Types
<1>3. /\ Flags' /\ Stages' /\ Tables' /\ Made' /\ Honest' /\ NullUseExplained' /\ Windows'
  BY <1>1, Stays DEF window, shared, net, hist
<1>4. /\ signals' \in Seq(Signal)
      /\ \A s : Names(s) => Names(s)'
      /\ Says("recv_chat_lists")' <=> Says("recv_chat_lists")
      /\ Says("can_check_connect")'
  <2>1. [type |-> "can_check_connect", sess |-> NoId] \in Signal
    BY Signals
  <2> QED
    BY <1>1, <1>2, <2>1, Emitted DEF Queued
<1>5. Counts' /\ Queued'
  BY <1>1, <1>2, <1>4, ClientAssumption DEF Counts, Queued, window, shared
<1>6. Told'
  BY <1>1, <1>2, <1>4 DEF Told, TellsEnd, net, hist
<1>7. UseNeedsSession'
  BY <1>1, <1>2, <1>4 DEF UseNeedsSession, Used, Boxed, SomeAt, window, shared, hist
<1>8. OneAtATime' /\ FirstSession' /\ LoginSent'
  <2>1. connecting \in Nat /\ connecting # 0
    BY <1>1, <1>2 DEF Counts
  <2>2. OneAtATime'
    BY <1>1, <1>2, <2>1 DEF OneAtATime, hist
  <2>3. FirstSession'
    BY <1>1, <1>2, <2>1 DEF FirstSession, shared, hist
  <2>4. LoginSent'
    BY <1>1, <2>1 DEF IInv, LoginSent, Clean, hist
  <2> QED
    BY <2>2, <2>3, <2>4
<1>9. Phases'
  <2>1. Clean => Nobody
    BY <1>1, <1>2 DEF Phases, BeingMade, Connected, GoingDown, Counts
  <2>2. Clean' => Nobody'
    BY <1>1, <2>1 DEF Clean, Nobody, Over, SomeAt, shared, net, hist
  <2> QED
    BY <2>2 DEF Phases
<1>10. AboutToLearn'
  BY <1>4 DEF AboutToLearn, Coming
<1> QED
  BY <1>3, <1>5, <1>6, <1>7, <1>8, <1>9, <1>10 DEF IInv, Types

LEMMA IdTaken ==
  ASSUME IInv, NEW t \in Threads, TakeId(t)
  PROVE  IInv'
<1>1. /\ UNCHANGED <<window, sending, signals, presses, logins, sessions, is_connected,
                     is_logined, net, crashed, hist>>
      /\ io[t].pc = "idle" /\ connecting > 0 /\ MutexFree
      /\ connecting' = connecting - 1
      /\ id_increment' = id_increment + 1 /\ cur_id' = id_increment + 1
      /\ io' = [io EXCEPT ![t] = [pc |-> "emplace", sess |-> id_increment + 1]]
  BY DEF TakeId, At
<1>2. /\ Types /\ Counts /\ Tables /\ Honest /\ Told /\ UseNeedsSession /\ OneAtATime /\ FirstSession
      /\ Phases
  BY DEF IInv, Types
<1>3. /\ Flags' /\ Stages' /\ Queued' /\ Made' /\ NullUseExplained' /\ Windows'
  BY <1>1, Stays DEF window, shared, net, hist
<1>4. /\ connecting \in Nat /\ id_increment \in Nat /\ cur_id = id_increment /\ connecting # 0
      /\ id_increment + 1 \in Ids /\ Counts'
  BY <1>1, <1>2, ClientAssumption DEF Counts, Ids
<1>5. PICK j \in Job : /\ j.pc = "emplace" /\ j.sess = id_increment + 1
                      /\ io' = [io EXCEPT ![t] = j]
  <2>1. [pc |-> "emplace", sess |-> id_increment + 1] \in Job
    BY <1>4 DEF Job, PCs, Starting
  <2> QED
    BY <1>1, <2>1
<1>6. /\ io' \in [Threads -> Job] /\ io'[t] = j /\ \A u \in Threads : u # t => io'[u] = io[u]
      /\ \A P : SomeAt(P)' => SomeAt(P) \/ j.pc \in P
      /\ \A P : SomeAt(P) => SomeAt(P)' \/ io[t].pc \in P
  BY <1>1, <1>2, <1>5, Moved DEF Tables
<1>7. Tables'
  BY <1>1, <1>2, <1>6 DEF Tables, net
<1>8. \A u \in Threads : io[u].pc \notin Starting
  BY <1>1 DEF MutexFree, Starting
<1>9. Honest'
  <2>1. \A s \in Ids : SessionHonest(s)'
    <3>1. \A s \in Ids : s > id_increment' => s > id_increment
      BY <1>1, <1>4 DEF Ids
    <3> QED
      BY <1>1, <1>2, <3>1 DEF Honest, SessionHonest, net, hist
  <2>2. \A u \in Threads : JobHonest(io[u])'
    <3>1. JobHonest(io[t])'
      <4>1. id_increment + 1 > id_increment
        BY <1>4
      <4>2. link[id_increment + 1] = "none"
        BY <1>2, <1>4, <4>1 DEF Honest, SessionHonest
      <4> QED
        BY <1>1, <1>4, <1>5, <1>6, <4>2 DEF JobHonest, Ending, net
    <3>2. ASSUME NEW u \in Threads, u # t PROVE JobHonest(io[u])'
      <4>1. JobHonest(io[u]) /\ io'[u] = io[u] /\ io[u].pc \notin Starting
        BY <1>2, <1>6, <1>8, <3>2 DEF Honest
      <4> QED
        BY <1>1, <4>1 DEF JobHonest, Starting, net
    <3> QED
      BY <3>1, <3>2
  <2>3. Alone'
    <3>1. j.pc \notin Ending
      BY <1>5 DEF Ending
    <3>2. \A u \in Threads : u # t => io'[u].pc \notin Starting
      BY <1>6, <1>8
    <3>3. \A u \in Threads : io'[u].pc \in Ending => u # t /\ io'[u] = io[u]
      BY <1>6, <3>1
    <3> QED
      BY <1>2, <3>2, <3>3 DEF Honest, Alone
  <2> QED
    BY <2>1, <2>2, <2>3 DEF Honest
<1>10. Told'
  <2>1. \A u \in Threads : io[u].pc \in Ending => io'[u] = io[u]
    BY <1>1, <1>6 DEF Ending
  <2> QED
    BY <1>1, <1>2, <2>1 DEF Told, TellsEnd, Names, net, hist
<1>11. UseNeedsSession'
  <2>1. SomeAt({"login_success", "set_lists"})' => SomeAt({"login_success", "set_lists"})
    BY <1>5, <1>6
  <2> QED
    BY <1>1, <1>2, <2>1 DEF UseNeedsSession, Used, Boxed, Says, window, hist
<1>12. OneAtATime' /\ FirstSession' /\ LoginSent'
  BY <1>1, <1>2, <1>4 DEF IInv, OneAtATime, FirstSession, LoginSent, Clean, hist
<1>13. Phases'
  <2>1. Clean => Nobody
    BY <1>2, <1>4 DEF Phases, BeingMade, Connected, GoingDown
  <2>2. \A u \in Threads : io'[u].pc = "set_disconnected" => io'[u] = io[u]
    BY <1>5, <1>6
  <2>3. SomeAt({"set_connected", "erase"})' => SomeAt({"set_connected", "erase"})
    BY <1>5, <1>6
  <2>4. Clean' => Nobody'
    BY <1>1, <2>1, <2>2, <2>3 DEF Clean, Nobody, Over, net, hist
  <2> QED
    BY <2>4 DEF Phases
<1>14. AboutToLearn'
  <2>1. /\ SomeAt({"login_success"})' => SomeAt({"login_success"})
        /\ SomeAt({"erase", "emit_disconnect"}) => SomeAt({"erase", "emit_disconnect"})'
    BY <1>1, <1>5, <1>6
  <2> QED
    BY <1>1, <2>1 DEF IInv, AboutToLearn, Clean, Coming, Showing, Says, window, hist
<1> QED
  BY <1>3, <1>4, <1>7, <1>9, <1>10, <1>11, <1>12, <1>13, <1>14 DEF IInv, Types

LEMMA SessionMade ==
  ASSUME IInv, NEW t \in Threads, Emplace(t)
  PROVE  IInv'
<1>1. /\ UNCHANGED <<window, sending, signals, counts, id_increment, cur_id, is_connected, is_logined,
                     requests, inbox, crashed, hist>>
      /\ io[t].pc = "emplace" /\ Goto(t, "set_connected")
      /\ sessions' = sessions \cup {cur_id} /\ link' = [link EXCEPT ![cur_id] = "open"]
      /\ io[t].sess = cur_id /\ cur_id \in Ids /\ link[cur_id] = "none"
  <2>1. io[t].pc = "emplace" => io[t].sess = cur_id /\ io[t].sess \in Ids /\ link[io[t].sess] = "none"
    BY DEF IInv, Honest, JobHonest, Starting
  <2> QED
    BY <2>1 DEF Emplace, At
<1>2. /\ Types /\ Tables /\ Made /\ Honest /\ Told /\ OneAtATime /\ FirstSession /\ Phases /\ LoginSent
      /\ SessionHonest(cur_id)
  BY <1>1 DEF IInv, Types, Honest
<1>3. Flags' /\ Counts' /\ Stages' /\ Queued' /\ Windows' /\ NullUseExplained'
  BY <1>1, Stays DEF window, hist
<1>4. PICK j \in Job : /\ j.pc = "set_connected" /\ j.sess = cur_id
                       /\ io' = [io EXCEPT ![t] = j]
  BY <1>1, <1>2, Going DEF Tables, PCs, Starting
<1>5. /\ io' \in [Threads -> Job] /\ io'[t] = j /\ \A u \in Threads : u # t => io'[u] = io[u]
      /\ \A P : SomeAt(P)' => SomeAt(P) \/ j.pc \in P
      /\ \A P : SomeAt(P) => SomeAt(P)' \/ io[t].pc \in P
      /\ \A P : j.pc \in P => SomeAt(P)'
      /\ \A P : io[t].pc \in P => SomeAt(P)
  BY <1>2, <1>4, Moved DEF Tables
<1>6. /\ link' \in [Ids -> {"none", "open", "closed", "broken"}]
      /\ link'[cur_id] = "open" /\ \A r \in Ids : r # cur_id => link'[r] = link[r]
  BY <1>1, <1>2 DEF Tables
<1>7. cur_id \notin sessions \cup erased /\ requests[cur_id] = 0 /\ inbox[cur_id] = <<>>
  BY <1>1, <1>2 DEF SessionHonest
<1>8. Tables' /\ Made'
  BY <1>1, <1>2, <1>5, <1>6, <1>7 DEF Tables, Made, hist
<1>9. \A u \in Threads : u # t => io[u].pc \notin Starting
  BY <1>1, <1>2 DEF Honest, Alone, Starting
<1>10. Honest'
  <2>1. SessionHonest(cur_id)'
    <3>1. ~(cur_id > id_increment)
      BY <1>1, <1>2 DEF SessionHonest, Types, Counts
    <3>2. cur_id' = cur_id /\ cur_id \in sessions' /\ link'[cur_id] = "open" /\ inbox'[cur_id] = <<>>
          /\ ~(cur_id > id_increment')
      BY <1>1, <1>6, <1>7, <3>1
    <3>3. ~\E i \in 1..Len(<<>>) : TRUE
      OBVIOUS
    <3> QED
      BY <3>2, <3>3 DEF SessionHonest
  <2>2. ASSUME NEW r \in Ids, r # cur_id PROVE SessionHonest(r)'
    <3>1. SessionHonest(r) /\ link'[r] = link[r] /\ (r \in sessions' <=> r \in sessions)
      BY <1>1, <1>2, <1>6, <2>2 DEF Honest
    <3> QED
      BY <1>1, <3>1 DEF SessionHonest, hist
  <2>3. \A r \in Ids : SessionHonest(r)'
    <3>1. cur_id' = cur_id
      BY <1>1
    <3> QED
      BY <2>1, <2>2, <3>1
  <2>4. JobHonest(io[t])'
    BY <1>1, <1>4, <1>5, <1>6 DEF JobHonest, Starting, Ending
  <2>5. ASSUME NEW u \in Threads, u # t PROVE JobHonest(io[u])'
    <3>1. JobHonest(io[u]) /\ io'[u] = io[u] /\ io[u].pc \notin Starting
      BY <1>2, <1>5, <1>9, <2>5 DEF Honest
    <3>2. io[u].pc \in Ending => io[u].sess # cur_id
      BY <1>1, <3>1 DEF JobHonest
    <3> QED
      BY <1>1, <1>6, <3>1, <3>2 DEF JobHonest, Starting
  <2>6. Alone'
    <3>1. j.pc \notin Ending
      BY <1>4 DEF Ending
    <3>2. \A u \in Threads : u # t => io'[u].pc \notin Starting
      BY <1>5, <1>9
    <3>3. \A u \in Threads : io'[u].pc \in Ending => u # t /\ io'[u] = io[u]
      BY <1>5, <3>1
    <3> QED
      BY <1>2, <3>2, <3>3 DEF Honest, Alone
  <2> QED
    BY <2>3, <2>4, <2>5, <2>6 DEF Honest
<1>11. Told'
  <2>1. \A u \in Threads : io[u].pc \in Ending => io'[u] = io[u]
    BY <1>1, <1>5 DEF Ending
  <2>2. \A r \in Ids : link'[r] = "closed" => link[r] = "closed"
    BY <1>6
  <2> QED
    BY <1>1, <1>2, <2>1, <2>2 DEF Told, TellsEnd, Names, hist
<1>12. UseNeedsSession'
  BY <1>1 DEF UseNeedsSession, Used
<1>13. SomeAt(Starting) /\ SomeAt(Starting \cup {"emit_connect"}) /\ SomeAt({"emplace"})
       /\ ~SomeAt({"emplace"})' /\ SomeAt({"set_connected"})' /\ SomeAt({"set_connected", "erase"})'
       /\ SomeAt(Starting)'
  <2>1. ~SomeAt({"emplace"})'
    BY <1>4, <1>5, <1>9 DEF SomeAt, Starting
  <2> QED
    BY <1>1, <1>4, <1>5, <2>1 DEF Starting
<1>14. ~overlapped => connecting = 0
  <2>1. connecting \in Nat
    BY <1>2 DEF Types, Counts
  <2> QED
    BY <1>2, <1>13, <2>1 DEF OneAtATime
<1>15. OneAtATime' /\ LoginSent'
  <2>1. ~overlapped' => connecting' = 0 /\ connecting' <= 1 /\ connecting' # 1
    BY <1>1, <1>14 DEF counts, hist
  <2>2. Clean' /\ sending' = "login" => FALSE
    BY <1>1, <1>2, <1>13 DEF LoginSent, Clean, hist
  <2> QED
    BY <2>1, <2>2 DEF OneAtATime, LoginSent
<1>16. FirstSession'
  <2>1. ~overlapped /\ erased = {} => sessions = {}
    BY <1>2, <1>13 DEF FirstSession
  <2> QED
    BY <1>1, <1>13, <1>14, <2>1 DEF FirstSession, counts, hist
<1>17. Phases'
  <2>1. SUFFICES ASSUME Clean' PROVE BeingMade'
    BY DEF Phases
  <2>2. Clean
    BY <1>1, <2>1 DEF Clean, hist
  <2>3. Nobody
    <3>1. ~SomeAt({"set_connected"})
      BY <1>1, <1>9 DEF SomeAt, Starting
    <3>2. SomeAt(Starting \cup {"erase"})
      BY <1>1, <1>5 DEF Starting
    <3> QED
      BY <1>2, <1>13, <2>2, <3>1, <3>2 DEF Phases, BeingMade, Connected, GoingDown
  <2>4. ~SomeAt({"erase"})'
    <3>1. ~SomeAt({"erase"})
      BY <2>3 DEF Nobody, SomeAt
    <3> QED
      BY <1>4, <1>5, <3>1
  <2>5. OthersOver'
    <3>1. \A u \in Threads : io'[u].pc = "set_disconnected" => io'[u] = io[u]
      BY <1>4, <1>5
    <3> QED
      BY <1>1, <1>6, <2>3, <3>1 DEF Nobody, OthersOver, Over
  <2>6. sending # "login"
    BY <1>2, <1>13, <2>2 DEF LoginSent
  <2> QED
    BY <1>1, <1>7, <1>13, <1>14, <2>2, <2>3, <2>4, <2>5, <2>6 DEF BeingMade, Nobody, Clean, counts
<1>18. AboutToLearn'
  <2>1. /\ SomeAt({"login_success"})' => SomeAt({"login_success"})
        /\ SomeAt({"erase", "emit_disconnect"}) => SomeAt({"erase", "emit_disconnect"})'
    BY <1>1, <1>4, <1>5
  <2> QED
    BY <1>1, <2>1 DEF IInv, AboutToLearn, Clean, Coming, Showing, Says, window, hist
<1> QED
  BY <1>3, <1>8, <1>10, <1>11, <1>12, <1>15, <1>16, <1>17, <1>18 DEF IInv, Types

LEMMA ConnectedSet ==
  ASSUME IInv, NEW t \in Threads, SetConnected(t)
  PROVE  IInv'
<1>1. /\ UNCHANGED <<window, sending, signals, counts, id_increment, cur_id, sessions, is_logined, net,
                     crashed, hist>>
      /\ io[t].pc = "set_connected" /\ Goto(t, "emit_connect") /\ is_connected' = TRUE
      /\ io[t].sess = cur_id /\ cur_id \in Ids /\ link[cur_id] # "none"
  <2>1. io[t].pc = "set_connected" =>
          io[t].sess = cur_id /\ io[t].sess \in Ids /\ link[io[t].sess] # "none"
    BY DEF IInv, Honest, JobHonest, Starting
  <2> QED
    BY <2>1 DEF SetConnected, At
<1>2. /\ Types /\ Tables /\ Flags /\ Honest /\ Told /\ OneAtATime /\ FirstSession /\ Phases /\ LoginSent
      /\ Windows /\ SessionHonest(cur_id)
  BY <1>1 DEF IInv, Types, Honest
<1>3. Counts' /\ Stages' /\ Queued' /\ Made' /\ NullUseExplained'
  BY <1>1, Stays DEF window, hist
<1>4. PICK j \in Job : /\ j.pc = "emit_connect"
                       /\ io' = [io EXCEPT ![t] = j]
  BY <1>1, <1>2, Going DEF Tables, PCs, Starting
<1>5. /\ io' \in [Threads -> Job] /\ io'[t] = j /\ \A u \in Threads : u # t => io'[u] = io[u]
      /\ \A P : SomeAt(P)' => SomeAt(P) \/ j.pc \in P
      /\ \A P : SomeAt(P) => SomeAt(P)' \/ io[t].pc \in P
      /\ \A P : j.pc \in P => SomeAt(P)'
      /\ \A P : io[t].pc \in P => SomeAt(P)
  BY <1>2, <1>4, Moved DEF Tables
<1>6. Flags' /\ Tables' /\ Windows'
  BY <1>1, <1>2, <1>5 DEF Flags, Tables, Windows, window, net, hist
<1>7. \A u \in Threads : io'[u].pc \in Starting \cup Ending => u # t /\ io'[u] = io[u]
  BY <1>4, <1>5 DEF Starting, Ending
<1>8. Honest'
  <2>1. \A s \in Ids : SessionHonest(s)'
    BY <1>1, <1>2 DEF Honest, SessionHonest, net, hist
  <2>2. \A u \in Threads : JobHonest(io[u])'
    BY <1>1, <1>2, <1>7 DEF Honest, JobHonest, Starting, Ending, net
  <2>3. Alone'
    BY <1>2, <1>7 DEF Honest, Alone
  <2> QED
    BY <2>1, <2>2, <2>3 DEF Honest
<1>9. Told'
  <2>1. \A u \in Threads : io[u].pc \in Ending => io'[u] = io[u]
    BY <1>1, <1>5 DEF Ending
  <2> QED
    BY <1>1, <1>2, <2>1 DEF Told, TellsEnd, Names, net, hist
<1>10. UseNeedsSession'
  <2>1. Used
    BY <1>1, <1>2 DEF SessionHonest, Used
  <2> QED
    BY <1>1, <2>1 DEF UseNeedsSession, Used, hist
<1>11. /\ SomeAt(Starting) /\ SomeAt(Starting \cup {"emit_connect"})
       /\ SomeAt({"set_connected"})
  BY <1>1, <1>5 DEF Starting
<1>12. ~SomeAt(Starting)'
  <2>1. \A u \in Threads : u # t => io[u].pc \notin Starting
    BY <1>1, <1>2 DEF Honest, Alone, Starting
  <2> QED
    BY <1>7, <2>1 DEF SomeAt
<1>13. ~SomeAt({"emplace"})'
  BY <1>12 DEF SomeAt, Starting
<1>14. ~overlapped => connecting = 0
  <2>1. connecting \in Nat
    BY <1>2 DEF Types, Counts
  <2> QED
    BY <1>2, <1>11, <2>1 DEF OneAtATime
<1>15. OneAtATime'
  <2>1. ~overlapped' => connecting' = 0 /\ connecting' <= 1 /\ connecting' # 1
    BY <1>1, <1>14 DEF counts, hist
  <2> QED
    BY <2>1 DEF OneAtATime
<1>16. LoginSent'
  BY <1>1, <1>2, <1>11 DEF LoginSent, Clean, hist
<1>17. FirstSession'
  BY <1>1, <1>2, <1>13 DEF FirstSession, counts, hist
<1>18. Phases'
  <2>1. SUFFICES ASSUME Clean' PROVE Connected'
    BY DEF Phases
  <2>2. Clean
    BY <1>1, <2>1 DEF Clean, hist
  <2>3. BeingMade
    <3>1. SomeAt({"set_connected", "erase"}) /\ SomeAt(Starting \cup {"erase"})
      BY <1>1, <1>5 DEF Starting
    <3> QED
      BY <1>2, <1>11, <2>2, <3>1 DEF Phases, Nobody, Connected, GoingDown
  <2>4. ~SomeAt(Starting \cup {"erase"})'
    <3>1. ~SomeAt({"erase"})'
      BY <1>4, <1>5, <2>3 DEF BeingMade
    <3> QED
      BY <1>12, <3>1 DEF SomeAt
  <2>5. OthersOver'
    <3>1. \A u \in Threads : io'[u].pc = "set_disconnected" => io'[u] = io[u]
      BY <1>4, <1>5
    <3> QED
      BY <1>1, <2>3, <3>1 DEF BeingMade, OthersOver, Over, net
  <2> QED
    BY <1>1, <2>3, <2>4, <2>5 DEF BeingMade, Connected, counts
<1>19. AboutToLearn'
  BY <1>1 DEF AboutToLearn
<1> QED
  BY <1>3, <1>6, <1>8, <1>9, <1>10, <1>15, <1>16, <1>17, <1>18, <1>19 DEF IInv, Types

LEMMA ConnectTold ==
  ASSUME IInv, NEW t \in Threads, on_connect_callback(t)
  PROVE  IInv'
<1>1. /\ UNCHANGED <<window, sending, counts, shared, net, crashed, hist>>
      /\ io[t].pc = "emit_connect" /\ Return(t)
      /\ Emit([type |-> "can_check_connect", sess |-> NoId])
  BY DEF on_connect_callback, At
<1>2. /\ Types /\ Queued /\ Tables /\ UseNeedsSession
  BY DEF IInv, Types
<1>3. Flags' /\ Windows'
  BY <1>1, Stays DEF window, shared, hist
<1>4. /\ signals' \in Seq(Signal)
      /\ \A s : Names(s) => Names(s)'
      /\ Says("recv_chat_lists")' <=> Says("recv_chat_lists")
      /\ Says("can_check_connect")'
  <2>1. [type |-> "can_check_connect", sess |-> NoId] \in Signal
    BY Signals
  <2> QED
    BY <1>1, <1>2, <2>1, Emitted DEF Queued
<1>5. PICK j \in Job : j.pc = "idle" /\ io' = [io EXCEPT ![t] = j]
  BY <1>1, Returning
<1>6. /\ Counts' /\ Stages' /\ Tables' /\ Made' /\ Honest' /\ Told' /\ OneAtATime' /\ FirstSession'
      /\ NullUseExplained' /\ Phases' /\ LoginSent'
  BY <1>1, <1>4, <1>5, PlainStep DEF Plain, shared
<1>7. Queued'
  BY <1>1, <1>2, <1>4 DEF Queued, window
<1>8. UseNeedsSession'
  <2>1. SomeAt({"login_success", "set_lists"})' => SomeAt({"login_success", "set_lists"})
    BY <1>2, <1>5, Moved DEF Tables
  <2> QED
    BY <1>1, <1>2, <1>4, <2>1 DEF UseNeedsSession, Used, Boxed, window, shared, hist
<1>9. AboutToLearn'
  BY <1>4 DEF AboutToLearn, Coming
<1> QED
  BY <1>3, <1>6, <1>7, <1>8, <1>9 DEF IInv, Types

-----------------------------------------------------------------------------
(* The io threads: the answer to a login and the lists *)

LEMMA LoginAccepted ==
  ASSUME IInv, NEW t \in Threads, login_success(t)
  PROVE  IInv'
<1>1. /\ UNCHANGED <<window, sending, signals, counts, id_increment, cur_id, sessions, is_connected,
                     net, crashed, hist>>
      /\ io[t].pc = "login_success" /\ Goto(t, "emit_login") /\ is_logined' = TRUE
  BY DEF login_success, At
<1>2. /\ Types /\ Flags /\ Queued /\ Tables /\ UseNeedsSession /\ AboutToLearn /\ Windows
  BY DEF IInv, Types
<1>3. PICK j \in Job : j.pc = "emit_login" /\ io' = [io EXCEPT ![t] = j]
  BY <1>1, <1>2, Going DEF Tables, PCs
<1>4. /\ \A P : SomeAt(P)' => SomeAt(P) \/ j.pc \in P
      /\ SomeAt({"login_success"}) /\ SomeAt({"login_success", "set_lists"})
  BY <1>1, <1>2, <1>3, Moved DEF Tables
<1>5. \A s : Names(s) => Names(s)'
  BY <1>1 DEF Names
<1>6. /\ Counts' /\ Stages' /\ Tables' /\ Made' /\ Honest' /\ Told' /\ OneAtATime' /\ FirstSession'
      /\ NullUseExplained' /\ Phases' /\ LoginSent'
      /\ SomeAt({"erase", "emit_disconnect"})' <=> SomeAt({"erase", "emit_disconnect"})
  BY <1>1, <1>3, <1>5, PlainStep DEF Plain
<1>7. Flags' /\ Queued' /\ Windows'
  BY <1>1, <1>2 DEF Flags, Queued, Windows, window, hist
<1>8. UseNeedsSession'
  BY <1>1, <1>2, <1>4 DEF UseNeedsSession, Used, hist
<1>9. AboutToLearn'
  BY <1>1, <1>2, <1>4, <1>6 DEF AboutToLearn, Clean, Coming, Says, hist
<1> QED
  BY <1>6, <1>7, <1>8, <1>9 DEF IInv, Types

LEMMA LoginTold ==
  ASSUME IInv, NEW t \in Threads, on_login_callback(t)
  PROVE  IInv'
<1>1. /\ UNCHANGED <<window, sending, counts, shared, net, crashed, hist>>
      /\ io[t].pc = "emit_login" /\ Return(t)
      /\ Emit([type |-> "can_check_login", sess |-> NoId])
  BY DEF on_login_callback, At
<1>2. /\ Types /\ Queued /\ Tables /\ UseNeedsSession /\ AboutToLearn
  BY DEF IInv, Types
<1>3. Flags' /\ Windows'
  BY <1>1, Stays DEF window, shared, hist
<1>4. /\ signals' \in Seq(Signal)
      /\ \A s : Names(s) => Names(s)'
      /\ Says("recv_chat_lists")' <=> Says("recv_chat_lists")
      /\ Says("can_check_connect")' <=> Says("can_check_connect")
  <2>1. [type |-> "can_check_login", sess |-> NoId] \in Signal
    BY Signals
  <2> QED
    BY <1>1, <1>2, <2>1, Emitted DEF Queued
<1>5. PICK j \in Job : j.pc = "idle" /\ io' = [io EXCEPT ![t] = j]
  BY <1>1, Returning
<1>6. /\ Counts' /\ Stages' /\ Tables' /\ Made' /\ Honest' /\ Told' /\ OneAtATime' /\ FirstSession'
      /\ NullUseExplained' /\ Phases' /\ LoginSent'
      /\ SomeAt({"erase", "emit_disconnect"})' <=> SomeAt({"erase", "emit_disconnect"})
  BY <1>1, <1>4, <1>5, PlainStep DEF Plain, shared
<1>7. Queued'
  BY <1>1, <1>2, <1>4 DEF Queued, window
<1>8. \A P : "idle" \notin P => (SomeAt(P)' => SomeAt(P))
  BY <1>2, <1>5, Moved DEF Tables
<1>9. UseNeedsSession'
  <2>1. SomeAt({"login_success", "set_lists"})' => SomeAt({"login_success", "set_lists"})
    BY <1>8
  <2> QED
    BY <1>1, <1>2, <1>4, <2>1 DEF UseNeedsSession, Used, Boxed, window, shared, hist
<1>10. AboutToLearn'
  <2>1. SomeAt({"login_success"})' => SomeAt({"login_success"})
    BY <1>8
  <2> QED
    BY <1>1, <1>2, <1>4, <1>6, <2>1 DEF AboutToLearn, Clean, Coming, Showing, window, shared, hist
<1> QED
  BY <1>3, <1>6, <1>7, <1>9, <1>10 DEF IInv, Types

LEMMA ListsTold ==
  ASSUME IInv, NEW t \in Threads, set_chatRoom_list(t)
  PROVE  IInv'
<1>1. /\ UNCHANGED <<window, sending, counts, shared, net, crashed, hist>>
      /\ io[t].pc = "set_lists" /\ Return(t)
      /\ Emit([type |-> "recv_chat_lists", sess |-> NoId])
  BY DEF set_chatRoom_list, At
<1>2. /\ Types /\ Queued /\ Tables /\ UseNeedsSession /\ AboutToLearn
  BY DEF IInv, Types
<1>3. Flags' /\ Windows'
  BY <1>1, Stays DEF window, shared, hist
<1>4. /\ signals' \in Seq(Signal)
      /\ \A s : Names(s) => Names(s)'
      /\ Says("can_check_connect")' <=> Says("can_check_connect")
  <2>1. [type |-> "recv_chat_lists", sess |-> NoId] \in Signal
    BY Signals
  <2> QED
    BY <1>1, <1>2, <2>1, Emitted DEF Queued
<1>5. PICK j \in Job : j.pc = "idle" /\ io' = [io EXCEPT ![t] = j]
  BY <1>1, Returning
<1>6. /\ Counts' /\ Stages' /\ Tables' /\ Made' /\ Honest' /\ Told' /\ OneAtATime' /\ FirstSession'
      /\ NullUseExplained' /\ Phases' /\ LoginSent'
      /\ SomeAt({"erase", "emit_disconnect"})' <=> SomeAt({"erase", "emit_disconnect"})
  BY <1>1, <1>4, <1>5, PlainStep DEF Plain, shared
<1>7. Queued'
  BY <1>1, <1>2, <1>4 DEF Queued, window
<1>8. UseNeedsSession'
  <2>1. SomeAt({"login_success", "set_lists"})
    BY <1>1, <1>2, <1>5, Moved DEF Tables
  <2> QED
    BY <1>1, <1>2, <2>1 DEF UseNeedsSession, Used, shared, hist
<1>9. AboutToLearn'
  <2>1. SomeAt({"login_success"})' => SomeAt({"login_success"})
    BY <1>2, <1>5, Moved DEF Tables
  <2> QED
    BY <1>1, <1>2, <1>4, <1>6, <2>1 DEF AboutToLearn, Clean, Coming, Showing, window, shared, hist
<1> QED
  BY <1>3, <1>6, <1>7, <1>8, <1>9 DEF IInv, Types

-----------------------------------------------------------------------------
(* The io threads: the end of a connection *)

LEMMA Firsts ==
  /\ Texts = {"login_ok", "login_bad", "rooms", "eof"}
  /\ FirstStep["login_ok"] = "login_success" /\ FirstStep["login_bad"] = "emit_login"
  /\ FirstStep["rooms"] = "set_lists" /\ FirstStep["eof"] = "set_disconnected"
  /\ \A x \in Texts : /\ FirstStep[x] \in PCs \ (Starting \cup {"emit_connect", "erase", "idle",
                                                               "emit_disconnect"})
                      /\ FirstStep[x] \in Ending => x = "eof"
                      /\ FirstStep[x] = "set_disconnected" => x = "eof"
                      /\ FirstStep[x] = "login_success" => x = "login_ok"
  BY DEF Texts, FirstStep, PCs, Starting, Ending

LEMMA DataHandled ==
  ASSUME IInv, NEW t \in Threads, handle_data(t)
  PROVE  IInv'
<1>1. PICK s \in Ids : /\ inbox[s] # <<>>
                       /\ inbox' = [inbox EXCEPT ![s] = Tail(@)]
                       /\ io' = [io EXCEPT ![t] = [pc |-> FirstStep[Head(inbox[s])], sess |-> s]]
  BY DEF handle_data
<1>2. /\ UNCHANGED <<window, sending, signals, counts, shared, link, requests, crashed, hist>>
      /\ io[t].pc = "idle"
  BY DEF handle_data, At
<1>3. /\ Types /\ Tables /\ Honest /\ Told /\ UseNeedsSession /\ OneAtATime /\ FirstSession /\ Phases
      /\ LoginSent /\ AboutToLearn /\ SessionHonest(s)
  BY DEF IInv, Types, Honest
<1>4. Flags' /\ Counts' /\ Stages' /\ Queued' /\ Made' /\ NullUseExplained' /\ Windows'
  BY <1>2, Stays DEF window, shared, hist
<1>5. PICK text : text = Head(inbox[s])
  OBVIOUS
<1>6. /\ inbox[s] \in Seq(Texts) /\ text \in Texts /\ text = inbox[s][1]
      /\ Tail(inbox[s]) \in Seq(Texts)
      /\ Len(Tail(inbox[s])) = Len(inbox[s]) - 1
      /\ Len(inbox[s]) \in Nat /\ Len(inbox[s]) >= 1
      /\ \A i \in 1..Len(Tail(inbox[s])) :
           i + 1 \in 1..Len(inbox[s]) /\ Tail(inbox[s])[i] = inbox[s][i + 1]
  <2>1. inbox[s] \in Seq(Texts)
    BY <1>3 DEF Tables
  <2> QED
    BY <1>1, <1>5, <2>1, Taken
<1>7. PICK j \in Job : /\ j.pc = FirstStep[text] /\ j.sess = s
                       /\ io' = [io EXCEPT ![t] = j]
  <2>1. [pc |-> FirstStep[text], sess |-> s] \in Job
    BY <1>6, Firsts DEF Job
  <2> QED
    BY <1>1, <1>5, <2>1
<1>8. /\ io' \in [Threads -> Job] /\ io'[t] = j /\ \A u \in Threads : u # t => io'[u] = io[u]
      /\ \A P : SomeAt(P)' => SomeAt(P) \/ j.pc \in P
      /\ \A P : SomeAt(P) => SomeAt(P)' \/ io[t].pc \in P
      /\ \A P : j.pc \in P => SomeAt(P)'
  BY <1>3, <1>7, Moved DEF Tables
<1>9. /\ inbox' \in [Ids -> Seq(Texts)] /\ inbox'[s] = Tail(inbox[s])
      /\ \A r \in Ids : r # s => inbox'[r] = inbox[r]
  <2>1. inbox \in [Ids -> Seq(Texts)]
    BY <1>3 DEF Tables
  <2> QED
    BY <1>1, <1>6, <2>1
<1>10. Tables'
  BY <1>2, <1>3, <1>8, <1>9 DEF Tables
<1>11. /\ j.pc \notin Starting \cup {"emit_connect", "erase", "emit_disconnect"}
       /\ j.pc \in Ending => text = "eof" /\ j.pc = "set_disconnected"
       /\ j.pc = "set_disconnected" => text = "eof"
       /\ j.pc = "login_success" => text = "login_ok"
       /\ text = "eof" => j.pc = "set_disconnected" /\ j.pc \in Ending
  BY <1>6, <1>7, Firsts DEF Ending
<1>12. /\ text = "eof" => link[s] = "closed" /\ inbox'[s] = <<>> /\ Len(inbox[s]) = 1
       /\ link[s] # "none"
       /\ link[s] = "closed" /\ inbox'[s] = <<>> => text = "eof"
  <2>1. 1 \in 1..Len(inbox[s]) /\ Len(inbox[s]) \in 1..Len(inbox[s])
    BY <1>6
  <2>2. text = "eof" => link[s] = "closed" /\ Len(inbox[s]) = 1
    BY <1>3, <1>6, <2>1 DEF SessionHonest
  <2>3. Len(Tail(inbox[s])) = 0 <=> Tail(inbox[s]) = <<>>
    BY <1>6, EmptySeq
  <2>4. text = "eof" => inbox'[s] = <<>>
    BY <1>6, <1>9, <2>2, <2>3
  <2>5. link[s] # "none"
    BY <1>1, <1>3 DEF SessionHonest
  <2>6. ASSUME link[s] = "closed", inbox'[s] = <<>> PROVE text = "eof"
    <3>1. Len(inbox[s]) = 1
      BY <1>6, <1>9, <2>3, <2>6
    <3>2. inbox[s][Len(inbox[s])] = "eof"
      BY <1>1, <1>3, <2>6 DEF SessionHonest
    <3> QED
      BY <1>6, <3>1, <3>2
  <2> QED
    BY <2>2, <2>4, <2>5, <2>6
<1>13. \A u \in Threads : io[u].pc \in Ending => io[u].sess # s
  BY <1>1, <1>3 DEF Honest, JobHonest
<1>14. Honest'
  <2>1. SessionHonest(s)'
    <3>1. ASSUME NEW i \in 1..Len(inbox'[s]), inbox'[s][i] = "eof"
          PROVE  i = Len(inbox'[s]) /\ link[s] = "closed"
      <4>1. i + 1 \in 1..Len(inbox[s]) /\ inbox[s][i + 1] = "eof"
        BY <1>6, <1>9, <3>1
      <4>2. i + 1 = Len(inbox[s]) /\ link[s] = "closed"
        BY <1>3, <4>1 DEF SessionHonest
      <4> QED
        BY <1>6, <1>9, <4>2
    <3>2. ASSUME link[s] = "closed", inbox'[s] # <<>> PROVE inbox'[s][Len(inbox'[s])] = "eof"
      <4>1. Len(Tail(inbox[s])) \in 1..Len(Tail(inbox[s]))
        BY <1>6, <1>9, <3>2, EmptySeq
      <4>2. Len(Tail(inbox[s])) + 1 = Len(inbox[s])
        BY <1>6
      <4>3. inbox[s][Len(inbox[s])] = "eof"
        BY <1>1, <1>3, <3>2 DEF SessionHonest
      <4> QED
        BY <1>6, <1>9, <4>1, <4>2, <4>3
    <3>3. link[s] = "none" <=> s \notin sessions \cup erased
      BY <1>3 DEF SessionHonest
    <3>4. s > id_increment => link[s] = "none"
      BY <1>3 DEF SessionHonest
    <3> QED
      BY <1>2, <1>12, <3>1, <3>2, <3>3, <3>4 DEF SessionHonest, shared, hist
  <2>2. ASSUME NEW r \in Ids, r # s PROVE SessionHonest(r)'
    BY <1>2, <1>3, <1>9, <2>2 DEF Honest, SessionHonest, shared, hist
  <2>3. \A r \in Ids : SessionHonest(r)'
    BY <2>1, <2>2
  <2>4. JobHonest(io[t])'
    BY <1>2, <1>7, <1>8, <1>11, <1>12 DEF JobHonest, Starting
  <2>5. ASSUME NEW u \in Threads, u # t PROVE JobHonest(io[u])'
    <3>1. JobHonest(io[u]) /\ io'[u] = io[u]
      BY <1>3, <1>8, <2>5 DEF Honest
    <3>2. io[u].pc \in Ending => io[u].sess \in Ids /\ inbox'[io[u].sess] = inbox[io[u].sess]
      BY <1>9, <1>13, <3>1 DEF JobHonest
    <3> QED
      BY <1>2, <3>1, <3>2 DEF JobHonest, shared
  <2>6. Alone'
    <3>1. \A u \in Threads : io'[u].pc \in Starting => u # t /\ io'[u] = io[u]
      BY <1>8, <1>11
    <3>2. \A u \in Threads : u # t /\ io'[u].pc \in Ending => io'[u].sess # s
      BY <1>8, <1>13
    <3> QED
      BY <1>3, <1>7, <1>8, <3>1, <3>2 DEF Honest, Alone
  <2> QED
    BY <2>3, <2>4, <2>5, <2>6 DEF Honest
<1>15. Told'
  <2>1. \A u \in Threads : io[u].pc \in Ending => io'[u] = io[u]
    BY <1>2, <1>8 DEF Ending
  <2>2. ASSUME NEW r \in Ids, r # s, link[r] = "closed" PROVE TellsEnd(r)'
    BY <1>2, <1>3, <1>9, <2>1, <2>2 DEF Told, TellsEnd, Names, hist
  <2>3. ASSUME link[s] = "closed" PROVE TellsEnd(s)'
    BY <1>7, <1>8, <1>11, <1>12, <2>3 DEF TellsEnd
  <2> QED
    BY <1>2, <2>2, <2>3 DEF Told
<1>16. UseNeedsSession'
  <2>1. Used
    BY <1>3, <1>12 DEF SessionHonest, Used
  <2> QED
    BY <1>2, <2>1 DEF UseNeedsSession, Used, shared, hist
<1>17. /\ SomeAt(Starting)' <=> SomeAt(Starting)
       /\ SomeAt({"emplace"})' <=> SomeAt({"emplace"})
       /\ SomeAt({"set_connected"})' <=> SomeAt({"set_connected"})
       /\ SomeAt({"erase"})' <=> SomeAt({"erase"})
       /\ SomeAt({"set_connected", "erase"})' <=> SomeAt({"set_connected", "erase"})
       /\ SomeAt({"erase", "emit_disconnect"})' <=> SomeAt({"erase", "emit_disconnect"})
       /\ SomeAt(Starting \cup {"erase"})' <=> SomeAt(Starting \cup {"erase"})
       /\ SomeAt(Starting \cup {"emit_connect"})' <=> SomeAt(Starting \cup {"emit_connect"})
  BY <1>2, <1>8, <1>11 DEF Starting
<1>18. OneAtATime' /\ FirstSession' /\ LoginSent'
  BY <1>2, <1>3, <1>17 DEF OneAtATime, FirstSession, LoginSent, Clean, shared, hist, counts
<1>19. Clean => (BeingMade /\ text = "eof") \/ Connected
  <2>1. ~Over(s)
    BY <1>1 DEF Over
  <2>2. ~Nobody /\ ~GoingDown /\ (BeingMade => s = cur_id)
    BY <2>1 DEF Nobody, GoingDown, BeingMade, OthersOver
  <2>3. BeingMade => inbox[s] = <<"eof">>
    BY <1>1, <2>2 DEF BeingMade
  <2>4. BeingMade => text = "eof"
    BY <1>6, <2>3
  <2> QED
    BY <1>3, <2>2, <2>4 DEF Phases
<1>20. Phases'
  <2>1. ASSUME OthersOver PROVE OthersOver'
    <3>1. s = cur_id
      BY <1>1, <2>1 DEF OthersOver, Over
    <3> QED
      BY <1>2, <1>7, <1>8, <1>9, <2>1, <3>1 DEF OthersOver, Over, shared
  <2>2. BeingMade /\ text = "eof" => BeingMade'
    <3>1. BeingMade => s = cur_id
      BY <1>1 DEF BeingMade, OthersOver, Over
    <3> QED
      BY <1>2, <1>9, <1>12, <1>17, <2>1, <3>1 DEF BeingMade, shared, counts
  <2>3. Connected => Connected'
    BY <1>2, <1>17, <2>1 DEF Connected, shared, counts
  <2> QED
    BY <1>2, <1>19, <2>2, <2>3 DEF Phases, Clean, hist
<1>21. AboutToLearn'
  <2>1. Clean /\ ~is_connected => ~(j.pc = "login_success")
    BY <1>11, <1>19 DEF Connected
  <2>2. Clean /\ ~is_connected => (SomeAt({"login_success"})' => SomeAt({"login_success"}))
    BY <1>8, <2>1
  <2> QED
    BY <1>2, <1>3, <1>17, <2>2 DEF AboutToLearn, Clean, Coming, Showing, Says, window, shared, hist
<1> QED
  BY <1>4, <1>10, <1>14, <1>15, <1>16, <1>18, <1>20, <1>21 DEF IInv, Types

\* The steps of disconnect, as far as the window has not been told.
LEMMA EndGoesOn ==
  ASSUME IInv, NEW t \in Threads, NEW j \in Job, io' = [io EXCEPT ![t] = j],
         io[t].pc \in Ending, j.pc \in Ending, j.sess = io[t].sess,
         UNCHANGED <<signals, counts, id_increment, cur_id, net, told>>,
         sessions' \cup erased' = sessions \cup erased
  PROVE  /\ Tables' /\ Honest' /\ Told' /\ (Used' <=> Used)
         /\ io'[t] = j /\ \A u \in Threads : u # t => io'[u] = io[u]
         /\ \A P : SomeAt(P)' => SomeAt(P) \/ j.pc \in P
         /\ \A P : SomeAt(P) => SomeAt(P)' \/ io[t].pc \in P
         /\ \A P : j.pc \in P => SomeAt(P)'
         /\ \A P : io[t].pc \in P => SomeAt(P)
<1>1. Tables /\ Honest /\ Told
  BY DEF IInv, Types
<1>2. /\ io' \in [Threads -> Job] /\ io'[t] = j /\ \A u \in Threads : u # t => io'[u] = io[u]
      /\ \A P : SomeAt(P)' => SomeAt(P) \/ j.pc \in P
      /\ \A P : SomeAt(P) => SomeAt(P)' \/ io[t].pc \in P
      /\ \A P : j.pc \in P => SomeAt(P)'
      /\ \A P : io[t].pc \in P => SomeAt(P)
  BY <1>1, Moved DEF Tables
<1>3. Tables'
  BY <1>1, <1>2 DEF Tables, net
<1>4. /\ \A u \in Threads : io'[u].pc \in Ending <=> io[u].pc \in Ending
      /\ \A u \in Threads : io'[u].pc \in Ending => io'[u].sess = io[u].sess
      /\ \A u \in Threads : io'[u].pc \in Starting => io'[u] = io[u]
  BY <1>2 DEF Starting, Ending
<1>5. Honest'
  <2>1. \A s \in Ids : SessionHonest(s)'
    <3>1. \A s \in Ids : s \in sessions' \cup erased' <=> s \in sessions \cup erased
      OBVIOUS
    <3> QED
      BY <1>1, <3>1 DEF Honest, SessionHonest, net
  <2>2. JobHonest(io[t])'
    BY <1>1, <1>2 DEF Honest, JobHonest, Starting, Ending, net
  <2>3. ASSUME NEW u \in Threads, u # t PROVE JobHonest(io[u])'
    BY <1>1, <1>2, <2>3 DEF Honest, JobHonest, net
  <2>4. Alone'
    BY <1>1, <1>4 DEF Honest, Alone
  <2> QED
    BY <2>1, <2>2, <2>3, <2>4 DEF Honest
<1>6. Told'
  BY <1>1, <1>4 DEF Told, TellsEnd, Names, net
<1> QED
  BY <1>2, <1>3, <1>5, <1>6 DEF Used

LEMMA DisconnectedSet ==
  ASSUME IInv, NEW t \in Threads, SetDisconnected(t)
  PROVE  IInv'
<1>1. /\ UNCHANGED <<window, sending, signals, counts, id_increment, cur_id, sessions, is_logined, net,
                     crashed, erased, told, overlapped, nested, outrun>>
      /\ io[t].pc = "set_disconnected" /\ Goto(t, "erase") /\ is_connected' = FALSE
      /\ overtaken' = (overtaken \/ ~MutexFree)
  BY DEF SetDisconnected, At
<1>2. /\ Types /\ Tables /\ Flags /\ Honest /\ OneAtATime /\ FirstSession /\ Phases /\ LoginSent
      /\ Windows /\ UseNeedsSession /\ JobHonest(io[t])
  BY DEF IInv, Types, Honest
<1>3. Counts' /\ Stages' /\ Queued' /\ Made' /\ NullUseExplained' /\ Windows'
  BY <1>1, Stays DEF window
<1>4. PICK j \in Job : /\ j.pc = "erase" /\ j.sess = io[t].sess
                       /\ io' = [io EXCEPT ![t] = j]
  BY <1>1, <1>2, Going DEF Tables, PCs, Ending
<1>5. /\ Tables' /\ Honest' /\ Told' /\ (Used' <=> Used)
      /\ io'[t] = j /\ \A u \in Threads : u # t => io'[u] = io[u]
      /\ \A P : SomeAt(P)' => SomeAt(P) \/ j.pc \in P
      /\ \A P : SomeAt(P) => SomeAt(P)' \/ io[t].pc \in P
      /\ \A P : j.pc \in P => SomeAt(P)'
      /\ \A P : io[t].pc \in P => SomeAt(P)
  BY <1>1, <1>4, EndGoesOn DEF Ending
<1>6. overtaken' \in BOOLEAN /\ (~overtaken' => ~overtaken /\ MutexFree)
  BY <1>1
<1>7. Flags'
  BY <1>1, <1>2, <1>6 DEF Flags, window
<1>8. UseNeedsSession'
  <2>1. SomeAt({"login_success", "set_lists"})' => SomeAt({"login_success", "set_lists"})
    BY <1>4, <1>5
  <2> QED
    BY <1>1, <1>2, <1>5, <2>1 DEF UseNeedsSession, Boxed, Says, window
<1>9. /\ SomeAt(Starting)' <=> SomeAt(Starting)
      /\ SomeAt(Starting \cup {"emit_connect"})' <=> SomeAt(Starting \cup {"emit_connect"})
      /\ SomeAt({"emplace"})' <=> SomeAt({"emplace"})
      /\ SomeAt({"set_connected", "erase"})' /\ SomeAt({"erase", "emit_disconnect"})'
  BY <1>1, <1>4, <1>5 DEF Starting
<1>10. OneAtATime' /\ FirstSession'
  BY <1>1, <1>2, <1>9 DEF OneAtATime, FirstSession, counts
<1>11. LoginSent'
  BY <1>1, <1>2, <1>6, <1>9 DEF LoginSent, Clean, counts
<1>12. Phases'
  <2>1. SUFFICES ASSUME Clean' PROVE GoingDown'
    BY DEF Phases
  <2>2. Clean /\ MutexFree
    BY <1>1, <1>6, <2>1 DEF Clean
  <2>3. ~SomeAt(Starting) /\ ~SomeAt({"set_connected"})
    BY <2>2 DEF MutexFree, SomeAt, Starting
  <2>4. io[t].sess \in Ids /\ ~Over(io[t].sess)
    BY <1>1, <1>2 DEF JobHonest, Ending, Over
  <2>5. Connected
    BY <1>2, <2>2, <2>3, <2>4 DEF Phases, Nobody, BeingMade, GoingDown
  <2>6. io[t].sess = cur_id
    BY <2>4, <2>5 DEF Connected, OthersOver
  <2>7. \A u \in Threads : u # t /\ io[u].pc = "set_disconnected" => io[u].sess # cur_id
    BY <1>1, <1>2, <2>6 DEF Honest, Alone, Ending
  <2>8. Over(cur_id)'
    <3>1. link[cur_id] = "closed" /\ inbox[cur_id] = <<>>
      BY <1>1, <1>2, <2>6 DEF JobHonest, Ending
    <3> QED
      BY <1>1, <1>4, <1>5, <2>7, <3>1 DEF Over, net
  <2>9. \A s \in Ids : s # cur_id => Over(s)'
    BY <1>1, <1>4, <1>5, <2>5 DEF Connected, OthersOver, Over, net
  <2>10. \A u \in Threads : io'[u].pc = "erase" => u = t
    BY <1>5, <2>5 DEF Connected, SomeAt
  <2> QED
    BY <1>1, <1>4, <1>5, <1>9, <2>3, <2>5, <2>8, <2>9, <2>10 DEF Connected, GoingDown, counts
<1>13. AboutToLearn'
  BY <1>9 DEF AboutToLearn, Coming
<1> QED
  BY <1>3, <1>5, <1>7, <1>8, <1>10, <1>11, <1>12, <1>13 DEF IInv, Types

LEMMA SessionErased ==
  ASSUME IInv, NEW t \in Threads, Erase(t)
  PROVE  IInv'
<1>1. /\ UNCHANGED <<window, sending, signals, counts, id_increment, cur_id, is_connected, is_logined,
                     net, crashed, told, overlapped, overtaken, nested, outrun>>
      /\ io[t].pc = "erase" /\ Goto(t, "emit_disconnect")
      /\ sessions' = sessions \ {cur_id} /\ erased' = erased \cup ({cur_id} \cap sessions)
  BY DEF Erase, At
<1>2. /\ Types /\ Tables /\ Flags /\ Made /\ Honest /\ OneAtATime /\ FirstSession /\ Phases /\ LoginSent
      /\ Windows /\ UseNeedsSession /\ NullUseExplained
  BY DEF IInv, Types
<1>3. Flags' /\ Counts' /\ Stages' /\ Queued' /\ Windows'
  BY <1>1, Stays DEF window
<1>4. PICK j \in Job : /\ j.pc = "emit_disconnect" /\ j.sess = io[t].sess
                       /\ io' = [io EXCEPT ![t] = j]
  BY <1>1, <1>2, Going DEF Tables, PCs, Ending
<1>5. /\ Tables' /\ Honest' /\ Told' /\ (Used' <=> Used)
      /\ io'[t] = j /\ \A u \in Threads : u # t => io'[u] = io[u]
      /\ \A P : SomeAt(P)' => SomeAt(P) \/ j.pc \in P
      /\ \A P : SomeAt(P) => SomeAt(P)' \/ io[t].pc \in P
      /\ \A P : j.pc \in P => SomeAt(P)'
      /\ \A P : io[t].pc \in P => SomeAt(P)
  <2>1. sessions' \cup erased' = sessions \cup erased
    BY <1>1
  <2> QED
    BY <1>1, <1>4, <2>1, EndGoesOn DEF Ending
<1>6. Made'
  BY <1>1, <1>2 DEF Made
<1>7. UseNeedsSession'
  <2>1. SomeAt({"login_success", "set_lists"})' => SomeAt({"login_success", "set_lists"})
    BY <1>4, <1>5
  <2> QED
    BY <1>1, <1>2, <1>5, <2>1 DEF UseNeedsSession, Boxed, Says, window
<1>8. /\ SomeAt(Starting)' <=> SomeAt(Starting)
      /\ SomeAt(Starting \cup {"emit_connect"})' <=> SomeAt(Starting \cup {"emit_connect"})
      /\ SomeAt({"erase", "emit_disconnect"})'
  BY <1>1, <1>4, <1>5 DEF Starting
<1>9. OneAtATime' /\ LoginSent'
  BY <1>1, <1>2, <1>8 DEF OneAtATime, LoginSent, Clean, counts
<1>10. FirstSession'
  <2>1. erased' = {} => erased = {} /\ cur_id \notin sessions
    BY <1>1
  <2>2. ~overlapped /\ erased' = {} => sessions = {}
    BY <1>2, <2>1 DEF FirstSession
  <2> QED
    BY <1>1, <2>2 DEF FirstSession
<1>11. NullUseExplained'
  <2>1. erased # {} => erased' # {}
    BY <1>1
  <2> QED
    BY <1>1, <1>2, <2>1 DEF NullUseExplained
<1>12. Phases'
  <2>1. SUFFICES ASSUME Clean' PROVE Nobody'
    BY DEF Phases
  <2>2. GoingDown
    <3>1. Clean /\ SomeAt({"erase"}) /\ SomeAt({"set_connected", "erase"})
          /\ SomeAt(Starting \cup {"erase"})
      BY <1>1, <1>5, <2>1 DEF Clean
    <3> QED
      BY <1>2, <3>1 DEF Phases, Nobody, BeingMade, Connected
  <2>3. \A s \in Ids : Over(s)'
    <3>1. \A u \in Threads : io'[u].pc = "set_disconnected" => io'[u] = io[u]
      BY <1>4, <1>5
    <3> QED
      BY <1>1, <2>2, <3>1 DEF GoingDown, Over, net
  <2>4. ~SomeAt({"set_connected", "erase"})'
    <3>1. \A u \in Threads : io[u].pc = "erase" => u = t
      BY <1>1, <2>2 DEF GoingDown
    <3>2. \A u \in Threads : io[u].pc # "set_connected"
      BY <2>2 DEF GoingDown, SomeAt, Starting
    <3> QED
      BY <1>4, <1>5, <3>1, <3>2 DEF SomeAt
  <2>5. sessions' = {}
    BY <1>1, <2>2 DEF GoingDown
  <2> QED
    BY <1>1, <2>2, <2>3, <2>4, <2>5 DEF Nobody, GoingDown
<1>13. AboutToLearn'
  BY <1>8 DEF AboutToLearn, Coming
<1> QED
  BY <1>3, <1>5, <1>6, <1>7, <1>9, <1>10, <1>11, <1>12, <1>13 DEF IInv, Types

LEMMA EndIsTold ==
  ASSUME IInv, NEW t \in Threads, DisconnectCallback(t)
  PROVE  IInv'
<1>1. /\ UNCHANGED <<window, sending, counts, shared, net, crashed, hist>>
      /\ io[t].pc = "emit_disconnect" /\ Return(t)
      /\ Emit([type |-> "can_check_connect", sess |-> io[t].sess])
  BY DEF DisconnectCallback, At
<1>2. /\ Types /\ Tables /\ Queued /\ Honest /\ Told /\ UseNeedsSession /\ OneAtATime /\ FirstSession
      /\ Phases /\ LoginSent
  BY DEF IInv, Types
<1>3. Flags' /\ Counts' /\ Stages' /\ Made' /\ NullUseExplained' /\ Windows'
  BY <1>1, Stays DEF window, shared, hist
<1>4. /\ signals' \in Seq(Signal)
      /\ \A s : Names(s) => Names(s)'
      /\ Says("recv_chat_lists")' <=> Says("recv_chat_lists")
      /\ Says("can_check_connect")'
      /\ \A s : s = io[t].sess => Names(s)'
  <2>1. PICK sig \in Signal : /\ sig.type = "can_check_connect" /\ sig.sess = io[t].sess
                              /\ Emit(sig)
    <3>1. io[t].sess \in Ids \cup {NoId}
      BY <1>2 DEF Tables, Job
    <3>2. [type |-> "can_check_connect", sess |-> io[t].sess] \in Signal
      BY <3>1, Signals
    <3> QED
      BY <1>1, <3>2
  <2> QED
    BY <1>2, <2>1, Emitted DEF Queued
<1>5. PICK j \in Job : j.pc = "idle" /\ io' = [io EXCEPT ![t] = j]
  BY <1>1, Returning
<1>6. /\ io' \in [Threads -> Job] /\ io'[t] = j /\ \A u \in Threads : u # t => io'[u] = io[u]
      /\ \A P : SomeAt(P)' => SomeAt(P) \/ j.pc \in P
      /\ \A P : SomeAt(P) => SomeAt(P)' \/ io[t].pc \in P
  BY <1>2, <1>5, Moved DEF Tables
<1>7. Tables' /\ Queued'
  BY <1>1, <1>2, <1>4, <1>6 DEF Tables, Queued, net, window
<1>8. \A u \in Threads : io'[u].pc \in Starting \cup Ending => u # t /\ io'[u] = io[u]
  BY <1>5, <1>6 DEF Starting, Ending
<1>9. Honest'
  <2>1. \A s \in Ids : SessionHonest(s)'
    BY <1>1, <1>2 DEF Honest, SessionHonest, net, hist, shared
  <2>2. \A u \in Threads : JobHonest(io[u])'
    BY <1>1, <1>2, <1>8 DEF Honest, JobHonest, Starting, Ending, net, shared
  <2>3. Alone'
    BY <1>2, <1>8 DEF Honest, Alone
  <2> QED
    BY <2>1, <2>2, <2>3 DEF Honest
<1>10. Told'
  <2>1. \A u \in Threads : u # t => io'[u] = io[u]
    BY <1>6
  <2> QED
    BY <1>1, <1>2, <1>4, <2>1 DEF Told, TellsEnd, net, hist
<1>11. UseNeedsSession'
  <2>1. SomeAt({"login_success", "set_lists"})' => SomeAt({"login_success", "set_lists"})
    BY <1>5, <1>6
  <2> QED
    BY <1>1, <1>2, <1>4, <2>1 DEF UseNeedsSession, Used, Boxed, window, shared, hist
<1>12. /\ SomeAt(Starting)' <=> SomeAt(Starting)
       /\ SomeAt({"emplace"})' <=> SomeAt({"emplace"})
       /\ SomeAt({"set_connected"})' <=> SomeAt({"set_connected"})
       /\ SomeAt({"erase"})' <=> SomeAt({"erase"})
       /\ SomeAt({"set_connected", "erase"})' <=> SomeAt({"set_connected", "erase"})
       /\ SomeAt(Starting \cup {"erase"})' <=> SomeAt(Starting \cup {"erase"})
       /\ SomeAt(Starting \cup {"emit_connect"})' <=> SomeAt(Starting \cup {"emit_connect"})
  BY <1>1, <1>5, <1>6 DEF Starting
<1>13. OneAtATime' /\ FirstSession' /\ LoginSent'
  BY <1>1, <1>2, <1>12 DEF OneAtATime, FirstSession, LoginSent, Clean, shared, hist, counts
<1>14. Phases'
  <2>1. \A u \in Threads : /\ io'[u].pc = "set_disconnected" <=> io[u].pc = "set_disconnected"
                           /\ io'[u].pc = "set_disconnected" => io'[u].sess = io[u].sess
                           /\ io'[u].pc = "erase" <=> io[u].pc = "erase"
    BY <1>1, <1>5, <1>6
  <2>2. \A s \in Ids : Over(s)' <=> Over(s)
    BY <1>1, <2>1 DEF Over, net
  <2>3. /\ Nobody' <=> Nobody
        /\ BeingMade' <=> BeingMade
        /\ Connected' <=> Connected
        /\ GoingDown' <=> GoingDown
    BY <1>1, <1>12, <2>1, <2>2
       DEF Nobody, BeingMade, Connected, GoingDown, OthersOver, net, shared, counts
  <2> QED
    BY <1>1, <1>2, <2>3 DEF Phases, Clean, hist
<1>15. AboutToLearn'
  BY <1>4 DEF AboutToLearn, Coming
<1> QED
  BY <1>3, <1>7, <1>9, <1>10, <1>11, <1>13, <1>14, <1>15 DEF IInv, Types

-----------------------------------------------------------------------------
(* The server and the network *)

\* What a step of the network leaves alone.
LEMMA NetworkStep ==
  ASSUME IInv, UNCHANGED <<window, sending, signals, counts, io, shared, crashed, hist>>
  PROVE  /\ Flags' /\ Counts' /\ Stages' /\ Queued' /\ Made' /\ UseNeedsSession' /\ OneAtATime'
         /\ FirstSession' /\ NullUseExplained' /\ LoginSent' /\ Windows' /\ AboutToLearn'
  BY Stays DEF window, shared, hist, counts

\* A session whose connection is open is nobody's who disconnects.
LEMMA OpenHonest ==
  ASSUME IInv, NEW s \in Ids, link[s] = "open"
  PROVE  /\ s \in sessions \cup erased /\ ~(s > id_increment)
         /\ inbox[s] \in Seq(Texts) /\ requests[s] \in Nat
         /\ \A i \in 1..Len(inbox[s]) : inbox[s][i] # "eof"
         /\ \A u \in Threads : io[u].pc \in Ending => io[u].sess # s
         /\ Clean => (BeingMade \/ Connected) /\ s = cur_id
<1>1. SessionHonest(s) /\ \A u \in Threads : JobHonest(io[u])
  BY DEF IInv, Honest
<1>2. ~Over(s)
  BY DEF Over
<1>3. Clean => (BeingMade \/ Connected) /\ s = cur_id
  BY <1>2 DEF IInv, Phases, Nobody, BeingMade, Connected, GoingDown, OthersOver
<1>4. /\ s \in sessions \cup erased /\ ~(s > id_increment)
      /\ \A i \in 1..Len(inbox[s]) : inbox[s][i] # "eof"
  BY <1>1 DEF SessionHonest
<1>5. \A u \in Threads : io[u].pc \in Ending => io[u].sess # s
  BY <1>1 DEF JobHonest
<1> QED
  BY <1>3, <1>4, <1>5 DEF IInv, Types, Tables

LEMMA Answered ==
  ASSUME IInv, NEW s \in Ids, Answer(s)
  PROVE  IInv'
<1>1. /\ UNCHANGED <<window, sending, signals, counts, io, shared, link, crashed, hist>>
      /\ link[s] = "open" /\ requests[s] > 0
      /\ requests' = [requests EXCEPT ![s] = @ - 1]
  BY DEF Answer
<1>2. PICK reply \in Answers : inbox' = [inbox EXCEPT ![s] = @ \o reply]
  BY DEF Answer
<1>3. Tables /\ Honest /\ Told /\ Phases
  BY DEF IInv, Types
<1>4. /\ Flags' /\ Counts' /\ Stages' /\ Queued' /\ Made' /\ UseNeedsSession' /\ OneAtATime'
      /\ FirstSession' /\ NullUseExplained' /\ LoginSent' /\ Windows' /\ AboutToLearn'
  BY <1>1, NetworkStep
<1>5. /\ s \in sessions \cup erased /\ ~(s > id_increment)
      /\ inbox[s] \in Seq(Texts) /\ requests[s] \in Nat
      /\ \A i \in 1..Len(inbox[s]) : inbox[s][i] # "eof"
      /\ \A u \in Threads : io[u].pc \in Ending => io[u].sess # s
      /\ Clean => (BeingMade \/ Connected) /\ s = cur_id
  BY <1>1, OpenHonest
<1>6. reply \in Seq(Texts) /\ \A i \in 1..Len(reply) : reply[i] # "eof"
  <2>1. "rooms" \in Texts /\ "login_ok" \in Texts /\ "login_bad" \in Texts
    BY Firsts
  <2>2. CASE reply = <<"rooms", "login_ok">>
    <3>1. <<"rooms", "login_ok">> \in Seq(Texts)
      BY <2>1
    <3> QED
      BY <2>2, <3>1
  <2>3. CASE reply = <<"login_bad">>
    <3>1. <<"login_bad">> \in Seq(Texts)
      BY <2>1
    <3> QED
      BY <2>3, <3>1
  <2> QED
    BY <2>2, <2>3 DEF Answers
<1>7. /\ inbox[s] \o reply \in Seq(Texts)
      /\ \A i \in 1..Len(inbox[s] \o reply) : (inbox[s] \o reply)[i] # "eof"
  <2>1. /\ inbox[s] \o reply \in Seq(Texts)
        /\ Len(inbox[s] \o reply) = Len(inbox[s]) + Len(reply)
        /\ \A i \in 1..Len(inbox[s]) + Len(reply) :
             (inbox[s] \o reply)[i] =
               IF i <= Len(inbox[s]) THEN inbox[s][i] ELSE reply[i - Len(inbox[s])]
    BY <1>5, <1>6, ConcatProperties
  <2>2. Len(inbox[s]) \in Nat /\ Len(reply) \in Nat
    BY <1>5, <1>6, LenProperties
  <2>3. ASSUME NEW i \in 1..Len(inbox[s] \o reply) PROVE (inbox[s] \o reply)[i] # "eof"
    <3>1. CASE i <= Len(inbox[s])
      BY <1>5, <2>1, <2>2, <3>1
    <3>2. CASE ~(i <= Len(inbox[s]))
      <4>1. i - Len(inbox[s]) \in 1..Len(reply)
        BY <2>1, <2>2, <3>2
      <4> QED
        BY <1>6, <2>1, <2>2, <3>2, <4>1
    <3> QED
      BY <3>1, <3>2
  <2> QED
    BY <2>1, <2>3
<1>8. /\ inbox' \in [Ids -> Seq(Texts)]
      /\ \A i \in 1..Len(inbox'[s]) : inbox'[s][i] # "eof"
      /\ \A r \in Ids : r # s => inbox'[r] = inbox[r] /\ requests'[r] = requests[r]
      /\ requests' \in [Ids -> Nat]
  BY <1>1, <1>2, <1>3, <1>5, <1>7 DEF Tables
<1>9. Tables'
  BY <1>1, <1>3, <1>8 DEF Tables
<1>10. Honest'
  <2>1. SessionHonest(s)'
    BY <1>1, <1>5, <1>8 DEF SessionHonest, shared, hist
  <2>2. ASSUME NEW r \in Ids, r # s PROVE SessionHonest(r)'
    BY <1>1, <1>3, <1>8, <2>2 DEF Honest, SessionHonest, shared, hist
  <2>3. ASSUME NEW u \in Threads PROVE JobHonest(io[u])'
    BY <1>1, <1>3, <1>5, <1>8 DEF Honest, JobHonest, shared
  <2>4. Alone'
    BY <1>1, <1>3 DEF Honest, Alone
  <2> QED
    BY <2>1, <2>2, <2>3, <2>4 DEF Honest
<1>11. Told'
  BY <1>1, <1>3, <1>8 DEF Told, TellsEnd, Names, hist
<1>12. Phases'
  <2>1. SUFFICES ASSUME Clean' PROVE Connected'
    BY DEF Phases
  <2>2. Clean /\ s = cur_id
    BY <1>1, <1>5, <2>1 DEF Clean, hist
  <2>3. Connected
    BY <1>1, <1>5, <2>2 DEF BeingMade
  <2> QED
    BY <1>1, <1>8, <2>2, <2>3 DEF Connected, OthersOver, Over, SomeAt, shared, counts
<1> QED
  BY <1>4, <1>9, <1>10, <1>11, <1>12 DEF IInv, Types

LEMMA PeerClosed ==
  ASSUME IInv, NEW s \in Ids, PeerCloses(s)
  PROVE  IInv'
<1>1. /\ UNCHANGED <<window, sending, signals, counts, io, shared, requests, crashed, hist>>
      /\ link[s] = "open"
      /\ link' = [link EXCEPT ![s] = "closed"]
      /\ inbox' = [inbox EXCEPT ![s] = Append(@, "eof")]
  BY DEF PeerCloses
<1>2. Tables /\ Honest /\ Told /\ Phases
  BY DEF IInv, Types
<1>3. /\ Flags' /\ Counts' /\ Stages' /\ Queued' /\ Made' /\ UseNeedsSession' /\ OneAtATime'
      /\ FirstSession' /\ NullUseExplained' /\ LoginSent' /\ Windows' /\ AboutToLearn'
  BY <1>1, NetworkStep
<1>4. /\ s \in sessions \cup erased /\ ~(s > id_increment)
      /\ inbox[s] \in Seq(Texts) /\ requests[s] \in Nat
      /\ \A i \in 1..Len(inbox[s]) : inbox[s][i] # "eof"
      /\ \A u \in Threads : io[u].pc \in Ending => io[u].sess # s
      /\ Clean => (BeingMade \/ Connected) /\ s = cur_id
  BY <1>1, OpenHonest
<1>5. PICK q : q = Append(inbox[s], "eof")
  OBVIOUS
<1>6. /\ q \in Seq(Texts) /\ Len(q) = Len(inbox[s]) + 1 /\ Len(inbox[s]) \in Nat
      /\ \A i \in 1..Len(q) : q[i] = "eof" => i = Len(q)
      /\ q[Len(q)] = "eof" /\ q # <<>>
      /\ inbox[s] = <<>> => q = <<"eof">>
  <2>1. "eof" \in Texts
    BY Firsts
  <2>2. /\ q \in Seq(Texts)
        /\ Len(q) = Len(inbox[s]) + 1 /\ Len(inbox[s]) \in Nat
        /\ \A i \in 1..Len(inbox[s]) : q[i] = inbox[s][i]
        /\ q[Len(inbox[s]) + 1] = "eof"
        /\ \A i \in 1..Len(q) : i \in 1..Len(inbox[s]) \/ i = Len(inbox[s]) + 1
    BY <1>4, <1>5, <2>1, Appended
  <2>3. q # <<>>
    BY <2>2, EmptySeq
  <2>4. inbox[s] = <<>> => q = <<"eof">>
    BY <1>5, <2>1, One
  <2> QED
    BY <1>4, <2>2, <2>3, <2>4
<1>7. /\ inbox' \in [Ids -> Seq(Texts)] /\ inbox'[s] = q
      /\ link' \in [Ids -> {"none", "open", "closed", "broken"}] /\ link'[s] = "closed"
      /\ \A r \in Ids : r # s => inbox'[r] = inbox[r] /\ link'[r] = link[r]
  BY <1>1, <1>2, <1>5, <1>6 DEF Tables
<1>8. Tables'
  BY <1>1, <1>2, <1>7 DEF Tables
<1>9. Honest'
  <2>1. SessionHonest(s)'
    BY <1>1, <1>4, <1>6, <1>7 DEF SessionHonest, shared, hist
  <2>2. ASSUME NEW r \in Ids, r # s PROVE SessionHonest(r)'
    BY <1>1, <1>2, <1>7, <2>2 DEF Honest, SessionHonest, shared, hist
  <2>3. ASSUME NEW u \in Threads PROVE JobHonest(io[u])'
    <3>1. JobHonest(io[u])
      BY <1>2 DEF Honest
    <3>2. io[u].pc \in Starting \cup Ending => io[u].sess \in Ids
      BY <3>1 DEF JobHonest
    <3>3. io[u].pc = "emplace" => link[io[u].sess] = link'[io[u].sess]
      BY <1>1, <1>7, <3>1, <3>2 DEF JobHonest, Starting
    <3>4. io[u].pc = "set_connected" => link'[io[u].sess] # "none"
      BY <1>1, <1>7, <3>1, <3>2 DEF JobHonest, Starting
    <3> QED
      BY <1>1, <1>4, <1>7, <3>1, <3>2, <3>3, <3>4 DEF JobHonest, shared
  <2>4. Alone'
    BY <1>1, <1>2 DEF Honest, Alone
  <2> QED
    BY <2>1, <2>2, <2>3, <2>4 DEF Honest
<1>10. Told'
  <2>1. TellsEnd(s)'
    BY <1>6, <1>7 DEF TellsEnd
  <2>2. ASSUME NEW r \in Ids, r # s, link'[r] = "closed" PROVE TellsEnd(r)'
    BY <1>1, <1>2, <1>7, <2>2 DEF Told, TellsEnd, Names, hist
  <2> QED
    BY <2>1, <2>2 DEF Told
<1>11. Phases'
  <2>1. SUFFICES ASSUME Clean' PROVE BeingMade' \/ Connected'
    BY DEF Phases
  <2>2. Clean /\ s = cur_id /\ (BeingMade \/ Connected)
    BY <1>1, <1>4, <2>1 DEF Clean, hist
  <2>3. OthersOver => OthersOver'
    BY <1>1, <1>7, <2>2 DEF OthersOver, Over, shared
  <2>4. BeingMade => BeingMade'
    <3>1. ASSUME BeingMade PROVE inbox[s] = <<>>
      <4>1. inbox[s] \in {<<>>, <<"eof">>}
        BY <2>2, <3>1 DEF BeingMade
      <4>2. inbox[s] # <<"eof">>
        <5>1. Len(<<"eof">>) = 1 /\ <<"eof">>[1] = "eof" /\ 1 \in 1..1
          OBVIOUS
        <5> QED
          BY <1>4, <5>1
      <4> QED
        BY <4>1, <4>2
    <3> QED
      BY <1>1, <1>6, <1>7, <2>2, <2>3, <3>1 DEF BeingMade, SomeAt, shared, counts
  <2>5. Connected => Connected'
    BY <1>1, <2>3 DEF Connected, SomeAt, shared, counts
  <2> QED
    BY <2>2, <2>4, <2>5
<1> QED
  BY <1>3, <1>8, <1>9, <1>10, <1>11 DEF IInv, Types

LEMMA LinkBroken ==
  ASSUME IInv, NEW s \in Ids, LinkBreaks(s)
  PROVE  IInv'
<1>1. /\ UNCHANGED <<window, sending, signals, counts, io, shared, requests, inbox, crashed, hist>>
      /\ link[s] = "open"
      /\ link' = [link EXCEPT ![s] = "broken"]
  BY DEF LinkBreaks
<1>2. Tables /\ Honest /\ Told /\ Phases
  BY DEF IInv, Types
<1>3. /\ Flags' /\ Counts' /\ Stages' /\ Queued' /\ Made' /\ UseNeedsSession' /\ OneAtATime'
      /\ FirstSession' /\ NullUseExplained' /\ LoginSent' /\ Windows' /\ AboutToLearn'
  BY <1>1, NetworkStep
<1>4. /\ s \in sessions \cup erased /\ ~(s > id_increment)
      /\ \A i \in 1..Len(inbox[s]) : inbox[s][i] # "eof"
      /\ \A u \in Threads : io[u].pc \in Ending => io[u].sess # s
      /\ Clean => (BeingMade \/ Connected) /\ s = cur_id
  BY <1>1, OpenHonest
<1>5. /\ link' \in [Ids -> {"none", "open", "closed", "broken"}] /\ link'[s] = "broken"
      /\ \A r \in Ids : r # s => link'[r] = link[r]
  BY <1>1, <1>2 DEF Tables
<1>6. Tables'
  BY <1>1, <1>2, <1>5 DEF Tables
<1>7. Honest'
  <2>1. SessionHonest(s)'
    BY <1>1, <1>4, <1>5 DEF SessionHonest, shared, hist
  <2>2. ASSUME NEW r \in Ids, r # s PROVE SessionHonest(r)'
    BY <1>1, <1>2, <1>5, <2>2 DEF Honest, SessionHonest, shared, hist
  <2>3. ASSUME NEW u \in Threads PROVE JobHonest(io[u])'
    <3>1. JobHonest(io[u])
      BY <1>2 DEF Honest
    <3>2. io[u].pc \in Starting \cup Ending => io[u].sess \in Ids
      BY <3>1 DEF JobHonest
    <3>3. io[u].pc = "emplace" => link[io[u].sess] = link'[io[u].sess]
      BY <1>1, <1>5, <3>1, <3>2 DEF JobHonest, Starting
    <3>4. io[u].pc = "set_connected" => link'[io[u].sess] # "none"
      BY <1>1, <1>5, <3>1, <3>2 DEF JobHonest, Starting
    <3> QED
      BY <1>1, <1>4, <1>5, <3>1, <3>2, <3>3, <3>4 DEF JobHonest, shared
  <2>4. Alone'
    BY <1>1, <1>2 DEF Honest, Alone
  <2> QED
    BY <2>1, <2>2, <2>3, <2>4 DEF Honest
<1>8. Told'
  <2>1. \A r \in Ids : link'[r] = "closed" => link[r] = "closed"
    BY <1>5
  <2> QED
    BY <1>1, <1>2, <2>1 DEF Told, TellsEnd, Names, hist
<1>9. Phases'
  <2>1. SUFFICES ASSUME Clean' PROVE BeingMade' \/ Connected'
    BY DEF Phases
  <2>2. Clean /\ s = cur_id /\ (BeingMade \/ Connected)
    BY <1>1, <1>4, <2>1 DEF Clean, hist
  <2>3. OthersOver => OthersOver'
    BY <1>1, <1>5, <2>2 DEF OthersOver, Over, shared
  <2>4. (BeingMade => BeingMade') /\ (Connected => Connected')
    BY <1>1, <2>3 DEF BeingMade, Connected, SomeAt, shared, counts
  <2> QED
    BY <2>2, <2>4
<1> QED
  BY <1>3, <1>6, <1>7, <1>8, <1>9 DEF IInv, Types

-----------------------------------------------------------------------------
(* The theorems *)

LEMMA Begins == Init => IInv
<1> SUFFICES ASSUME Init PROVE IInv
  OBVIOUS
<1>1. \A t \in Threads : io[t] = Idle /\ io[t].pc = "idle" /\ Idle \in Job
  BY DEF Init, Idle, Job, PCs
<1>2. \A P : "idle" \notin P => ~SomeAt(P)
  BY <1>1 DEF SomeAt
<1>3. signals = <<>> /\ ui = <<>> /\ Len(signals) = 0 /\ Len(ui) = 0 /\ ui # <<"login_ok">>
  BY DEF Init
<1>4. ui \in Seq(Boxes) /\ signals \in Seq(Signal) /\ <<>> \in Seq(Texts)
  BY <1>3, EmptySeq
<1>5. Types
  <2>1. Flags /\ Stages /\ Made
    BY DEF Init, Flags, Stages, Made
  <2>2. Counts
    BY ClientAssumption DEF Init, Counts, NoId
  <2>3. Queued
    BY <1>4 DEF Queued
  <2>4. Tables
    BY <1>1, <1>4 DEF Init, Tables, Idle, Job, PCs
  <2> QED
    BY <2>1, <2>2, <2>3, <2>4 DEF Types
<1>6. Honest
  <2>1. ASSUME NEW s \in Ids PROVE SessionHonest(s)
    <3>1. link[s] = "none" /\ requests[s] = 0 /\ inbox[s] = <<>> /\ sessions \cup erased = {}
      BY DEF Init
    <3> QED
      BY <3>1 DEF SessionHonest
  <2>2. \A t \in Threads : JobHonest(io[t])
    BY <1>1 DEF JobHonest, Starting, Ending
  <2>3. Alone
    BY <1>1 DEF Alone, Starting, Ending
  <2> QED
    BY <2>1, <2>2, <2>3 DEF Honest
<1>7. Told
  BY DEF Init, Told
<1>8. UseNeedsSession /\ OneAtATime /\ FirstSession /\ NullUseExplained
  BY <1>2, <1>3 DEF Init, UseNeedsSession, OneAtATime, FirstSession, NullUseExplained, Boxed, Says,
                    Starting
<1>9. Phases
  <2>1. \A s \in Ids : Over(s)
    BY <1>1 DEF Init, Over
  <2>2. Nobody
    BY <1>2, <2>1 DEF Init, Nobody
  <2> QED
    BY <2>2 DEF Phases
<1>10. LoginSent /\ Windows
  <2>1. Len(ui) <= 1
    BY <1>3
  <2> QED
    BY <1>3, <2>1 DEF Init, LoginSent, Windows
<1>11. AboutToLearn
  <2>1. ~SomeAt({"login_success"}) /\ ~is_logined /\ ~main_visible
    BY <1>2 DEF Init
  <2> QED
    BY <2>1 DEF AboutToLearn
<1> QED
  BY <1>5, <1>6, <1>7, <1>8, <1>9, <1>10, <1>11 DEF IInv

LEMMA Continues == IInv /\ [Next]_vars => IInv'
<1> SUFFICES ASSUME IInv, [Next]_vars PROVE IInv'
  OBVIOUS
<1>1. CASE Slot
  BY <1>1, SignalHandled, Sent DEF Slot
<1>2. CASE User
  BY <1>2, ConnectPressed, LoginPressed, HistoryAsked, LogOutPressed, Dismissed DEF User
<1>3. ASSUME NEW t \in Threads, IoThread(t) PROVE IInv'
  BY <1>3, ConnectRefused, IdTaken, SessionMade, ConnectedSet, ConnectTold, DataHandled, LoginAccepted,
     LoginTold, ListsTold, DisconnectedSet, SessionErased, EndIsTold DEF IoThread
<1>4. ASSUME NEW s \in Ids, Network(s) PROVE IInv'
  BY <1>4, Answered, PeerClosed, LinkBroken DEF Network
<1>5. CASE UNCHANGED vars
  <2>1. UNCHANGED <<window, sending, signals, counts, io, shared, net, crashed, hist>>
    BY <1>5 DEF vars
  <2>2. /\ Flags' /\ Counts' /\ Stages' /\ Queued' /\ Made' /\ UseNeedsSession' /\ OneAtATime'
        /\ FirstSession' /\ NullUseExplained' /\ LoginSent' /\ Windows' /\ AboutToLearn'
    BY <2>1, NetworkStep
  <2>3. Tables' /\ Honest' /\ Told' /\ Phases'
    BY <2>1, Stays DEF window, shared, net, hist, counts
  <2> QED
    BY <2>2, <2>3 DEF IInv, Types
<1> QED
  BY <1>1, <1>2, <1>3, <1>4, <1>5 DEF Next

\* The inductive invariant: what the client believes, holds and shows at every
\* step of every thread.
THEOREM Invariant == Spec => []IInv
  BY Begins, Continues, PTL DEF Spec

\* A null session is used only after an end or an overlap, and at rest a client
\* that is connected has the session of cur_id and no other (client.cpp:33 to 43,
\* 204, 310 to 315).
THEOREM ConnectionsStayExplained == Spec => []ConnectionsExplained
<1>1. ASSUME IInv PROVE ConnectionsExplained
  <2>1. TypeOK
    BY <1>1, Typed DEF IInv
  <2>2. ConnectedHasSession
    <3>1. SUFFICES ASSUME Rest, ~overlapped, ~overtaken
                   PROVE  sessions = IF is_connected THEN {cur_id} ELSE {}
      BY DEF ConnectedHasSession
    <3>2. \A t \in Threads : io[t].pc = "idle"
      BY <3>1 DEF Rest, At
    <3>3. ~BeingMade /\ ~GoingDown
      BY <3>2 DEF BeingMade, GoingDown, SomeAt
    <3>4. Nobody \/ Connected
      BY <1>1, <3>1, <3>3 DEF IInv, Phases, Clean
    <3> QED
      BY <3>4 DEF Nobody, Connected
  <2> QED
    BY <1>1, <2>1, <2>2 DEF ConnectionsExplained, IInv
<1> QED
  BY <1>1, Invariant, PTL

\* At rest the main window is shown only to a user who is logged in over a
\* connection, or a box was opened over another, or the end was shown before the
\* answer to the login (LoginWidget.cpp:95).
THEOREM MainWindowStaysHonest == Spec => []MainWindowHonest
<1>1. ASSUME IInv PROVE MainWindowHonest
  <2>1. SUFFICES ASSUME Rest, main_visible, ~nested, ~outrun
                 PROVE  is_logined /\ (is_connected \/ overlapped \/ overtaken)
    BY DEF MainWindowHonest
  <2>2. is_logined
    BY <1>1, <2>1 DEF IInv, Windows
  <2>3. ~Coming
    <3>1. ~SomeAt({"erase", "emit_disconnect"})
      BY <2>1 DEF Rest, At, SomeAt
    <3>2. ~Says("can_check_connect")
      BY <2>1 DEF Rest, Says
    <3> QED
      BY <3>1, <3>2 DEF Coming
  <2>4. ~Showing
    BY <2>1 DEF Rest, NoBox, InEventLoop, Showing
  <2> QED
    BY <1>1, <2>1, <2>2, <2>3, <2>4 DEF IInv, AboutToLearn, Clean
<1> QED
  BY <1>1, Invariant, PTL

\* At rest the window has been told of every connection that the server closed.
THEOREM EndStaysTold == Spec => []EndTold
<1>1. ASSUME IInv PROVE EndTold
  <2>1. SUFFICES ASSUME Rest, \A s \in Ids : inbox[s] = <<>>, NEW s \in Ids, link[s] = "closed"
                 PROVE  s \in told
    BY DEF EndTold
  <2>2. TellsEnd(s)
    BY <1>1, <2>1 DEF IInv, Told
  <2>3. ~Names(s)
    BY <2>1 DEF Rest, Names
  <2>4. \A t \in Threads : io[t].pc \notin Ending
    BY <2>1 DEF Rest, At, Ending
  <2> QED
    BY <2>1, <2>2, <2>3, <2>4 DEF TellsEnd
<1> QED
  BY <1>1, Invariant, PTL
=============================================================================
