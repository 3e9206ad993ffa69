------------------------- MODULE RawSockets_proofs --------------------------
(***************************************************************************)
(* What holds of RawServer for every number of workers, connections, users *)
(* and messages, and however few descriptors the process has; and, from    *)
(* "The client" on, of RawClient for every size of buffer and header.      *)
(***************************************************************************)
EXTENDS RawSockets, SequenceTheorems, FiniteSetTheorems, TLAPS

-----------------------------------------------------------------------------
(* The inductive invariant *)

Part   == [k : {"desc", "header", "body"}, h : Headers]
Frame  == [state : {"desc", "header", "body", "never"}, hdr : Headers \cup {NoHeader}]
Places == {"idle", "accept", "add", "recv", "parse", "send", "del", "erase", "sent",
           "rearm", "lock"}
Job    == [at : Places, fd : Keys, to : Keys, n : Nat, meant : Conns \cup {None}]

\* A descriptor that is being registered, read or answered.
Busy(w) == pc[w].at \notin {"idle", "accept", "lock"}

\* The types, in parts that a step changes together.
Queues  == /\ backlog \in Seq(Conns) /\ tasks \in Seq(Keys)
           /\ left \in [Conns -> Seq(Part)] /\ inbox \in [Conns -> Seq(Part)]
Framing == buf \in [Fds -> Seq(Part)] /\ data \in [Fds -> Frame]
Names   == /\ name_fd \in [Users -> Keys] /\ online \subseteq Users
           /\ owner \in [Users -> Conns \cup {None}]
Table   == /\ limit \in Limits /\ failures \in Nat
           /\ clients \subseteq Keys /\ armed \subseteq Fds
           /\ conn \in [Fds -> Conns \cup {None}]
Types   == Queues /\ Framing /\ Names /\ Table /\ pc \in [Workers -> Job]

\* The table of clients has the descriptors that are open.
OpenKnown == \A f \in Fds : f \in clients <=> conn[f] # None

\* What a worker has in hand.
JobHonest(j) ==
  /\ j.at = "accept" => j.fd = Failed
  /\ j.at \notin {"idle", "accept", "lock"} => j.fd \in Fds
  /\ j.at \in {"del", "erase"} => j.to \in Fds
  /\ j.at = "send" => j.n # 0
JobsHonest == \A w \in Workers : JobHonest(pc[w])

\* A descriptor whose event is under way is in one place, and open.
Waiting(f) == \E i \in DOMAIN tasks : tasks[i] = f
OnePlace ==
  ~pulled =>
    /\ \A f \in armed : ~Waiting(f) /\ \A w \in Workers : Busy(w) => pc[w].fd # f
    /\ \A i \in DOMAIN tasks : tasks[i] # Failed =>
         /\ \A j \in DOMAIN tasks : tasks[j] = tasks[i] => j = i
         /\ \A w \in Workers : Busy(w) => pc[w].fd # tasks[i]
    /\ \A v, w \in Workers : Busy(v) /\ Busy(w) /\ pc[v].fd = pc[w].fd => v = w
UnderWayOpen ==
  ~pulled =>
    /\ armed \subseteq clients
    /\ \A i \in DOMAIN tasks : tasks[i] # Failed => tasks[i] \in clients
    /\ \A w \in Workers : Busy(w) => pc[w].fd \in clients

\* The number f is that of the connection c, or c is none, or was closed.
Reaches(f, c) == c = None \/ c \in dropped \/ (f \in Fds /\ conn[f] = c)
Meant == \A w \in Workers :
           pc[w].at \in {"send", "del", "erase", "sent"} /\ pc[w].n # 0
             => Reaches(pc[w].to, pc[w].meant)
Owned == \A u \in online : name_fd[u] \in Fds /\ Reaches(name_fd[u], owner[u])

\* The key of the failed accepts.
FailuresCounted == /\ Failed \in clients <=> failures # 0
                   /\ stuck <=> failures > 1

IInv == /\ Types /\ OpenKnown /\ JobsHonest /\ OnePlace /\ UnderWayOpen
        /\ NobodyForgotten /\ Meant /\ Owned /\ AddressKept
        /\ FailuresCounted /\ (crashed => pulled)

-----------------------------------------------------------------------------
(* Descriptors, messages and places *)

LEMMA Numbers ==
  /\ Fds \subseteq Nat \ {0} /\ Fds \subseteq Keys /\ Failed \in Keys /\ Failed \notin Fds
  /\ \A n \in Limits : 1..n \subseteq Fds
  /\ Packets \in Nat \ {0}
  /\ None \notin Conns /\ None \notin Users
  BY RawServerAssumption DEF Fds, Keys, Failed

LEMMA PartsTyped ==
  ASSUME NEW h \in Headers
  PROVE  Parts(h) # <<>> /\ Head(Parts(h)) \in Part /\ Tail(Parts(h)) \in Seq(Part)
<1> DEFINE P(k) == [k |-> k, h |-> h]
<1>1. P("desc") \in Part /\ P("header") \in Part /\ P("body") \in Part
  BY DEF Part
<1> HIDE DEF P
<1>2. <<P("desc"), P("header"), P("body")>> \in Seq(Part) /\ <<P("desc"), P("header")>> \in Seq(Part)
  BY <1>1
<1>3. Parts(h) \in Seq(Part) /\ Parts(h) # <<>>
  BY <1>2 DEF Parts, P
<1> QED
  BY <1>3, HeadTailProperties

\* Where the events are after one is submitted or taken.
LEMMA Submitted ==
  ASSUME Types, NEW f \in Keys, tasks' = Append(tasks, f)
  PROVE  /\ tasks' \in Seq(Keys)
         /\ DOMAIN tasks = 1..Len(tasks) /\ DOMAIN tasks' = 1..(Len(tasks) + 1)
         /\ Len(tasks) \in Nat
         /\ \A i \in DOMAIN tasks : tasks'[i] = tasks[i]
         /\ tasks'[Len(tasks) + 1] = f
<1>1. tasks \in Seq(Keys)
  BY DEF Types, Queues
<1> QED
  BY <1>1, AppendProperties

LEMMA Taking ==
  ASSUME Types, tasks # <<>>, tasks' = Tail(tasks)
  PROVE  /\ tasks' \in Seq(Keys) /\ Head(tasks) \in Keys
         /\ 1 \in DOMAIN tasks /\ tasks[1] = Head(tasks)
         /\ \A i \in DOMAIN tasks' : i + 1 \in DOMAIN tasks /\ tasks'[i] = tasks[i + 1]
         /\ \A i \in DOMAIN tasks : i = 1 \/ (i - 1 \in DOMAIN tasks' /\ tasks'[i - 1] = tasks[i])
         /\ DOMAIN tasks \subseteq Nat /\ DOMAIN tasks' \subseteq Nat
<1>1. tasks \in Seq(Keys)
  BY DEF Types, Queues
<1>2. /\ Head(tasks) \in Keys /\ tasks' \in Seq(Keys) /\ Len(tasks') = Len(tasks) - 1
      /\ \A i \in 1..Len(tasks') : tasks'[i] = tasks[i + 1]
  BY <1>1, HeadTailProperties
<1>3. Len(tasks) \in Nat \ {0} /\ DOMAIN tasks = 1..Len(tasks) /\ DOMAIN tasks' = 1..Len(tasks')
  BY <1>1, <1>2, EmptySeq
<1>4. ASSUME NEW i \in DOMAIN tasks, i # 1
      PROVE  i - 1 \in DOMAIN tasks' /\ tasks'[i - 1] = tasks[i]
  <2>1. i - 1 \in 1..Len(tasks') /\ (i - 1) + 1 = i
    BY <1>2, <1>3, <1>4
  <2>2. tasks'[i - 1] = tasks[(i - 1) + 1]
    BY <1>2, <2>1
  <2> QED
    BY <1>3, <2>1, <2>2
<1> QED
  BY <1>1, <1>2, <1>3, <1>4

\* Worker w changes what it has in hand, nobody else does.
Alone(w) == /\ pc' \in [Workers -> Job]
            /\ \A v \in Workers \ {w} : pc'[v] = pc[v]
Goes(w, at) == /\ Alone(w) /\ pc'[w].at = at
               /\ pc'[w].fd = pc[w].fd /\ pc'[w].to = pc[w].to
               /\ pc'[w].n = pc[w].n /\ pc'[w].meant = pc[w].meant
Stops(w) == Alone(w) /\ pc'[w] = Idle

LEMMA Moved ==
  ASSUME Types, NEW w \in Workers
  PROVE  /\ \A at \in Places : Step(w, at) => Goes(w, at)
         /\ Return(w) => Stops(w)
         /\ pc[w] \in Job
<1>1. pc \in [Workers -> Job] /\ pc[w] \in Job
  BY DEF Types
<1>2. ASSUME NEW at \in Places, Step(w, at) PROVE Goes(w, at)
  <2>1. pc' = [pc EXCEPT ![w] = [@ EXCEPT !.at = at]]
    BY <1>2 DEF Step
  <2>2. [pc[w] EXCEPT !.at = at] \in Job
    BY <1>1 DEF Job
  <2> QED
    BY <1>1, <2>1, <2>2 DEF Goes, Alone, Job
<1>3. ASSUME Return(w) PROVE Stops(w)
  <2>1. Idle \in Job
    BY Numbers DEF Idle, Job, Places
  <2> QED
    BY <1>1, <1>3, <2>1 DEF Stops, Alone, Return
<1> QED
  BY <1>1, <1>2, <1>3

LEMMA IdleIs == Idle.at = "idle" /\ Idle.fd = Failed /\ Idle.n = 0
  BY DEF Idle

LEMMA HonestTyped ==
  ASSUME Types, JobsHonest, NEW w \in Workers
  PROVE  /\ pc[w] \in Job /\ pc[w].n \in Nat
         /\ pc[w].at = "accept" => pc[w].fd = Failed
         /\ Busy(w) => pc[w].fd \in Fds
         /\ pc[w].at \in {"del", "erase"} => pc[w].to \in Fds
         /\ pc[w].at = "send" => pc[w].n # 0
  BY DEF Types, JobsHonest, JobHonest, Busy, Job
-----------------------------------------------------------------------------
(* What the steps have in common *)

core  == <<tasks, conn, clients, pulled, dropped, failures, stuck>>
names == <<name_fd, online, owner>>

\* All that is said of the workers and of the table.
Inner == /\ OpenKnown /\ JobsHonest /\ OnePlace /\ UnderWayOpen /\ NobodyForgotten
         /\ Meant /\ FailuresCounted

LEMMA SameTable == ASSUME UNCHANGED core PROVE (OpenKnown => OpenKnown') /\ (FailuresCounted => FailuresCounted')
  BY DEF core, OpenKnown, FailuresCounted

LEMMA SameOwners ==
  ASSUME Owned, UNCHANGED names, UNCHANGED <<conn, dropped>>
  PROVE  Owned'
  BY DEF names, Owned, Reaches

LEMMA SameStrays ==
  ASSUME AddressKept, UNCHANGED strays, dropped \subseteq dropped'
  PROVE  AddressKept'
  BY DEF AddressKept

\* Nobody new has anything in hand.
LEMMA PlacesKept ==
  ASSUME OnePlace, UnderWayOpen, UNCHANGED <<tasks, clients, pulled>>, armed' \subseteq armed,
         \A v \in Workers : Busy(v)' => Busy(v) /\ pc'[v].fd = pc[v].fd
  PROVE  OnePlace' /\ UnderWayOpen'
<1>1. OnePlace'
  <2> SUFFICES ASSUME ~pulled PROVE OnePlace'
    BY DEF OnePlace
  <2> QED
    BY DEF OnePlace, Waiting
<1>2. UnderWayOpen'
  BY DEF UnderWayOpen
<1> QED
  BY <1>1, <1>2

\* Worker w goes on with what it has in hand.
LEMMA Advance ==
  ASSUME Inner, NEW w \in Workers, UNCHANGED core, threw \subseteq threw',
         Alone(w), Busy(w), Busy(w)', pc[w].at # "erase",
         pc'[w].fd = pc[w].fd, JobHonest(pc'[w]),
         armed' \subseteq armed,
         \A f \in armed \ armed' : pc'[w].at = "erase" /\ pc'[w].to = f,
         pc'[w].at \in {"send", "del", "erase", "sent"} /\ pc'[w].n # 0
            => Reaches(pc'[w].to, pc'[w].meant)
  PROVE  Inner'
<1>1. \A v \in Workers : v = w \/ pc'[v] = pc[v]
  BY DEF Alone
<1>2. OpenKnown' /\ FailuresCounted'
  BY SameTable DEF Inner
<1>3. JobsHonest'
  BY <1>1 DEF Inner, JobsHonest
<1>4. OnePlace' /\ UnderWayOpen'
  <2>1. \A v \in Workers : Busy(v)' => Busy(v) /\ pc'[v].fd = pc[v].fd
    BY <1>1 DEF Busy
  <2> QED
    BY <2>1, PlacesKept DEF Inner, core
<1>5. NobodyForgotten'
  <2> SUFFICES ASSUME NEW f \in Fds \cap clients'
               PROVE  \/ f \in armed'
                      \/ \E i \in DOMAIN tasks' : tasks'[i] = f
                      \/ \E v \in Workers : pc'[v].fd = f /\ pc'[v].at # "idle"
                      \/ conn'[f] \in threw'
                      \/ Closing(f)'
    BY DEF NobodyForgotten
  <2>1. /\ f \in clients /\ tasks' = tasks /\ conn' = conn
    BY DEF core
  <2>2. CASE f \in armed
    BY <2>2 DEF Closing
  <2>3. CASE \E v \in Workers : pc[v].fd = f /\ pc[v].at # "idle"
    BY <1>1, <2>3 DEF Busy
  <2>4. CASE Closing(f)
    BY <1>1, <2>4 DEF Closing
  <2> QED
    BY <2>1, <2>2, <2>3, <2>4 DEF Inner, NobodyForgotten
<1>6. Meant'
  BY <1>1 DEF Inner, Meant, Reaches, core
<1> QED
  BY <1>2, <1>3, <1>4, <1>5, <1>6 DEF Inner

\* Worker w is done; it may arm the descriptor it had.
LEMMA Finish ==
  ASSUME Inner, NEW w \in Workers, UNCHANGED core, threw \subseteq threw', Stops(w),
         Busy(w), pc[w].at # "erase",
         armed \subseteq armed', armed' \subseteq armed \cup ({pc[w].fd} \cap clients),
         pc[w].fd \in clients => pc[w].fd \in armed' \/ conn[pc[w].fd] \in threw'
  PROVE  Inner'
<1>1. \A v \in Workers : (v = w /\ ~Busy(v)') \/ pc'[v] = pc[v]
  BY IdleIs DEF Stops, Alone, Busy
<1>2. OpenKnown' /\ FailuresCounted'
  BY SameTable DEF Inner
<1>3. JobsHonest'
  <2>1. JobHonest(Idle)
    BY IdleIs DEF JobHonest
  <2> QED
    BY <2>1 DEF Inner, JobsHonest, Stops, Alone
<1>4. \A v \in Workers : Busy(v)' => Busy(v) /\ pc'[v] = pc[v] /\ v # w
  BY <1>1, IdleIs DEF Busy, Stops
<1>5. OnePlace'
  <2> SUFFICES ASSUME ~pulled PROVE OnePlace'
    BY DEF OnePlace, core
  <2>1. tasks' = tasks /\ (\A f : Waiting(f)' <=> Waiting(f))
    BY DEF core, Waiting
  <2>2. ASSUME NEW f \in armed'
        PROVE  ~Waiting(f)' /\ \A v \in Workers : Busy(v)' => pc'[v].fd # f
    <3>1. CASE f \in armed
      BY <1>4, <2>1, <3>1 DEF Inner, OnePlace
    <3>2. CASE f = pc[w].fd /\ f \in clients
      <4>1. f \in Fds /\ f # Failed
        BY <3>2, Numbers DEF Inner, JobsHonest, JobHonest, Busy
      <4>2. ~Waiting(f)
        BY <3>2, <4>1 DEF Inner, OnePlace, Waiting
      <4>3. \A v \in Workers : Busy(v) /\ pc[v].fd = f => v = w
        BY <3>2 DEF Inner, OnePlace
      <4> QED
        BY <1>4, <2>1, <4>2, <4>3
    <3> QED
      BY <3>1, <3>2
  <2>3. \A i \in DOMAIN tasks' : tasks'[i] # Failed =>
          /\ \A j \in DOMAIN tasks' : tasks'[j] = tasks'[i] => j = i
          /\ \A v \in Workers : Busy(v)' => pc'[v].fd # tasks'[i]
    BY <1>4, <2>1 DEF Inner, OnePlace
  <2>4. \A u, v \in Workers : Busy(u)' /\ Busy(v)' /\ pc'[u].fd = pc'[v].fd => u = v
    BY <1>4 DEF Inner, OnePlace
  <2> QED
    BY <2>2, <2>3, <2>4 DEF OnePlace
<1>6. UnderWayOpen'
  BY <1>4 DEF Inner, UnderWayOpen, core
<1>7. NobodyForgotten'
  <2> SUFFICES ASSUME NEW f \in Fds \cap clients'
               PROVE  \/ f \in armed'
                      \/ \E i \in DOMAIN tasks' : tasks'[i] = f
                      \/ \E v \in Workers : pc'[v].fd = f /\ pc'[v].at # "idle"
                      \/ conn'[f] \in threw'
                      \/ Closing(f)'
    BY DEF NobodyForgotten
  <2>1. f \in clients /\ tasks' = tasks /\ conn' = conn
    BY DEF core
  <2>3. CASE \E v \in Workers : pc[v].fd = f /\ pc[v].at # "idle"
    BY <1>1, <2>1, <2>3
  <2>4. CASE Closing(f)
    BY <1>1, <2>4 DEF Closing
  <2> QED
    BY <2>1, <2>3, <2>4 DEF Inner, NobodyForgotten
<1>8. Meant'
  BY <1>1, IdleIs DEF Inner, Meant, Reaches, core, Stops
<1> QED
  BY <1>2, <1>3, <1>5, <1>6, <1>7, <1>8 DEF Inner

\* The workers go on having what they have.
LEMMA Outside ==
  ASSUME Inner, UNCHANGED core, UNCHANGED <<pc, armed, threw>>
  PROVE  Inner'
<1>1. OpenKnown' /\ FailuresCounted'
  BY SameTable DEF Inner
<1>2. OnePlace' /\ UnderWayOpen'
  BY PlacesKept DEF Inner, core, Busy
<1>3. JobsHonest' /\ Meant'
  BY DEF Inner, JobsHonest, Meant, Reaches, core
<1>4. NobodyForgotten'
  BY DEF Inner, NobodyForgotten, Closing, core
<1> QED
  BY <1>1, <1>2, <1>3, <1>4 DEF Inner
-----------------------------------------------------------------------------
(* The clients, the kernel and the thread of run() *)

LEMMA Rest ==
  ASSUME IInv, Inner', Types', UNCHANGED <<names, strays, crashed, pulled>>,
         UNCHANGED <<conn, dropped>>
  PROVE  IInv'
<1>1. Owned' /\ AddressKept'
  BY SameOwners, SameStrays DEF IInv, names
<1> QED
  BY <1>1 DEF IInv, Inner

LEMMA IsInner == IInv => Inner /\ Types /\ Owned /\ AddressKept
  BY DEF IInv, Inner

\* Queues of bytes and of connections change, nothing else.
LEMMA OutsideStep ==
  ASSUME IInv, UNCHANGED <<limit, tasks, table, stream, tables, stuck, pc, crashed, ghosts>>, Queues'
  PROVE  IInv'
<1>1. Inner'
  BY IsInner, Outside DEF core, table, ghosts
<1>2. Types'
  BY DEF IInv, Types, Framing, Names, Table, table, stream, tables, ghosts
<1> QED
  BY <1>1, <1>2, Rest DEF names, table, tables, ghosts

LEMMA ConnectStep == ASSUME IInv, NEW c \in Conns, Connect(c) PROVE IInv'
<1>1. Queues'
  BY AppendProperties DEF Connect, IInv, Types, Queues
<1> QED
  BY <1>1, OutsideStep DEF Connect

LEMMA ClientSendsStep == ASSUME IInv, NEW c \in Conns, ClientSends(c) PROVE IInv'
<1>1. Queues
  BY DEF IInv, Types
<1>2. Queues'
  <2>1. CASE left[c] # <<>>
    <3>1. Head(left[c]) \in Part /\ Tail(left[c]) \in Seq(Part)
      BY <1>1, <2>1, HeadTailProperties DEF Queues
    <3>2. Append(inbox[c], Head(left[c])) \in Seq(Part)
      BY <1>1, <3>1, AppendProperties DEF Queues
    <3> QED
      BY <1>1, <2>1, <3>1, <3>2 DEF ClientSends, Queues
  <2>2. CASE left[c] = <<>>
    <3>1. PICK h \in Headers : /\ inbox' = [inbox EXCEPT ![c] = Append(@, Head(Parts(h)))]
                               /\ left' = [left EXCEPT ![c] = Tail(Parts(h))]
      BY <2>2 DEF ClientSends
    <3>2. Head(Parts(h)) \in Part /\ Tail(Parts(h)) \in Seq(Part)
      BY PartsTyped
    <3>3. Append(inbox[c], Head(Parts(h))) \in Seq(Part)
      BY <1>1, <3>2, AppendProperties DEF Queues
    <3> QED
      BY <1>1, <3>1, <3>2, <3>3 DEF ClientSends, Queues
  <2> QED
    BY <2>1, <2>2
<1> QED
  BY <1>2, OutsideStep DEF ClientSends

LEMMA HangUpStep == ASSUME IInv, NEW c \in Conns, HangUp(c) PROVE IInv'
<1>1. Queues'
  BY EmptySeq DEF HangUp, IInv, Types, Queues
<1> QED
  BY <1>1, OutsideStep DEF HangUp

LEMMA ReportListenerStep == ASSUME IInv, ReportListener PROVE IInv'
<1>1. Types /\ Inner /\ tasks' = Append(tasks, Failed)
  BY IsInner DEF ReportListener, Submit
<1>2. /\ tasks' \in Seq(Keys)
      /\ \A i \in DOMAIN tasks : i \in DOMAIN tasks' /\ tasks'[i] = tasks[i]
      /\ \A i \in DOMAIN tasks' : tasks'[i] = Failed \/ (i \in DOMAIN tasks /\ tasks'[i] = tasks[i])
  BY <1>1, Submitted, Numbers
<1>3. Types'
  BY <1>1, <1>2 DEF ReportListener, Types, Queues, Framing, Names, Table, table, stream, tables, ghosts
<1>4. UNCHANGED <<conn, clients, armed, pc, pulled, dropped, failures, stuck, threw, crashed, strays, names>>
  BY DEF ReportListener, table, ghosts, tables, names
<1>5. OpenKnown' /\ FailuresCounted' /\ JobsHonest' /\ Meant'
  BY <1>1, <1>4 DEF Inner, OpenKnown, FailuresCounted, JobsHonest, Meant, Reaches
<1>6. OnePlace'
  <2> SUFFICES ASSUME ~pulled PROVE OnePlace'
    BY <1>4 DEF OnePlace
  <2>1. \A f \in Fds : Waiting(f)' => Waiting(f)
    BY <1>2, Numbers DEF Waiting
  <2>2. armed \subseteq Fds
    BY <1>1 DEF Types, Table
  <2>3. \A i \in DOMAIN tasks', j \in DOMAIN tasks' :
          tasks'[i] # Failed /\ tasks'[j] = tasks'[i] => j = i
    BY <1>1, <1>2 DEF Inner, OnePlace
  <2>4. \A i \in DOMAIN tasks' : tasks'[i] # Failed =>
          \A v \in Workers : Busy(v)' => pc'[v].fd # tasks'[i]
    BY <1>1, <1>2, <1>4 DEF Inner, OnePlace, Busy
  <2>5. \A f \in armed' : ~Waiting(f)' /\ \A v \in Workers : Busy(v)' => pc'[v].fd # f
    BY <1>1, <1>4, <2>1, <2>2 DEF Inner, OnePlace, Busy
  <2>6. \A u, v \in Workers : Busy(u)' /\ Busy(v)' /\ pc'[u].fd = pc'[v].fd => u = v
    BY <1>1, <1>4 DEF Inner, OnePlace, Busy
  <2> QED
    BY <2>3, <2>4, <2>5, <2>6 DEF OnePlace
<1>7. UnderWayOpen'
  BY <1>1, <1>2, <1>4 DEF Inner, UnderWayOpen, Busy
<1>8. NobodyForgotten'
  BY <1>1, <1>2, <1>4 DEF Inner, NobodyForgotten, Closing
<1>9. Inner'
  BY <1>5, <1>6, <1>7, <1>8 DEF Inner
<1> QED
  BY <1>3, <1>4, <1>9, Rest

LEMMA ReportClientStep == ASSUME IInv, NEW f \in Fds, ReportClient(f) PROVE IInv'
<1>1. Types /\ Inner /\ tasks' = Append(tasks, f) /\ f \in armed /\ armed' = armed \ {f} /\ f \in Keys
  BY IsInner, Numbers DEF ReportClient, Submit, OneShot
<1> DEFINE n == Len(tasks) + 1
<1>2. /\ tasks' \in Seq(Keys)
      /\ \A i \in DOMAIN tasks : i \in DOMAIN tasks' /\ tasks'[i] = tasks[i]
      /\ \A i \in DOMAIN tasks' : i = n \/ (i \in DOMAIN tasks /\ tasks'[i] = tasks[i])
      /\ n \in DOMAIN tasks' /\ tasks'[n] = f
  BY <1>1, Submitted
<1>3. Types'
  BY <1>1, <1>2 DEF ReportClient, Types, Queues, Framing, Names, Table, kernel, stream, tables, ghosts
<1>4. UNCHANGED <<conn, clients, pc, pulled, dropped, failures, stuck, threw, crashed, strays, names>>
  BY DEF ReportClient, ghosts, tables, names
<1>5. OpenKnown' /\ FailuresCounted' /\ JobsHonest' /\ Meant'
  BY <1>1, <1>4 DEF Inner, OpenKnown, FailuresCounted, JobsHonest, Meant, Reaches
<1> HIDE DEF n
<1>6. OnePlace'
  <2> SUFFICES ASSUME ~pulled PROVE OnePlace'
    BY <1>4 DEF OnePlace
  <2>1. ~Waiting(f) /\ \A w \in Workers : Busy(w) => pc[w].fd # f
    BY <1>1 DEF Inner, OnePlace
  <2>2. \A g \in armed' : ~Waiting(g)' /\ \A v \in Workers : Busy(v)' => pc'[v].fd # g
    BY <1>1, <1>2, <1>4 DEF Inner, OnePlace, Busy, Waiting
  <2>3. \A i \in DOMAIN tasks', j \in DOMAIN tasks' :
          tasks'[i] # Failed /\ tasks'[j] = tasks'[i] => j = i
    BY <1>1, <1>2, <2>1 DEF Inner, OnePlace, Waiting
  <2>4. \A i \in DOMAIN tasks' : tasks'[i] # Failed =>
          \A v \in Workers : Busy(v)' => pc'[v].fd # tasks'[i]
    BY <1>1, <1>2, <1>4, <2>1 DEF Inner, OnePlace, Busy
  <2>5. \A u, v \in Workers : Busy(u)' /\ Busy(v)' /\ pc'[u].fd = pc'[v].fd => u = v
    BY <1>1, <1>4 DEF Inner, OnePlace, Busy
  <2> QED
    BY <2>2, <2>3, <2>4, <2>5 DEF OnePlace
<1>7. UnderWayOpen'
  BY <1>1, <1>2, <1>4 DEF Inner, UnderWayOpen, Busy
<1>8. NobodyForgotten'
  BY <1>1, <1>2, <1>4 DEF Inner, NobodyForgotten, Closing
<1>9. Inner'
  BY <1>5, <1>6, <1>7, <1>8 DEF Inner
<1> QED
  BY <1>3, <1>4, <1>9, Rest

LEMMA TakeStep == ASSUME IInv, NEW w \in Workers, Take(w) PROVE IInv'
<1> DEFINE f == Head(tasks)
           at == IF f = Failed THEN "accept" ELSE IF f \in clients THEN "recv" ELSE "parse"
<1>1. Types /\ Inner /\ tasks' = Tail(tasks) /\ tasks # <<>> /\ pc[w].at = "idle"
  BY IsInner DEF Take
<1>2. /\ tasks' \in Seq(Keys) /\ f \in Keys
      /\ 1 \in DOMAIN tasks /\ tasks[1] = f
      /\ \A i \in DOMAIN tasks' : i + 1 \in DOMAIN tasks /\ tasks'[i] = tasks[i + 1]
      /\ \A i \in DOMAIN tasks : i = 1 \/ (i - 1 \in DOMAIN tasks' /\ tasks'[i - 1] = tasks[i])
      /\ DOMAIN tasks \subseteq Nat /\ DOMAIN tasks' \subseteq Nat
  BY <1>1, Taking
<1>a. \A i \in DOMAIN tasks' : i + 1 # 1
  BY <1>1, Taking, LenProperties DEF Types, Queues
<1>3. /\ pc' = [pc EXCEPT ![w] = [Idle EXCEPT !.fd = f, !.at = at]]
      /\ UNCHANGED <<kernel, table, stream, tables, stuck, crashed, ghosts>>
  BY DEF Take
<1>4. /\ at \in {"accept", "recv", "parse"}
      /\ at = "accept" <=> f = Failed
      /\ at # "accept" => f \in Fds
  BY <1>2 DEF Keys
<1> HIDE DEF at, f
<1>5. [Idle EXCEPT !.fd = f, !.at = at] \in Job
  BY <1>2, <1>4, Numbers DEF Idle, Job, Places
<1>6. /\ pc' \in [Workers -> Job] /\ pc'[w].fd = f /\ pc'[w].at = at /\ pc'[w].n = 0
      /\ \A v \in Workers \ {w} : pc'[v] = pc[v]
  BY <1>1, <1>3, <1>5 DEF Types, Idle
<1>7. Types'
  BY <1>1, <1>2, <1>3, <1>6 DEF Types, Queues, Framing, Names, Table, kernel, table, stream, tables, ghosts
<1>8. UNCHANGED <<conn, clients, armed, pulled, dropped, failures, stuck, threw, crashed, strays, names>>
  BY <1>3 DEF table, ghosts, tables, names
<1>9. OpenKnown' /\ FailuresCounted'
  BY <1>1, <1>8 DEF Inner, OpenKnown, FailuresCounted
<1>10. JobsHonest' /\ Meant'
  BY <1>1, <1>4, <1>6, <1>8 DEF Inner, JobsHonest, JobHonest, Meant, Reaches
<1>11. OnePlace'
  <2> SUFFICES ASSUME ~pulled PROVE OnePlace'
    BY <1>8 DEF OnePlace
  <2>0. \A v \in Workers : Busy(v)' => \/ v = w /\ f # Failed /\ pc'[v].fd = f
                                       \/ v # w /\ Busy(v) /\ pc'[v].fd = pc[v].fd
    BY <1>4, <1>6 DEF Busy
  <2>1. f # Failed => /\ f \notin armed
                      /\ \A v \in Workers : Busy(v) => pc[v].fd # f
                      /\ \A i \in DOMAIN tasks : tasks[i] = f => i = 1
    BY <1>1, <1>2 DEF Inner, OnePlace, Waiting
  <2>2. \A g \in armed' : ~Waiting(g)' /\ \A v \in Workers : Busy(v)' => pc'[v].fd # g
    <3> TAKE g \in armed'
    <3>1. ~Waiting(g) /\ \A v \in Workers : Busy(v) => pc[v].fd # g
      BY <1>1, <1>8 DEF Inner, OnePlace
    <3>2. ~Waiting(g)'
      BY <1>2, <3>1 DEF Waiting
    <3> QED
      BY <1>8, <2>0, <2>1, <3>1, <3>2
  <2>3. \A i \in DOMAIN tasks', j \in DOMAIN tasks' :
          tasks'[i] # Failed /\ tasks'[j] = tasks'[i] => j = i
    <3> SUFFICES ASSUME NEW i \in DOMAIN tasks', NEW j \in DOMAIN tasks',
                        tasks'[i] # Failed, tasks'[j] = tasks'[i]
                 PROVE  j = i
      OBVIOUS
    <3>1. j + 1 = i + 1
      BY <1>1, <1>2 DEF Inner, OnePlace
    <3> QED
      BY <1>2, <3>1
  <2>4. \A i \in DOMAIN tasks' : tasks'[i] # Failed =>
          \A v \in Workers : Busy(v)' => pc'[v].fd # tasks'[i]
    <3> SUFFICES ASSUME NEW i \in DOMAIN tasks', tasks'[i] # Failed,
                        NEW v \in Workers, Busy(v)'
                 PROVE  pc'[v].fd # tasks'[i]
      OBVIOUS
    <3>1. i + 1 \in DOMAIN tasks /\ tasks'[i] = tasks[i + 1] /\ i + 1 # 1
      BY <1>2, <1>a
    <3>2. tasks'[i] # f
      BY <2>1, <3>1
    <3>3. \A u \in Workers : Busy(u) => pc[u].fd # tasks[i + 1]
      BY <1>1, <3>1 DEF Inner, OnePlace
    <3> QED
      BY <2>0, <3>1, <3>2, <3>3
  <2>5. \A u, v \in Workers : Busy(u)' /\ Busy(v)' /\ pc'[u].fd = pc'[v].fd => u = v
    BY <1>1, <2>0, <2>1 DEF Inner, OnePlace
  <2> QED
    BY <2>2, <2>3, <2>4, <2>5 DEF OnePlace
<1>12. UnderWayOpen'
  <2> SUFFICES ASSUME ~pulled PROVE UnderWayOpen'
    BY <1>8 DEF UnderWayOpen
  <2>1. \A v \in Workers : Busy(v)' => \/ v = w /\ f # Failed /\ pc'[v].fd = f
                                       \/ Busy(v) /\ pc'[v].fd = pc[v].fd
    BY <1>4, <1>6 DEF Busy
  <2>2. f # Failed => f \in clients
    BY <1>1, <1>2 DEF Inner, UnderWayOpen
  <2>3. \A i \in DOMAIN tasks' : tasks'[i] # Failed => tasks'[i] \in clients
    BY <1>1, <1>2 DEF Inner, UnderWayOpen
  <2> QED
    BY <1>1, <1>8, <2>1, <2>2, <2>3 DEF Inner, UnderWayOpen
<1>13. NobodyForgotten'
  <2> SUFFICES ASSUME NEW g \in Fds \cap clients'
               PROVE  \/ g \in armed'
                      \/ \E i \in DOMAIN tasks' : tasks'[i] = g
                      \/ \E v \in Workers : pc'[v].fd = g /\ pc'[v].at # "idle"
                      \/ conn'[g] \in threw'
                      \/ Closing(g)'
    BY DEF NobodyForgotten
  <2>1. CASE \E i \in DOMAIN tasks : tasks[i] = g
    <3>1. PICK i \in DOMAIN tasks : tasks[i] = g
      BY <2>1
    <3>2. CASE i = 1
      BY <1>2, <1>4, <1>6, <3>1, <3>2
    <3>3. CASE i # 1
      BY <1>2, <3>1, <3>3
    <3> QED
      BY <3>2, <3>3
  <2>2. CASE \E v \in Workers : pc[v].fd = g /\ pc[v].at # "idle"
    BY <1>1, <1>6, <2>2
  <2>3. CASE Closing(g)
    BY <1>1, <1>6, <2>3 DEF Closing
  <2> QED
    BY <1>1, <1>8, <2>1, <2>2, <2>3 DEF Inner, NobodyForgotten
<1>14. Inner'
  BY <1>9, <1>10, <1>11, <1>12, <1>13 DEF Inner
<1> QED
  BY <1>7, <1>8, <1>14, Rest
-----------------------------------------------------------------------------
(* A worker reads, cuts and answers *)

\* Only the framing and what w has in hand changes.
LEMMA FramingTypes ==
  ASSUME Types, pc' \in [Workers -> Job], Framing',
         UNCHANGED <<kernel, tasks, table, tables, failures>>
  PROVE  Types'
  BY DEF Types, Queues, Names, Table, kernel, table, tables

LEMMA SameFraming == Types /\ UNCHANGED stream => Framing'
  BY DEF Types, Framing, stream

LEMMA FramingStep ==
  ASSUME IInv, Inner', pc' \in [Workers -> Job], Framing',
         UNCHANGED <<kernel, tasks, table, tables, failures>>,
         UNCHANGED <<crashed, pulled, dropped>>, AddressKept'
  PROVE  IInv'
<1>1. Types'
  BY FramingTypes DEF IInv
<1>2. Owned'
  BY SameOwners DEF IInv, names, tables, table
<1> QED
  BY <1>1, <1>2 DEF IInv, Inner

\* A null Client_Socket is used: only a closed connection's number is not known.
LEMMA CrashStep ==
  ASSUME IInv, NEW w \in Workers, Busy(w), pc[w].fd \notin clients, crashed' = TRUE,
         UNCHANGED <<kernel, tasks, table, stream, tables, stuck, pc, ghosts>>
  PROVE  IInv'
<1>1. Inner'
  BY IsInner, Outside DEF core, table, ghosts
<1>2. Types'
  BY DEF IInv, Types, Queues, Framing, Names, Table, kernel, table, stream, tables, ghosts
<1>3. Owned' /\ AddressKept'
  BY SameOwners, SameStrays DEF IInv, names, table, tables, ghosts
<1>4. pulled'
  BY DEF IInv, UnderWayOpen, ghosts
<1> QED
  BY <1>1, <1>2, <1>3, <1>4 DEF IInv, Inner

LEMMA AddStep == ASSUME IInv, NEW w \in Workers, Add(w) PROVE IInv'
<1>1. Busy(w) /\ Types /\ Inner
  BY IsInner DEF Add, Busy
<1>2. CASE pc[w].fd \in clients
  <2>1. /\ armed' = armed \cup {pc[w].fd} /\ Stops(w)
        /\ UNCHANGED <<kernel, tasks, conn, leaked, clients, stream, tables, stuck, ghosts, crashed>>
    BY <1>1, <1>2, Moved DEF Add
  <2>2. Inner'
    BY <1>1, <1>2, <2>1, Finish DEF core, ghosts, Add
  <2>3. pc[w].fd \in Fds
    BY <1>1, HonestTyped DEF Inner
  <2>4. Types'
    BY <1>1, <2>1, <2>3 DEF Types, Queues, Framing, Names, Table, kernel, stream, tables, ghosts, Stops, Alone
  <2>5. UNCHANGED <<names, strays, crashed, pulled, conn, dropped>>
    BY <2>1 DEF names, tables, ghosts
  <2> QED
    BY <2>2, <2>4, <2>5, Rest
<1>3. CASE pc[w].fd \notin clients
  BY <1>1, <1>3, CrashStep DEF Add, table
<1> QED
  BY <1>2, <1>3

LEMMA recv_to_bufferStep == ASSUME IInv, NEW w \in Workers, recv_to_buffer(w) PROVE IInv'
<1>1. Busy(w) /\ Types /\ Inner
  BY IsInner DEF recv_to_buffer, Busy
<1> DEFINE f == pc[w].fd
<1>2. CASE f \in clients
  <2>1. /\ Step(w, "parse")
        /\ buf' = [buf EXCEPT ![f] = @ \o inbox[conn[f]]]
        /\ inbox' = [inbox EXCEPT ![conn[f]] = <<>>]
        /\ UNCHANGED <<limit, backlog, edge, left, gone, sent, tasks, table,
                       data, tables, stuck, ghosts, crashed>>
    BY <1>2 DEF recv_to_buffer
  <2>2. Goes(w, "parse") /\ f \in Fds
    BY <1>1, <2>1, Moved, HonestTyped DEF Places, Inner
  <2>3. conn[f] \in Conns
    BY <1>1, <1>2, <2>2 DEF Inner, OpenKnown, Types, Table
  <2>4. buf[f] \o inbox[conn[f]] \in Seq(Part) /\ <<>> \in Seq(Part)
    BY <1>1, <2>2, <2>3, ConcatProperties, EmptySeq DEF Types, Queues, Framing
  <2> HIDE DEF f
  <2>5. Types'
    BY <1>1, <2>1, <2>2, <2>4
       DEF Types, Queues, Framing, Names, Table, table, tables, ghosts, Goes, Alone
  <2> USE DEF f
  <2>6. Inner'
    <3>1. JobHonest(pc'[w]) /\ Busy(w)'
      BY <2>2 DEF JobHonest, Goes, Busy
    <3> QED
      BY <1>1, <2>1, <2>2, <3>1, Advance DEF core, ghosts, table, Goes, recv_to_buffer
  <2>7. UNCHANGED <<names, strays, crashed, pulled, conn, dropped>>
    BY <2>1 DEF names, tables, ghosts, table
  <2> QED
    BY <2>5, <2>6, <2>7, Rest
<1>3. CASE f \notin clients
  BY <1>1, <1>3, CrashStep DEF recv_to_buffer, kernel, stream
<1> QED
  BY <1>2, <1>3

\* Worker w goes on at a place where it holds its own descriptor only.
LEMMA GoOn ==
  ASSUME IInv, NEW w \in Workers, NEW at \in {"parse", "rearm"}, Goes(w, at), Busy(w), pc[w].at # "erase",
         Framing', UNCHANGED <<kernel, tasks, table, tables, stuck, crashed, ghosts>>
  PROVE  IInv'
<1>1. Types /\ Inner /\ pc[w].fd \in Fds
  BY IsInner, HonestTyped DEF Inner
<1>2. JobHonest(pc'[w]) /\ Busy(w)'
  BY <1>1 DEF JobHonest, Goes, Busy
<1>3. Inner'
  BY <1>1, <1>2, Advance DEF core, ghosts, table, Goes
<1>4. AddressKept'
  BY SameStrays DEF IInv, ghosts
<1> QED
  BY <1>3, <1>4, FramingStep DEF ghosts, Goes, Alone

\* Worker w leaves the handler.
LEMMA Leave ==
  ASSUME IInv, NEW w \in Workers, Stops(w), Busy(w), pc[w].at # "erase",
         pc[w].fd \in clients => conn[pc[w].fd] \in threw', threw \subseteq threw',
         Framing',
         UNCHANGED <<kernel, tasks, table, tables, stuck, crashed, failures, dropped, pulled, strays>>
  PROVE  IInv'
<1>1. Types /\ Inner
  BY IsInner
<1>2. Inner'
  BY <1>1, Finish DEF core, table
<1>3. AddressKept'
  BY SameStrays DEF IInv
<1> QED
  BY <1>2, <1>3, FramingStep DEF Stops, Alone

LEMMA ParseEndsStep == ASSUME IInv, NEW w \in Workers, ParseEnds(w) PROVE IInv'
<1>1. Types /\ Busy(w) /\ pc[w].at # "erase" /\ Framing'
  BY IsInner, SameFraming DEF ParseEnds, Busy
<1>2. CASE Step(w, "rearm")
  BY <1>1, <1>2, Moved, GoOn DEF ParseEnds, Places
<1>3. CASE pc[w].fd \notin clients /\ Return(w)
  BY <1>1, <1>3, Moved, Leave DEF ParseEnds, ghosts
<1> QED
  BY <1>2, <1>3 DEF ParseEnds

\* What is in the buffer of a worker that parses.
LEMMA InBuffer ==
  ASSUME IInv, NEW w \in Workers, NEW state \in {"desc", "header", "body"}, Parsing(w, state)
  PROVE  /\ Types /\ Inner /\ Busy(w) /\ pc[w].at = "parse"
         /\ pc[w].fd \in Fds /\ pc[w].fd \in clients
         /\ data[pc[w].fd] \in Frame /\ data[pc[w].fd].state = state /\ buf[pc[w].fd] \in Seq(Part)
         /\ conn[pc[w].fd] \in Conns
         /\ ~(state = "body" /\ ~data[pc[w].fd].hdr.body) =>
               /\ buf[pc[w].fd] # <<>>
               /\ Head(buf[pc[w].fd]) \in Part /\ Tail(buf[pc[w].fd]) \in Seq(Part)
<1>1. Types /\ Inner /\ Busy(w) /\ pc[w].at = "parse" /\ pc[w].fd \in clients /\ pc[w].fd \in Fds
  BY IsInner, HonestTyped DEF Parsing, Busy, Inner
<1>2. data[pc[w].fd] \in Frame /\ buf[pc[w].fd] \in Seq(Part) /\ data[pc[w].fd].state = state
  BY <1>1 DEF Types, Framing, Parsing
<1>3. conn[pc[w].fd] \in Conns
  BY <1>1 DEF Types, Table, Inner, OpenKnown
<1>4. ~(state = "body" /\ ~data[pc[w].fd].hdr.body) => buf[pc[w].fd] # <<>>
  BY <1>2 DEF Parsing, Enough
<1> QED
  BY <1>1, <1>2, <1>3, <1>4, HeadTailProperties

LEMMA StaysAtParse ==
  ASSUME IInv, NEW w \in Workers, pc[w].at = "parse", UNCHANGED pc
  PROVE  Goes(w, "parse") /\ Busy(w)
  BY DEF IInv, Types, Goes, Alone, Busy

LEMMA ParseDescriptorStep == ASSUME IInv, NEW w \in Workers, ParseDescriptor(w) PROVE IInv'
<1> DEFINE f == pc[w].fd
<1>1. Types /\ f \in Fds /\ data[f] \in Frame /\ Tail(buf[f]) \in Seq(Part) /\ pc[w].at = "parse"
  BY InBuffer DEF ParseDescriptor
<1>2. [data[f] EXCEPT !.state = "header"] \in Frame
  BY <1>1 DEF Frame
<1>3. Framing'
  <2>1. /\ data' = [data EXCEPT ![f] = [@ EXCEPT !.state = "header"]]
        /\ buf' = [buf EXCEPT ![f] = Tail(@)]
    BY DEF ParseDescriptor
  <2> HIDE DEF f
  <2> QED
    BY <1>1, <1>2, <2>1 DEF Types, Framing
<1> QED
  BY <1>1, <1>3, StaysAtParse, GoOn DEF ParseDescriptor

LEMMA ParseHeaderStep == ASSUME IInv, NEW w \in Workers, ParseHeader(w) PROVE IInv'
<1> DEFINE f == pc[w].fd
           h == Head(buf[f]).h
<1>1. /\ Types /\ f \in Fds /\ f \in clients /\ data[f] \in Frame /\ Busy(w)
      /\ Tail(buf[f]) \in Seq(Part) /\ Head(buf[f]) \in Part /\ pc[w].at = "parse"
  BY InBuffer DEF ParseHeader
<1>2. [state |-> "body", hdr |-> h] \in Frame
  BY <1>1 DEF Frame, Part
<1>3. Framing'
  <2>1. /\ data' = data \/ data' = [data EXCEPT ![f] = [state |-> "body", hdr |-> h]]
        /\ buf' = [buf EXCEPT ![f] = Tail(@)]
    BY DEF ParseHeader
  <2> HIDE DEF f, h
  <2> QED
    BY <1>1, <1>2, <2>1 DEF Types, Framing
<1>4. CASE h.t = "bad"
  <2>1. Return(w) /\ threw' = threw \cup {conn[f]}
    BY <1>4 DEF ParseHeader, Threw
  <2> QED
    BY <1>1, <1>3, <2>1, Moved, Leave DEF ParseHeader
<1>5. CASE h.t # "bad"
  BY <1>1, <1>3, <1>5, StaysAtParse, GoOn DEF ParseHeader, ghosts
<1> QED
  BY <1>4, <1>5

LEMMA ParseGarbledStep == ASSUME IInv, NEW w \in Workers, ParseGarbled(w) PROVE IInv'
<1> DEFINE f == pc[w].fd
<1>1. /\ Types /\ f \in Fds /\ f \in clients /\ data[f] \in Frame /\ Busy(w) /\ pc[w].at = "parse"
  BY InBuffer DEF ParseGarbled
<1>2. [data[f] EXCEPT !.state = "never"] \in Frame
  BY <1>1 DEF Frame
<1>3. Framing'
  <2>1. /\ data' = data \/ data' = [data EXCEPT ![f] = [@ EXCEPT !.state = "never"]]
        /\ buf' = buf
    BY DEF ParseGarbled
  <2> HIDE DEF f
  <2> QED
    BY <1>1, <1>2, <2>1 DEF Types, Framing
<1>4. CASE data[f].state = "header"
  <2>1. Return(w) /\ threw' = threw \cup {conn[f]}
    BY <1>4 DEF ParseGarbled, Threw
  <2> QED
    BY <1>1, <1>3, <2>1, Moved, Leave DEF ParseGarbled
<1>5. CASE data[f].state # "header"
  BY <1>1, <1>3, <1>5, StaysAtParse, GoOn DEF ParseGarbled, ghosts
<1> QED
  BY <1>4, <1>5

LEMMA ReArmStep == ASSUME IInv, NEW w \in Workers, ReArm(w) PROVE IInv'
<1>1. Busy(w) /\ Types /\ Inner /\ pc[w].fd \in Fds
  BY IsInner, HonestTyped DEF ReArm, Busy, Inner
<1>2. /\ armed' = armed \cup ({pc[w].fd} \cap clients) /\ Stops(w)
      /\ UNCHANGED <<kernel, tasks, conn, leaked, clients, stream, tables, stuck, ghosts, crashed>>
  BY <1>1, Moved DEF ReArm, Rearmed
<1>3. Inner'
  BY <1>1, <1>2, Finish DEF core, ghosts, ReArm
<1>4. Types'
  BY <1>1, <1>2 DEF Types, Queues, Framing, Names, Table, kernel, stream, tables, ghosts, Stops, Alone
<1>5. UNCHANGED <<names, strays, crashed, pulled, conn, dropped>>
  BY <1>2 DEF names, tables, ghosts
<1> QED
  BY <1>3, <1>4, <1>5, Rest
-----------------------------------------------------------------------------
(* A message is handled *)

\* Worker w takes up job j; the stream it reads may have changed.
LEMMA TakesUp ==
  ASSUME IInv, NEW w \in Workers, Busy(w), pc[w].at # "erase",
         NEW at \in {"parse", "send", "del", "sent"},
         Alone(w), pc'[w].at = at, pc'[w].fd = pc[w].fd,
         at = "send" => pc'[w].n # 0,
         at = "del" => pc'[w].to \in Fds,
         at # "parse" /\ pc'[w].n # 0 => Reaches(pc'[w].to, pc'[w].meant),
         Framing', AddressKept',
         UNCHANGED <<kernel, tasks, table, stuck, crashed, threw, failures, dropped, pulled>>
  PROVE  /\ Inner'
         /\ UNCHANGED tables => IInv'
<1>1. Inner /\ Types /\ pc[w].fd \in Fds
  BY IsInner, HonestTyped DEF Inner
<1>2. JobHonest(pc'[w]) /\ Busy(w)'
  BY <1>1 DEF JobHonest, Busy
<1>3. Inner'
  BY <1>1, <1>2, Advance DEF core, table
<1>4. ASSUME UNCHANGED tables PROVE IInv'
  BY <1>3, <1>4, FramingStep DEF Alone
<1> QED
  BY <1>3, <1>4

LEMMA BodyTaken ==
  ASSUME IInv, NEW w \in Workers, Parsing(w, "body"), TakeBody(pc[w].fd)
  PROVE  buf' \in [Fds -> Seq(Part)]
<1> DEFINE f == pc[w].fd
<1>1. /\ Types /\ f \in Fds /\ buf[f] \in Seq(Part)
      /\ data[f].hdr.body => Tail(buf[f]) \in Seq(Part)
  BY InBuffer
<1>2. buf' = [buf EXCEPT ![f] = IF data[f].hdr.body THEN Tail(@) ELSE @]
  BY DEF TakeBody
<1> HIDE DEF f
<1> QED
  BY <1>1, <1>2 DEF Types, Framing

LEMMA Done ==
  ASSUME Types, NEW w \in Workers, pc[w].fd \in Fds
  PROVE  MessageDone(w) =>
           /\ data' \in [Fds -> Frame] /\ Alone(w) /\ pc'[w].at = "parse"
           /\ pc'[w].fd = pc[w].fd /\ pc'[w].n = 0
<1> SUFFICES ASSUME MessageDone(w)
             PROVE  /\ data' \in [Fds -> Frame] /\ Alone(w) /\ pc'[w].at = "parse"
                    /\ pc'[w].fd = pc[w].fd /\ pc'[w].n = 0
  OBVIOUS
<1> DEFINE f == pc[w].fd
<1>1. /\ data' = [data EXCEPT ![f] = [@ EXCEPT !.state = "desc"]]
      /\ pc' = [pc EXCEPT ![w] = [@ EXCEPT !.at = "parse", !.n = 0]]
  BY DEF MessageDone
<1>2. [data[f] EXCEPT !.state = "desc"] \in Frame
  BY DEF Types, Framing, Frame
<1>3. pc[w] \in Job /\ [pc[w] EXCEPT !.at = "parse", !.n = 0] \in Job
  BY DEF Types, Job, Places
<1>4. data' \in [Fds -> Frame]
  <2> HIDE DEF f
  <2> QED
    BY <1>1, <1>2 DEF Types, Framing
<1> QED
  BY <1>1, <1>3, <1>4 DEF Types, Alone, Job

LEMMA Sending ==
  ASSUME Types, NEW w \in Workers, NEW f \in Keys, NEW c \in Conns \cup {None},
         StartSending(w, f, c)
  PROVE  /\ Alone(w) /\ pc'[w].at = "send" /\ pc'[w].fd = pc[w].fd /\ pc'[w].to = f
         /\ pc'[w].n # 0 /\ pc'[w].meant = c
<1>1. pc' = [pc EXCEPT ![w] = [@ EXCEPT !.at = "send", !.to = f, !.n = Packets, !.meant = c]]
  BY DEF StartSending
<1>2. pc[w] \in Job /\ [pc[w] EXCEPT !.at = "send", !.to = f, !.n = Packets, !.meant = c] \in Job
  BY Numbers DEF Types, Job, Places
<1> QED
  BY <1>1, <1>2, Numbers DEF Types, Alone, Job

LEMMA LoginStep == ASSUME IInv, NEW w \in Workers, Login(w) PROVE IInv'
<1> DEFINE f == pc[w].fd
           u == data[f].hdr.u
<1>1. /\ Types /\ f \in Fds /\ f \in Keys /\ data[f] \in Frame /\ Busy(w) /\ pc[w].at = "parse"
      /\ conn[f] \in Conns
  BY InBuffer, Numbers DEF Login
<1>2. u \in Users
  <2>1. data[f].hdr \in Headers \cup {NoHeader} /\ data[f].hdr.t = "login"
    BY <1>1 DEF Login, Frame
  <2>2. NoHeader.t = "none"
    BY DEF NoHeader
  <2>3. data[f].hdr \in Headers
    BY <2>1, <2>2
  <2> HIDE DEF f
  <2>4. data[f].hdr \in [t : {"login"}, u : Users, body : {FALSE}]
    BY <2>1, <2>3 DEF Headers
  <2> QED
    BY <2>4
<1>3. Framing'
  BY <1>1, BodyTaken DEF Login, Types, Framing
<1>4. /\ Alone(w) /\ pc'[w].at = "send" /\ pc'[w].fd = f /\ pc'[w].to = f
      /\ pc'[w].n # 0 /\ pc'[w].meant = conn[f]
  <2>1. StartSending(w, f, conn[f])
    BY DEF Login
  <2> HIDE DEF f
  <2>2. /\ Alone(w) /\ pc'[w].at = "send" /\ pc'[w].fd = pc[w].fd /\ pc'[w].to = f
        /\ pc'[w].n # 0 /\ pc'[w].meant = conn[f]
    BY <1>1, <2>1, Sending
  <2> QED
    BY <2>2 DEF f
<1>5. /\ UNCHANGED <<kernel, tasks, table, data, stuck, crashed, ghosts>>
      /\ name_fd' = [name_fd EXCEPT ![u] = f] /\ online' = online \cup {u}
      /\ owner' = [owner EXCEPT ![u] = conn[f]]
  BY DEF Login
<1>6. AddressKept'
  BY <1>5, SameStrays DEF IInv, ghosts
<1>7. Inner'
  BY <1>1, <1>3, <1>4, <1>5, <1>6, TakesUp DEF Reaches, ghosts
<1> HIDE DEF f, u
<1>8. Types'
  BY <1>1, <1>2, <1>3, <1>4, <1>5 DEF Types, Queues, Names, Table, kernel, table, ghosts, Alone
<1>9. Owned'
  BY <1>1, <1>2, <1>5 DEF IInv, Owned, Reaches, Types, Names, table, ghosts
<1> QED
  BY <1>5, <1>6, <1>7, <1>8, <1>9 DEF IInv, Inner, ghosts

LEMMA ChatStep == ASSUME IInv, NEW w \in Workers, Chat(w) PROVE IInv'
<1> DEFINE f == pc[w].fd
           u == data[f].hdr.u
<1>1. /\ Types /\ f \in Fds /\ data[f] \in Frame /\ Busy(w) /\ pc[w].at = "parse"
  BY InBuffer DEF Chat
<1>2. buf' \in [Fds -> Seq(Part)] /\ AddressKept'
  BY BodyTaken, SameStrays DEF Chat, IInv, ghosts
<1>3. UNCHANGED <<kernel, tasks, table, tables, stuck, crashed, ghosts>>
  BY DEF Chat
<1>4. CASE u \in online
  <2>1. /\ u \in Users /\ name_fd[u] \in Fds /\ name_fd[u] \in Keys
        /\ owner[u] \in Conns \cup {None} /\ Reaches(name_fd[u], owner[u])
    BY <1>1, <1>4, Numbers DEF IInv, Owned, Types, Names
  <2>2. StartSending(w, name_fd[u], owner[u]) /\ data' = data
    BY <1>4 DEF Chat, Addressee
  <2>3. /\ Alone(w) /\ pc'[w].at = "send" /\ pc'[w].fd = pc[w].fd /\ pc'[w].to = name_fd[u]
        /\ pc'[w].n # 0 /\ pc'[w].meant = owner[u]
    <3> HIDE DEF u
    <3> QED
      BY <1>1, <2>1, <2>2, Sending
  <2>4. Framing'
    BY <1>1, <1>2, <2>2 DEF Types, Framing
  <2> QED
    BY <1>1, <1>2, <1>3, <2>1, <2>3, <2>4, TakesUp DEF ghosts
<1>5. CASE u \notin online
  <2>1. MessageDone(w)
    BY <1>5 DEF Chat
  <2>2. /\ data' \in [Fds -> Frame] /\ Alone(w) /\ pc'[w].at = "parse"
        /\ pc'[w].fd = pc[w].fd /\ pc'[w].n = 0
    BY <1>1, <2>1, Done
  <2>3. Framing'
    BY <1>2, <2>2 DEF Framing
  <2> QED
    BY <1>1, <1>2, <1>3, <2>2, <2>3, TakesUp DEF ghosts
<1> QED
  BY <1>4, <1>5

LEMMA ChatEmptyStep == ASSUME IInv, NEW w \in Workers, ChatEmpty(w) PROVE IInv'
<1>1. Types /\ pc[w].fd \in Fds /\ Busy(w) /\ pc[w].at = "parse" /\ pc[w].fd \in Keys
  BY InBuffer, Numbers DEF ChatEmpty
<1>2. /\ Alone(w) /\ pc'[w].at = "del" /\ pc'[w].fd = pc[w].fd /\ pc'[w].to = pc[w].fd
      /\ pc'[w].n = 0
  <2>1. pc' = [pc EXCEPT ![w] = [@ EXCEPT !.at = "del", !.to = pc[w].fd, !.n = 0]]
    BY DEF ChatEmpty
  <2>2. pc[w] \in Job /\ [pc[w] EXCEPT !.at = "del", !.to = pc[w].fd, !.n = 0] \in Job
    BY <1>1 DEF Types, Job, Places
  <2> QED
    BY <1>1, <2>1, <2>2 DEF Types, Alone, Job
<1>3. Framing' /\ AddressKept'
  BY <1>1, SameFraming, SameStrays DEF ChatEmpty, IInv, ghosts
<1> QED
  BY <1>1, <1>2, <1>3, TakesUp DEF ChatEmpty, ghosts

-----------------------------------------------------------------------------
(* Packets are sent *)

\* The next packet, or the next message; the connection meant is the same.
LEMMA PacketsDone ==
  ASSUME IInv, NEW w \in Workers, pc[w].at \in {"send", "sent"}, PacketDone(w), AddressKept',
         UNCHANGED <<kernel, tasks, table, buf, tables, stuck, crashed, threw, failures, dropped, pulled>>
  PROVE  IInv'
<1>1. Types /\ Busy(w) /\ pc[w].fd \in Fds /\ pc[w].n \in Nat /\ pc[w] \in Job
  BY IsInner, HonestTyped DEF Inner, Busy
<1>2. CASE pc[w].n <= 1
  <2>1. /\ data' \in [Fds -> Frame] /\ Alone(w) /\ pc'[w].at = "parse"
        /\ pc'[w].fd = pc[w].fd /\ pc'[w].n = 0
    BY <1>1, <1>2, Done DEF PacketDone
  <2>2. Framing'
    BY <1>1, <2>1 DEF Types, Framing
  <2> QED
    BY <1>1, <2>1, <2>2, TakesUp
<1>3. CASE ~(pc[w].n <= 1)
  <2>1. /\ pc' = [pc EXCEPT ![w] = [@ EXCEPT !.at = "send", !.n = pc[w].n - 1]] /\ data' = data
    BY <1>3 DEF PacketDone
  <2>2. pc[w].n - 1 \in Nat /\ pc[w].n - 1 # 0
    BY <1>1, <1>3
  <2>3. [pc[w] EXCEPT !.at = "send", !.n = pc[w].n - 1] \in Job
    BY <1>1, <2>2 DEF Job, Places
  <2>4. /\ Alone(w) /\ pc'[w].at = "send" /\ pc'[w].fd = pc[w].fd /\ pc'[w].to = pc[w].to
        /\ pc'[w].n # 0 /\ pc'[w].meant = pc[w].meant
    BY <1>1, <2>1, <2>2, <2>3 DEF Types, Alone, Job
  <2>5. Reaches(pc[w].to, pc[w].meant)
    BY <1>3 DEF IInv, Meant
  <2>6. Framing'
    BY <1>1, <2>1 DEF Types, Framing
  <2> QED
    BY <1>1, <2>4, <2>5, <2>6, TakesUp
<1> QED
  BY <1>2, <1>3

LEMMA send_to_clientStep == ASSUME IInv, NEW w \in Workers, send_to_client(w) PROVE IInv'
<1>1. pc[w].at = "send" /\ pc[w].n # 0 /\ Reaches(pc[w].to, pc[w].meant)
  BY IsInner, HonestTyped DEF send_to_client, IInv, Meant, Inner
<1>2. AddressKept'
  <2>1. \/ strays' = strays
        \/ /\ strays' = strays \cup {[meant |-> pc[w].meant, got |-> conn[pc[w].to]]}
           /\ conn[pc[w].to] # pc[w].meant
    BY DEF send_to_client
  <2>2. dropped' = dropped
    BY DEF send_to_client
  <2> QED
    BY <1>1, <2>1, <2>2 DEF IInv, AddressKept, Reaches
<1>3. PacketDone(w)
  BY DEF send_to_client
<1> QED
  BY <1>1, <1>2, <1>3, PacketsDone DEF send_to_client

LEMMA SendReturnsStep == ASSUME IInv, NEW w \in Workers, SendReturns(w) PROVE IInv'
<1>1. AddressKept'
  BY SameStrays DEF SendReturns, IInv, ghosts
<1> QED
  BY <1>1, PacketsDone DEF SendReturns, ghosts

LEMMA SendFailsStep == ASSUME IInv, NEW w \in Workers, SendFails(w) PROVE IInv'
<1>1. Types /\ pc[w].at = "send" /\ Busy(w) /\ pc[w].to \in Fds
  BY IsInner DEF SendFails, Busy, Open
<1>2. Goes(w, "del")
  BY <1>1, Moved DEF SendFails, Places
<1>3. Framing' /\ AddressKept'
  BY <1>1, SameFraming, SameStrays DEF SendFails, IInv, ghosts
<1>4. pc[w].n # 0 => Reaches(pc[w].to, pc[w].meant)
  BY <1>1 DEF IInv, Meant
<1> QED
  BY <1>1, <1>2, <1>3, <1>4, TakesUp DEF SendFails, ghosts, Goes
-----------------------------------------------------------------------------
(* A connection is closed *)

LEMMA EpollDelStep == ASSUME IInv, NEW w \in Workers, EpollDel(w) PROVE IInv'
<1>1. Types /\ Inner /\ pc[w].at = "del" /\ Busy(w) /\ pc[w].to \in Fds /\ pc[w].fd \in Fds
  BY IsInner, HonestTyped DEF EpollDel, Inner, Busy
<1>2. Goes(w, "erase")
  BY <1>1, Moved DEF EpollDel, Places
<1>3. /\ armed' = armed \ {pc[w].to}
      /\ UNCHANGED <<kernel, tasks, conn, leaked, clients, stream, tables, stuck, ghosts, crashed>>
  BY DEF EpollDel
<1>4. Inner'
  <2>1. JobHonest(pc'[w]) /\ Busy(w)'
    BY <1>1, <1>2 DEF JobHonest, Goes, Busy
  <2>2. pc[w].n # 0 => Reaches(pc[w].to, pc[w].meant)
    BY <1>1 DEF IInv, Meant
  <2> QED
    BY <1>1, <1>2, <1>3, <2>1, <2>2, Advance DEF core, ghosts, Goes
<1>5. Types'
  BY <1>1, <1>2, <1>3 DEF Types, Queues, Framing, Names, Table, kernel, stream, tables, ghosts, Goes, Alone
<1>6. UNCHANGED <<names, strays, crashed, pulled, conn, dropped>>
  BY <1>3 DEF names, tables, ghosts
<1> QED
  BY <1>4, <1>5, <1>6, Rest

LEMMA close_clientStep == ASSUME IInv, NEW w \in Workers, close_client(w) PROVE IInv'
<1> DEFINE f == pc[w].to
           c == conn[f]
           at == IF pc[w].n = 0 THEN "parse" ELSE "sent"
<1>1. Types /\ Inner /\ pc[w].at = "erase" /\ Busy(w) /\ f \in Fds /\ pc[w].fd \in Fds
  BY IsInner, HonestTyped DEF close_client, Inner, Busy
<1>2. Goes(w, at) /\ at \in {"parse", "sent"}
  BY <1>1, Moved DEF close_client, Places
<1>3. /\ clients' = clients \ {f}
      /\ UNCHANGED <<limit, backlog, edge, gone, sent, tasks, leaked, stream, tables, stuck,
                     crashed, threw, failures, strays>>
  BY DEF close_client
<1>4. \/ /\ f \in clients /\ c \in Conns
         /\ conn' = [conn EXCEPT ![f] = None] /\ dropped' = dropped \cup {c}
         /\ armed' = armed \ {f} /\ pulled' = (pulled \/ InUse(f))
         /\ inbox' = [inbox EXCEPT ![c] = <<>>] /\ left' = [left EXCEPT ![c] = <<>>]
      \/ f \notin clients /\ UNCHANGED <<conn, dropped, armed, pulled, inbox, left>>
  <2>1. f \in clients => c \in Conns
    BY <1>1 DEF Inner, OpenKnown, Types, Table
  <2> QED
    BY <2>1 DEF close_client
<1> HIDE DEF f, c, at
<1>5. Types'
  <2>0. <<>> \in Seq(Part)
    BY EmptySeq
  <2>1. inbox' \in [Conns -> Seq(Part)] /\ left' \in [Conns -> Seq(Part)]
    BY <1>1, <1>4, <2>0 DEF Types, Queues
  <2>2. conn' \in [Fds -> Conns \cup {None}] /\ armed' \subseteq Fds
    BY <1>1, <1>4 DEF Types, Table
  <2> QED
    BY <1>1, <1>2, <1>3, <2>1, <2>2 DEF Types, Queues, Framing, Names, Table, stream, tables, Goes, Alone
<1>6. /\ conn'[f] = None \/ f \notin clients
      /\ \A g \in Fds : g # f => conn'[g] = conn[g]
      /\ armed' \subseteq armed /\ \A g \in armed : g = f \/ g \in armed'
      /\ dropped \subseteq dropped'
      /\ pulled => pulled'
  <2>1. pulled => pulled'
    BY <1>4
  <2>2. f \in clients => conn'[f] = None
    BY <1>1, <1>4 DEF Types, Table
  <2>3. \A g \in Fds : g # f => conn'[g] = conn[g]
    BY <1>1, <1>4 DEF Types, Table
  <2> QED
    BY <1>4, <2>1, <2>2, <2>3
<1>7. OpenKnown'
  BY <1>1, <1>3, <1>4, <1>6 DEF Inner, OpenKnown
<1>8. \A v \in Workers : v = w \/ pc'[v] = pc[v]
  BY <1>2 DEF Goes, Alone
<1>9. JobsHonest'
  BY <1>1, <1>2, <1>8 DEF Inner, JobsHonest, JobHonest, Goes
<1>10. \A v \in Workers : Busy(v)' => Busy(v) /\ pc'[v].fd = pc[v].fd
  BY <1>1, <1>2, <1>8 DEF Busy, Goes
<1>11. OnePlace'
  <2> SUFFICES ASSUME ~pulled PROVE OnePlace'
    BY <1>6 DEF OnePlace
  <2> QED
    BY <1>1, <1>3, <1>6, <1>10 DEF Inner, OnePlace, Waiting
<1>12. UnderWayOpen'
  <2> SUFFICES ASSUME ~pulled' PROVE UnderWayOpen'
    BY DEF UnderWayOpen
  <2>1. /\ armed \subseteq clients
        /\ \A i \in DOMAIN tasks : tasks[i] # Failed => tasks[i] \in clients
        /\ \A v \in Workers : Busy(v) => pc[v].fd \in clients
    BY <1>1, <1>6 DEF Inner, UnderWayOpen
  <2>2. CASE f \in clients
    <3>1. ~InUse(f) /\ f \notin armed'
      BY <1>4, <2>2
    <3> QED
      BY <1>3, <1>6, <1>10, <2>1, <3>1 DEF UnderWayOpen, InUse, Busy
  <2>3. CASE f \notin clients
    BY <1>3, <1>6, <1>10, <2>1, <2>3 DEF UnderWayOpen
  <2> QED
    BY <2>2, <2>3
<1>13. NobodyForgotten'
  <2> SUFFICES ASSUME NEW g \in Fds \cap clients'
               PROVE  \/ g \in armed'
                      \/ \E i \in DOMAIN tasks' : tasks'[i] = g
                      \/ \E v \in Workers : pc'[v].fd = g /\ pc'[v].at # "idle"
                      \/ conn'[g] \in threw'
                      \/ Closing(g)'
    BY DEF NobodyForgotten
  <2>1. g \in clients /\ g # f /\ conn'[g] = conn[g] /\ (g \in armed => g \in armed')
    BY <1>3, <1>6
  <2>2. CASE \E v \in Workers : pc[v].fd = g /\ pc[v].at # "idle"
    BY <1>2, <1>8, <2>2 DEF Goes
  <2>3. CASE Closing(g)
    BY <1>8, <2>1, <2>3 DEF Closing, f
  <2> QED
    BY <1>1, <1>3, <2>1, <2>2, <2>3 DEF Inner, NobodyForgotten
<1> DEFINE After(x, d) == d = None \/ d \in dropped' \/ (x \in Fds /\ conn'[x] = d)
<1>14. \A x, d : Reaches(x, d) => After(x, d)
  BY <1>1, <1>4, <1>6 DEF Reaches, c
<1> HIDE DEF After
<1>15. Meant'
  <2> SUFFICES ASSUME NEW v \in Workers,
                      pc'[v].at \in {"send", "del", "erase", "sent"}, pc'[v].n # 0
               PROVE  After(pc'[v].to, pc'[v].meant)
    BY DEF Meant, Reaches, After
  <2>1. /\ pc[v].at \in {"send", "del", "erase", "sent"} /\ pc[v].n # 0
        /\ pc'[v].to = pc[v].to /\ pc'[v].meant = pc[v].meant
    BY <1>1, <1>2, <1>8 DEF Goes
  <2>2. Reaches(pc[v].to, pc[v].meant)
    BY <1>1, <2>1 DEF Inner, Meant
  <2> QED
    BY <1>14, <2>1, <2>2
<1>16. Owned'
  <2> SUFFICES ASSUME NEW u \in online'
               PROVE  name_fd'[u] \in Fds /\ After(name_fd'[u], owner'[u])
    BY DEF Owned, Reaches, After
  <2>1. u \in online /\ name_fd' = name_fd /\ owner' = owner
    BY <1>3 DEF tables
  <2>2. name_fd[u] \in Fds /\ Reaches(name_fd[u], owner[u])
    BY <2>1 DEF IInv, Owned
  <2> QED
    BY <1>14, <2>1, <2>2
<1>17. AddressKept'
  BY <1>3, <1>6, SameStrays DEF IInv
<1>18. FailuresCounted'
  BY <1>1, <1>3, Numbers DEF Inner, FailuresCounted
<1>19. crashed' => pulled'
  BY <1>3, <1>6 DEF IInv
<1> QED
  BY <1>5, <1>7, <1>9, <1>11, <1>12, <1>13, <1>15, <1>16, <1>17, <1>18, <1>19 DEF IInv
-----------------------------------------------------------------------------
(* A connection is accepted *)

LEMMA AcceptFailsStep ==
  ASSUME IInv, NEW w \in Workers, register_client(w), Free = {}
  PROVE  IInv'
<1>1. Types /\ Inner /\ pc[w].at = "accept" /\ pc[w].fd = Failed /\ ~stuck
  BY IsInner, HonestTyped DEF register_client, Inner
<1>2. /\ failures' = failures + 1
      /\ \/ Failed \in clients /\ stuck' = TRUE /\ Step(w, "lock") /\ UNCHANGED clients
         \/ Failed \notin clients /\ clients' = clients \cup {Failed} /\ Return(w) /\ UNCHANGED stuck
      /\ UNCHANGED <<backlog, conn, leaked>>
      /\ UNCHANGED <<limit, edge, left, inbox, gone, sent, tasks, armed,
                     stream, tables, crashed, threw, dropped, pulled, strays>>
  BY DEF register_client, Taken
<1>3. /\ pc' \in [Workers -> Job] /\ ~Busy(w)' /\ pc'[w].at # "accept"
      /\ \A v \in Workers : v = w \/ pc'[v] = pc[v]
  <2>1. Goes(w, "lock") \/ Stops(w)
    BY <1>1, <1>2, Moved DEF Places
  <2>2. pc'[w].at \in {"lock", "idle"}
    BY <2>1, IdleIs DEF Goes, Stops
  <2> QED
    BY <2>1, <2>2 DEF Goes, Stops, Alone, Busy
<1>4. Types'
  <2>1. failures' \in Nat /\ clients' \subseteq Keys
    <3>1. failures \in Nat /\ clients \subseteq Keys
      BY <1>1 DEF Types, Table
    <3>2. clients' = clients \/ clients' = clients \cup {Failed}
      BY <1>2
    <3>3. clients' \subseteq Keys
      BY <3>1, <3>2, Numbers
    <3>4. failures' \in Nat
      BY <1>2, <3>1
    <3> QED
      BY <3>3, <3>4
  <2> QED
    BY <1>1, <1>2, <1>3, <2>1 DEF Types, Queues, Framing, Names, Table, stream, tables
<1>5. OpenKnown'
  BY <1>1, <1>2, Numbers DEF Inner, OpenKnown
<1>6. FailuresCounted'
  <2>1. failures \in Nat /\ ~(failures > 1)
    BY <1>1 DEF Types, Table, Inner, FailuresCounted
  <2>2. CASE Failed \in clients
    BY <1>1, <1>2, <2>1, <2>2 DEF Inner, FailuresCounted
  <2>3. CASE Failed \notin clients
    BY <1>1, <1>2, <2>1, <2>3 DEF Inner, FailuresCounted
  <2> QED
    BY <2>2, <2>3
<1>7. JobsHonest' /\ Meant'
  BY <1>1, <1>2, <1>3 DEF Inner, JobsHonest, JobHonest, Meant, Reaches, Busy
<1>8. \A v \in Workers : Busy(v)' => Busy(v) /\ pc'[v].fd = pc[v].fd
  BY <1>3 DEF Busy
<1>9. OnePlace'
  <2> SUFFICES ASSUME ~pulled PROVE OnePlace'
    BY <1>2 DEF OnePlace
  <2> QED
    BY <1>1, <1>2, <1>8 DEF Inner, OnePlace, Waiting
<1>10. UnderWayOpen'
  BY <1>1, <1>2, <1>8 DEF Inner, UnderWayOpen
<1>11. NobodyForgotten'
  <2> SUFFICES ASSUME NEW g \in Fds \cap clients'
               PROVE  \/ g \in armed'
                      \/ \E i \in DOMAIN tasks' : tasks'[i] = g
                      \/ \E v \in Workers : pc'[v].fd = g /\ pc'[v].at # "idle"
                      \/ conn'[g] \in threw'
                      \/ Closing(g)'
    BY DEF NobodyForgotten
  <2>1. g \in Fds \cap clients /\ g # Failed
    BY <1>2, Numbers
  <2>2. CASE \E v \in Workers : pc[v].fd = g /\ pc[v].at # "idle"
    BY <1>1, <1>3, <2>1, <2>2
  <2>3. CASE Closing(g)
    BY <1>1, <1>3, <2>3 DEF Closing
  <2> QED
    BY <1>1, <1>2, <2>1, <2>2, <2>3 DEF Inner, NobodyForgotten
<1>12. Owned' /\ AddressKept'
  BY <1>2, SameOwners, SameStrays DEF IInv, names, tables
<1> QED
  BY <1>2, <1>4, <1>5, <1>6, <1>7, <1>9, <1>10, <1>11, <1>12 DEF IInv

LEMMA AcceptedStep ==
  ASSUME IInv, NEW w \in Workers, register_client(w), Free # {}
  PROVE  IInv'
<1>1. Types /\ Inner /\ pc[w].at = "accept" /\ pc[w].fd = Failed
  BY IsInner, HonestTyped DEF register_client, Inner
<1>2. PICK f \in Free :
        /\ backlog # <<>> /\ backlog' = Tail(backlog)
        /\ conn' = [conn EXCEPT ![f] = Head(backlog)]
        /\ IF f \in clients
           THEN stuck' = TRUE /\ Step(w, "lock") /\ UNCHANGED <<clients, leaked>>
           ELSE /\ clients' = clients \cup {f}
                /\ leaked' = leaked \cup Lowest(Free \ {f}, 2)
                /\ pc' = [pc EXCEPT ![w].at = "add", ![w].fd = f]
                /\ UNCHANGED stuck
        /\ UNCHANGED failures
  BY DEF register_client, Taken
<1>3. f \in Fds /\ conn[f] = None /\ f \in Keys /\ f # Failed
  BY <1>1, Numbers DEF Free, Open, Types, Table
<1>4. f \notin clients
  BY <1>1, <1>3 DEF Inner, OpenKnown
<1>5. /\ clients' = clients \cup {f} /\ stuck' = stuck /\ failures' = failures
      /\ pc' = [pc EXCEPT ![w] = [@ EXCEPT !.at = "add", !.fd = f]]
      /\ UNCHANGED <<limit, edge, left, inbox, gone, sent, tasks, armed,
                     stream, tables, crashed, threw, dropped, pulled, strays>>
  BY <1>2, <1>4 DEF register_client
<1>6. /\ pc' \in [Workers -> Job] /\ pc'[w].at = "add" /\ pc'[w].fd = f
      /\ \A v \in Workers : v = w \/ pc'[v] = pc[v]
  <2>1. pc[w] \in Job /\ [pc[w] EXCEPT !.at = "add", !.fd = f] \in Job
    BY <1>1, <1>3 DEF Types, Job, Places
  <2> QED
    BY <1>1, <1>5, <2>1 DEF Types, Job
<1>7. Head(backlog) \in Conns /\ Tail(backlog) \in Seq(Conns)
  BY <1>1, <1>2, HeadTailProperties DEF Types, Queues
<1>8. /\ conn' \in [Fds -> Conns \cup {None}] /\ conn'[f] \in Conns
      /\ \A g \in Fds : g = f \/ conn'[g] = conn[g]
  BY <1>1, <1>2, <1>3, <1>7 DEF Types, Table
<1>9. Types'
  BY <1>1, <1>2, <1>3, <1>5, <1>6, <1>7, <1>8 DEF Types, Queues, Framing, Names, Table, stream, tables
<1>10. OpenKnown' /\ FailuresCounted'
  BY <1>1, <1>3, <1>5, <1>8, Numbers DEF Inner, OpenKnown, FailuresCounted
<1>11. JobsHonest'
  BY <1>1, <1>3, <1>6 DEF Inner, JobsHonest, JobHonest
<1>12. \A v \in Workers : Busy(v)' => \/ v = w /\ pc'[v].fd = f
                                      \/ v # w /\ Busy(v) /\ pc'[v].fd = pc[v].fd
  BY <1>6 DEF Busy
<1>13. OnePlace'
  <2> SUFFICES ASSUME ~pulled PROVE OnePlace'
    BY <1>5 DEF OnePlace
  <2>1. /\ f \notin armed
        /\ \A i \in DOMAIN tasks : tasks[i] # f
        /\ \A v \in Workers : Busy(v) => pc[v].fd # f
    BY <1>1, <1>3, <1>4 DEF Inner, UnderWayOpen
  <2>2. \A g \in armed' : ~Waiting(g)' /\ \A v \in Workers : Busy(v)' => pc'[v].fd # g
    BY <1>1, <1>5, <1>12, <2>1 DEF Inner, OnePlace, Waiting
  <2>3. \A i \in DOMAIN tasks' : tasks'[i] # Failed =>
          /\ \A j \in DOMAIN tasks' : tasks'[j] = tasks'[i] => j = i
          /\ \A v \in Workers : Busy(v)' => pc'[v].fd # tasks'[i]
    BY <1>1, <1>5, <1>12, <2>1 DEF Inner, OnePlace
  <2>4. \A u, v \in Workers : Busy(u)' /\ Busy(v)' /\ pc'[u].fd = pc'[v].fd => u = v
    BY <1>1, <1>12, <2>1 DEF Inner, OnePlace
  <2> QED
    BY <2>2, <2>3, <2>4 DEF OnePlace
<1>14. UnderWayOpen'
  BY <1>1, <1>5, <1>12 DEF Inner, UnderWayOpen
<1>15. NobodyForgotten'
  <2> SUFFICES ASSUME NEW g \in Fds \cap clients'
               PROVE  \/ g \in armed'
                      \/ \E i \in DOMAIN tasks' : tasks'[i] = g
                      \/ \E v \in Workers : pc'[v].fd = g /\ pc'[v].at # "idle"
                      \/ conn'[g] \in threw'
                      \/ Closing(g)'
    BY DEF NobodyForgotten
  <2>1. CASE g = f
    BY <1>6, <2>1
  <2>2. CASE g # f
    <3>1. g \in clients /\ conn'[g] = conn[g] /\ g # Failed
      BY <1>5, <1>8, <2>2, Numbers
    <3>2. CASE \E v \in Workers : pc[v].fd = g /\ pc[v].at # "idle"
      BY <1>1, <1>6, <3>1, <3>2
    <3>3. CASE Closing(g)
      BY <1>1, <1>6, <3>3 DEF Closing
    <3> QED
      BY <1>1, <1>5, <3>1, <3>2, <3>3 DEF Inner, NobodyForgotten
  <2> QED
    BY <2>1, <2>2
<1>16. Meant' /\ Owned'
  <2> DEFINE After(x, d) == d = None \/ d \in dropped' \/ (x \in Fds /\ conn'[x] = d)
  <2>1. \A x, d : Reaches(x, d) => After(x, d)
    BY <1>3, <1>5, <1>8 DEF Reaches
  <2> HIDE DEF After
  <2>2. ASSUME NEW v \in Workers,
               pc'[v].at \in {"send", "del", "erase", "sent"}, pc'[v].n # 0
        PROVE  After(pc'[v].to, pc'[v].meant)
    <3>1. v # w /\ pc'[v] = pc[v]
      BY <1>6, <2>2
    <3> QED
      BY <1>1, <2>1, <2>2, <3>1 DEF Inner, Meant
  <2>3. ASSUME NEW u \in online' PROVE name_fd'[u] \in Fds /\ After(name_fd'[u], owner'[u])
    BY <1>5, <2>1 DEF IInv, Owned, tables
  <2> QED
    BY <2>2, <2>3 DEF Meant, Owned, Reaches, After
<1>17. AddressKept'
  BY <1>5, SameStrays DEF IInv
<1> QED
  BY <1>5, <1>9, <1>10, <1>11, <1>13, <1>14, <1>15, <1>16, <1>17 DEF IInv

-----------------------------------------------------------------------------
(* The theorems *)

LEMMA InitIInv == Init => IInv
<1> SUFFICES ASSUME Init PROVE IInv
  OBVIOUS
<1>1. /\ <<>> \in Seq(Conns) /\ <<>> \in Seq(Keys) /\ <<>> \in Seq(Part)
      /\ Idle \in Job /\ Ready \in Frame /\ Idle.at = "idle"
  BY EmptySeq, Numbers DEF Idle, Job, Places, Ready, Frame
<1>2. Types
  BY <1>1, Numbers DEF Init, Types, Queues, Framing, Names, Table
<1>3. OpenKnown /\ FailuresCounted
  BY Numbers DEF Init, OpenKnown, FailuresCounted
<1>4. JobsHonest /\ Meant /\ Owned /\ AddressKept /\ NobodyForgotten
  BY <1>1 DEF Init, JobsHonest, JobHonest, Meant, Owned, AddressKept, NobodyForgotten
<1>5. tasks = <<>> /\ armed = {} /\ \A w \in Workers : ~Busy(w)
  BY <1>1 DEF Init, Busy
<1>6. DOMAIN tasks = {}
  BY <1>5
<1>7. OnePlace /\ UnderWayOpen
  BY <1>5, <1>6 DEF OnePlace, UnderWayOpen
<1> QED
  BY <1>2, <1>3, <1>4, <1>7 DEF IInv, Init

LEMMA HandlerStep == ASSUME IInv, NEW w \in Workers, Handler(w) PROVE IInv'
<1>1. CASE register_client(w)
  BY <1>1, AcceptFailsStep, AcceptedStep
<1> QED
  BY <1>1, TakeStep, AddStep, recv_to_bufferStep, ParseEndsStep, ParseDescriptorStep,
     ParseHeaderStep, ParseGarbledStep, LoginStep, ChatStep, ChatEmptyStep, ReArmStep,
     send_to_clientStep, SendFailsStep, EpollDelStep, close_clientStep, SendReturnsStep
     DEF Handler

LEMMA NextIInv == IInv /\ [Next]_vars => IInv'
<1> SUFFICES ASSUME IInv, [Next]_vars PROVE IInv'
  OBVIOUS
<1>1. ASSUME NEW c \in Conns, Connect(c) \/ ClientSends(c) \/ HangUp(c) PROVE IInv'
  BY <1>1, ConnectStep, ClientSendsStep, HangUpStep
<1>2. CASE UNCHANGED vars
  <2>1. Queues'
    BY <1>2 DEF vars, kernel, IInv, Types, Queues
  <2> QED
    BY <1>2, <2>1, OutsideStep DEF vars, kernel
<1> QED
  BY <1>1, <1>2, ReportListenerStep, ReportClientStep, HandlerStep DEF Next

\* The inductive invariant: what the kernel, the tables and the workers know of
\* a descriptor.
THEOREM Invariant == Spec => []IInv
  BY InitIInv, NextIInv, PTL DEF Spec

\* EPOLLONESHOT: two workers handle the same descriptor only after the server
\* closed it under one of them (Server_Socket.cpp:245, 292).
THEOREM OneHandlerAtATime == Spec => []OneHandler
<1>1. IInv => OneHandler
  BY DEF IInv, OnePlace, OneHandler, Handled, Busy
<1> QED
  BY <1>1, Invariant, PTL

\* No wake-up is lost: every connection in the table is armed, its event is with
\* the pool or with a worker, or the reason why nobody will read from it is one
\* of those named.
THEOREM NobodyIsForgotten == Spec => []NobodyForgotten
<1>1. IInv => NobodyForgotten
  BY DEF IInv
<1> QED
  BY <1>1, Invariant, PTL

\* A packet reaches a connection it was not meant for only when the server had
\* closed the one that was meant and its number was given out again.
THEOREM AddressStaysKept == Spec => []AddressKept
<1>1. IInv => AddressKept
  BY DEF IInv
<1> QED
  BY <1>1, Invariant, PTL

\* A null Client_Socket is used only after a connection was closed under a
\* worker, and clients_mutex is locked for good exactly by the second accept
\* that finds no descriptor.
THEOREM BreakdownStaysExplained == Spec => []BreakdownExplained
<1>1. IInv => BreakdownExplained
  BY DEF IInv, FailuresCounted, BreakdownExplained
<1> QED
  BY <1>1, Invariant, PTL

-----------------------------------------------------------------------------
(***************************************************************************)
(* The client.                                                             *)
(***************************************************************************)

(***************************************************************************)
(* Types, and what is under way to handle_packet.                          *)
(***************************************************************************)
ClientMsg  == [id : Nat, kind : {"login", "text"}, n : Nat, len : Nat, sub : Nat]
ClientUnit == [m : ClientMsg, sub : Nat, size : {s \in Int : Header + s > 0}]

ClientTypes ==
    /\ nextId \in Nat \ {0} /\ asked \in Nat /\ nextId + asked <= Messages + 1
    /\ logins \in Nat /\ verdict \in Seq(BOOLEAN)
    /\ connect_event \in Nat /\ login_event \in Nat
    /\ sending \subseteq ClientMsg
    /\ recvBuffer \in Seq(ClientUnit) /\ sock \in Seq(ClientUnit) /\ wire \in Seq(ClientUnit)
    /\ times \in [Client!Ids -> Nat]
    /\ \A id \in DOMAIN stores :
          id \in Client!Ids /\ IsFiniteSet(stores[id]) /\ \A x \in stores[id] : x.sub \in Nat

LEMMA MinOfTwo ==
    ASSUME NEW a \in Int, NEW b \in Int
    PROVE  Client!Min({a, b}) = IF a <= b THEN a ELSE b
  BY DEF Client!Min

LEMMA ThreeInARow ==
    ASSUME NEW U, NEW a \in Seq(U), NEW b \in Seq(U), NEW c \in Seq(U)
    PROVE  /\ a \o b \o c \in Seq(U) /\ Len(a \o b \o c) = Len(a) + Len(b) + Len(c)
           /\ \A i \in 1..Len(a) : (a \o b \o c)[i] = a[i]
           /\ \A i \in 1..Len(b) : (a \o b \o c)[Len(a) + i] = b[i]
           /\ \A i \in 1..Len(c) : (a \o b \o c)[Len(a) + Len(b) + i] = c[i]
<1>1. a \o b \in Seq(U) /\ Len(a \o b) = Len(a) + Len(b) /\ Len(a) \in Nat /\ Len(b) \in Nat /\ Len(c) \in Nat
  OBVIOUS
<1>2. /\ \A i \in 1..Len(a) : (a \o b)[i] = a[i]
      /\ \A i \in 1..Len(b) : (a \o b)[Len(a) + i] = b[i]
  OBVIOUS
<1>3. PICK d \in Seq(U) : d = a \o b
  BY <1>1
<1>4. d \o c \in Seq(U) /\ Len(d \o c) = Len(d) + Len(c)
  OBVIOUS
<1>5. /\ \A i \in 1..Len(d) : (d \o c)[i] = d[i]
      /\ \A i \in 1..Len(c) : (d \o c)[Len(d) + i] = c[i]
  OBVIOUS
<1>6. ASSUME NEW i \in 1..Len(a) PROVE (d \o c)[i] = a[i]
  <2>1. i \in 1..Len(d) /\ d[i] = a[i]
    BY <1>1, <1>2, <1>3
  <2>2. QED
    BY <1>5, <2>1
<1>7. ASSUME NEW i \in 1..Len(b) PROVE (d \o c)[Len(a) + i] = b[i]
  <2>1. Len(a) + i \in 1..Len(d) /\ d[Len(a) + i] = b[i]
    BY <1>1, <1>2, <1>3
  <2>2. QED
    BY <1>5, <2>1
<1>8. QED
  BY <1>1, <1>3, <1>4, <1>5, <1>6, <1>7


LEMMA ClientTypesInit == Client!Init => ClientTypes
  BY RawClientAssumption DEF Client!Init, ClientTypes, Client!Ids

\* The steps that leave alone what goes through the stream.
LEMMA TypesElsewhere ==
    ASSUME ClientTypes,
           UNCHANGED <<nextId, asked, logins, verdict, sending, recvBuffer, sock, wire, times>>,
           connect_event' \in Nat, login_event' \in Nat, stores' = stores \/ stores' = <<>>
    PROVE  ClientTypes'
  BY DEF ClientTypes

\* What SendPacket puts into the stream: a unit, as often as the packet is long.
Packet(k) == [i \in 1..(Header + k.size) |-> k]
SentAs(m, k) ==
    /\ k.m = [m EXCEPT !.sub = 0] /\ k.sub = m.sub /\ k.size = Client!SizeOf(m.len, m.sub)
    /\ wire' = wire \o Packet(k)

LEMMA SizeTyped ==
    ASSUME NEW len \in Nat, NEW k \in Nat
    PROVE  Client!Payload \in Nat \ {0} /\ Client!SizeOf(len, k) \in Int
<1>1. Client!Payload \in Nat \ {0}
  BY RawClientAssumption DEF Client!Payload
<1>2. PICK rest \in Int : rest = len - k * Client!Payload
  BY <1>1
<1>3. Client!Min({Client!Payload, rest}) \in Int
  BY <1>1, MinOfTwo
<1>4. QED
  BY <1>1, <1>2, <1>3 DEF Client!SizeOf

LEMMA SendsUnits ==
    ASSUME ClientTypes, NEW m \in sending, Client!SendPacket(m)
    PROVE  wire' = wire \/ \E k \in ClientUnit : SentAs(m, k)
<1>1. m \in ClientMsg /\ Client!Payload \in Int /\ Header \in Int /\ wire \in Seq(ClientUnit)
  BY RawClientAssumption DEF ClientTypes, Client!Payload
<1>2. Client!SizeOf(m.len, m.sub) \in Int
  BY <1>1, SizeTyped DEF ClientMsg
<1>3. PICK size \in Int : size = Client!SizeOf(m.len, m.sub)
  BY <1>2
<1>4. PICK k : k = [m |-> [m EXCEPT !.sub = 0], sub |-> m.sub, size |-> size]
  OBVIOUS
<1>5. wire' = wire \o Packet(k)
  BY <1>3, <1>4 DEF Client!SendPacket, Packet
<1>6. CASE Header + size > 0
  <2>1. k \in ClientUnit
    BY <1>1, <1>4, <1>6 DEF ClientMsg, ClientUnit
  <2>2. QED
    BY <1>3, <1>4, <1>5, <2>1 DEF SentAs
<1>7. CASE Header + size <= 0
  <2>1. Packet(k) = <<>>
    BY <1>1, <1>4, <1>7 DEF Packet
  <2>2. QED
    BY <1>1, <1>5, <2>1
<1>8. QED
  BY <1>1, <1>6, <1>7

LEMMA PacketTyped ==
    ASSUME NEW k \in ClientUnit
    PROVE  Packet(k) \in Seq(ClientUnit) /\ Len(Packet(k)) = Header + k.size /\ Header + k.size \in Nat \ {0}
<1>1. PICK n \in Nat \ {0} : n = Header + k.size
  BY RawClientAssumption DEF ClientUnit
<1>2. [i \in 1..n |-> k] \in Seq(ClientUnit) /\ Len([i \in 1..n |-> k]) = n
  OBVIOUS
<1>3. QED
  BY <1>1, <1>2 DEF Packet

LEMMA TypesSend ==
    ASSUME ClientTypes, NEW m \in sending, Client!SendPacket(m)
    PROVE  ClientTypes'
<1> USE DEF Client!server, Client!net, Client!flags, Client!events, Client!ghosts
<1>1. wire \in Seq(ClientUnit) /\ m \in ClientMsg
  BY DEF ClientTypes
<1>2. ASSUME NEW k \in ClientUnit PROVE wire \o Packet(k) \in Seq(ClientUnit)
  BY <1>1, PacketTyped
<1>3. wire' \in Seq(ClientUnit)
  BY <1>1, <1>2, SendsUnits DEF SentAs
<1>4. [m EXCEPT !.sub = @ + 1] \in ClientMsg
  BY <1>1 DEF ClientMsg
<1>5. sending' \subseteq ClientMsg
  BY <1>4 DEF ClientTypes, Client!SendPacket
<1>6. QED
  BY <1>3, <1>5 DEF ClientTypes, Client!SendPacket

LEMMA TypesServer ==
    ASSUME ClientTypes, Client!Answer \/ Client!Forward
    PROVE  ClientTypes'
<1> USE DEF Client!server, Client!net, Client!flags, Client!events, Client!ghosts
<1>1. CASE Client!Answer
  <2>1. PICK ok \in BOOLEAN : verdict' = Append(verdict, ok)
    BY <1>1 DEF Client!Answer
  <2>2. verdict' \in Seq(BOOLEAN) /\ Len(verdict) \in Nat
    BY <2>1 DEF ClientTypes
  <2>3. Client!Message("login", Len(verdict) + 1, LoginLength) \in ClientMsg
    BY <2>2, RawClientAssumption DEF Client!Message, ClientMsg, ClientTypes
  <2>4. sending' \subseteq ClientMsg
    BY <1>1, <2>3 DEF Client!Answer, ClientTypes
  <2>5. QED
    BY <1>1, <2>2, <2>4 DEF Client!Answer, ClientTypes
<1>2. CASE Client!Forward
  <2>1. \A len \in ChatLengths : Client!Message("text", 0, len) \in ClientMsg
    BY RawClientAssumption DEF Client!Message, ClientMsg, ClientTypes
  <2>2. sending' \subseteq ClientMsg
    BY <1>2, <2>1 DEF Client!Forward, ClientTypes
  <2>3. QED
    BY <1>2, <2>2, RawClientAssumption DEF Client!Forward, ClientTypes
<1>3. QED
  BY <1>1, <1>2

LEMMA TypesMove ==
    ASSUME ClientTypes,
           Client!Arrive \/ Client!PeerLeaves \/ Client!Receive \/ Client!ReceiveFails
    PROVE  ClientTypes'
<1> USE DEF Client!server, Client!net, Client!flags, Client!events, Client!ghosts
<1>1. CASE Client!Arrive
  <2>1. sock' \in Seq(ClientUnit) /\ wire' \in Seq(ClientUnit)
    BY <1>1 DEF Client!Arrive, ClientTypes
  <2>2. QED
    BY <1>1, <2>1 DEF Client!Arrive, ClientTypes
<1>2. CASE Client!PeerLeaves
  BY <1>2 DEF Client!PeerLeaves, ClientTypes
<1>3. CASE Client!Receive
  <2>1. PICK n \in Nat : /\ n <= Len(sock)
                         /\ recvBuffer' = recvBuffer \o SubSeq(sock, 1, n)
                         /\ sock' = SubSeq(sock, n + 1, Len(sock))
    <3>1. sock \in Seq(ClientUnit) /\ Len(sock) \in Nat /\ MaxPacketSize \in Nat
      BY RawClientAssumption DEF ClientTypes
    <3>2. Client!Min({MaxPacketSize, Len(sock)}) \in Nat /\ Client!Min({MaxPacketSize, Len(sock)}) <= Len(sock)
      BY <3>1, MinOfTwo
    <3>3. QED
      BY <1>3, <3>2 DEF Client!Receive
  <2>2. sock' \in Seq(ClientUnit) /\ recvBuffer' \in Seq(ClientUnit)
    BY <2>1 DEF ClientTypes
  <2>3. QED
    BY <1>3, <2>2 DEF Client!Receive, ClientTypes
<1>4. CASE Client!ReceiveFails
  BY <1>4 DEF Client!ReceiveFails, Client!Reset, ClientTypes
<1>5. QED
  BY <1>1, <1>2, <1>3, <1>4

\* The packet at the head of recvBuffer, and that it is there.
HeadThere ==
    /\ 1 \in DOMAIN recvBuffer /\ recvBuffer[1] \in ClientUnit
    /\ Header + recvBuffer[1].size \in Nat \ {0} /\ Header + recvBuffer[1].size <= Len(recvBuffer)

LEMMA HeadIsThere ==
    ASSUME ClientTypes, Client!handle_packet
    PROVE  HeadThere
<1>1. recvBuffer \in Seq(ClientUnit) /\ Len(recvBuffer) \in Nat /\ Header \in Nat /\ Header >= 1
  BY RawClientAssumption DEF ClientTypes
<1>2. Len(recvBuffer) >= Header /\ Len(recvBuffer) >= Header + recvBuffer[1].size
  BY DEF Client!handle_packet, Client!Whole
<1>3. 1 \in DOMAIN recvBuffer /\ recvBuffer[1] \in ClientUnit
  BY <1>1, <1>2
<1>4. QED
  BY <1>1, <1>2, <1>3 DEF HeadThere, ClientUnit

\* The packets of a message that handle_packet has then.
Old == IF recvBuffer[1].m.id \in DOMAIN stores THEN stores[recvBuffer[1].m.id] ELSE {}
New == Old \cup {[sub |-> recvBuffer[1].sub, size |-> recvBuffer[1].size]}

HandleDoes ==
    LET id == recvBuffer[1].m.id
        n  == Header + recvBuffer[1].size
    IN
    /\ HeadThere
    /\ recvBuffer' = SubSeq(recvBuffer, n + 1, Len(recvBuffer))
    /\ stores' = [i \in DOMAIN stores \cup {id} |-> IF i = id THEN New ELSE stores[i]]
    /\ \/ /\ Client!Complete(New, recvBuffer[1].m.len)
          /\ times' = [times EXCEPT ![id] = @ + 1]
          /\ calls' = calls \cup {[m |-> recvBuffer[1].m, at |-> "start", packets |-> New]}
       \/ ~Client!Complete(New, recvBuffer[1].m.len) /\ UNCHANGED <<calls, times>>
    /\ UNCHANGED <<sending, nextId, asked, verdict, wire, sock, unreported, peer, isConnected,
                   everythingDead, used, connect_event, login_event, stop_event, loginStatus,
                   ui, logins, wrong>>

LEMMA WhatHandleDoes ==
    ASSUME ClientTypes, Client!handle_packet PROVE HandleDoes
<1>1. HeadThere
  BY HeadIsThere
<1>2. \/ /\ Client!Complete(New, recvBuffer[1].m.len)
         /\ times' = [times EXCEPT ![recvBuffer[1].m.id] = @ + 1]
         /\ calls' = calls \cup {[m |-> recvBuffer[1].m, at |-> "start", packets |-> New]}
      \/ ~Client!Complete(New, recvBuffer[1].m.len) /\ UNCHANGED <<calls, times>>
  BY DEF Client!handle_packet, Old, New
<1>3. /\ recvBuffer' = SubSeq(recvBuffer, Header + recvBuffer[1].size + 1, Len(recvBuffer))
      /\ stores' = [i \in DOMAIN stores \cup {recvBuffer[1].m.id} |->
                      IF i = recvBuffer[1].m.id THEN New ELSE stores[i]]
  BY DEF Client!handle_packet, Old, New
<1>4. UNCHANGED <<sending, nextId, asked, verdict, wire, sock, unreported, peer, isConnected,
                  everythingDead, used, connect_event, login_event, stop_event, loginStatus,
                  ui, logins, wrong>>
  BY DEF Client!handle_packet, Client!server, Client!net, Client!flags, Client!events
<1>5. QED
  BY <1>1, <1>2, <1>3, <1>4 DEF HandleDoes

LEMMA TypesHandle ==
    ASSUME ClientTypes, HandleDoes, recvBuffer[1].m.id \in Client!Ids
    PROVE  ClientTypes' /\ IsFiniteSet(Old) /\ IsFiniteSet(New)
<1> DEFINE id == recvBuffer[1].m.id
           n  == Header + recvBuffer[1].size
<1>1. recvBuffer' \in Seq(ClientUnit)
  <2>1. n \in Nat /\ n <= Len(recvBuffer) /\ recvBuffer \in Seq(ClientUnit)
    BY DEF HandleDoes, HeadThere, ClientTypes
  <2>2. recvBuffer' = SubSeq(recvBuffer, n + 1, Len(recvBuffer))
    BY DEF HandleDoes
  <2>3. QED
    BY <2>1, <2>2
<1>2. IsFiniteSet(Old)
  BY FS_EmptySet DEF Old, ClientTypes
<1>3. IsFiniteSet(New) /\ \A x \in New : x.sub \in Nat
  <2>1. recvBuffer[1].sub \in Nat
    BY DEF HandleDoes, HeadThere, ClientUnit
  <2>2. \A x \in Old : x.sub \in Nat
    BY DEF Old, ClientTypes
  <2>3. \A x \in New : x \in Old \/ x.sub = recvBuffer[1].sub
    BY DEF New
  <2>4. IsFiniteSet(New)
    BY <1>2, FS_AddElement DEF New
  <2>5. QED
    BY <2>1, <2>2, <2>3, <2>4
<1>4. stores' = [i \in DOMAIN stores \cup {id} |-> IF i = id THEN New ELSE stores[i]]
  BY DEF HandleDoes
<1>5. \A i \in DOMAIN stores' :
         i \in Client!Ids /\ IsFiniteSet(stores'[i]) /\ \A x \in stores'[i] : x.sub \in Nat
  BY <1>3, <1>4 DEF ClientTypes
<1>6. times' \in [Client!Ids -> Nat]
  <2>1. times \in [Client!Ids -> Nat]
    BY DEF ClientTypes
  <2>2. times' = times \/ times' = [times EXCEPT ![id] = @ + 1]
    BY DEF HandleDoes
  <2>3. QED
    BY <2>1, <2>2
<1>7. QED
  BY <1>1, <1>2, <1>3, <1>5, <1>6 DEF ClientTypes, HandleDoes

(***************************************************************************)
(* The stream, from what was received and not cut off to what was sent.    *)
(***************************************************************************)
Stream == recvBuffer \o sock \o wire

\* What a step but SendPacket leaves of it lay side by side in it.
Piece == \E a \in Nat : \A i \in DOMAIN Stream' : i + a \in DOMAIN Stream /\ Stream'[i] = Stream[i + a]

LEMMA StreamParts ==
    ASSUME ClientTypes
    PROVE  /\ Stream \in Seq(ClientUnit) /\ Len(Stream) = Len(recvBuffer) + Len(sock) + Len(wire)
           /\ DOMAIN Stream = 1..Len(Stream)
           /\ Len(recvBuffer) \in Nat /\ Len(sock) \in Nat /\ Len(wire) \in Nat
           /\ \A i \in 1..Len(recvBuffer) : Stream[i] = recvBuffer[i]
           /\ \A i \in 1..Len(sock) : Stream[Len(recvBuffer) + i] = sock[i]
           /\ \A i \in 1..Len(wire) : Stream[Len(recvBuffer) + Len(sock) + i] = wire[i]
<1>1. recvBuffer \in Seq(ClientUnit) /\ sock \in Seq(ClientUnit) /\ wire \in Seq(ClientUnit)
  BY DEF ClientTypes
<1>2. QED
  BY <1>1, ThreeInARow DEF Stream

LEMMA StreamPartsNext ==
    ASSUME ClientTypes'
    PROVE  /\ Stream' \in Seq(ClientUnit) /\ Len(Stream') = Len(recvBuffer') + Len(sock') + Len(wire')
           /\ DOMAIN Stream' = 1..Len(Stream')
           /\ Len(recvBuffer') \in Nat /\ Len(sock') \in Nat /\ Len(wire') \in Nat
           /\ \A i \in 1..Len(recvBuffer') : Stream'[i] = recvBuffer'[i]
           /\ \A i \in 1..Len(sock') : Stream'[Len(recvBuffer') + i] = sock'[i]
           /\ \A i \in 1..Len(wire') : Stream'[Len(recvBuffer') + Len(sock') + i] = wire'[i]
<1>1. recvBuffer' \in Seq(ClientUnit) /\ sock' \in Seq(ClientUnit) /\ wire' \in Seq(ClientUnit)
  BY DEF ClientTypes, ClientUnit, ClientMsg
<1>2. QED
  BY <1>1, ThreeInARow DEF Stream

\* Two streams whose elements are the same, the second from a on.
LEMMA PieceFrom ==
    ASSUME ClientTypes, ClientTypes', NEW a \in Nat, a + Len(Stream') <= Len(Stream),
           \A i \in 1..Len(Stream') : Stream'[i] = Stream[i + a]
    PROVE  Piece
<1>1. DOMAIN Stream = 1..Len(Stream) /\ Len(Stream) \in Nat
  BY StreamParts
<1>2. DOMAIN Stream' = 1..Len(Stream') /\ Len(Stream') \in Nat
  BY StreamPartsNext
<1>3. \A i \in DOMAIN Stream' : i + a \in DOMAIN Stream
  BY <1>1, <1>2
<1>4. \A i \in DOMAIN Stream' : Stream'[i] = Stream[i + a]
  BY <1>2
<1>5. QED
  BY <1>3, <1>4 DEF Piece

LEMMA SameStream == ASSUME ClientTypes, ClientTypes', Stream' = Stream PROVE Piece
<1>1. /\ Stream \in Seq(ClientUnit) /\ Len(Stream) \in Nat
      /\ 0 + Len(Stream') <= Len(Stream)
  BY StreamParts
<1>2. \A i \in 1..Len(Stream') : Stream'[i] = Stream[i + 0]
  BY <1>1
<1>3. QED
  BY <1>1, <1>2, PieceFrom, Zenon

LEMMA PieceArrive == ASSUME ClientTypes, ClientTypes', Client!Arrive PROVE Piece
<1>1. /\ recvBuffer' = recvBuffer /\ wire # <<>>
      /\ sock' = Append(sock, Head(wire)) /\ wire' = Tail(wire)
  BY DEF Client!Arrive
<1>2. recvBuffer \in Seq(ClientUnit) /\ sock \in Seq(ClientUnit) /\ wire \in Seq(ClientUnit)
  BY DEF ClientTypes
<1>3. recvBuffer \o Append(sock, Head(wire)) \o Tail(wire) = recvBuffer \o sock \o wire
  <2>1. Head(wire) \in ClientUnit /\ Tail(wire) \in Seq(ClientUnit) /\ <<Head(wire)>> \in Seq(ClientUnit)
    BY <1>1, <1>2
  <2>2. <<Head(wire)>> \o Tail(wire) = wire
    BY <1>1, <1>2, <2>1
  <2>3. Append(sock, Head(wire)) = sock \o <<Head(wire)>>
    BY <1>2, <2>1, AppendIsConcat
  <2>4. recvBuffer \o (sock \o <<Head(wire)>>) = (recvBuffer \o sock) \o <<Head(wire)>>
    BY <1>2, <2>1, ConcatAssociative
  <2>5. recvBuffer \o sock \in Seq(ClientUnit)
    BY <1>2
  <2>6. ((recvBuffer \o sock) \o <<Head(wire)>>) \o Tail(wire) = (recvBuffer \o sock) \o (<<Head(wire)>> \o Tail(wire))
    BY <2>1, <2>5, ConcatAssociative
  <2>7. QED
    BY <2>2, <2>3, <2>4, <2>6
<1>4. QED
  BY <1>1, <1>3, SameStream DEF Stream

LEMMA PieceReceive ==
    ASSUME ClientTypes, ClientTypes', Client!Receive PROVE Piece
<1>1. PICK n \in Nat : n = Client!Min({MaxPacketSize, Len(sock)}) /\ n <= Len(sock)
  <2>1. sock \in Seq(ClientUnit) /\ Len(sock) \in Nat /\ MaxPacketSize \in Nat
    BY RawClientAssumption DEF ClientTypes
  <2>2. QED
    BY <2>1, MinOfTwo
<1>2. /\ recvBuffer' = recvBuffer \o SubSeq(sock, 1, n)
      /\ sock' = SubSeq(sock, n + 1, Len(sock)) /\ wire' = wire
  BY <1>1 DEF Client!Receive
<1>3. recvBuffer \in Seq(ClientUnit) /\ sock \in Seq(ClientUnit) /\ wire \in Seq(ClientUnit)
  BY DEF ClientTypes
<1>4. /\ SubSeq(sock, 1, n) \o SubSeq(sock, n + 1, Len(sock)) = sock
      /\ SubSeq(sock, 1, n) \in Seq(ClientUnit) /\ SubSeq(sock, n + 1, Len(sock)) \in Seq(ClientUnit)
  <2>1. Len(sock) \in Nat
    BY <1>3
  <2>2. /\ 1 \in 1..(Len(sock) + 1) /\ n \in (1 - 1)..Len(sock) /\ Len(sock) \in n..Len(sock)
    BY <1>1, <2>1
  <2>3. SubSeq(sock, 1, n) \o SubSeq(sock, n + 1, Len(sock)) = SubSeq(sock, 1, Len(sock))
    BY <1>3, <2>2, ConcatAdjacentSubSeq
  <2>4. SubSeq(sock, 1, n) \in Seq(ClientUnit)
    BY <1>3, <2>2
  <2>5. SubSeq(sock, n + 1, Len(sock)) \in Seq(ClientUnit)
    BY <1>3, <2>2
  <2>6. QED
    BY <1>3, <2>3, <2>4, <2>5, SubSeqFull
<1>5. (recvBuffer \o SubSeq(sock, 1, n)) \o SubSeq(sock, n + 1, Len(sock)) = recvBuffer \o sock
  <2>1. PICK read, rest : read = SubSeq(sock, 1, n) /\ rest = SubSeq(sock, n + 1, Len(sock))
    OBVIOUS
  <2>2. read \in Seq(ClientUnit) /\ rest \in Seq(ClientUnit) /\ read \o rest = sock
    BY <1>4, <2>1
  <2>3. PICK a, b, c \in Seq(ClientUnit) : a = recvBuffer /\ b = read /\ c = rest
    BY <1>3, <2>2
  <2>4. (a \o b) \o c = a \o (b \o c)
    BY ConcatAssociative
  <2>5. QED
    BY <2>1, <2>2, <2>3, <2>4
<1>6. QED
  BY <1>2, <1>5, SameStream DEF Stream

LEMMA PieceLost ==
    ASSUME ClientTypes, ClientTypes',
           UNCHANGED <<recvBuffer, sock>> /\ wire' = <<>>
    PROVE  Piece
<1>1. Len(wire') = 0 /\ Len(Stream') <= Len(Stream) /\ Len(Stream') = Len(recvBuffer) + Len(sock)
  BY StreamParts, StreamPartsNext
<1>2. ASSUME NEW i \in 1..Len(Stream') PROVE Stream'[i] = Stream[i + 0]
  <2>1. CASE i <= Len(recvBuffer)
    BY <1>1, <2>1, StreamParts, StreamPartsNext
  <2>2. CASE i > Len(recvBuffer)
    <3>1. PICK j : j = i - Len(recvBuffer)
      OBVIOUS
    <3>2. j \in 1..Len(sock) /\ i = Len(recvBuffer) + j
      BY <1>1, <2>2, <3>1, StreamParts
    <3>3. Stream'[Len(recvBuffer) + j] = sock[j] /\ Stream[Len(recvBuffer) + j] = sock[j]
      BY <3>2, StreamParts, StreamPartsNext
    <3>4. QED
      BY <3>2, <3>3
  <2>3. QED
    BY <1>1, <2>1, <2>2, StreamParts
<1>3. QED
  BY <1>1, <1>2, PieceFrom

LEMMA PieceReset ==
    ASSUME ClientTypes, ClientTypes', recvBuffer' = <<>>, wire' = wire,
           sock' = sock \/ sock' = <<>>
    PROVE  Piece
<1>1. Len(recvBuffer') = 0
  OBVIOUS
<1>2. CASE sock' = sock
  <2>1. Len(Stream') = Len(sock) + Len(wire) /\ Len(recvBuffer) + Len(Stream') <= Len(Stream)
    BY <1>1, <1>2, StreamParts, StreamPartsNext
  <2>2. ASSUME NEW i \in 1..Len(Stream') PROVE Stream'[i] = Stream[i + Len(recvBuffer)]
    <3>1. CASE i <= Len(sock)
      <4>1. Stream'[Len(recvBuffer') + i] = sock[i] /\ Stream[Len(recvBuffer) + i] = sock[i]
        BY <1>1, <1>2, <3>1, <2>1, StreamParts, StreamPartsNext
      <4>2. QED
        BY <1>1, <4>1, StreamParts
    <3>2. CASE i > Len(sock)
      <4>0. PICK j : j = i - Len(sock)
        OBVIOUS
      <4>1. j \in 1..Len(wire) /\ i = Len(sock) + j
        BY <2>1, <3>2, <4>0, StreamParts
      <4>2. Stream'[Len(recvBuffer') + Len(sock') + j] = wire[j] /\ Stream[Len(recvBuffer) + Len(sock) + j] = wire[j]
        BY <4>1, StreamParts, StreamPartsNext
      <4>3. Len(recvBuffer') + Len(sock') + j = i /\ Len(recvBuffer) + Len(sock) + j = i + Len(recvBuffer)
        BY <1>1, <1>2, <4>1, StreamParts
      <4>4. QED
        BY <4>2, <4>3
    <3>3. QED
      BY <2>1, <3>1, <3>2, StreamParts
  <2>3. QED
    BY <2>1, <2>2, PieceFrom, StreamParts
<1>3. CASE sock' = <<>>
  <2>1. Len(sock') = 0
    BY <1>3
  <2>2. /\ Len(Stream') = Len(wire)
        /\ (Len(recvBuffer) + Len(sock)) + Len(Stream') <= Len(Stream)
        /\ Len(recvBuffer) + Len(sock) \in Nat
    BY <1>1, <2>1, StreamParts, StreamPartsNext
  <2>3. ASSUME NEW i \in 1..Len(Stream') PROVE Stream'[i] = Stream[i + (Len(recvBuffer) + Len(sock))]
    <3>1. Stream'[Len(recvBuffer') + Len(sock') + i] = wire[i] /\ Stream[Len(recvBuffer) + Len(sock) + i] = wire[i]
      BY <2>2, StreamParts, StreamPartsNext
    <3>2. /\ Len(recvBuffer') + Len(sock') + i = i
          /\ Len(recvBuffer) + Len(sock) + i = i + (Len(recvBuffer) + Len(sock))
      BY <1>1, <2>1, StreamParts
    <3>3. QED
      BY <3>1, <3>2
  <2>4. QED
    BY <2>2, <2>3, PieceFrom
<1>4. QED
  BY <1>2, <1>3

LEMMA PieceHandle ==
    ASSUME ClientTypes, ClientTypes', HandleDoes
    PROVE  LET n == Header + recvBuffer[1].size IN
           /\ \A i \in DOMAIN Stream' : i + n \in DOMAIN Stream /\ Stream'[i] = Stream[i + n]
           /\ n \in Nat \ {0} /\ 1 \in DOMAIN Stream /\ Stream[1] = recvBuffer[1]
<1> DEFINE n == Header + recvBuffer[1].size
<1>1. /\ n \in Nat \ {0} /\ n <= Len(recvBuffer) /\ recvBuffer \in Seq(ClientUnit)
      /\ recvBuffer' = SubSeq(recvBuffer, n + 1, Len(recvBuffer)) /\ sock' = sock /\ wire' = wire
      /\ 1 \in 1..Len(recvBuffer)
  BY DEF HandleDoes, HeadThere, ClientTypes
<1> HIDE DEF n
<1>2. /\ Len(recvBuffer') = Len(recvBuffer) - n
      /\ \A i \in 1..Len(recvBuffer') : recvBuffer'[i] = recvBuffer[i + n]
  BY <1>1
<1>3. PICK r, s, w, q \in Nat :
         /\ r = Len(recvBuffer) /\ s = Len(sock) /\ w = Len(wire) /\ q = Len(recvBuffer')
         /\ r = q + n /\ Len(Stream) = r + s + w /\ Len(Stream') = q + s + w
         /\ DOMAIN Stream = 1..(r + s + w) /\ DOMAIN Stream' = 1..(q + s + w)
  <2>1. Len(recvBuffer) \in Nat /\ Len(sock) \in Nat /\ Len(wire) \in Nat /\ Len(recvBuffer') \in Nat
    BY StreamParts, StreamPartsNext
  <2>2. Len(sock') = Len(sock) /\ Len(wire') = Len(wire)
    BY <1>1
  <2>3. Len(recvBuffer) = Len(recvBuffer') + n
    BY <1>1, <1>2, <2>1
  <2>4. /\ Len(Stream) = Len(recvBuffer) + Len(sock) + Len(wire) /\ DOMAIN Stream = 1..Len(Stream)
        /\ Len(Stream') = Len(recvBuffer') + Len(sock) + Len(wire) /\ DOMAIN Stream' = 1..Len(Stream')
    BY <2>2, StreamParts, StreamPartsNext
  <2>5. QED
    BY <2>1, <2>3, <2>4
<1>4. /\ \A i \in 1..q : Stream'[i] = recvBuffer'[i] /\ recvBuffer'[i] = recvBuffer[i + n]
      /\ \A i \in 1..s : Stream'[q + i] = sock[i] /\ Stream[r + i] = sock[i]
      /\ \A i \in 1..w : Stream'[q + s + i] = wire[i] /\ Stream[r + s + i] = wire[i]
      /\ \A i \in 1..r : Stream[i] = recvBuffer[i]
  <2>1. \A i \in 1..q : Stream'[i] = recvBuffer'[i] /\ recvBuffer'[i] = recvBuffer[i + n]
    BY <1>2, <1>3, StreamPartsNext
  <2>2. Len(sock') = s /\ sock' = sock /\ wire' = wire /\ Len(wire') = w
    BY <1>1, <1>3
  <2>3. \A i \in 1..s : Stream'[q + i] = sock[i] /\ Stream[r + i] = sock[i]
    BY <1>3, <2>2, StreamParts, StreamPartsNext
  <2>4. \A i \in 1..w : Stream'[q + s + i] = wire[i] /\ Stream[r + s + i] = wire[i]
    BY <1>3, <2>2, StreamParts, StreamPartsNext
  <2>5. QED
    BY <1>3, <2>1, <2>3, <2>4, StreamParts
<1>5. ASSUME NEW i \in 1..(q + s + w) PROVE Stream'[i] = Stream[i + n] /\ i + n \in 1..(r + s + w)
  <2>1. n \in Nat
    BY <1>1
  <2>2. CASE i <= q
    <3>1. i \in 1..q /\ i + n \in 1..r
      BY <1>3, <2>1, <2>2
    <3>2. QED
      BY <1>3, <1>4, <3>1
  <2>3. CASE i > q /\ i <= q + s
    <3>1. PICK j : j = i - q
      OBVIOUS
    <3>2. j \in 1..s /\ i = q + j /\ i + n = r + j
      BY <1>3, <2>1, <2>3, <3>1
    <3>3. QED
      BY <1>3, <1>4, <3>2
  <2>4. CASE i > q + s
    <3>1. PICK j : j = i - (q + s)
      OBVIOUS
    <3>2. j \in 1..w /\ i = q + s + j /\ i + n = r + s + j
      BY <1>3, <2>1, <2>4, <3>1
    <3>3. QED
      BY <1>3, <1>4, <3>2
  <2>5. QED
    BY <1>3, <2>2, <2>3, <2>4
<1>6. 1 \in DOMAIN Stream /\ Stream[1] = recvBuffer[1]
  <2>1. 1 \in 1..r
    BY <1>1, <1>3
  <2>2. QED
    BY <1>3, <1>4, <2>1
<1>7. QED
  BY <1>1, <1>3, <1>5, <1>6 DEF n

\* A packet more at its end.
LEMMA StreamSends ==
    ASSUME ClientTypes, ClientTypes', NEW k \in ClientUnit,
           wire' = wire \o Packet(k), UNCHANGED <<recvBuffer, sock>>
    PROVE  /\ Len(Stream) \in Nat /\ DOMAIN Stream = 1..Len(Stream)
           /\ DOMAIN Stream' = 1..(Len(Stream) + (Header + k.size))
           /\ \A i \in DOMAIN Stream : Stream'[i] = Stream[i]
           /\ \A i \in DOMAIN Stream' : i \notin DOMAIN Stream => Stream'[i] = k
<1>1. recvBuffer \o sock \in Seq(ClientUnit) /\ wire \in Seq(ClientUnit)
  BY DEF ClientTypes
<1>2. /\ Packet(k) \in Seq(ClientUnit) /\ Len(Packet(k)) = Header + k.size
      /\ Header + k.size \in Nat \ {0}
  BY PacketTyped
<1>3. Stream' = Stream \o Packet(k)
  <2>1. PICK a, p, q \in Seq(ClientUnit) : a = recvBuffer \o sock /\ p = wire /\ q = Packet(k)
    BY <1>1, <1>2
  <2>2. (a \o p) \o q = a \o (p \o q)
    BY ConcatAssociative
  <2>3. Stream' = (recvBuffer \o sock) \o (wire \o Packet(k))
    BY DEF Stream
  <2>4. QED
    BY <2>1, <2>2, <2>3 DEF Stream
<1>4. Stream \in Seq(ClientUnit) /\ Len(Stream) \in Nat /\ DOMAIN Stream = 1..Len(Stream)
  BY StreamParts
<1>5. \A i \in 1..(Header + k.size) : Packet(k)[i] = k
  BY DEF Packet
<1>6. PICK s \in Seq(ClientUnit) : s = Stream
  BY <1>4
<1>7. PICK p \in Seq(ClientUnit) : p = Packet(k)
  BY <1>2
<1>8. /\ DOMAIN (s \o p) = 1..(Len(s) + Len(p)) /\ DOMAIN s = 1..Len(s) /\ Len(s) \in Nat
      /\ \A i \in 1..Len(s) : (s \o p)[i] = s[i]
      /\ \A i \in 1..(Len(s) + Len(p)) : i > Len(s) => (s \o p)[i] = p[i - Len(s)]
  BY ConcatProperties, LenProperties
<1>9. ASSUME NEW i \in 1..(Len(s) + Len(p)), i > Len(s) PROVE (s \o p)[i] = k
  <2>1. i - Len(s) \in 1..(Header + k.size)
    BY <1>2, <1>7, <1>8, <1>9
  <2>2. QED
    BY <1>5, <1>7, <1>8, <1>9, <2>1
<1>10. QED
  BY <1>2, <1>3, <1>6, <1>7, <1>8, <1>9

(***************************************************************************)
(* A message is handed over once.                                          *)
(***************************************************************************)
Begun(m) == [m EXCEPT !.sub = 0]
InFlight == {Begun(m) : m \in sending} \cup {Stream[i].m : i \in DOMAIN Stream}

\* A message has one id, and one thread of the server sends it.
IdsKnown ==
    /\ \A f \in InFlight : f.id \in Client!Ids /\ f.id < nextId
    /\ \A f, g \in InFlight : f.id = g.id => f = g
    /\ \A m, k \in sending : m.id = k.id => m = k
    /\ \A id \in DOMAIN stores : id < nextId

\* A packet is not sent yet, or in the stream, or in the store; in the stream
\* it is not longer than its length, though its beginning may have been lost.
PacketsOnce ==
    /\ \A m \in sending : \A i \in DOMAIN Stream : Stream[i].m.id = m.id => Stream[i].sub < m.sub
    /\ \A m \in sending : m.id \in DOMAIN stores => \A x \in stores[m.id] : x.sub < m.sub
    /\ \A i \in DOMAIN Stream : Stream[i].m.id \in DOMAIN stores =>
          \A x \in stores[Stream[i].m.id] : x.sub # Stream[i].sub
    /\ \A i, j \in DOMAIN Stream :
          i <= j /\ Stream[i].m.id = Stream[j].m.id /\ Stream[i].sub = Stream[j].sub =>
             j - i < Header + Stream[i].size

\* The first packet of a message that was submitted is gone, unless it is in
\* the store with as many others as the header says: one more never fits.
Spent(id) ==
    /\ \A m \in sending : m.id = id => m.sub # 0
    /\ \A i \in DOMAIN Stream : Stream[i].m.id = id => Stream[i].sub # 0
    /\ id \in DOMAIN stores => \A f \in InFlight : f.id = id =>
          Cardinality(stores[id]) >= Client!Count(f.len) \/ \A x \in stores[id] : x.sub # 0
SpentOnce ==
    \A id \in Client!Ids : times[id] # 0 => times[id] = 1 /\ id < nextId /\ Spent(id)

PacketInv == ClientTypes /\ IdsKnown /\ PacketsOnce /\ SpentOnce

LEMMA PacketInit == Client!Init => PacketInv
<1> SUFFICES ASSUME Client!Init PROVE PacketInv
  OBVIOUS
<1>1. ClientTypes
  BY ClientTypesInit
<1>2. sending = {} /\ stores = <<>> /\ DOMAIN stores = {} /\ times = [id \in Client!Ids |-> 0]
  BY DEF Client!Init
<1>3. recvBuffer = <<>> /\ sock = <<>> /\ wire = <<>>
  BY DEF Client!Init
<1>4. Len(Stream) = 0 /\ DOMAIN Stream = {}
  BY <1>1, <1>3, StreamParts
<1>5. InFlight = {}
  BY <1>2, <1>4 DEF InFlight
<1>6. QED
  BY <1>1, <1>2, <1>4, <1>5 DEF PacketInv, IdsKnown, PacketsOnce, SpentOnce

\* Steps that take out of the stream, and may forget the stores.
LEMMA PacketsLess ==
    ASSUME PacketInv, ClientTypes', Piece, sending' \subseteq sending,
           nextId' = nextId, times' = times, stores' = stores \/ stores' = <<>>
    PROVE  PacketInv' /\ InFlight' \subseteq InFlight
<1>1. PICK a \in Nat : \A i \in DOMAIN Stream' : i + a \in DOMAIN Stream /\ Stream'[i] = Stream[i + a]
  BY DEF Piece
<1>2. \A i \in DOMAIN Stream' : i \in Nat
  BY StreamPartsNext
<1>3. InFlight' \subseteq InFlight
  BY <1>1 DEF InFlight
<1>4. \A id \in DOMAIN stores' : id \in DOMAIN stores /\ stores'[id] = stores[id]
  OBVIOUS
<1>5. IdsKnown'
  BY <1>3, <1>4 DEF PacketInv, IdsKnown
<1>6. PacketsOnce'
  <2>1. \A m \in sending' : \A i \in DOMAIN Stream' : Stream'[i].m.id = m.id => Stream'[i].sub < m.sub
    BY <1>1 DEF PacketInv, PacketsOnce
  <2>2. \A m \in sending' : m.id \in DOMAIN stores' => \A x \in stores'[m.id] : x.sub < m.sub
    BY <1>4 DEF PacketInv, PacketsOnce
  <2>3. \A i \in DOMAIN Stream' : Stream'[i].m.id \in DOMAIN stores' =>
           \A x \in stores'[Stream'[i].m.id] : x.sub # Stream'[i].sub
    BY <1>1, <1>4 DEF PacketInv, PacketsOnce
  <2>4. ASSUME NEW i \in DOMAIN Stream', NEW j \in DOMAIN Stream', i <= j,
               Stream'[i].m.id = Stream'[j].m.id, Stream'[i].sub = Stream'[j].sub
        PROVE  j - i < Header + Stream'[i].size
    <3>1. i + a <= j + a /\ (j + a) - (i + a) = j - i
      BY <1>2, <2>4
    <3>2. (j + a) - (i + a) < Header + Stream[i + a].size
      BY <1>1, <2>4, <3>1 DEF PacketInv, PacketsOnce
    <3>3. QED
      BY <1>1, <3>1, <3>2
  <2>5. QED
    BY <2>1, <2>2, <2>3, <2>4 DEF PacketsOnce
<1>7. SpentOnce'
  <2>1. ASSUME NEW id \in Client!Ids, times'[id] # 0
        PROVE  times'[id] = 1 /\ id < nextId' /\ Spent(id)'
    <3>1. times[id] = 1 /\ id < nextId /\ Spent(id)
      BY <2>1 DEF PacketInv, SpentOnce
    <3>2. \A m \in sending' : m.id = id => m.sub # 0
      BY <3>1 DEF Spent
    <3>3. \A i \in DOMAIN Stream' : Stream'[i].m.id = id => Stream'[i].sub # 0
      BY <1>1, <3>1 DEF Spent
    <3>4. id \in DOMAIN stores' => \A f \in InFlight' : f.id = id =>
             Cardinality(stores'[id]) >= Client!Count(f.len) \/ \A x \in stores'[id] : x.sub # 0
      BY <1>3, <1>4, <3>1 DEF Spent
    <3>5. QED
      BY <3>1, <3>2, <3>3, <3>4 DEF Spent
  <2>2. QED
    BY <2>1 DEF SpentOnce, Client!Ids
<1>8. QED
  BY <1>3, <1>5, <1>6, <1>7 DEF PacketInv

\* Nothing of the message changes but how far it has been sent.
LEMMA BegunFacts ==
    ASSUME NEW m \in ClientMsg
    PROVE  /\ [m EXCEPT !.sub = @ + 1].id = m.id /\ [m EXCEPT !.sub = @ + 1].sub = m.sub + 1
           /\ Begun([m EXCEPT !.sub = @ + 1]) = Begun(m)
           /\ Begun(m).id = m.id /\ Begun(m).kind = m.kind /\ Begun(m).n = m.n
           /\ Begun(m).len = m.len /\ m.sub \in Nat
  BY DEF Begun, ClientMsg

\* The positions a packet of m has been added at.
SentOn(m, add) ==
    /\ \A i \in DOMAIN Stream' :
          \/ i \in DOMAIN Stream /\ Stream'[i] = Stream[i]
          \/ i \in add
    /\ \A i \in add : /\ Stream'[i].m = Begun(m) /\ Stream'[i].sub = m.sub
                      /\ Stream'[i].size = Client!SizeOf(m.len, m.sub)
                      /\ i \in Int /\ \A j \in DOMAIN Stream : j < i
    /\ \A i, j \in add : j - i < Header + Stream'[i].size

LEMMA UnitFacts ==
    ASSUME ClientTypes, NEW i \in DOMAIN Stream
    PROVE  /\ i \in Nat \ {0} /\ Stream[i].m \in ClientMsg
           /\ Stream[i].sub \in Nat /\ Stream[i].size \in Int
<1>1. Stream[i] \in ClientUnit /\ i \in Nat \ {0}
  BY StreamParts
<1>2. QED
  BY <1>1 DEF ClientUnit

\* SendPacket adds such positions, or none.
LEMMA SendsOn ==
    ASSUME PacketInv, NEW m \in sending, Client!SendPacket(m)
    PROVE  \E add : SentOn(m, add)
<1>1. ClientTypes /\ ClientTypes'
  BY TypesSend DEF PacketInv
<1>2. UNCHANGED <<recvBuffer, sock>>
  BY DEF Client!SendPacket
<1>3. CASE wire' = wire
  <2>1. Stream' = Stream
    BY <1>2, <1>3 DEF Stream
  <2>2. SentOn(m, {})
    BY <2>1 DEF SentOn
  <2>3. QED
    BY <2>2
<1>4. CASE wire' # wire
  <2>1. PICK k \in ClientUnit : SentAs(m, k)
    BY <1>1, <1>4, SendsUnits
  <2>2. Len(Stream) \in Nat /\ Header + k.size \in Nat
    BY <1>1, PacketTyped, StreamParts
  <2>3. PICK s, n \in Nat : s = Len(Stream) /\ n = Header + k.size
    BY <2>2
  <2>4. /\ DOMAIN Stream = 1..s /\ DOMAIN Stream' = 1..(s + n)
        /\ \A i \in DOMAIN Stream : Stream'[i] = Stream[i]
        /\ \A i \in DOMAIN Stream' : i \notin DOMAIN Stream => Stream'[i] = k
    BY <1>1, <1>2, <2>1, <2>3, StreamSends DEF SentAs
  <2>5. \A i \in (s + 1)..(s + n) : Stream'[i] = k /\ i \notin DOMAIN Stream
    BY <2>4
  <2>6. k.m = Begun(m) /\ k.sub = m.sub /\ k.size = Client!SizeOf(m.len, m.sub)
    BY <2>1 DEF SentAs, Begun
  <2>7. \A i \in (s + 1)..(s + n) : i \in Int /\ \A j \in DOMAIN Stream : j < i
    BY <2>4
  <2>8. \A i, j \in (s + 1)..(s + n) : j - i < Header + Stream'[i].size
    BY <2>3, <2>5
  <2>9. \A i \in DOMAIN Stream' : i \notin DOMAIN Stream => i \in (s + 1)..(s + n)
    BY <2>4
  <2>10. SentOn(m, (s + 1)..(s + n))
    BY <2>4, <2>5, <2>6, <2>7, <2>8, <2>9 DEF SentOn
  <2>11. QED
    BY <2>10
<1>5. QED
  BY <1>3, <1>4

LEMMA PacketsSend ==
    ASSUME PacketInv, NEW m \in sending, Client!SendPacket(m)
    PROVE  PacketInv' /\ InFlight' \subseteq InFlight
<1> DEFINE next == [m EXCEPT !.sub = @ + 1]
<1>1. ClientTypes /\ ClientTypes' /\ m \in ClientMsg
  BY TypesSend DEF PacketInv, ClientTypes
<1>2. UNCHANGED <<nextId, times, stores, recvBuffer, sock>>
  BY DEF Client!SendPacket, Client!server, Client!ghosts
<1>3. sending' \subseteq (sending \ {m}) \cup {next}
  BY DEF Client!SendPacket
<1>4. /\ next.id = m.id /\ next.sub = m.sub + 1 /\ Begun(next) = Begun(m)
      /\ Begun(m).id = m.id /\ m.sub \in Nat
  BY <1>1, BegunFacts
<1> HIDE DEF next
<1>5. \A k \in sending' : k # next => k \in sending /\ k.id # m.id
  BY <1>3 DEF PacketInv, IdsKnown
<1>6. PICK add : SentOn(m, add)
  BY SendsOn
<1>7. \A i \in DOMAIN Stream : i \in Int
  BY <1>1, StreamParts
<1>8. InFlight' \subseteq InFlight
  <2>1. ASSUME NEW k \in sending' PROVE Begun(k) \in InFlight
    BY <1>3, <1>4 DEF InFlight
  <2>2. ASSUME NEW i \in DOMAIN Stream' PROVE Stream'[i].m \in InFlight
    BY <1>6 DEF InFlight, SentOn
  <2>3. QED
    BY <2>1, <2>2 DEF InFlight
<1>9. IdsKnown'
  <2>1. \A k, l \in sending' : k.id = l.id => k = l
    BY <1>4, <1>5 DEF PacketInv, IdsKnown
  <2>2. QED
    BY <1>2, <1>8, <2>1 DEF PacketInv, IdsKnown, Client!Ids
<1>10. PacketsOnce'
  <2>1. ASSUME NEW k \in sending', NEW i \in DOMAIN Stream', Stream'[i].m.id = k.id
        PROVE  Stream'[i].sub < k.sub
    <3>1. CASE i \in DOMAIN Stream /\ Stream'[i] = Stream[i]
      <4>1. CASE k = next
        <5>1. Stream[i].sub < m.sub /\ Stream[i].sub \in Nat
          BY <1>1, <1>4, <2>1, <3>1, <4>1, UnitFacts DEF PacketInv, PacketsOnce
        <5>2. QED
          BY <1>4, <3>1, <4>1, <5>1
      <4>2. CASE k # next
        BY <1>5, <2>1, <3>1, <4>2 DEF PacketInv, PacketsOnce
      <4>3. QED
        BY <4>1, <4>2
    <3>2. CASE i \in add
      BY <1>4, <1>5, <1>6, <2>1, <3>2 DEF SentOn
    <3>3. QED
      BY <1>6, <3>1, <3>2 DEF SentOn
  <2>2. ASSUME NEW k \in sending', k.id \in DOMAIN stores', NEW x \in stores'[k.id]
        PROVE  x.sub < k.sub
    <3>1. CASE k # next
      <4>1. k \in sending /\ k.id \in DOMAIN stores /\ x \in stores[k.id]
        BY <1>2, <1>5, <2>2, <3>1
      <4>2. QED
        BY <4>1 DEF PacketInv, PacketsOnce
    <3>2. CASE k = next
      <4>1. x.sub < m.sub /\ x.sub \in Nat
        BY <1>1, <1>2, <1>4, <2>2, <3>2 DEF PacketInv, PacketsOnce, ClientTypes
      <4>2. QED
        BY <1>4, <3>2, <4>1
    <3>3. QED
      BY <3>1, <3>2
  <2>3. ASSUME NEW i \in DOMAIN Stream', Stream'[i].m.id \in DOMAIN stores',
               NEW x \in stores'[Stream'[i].m.id]
        PROVE  x.sub # Stream'[i].sub
    <3>1. CASE i \in DOMAIN Stream /\ Stream'[i] = Stream[i]
      BY <1>2, <2>3, <3>1 DEF PacketInv, PacketsOnce
    <3>2. CASE i \in add
      <4>1. x.sub < m.sub /\ Stream'[i].sub = m.sub
        BY <1>2, <1>4, <1>6, <2>3, <3>2 DEF PacketInv, PacketsOnce, SentOn
      <4>2. QED
        BY <1>4, <4>1
    <3>3. QED
      BY <1>6, <3>1, <3>2 DEF SentOn
  <2>4. ASSUME NEW i \in DOMAIN Stream', NEW j \in DOMAIN Stream', i <= j,
               Stream'[i].m.id = Stream'[j].m.id, Stream'[i].sub = Stream'[j].sub
        PROVE  j - i < Header + Stream'[i].size
    <3>1. CASE i \in DOMAIN Stream /\ Stream'[i] = Stream[i] /\ j \in DOMAIN Stream /\ Stream'[j] = Stream[j]
      BY <2>4, <3>1 DEF PacketInv, PacketsOnce
    <3>2. CASE i \in DOMAIN Stream /\ Stream'[i] = Stream[i] /\ j \in add
      <4>1. Stream[i].sub < m.sub /\ Stream[i].sub = m.sub
        BY <1>4, <1>6, <2>4, <3>2 DEF PacketInv, PacketsOnce, SentOn
      <4>2. QED
        BY <1>4, <4>1
    <3>3. CASE i \in add /\ j \in DOMAIN Stream
      BY <1>6, <1>7, <2>4, <3>3 DEF SentOn
    <3>4. CASE i \in add /\ j \in add
      BY <1>6, <3>4 DEF SentOn
    <3>5. QED
      BY <1>6, <3>1, <3>2, <3>3, <3>4 DEF SentOn
  <2>5. QED
    BY <2>1, <2>2, <2>3, <2>4 DEF PacketsOnce
<1>11. SpentOnce'
  <2>1. ASSUME NEW id \in Client!Ids, times'[id] # 0
        PROVE  times'[id] = 1 /\ id < nextId' /\ Spent(id)'
    <3>1. times[id] = 1 /\ id < nextId /\ Spent(id)
      BY <1>2, <2>1 DEF PacketInv, SpentOnce
    <3>2. \A k \in sending' : k.id = id => k.sub # 0
      BY <1>4, <1>5, <3>1 DEF Spent
    <3>3. \A i \in DOMAIN Stream' : Stream'[i].m.id = id => Stream'[i].sub # 0
      BY <1>4, <1>6, <3>1 DEF Spent, SentOn
    <3>4. id \in DOMAIN stores' => \A f \in InFlight' : f.id = id =>
             Cardinality(stores'[id]) >= Client!Count(f.len) \/ \A x \in stores'[id] : x.sub # 0
      BY <1>2, <1>8, <3>1 DEF Spent
    <3>5. QED
      BY <1>2, <3>1, <3>2, <3>3, <3>4 DEF Spent
  <2>2. QED
    BY <2>1 DEF SpentOnce, Client!Ids
<1>12. QED
  BY <1>1, <1>8, <1>9, <1>10, <1>11 DEF PacketInv

\* What handle_packet finds: a packet the store has not got, of a message that
\* is known, so that the store has one more.
LEMMA HandleFinds ==
    ASSUME PacketInv, HandleDoes
    PROVE  /\ recvBuffer[1].m \in InFlight /\ recvBuffer[1].m \in ClientMsg
           /\ recvBuffer[1].m.id \in Client!Ids /\ recvBuffer[1].m.id < nextId
           /\ \A x \in Old : x.sub # recvBuffer[1].sub
           /\ Cardinality(Old) \in Nat /\ Cardinality(New) = Cardinality(Old) + 1
           /\ ClientTypes'
<1>1. HeadThere
  BY DEF HandleDoes
<1>2. 1 \in DOMAIN Stream /\ Stream[1] = recvBuffer[1]
  <2>1. 1 \in 1..Len(recvBuffer)
    BY <1>1 DEF HeadThere, PacketInv, ClientTypes
  <2>2. QED
    BY <2>1, StreamParts DEF PacketInv
<1>3. recvBuffer[1].m \in InFlight
  BY <1>2 DEF InFlight
<1>4. recvBuffer[1].m.id \in Client!Ids /\ recvBuffer[1].m.id < nextId
  BY <1>3 DEF PacketInv, IdsKnown
<1>5. ClientTypes' /\ IsFiniteSet(Old)
  BY <1>4, TypesHandle DEF PacketInv
<1>6. \A x \in Old : x.sub # recvBuffer[1].sub
  BY <1>2 DEF PacketInv, PacketsOnce, Old
<1>7. [sub |-> recvBuffer[1].sub, size |-> recvBuffer[1].size] \notin Old
  BY <1>6
<1>8. Cardinality(Old) \in Nat /\ Cardinality(New) = Cardinality(Old) + 1
  BY <1>5, <1>7, FS_CardinalityType, FS_AddElement DEF New
<1>9. recvBuffer[1].m \in ClientMsg
  BY <1>2, UnitFacts DEF PacketInv
<1>10. QED
  BY <1>3, <1>4, <1>5, <1>6, <1>8, <1>9

\* The instance's name for the cardinality of a set.
LEMMA SameCardinality == ASSUME NEW S PROVE Client!Cardinality(S) = Cardinality(S)
  BY Zenon DEF Client!Cardinality, Cardinality

\* A message that is complete has its first packet.
LEMMA CompleteHasFirst ==
    ASSUME NEW S, NEW len, Cardinality(S) \in Nat \ {0}, Client!Complete(S, len)
    PROVE  (\E x \in S : x.sub = 0) /\ Cardinality(S) = Client!Count(len)
<1>1. {x.sub : x \in S} = 0..(Cardinality(S) - 1)
  BY SameCardinality, Zenon DEF Client!Complete
<1>2. Cardinality(S) = Client!Count(len)
  BY SameCardinality, Zenon DEF Client!Complete
<1>3. 0 \in 0..(Cardinality(S) - 1)
  OBVIOUS
<1>4. QED
  BY <1>1, <1>2, <1>3

LEMMA CountTyped ==
    ASSUME NEW len \in Nat PROVE Client!Count(len) \in Int
  BY RawClientAssumption DEF Client!Count

LEMMA PacketsHandle ==
    ASSUME PacketInv, HandleDoes
    PROVE  /\ PacketInv' /\ InFlight' \subseteq InFlight
           /\ times' # times => times[recvBuffer[1].m.id] = 0
<1>0. PICK id, n : id = recvBuffer[1].m.id /\ n = Header + recvBuffer[1].size
  OBVIOUS
<1>1. /\ recvBuffer[1].m \in InFlight /\ recvBuffer[1].m \in ClientMsg
      /\ id \in Client!Ids /\ id < nextId
      /\ \A x \in Old : x.sub # recvBuffer[1].sub
      /\ Cardinality(Old) \in Nat /\ Cardinality(New) = Cardinality(Old) + 1
      /\ ClientTypes' /\ ClientTypes
  BY <1>0, HandleFinds DEF PacketInv
<1>2. /\ \A i \in DOMAIN Stream' : i + n \in DOMAIN Stream /\ Stream'[i] = Stream[i + n]
      /\ n \in Nat \ {0} /\ 1 \in DOMAIN Stream /\ Stream[1] = recvBuffer[1]
  BY <1>0, <1>1, PieceHandle
<1>3. \A i \in DOMAIN Stream' : i \in Nat \ {0}
  BY <1>1, StreamPartsNext
<1>4. /\ sending' = sending /\ nextId' = nextId
      /\ DOMAIN stores' = DOMAIN stores \cup {id} /\ stores'[id] = New
      /\ \A i \in DOMAIN stores : i # id => stores'[i] = stores[i]
  BY <1>0 DEF HandleDoes
<1>5. \A x \in New : x.sub = recvBuffer[1].sub \/ x \in Old
  BY DEF New
<1>6. \A x \in Old : id \in DOMAIN stores /\ x \in stores[id]
  BY <1>0 DEF Old
<1>7. InFlight' \subseteq InFlight
  BY <1>2, <1>4 DEF InFlight
<1>8. IdsKnown'
  BY <1>1, <1>4, <1>7 DEF PacketInv, IdsKnown, Client!Ids
<1>9. PacketsOnce'
  <2>1. \A k \in sending' : \A i \in DOMAIN Stream' : Stream'[i].m.id = k.id => Stream'[i].sub < k.sub
    BY <1>2, <1>4 DEF PacketInv, PacketsOnce
  <2>2. ASSUME NEW k \in sending', k.id \in DOMAIN stores', NEW x \in stores'[k.id]
        PROVE  x.sub < k.sub
    <3>1. CASE k.id # id
      BY <1>4, <2>2, <3>1 DEF PacketInv, PacketsOnce
    <3>2. CASE k.id = id
      <4>1. Stream[1].sub < k.sub
        BY <1>0, <1>2, <1>4, <3>2 DEF PacketInv, PacketsOnce
      <4>2. x \in Old => x.sub < k.sub
        BY <1>4, <1>6, <3>2 DEF PacketInv, PacketsOnce
      <4>3. x \in New
        BY <1>4, <2>2, <3>2
      <4>4. QED
        BY <1>2, <1>5, <4>1, <4>2, <4>3
    <3>3. QED
      BY <3>1, <3>2
  <2>3. ASSUME NEW i \in DOMAIN Stream', Stream'[i].m.id \in DOMAIN stores',
               NEW x \in stores'[Stream'[i].m.id]
        PROVE  x.sub # Stream'[i].sub
    <3>1. CASE Stream'[i].m.id # id
      BY <1>2, <1>4, <2>3, <3>1 DEF PacketInv, PacketsOnce
    <3>2. CASE Stream'[i].m.id = id
      <4>1. x \in Old => x.sub # Stream'[i].sub
        BY <1>2, <1>6, <3>2 DEF PacketInv, PacketsOnce
      <4>2. Stream[1].sub # Stream[i + n].sub
        <5>1. /\ i \in Nat \ {0} /\ n \in Nat \ {0} /\ i + n \in DOMAIN Stream
              /\ Stream[i + n].m.id = Stream[1].m.id
          BY <1>0, <1>2, <1>3, <3>2
        <5>2. 1 <= i + n /\ ~((i + n) - 1 < n)
          BY <5>1
        <5>3. Header + Stream[1].size = n
          BY <1>0, <1>2
        <5>4. Stream[1].sub = Stream[i + n].sub => (i + n) - 1 < Header + Stream[1].size
          BY <1>2, <5>1, <5>2 DEF PacketInv, PacketsOnce
        <5>5. QED
          BY <5>2, <5>3, <5>4
      <4>3. x \in New
        BY <1>4, <2>3, <3>2
      <4>4. QED
        BY <1>2, <1>5, <4>1, <4>2, <4>3
    <3>3. QED
      BY <3>1, <3>2
  <2>4. ASSUME NEW i \in DOMAIN Stream', NEW j \in DOMAIN Stream', i <= j,
               Stream'[i].m.id = Stream'[j].m.id, Stream'[i].sub = Stream'[j].sub
        PROVE  j - i < Header + Stream'[i].size
    <3>1. i + n <= j + n /\ (j + n) - (i + n) = j - i
      BY <1>2, <1>3, <2>4
    <3>2. (j + n) - (i + n) < Header + Stream[i + n].size
      BY <1>2, <2>4, <3>1 DEF PacketInv, PacketsOnce
    <3>3. QED
      BY <1>2, <3>1, <3>2
  <2>5. QED
    BY <2>1, <2>2, <2>3, <2>4 DEF PacketsOnce
<1>10. times[id] # 0 => recvBuffer[1].sub # 0
  BY <1>0, <1>1, <1>2 DEF PacketInv, SpentOnce, Spent
<1>11. CASE Client!Complete(New, recvBuffer[1].m.len) /\ times' = [times EXCEPT ![id] = @ + 1]
  <2>1. (\E x \in New : x.sub = 0) /\ Cardinality(New) = Client!Count(recvBuffer[1].m.len)
    BY <1>1, <1>11, CompleteHasFirst
  <2>2. times[id] = 0
    <3> SUFFICES ASSUME times[id] # 0 PROVE FALSE
      OBVIOUS
    <3>1. PICK x \in Old : x.sub = 0
      BY <1>5, <1>10, <2>1
    <3>2. Cardinality(Old) >= Client!Count(recvBuffer[1].m.len)
      BY <1>0, <1>1, <1>6, <3>1 DEF PacketInv, SpentOnce, Spent, Old
    <3>3. QED
      BY <1>1, <2>1, <3>2
  <2>3. times'[id] = 1 /\ \A i \in Client!Ids : i # id => times'[i] = times[i]
    BY <1>1, <1>11, <2>2 DEF ClientTypes
  <2>4. ASSUME NEW i \in Client!Ids, times'[i] # 0, i # id
        PROVE  times'[i] = 1 /\ i < nextId' /\ Spent(i)'
    BY <1>2, <1>4, <1>7, <2>3, <2>4 DEF PacketInv, SpentOnce, Spent
  <2>5. Spent(id)'
    <3>1. PICK x \in stores'[id] : x.sub = 0
      BY <1>4, <2>1
    <3>2. id \in DOMAIN stores'
      BY <1>4
    <3>3. \A k \in sending' : k.id = id => k.sub # 0
      <4> SUFFICES ASSUME NEW k \in sending', k.id = id PROVE k.sub # 0
        OBVIOUS
      <4>1. x.sub < k.sub
        BY <1>9, <3>1, <3>2 DEF PacketsOnce
      <4>2. QED
        BY <3>1, <4>1
    <3>4. \A i \in DOMAIN Stream' : Stream'[i].m.id = id => Stream'[i].sub # 0
      BY <1>9, <3>1, <3>2 DEF PacketsOnce
    <3>5. \A f \in InFlight' : f.id = id => f = recvBuffer[1].m
      BY <1>0, <1>1, <1>7 DEF PacketInv, IdsKnown
    <3>6. \A f \in InFlight' : f.id = id => Cardinality(stores'[id]) >= Client!Count(f.len)
      BY <1>1, <1>4, <2>1, <3>5
    <3>7. QED
      BY <3>3, <3>4, <3>6 DEF Spent
  <2>6. SpentOnce'
    BY <1>1, <1>4, <2>3, <2>4, <2>5 DEF SpentOnce, Client!Ids
  <2>7. QED
    BY <1>0, <1>1, <1>7, <1>8, <1>9, <2>2, <2>6 DEF PacketInv
<1>12. CASE times' = times
  <2>1. ASSUME NEW i \in Client!Ids, times'[i] # 0
        PROVE  times'[i] = 1 /\ i < nextId' /\ Spent(i)'
    <3>1. times[i] = 1 /\ i < nextId /\ Spent(i)
      BY <1>12, <2>1 DEF PacketInv, SpentOnce
    <3>2. CASE i # id
      BY <1>2, <1>4, <1>7, <1>12, <3>1, <3>2 DEF Spent
    <3>3. CASE i = id
      <4>1. \A k \in sending' : k.id = id => k.sub # 0
        BY <1>4, <3>1, <3>3 DEF Spent
      <4>2. \A j \in DOMAIN Stream' : Stream'[j].m.id = id => Stream'[j].sub # 0
        BY <1>2, <3>1, <3>3 DEF Spent
      <4>3. ASSUME NEW f \in InFlight', f.id = id
            PROVE  Cardinality(New) >= Client!Count(f.len) \/ \A x \in New : x.sub # 0
        <5>1. f = recvBuffer[1].m /\ f \in InFlight
          BY <1>0, <1>1, <1>7, <4>3 DEF PacketInv, IdsKnown
        <5>2. f.len \in Nat /\ Client!Count(f.len) \in Int
          BY <1>1, <5>1, CountTyped DEF ClientMsg
        <5>3. CASE Cardinality(Old) >= Client!Count(f.len)
          BY <1>1, <5>2, <5>3
        <5>4. CASE \A x \in Old : x.sub # 0
          BY <1>5, <1>10, <3>1, <3>3, <5>4
        <5>5. id \in DOMAIN stores => Old = stores[id]
          BY <1>0 DEF Old
        <5>6. QED
          BY <1>6, <3>1, <3>3, <4>3, <5>1, <5>3, <5>4, <5>5 DEF Spent
      <4>4. QED
        BY <1>4, <1>12, <3>1, <3>3, <4>1, <4>2, <4>3 DEF Spent
    <3>4. QED
      BY <3>2, <3>3
  <2>2. SpentOnce'
    BY <2>1 DEF SpentOnce, Client!Ids
  <2>3. QED
    BY <1>1, <1>7, <1>8, <1>9, <1>12, <2>2 DEF PacketInv
<1>13. QED
  BY <1>0, <1>11, <1>12 DEF HandleDoes

\* A message more to be sent, under an id of its own.
LEMMA PacketsNew ==
    ASSUME PacketInv, ClientTypes', NEW k \in ClientMsg,
           k.id = nextId, k.sub = 0, nextId \in Client!Ids,
           sending' = sending \cup {k}, nextId' = nextId + 1,
           UNCHANGED <<times, stores, recvBuffer, sock, wire>>
    PROVE  PacketInv' /\ InFlight' = InFlight \cup {k} /\ k \notin InFlight
<1>1. Stream' = Stream
  BY DEF Stream
<1>2. Begun(k) = k /\ nextId \in Int
  BY DEF Begun, ClientMsg, PacketInv, ClientTypes
<1>3. InFlight' = InFlight \cup {k}
  BY <1>1, <1>2 DEF InFlight
<1>4. \A f \in InFlight : f.id \in Client!Ids /\ f.id < nextId /\ f.id # k.id
  BY <1>2 DEF PacketInv, IdsKnown
<1>5. \A m \in sending : m.id # k.id /\ m \in ClientMsg
  <2>1. ASSUME NEW m \in sending PROVE m.id # k.id /\ m \in ClientMsg
    <3>1. m \in ClientMsg
      BY DEF PacketInv, ClientTypes
    <3>2. Begun(m) \in InFlight /\ Begun(m).id = m.id
      BY <3>1, BegunFacts DEF InFlight
    <3>3. QED
      BY <1>4, <3>1, <3>2
  <2>2. QED
    BY <2>1
<1>6. \A i \in DOMAIN Stream : Stream[i].m.id # k.id
  BY <1>4 DEF InFlight
<1>7. \A id \in DOMAIN stores : id \in Int /\ id < nextId /\ id # k.id
  BY <1>2 DEF PacketInv, IdsKnown, ClientTypes, Client!Ids
<1>8. IdsKnown'
  <2>1. \A f \in InFlight' : f.id \in Client!Ids /\ f.id < nextId'
    BY <1>2, <1>3, <1>4 DEF Client!Ids
  <2>2. \A f, g \in InFlight' : f.id = g.id => f = g
    BY <1>3, <1>4 DEF PacketInv, IdsKnown
  <2>3. \A m, l \in sending' : m.id = l.id => m = l
    BY <1>5 DEF PacketInv, IdsKnown
  <2>4. \A id \in DOMAIN stores' : id < nextId'
    BY <1>2, <1>7
  <2>5. QED
    BY <2>1, <2>2, <2>3, <2>4 DEF IdsKnown, Client!Ids
<1>9. PacketsOnce'
  BY <1>1, <1>5, <1>6, <1>7 DEF PacketInv, PacketsOnce
<1>10. SpentOnce'
  <2>1. ASSUME NEW id \in Client!Ids, times'[id] # 0
        PROVE  times'[id] = 1 /\ id < nextId' /\ Spent(id)'
    <3>1. times[id] = 1 /\ id < nextId /\ Spent(id) /\ id \in Int
      BY <2>1 DEF PacketInv, SpentOnce, Client!Ids
    <3>2. id < nextId' /\ id # k.id
      BY <1>2, <3>1
    <3>3. \A m \in sending' : m.id = id => m.sub # 0
      BY <3>1, <3>2 DEF Spent
    <3>4. \A i \in DOMAIN Stream' : Stream'[i].m.id = id => Stream'[i].sub # 0
      BY <1>1, <3>1 DEF Spent
    <3>5. id \in DOMAIN stores' => \A f \in InFlight' : f.id = id =>
             Cardinality(stores'[id]) >= Client!Count(f.len) \/ \A x \in stores'[id] : x.sub # 0
      BY <1>3, <3>1, <3>2 DEF Spent
    <3>6. QED
      BY <3>1, <3>2, <3>3, <3>4, <3>5 DEF Spent
  <2>2. QED
    BY <2>1 DEF SpentOnce, Client!Ids
<1>11. QED
  BY <1>3, <1>4, <1>8, <1>9, <1>10 DEF PacketInv

LEMMA PacketsAnswer ==
    ASSUME PacketInv, Client!Answer
    PROVE  /\ PacketInv'
           /\ \E k \in ClientMsg : /\ k.kind = "login" /\ k.n = Len(verdict) + 1
                                   /\ InFlight' = InFlight \cup {k} /\ k \notin InFlight
<1>1. PICK k : k = Client!Message("login", Len(verdict) + 1, LoginLength)
  OBVIOUS
<1>2. /\ Len(verdict) \in Nat /\ LoginLength \in Nat /\ nextId \in Nat \ {0}
      /\ asked \in Nat /\ nextId + asked <= Messages + 1 /\ Messages \in Nat
  BY RawClientAssumption DEF PacketInv, ClientTypes
<1>3. k \in ClientMsg /\ k.kind = "login" /\ k.n = Len(verdict) + 1 /\ k.id = nextId /\ k.sub = 0
  BY <1>1, <1>2 DEF Client!Message, ClientMsg
<1>4. /\ sending' = sending \cup {k} /\ nextId' = nextId + 1 /\ asked > 0
      /\ UNCHANGED <<times, stores, recvBuffer, sock, wire>>
  BY <1>1 DEF Client!Answer, Client!net, Client!ghosts
<1>5. nextId \in Client!Ids
  BY <1>2, <1>4 DEF Client!Ids
<1>6. ClientTypes'
  BY TypesServer DEF PacketInv
<1>7. QED
  BY <1>3, <1>4, <1>5, <1>6, PacketsNew

LEMMA PacketsForward ==
    ASSUME PacketInv, Client!Forward
    PROVE  /\ PacketInv'
           /\ \A f \in InFlight' : f.kind = "login" => f \in InFlight
<1>1. PICK len \in ChatLengths : sending' = sending \cup {Client!Message("text", 0, len)}
  BY DEF Client!Forward
<1>2. PICK k : k = Client!Message("text", 0, len)
  OBVIOUS
<1>3. /\ len \in Nat /\ nextId \in Nat \ {0} /\ asked \in Nat /\ Messages \in Nat
  BY RawClientAssumption DEF PacketInv, ClientTypes
<1>4. k \in ClientMsg /\ k.kind = "text" /\ k.id = nextId /\ k.sub = 0
  BY <1>2, <1>3 DEF Client!Message, ClientMsg
<1>5. /\ sending' = sending \cup {k} /\ nextId' = nextId + 1 /\ nextId + asked <= Messages
      /\ UNCHANGED <<times, stores, recvBuffer, sock, wire>>
  BY <1>1, <1>2 DEF Client!Forward, Client!net, Client!ghosts
<1>6. nextId \in Client!Ids
  BY <1>3, <1>5 DEF Client!Ids
<1>7. ClientTypes'
  BY TypesServer DEF PacketInv
<1>8. PacketInv' /\ InFlight' = InFlight \cup {k}
  BY <1>4, <1>5, <1>6, <1>7, PacketsNew
<1>9. QED
  BY <1>4, <1>8

(***************************************************************************)
(* A login that returns true was accepted.                                 *)
(***************************************************************************)
LoginTasks == {t \in calls : t.m.kind = "login"}
Pending    == {f \in InFlight : f.kind = "login" /\ times[f.id] = 0}
Truthful   == loginStatus = 1 => Client!Accepted(logins)

CallsTyped == \A t \in calls :
    /\ t = [m |-> t.m, at |-> t.at, packets |-> t.packets] /\ t.m \in ClientMsg
    /\ t.at = "start" \/ (t.at = "event" /\ t.m.kind = "login")

\* An answer has the number of its login, and no two have the same.
AnswersKnown ==
    /\ \A f \in InFlight : f.kind = "login" => f.n \in 1..Len(verdict)
    /\ \A f, g \in InFlight : f.kind = "login" /\ g.kind = "login" /\ f.n = g.n => f.id = g.id

\* The answer that login() waits for is under way, handled, or counted in the
\* eventfd: in one of the three places, and only while login() waits.
OneAnswer ==
    /\ \A f \in Pending : f.n = logins /\ LoginTasks = {} /\ login_event = 0 /\ ui = "login"
    /\ \A t \in LoginTasks : /\ t.m.n = logins /\ Len(verdict) = logins
                             /\ login_event = 0 /\ ui = "login"
                             /\ t.at = "event" => Truthful
    /\ \A t, v \in LoginTasks : t = v
    /\ login_event # 0 => login_event = 1 /\ ui = "login" /\ Len(verdict) = logins /\ Truthful

LoginsCounted ==
    /\ ui # "login" => Len(verdict) = logins /\ asked = 0
    /\ ui = "login" => /\ logins >= 1 /\ Len(verdict) \in {logins - 1, logins}
                       /\ Len(verdict) + asked \in {logins - 1, logins}

LoginInv == CallsTyped /\ AnswersKnown /\ OneAnswer /\ LoginsCounted /\ wrong = FALSE

LEMMA LoginInit == ASSUME Client!Init PROVE LoginInv
<1>1. sending = {} /\ recvBuffer = <<>> /\ sock = <<>> /\ wire = <<>>
  BY DEF Client!Init
<1>2. DOMAIN Stream = {}
  <2>1. Len(Stream) = 0
    BY <1>1, ClientTypesInit, StreamParts
  <2>2. QED
    BY <2>1, ClientTypesInit, StreamParts
<1>3. InFlight = {} /\ Pending = {}
  BY <1>1, <1>2 DEF InFlight, Pending
<1>4. calls = {} /\ LoginTasks = {}
  BY DEF Client!Init, LoginTasks
<1>5. QED
  BY <1>3, <1>4 DEF Client!Init, LoginInv, CallsTyped, AnswersKnown, OneAnswer, LoginsCounted

\* The steps that leave the login alone: they may lose an answer, or forget
\* the status.
LEMMA LoginKeeps ==
    ASSUME LoginInv, \A f \in InFlight' : f.kind = "login" => f \in InFlight,
           UNCHANGED <<times, calls, verdict, logins, asked, login_event, wrong>>,
           loginStatus' = loginStatus \/ loginStatus' = Client!Unknown,
           ui' = ui \/ (ui # "login" /\ ui' # "login")
    PROVE  LoginInv'
<1>1. Pending' \subseteq Pending
  BY DEF Pending
<1>2. LoginTasks' = LoginTasks
  BY DEF LoginTasks
<1>3. Truthful => Truthful'
  BY DEF Truthful, Client!Accepted, Client!Unknown
<1>4. CallsTyped' /\ AnswersKnown' /\ LoginsCounted' /\ wrong' = FALSE
  BY DEF LoginInv, CallsTyped, AnswersKnown, LoginsCounted
<1>5. OneAnswer'
  BY <1>1, <1>2, <1>3 DEF LoginInv, OneAnswer
<1>6. QED
  BY <1>4, <1>5 DEF LoginInv

LEMMA LoginAnswer ==
    ASSUME PacketInv, LoginInv, Client!Answer PROVE LoginInv'
<1>1. PICK k \in ClientMsg : /\ k.kind = "login" /\ k.n = Len(verdict) + 1
                             /\ InFlight' = InFlight \cup {k} /\ k \notin InFlight
  BY PacketsAnswer
<1>2. PICK ok \in BOOLEAN : verdict' = Append(verdict, ok)
  BY DEF Client!Answer
<1>3. /\ verdict \in Seq(BOOLEAN) /\ Len(verdict) \in Nat /\ asked \in Nat /\ logins \in Nat
      /\ asked > 0 /\ asked' = asked - 1
      /\ UNCHANGED <<times, calls, logins, login_event, loginStatus, wrong, ui>>
  BY DEF PacketInv, ClientTypes, Client!Answer, Client!events, Client!ghosts
<1>4. Len(verdict') = Len(verdict) + 1
  BY <1>2, <1>3
<1>5. ui = "login" /\ logins = Len(verdict) + 1 /\ asked' = 0
  BY <1>3 DEF LoginInv, LoginsCounted
<1>6. Pending = {} /\ LoginTasks = {} /\ login_event = 0
  BY <1>3, <1>5 DEF LoginInv, OneAnswer, AnswersKnown, Pending
<1>7. LoginTasks' = {} /\ CallsTyped'
  BY <1>3, <1>6 DEF LoginTasks, LoginInv, CallsTyped
<1>8. \A f \in Pending' : f = k
  BY <1>1, <1>3, <1>6 DEF Pending
<1>9. OneAnswer'
  BY <1>1, <1>3, <1>5, <1>6, <1>7, <1>8 DEF OneAnswer
<1>10. AnswersKnown'
  <2>1. \A f \in InFlight : f.kind = "login" => f.n \in 1..Len(verdict)
    BY DEF LoginInv, AnswersKnown
  <2>2. \A f \in InFlight : f.kind = "login" => f.n \in 1..Len(verdict') /\ f.n # k.n
    BY <1>1, <1>3, <1>4, <2>1
  <2>3. k.n \in 1..Len(verdict')
    BY <1>1, <1>3, <1>4
  <2>4. \A f \in InFlight' : f \in InFlight \/ f = k
    BY <1>1
  <2>5. QED
    BY <2>2, <2>3, <2>4 DEF LoginInv, AnswersKnown
<1>11. LoginsCounted'
  BY <1>3, <1>4, <1>5 DEF LoginsCounted
<1>12. QED
  BY <1>3, <1>7, <1>9, <1>10, <1>11 DEF LoginInv

LEMMA LoginHandle ==
    ASSUME PacketInv, LoginInv, HandleDoes PROVE LoginInv'
<1>1. /\ InFlight' \subseteq InFlight /\ recvBuffer[1].m \in InFlight
      /\ recvBuffer[1].m.id \in Client!Ids /\ recvBuffer[1].m \in ClientMsg
      /\ times' # times => times[recvBuffer[1].m.id] = 0
  BY HandleFinds, PacketsHandle
<1>2. CASE UNCHANGED <<calls, times>>
  BY <1>1, <1>2, LoginKeeps DEF HandleDoes
<1>3. CASE ~UNCHANGED <<calls, times>>
  <2>1. PICK m : m = recvBuffer[1].m
    OBVIOUS
  <2>2. calls' = calls \cup {[m |-> m, at |-> "start", packets |-> New]}
    BY <1>3, <2>1 DEF HandleDoes
  <2>3. PICK t : t = [m |-> m, at |-> "start", packets |-> New]
    OBVIOUS
  <2>4. times' = [times EXCEPT ![m.id] = @ + 1] /\ times \in [Client!Ids -> Nat]
    BY <1>3, <2>1 DEF HandleDoes, PacketInv, ClientTypes
  <2>5. times[m.id] = 0 /\ times'[m.id] = 1 /\ \A i \in Client!Ids : i # m.id => times'[i] = times[i]
    BY <1>1, <2>1, <2>4
  <2>6. UNCHANGED <<verdict, logins, asked, login_event, loginStatus, wrong, ui>>
    BY DEF HandleDoes
  <2>7. CallsTyped'
    BY <1>1, <2>1, <2>2 DEF LoginInv, CallsTyped
  <2>8. AnswersKnown' /\ LoginsCounted'
    BY <1>1, <2>6 DEF LoginInv, AnswersKnown, LoginsCounted
  <2>9. Truthful' = Truthful
    BY <2>6 DEF Truthful, Client!Accepted
  <2>10. \A f \in InFlight' : f.id \in Client!Ids
    BY <1>1 DEF PacketInv, IdsKnown
  <2>11. \A f \in Pending' : f \in Pending /\ f.id # m.id
    BY <1>1, <2>5, <2>10 DEF Pending
  <2>12. CASE m.kind = "login"
    <3>1. m \in Pending
      BY <1>1, <2>1, <2>5, <2>12 DEF Pending
    <3>2. Pending' = {}
      BY <2>11, <3>1 DEF LoginInv, OneAnswer, AnswersKnown, Pending
    <3>3. /\ m.n = logins /\ LoginTasks = {} /\ login_event = 0 /\ ui = "login"
      BY <3>1 DEF LoginInv, OneAnswer
    <3>4. Len(verdict) = logins
      <4>1. /\ m.n \in 1..Len(verdict) /\ Len(verdict) \in {logins - 1, logins}
            /\ logins \in Nat
        BY <3>1, <3>3 DEF LoginInv, AnswersKnown, LoginsCounted, Pending, PacketInv, ClientTypes
      <4>2. QED
        BY <3>3, <4>1
    <3>5. LoginTasks' = {t}
      BY <2>2, <2>3, <2>12, <3>3 DEF LoginTasks
    <3>6. OneAnswer'
      BY <2>3, <2>6, <3>2, <3>3, <3>4, <3>5 DEF OneAnswer
    <3>7. QED
      BY <2>6, <2>7, <2>8, <3>6 DEF LoginInv
  <2>13. CASE m.kind # "login"
    <3>1. LoginTasks' = LoginTasks
      BY <2>2, <2>13 DEF LoginTasks
    <3>2. OneAnswer'
      BY <2>6, <2>9, <2>11, <3>1 DEF LoginInv, OneAnswer
    <3>3. QED
      BY <2>6, <2>7, <2>8, <3>2 DEF LoginInv
  <2>14. QED
    BY <2>12, <2>13
<1>4. QED
  BY <1>2, <1>3

\* What of the invariant a step on the calls leaves alone.
LEMMA LoginElse ==
    ASSUME LoginInv, InFlight' = InFlight,
           UNCHANGED <<times, verdict, logins, asked, wrong, ui>>
    PROVE  /\ AnswersKnown' /\ LoginsCounted' /\ wrong' = FALSE
           /\ Pending' = Pending
  BY DEF LoginInv, AnswersKnown, LoginsCounted, Pending

LEMMA LoginTaskRuns ==
    ASSUME PacketInv, LoginInv, NEW t \in calls, Client!HandleData(t), InFlight' = InFlight
    PROVE  LoginInv'
<1>1. UNCHANGED <<times, verdict, logins, asked, wrong, ui, login_event>>
  BY DEF Client!HandleData, Client!server, Client!events
<1>2. AnswersKnown' /\ LoginsCounted' /\ wrong' = FALSE /\ Pending' = Pending
  BY <1>1, LoginElse
<1>3. t.at = "start"
  BY DEF Client!HandleData
<1>4. CASE calls' = calls \ {t} /\ loginStatus' = loginStatus
  <2>1. LoginTasks' \subseteq LoginTasks /\ CallsTyped'
    BY <1>4 DEF LoginTasks, LoginInv, CallsTyped
  <2>2. Truthful' = Truthful
    BY <1>1, <1>4 DEF Truthful, Client!Accepted
  <2>3. OneAnswer'
    BY <1>1, <1>2, <2>1, <2>2 DEF LoginInv, OneAnswer
  <2>4. QED
    BY <1>2, <2>1, <2>3 DEF LoginInv
<1>5. CASE /\ t.m.kind = "login" /\ loginStatus' = IF verdict[t.m.n] THEN 1 ELSE -1
           /\ calls' = (calls \ {t}) \cup {[t EXCEPT !.at = "event"]}
  <2>1. PICK u : u = [t EXCEPT !.at = "event"]
    OBVIOUS
  <2>2. u = [m |-> t.m, at |-> "event", packets |-> t.packets] /\ t.m \in ClientMsg
    BY <2>1 DEF LoginInv, CallsTyped
  <2>3. CallsTyped'
    BY <1>5, <2>1, <2>2 DEF LoginInv, CallsTyped
  <2>4. t \in LoginTasks /\ \A v \in LoginTasks : v = t
    BY <1>5 DEF LoginTasks, LoginInv, OneAnswer
  <2>5. t.m.n = logins /\ Len(verdict) = logins /\ login_event = 0 /\ ui = "login" /\ logins >= 1
    BY <2>4 DEF LoginInv, OneAnswer, LoginsCounted
  <2>6. LoginTasks' = {u}
    BY <1>5, <2>1, <2>2, <2>4 DEF LoginTasks
  <2>7. Pending = {}
    BY <2>4 DEF LoginInv, OneAnswer
  <2>8. Truthful'
    <3>1. loginStatus' = 1 => verdict[logins]
      BY <1>5, <2>5
    <3>2. logins \in DOMAIN verdict
      BY <2>5 DEF PacketInv, ClientTypes
    <3>3. QED
      BY <1>1, <3>1, <3>2 DEF Truthful, Client!Accepted
  <2>9. OneAnswer'
    BY <1>1, <1>2, <2>2, <2>5, <2>6, <2>7, <2>8 DEF OneAnswer
  <2>10. QED
    BY <1>2, <2>3, <2>9 DEF LoginInv
<1>6. QED
  BY <1>3, <1>4, <1>5 DEF Client!HandleData

LEMMA LoginTaskEnds ==
    ASSUME LoginInv, NEW t \in calls, Client!LoginEvent(t), InFlight' = InFlight
    PROVE  LoginInv'
<1>1. /\ UNCHANGED <<times, verdict, logins, asked, wrong, ui, loginStatus>>
      /\ t.at = "event" /\ login_event' = login_event + 1 /\ calls' = calls \ {t}
  BY DEF Client!LoginEvent, Client!server, Client!ghosts
<1>2. AnswersKnown' /\ LoginsCounted' /\ wrong' = FALSE /\ Pending' = Pending
  BY <1>1, LoginElse
<1>3. t \in LoginTasks /\ \A v \in LoginTasks : v = t
  BY <1>1 DEF LoginTasks, LoginInv, CallsTyped, OneAnswer
<1>4. LoginTasks' = {} /\ CallsTyped'
  BY <1>1, <1>3 DEF LoginTasks, LoginInv, CallsTyped
<1>5. Pending = {} /\ Len(verdict) = logins /\ login_event' = 1 /\ ui = "login" /\ Truthful
  BY <1>1, <1>3 DEF LoginInv, OneAnswer
<1>6. Truthful'
  BY <1>1, <1>5 DEF Truthful, Client!Accepted
<1>7. OneAnswer'
  BY <1>1, <1>2, <1>4, <1>5, <1>6 DEF OneAnswer
<1>8. QED
  BY <1>2, <1>4, <1>7 DEF LoginInv

LEMMA LoginBegins ==
    ASSUME PacketInv, LoginInv, Client!login, InFlight' = InFlight PROVE LoginInv'
<1>1. /\ UNCHANGED <<times, verdict, calls, login_event, loginStatus, wrong>>
      /\ ui = "free" /\ ui' = "login" /\ logins' = logins + 1
      /\ asked' \in {asked, asked + 1}
  BY DEF Client!login, Client!uiRest, Client!events
<1>2. Len(verdict) = logins /\ asked = 0 /\ logins \in Nat
  BY <1>1 DEF LoginInv, LoginsCounted, PacketInv, ClientTypes
<1>3. Pending = {} /\ LoginTasks = {} /\ login_event = 0
  BY <1>1 DEF LoginInv, OneAnswer
<1>4. Pending' = {} /\ LoginTasks' = {} /\ CallsTyped'
  BY <1>1, <1>3 DEF Pending, LoginTasks, LoginInv, CallsTyped
<1>5. OneAnswer'
  BY <1>1, <1>3, <1>4 DEF OneAnswer
<1>6. LoginsCounted'
  <2>1. Len(verdict') = logins' - 1 /\ logins' >= 1
    BY <1>1, <1>2
  <2>2. Len(verdict') + asked' \in {logins' - 1, logins'}
    <3>1. asked' = 0 \/ asked' = 1
      BY <1>1, <1>2
    <3>2. PICK l \in Nat : l = logins /\ logins' = l + 1 /\ Len(verdict') = l
      BY <1>1, <1>2
    <3>3. QED
      BY <3>1, <3>2
  <2>3. QED
    BY <1>1, <2>1, <2>2 DEF LoginsCounted
<1>7. AnswersKnown'
  BY <1>1 DEF LoginInv, AnswersKnown
<1>8. QED
  BY <1>1, <1>4, <1>5, <1>6, <1>7 DEF LoginInv

LEMMA LoginReturns ==
    ASSUME PacketInv, LoginInv, Client!wait_for_login, InFlight' = InFlight PROVE LoginInv'
<1>1. /\ UNCHANGED <<times, verdict, calls, logins, asked, loginStatus>>
      /\ login_event # 0 /\ login_event' = 0 /\ ui' = "free"
      /\ wrong' = (wrong \/ (loginStatus = 1 /\ ~Client!Accepted(logins)))
  BY DEF Client!wait_for_login, Client!Blocking, Client!uiRest
<1>2. ui = "login" /\ Len(verdict) = logins /\ Truthful
  BY <1>1 DEF LoginInv, OneAnswer
<1>3. asked' = 0
  BY <1>1, <1>2 DEF LoginInv, LoginsCounted, PacketInv, ClientTypes
<1>4. Pending = {} /\ LoginTasks = {}
  BY <1>1 DEF LoginInv, OneAnswer
<1>5. Pending' = {} /\ LoginTasks' = {} /\ CallsTyped'
  BY <1>1, <1>4 DEF Pending, LoginTasks, LoginInv, CallsTyped
<1>6. wrong' = FALSE
  BY <1>1, <1>2 DEF Truthful, LoginInv
<1>7. OneAnswer'
  BY <1>1, <1>5 DEF OneAnswer
<1>8. AnswersKnown' /\ LoginsCounted'
  BY <1>1, <1>2, <1>3 DEF LoginInv, AnswersKnown, LoginsCounted
<1>9. QED
  BY <1>5, <1>6, <1>7, <1>8 DEF LoginInv

(***************************************************************************)
(* What is shown of a message.                                             *)
(***************************************************************************)
WholeOrShort(S, len) == S = Client!Pieces(len) \/ Client!Count(len) < Client!Packs(len)
PieceOf(u) == [sub |-> u.sub, size |-> u.size]

\* Everywhere between the server and the screen are only packets of the message
\* they are said to be of.
WholeInv ==
    /\ \A m \in sending : m.sub < Client!Packs(m.len)
    /\ \A i \in DOMAIN Stream : PieceOf(Stream[i]) \in Client!Pieces(Stream[i].m.len)
    /\ \A f \in InFlight : f.id \in DOMAIN stores => stores[f.id] \subseteq Client!Pieces(f.len)
    /\ \A t \in calls : WholeOrShort(t.packets, t.m.len)
    /\ \A h \in handled : WholeOrShort(h.shown, h.sent)

LEMMA PacksTyped ==
    ASSUME NEW len \in Nat
    PROVE  Client!Packs(len) \in Int /\ (len # 0 => Client!Packs(len) >= 1)
<1>1. PICK p \in Nat \ {0} : p = Client!Payload
  BY SizeTyped
<1>2. (len + p - 1) \div p \in Int
  OBVIOUS
<1>3. len # 0 => (len + p - 1) \div p >= 1
  OBVIOUS
<1>4. QED
  BY <1>1, <1>2, <1>3 DEF Client!Packs

\* As many packets as the header says, numbered without a gap, are all there are,
\* if the header does not say too few.
LEMMA CompleteIsWhole ==
    ASSUME NEW len \in Nat, NEW S, S \subseteq Client!Pieces(len), Client!Complete(S, len)
    PROVE  WholeOrShort(S, len)
<1>1. Client!Packs(len) \in Int /\ Client!Count(len) \in Int
  BY PacksTyped, CountTyped
<1>2. {x.sub : x \in S} = 0..(Client!Count(len) - 1)
  BY Zenon DEF Client!Complete
<1>3. ASSUME Client!Count(len) >= Client!Packs(len) PROVE Client!Pieces(len) \subseteq S
  <2>1. ASSUME NEW k \in 0..(Client!Packs(len) - 1)
        PROVE  [sub |-> k, size |-> Client!SizeOf(len, k)] \in S
    <3>1. k \in 0..(Client!Count(len) - 1)
      BY <1>1, <1>3
    <3>2. PICK x \in S : x.sub = k
      BY <1>2, <3>1
    <3>3. PICK j \in 0..(Client!Packs(len) - 1) : x = [sub |-> j, size |-> Client!SizeOf(len, j)]
      BY <3>2 DEF Client!Pieces
    <3>4. QED
      BY <3>2, <3>3
  <2>2. QED
    BY <2>1 DEF Client!Pieces
<1>4. QED
  BY <1>1, <1>3 DEF WholeOrShort

LEMMA WholeInit == ASSUME Client!Init PROVE WholeInv
<1>1. sending = {} /\ recvBuffer = <<>> /\ sock = <<>> /\ wire = <<>> /\ calls = {} /\ handled = {}
  BY DEF Client!Init
<1>2. DOMAIN Stream = {}
  <2>1. Len(Stream) = 0
    BY <1>1, ClientTypesInit, StreamParts
  <2>2. QED
    BY <2>1, ClientTypesInit, StreamParts
<1>3. QED
  BY <1>1, <1>2 DEF WholeInv, InFlight

\* The steps that bring nothing new.
LEMMA WholeKeeps ==
    ASSUME WholeInv, sending' \subseteq sending, InFlight' \subseteq InFlight,
           \A i \in DOMAIN Stream' : \E j \in DOMAIN Stream : Stream'[i] = Stream[j],
           stores' = stores \/ stores' = <<>>,
           \A t \in calls' : \E u \in calls : t.packets = u.packets /\ t.m = u.m,
           \A h \in handled' : \/ h \in handled
                               \/ \E u \in calls : h.shown = u.packets /\ h.sent = u.m.len
    PROVE  WholeInv'
<1>1. \A m \in sending' : m.sub < Client!Packs(m.len)
  BY DEF WholeInv
<1>2. \A i \in DOMAIN Stream' : PieceOf(Stream'[i]) \in Client!Pieces(Stream'[i].m.len)
  BY DEF WholeInv
<1>3. \A f \in InFlight' : f.id \in DOMAIN stores' => stores'[f.id] \subseteq Client!Pieces(f.len)
  BY DEF WholeInv
<1>4. \A t \in calls' : WholeOrShort(t.packets, t.m.len)
  BY DEF WholeInv
<1>5. \A h \in handled' : WholeOrShort(h.shown, h.sent)
  BY DEF WholeInv
<1>6. QED
  BY <1>1, <1>2, <1>3, <1>4, <1>5 DEF WholeInv, PieceOf, WholeOrShort

\* The same when the stream and the calls stay as they are.
LEMMA WholeElsewhere ==
    ASSUME WholeInv,
           UNCHANGED <<sending, recvBuffer, sock, wire, calls, handled>>,
           stores' = stores \/ stores' = <<>>
    PROVE  WholeInv'
<1>1. Stream' = Stream /\ InFlight' = InFlight
  BY DEF Stream, InFlight
<1>2. QED
  BY <1>1, WholeKeeps

LEMMA WholePiece ==
    ASSUME WholeInv, Piece, sending' \subseteq sending, InFlight' \subseteq InFlight,
           UNCHANGED <<calls, handled>>, stores' = stores \/ stores' = <<>>
    PROVE  WholeInv'
<1>1. \A i \in DOMAIN Stream' : \E j \in DOMAIN Stream : Stream'[i] = Stream[j]
  BY DEF Piece
<1>2. QED
  BY <1>1, WholeKeeps

LEMMA WholeNew ==
    ASSUME PacketInv, WholeInv, Client!Answer \/ Client!Forward PROVE WholeInv'
<1> USE DEF Client!server, Client!net, Client!ghosts
<1>1. /\ nextId \in Nat \ {0} /\ \A len \in ChatLengths : len \in Nat \ {0}
      /\ LoginLength \in Nat \ {0} /\ Len(verdict) \in Nat
  BY RawClientAssumption DEF PacketInv, ClientTypes
<1>2. PICK k \in ClientMsg : /\ k.id = nextId /\ k.sub = 0 /\ k.len # 0
                             /\ sending' = sending \cup {k}
  <2>1. CASE Client!Answer
    <3>1. PICK k : k = Client!Message("login", Len(verdict) + 1, LoginLength)
      OBVIOUS
    <3>2. k \in ClientMsg /\ k.id = nextId /\ k.sub = 0 /\ k.len # 0
      BY <1>1, <3>1 DEF Client!Message, ClientMsg
    <3>3. QED
      BY <2>1, <3>1, <3>2 DEF Client!Answer
  <2>2. CASE Client!Forward
    <3>1. PICK len \in ChatLengths : sending' = sending \cup {Client!Message("text", 0, len)}
      BY <2>2 DEF Client!Forward
    <3>2. PICK k : k = Client!Message("text", 0, len)
      OBVIOUS
    <3>3. k \in ClientMsg /\ k.id = nextId /\ k.sub = 0 /\ k.len # 0
      BY <1>1, <3>2 DEF Client!Message, ClientMsg
    <3>4. QED
      BY <3>1, <3>2, <3>3
  <2>3. QED
    BY <2>1, <2>2
<1>3. UNCHANGED <<recvBuffer, sock, wire, stores, calls, handled>> /\ Stream' = Stream
  BY DEF Client!Answer, Client!Forward, Stream
<1>4. Begun(k) = k /\ k.len \in Nat
  BY <1>2 DEF Begun, ClientMsg
<1>5. \A f \in InFlight' : f \in InFlight \/ f = k
  BY <1>2, <1>3, <1>4 DEF InFlight
<1>6. k.id \notin DOMAIN stores
  BY <1>1, <1>2 DEF PacketInv, IdsKnown
<1>7. k.sub < Client!Packs(k.len)
  BY <1>2, <1>4, PacksTyped
<1>8. \A m \in sending' : m.sub < Client!Packs(m.len)
  BY <1>2, <1>7 DEF WholeInv
<1>9. \A f \in InFlight' : f.id \in DOMAIN stores' => stores'[f.id] \subseteq Client!Pieces(f.len)
  BY <1>3, <1>5, <1>6 DEF WholeInv
<1>10. QED
  BY <1>3, <1>8, <1>9 DEF WholeInv, PieceOf, WholeOrShort

LEMMA WholeSend ==
    ASSUME PacketInv, WholeInv, NEW m \in sending, Client!SendPacket(m) PROVE WholeInv'
<1> USE DEF Client!server, Client!net, Client!flags, Client!events, Client!ghosts
<1>1. /\ m \in ClientMsg /\ m.len \in Nat /\ m.sub \in Nat /\ m.sub < Client!Packs(m.len)
      /\ Client!Packs(m.len) \in Int
  BY PacksTyped DEF PacketInv, ClientTypes, ClientMsg, WholeInv
<1>2. PICK next : next = [m EXCEPT !.sub = @ + 1]
  OBVIOUS
<1>3. next.sub = m.sub + 1 /\ next.len = m.len
  BY <1>1, <1>2 DEF ClientMsg
<1>4. /\ sending' \subseteq (sending \ {m}) \cup {next}
      /\ m.sub + 1 = Client!Packs(m.len) => sending' = sending \ {m}
      /\ UNCHANGED <<stores, calls, handled>>
  BY <1>2 DEF Client!SendPacket
<1>5. InFlight' \subseteq InFlight
  BY PacketsSend
<1>6. PICK add : SentOn(m, add)
  BY SendsOn
<1>7. \A l \in sending' : l.sub < Client!Packs(l.len)
  <2>1. next \in sending' /\ next \notin sending => m.sub + 1 < Client!Packs(m.len)
    BY <1>1, <1>4
  <2>2. QED
    BY <1>3, <1>4, <2>1 DEF WholeInv
<1>8. PieceOf([sub |-> m.sub, size |-> Client!SizeOf(m.len, m.sub)]) \in Client!Pieces(m.len)
  BY <1>1 DEF PieceOf, Client!Pieces
<1>9. ASSUME NEW i \in DOMAIN Stream'
      PROVE  PieceOf(Stream'[i]) \in Client!Pieces(Stream'[i].m.len)
  <2>1. CASE i \in DOMAIN Stream /\ Stream'[i] = Stream[i]
    BY <2>1 DEF WholeInv
  <2>2. CASE i \in add
    <3>1. /\ Stream'[i].m = Begun(m) /\ Stream'[i].sub = m.sub
          /\ Stream'[i].size = Client!SizeOf(m.len, m.sub)
      BY <1>6, <2>2 DEF SentOn
    <3>2. Begun(m).len = m.len
      BY <1>1, BegunFacts
    <3>3. QED
      BY <1>8, <3>1, <3>2 DEF PieceOf
  <2>3. QED
    BY <1>6, <2>1, <2>2 DEF SentOn
<1>10. \A f \in InFlight' : f.id \in DOMAIN stores' => stores'[f.id] \subseteq Client!Pieces(f.len)
  BY <1>4, <1>5 DEF WholeInv
<1>11. QED
  BY <1>4, <1>7, <1>9, <1>10 DEF WholeInv, PieceOf, WholeOrShort

LEMMA WholeHandle ==
    ASSUME PacketInv, WholeInv, HandleDoes, handled' = handled PROVE WholeInv'
<1>1. PICK id, f : id = recvBuffer[1].m.id /\ f = recvBuffer[1].m
  OBVIOUS
<1>2. /\ f \in InFlight /\ f \in ClientMsg /\ id = f.id
      /\ ClientTypes /\ ClientTypes' /\ InFlight' \subseteq InFlight
  BY <1>1, HandleFinds, PacketsHandle DEF PacketInv
<1>3. 1 \in DOMAIN Stream /\ Stream[1] = recvBuffer[1]
  BY <1>2, PieceHandle
<1>4. \A i \in DOMAIN Stream' : \E j \in DOMAIN Stream : Stream'[i] = Stream[j]
  BY <1>2, PieceHandle
<1>5. New \subseteq Client!Pieces(f.len)
  <2>1. Old \subseteq Client!Pieces(f.len)
    BY <1>1, <1>2 DEF WholeInv, Old
  <2>2. PieceOf(recvBuffer[1]) \in Client!Pieces(f.len)
    BY <1>1, <1>3 DEF WholeInv
  <2>3. QED
    BY <2>1, <2>2 DEF New, PieceOf
<1>6. /\ stores' = [i \in DOMAIN stores \cup {id} |-> IF i = id THEN New ELSE stores[i]]
      /\ sending' = sending
  BY <1>1 DEF HandleDoes
<1>7. ASSUME NEW g \in InFlight', g.id \in DOMAIN stores'
      PROVE  stores'[g.id] \subseteq Client!Pieces(g.len)
  <2>1. CASE g.id = id
    <3>1. g = f
      BY <1>2, <1>7, <2>1 DEF PacketInv, IdsKnown
    <3>2. QED
      BY <1>5, <1>6, <1>7, <2>1, <3>1
  <2>2. CASE g.id # id
    BY <1>2, <1>6, <1>7, <2>2 DEF WholeInv
  <2>3. QED
    BY <2>1, <2>2
<1>8. ASSUME NEW t \in calls' PROVE WholeOrShort(t.packets, t.m.len)
  <2>1. CASE t \in calls
    BY <2>1 DEF WholeInv
  <2>2. CASE t \notin calls
    <3>1. /\ Client!Complete(New, f.len)
          /\ t = [m |-> f, at |-> "start", packets |-> New]
      BY <1>1, <1>8, <2>2 DEF HandleDoes
    <3>2. f.len \in Nat
      BY <1>2 DEF ClientMsg
    <3>3. WholeOrShort(New, f.len)
      BY <1>5, <3>1, <3>2, CompleteIsWhole
    <3>4. QED
      BY <3>1, <3>3
  <2>3. QED
    BY <2>1, <2>2
<1>9. \A i \in DOMAIN Stream' : PieceOf(Stream'[i]) \in Client!Pieces(Stream'[i].m.len)
  BY <1>4 DEF WholeInv
<1>10. QED
  BY <1>6, <1>7, <1>8, <1>9 DEF WholeInv, PieceOf, WholeOrShort

LEMMA WholeTask ==
    ASSUME PacketInv, LoginInv, WholeInv, NEW t \in calls,
           Client!HandleData(t) \/ Client!LoginEvent(t)
    PROVE  WholeInv'
<1>1. UNCHANGED <<sending, recvBuffer, sock, wire, stores>>
  BY DEF Client!HandleData, Client!LoginEvent, Client!server, Client!net
<1>2. Stream' = Stream /\ InFlight' = InFlight
  BY <1>1 DEF Stream, InFlight
<1>3. PICK u : u = [t EXCEPT !.at = "event"]
  OBVIOUS
<1>4. u.packets = t.packets /\ u.m = t.m
  BY <1>3 DEF LoginInv, CallsTyped
<1>5. \A c \in calls' : c \in calls \/ c = u
  BY <1>3 DEF Client!HandleData, Client!LoginEvent
<1>6. \A h \in handled' : \/ h \in handled
                          \/ h = [id |-> t.m.id, sent |-> t.m.len, shown |-> t.packets]
  BY DEF Client!HandleData, Client!LoginEvent, Client!ghosts
<1>7. \A c \in calls' : \E v \in calls : c.packets = v.packets /\ c.m = v.m
  BY <1>4, <1>5
<1>8. \A h \in handled' : h \in handled \/ \E v \in calls : h.shown = v.packets /\ h.sent = v.m.len
  BY <1>6
<1>9. QED
  BY <1>1, <1>2, <1>7, <1>8, WholeKeeps

(***************************************************************************)
(* Its two waits.                                                          *)
(***************************************************************************)
SleepInv ==
    /\ everythingDead \in BOOLEAN /\ (everythingDead <=> ui \in {"stop", "over"})
    /\ rt = "read" /\ connect_event = 0 /\ ui \in {"flag", "stop", "over"} => early
    /\ ~unreported /\ sock # <<>> /\ rt # "recv" => full
    /\ unreported \in BOOLEAN /\ full \in BOOLEAN /\ early \in BOOLEAN

LEMMA SleepInit == Client!Init => SleepInv
  BY DEF Client!Init, SleepInv

LEMMA SleepReceive == ASSUME ClientTypes, SleepInv, Client!Receive PROVE SleepInv'
<1> DEFINE n == Client!Min({MaxPacketSize, Len(sock)})
<1>1. /\ n \in Nat /\ n <= Len(sock) /\ Len(sock) \in Nat /\ sock \in Seq(ClientUnit)
      /\ sock' = SubSeq(sock, n + 1, Len(sock)) /\ full' = (full \/ Len(sock) > n)
      /\ rt' = "cut"
      /\ UNCHANGED <<everythingDead, ui, connect_event, early, unreported>>
  <2>1. sock \in Seq(ClientUnit) /\ Len(sock) \in Nat /\ MaxPacketSize \in Nat
    BY RawClientAssumption DEF ClientTypes
  <2>2. n \in Nat /\ n <= Len(sock)
    BY <2>1, MinOfTwo
  <2>3. QED
    BY <2>1, <2>2 DEF Client!Receive, Client!server, Client!flags, Client!events
<1> HIDE DEF n
<1>2. Len(sock) = n => sock' = <<>>
  BY <1>1
<1>3. CASE Len(sock) = n
  BY <1>1, <1>2, <1>3 DEF SleepInv
<1>4. CASE Len(sock) > n
  BY <1>1, <1>4 DEF SleepInv
<1>5. QED
  BY <1>1, <1>3, <1>4

LEMMA SleepNext ==
    ASSUME ClientTypes, SleepInv, [Client!Next]_(Client!vars) PROVE SleepInv'
<1> USE DEF Client!server, Client!net, Client!flags, Client!events, Client!ghosts,
            Client!rtRest, Client!uiRest
<1>1. CASE Client!Answer
  BY <1>1 DEF SleepInv, Client!Answer
<1>2. CASE Client!Forward
  BY <1>2 DEF SleepInv, Client!Forward
<1>3. CASE \E m \in sending : Client!SendPacket(m)
  BY <1>3 DEF SleepInv, Client!SendPacket
<1>4. CASE Client!Arrive
  BY <1>4 DEF SleepInv, Client!Arrive
<1>5. CASE Client!PeerLeaves
  BY <1>5 DEF SleepInv, Client!PeerLeaves
<1>6. CASE Client!Top
  BY <1>6 DEF SleepInv, Client!Top
<1>7. CASE Client!Off
  BY <1>7 DEF SleepInv, Client!Off
<1>8. CASE Client!ReadConnectEvent
  BY <1>8 DEF SleepInv, Client!ReadConnectEvent
<1>9. CASE Client!CheckDead
  BY <1>9 DEF SleepInv, Client!CheckDead
<1>10. CASE Client!Stopped
  BY <1>10 DEF SleepInv, Client!Stopped
<1>11. CASE Client!Reported
  BY <1>11 DEF SleepInv, Client!Reported
<1>12. CASE Client!Receive
  BY <1>12, SleepReceive
<1>13. CASE Client!ReceiveFails
  BY <1>13 DEF SleepInv, Client!ReceiveFails, Client!Reset, ClientTypes
<1>14. CASE Client!CutEnds
  BY <1>14 DEF SleepInv, Client!CutEnds
<1>15. CASE Client!handle_packet
  BY <1>15 DEF SleepInv, Client!handle_packet
<1>16. CASE \E t \in calls : Client!HandleData(t) \/ Client!LoginEvent(t)
  BY <1>16 DEF SleepInv, Client!HandleData, Client!LoginEvent
<1>17. CASE Client!login \/ Client!wait_for_login
  BY <1>17 DEF SleepInv, Client!login, Client!wait_for_login
<1>18. CASE Client!onOnline
  BY <1>18 DEF SleepInv, Client!onOnline, ClientTypes
<1>19. CASE Client!onOffline \/ Client!shutdown
  BY <1>19 DEF SleepInv, Client!onOffline, Client!shutdown, Client!StartOffline, Client!Reset
<1>20. CASE Client!WriteConnectEvent
  BY <1>20 DEF SleepInv, Client!WriteConnectEvent, Client!Wake, ClientTypes
<1>21. CASE Client!SetDead
  BY <1>21 DEF SleepInv, Client!SetDead
<1>22. CASE Client!WriteStopEvent
  BY <1>22 DEF SleepInv, Client!WriteStopEvent
<1>23. CASE UNCHANGED Client!vars
  BY <1>23 DEF SleepInv, Client!vars
<1>24. QED
  BY <1>1, <1>2, <1>3, <1>4, <1>5, <1>6, <1>7, <1>8, <1>9, <1>10, <1>11, <1>12, <1>13, <1>14,
     <1>15, <1>16, <1>17, <1>18, <1>19, <1>20, <1>21, <1>22, <1>23 DEF Client!Next

(***************************************************************************)
(* All four together.                                                      *)
(***************************************************************************)
ClientInv == PacketInv /\ LoginInv /\ WholeInv /\ SleepInv

LEMMA ClientInit == Client!Init => ClientInv
  BY PacketInit, LoginInit, WholeInit, SleepInit DEF ClientInv

\* Steps of the receive thread and of the user that leave the stream alone.
LEMMA PacketsElsewhere ==
    ASSUME PacketInv,
           UNCHANGED <<nextId, asked, logins, verdict, sending, recvBuffer, sock, wire, times, stores>>,
           connect_event' \in Nat, login_event' \in Nat
    PROVE  PacketInv' /\ InFlight' = InFlight
<1>1. ClientTypes'
  BY TypesElsewhere DEF PacketInv
<1>2. Stream' = Stream
  BY DEF Stream
<1>3. PacketInv'
  BY <1>1, <1>2, PacketsLess, SameStream DEF PacketInv
<1>4. QED
  BY <1>2, <1>3 DEF InFlight

\* Steps that lose units, or only move them on.
LEMMA PieceMoves ==
    ASSUME PacketInv, Client!Arrive \/ Client!PeerLeaves \/ Client!Receive \/ Client!ReceiveFails
    PROVE  Piece
<1>1. ClientTypes /\ ClientTypes'
  BY TypesMove DEF PacketInv
<1>2. CASE Client!Arrive
  BY <1>1, <1>2, PieceArrive
<1>3. CASE Client!PeerLeaves
  <2>1. UNCHANGED <<recvBuffer, sock>> /\ wire' = <<>>
    BY <1>3 DEF Client!PeerLeaves
  <2>2. QED
    BY <1>1, <2>1, PieceLost
<1>4. CASE Client!Receive
  BY <1>1, <1>4, PieceReceive
<1>5. CASE Client!ReceiveFails
  <2>1. recvBuffer' = <<>> /\ sock' = <<>> /\ wire' = wire
    BY <1>5 DEF Client!ReceiveFails, Client!Reset
  <2>2. QED
    BY <1>1, <2>1, PieceReset
<1>6. QED
  BY <1>2, <1>3, <1>4, <1>5

LEMMA PacketsMove ==
    ASSUME PacketInv, Client!Arrive \/ Client!PeerLeaves \/ Client!Receive \/ Client!ReceiveFails
    PROVE  PacketInv' /\ InFlight' \subseteq InFlight
<1> USE DEF Client!server, Client!net, Client!flags, Client!events, Client!ghosts
<1>1. ClientTypes /\ ClientTypes'
  BY TypesMove DEF PacketInv
<1>2. /\ sending' \subseteq sending /\ nextId' = nextId /\ times' = times
      /\ stores' = stores \/ stores' = <<>>
  BY DEF Client!Arrive, Client!PeerLeaves, Client!Receive, Client!ReceiveFails, Client!Reset
<1>3. Piece
  BY PieceMoves
<1>4. QED
  BY <1>1, <1>2, <1>3, PacketsLess

LEMMA PacketsOffline ==
    ASSUME PacketInv, Client!onOffline \/ Client!shutdown
    PROVE  PacketInv' /\ InFlight' \subseteq InFlight
<1>1. /\ UNCHANGED <<nextId, asked, logins, verdict, sending, sock, wire, times, connect_event, login_event>>
      /\ recvBuffer' = <<>> /\ stores' = <<>>
  BY DEF Client!onOffline, Client!shutdown, Client!StartOffline, Client!Reset,
         Client!server, Client!net, Client!events, Client!ghosts
<1>2. ClientTypes /\ ClientTypes'
  BY <1>1 DEF PacketInv, ClientTypes
<1>3. Piece
  BY <1>1, <1>2, PieceReset
<1>4. QED
  BY <1>1, <1>2, <1>3, PacketsLess

LEMMA PacketsLogin ==
    ASSUME PacketInv, Client!login PROVE PacketInv' /\ InFlight' = InFlight
<1>1. /\ UNCHANGED <<nextId, verdict, sending, recvBuffer, sock, wire, times, stores, connect_event, login_event>>
      /\ logins' = logins + 1 /\ nextId + asked <= Messages
      /\ asked' \in {asked, asked + 1}
  BY DEF Client!login, Client!uiRest, Client!net, Client!events
<1>2. ClientTypes /\ ClientTypes' /\ Stream' = Stream
  <2>1. asked' \in Nat /\ nextId' + asked' <= Messages + 1 /\ logins' \in Nat
    <3>1. nextId \in Nat /\ asked \in Nat /\ Messages \in Nat /\ logins \in Nat
      BY RawClientAssumption DEF PacketInv, ClientTypes
    <3>2. PICK a, n \in Nat : a = asked /\ n = nextId
      BY <3>1
    <3>3. n + a <= Messages /\ nextId' = n /\ (asked' = a \/ asked' = a + 1)
      BY <1>1, <3>2
    <3>4. asked' \in Nat /\ asked' <= a + 1
      BY <3>3
    <3>5. PICK b, M \in Nat : b = asked' /\ M = Messages
      BY <3>1, <3>4
    <3>6. n + a <= M /\ b <= a + 1
      BY <3>3, <3>4, <3>5
    <3>7. n + b <= M + 1
      BY <3>6
    <3>8. logins' \in Nat
      BY <1>1, <3>1
    <3>9. QED
      BY <3>3, <3>5, <3>7, <3>8
  <2>2. QED
    BY <1>1, <2>1 DEF PacketInv, ClientTypes, Stream
<1>3. PacketInv'
  BY <1>1, <1>2, PacketsLess, SameStream
<1>4. QED
  BY <1>1, <1>2, <1>3 DEF InFlight

LEMMA WholeStep ==
    ASSUME PacketInv, LoginInv, WholeInv, [Client!Next]_(Client!vars) PROVE WholeInv'
<1> USE DEF Client!server, Client!net, Client!flags, Client!events, Client!ghosts,
            Client!rtRest, Client!uiRest
<1>1. CASE Client!Answer \/ Client!Forward
  BY <1>1, WholeNew
<1>2. ASSUME NEW m \in sending, Client!SendPacket(m) PROVE WholeInv'
  BY <1>2, WholeSend
<1>3. CASE Client!Arrive \/ Client!PeerLeaves \/ Client!Receive \/ Client!ReceiveFails
  <2>1. /\ UNCHANGED <<calls, handled>> /\ sending' \subseteq sending
        /\ stores' = stores \/ stores' = <<>>
    BY <1>3 DEF Client!Arrive, Client!PeerLeaves, Client!Receive, Client!ReceiveFails, Client!Reset
  <2>2. Piece /\ InFlight' \subseteq InFlight
    BY <1>3, PieceMoves, PacketsMove
  <2>3. QED
    BY <2>1, <2>2, WholePiece
<1>4. CASE Client!Top \/ Client!Off \/ Client!ReadConnectEvent \/ Client!CheckDead
              \/ Client!Stopped \/ Client!Reported \/ Client!CutEnds
              \/ Client!login \/ Client!wait_for_login \/ Client!onOnline
              \/ Client!WriteConnectEvent \/ Client!SetDead \/ Client!WriteStopEvent
  <2>1. UNCHANGED <<sending, recvBuffer, sock, wire, calls, handled, stores>>
    BY <1>4 DEF Client!Top, Client!Off, Client!ReadConnectEvent, Client!CheckDead,
       Client!Stopped, Client!Reported, Client!CutEnds, Client!login, Client!wait_for_login,
       Client!onOnline, Client!WriteConnectEvent, Client!SetDead, Client!WriteStopEvent
  <2>2. QED
    BY <2>1, WholeElsewhere
<1>5. CASE Client!handle_packet
  <2>1. handled' = handled /\ ClientTypes
    BY <1>5 DEF Client!handle_packet, PacketInv
  <2>2. QED
    BY <1>5, <2>1, WhatHandleDoes, WholeHandle
<1>6. ASSUME NEW t \in calls, Client!HandleData(t) \/ Client!LoginEvent(t) PROVE WholeInv'
  BY <1>6, WholeTask
<1>7. CASE Client!onOffline \/ Client!shutdown
  <2>1. /\ UNCHANGED <<calls, handled, sending, nextId, asked, logins, verdict, sock, wire, times,
                       connect_event, login_event>>
        /\ recvBuffer' = <<>> /\ stores' = <<>>
    BY <1>7 DEF Client!onOffline, Client!shutdown, Client!StartOffline, Client!Reset
  <2>2. ClientTypes /\ ClientTypes'
    BY <2>1 DEF PacketInv, ClientTypes
  <2>3. Piece /\ InFlight' \subseteq InFlight
    BY <1>7, <2>1, <2>2, PieceReset, PacketsOffline
  <2>4. QED
    BY <2>1, <2>3, WholePiece
<1>8. CASE UNCHANGED Client!vars
  BY <1>8, WholeElsewhere DEF Client!vars
<1>9. QED
  BY <1>1, <1>2, <1>3, <1>4, <1>5, <1>6, <1>7, <1>8 DEF Client!Next

LEMMA ClientStep ==
    ASSUME ClientInv, [Client!Next]_(Client!vars) PROVE ClientInv'
<1> USE DEF Client!server, Client!net, Client!flags, Client!events, Client!ghosts,
            Client!rtRest, Client!uiRest
<1>1. /\ PacketInv /\ LoginInv /\ ClientTypes
      /\ connect_event \in Nat /\ login_event \in Nat
  BY DEF ClientInv, PacketInv, ClientTypes
<1>2. SleepInv' /\ WholeInv'
  BY <1>1, SleepNext, WholeStep DEF ClientInv
<1>3. SUFFICES PacketInv' /\ LoginInv'
  BY <1>2 DEF ClientInv
<1>4. CASE Client!Answer
  BY <1>1, <1>4, PacketsAnswer, LoginAnswer
<1>5. CASE Client!Forward
  <2>1. /\ UNCHANGED <<times, calls, verdict, logins, asked, login_event, wrong, loginStatus, ui>>
    BY <1>5 DEF Client!Forward
  <2>2. QED
    BY <1>1, <1>5, <2>1, PacketsForward, LoginKeeps
<1>6. ASSUME NEW m \in sending, Client!SendPacket(m) PROVE PacketInv' /\ LoginInv'
  <2>1. /\ UNCHANGED <<times, calls, verdict, logins, asked, login_event, wrong, loginStatus, ui>>
    BY <1>6 DEF Client!SendPacket
  <2>2. PacketInv' /\ InFlight' \subseteq InFlight
    BY <1>1, <1>6, PacketsSend
  <2>3. QED
    BY <1>1, <2>1, <2>2, LoginKeeps
<1>7. CASE Client!Arrive \/ Client!PeerLeaves \/ Client!Receive \/ Client!ReceiveFails
  <2>1. /\ UNCHANGED <<times, calls, verdict, logins, asked, login_event, wrong, ui>>
        /\ loginStatus' = loginStatus \/ loginStatus' = Client!Unknown
    BY <1>7 DEF Client!Arrive, Client!PeerLeaves, Client!Receive, Client!ReceiveFails, Client!Reset
  <2>2. PacketInv' /\ InFlight' \subseteq InFlight
    BY <1>1, <1>7, PacketsMove
  <2>3. QED
    BY <1>1, <2>1, <2>2, LoginKeeps
<1>8. CASE Client!Top \/ Client!Off \/ Client!ReadConnectEvent \/ Client!CheckDead
              \/ Client!Stopped \/ Client!Reported \/ Client!CutEnds
  <2>1. /\ UNCHANGED <<nextId, asked, logins, verdict, sending, recvBuffer, sock, wire, times,
                       stores, calls, login_event, wrong, loginStatus, ui>>
        /\ connect_event' \in Nat /\ login_event' \in Nat
    BY <1>1, <1>8 DEF Client!Top, Client!Off, Client!ReadConnectEvent, Client!CheckDead,
       Client!Stopped, Client!Reported, Client!CutEnds
  <2>2. QED
    BY <1>1, <2>1, PacketsElsewhere, LoginKeeps
<1>9. CASE Client!handle_packet
  BY <1>1, <1>9, WhatHandleDoes, PacketsHandle, LoginHandle
<1>10. ASSUME NEW t \in calls, Client!HandleData(t) PROVE PacketInv' /\ LoginInv'
  <2>1. UNCHANGED <<nextId, asked, logins, verdict, sending, recvBuffer, sock, wire, times,
                    stores, connect_event, login_event>>
    BY <1>10 DEF Client!HandleData
  <2>2. PacketInv' /\ InFlight' = InFlight
    BY <1>1, <2>1, PacketsElsewhere
  <2>3. QED
    BY <1>1, <1>10, <2>2, LoginTaskRuns
<1>11. ASSUME NEW t \in calls, Client!LoginEvent(t) PROVE PacketInv' /\ LoginInv'
  <2>1. /\ UNCHANGED <<nextId, asked, logins, verdict, sending, recvBuffer, sock, wire, times,
                       stores, connect_event>>
        /\ login_event' \in Nat
    BY <1>1, <1>11 DEF Client!LoginEvent
  <2>2. PacketInv' /\ InFlight' = InFlight
    BY <1>1, <2>1, PacketsElsewhere
  <2>3. QED
    BY <1>1, <1>11, <2>2, LoginTaskEnds
<1>12. CASE Client!login
  BY <1>1, <1>12, PacketsLogin, LoginBegins
<1>13. CASE Client!wait_for_login
  <2>1. /\ UNCHANGED <<nextId, asked, logins, verdict, sending, recvBuffer, sock, wire, times,
                       stores, connect_event>>
        /\ login_event' \in Nat
    BY <1>13 DEF Client!wait_for_login
  <2>2. PacketInv' /\ InFlight' = InFlight
    BY <1>1, <2>1, PacketsElsewhere
  <2>3. QED
    BY <1>1, <1>13, <2>2, LoginReturns
<1>14. CASE Client!onOnline \/ Client!WriteConnectEvent \/ Client!SetDead \/ Client!WriteStopEvent
  <2>1. UNCHANGED <<nextId, asked, logins, verdict, sending, recvBuffer, sock, wire, times,
                    stores, calls, login_event, wrong, loginStatus>>
    BY <1>14 DEF Client!onOnline, Client!WriteConnectEvent, Client!SetDead, Client!WriteStopEvent
  <2>2. connect_event' \in Nat
    <3>1. connect_event' \in {connect_event, connect_event + 1, connect_event + 0}
      BY <1>14 DEF Client!onOnline, Client!WriteConnectEvent, Client!SetDead,
         Client!WriteStopEvent, Client!Wake
    <3>2. QED
      BY <1>1, <3>1
  <2>3. ui' = ui \/ (ui # "login" /\ ui' # "login")
    BY <1>14 DEF Client!onOnline, Client!WriteConnectEvent, Client!SetDead, Client!WriteStopEvent
  <2>4. PacketInv' /\ InFlight' = InFlight
    BY <1>1, <2>1, <2>2, PacketsElsewhere
  <2>5. QED
    BY <1>1, <2>1, <2>3, <2>4, LoginKeeps
<1>15. CASE Client!onOffline \/ Client!shutdown
  <2>1. /\ UNCHANGED <<times, calls, verdict, logins, asked, login_event, wrong>>
        /\ loginStatus' = Client!Unknown /\ ui # "login" /\ ui' # "login"
    BY <1>15 DEF Client!onOffline, Client!shutdown, Client!StartOffline, Client!Reset
  <2>2. PacketInv' /\ InFlight' \subseteq InFlight
    BY <1>1, <1>15, PacketsOffline
  <2>3. QED
    BY <1>1, <2>1, <2>2, LoginKeeps
<1>16. CASE UNCHANGED Client!vars
  <2>1. /\ UNCHANGED <<nextId, asked, logins, verdict, sending, recvBuffer, sock, wire, times,
                       stores, calls, login_event, wrong, loginStatus, ui>>
        /\ connect_event' \in Nat /\ login_event' \in Nat
    BY <1>1, <1>16 DEF Client!vars
  <2>2. QED
    BY <1>1, <2>1, PacketsElsewhere, LoginKeeps
<1>17. QED
  BY <1>4, <1>5, <1>6, <1>7, <1>8, <1>9, <1>10, <1>11, <1>12, <1>13, <1>14, <1>15, <1>16
     DEF Client!Next

\* A step of the client, or of neither, is one of RawClient.
LEMMA ClientMoves ==
    [Client!Next /\ UNCHANGED vars]_<<vars, Client!vars>> => [Client!Next]_(Client!vars)
  OBVIOUS

\* However the stream is cut, lost or reset, and the packets of two messages are
\* mixed, a message is handed to a pool thread at most once, and shown made of all
\* its packets, unless the header says too few.
THEOREM ClientMessagesStayWhole == ClientSpec => []MessagesWhole
<1>1. Client!Init => ClientInv
  BY ClientInit
<1>2. ClientInv /\ [Client!Next]_(Client!vars) => ClientInv'
  BY ClientStep
<1>3. ClientInv => MessagesWhole
  <2>1. ASSUME ClientInv, NEW id \in Client!Ids PROVE times[id] <= 1
    <3>1. times[id] = 0 \/ times[id] = 1
      BY <2>1 DEF ClientInv, PacketInv, SpentOnce
    <3>2. QED
      BY <3>1
  <2>2. QED
    BY <2>1 DEF ClientInv, WholeInv, WholeOrShort, MessagesWhole, Client!MessagesWhole
<1>4. QED
  BY <1>1, <1>2, <1>3, ClientMoves, PTL DEF ClientSpec

\* login() returns true only if the server accepted this very login, although
\* its answer is handled on a pool thread and the connection may go down.
THEOREM ClientLoginStaysHonest == ClientSpec => []LoginHonest
<1>1. Client!Init => ClientInv
  BY ClientInit
<1>2. ClientInv /\ [Client!Next]_(Client!vars) => ClientInv'
  BY ClientStep
<1>3. ClientInv => LoginHonest
  BY DEF ClientInv, LoginInv, LoginHonest, Client!LoginHonest
<1>4. QED
  BY <1>1, <1>2, <1>3, ClientMoves, PTL DEF ClientSpec

\* The receive thread sleeps on connect_event after everythingDead was set only
\* if it tested the flag between the two steps of shutdown, and it waits in epoll
\* with units to read only if a recv of one buffer's size left some behind.
THEOREM ClientSleepStaysExplained == ClientSpec => []SleepExplained
<1>1. Client!Init => ClientInv
  BY ClientInit
<1>2. ClientInv /\ [Client!Next]_(Client!vars) => ClientInv'
  BY ClientStep
<1>3. ClientInv => SleepExplained
  BY DEF ClientInv, SleepInv, SleepExplained, Client!SleepExplained
<1>4. QED
  BY <1>1, <1>2, <1>3, ClientMoves, PTL DEF ClientSpec
=============================================================================
