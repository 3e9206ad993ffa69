------------------------------ MODULE TcpService ------------------------------
(***************************************************************************)
(* What the chat programs stand on: tcp_service, the threads that run its  *)
(* io_context until the last moment of its life, and, on the server, the   *)
(* pool of SQL connections: verifyUserInfo takes one for its query, the    *)
(* Server keeps one for all others.  The pool has no limit of its own; it  *)
(* suffices because there are never more threads than switch_thread_       *)
(* solution lets there be.  The base class stops the io_context in its     *)
(* destructor, when the members of the derived class are gone.             *)
(***************************************************************************)
EXTENDS Integers, Sequences, FiniteSets

CONSTANTS MaxThreads,   \* most threads that can be asked for (8)
          StartThreads, \* thread_count at first (3)
          PoolSize,     \* connections of the pool (10)
          MaxHandlers   \* bound on the handlers run

VARIABLES
    kind,         \* a Server or a Client
    thread_count, switching,  \* switching: the count waited to be set, or 0
    pools,        \* how many thread pools were made
    job,          \* thread -> "out", "idle", "handling" or "verifying"
    onset,        \* thread -> life when its handler began
    stopped,      \* m_io_context is stopped
    life,         \* of the service: "up", "members" (gone), "stopped", "joined"
    sqlPool, inHand, sql_conn,  \* connections: in the pool, per thread, kept
    wild,         \* front of an empty queue
    touched,      \* history: onset of handlers that ended without the members
    handled

serviceVars == <<kind, thread_count, switching, pools, job, onset, stopped, life,
                 sqlPool, inHand, sql_conn, wild, touched, handled>>
sqlOnes  == <<sqlPool, inHand, sql_conn, wild>>
poolOnes == <<thread_count, switching, pools>>

ServiceThreads == 1..(MaxThreads + 1)
NoConnection == 0

(* The constructor of Server starts its threads, and takes a connection.   *)
Init ==
    /\ kind \in {"server", "client"} /\ switching = 0 /\ thread_count = StartThreads
    /\ pools = IF kind = "server" THEN 1 ELSE 0
    /\ job = [t \in ServiceThreads |->
                 IF kind = "server" /\ t <= StartThreads THEN "idle" ELSE "out"]
    /\ onset = [t \in ServiceThreads |-> "up"] /\ stopped = FALSE /\ life = "up"
    /\ sqlPool = [i \in 1..(PoolSize - 1) |-> i] /\ sql_conn = PoolSize
    /\ inHand = [t \in ServiceThreads |-> NoConnection] /\ wild = FALSE
    /\ touched = {} /\ handled = 0

AllOut == \A t \in ServiceThreads : job[t] = "out"

----------------------------------------------------------------------------
(* SqlConnectionPool.                                                      *)

FrontOnly(t) ==   \* mutant: front without pop
    /\ inHand' = [inHand EXCEPT ![t] = Head(sqlPool)] /\ UNCHANGED sqlPool
get_connection(t) ==
    /\ inHand' = [inHand EXCEPT ![t] = Head(sqlPool)] /\ sqlPool' = Tail(sqlPool)

release_connections(t) ==
    /\ sqlPool' = Append(sqlPool, inHand[t])
    /\ inHand' = [inHand EXCEPT ![t] = NoConnection]

----------------------------------------------------------------------------
(* The threads.                                                            *)

BeginHandler(t) ==
    /\ job[t] = "idle" /\ ~stopped /\ handled < MaxHandlers
    /\ job' = [job EXCEPT ![t] = "handling"] /\ onset' = [onset EXCEPT ![t] = life]
    /\ handled' = handled + 1
    /\ UNCHANGED <<kind, poolOnes, stopped, life, sqlOnes, touched>>

(* The pool is a singleton, it outlives the server.                        *)
verifyUserInfo(t) ==
    /\ kind = "server" /\ job[t] = "handling" /\ job' = [job EXCEPT ![t] = "verifying"]
    /\ IF sqlPool = <<>> THEN wild' = TRUE /\ UNCHANGED <<sqlPool, inHand>>
                         ELSE get_connection(t) /\ UNCHANGED wild
    /\ UNCHANGED <<kind, poolOnes, onset, stopped, life, sql_conn, touched, handled>>

(* By return or by an exception of the query.                              *)
Verified(t) ==
    /\ job[t] = "verifying" /\ ~wild /\ job' = [job EXCEPT ![t] = "handling"]
    /\ release_connections(t)
    /\ UNCHANGED <<kind, poolOnes, onset, stopped, life, sql_conn, wild, touched, handled>>

(* Every handler ends in the dispatcher or a callback, members of the      *)
(* derived class.                                                          *)
EndHandler(t) ==
    /\ job[t] = "handling" /\ job' = [job EXCEPT ![t] = "idle"]
    /\ touched' = IF life = "up" THEN touched ELSE touched \cup {onset[t]}
    /\ UNCHANGED <<kind, poolOnes, onset, stopped, life, sqlOnes, handled>>

LeaveRun(t) ==
    /\ job[t] = "idle" /\ stopped /\ job' = [job EXCEPT ![t] = "out"]
    /\ UNCHANGED <<kind, poolOnes, onset, stopped, life, sqlOnes, touched, handled>>

----------------------------------------------------------------------------
(* The owner of the service.  Client::start_service asks for 4; nobody     *)
(* asks a second time.                                                     *)

start_threadpool(count) ==
    /\ pools' = pools + 1
    /\ job' = [t \in ServiceThreads |-> IF t <= count THEN "idle" ELSE "out"]

switch_thread_solution(count) ==
    /\ life = "up" /\ switching = 0 /\ pools < 2
    /\ count # thread_count /\ count <= MaxThreads
    /\ switching' = count
    /\ UNCHANGED <<kind, thread_count, pools, job, onset, stopped, life, sqlOnes, touched, handled>>

(* join_all_thread: the work guard keeps the threads in run().             *)
Switched ==
    /\ switching # 0 /\ (pools = 0 \/ AllOut)
    /\ thread_count' = switching /\ switching' = 0 /\ start_threadpool(switching)
    /\ UNCHANGED <<kind, onset, stopped, life, sqlOnes, touched, handled>>

(* The window of the server is closed; that of the client does nothing.    *)
shutdown ==
    /\ kind = "server" /\ life = "up" /\ switching = 0 /\ stopped' = TRUE
    /\ UNCHANGED <<kind, poolOnes, job, onset, life, sqlOnes, touched, handled>>

(* ~Server, ~Client and their members, among them the Server's sql_conn.   *)
DestroyMembers ==
    /\ life = "up" /\ switching = 0 /\ (kind = "server" => stopped) /\ life' = "members"
    /\ IF kind = "server" THEN sqlPool' = Append(sqlPool, sql_conn) /\ sql_conn' = NoConnection
                          ELSE UNCHANGED <<sqlPool, sql_conn>>
    /\ UNCHANGED <<kind, poolOnes, job, onset, stopped, inHand, wild, touched, handled>>

StopContext ==
    /\ life = "members" /\ life' = "stopped" /\ stopped' = TRUE
    /\ UNCHANGED <<kind, poolOnes, job, onset, sqlOnes, touched, handled>>

join_all_thread ==
    /\ life = "stopped" /\ AllOut /\ life' = "joined"
    /\ UNCHANGED <<kind, poolOnes, job, onset, stopped, sqlOnes, touched, handled>>

Next ==
    \/ \E t \in ServiceThreads :
          BeginHandler(t) \/ verifyUserInfo(t) \/ Verified(t) \/ EndHandler(t) \/ LeaveRun(t)
    \/ \E count \in 1..(MaxThreads + 1) : switch_thread_solution(count)
    \/ Switched \/ shutdown \/ DestroyMembers \/ StopContext \/ join_all_thread

Spec == Init /\ [][Next]_serviceVars

----------------------------------------------------------------------------
Pooled == {sqlPool[i] : i \in DOMAIN sqlPool}
Using == {t \in ServiceThreads : inHand[t] # NoConnection}
InUse == {inHand[t] : t \in Using} \cup ({sql_conn} \ {NoConnection})

(* A connection has one holder at a time, none is lost, and the pool is    *)
(* never empty when one is wanted; a second thread pool is never made      *)
(* while the io_context serves anybody; a handler that ends when the       *)
(* members are gone had begun while they were there, on the server, which  *)
(* stops the io_context first: a client's may even have begun afterwards,  *)
(* until the destructor of the base class; no thread is left in the end.   *)
ServiceHonest ==
    /\ ~wild /\ Len(sqlPool) = Cardinality(Pooled) /\ Pooled \cap InUse = {}
    /\ Pooled \cup InUse = 1..PoolSize /\ Cardinality({inHand[t] : t \in Using}) = Cardinality(Using)
    /\ pools < 2 \/ stopped
    /\ kind = "server" => touched \subseteq {"up"}
    /\ kind = "client" => touched \subseteq {"up", "members"}
    /\ life = "joined" => AllOut
=============================================================================
