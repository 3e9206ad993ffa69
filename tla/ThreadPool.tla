------------------------------ MODULE ThreadPool ------------------------------
(***************************************************************************)
(* ix::thread::ThreadPool (ThreadPool_singleton): worker threads that take *)
(* tasks from one queue.  The older copy in utility/ThreadPool differs in  *)
(* how it stops: its destructor sets the flag without the mutex, which is  *)
(* the mutant StoreStopUnlocked below.                                     *)
(*                                                                         *)
(* The steps are those of RingBuffer: a critical section, a notification,  *)
(* or one half of a condition_variable::wait.                              *)
(***************************************************************************)
EXTENDS Naturals, Sequences, FiniteSets

CONSTANTS Workers,     (* the threads started by the constructor           *)
          Submitters,  (* the threads that call submit                     *)
          Tasks,       (* what they submit, each at most once              *)
          NoTask       (* not a task                                       *)

ASSUME PoolAssumption == /\ IsFiniteSet(Workers)
                         /\ IsFiniteSet(Submitters)
                         /\ NoTask \notin Tasks

VARIABLES tasks,      (* the queue                                         *)
          stop,       (* the atomic flag                                   *)
          worker,     (* where each worker is                              *)
          task,       (* each worker's local variable `task`               *)
          submitter,  (* where each submitter is                           *)
          arg,        (* the task each submitter is submitting             *)
          shut,       (* where the thread that stops the pool is           *)
          ready,      (* the tasks whose promise was set                   *)
          accepted    (* history: the tasks in the order of submission     *)
vars == <<tasks, stop, worker, task, submitter, arg, shut, ready, accepted>>

(***************************************************************************)
(* worker:    loop     at the test of `stop` in the while                  *)
(*            eval     about to take the mutex and look                    *)
(*            block    found nothing, still holds the mutex                *)
(*            wait     asleep on `condition`                               *)
(*            run      executing its task                                  *)
(*            done     has left worker_loop                                *)
(* submitter: idle, emplace (holds the mutex, has seen stop = FALSE),      *)
(*            notify, thrown (submit threw: the pool is stopped)           *)
(* shut:      none, notify, join, joined                                   *)
(***************************************************************************)
Asleep == {w \in Workers : worker[w] = "wait"}

Held == \/ \E w \in Workers : worker[w] = "block"
        \/ \E s \in Submitters : submitter[s] = "emplace"

Submitted == {accepted[i] : i \in DOMAIN accepted} \cup {arg[s] : s \in Submitters}

-----------------------------------------------------------------------------
(* submit *)

\* Takes the mutex and tests the flag: throws, or goes on to emplace.
SubmitTest(s) == /\ submitter[s] = "idle"
                 /\ ~Held
                 /\ \E t \in Tasks \ Submitted : arg' = [arg EXCEPT ![s] = t]
                 /\ submitter' = [submitter EXCEPT ![s] = IF stop THEN "thrown" ELSE "emplace"]
                 /\ UNCHANGED <<tasks, stop, worker, task, shut, ready, accepted>>

\* Mutant: the newest task goes to the front.
SubmitInFront(s) == /\ submitter[s] = "emplace"
                    /\ tasks' = <<arg[s]>> \o tasks
                    /\ accepted' = Append(accepted, arg[s])
                    /\ arg' = [arg EXCEPT ![s] = NoTask]
                    /\ submitter' = [submitter EXCEPT ![s] = "notify"]
                    /\ UNCHANGED <<stop, worker, task, shut, ready>>

SubmitEmplace(s) == /\ submitter[s] = "emplace"
                    /\ tasks' = Append(tasks, arg[s])
                    /\ accepted' = Append(accepted, arg[s])
                    /\ arg' = [arg EXCEPT ![s] = NoTask]
                    /\ submitter' = [submitter EXCEPT ![s] = "notify"]
                    /\ UNCHANGED <<stop, worker, task, shut, ready>>

\* Mutant: submit returns without notify_one.
SubmitSilently(s) == /\ submitter[s] = "notify"
                     /\ submitter' = [submitter EXCEPT ![s] = "idle"]
                     /\ UNCHANGED <<tasks, stop, worker, task, arg, shut, ready, accepted>>

SubmitNotify(s) == /\ submitter[s] = "notify"
                   /\ submitter' = [submitter EXCEPT ![s] = "idle"]
                   /\ IF Asleep = {}
                      THEN worker' = worker
                      ELSE \E w \in Asleep : worker' = [worker EXCEPT ![w] = "eval"]
                   /\ UNCHANGED <<tasks, stop, task, arg, shut, ready, accepted>>

-----------------------------------------------------------------------------
(* worker_loop *)

\* while (!stop.load()), outside the mutex
LoopTest(w) == /\ worker[w] = "loop"
               /\ worker' = [worker EXCEPT ![w] = IF stop THEN "done" ELSE "eval"]
               /\ UNCHANGED <<tasks, stop, task, submitter, arg, shut, ready, accepted>>

\* Mutant: the front is copied but not popped.
TakeWithoutPop(w) == /\ worker[w] = "eval"
                     /\ ~Held
                     /\ tasks # <<>>
                     /\ task' = [task EXCEPT ![w] = Head(tasks)]
                     /\ worker' = [worker EXCEPT ![w] = "run"]
                     /\ UNCHANGED <<tasks, stop, submitter, arg, shut, ready, accepted>>

TakeTask(w) == /\ worker[w] = "eval"
               /\ ~Held
               /\ tasks # <<>>
               /\ task' = [task EXCEPT ![w] = Head(tasks)]
               /\ tasks' = Tail(tasks)
               /\ worker' = [worker EXCEPT ![w] = "run"]
               /\ UNCHANGED <<stop, submitter, arg, shut, ready, accepted>>

LeaveLoop(w) == /\ worker[w] = "eval"
                /\ ~Held
                /\ tasks = <<>>
                /\ stop
                /\ worker' = [worker EXCEPT ![w] = "done"]
                /\ UNCHANGED <<tasks, stop, task, submitter, arg, shut, ready, accepted>>

FindNothing(w) == /\ worker[w] = "eval"
                  /\ ~Held
                  /\ tasks = <<>>
                  /\ ~stop
                  /\ worker' = [worker EXCEPT ![w] = "block"]
                  /\ UNCHANGED <<tasks, stop, task, submitter, arg, shut, ready, accepted>>

Sleep(w) == /\ worker[w] = "block"
            /\ worker' = [worker EXCEPT ![w] = "wait"]
            /\ UNCHANGED <<tasks, stop, task, submitter, arg, shut, ready, accepted>>

\* Mutant: the task is destroyed before its promise is set.
RunDestroyed(w) == /\ worker[w] = "run"
                   /\ task' = [task EXCEPT ![w] = NoTask]
                   /\ ready' = ready \cup {task'[w]}
                   /\ worker' = [worker EXCEPT ![w] = "loop"]
                   /\ UNCHANGED <<tasks, stop, submitter, arg, shut, accepted>>

\* The task sets its promise, to a value or to the exception it threw.
RunTask(w) == /\ worker[w] = "run"
              /\ ready' = ready \cup {task[w]}
              /\ task' = [task EXCEPT ![w] = NoTask]
              /\ worker' = [worker EXCEPT ![w] = "loop"]
              /\ UNCHANGED <<tasks, stop, submitter, arg, shut, accepted>>

SpuriousWakeup(w) == /\ worker[w] = "wait"
                     /\ worker' = [worker EXCEPT ![w] = "eval"]
                     /\ UNCHANGED <<tasks, stop, task, submitter, arg, shut, ready, accepted>>

-----------------------------------------------------------------------------
(* shut_down, or the destructor *)

\* Mutant: the flag is set without taking the mutex, as in utility/ThreadPool.
StoreStopUnlocked == /\ shut = "none"
                     /\ stop' = TRUE
                     /\ shut' = "notify"
                     /\ UNCHANGED <<tasks, worker, task, submitter, arg, ready, accepted>>

StoreStop == /\ shut = "none"
             /\ ~Held
             /\ stop' = TRUE
             /\ shut' = "notify"
             /\ UNCHANGED <<tasks, worker, task, submitter, arg, ready, accepted>>

NotifyAll == /\ shut = "notify"
             /\ shut' = "join"
             /\ worker' = [w \in Workers |-> IF w \in Asleep THEN "eval" ELSE worker[w]]
             /\ UNCHANGED <<tasks, stop, task, submitter, arg, ready, accepted>>

\* Mutant: the workers are detached instead of joined.
Detach == /\ shut = "join"
          /\ shut' = "joined"
          /\ UNCHANGED <<tasks, stop, worker, task, submitter, arg, ready, accepted>>

Join == /\ shut = "join"
        /\ \A w \in Workers : worker[w] = "done"
        /\ shut' = "joined"
        /\ UNCHANGED <<tasks, stop, worker, task, submitter, arg, ready, accepted>>

-----------------------------------------------------------------------------
Init == /\ tasks = <<>>
        /\ stop = FALSE
        /\ worker = [w \in Workers |-> "loop"]
        /\ task = [w \in Workers |-> NoTask]
        /\ submitter = [s \in Submitters |-> "idle"]
        /\ arg = [s \in Submitters |-> NoTask]
        /\ shut = "none"
        /\ ready = {}
        /\ accepted = <<>>

Submit(s) == SubmitTest(s) \/ SubmitEmplace(s) \/ SubmitNotify(s)
Work(w) == LoopTest(w) \/ TakeTask(w) \/ LeaveLoop(w) \/ FindNothing(w) \/ Sleep(w) \/ RunTask(w)
ShutDown == StoreStop \/ NotifyAll \/ Join

Next == \/ \E s \in Submitters : Submit(s)
        \/ \E w \in Workers : Work(w) \/ SpuriousWakeup(w)
        \/ ShutDown

Spec == Init /\ [][Next]_vars

\* Tasks return, threads that contend for the mutex get it in the end, and an
\* operation that was started goes on.  Nobody has to submit or to stop.
FairSpec == /\ Spec
            /\ \A w \in Workers : SF_vars(Work(w))
            /\ \A s \in Submitters : WF_vars(SubmitEmplace(s)) /\ WF_vars(SubmitNotify(s))
            /\ WF_vars(NotifyAll) /\ WF_vars(Join)

-----------------------------------------------------------------------------
TypeOK ==
  /\ tasks \in Seq(Tasks)
  /\ stop \in BOOLEAN
  /\ worker \in [Workers -> {"loop", "eval", "block", "wait", "run", "done"}]
  /\ task \in [Workers -> Tasks \cup {NoTask}]
  /\ submitter \in [Submitters -> {"idle", "emplace", "notify", "thrown"}]
  /\ arg \in [Submitters -> Tasks \cup {NoTask}]
  /\ shut \in {"none", "notify", "join", "joined"}
  /\ ready \subseteq Tasks
  /\ accepted \in Seq(Tasks)

\* Tasks are started in the order in which submit accepted them: what is queued
\* is always the tail of what was accepted.
StartedInOrder ==
  /\ Len(tasks) <= Len(accepted)
  /\ \A i \in 1..Len(tasks) : tasks[i] = accepted[(Len(accepted) - Len(tasks)) + i]

\* A task in the hands of a worker is in nobody else's, is no longer queued, and
\* has not run before: no promise is set twice.
RunOnce ==
  \A w \in Workers : task[w] # NoTask =>
    /\ task[w] \notin ready
    /\ \A i \in 1..Len(tasks) : tasks[i] # task[w]
    /\ \A v \in Workers : v # w => task[v] # task[w]

\* Once shut_down has notified, no worker sleeps or is about to: join cannot
\* wait for one that nobody will wake.
NoSleeperWhenJoining ==
  shut \in {"join", "joined"} => \A w \in Workers : worker[w] \notin {"block", "wait"}

\* After shut_down has returned no task starts, runs or finishes.
QuietAfterJoin == [][shut = "joined" => UNCHANGED <<worker, task, ready>>]_vars

\* submit accepts nothing once the flag is set.
NothingAcceptedAfterStop == [][stop => UNCHANGED accepted]_vars

\* shut_down returns: no worker is left asleep on `condition`.
ShutDownReturns == (shut # "none") ~> (shut = "joined")

\* Unless the pool is stopped, every accepted task is run and its future ready.
AcceptedRuns ==
  \A t \in Tasks : (\E i \in DOMAIN accepted : accepted[i] = t) ~> (t \in ready \/ stop)

\* The pool does its work and lets itself be shut down.
WorksAndEnds == AcceptedRuns /\ ShutDownReturns
=============================================================================
