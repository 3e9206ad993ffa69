----------------------------- MODULE UtilityPool -----------------------------
(***************************************************************************)
(* ix::thread::ThreadPool of src/utility/ThreadPool: any number of pools,  *)
(* each ended by its destructor, where the singleton of the programs has   *)
(* shut_down.  submit tests and pushes under the mutex; the destructor     *)
(* sets stop and notifies without it, so that a worker that has tested and *)
(* is not asleep yet hears nothing.                                        *)
(***************************************************************************)
EXTENDS Integers, FiniteSets

CONSTANTS PoolWorkers, Submitters, MaxTasks

VARIABLES
    worker,      \* worker -> "test", "lock", "about" (to sleep), "asleep", "run", "gone"
    submitter,   \* submitter -> "out" or "notify"
    ending,      \* the destructor: "no", "notify", "join", "done"
    queued,      \* number of tasks
    submitted,
    missed       \* history: workers that were about to sleep when stop was set

utilityVars == <<worker, submitter, ending, queued, submitted, missed>>

Init ==
    /\ worker = [w \in PoolWorkers |-> "test"] /\ submitter = [s \in Submitters |-> "out"]
    /\ ending = "no" /\ queued = 0 /\ submitted = 0 /\ missed = {}

stop == ending # "no"
Asleep == {w \in PoolWorkers : worker[w] = "asleep"}
MutexHeld == \E w \in PoolWorkers : worker[w] = "about"
Goes(w, from, to) == worker[w] = from /\ worker' = [worker EXCEPT ![w] = to]

(* The tasks left are destroyed with the pool: their futures are broken.   *)
WhileNotStopped(w) ==
    /\ Goes(w, "test", IF stop THEN "gone" ELSE "lock")
    /\ UNCHANGED <<submitter, ending, queued, submitted, missed>>

(* The predicate of the wait, and what follows if it holds.                *)
TakeOrSleep(w) ==
    /\ ~MutexHeld
    /\ IF queued > 0 THEN Goes(w, "lock", "run") /\ queued' = queued - 1
       ELSE Goes(w, "lock", IF stop THEN "gone" ELSE "about") /\ UNCHANGED queued
    /\ UNCHANGED <<submitter, ending, submitted, missed>>

Sleep(w) ==
    /\ Goes(w, "about", "asleep")
    /\ UNCHANGED <<submitter, ending, queued, submitted, missed>>

Spurious(w) ==
    /\ Goes(w, "asleep", "lock")
    /\ UNCHANGED <<submitter, ending, queued, submitted, missed>>

RunTask(w) ==
    /\ Goes(w, "run", "test")
    /\ UNCHANGED <<submitter, ending, queued, submitted, missed>>

(* Nobody submits to a pool that is being destroyed.                       *)
Submit(s) ==
    /\ submitter[s] = "out" /\ ending = "no" /\ ~MutexHeld /\ submitted < MaxTasks
    /\ queued' = queued + 1 /\ submitted' = submitted + 1
    /\ submitter' = [submitter EXCEPT ![s] = "notify"]
    /\ UNCHANGED <<worker, ending, missed>>

NotifyOne(s) ==
    /\ submitter[s] = "notify" /\ submitter' = [submitter EXCEPT ![s] = "out"]
    /\ IF Asleep = {} THEN UNCHANGED worker ELSE \E w \in Asleep : Goes(w, "asleep", "lock")
    /\ UNCHANGED <<ending, queued, submitted, missed>>

SetStop ==
    /\ ending = "no" /\ \A s \in Submitters : submitter[s] = "out"
    /\ ending' = "notify" /\ missed' = {w \in PoolWorkers : worker[w] = "about"}
    /\ UNCHANGED <<worker, submitter, queued, submitted>>

WakeOne ==   \* mutant: notify_one
    IF Asleep = {} THEN worker' = worker ELSE \E w \in Asleep : Goes(w, "asleep", "lock")
WakeAll == worker' = [w \in PoolWorkers |-> IF w \in Asleep THEN "lock" ELSE worker[w]]

NotifyAll ==
    /\ ending = "notify" /\ ending' = "join" /\ WakeAll
    /\ UNCHANGED <<submitter, queued, submitted, missed>>

Join ==
    /\ ending = "join" /\ (\A w \in PoolWorkers : worker[w] = "gone") /\ ending' = "done"
    /\ UNCHANGED <<worker, submitter, queued, submitted, missed>>

Next ==
    \/ \E w \in PoolWorkers : WhileNotStopped(w) \/ TakeOrSleep(w) \/ Sleep(w) \/ Spurious(w) \/ RunTask(w)
    \/ \E s \in Submitters : Submit(s) \/ NotifyOne(s)
    \/ SetStop \/ NotifyAll \/ Join

Spec == Init /\ [][Next]_utilityVars

----------------------------------------------------------------------------
(* While the pool lives, a task is not left to workers that all sleep: one *)
(* is about to be woken.  Once the destructor has notified, a worker that  *)
(* sleeps, and for which it waits for ever, is one that had tested before  *)
(* stop was set and was not asleep yet.                                    *)
SleepersExplained ==
    /\ ending = "no" /\ queued > 0 /\ Asleep = PoolWorkers
          => \E s \in Submitters : submitter[s] = "notify"
    /\ ending = "join" => Asleep \subseteq missed
=============================================================================
