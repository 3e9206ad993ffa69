------------------------------ MODULE RingBuffer ------------------------------
(***************************************************************************)
(* RingBuffer<T>: the blocking bounded queue between the decoder thread    *)
(* and the audio thread of the player.                                     *)
(*                                                                         *)
(* One step of the model is one critical section, one notify_one, or one   *)
(* of the two halves of condition_variable::wait: evaluating the predicate *)
(* with the mutex held, and then releasing the mutex and going to sleep in *)
(* one atomic step.  read, write and clear take the mutex; stop does not,  *)
(* so it may fall between the two halves of somebody's wait.               *)
(***************************************************************************)
EXTENDS Naturals, Sequences, FiniteSets

CONSTANTS Readers,    (* threads that call read                            *)
          Writers,    (* threads that call write                           *)
          Clearers,   (* threads that call clear                           *)
          Stoppers,   (* threads that call stop                            *)
          Capacity,   (* the constructor's argument                        *)
          MaxWrites   (* bound: no write is started after that many pushes *)

Threads == Readers \cup Writers \cup Clearers \cup Stoppers

ASSUME RingAssumption == /\ IsFiniteSet(Threads)
                         /\ Capacity \in Nat \ {0}
                         /\ MaxWrites \in Nat

VARIABLES buf,       (* buf_, front first; its length is size_             *)
          stopped,   (* the atomic flag                                    *)
          pc,        (* where each thread is                               *)
          pushed,    (* history: number of pushes; ticket of the last one  *)
          got        (* history: the last ticket each reader was handed    *)
vars == <<buf, stopped, pc, pushed, got>>

(***************************************************************************)
(* Where a thread can be:                                                  *)
(*   idle       outside every operation                                    *)
(*   read       woken inside read, about to take the mutex again           *)
(*   r_block    found nothing to read; still holds the mutex               *)
(*   r_wait     asleep on the condition variable `full`                    *)
(*   r_notify   has popped and unlocked; notify_one(not_full) is next      *)
(*   r_end      read returned false: the calling thread has ended          *)
(*   write, w_block, w_wait, w_notify   the same inside write              *)
(*   s_full, s_not_full   inside stop, before each of its notify_one       *)
(***************************************************************************)
ReadPCs  == {"read", "r_block", "r_wait", "r_notify", "r_end"}
WritePCs == {"write", "w_block", "w_wait", "w_notify"}
StopPCs  == {"s_full", "s_not_full"}

Waiting(p) == {t \in Threads : pc[t] = p}

\* The mutex outlives a step only in a thread that is about to sleep.
Held == \E t \in Threads : pc[t] \in {"r_block", "w_block"}

Goto(t, p) == pc' = [pc EXCEPT ![t] = p]

\* notify_one on the condition variable whose sleepers are at `asleep`: one of
\* them, if there is any, continues at `awake`; the notifier continues at p.
NotifyOne(t, p, asleep, awake) ==
  IF Waiting(asleep) = {}
  THEN Goto(t, p)
  ELSE \E x \in Waiting(asleep) : pc' = [pc EXCEPT ![t] = p, ![x] = awake]

-----------------------------------------------------------------------------
(* read *)

EntersRead(t) == /\ t \in Readers
                 /\ pc[t] \in {"idle", "read"}
                 /\ ~Held

\* Mutant: the consumer forgets not_full.notify_one().
ReadPopSilently(t) == /\ EntersRead(t)
                      /\ buf # <<>>
                      /\ buf' = Tail(buf)
                      /\ got' = [got EXCEPT ![t] = Head(buf)]
                      /\ Goto(t, "idle")
                      /\ UNCHANGED <<stopped, pushed>>

\* There is an element: pop it and unlock.
ReadPop(t) == /\ EntersRead(t)
              /\ buf # <<>>
              /\ buf' = Tail(buf)
              /\ got' = [got EXCEPT ![t] = Head(buf)]
              /\ Goto(t, "r_notify")
              /\ UNCHANGED <<stopped, pushed>>

\* Mutant: stop makes read return at once, whatever is still buffered.
ReadEndEarly(t) == /\ EntersRead(t)
                   /\ stopped
                   /\ Goto(t, "r_end")
                   /\ UNCHANGED <<buf, stopped, pushed, got>>

\* Nothing left and stopped: read returns false and the caller ends.
ReadEnd(t) == /\ EntersRead(t)
              /\ buf = <<>>
              /\ stopped
              /\ Goto(t, "r_end")
              /\ UNCHANGED <<buf, stopped, pushed, got>>

\* Mutant: the predicate is evaluated without the mutex.
ReadEmptyUnlocked(t) == /\ t \in Readers
                        /\ pc[t] \in {"idle", "read"}
                        /\ buf = <<>>
                        /\ ~stopped
                        /\ Goto(t, "r_block")
                        /\ UNCHANGED <<buf, stopped, pushed, got>>

\* The predicate of full.wait is false.
ReadEmpty(t) == /\ EntersRead(t)
                /\ buf = <<>>
                /\ ~stopped
                /\ Goto(t, "r_block")
                /\ UNCHANGED <<buf, stopped, pushed, got>>

ReadBlock(t) == /\ pc[t] = "r_block"
                /\ Goto(t, "r_wait")
                /\ UNCHANGED <<buf, stopped, pushed, got>>

ReadNotify(t) == /\ pc[t] = "r_notify"
                 /\ NotifyOne(t, "idle", "w_wait", "write")
                 /\ UNCHANGED <<buf, stopped, pushed, got>>

-----------------------------------------------------------------------------
(* write *)

EntersWrite(t) == /\ t \in Writers
                  /\ \/ pc[t] = "idle" /\ pushed < MaxWrites
                     \/ pc[t] = "write"
                  /\ ~Held

\* Mutant: size_++ is missing.
WritePushUncounted(t) == /\ EntersWrite(t)
                         /\ Len(buf) < Capacity
                         /\ buf' = Append(buf, pushed + 1)
                         /\ Goto(t, "w_notify")
                         /\ UNCHANGED <<stopped, pushed, got>>

\* Mutant: the predicate of not_full.wait lets one element too many in.
WritePushOneMore(t) == /\ EntersWrite(t)
                       /\ Len(buf) <= Capacity
                       /\ buf' = Append(buf, pushed + 1)
                       /\ pushed' = pushed + 1
                       /\ Goto(t, "w_notify")
                       /\ UNCHANGED <<stopped, got>>

\* There is room.  The test of `stopped` that follows the wait in the code
\* can only fire when there is no room, so it never does.
WritePush(t) == /\ EntersWrite(t)
                /\ Len(buf) < Capacity
                /\ buf' = Append(buf, pushed + 1)
                /\ pushed' = pushed + 1
                /\ Goto(t, "w_notify")
                /\ UNCHANGED <<stopped, got>>

\* The predicate of not_full.wait is false; it does not look at `stopped`.
WriteFull(t) == /\ EntersWrite(t)
                /\ Len(buf) >= Capacity
                /\ Goto(t, "w_block")
                /\ UNCHANGED <<buf, stopped, pushed, got>>

WriteBlock(t) == /\ pc[t] = "w_block"
                 /\ Goto(t, "w_wait")
                 /\ UNCHANGED <<buf, stopped, pushed, got>>

\* Mutant: the producer wakes the wrong condition variable.
WriteNotifyNotFull(t) == /\ pc[t] = "w_notify"
                         /\ NotifyOne(t, "idle", "w_wait", "write")
                         /\ UNCHANGED <<buf, stopped, pushed, got>>

WriteNotify(t) == /\ pc[t] = "w_notify"
                  /\ NotifyOne(t, "idle", "r_wait", "read")
                  /\ UNCHANGED <<buf, stopped, pushed, got>>

-----------------------------------------------------------------------------
(* clear and stop *)

Clear(t) == /\ t \in Clearers
            /\ pc[t] = "idle"
            /\ ~Held
            /\ buf' = <<>>
            /\ UNCHANGED <<stopped, pc, pushed, got>>

\* The flag is set without the mutex: there is no ~Held here.
StopStore(t) == /\ t \in Stoppers
                /\ pc[t] = "idle"
                /\ stopped' = TRUE
                /\ Goto(t, "s_full")
                /\ UNCHANGED <<buf, pushed, got>>

StopNotifyFull(t) == /\ pc[t] = "s_full"
                     /\ NotifyOne(t, "s_not_full", "r_wait", "read")
                     /\ UNCHANGED <<buf, stopped, pushed, got>>

StopNotifyNotFull(t) == /\ pc[t] = "s_not_full"
                        /\ NotifyOne(t, "idle", "w_wait", "write")
                        /\ UNCHANGED <<buf, stopped, pushed, got>>

-----------------------------------------------------------------------------
\* std::condition_variable allows a sleeper to wake without a notification.
SpuriousWakeup(t) == /\ \/ pc[t] = "r_wait" /\ Goto(t, "read")
                        \/ pc[t] = "w_wait" /\ Goto(t, "write")
                     /\ UNCHANGED <<buf, stopped, pushed, got>>

Init == /\ buf = <<>>
        /\ stopped = FALSE
        /\ pc = [t \in Threads |-> "idle"]
        /\ pushed = 0
        /\ got = [r \in Readers |-> 0]

Read(t)  == ReadPop(t) \/ ReadEnd(t) \/ ReadEmpty(t) \/ ReadBlock(t) \/ ReadNotify(t)
Write(t) == WritePush(t) \/ WriteFull(t) \/ WriteBlock(t) \/ WriteNotify(t)
Stop(t)  == StopStore(t) \/ StopNotifyFull(t) \/ StopNotifyNotFull(t)

Next == \E t \in Threads : Read(t) \/ Write(t) \/ Clear(t) \/ Stop(t) \/ SpuriousWakeup(t)

Spec == Init /\ [][Next]_vars

\* A reader calls read in a loop (AudioThread::run); nobody has to call write,
\* clear or stop, but who has started an operation goes on with it.  Fairness
\* is strong because the mutex is only free now and then while spurious wakeups
\* go on: a thread that contends for a std::mutex gets it in the end.
Finishes(t) == /\ pc[t] # "idle"
               /\ Write(t) \/ Stop(t)

FairSpec == /\ Spec
            /\ \A r \in Readers : SF_vars(Read(r))
            /\ \A t \in Writers \cup Stoppers : SF_vars(Finishes(t))

-----------------------------------------------------------------------------
\* Nobody holds or was handed an element that was not pushed.
TypeOK == /\ pushed \in Nat
          /\ buf \in Seq(1..pushed)
          /\ stopped \in BOOLEAN
          /\ pc \in [Threads -> {"idle"} \cup ReadPCs \cup WritePCs \cup StopPCs]
          /\ got \in [Readers -> 0..pushed]

\* The buffer holds the most recent pushes, all of them, in the order in which
\* they were pushed: RingBuffer.h pops at the front, pushes at the back and
\* drops only everything at once, under one mutex.
Contiguous == \A i \in 1..Len(buf) : buf[i] = (pushed - Len(buf)) + i

\* However many writers saw room, the buffer never outgrows its capacity: the
\* predicate is evaluated again, under the mutex, after every wakeup.
Bounded == Len(buf) <= Capacity

\* At most one thread is between the two halves of a wait, because it holds the
\* mutex there (std::unique_lock in read and write).
OneHolder == \A s, t \in Threads :
               /\ pc[s] \in {"r_block", "w_block"}
               /\ pc[t] \in {"r_block", "w_block"}
               => s = t

\* As long as a reader sleeps, there are at least as many readers awake or
\* notify_one calls on their way as there are elements: no push is forgotten,
\* although notify_one happens after the unlock.
ReaderWakeups ==
  Waiting("r_wait") # {}
    => Len(buf) <= Cardinality({t \in Threads : pc[t] \in {"read", "w_notify"}})

\* The same for sleeping writers and free slots.  clear() frees slots without a
\* notification; this holds because the only thread that clears is the only one
\* that writes (DecoderWorker).
WriterWakeups ==
  Waiting("w_wait") # {}
    => Capacity - Len(buf)
         <= Cardinality({t \in Threads : pc[t] \in {"write", "r_notify"}})

\* The shared state stays consistent, however many threads use it.
Consistent == TypeOK /\ Contiguous /\ Bounded /\ OneHolder

\* Every element that was pushed leaves the buffer: it is read, or cleared.
EveryPushLeaves ==
  \A k \in 1..MaxWrites : (pushed >= k) ~> (pushed - Len(buf) >= k)

\* A writer that found the buffer full gets to push in the end.
BlockedWriteEnds == \A w \in Writers : (pc[w] = "w_wait") ~> (pc[w] = "idle")

\* In the player's use nothing gets stuck in the buffer, and nobody before it.
KeepsMoving == EveryPushLeaves /\ BlockedWriteEnds

\* What the buffer promises: see Channel.
Ch == INSTANCE Channel WITH sent <- pushed,
                            taken <- pushed - Len(buf),
                            ended <- stopped,
                            closed <- {r \in Readers : pc[r] = "r_end"}
Promise == Ch!Spec

=============================================================================
