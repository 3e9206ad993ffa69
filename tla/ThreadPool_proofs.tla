--------------------------- MODULE ThreadPool_proofs ---------------------------
(***************************************************************************)
(* Proofs about ThreadPool, for any sets of workers, submitters and tasks. *)
(* TypeStep is the usual induction.  StopStep is about the protocol of     *)
(* stopping, OrderStep about who holds which task.                         *)
(***************************************************************************)
EXTENDS ThreadPool, TLAPS, SequenceTheorems

WorkerPCs == {"loop", "eval", "block", "wait", "run", "done"}
SubmitterPCs == {"idle", "emplace", "notify", "thrown"}

\* A worker holds a task exactly while it runs it; a submitter about to queue a
\* task has one.
Holds == /\ \A w \in Workers : worker[w] = "run" <=> task[w] # NoTask
         /\ \A s \in Submitters : submitter[s] = "emplace" => arg[s] # NoTask

\* Types, and that tasks are where the program counters say: initially.
LEMMA TypeInit == Init => TypeOK /\ Holds
<1>1. <<>> \in Seq(Tasks)
  BY EmptySeq
<1>2. QED
  BY <1>1, PoolAssumption DEF Init, TypeOK, Holds

\* ... and in every step.
LEMMA TypeStep == TypeOK /\ Holds /\ [Next]_vars => TypeOK' /\ Holds'
<1> SUFFICES ASSUME TypeOK, Holds, [Next]_vars
             PROVE  TypeOK' /\ Holds'
  OBVIOUS
<1> USE PoolAssumption
<1>1. ASSUME NEW s \in Submitters, SubmitTest(s)
      PROVE  TypeOK' /\ Holds'
  BY <1>1 DEF SubmitTest, TypeOK, Holds
<1>2. ASSUME NEW s \in Submitters, SubmitEmplace(s)
      PROVE  TypeOK' /\ Holds'
  <2>1. arg[s] \in Tasks
    BY <1>2 DEF SubmitEmplace, TypeOK, Holds
  <2>2. tasks' \in Seq(Tasks) /\ accepted' \in Seq(Tasks)
    BY <1>2, <2>1, AppendProperties DEF SubmitEmplace, TypeOK
  <2>3. QED
    BY <1>2, <2>2 DEF SubmitEmplace, TypeOK, Holds
<1>3. ASSUME NEW s \in Submitters, SubmitNotify(s)
      PROVE  TypeOK' /\ Holds'
  BY <1>3 DEF SubmitNotify, Asleep, TypeOK, Holds
<1>4. ASSUME NEW w \in Workers, LoopTest(w)
      PROVE  TypeOK' /\ Holds'
  BY <1>4 DEF LoopTest, TypeOK, Holds
<1>5. ASSUME NEW w \in Workers, TakeTask(w)
      PROVE  TypeOK' /\ Holds'
  <2>1. Head(tasks) \in Tasks /\ tasks' \in Seq(Tasks)
    BY <1>5, HeadTailProperties DEF TakeTask, TypeOK
  <2>2. QED
    BY <1>5, <2>1 DEF TakeTask, TypeOK, Holds
<1>6. ASSUME NEW w \in Workers, LeaveLoop(w) \/ FindNothing(w) \/ Sleep(w)
      PROVE  TypeOK' /\ Holds'
  BY <1>6 DEF LeaveLoop, FindNothing, Sleep, TypeOK, Holds
<1>7. ASSUME NEW w \in Workers, RunTask(w)
      PROVE  TypeOK' /\ Holds'
  BY <1>7 DEF RunTask, TypeOK, Holds
<1>8. ASSUME NEW w \in Workers, SpuriousWakeup(w)
      PROVE  TypeOK' /\ Holds'
  BY <1>8 DEF SpuriousWakeup, TypeOK, Holds
<1>9. CASE ShutDown
  BY <1>9 DEF ShutDown, StoreStop, NotifyAll, Join, Asleep, TypeOK, Holds
<1>10. CASE UNCHANGED vars
  BY <1>10 DEF vars, TypeOK, Holds
<1>11. QED
  BY <1>1, <1>2, <1>3, <1>4, <1>5, <1>6, <1>7, <1>8, <1>9, <1>10
  DEF Next, Submit, Work

\* Every reachable state has the types of the code's variables.
THEOREM TypeCorrect == Spec => []TypeOK
<1>1. Spec => [](TypeOK /\ Holds)
  BY TypeInit, TypeStep, PTL DEF Spec
<1>2. QED
  BY <1>1, PTL

-----------------------------------------------------------------------------
(* Stopping *)

\* What the mutex around `stop = true` buys: nobody is in the middle of a
\* critical section that has read the flag as FALSE.  After notify_all nobody
\* sleeps either, and after the joins every worker has returned.
Stopping ==
  /\ stop <=> shut # "none"
  /\ stop => /\ \A w \in Workers : worker[w] # "block"
             /\ \A s \in Submitters : submitter[s] # "emplace"
  /\ shut \in {"join", "joined"} => \A w \in Workers : worker[w] # "wait"
  /\ shut = "joined" => \A w \in Workers : worker[w] = "done"

\* Initially nothing is being stopped.
LEMMA StopInit == Init => Stopping
  BY DEF Init, Stopping

\* No step disturbs it.
LEMMA StopStep == TypeOK /\ Stopping /\ [Next]_vars => Stopping'
<1> SUFFICES ASSUME TypeOK, Stopping, [Next]_vars
             PROVE  Stopping'
  OBVIOUS
<1>1. ASSUME NEW s \in Submitters, Submit(s)
      PROVE  Stopping'
  <2>1. CASE SubmitTest(s)
    BY <2>1 DEF SubmitTest, TypeOK, Stopping
  <2>2. CASE SubmitEmplace(s)
    BY <2>2 DEF SubmitEmplace, TypeOK, Stopping
  <2>3. CASE SubmitNotify(s)
    BY <2>3 DEF SubmitNotify, Asleep, TypeOK, Stopping
  <2>4. QED
    BY <1>1, <2>1, <2>2, <2>3 DEF Submit
<1>2. ASSUME NEW w \in Workers, Work(w) \/ SpuriousWakeup(w)
      PROVE  Stopping'
  BY <1>2 DEF Work, LoopTest, TakeTask, LeaveLoop, FindNothing, Sleep, RunTask, SpuriousWakeup,
              TypeOK, Stopping
<1>3. CASE StoreStop
  BY <1>3 DEF StoreStop, Held, TypeOK, Stopping
<1>4. CASE NotifyAll
  BY <1>4 DEF NotifyAll, Asleep, TypeOK, Stopping
<1>5. CASE Join
  BY <1>5 DEF Join, TypeOK, Stopping
<1>6. CASE UNCHANGED vars
  BY <1>6 DEF vars, Stopping
<1>7. QED
  BY <1>1, <1>2, <1>3, <1>4, <1>5, <1>6 DEF Next, ShutDown

\* shut_down never joins a worker that sleeps or is about to.
THEOREM NoSleeperLeft == Spec => []NoSleeperWhenJoining
<1>1. Stopping => NoSleeperWhenJoining
  BY DEF Stopping, NoSleeperWhenJoining
<1>2. Spec => [](TypeOK /\ Holds /\ Stopping)
  BY TypeInit, TypeStep, StopInit, StopStep, PTL DEF Spec
<1>3. QED
  BY <1>1, <1>2, PTL

\* Once shut_down has returned, no worker does anything any more.
THEOREM QuietWhenJoined == Spec => QuietAfterJoin
<1>1. ASSUME TypeOK, Stopping, [Next]_vars, shut = "joined"
      PROVE  UNCHANGED <<worker, task, ready>>
  <2>1. \A w \in Workers : worker[w] = "done"
    BY <1>1 DEF Stopping
  <2>2. ASSUME NEW s \in Submitters, Submit(s)
        PROVE  UNCHANGED <<worker, task, ready>>
    BY <2>1, <2>2 DEF Submit, SubmitTest, SubmitEmplace, SubmitNotify, Asleep
  <2>3. ASSUME NEW w \in Workers, Work(w) \/ SpuriousWakeup(w)
        PROVE  FALSE
    BY <2>1, <2>3 DEF Work, LoopTest, TakeTask, LeaveLoop, FindNothing, Sleep, RunTask,
                      SpuriousWakeup
  <2>4. ~ShutDown
    BY <1>1 DEF ShutDown, StoreStop, NotifyAll, Join
  <2>5. QED
    BY <1>1, <2>2, <2>3, <2>4 DEF Next, vars
<1>2. TypeOK /\ Stopping /\ [Next]_vars
        => [shut = "joined" => UNCHANGED <<worker, task, ready>>]_vars
  BY <1>1
<1>3. Spec => [](TypeOK /\ Holds /\ Stopping)
  BY TypeInit, TypeStep, StopInit, StopStep, PTL DEF Spec
<1>4. QED
  BY <1>2, <1>3, PTL DEF Spec, QuietAfterJoin

\* submit accepts nothing once the pool is being stopped.
THEOREM NothingAccepted == Spec => NothingAcceptedAfterStop
<1>1. ASSUME Stopping, [Next]_vars, stop
      PROVE  UNCHANGED accepted
  <2>1. \A s \in Submitters : ~SubmitEmplace(s)
    BY <1>1 DEF Stopping, SubmitEmplace
  <2>2. QED
    BY <1>1, <2>1 DEF Next, Submit, SubmitTest, SubmitNotify, Work, LoopTest, TakeTask, LeaveLoop,
                      FindNothing, Sleep, RunTask, SpuriousWakeup, ShutDown, StoreStop, NotifyAll,
                      Join, vars
<1>2. Stopping /\ [Next]_vars => [stop => UNCHANGED accepted]_vars
  BY <1>1
<1>3. Spec => [](TypeOK /\ Holds /\ Stopping)
  BY TypeInit, TypeStep, StopInit, StopStep, PTL DEF Spec
<1>4. QED
  BY <1>2, <1>3, PTL DEF Spec, NothingAcceptedAfterStop

-----------------------------------------------------------------------------
(* Order, and running once *)

\* How many tasks have been taken from the queue.
Taken == Len(accepted) - Len(tasks)

Started(t) == \E i \in 1..Taken : accepted[i] = t

\* No task is accepted twice, because a submitter's task is in nobody else's
\* hands and was not accepted before.
Fresh ==
  /\ \A i, j \in 1..Len(accepted) : accepted[i] = accepted[j] => i = j
  /\ \A s \in Submitters : \A i \in 1..Len(accepted) : accepted[i] # arg[s]
  /\ \A r, s \in Submitters : r # s /\ arg[s] # NoTask => arg[r] # arg[s]

\* What is running or has run was taken from the queue; it is in one place.
InOnePlace ==
  /\ \A w \in Workers : task[w] # NoTask => Started(task[w])
  /\ \A t \in ready : Started(t)
  /\ \A w \in Workers : task[w] # NoTask => task[w] \notin ready
  /\ \A v, w \in Workers : v # w /\ task[w] # NoTask => task[v] # task[w]

Order == StartedInOrder /\ Fresh /\ InOnePlace

\* Initially nothing was submitted.
LEMMA OrderInit == Init => Order
<1> SUFFICES ASSUME Init PROVE Order
  OBVIOUS
<1>1. Len(tasks) = 0 /\ Len(accepted) = 0
  BY EmptySeq DEF Init
<1>2. 1..Len(accepted) = {} /\ 1..Len(tasks) = {}
  BY <1>1
<1>3. StartedInOrder
  BY <1>1, <1>2 DEF StartedInOrder
<1>4. Fresh
  BY <1>2 DEF Init, Fresh
<1>5. InOnePlace
  BY DEF Init, InOnePlace
<1>6. QED
  BY <1>3, <1>4, <1>5 DEF Order

\* The lengths are numbers, and no more tasks wait than were accepted.
LEMMA TakenType == TypeOK /\ Order => /\ Len(tasks) \in Nat /\ Len(accepted) \in Nat
                                     /\ Taken \in Nat
                                     /\ Taken <= Len(accepted)
<1> SUFFICES ASSUME TypeOK, Order
             PROVE  /\ Len(tasks) \in Nat /\ Len(accepted) \in Nat
                    /\ Taken \in Nat
                    /\ Taken <= Len(accepted)
  OBVIOUS
<1>1. Len(tasks) \in Nat /\ Len(accepted) \in Nat
  BY LenProperties DEF TypeOK
<1>2. Len(tasks) <= Len(accepted)
  BY DEF Order, StartedInOrder
<1>3. QED
  BY <1>1, <1>2 DEF Taken

\* What was started was accepted.
LEMMA StartedAccepted ==
  ASSUME TypeOK, Order, NEW t, Started(t)
  PROVE  \E i \in 1..Len(accepted) : accepted[i] = t
<1>1. PICK i \in 1..Taken : accepted[i] = t
  BY DEF Started
<1>2. i \in 1..Len(accepted)
  BY TakenType
<1>3. QED
  BY <1>1, <1>2

\* A new submission is of a task that nobody has submitted.
LEMMA OrderSubmitTest ==
  ASSUME TypeOK, Order, NEW s \in Submitters, SubmitTest(s)
  PROVE  Order'
<1>1. PICK t \in Tasks \ Submitted : arg' = [arg EXCEPT ![s] = t]
  BY DEF SubmitTest
<1>2. UNCHANGED <<tasks, accepted, task, ready>>
  BY DEF SubmitTest
<1>3. StartedInOrder' /\ InOnePlace'
  BY <1>2 DEF Order, StartedInOrder, InOnePlace, Started, Taken
<1>4. Fresh'
  <2>1. arg' \in [Submitters -> Tasks \cup {NoTask}] /\ arg'[s] = t
        /\ \A r \in Submitters : r # s => arg'[r] = arg[r]
    BY <1>1 DEF TypeOK
  <2>2. \A r \in Submitters : arg[r] # t
    BY DEF Submitted
  <2>3. \A i \in 1..Len(accepted) : accepted[i] # t
    <3>1. DOMAIN accepted = 1..Len(accepted)
      BY LenProperties DEF TypeOK
    <3>2. QED
      BY <3>1 DEF Submitted
  <2>4. QED
    BY <1>2, <2>1, <2>2, <2>3 DEF Order, Fresh
<1>5. QED
  BY <1>3, <1>4 DEF Order

\* Queueing appends the same task to the queue and to what was accepted.
LEMMA OrderSubmitEmplace ==
  ASSUME TypeOK, Holds, Order, NEW s \in Submitters, SubmitEmplace(s)
  PROVE  Order'
<1> DEFINE t == arg[s]
           n == Len(accepted)
<1>1. t \in Tasks /\ t # NoTask
  BY PoolAssumption DEF SubmitEmplace, TypeOK, Holds
<1>2. tasks' = Append(tasks, t) /\ accepted' = Append(accepted, t)
  BY DEF SubmitEmplace
<1>3. /\ Len(tasks') = Len(tasks) + 1 /\ Len(accepted') = n + 1
      /\ \A i \in 1..Len(tasks) : tasks'[i] = tasks[i]
      /\ tasks'[Len(tasks) + 1] = t
      /\ \A i \in 1..n : accepted'[i] = accepted[i]
      /\ accepted'[n + 1] = t
  BY <1>1, <1>2, AppendProperties DEF TypeOK
<1>4. Len(tasks) \in Nat /\ n \in Nat /\ Taken \in Nat /\ Taken <= n
  BY TakenType
<1>5. Taken' = Taken
  BY <1>3, <1>4 DEF Taken
<1>6. ASSUME NEW i \in 1..Len(tasks') PROVE tasks'[i] = accepted'[Taken + i]
  <2>1. CASE i = Len(tasks) + 1
    <3>1. Taken + i = n + 1
      BY <1>4, <2>1 DEF Taken
    <3>2. QED
      BY <1>3, <2>1, <3>1
  <2>2. CASE i # Len(tasks) + 1
    <3>1. i \in 1..Len(tasks)
      BY <1>3, <1>4, <2>2
    <3>2. Taken + i \in 1..n
      BY <1>4, <3>1 DEF Taken
    <3>3. tasks[i] = accepted[Taken + i]
      BY <3>1 DEF Order, StartedInOrder, Taken
    <3>4. QED
      BY <1>3, <3>1, <3>2, <3>3
  <2>3. QED
    BY <2>1, <2>2
<1>7. StartedInOrder'
  <2>1. Len(tasks') <= Len(accepted')
    BY <1>3, <1>4 DEF Taken
  <2>2. \A i \in 1..Len(tasks') : tasks'[i] = accepted'[Taken' + i]
    BY <1>5, <1>6
  <2>3. QED
    BY <2>1, <2>2 DEF StartedInOrder, Taken
<1>8. \A i \in 1..n : accepted[i] # t
  BY DEF Order, Fresh
<1>9. Fresh'
  <2>1. \A i \in 1..Len(accepted') : i = n + 1 \/ i \in 1..n
    BY <1>3, <1>4
  <2>2. \A i, j \in 1..Len(accepted') : accepted'[i] = accepted'[j] => i = j
    BY <1>3, <1>8, <2>1 DEF Order, Fresh
  <2>3. /\ arg'[s] = NoTask
        /\ \A r \in Submitters : r # s => arg'[r] = arg[r]
    BY DEF SubmitEmplace, TypeOK
  <2>4. \A i \in 1..n : accepted[i] # NoTask
    BY PoolAssumption, ElementOfSeq DEF TypeOK
  <2>5. \A r \in Submitters : r # s => arg[r] # t
    BY <1>1 DEF Order, Fresh
  <2>6. \A r \in Submitters : \A i \in 1..Len(accepted') : accepted'[i] # arg'[r]
    <3>1. ASSUME NEW r \in Submitters, NEW i \in 1..n PROVE accepted[i] # arg'[r]
      BY <2>3, <2>4 DEF Order, Fresh
    <3>2. ASSUME NEW r \in Submitters PROVE t # arg'[r]
      BY <1>1, <2>3, <2>5
    <3>3. QED
      BY <1>3, <2>1, <3>1, <3>2
  <2>7. \A q, r \in Submitters : q # r /\ arg'[r] # NoTask => arg'[q] # arg'[r]
    BY <2>3 DEF Order, Fresh
  <2>8. QED
    BY <2>2, <2>6, <2>7 DEF Fresh
<1>10. InOnePlace'
  <2>1. UNCHANGED <<task, ready>>
    BY DEF SubmitEmplace
  <2>2. \A u : Started(u) => Started(u)'
    <3>1. \A i \in 1..Taken : i \in 1..n
      BY <1>4
    <3>2. QED
      BY <1>3, <1>5, <3>1 DEF Started
  <2>3. QED
    BY <2>1, <2>2 DEF Order, InOnePlace
<1>11. QED
  BY <1>7, <1>9, <1>10 DEF Order

\* Taking moves the head of the queue from those that wait to those started.
LEMMA OrderTakeTask ==
  ASSUME TypeOK, Order, NEW w \in Workers, TakeTask(w)
  PROVE  Order'
<1> DEFINE t == Head(tasks)
<1>1. /\ tasks # <<>> /\ tasks' = Tail(tasks)
      /\ UNCHANGED <<accepted, arg, ready>>
  BY DEF TakeTask
<1>2. /\ Len(tasks) \in Nat /\ Len(tasks') = Len(tasks) - 1
      /\ \A i \in 1..Len(tasks') : tasks'[i] = tasks[i + 1]
      /\ t = tasks[1] /\ t \in Tasks
  BY <1>1, HeadTailProperties, LenProperties DEF TypeOK
<1>3. Len(tasks) # 0
  BY <1>1, EmptySeq DEF TypeOK
<1>4. Len(accepted) \in Nat /\ Taken \in Nat /\ Taken <= Len(accepted)
  BY TakenType
<1>5. Taken' = Taken + 1
  BY <1>1, <1>2, <1>4 DEF Taken
<1>6. Taken + 1 \in 1..Len(accepted)
  BY <1>2, <1>3, <1>4 DEF Taken
<1>7. t = accepted[Taken + 1]
  BY <1>2, <1>3 DEF Order, StartedInOrder, Taken
<1>8. StartedInOrder'
  <2>1. ASSUME NEW i \in 1..Len(tasks') PROVE tasks'[i] = accepted[Taken + 1 + i]
    <3>1. i + 1 \in 1..Len(tasks)
      BY <1>2
    <3>2. tasks[i + 1] = accepted[Taken + (i + 1)]
      BY <3>1 DEF Order, StartedInOrder, Taken
    <3>3. Taken + (i + 1) = Taken + 1 + i
      BY <1>4, <3>1
    <3>4. QED
      BY <1>2, <3>2, <3>3
  <2>2. Len(tasks') <= Len(accepted')
    BY <1>1, <1>2, <1>4 DEF Taken
  <2>3. \A i \in 1..Len(tasks') : tasks'[i] = accepted'[Taken' + i]
    BY <1>1, <1>5, <2>1
  <2>4. QED
    BY <2>2, <2>3 DEF StartedInOrder, Taken
<1>9. Fresh'
  BY <1>1 DEF Order, Fresh
<1>10. \A u : Started(u) => u # t
  <2>1. ASSUME NEW u, Started(u) PROVE u # t
    <3>1. PICK i \in 1..Taken : accepted[i] = u
      BY <2>1 DEF Started
    <3>2. i \in 1..Len(accepted) /\ i # Taken + 1
      BY <1>4
    <3>3. QED
      BY <1>6, <1>7, <3>1, <3>2 DEF Order, Fresh
  <2>2. QED
    BY <2>1
<1>11. \A u : Started(u) \/ u = t => Started(u)'
  <2>1. Taken + 1 \in 1..Taken' /\ \A i \in 1..Taken : i \in 1..Taken'
    BY <1>4, <1>5
  <2>2. QED
    BY <1>1, <1>7, <2>1 DEF Started
<1>12. task' = [task EXCEPT ![w] = t]
  BY DEF TakeTask
<1>13. task'[w] = t /\ \A v \in Workers : v # w => task'[v] = task[v]
  BY <1>12 DEF TypeOK
<1>14. InOnePlace'
  <2>1. \A v \in Workers : (task[v] # NoTask => Started(task[v]))'
    <3>1. ASSUME NEW v \in Workers, task'[v] # NoTask
          PROVE  \E i \in 1..Taken' : accepted'[i] = task'[v]
      <4>1. CASE v = w
        BY <1>11, <1>13, <4>1 DEF Started
      <4>2. CASE v # w
        BY <1>11, <1>13, <3>1, <4>2 DEF Order, InOnePlace, Started
      <4>3. QED
        BY <4>1, <4>2
    <3>2. QED
      BY <3>1 DEF Started
  <2>2. \A u \in ready' : Started(u)'
    <3>1. ASSUME NEW u \in ready PROVE Started(u)'
      <4>1. Started(u)
        BY DEF Order, InOnePlace
      <4>2. QED
        BY <1>11, <4>1
    <3>2. QED
      BY <1>1, <3>1
  <2>3. /\ \A v \in Workers : task'[v] # NoTask => task'[v] \notin ready
        /\ \A u, v \in Workers : u # v /\ task'[v] # NoTask => task'[u] # task'[v]
    <3>1. t \notin ready
      BY <1>10 DEF Order, InOnePlace
    <3>2. \A v \in Workers : task[v] # t
      BY <1>2, <1>10, PoolAssumption DEF Order, InOnePlace
    <3>3. QED
      BY <1>13, <3>1, <3>2 DEF Order, InOnePlace
  <2>4. QED
    BY <1>1, <2>1, <2>2, <2>3 DEF InOnePlace
<1>15. QED
  BY <1>8, <1>9, <1>14 DEF Order

\* Running moves a task from a worker to those that have run.
LEMMA OrderRunTask ==
  ASSUME TypeOK, Holds, Order, NEW w \in Workers, RunTask(w)
  PROVE  Order'
<1>1. task[w] # NoTask
  BY DEF RunTask, Holds
<1>2. UNCHANGED <<tasks, accepted, arg>> /\ ready' = ready \cup {task[w]}
  BY DEF RunTask
<1>3. task'[w] = NoTask /\ \A v \in Workers : v # w => task'[v] = task[v]
  BY DEF RunTask, TypeOK
<1>4. StartedInOrder' /\ Fresh'
  BY <1>2 DEF Order, StartedInOrder, Fresh
<1>5. \A u : Started(u)' <=> Started(u)
  BY <1>2 DEF Started, Taken
<1>6. InOnePlace'
  BY <1>1, <1>2, <1>3, <1>5 DEF Order, InOnePlace
<1>7. QED
  BY <1>4, <1>6 DEF Order

\* Every other step leaves all of it alone.
LEMMA OrderStep == TypeOK /\ Holds /\ Order /\ [Next]_vars => Order'
<1> SUFFICES ASSUME TypeOK, Holds, Order, [Next]_vars
             PROVE  Order'
  OBVIOUS
<1>1. ASSUME UNCHANGED <<tasks, accepted, arg, task, ready>>
      PROVE  Order'
  BY <1>1 DEF Order, StartedInOrder, Fresh, InOnePlace, Started, Taken
<1>2. ASSUME NEW s \in Submitters, Submit(s)
      PROVE  Order'
  BY <1>1, <1>2, OrderSubmitTest, OrderSubmitEmplace DEF Submit, SubmitNotify
<1>3. ASSUME NEW w \in Workers, Work(w) \/ SpuriousWakeup(w)
      PROVE  Order'
  BY <1>1, <1>3, OrderTakeTask, OrderRunTask
  DEF Work, LoopTest, LeaveLoop, FindNothing, Sleep, SpuriousWakeup
<1>4. CASE ShutDown
  BY <1>1, <1>4 DEF ShutDown, StoreStop, NotifyAll, Join
<1>5. CASE UNCHANGED vars
  BY <1>1, <1>5 DEF vars
<1>6. QED
  BY <1>2, <1>3, <1>4, <1>5 DEF Next

\* A task in a worker's hands waits no more: the queue is what was not taken.
LEMMA OrderRunOnce == TypeOK /\ Order => RunOnce
<1> SUFFICES ASSUME TypeOK, Order, NEW w \in Workers, task[w] # NoTask,
                    NEW i \in 1..Len(tasks)
             PROVE  tasks[i] # task[w]
  BY DEF RunOnce, Order, InOnePlace
<1>1. PICK j \in 1..Taken : accepted[j] = task[w]
  BY DEF Order, InOnePlace, Started
<1>2. tasks[i] = accepted[Taken + i]
  BY DEF Order, StartedInOrder, Taken
<1>3. Len(tasks) \in Nat /\ Len(accepted) \in Nat /\ Taken \in Nat
      /\ Taken + Len(tasks) = Len(accepted)
  BY TakenType DEF Taken
<1>4. j \in 1..Len(accepted) /\ Taken + i \in 1..Len(accepted) /\ j # Taken + i
  BY <1>3
<1>5. QED
  BY <1>1, <1>2, <1>4 DEF Order, Fresh

\* Tasks are started in the order of submit, and each is run once: no promise is
\* set twice, by however many workers.
THEOREM InOrderAndOnce == Spec => [](StartedInOrder /\ RunOnce)
<1>1. TypeOK /\ Order => StartedInOrder /\ RunOnce
  BY OrderRunOnce DEF Order
<1>2. Spec => [](TypeOK /\ Holds /\ Order)
  BY TypeInit, TypeStep, OrderInit, OrderStep, PTL DEF Spec
<1>3. QED
  BY <1>1, <1>2, PTL
=============================================================================
