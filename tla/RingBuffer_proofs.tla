-------------------------- MODULE RingBuffer_proofs --------------------------
(***************************************************************************)
(* What holds of RingBuffer for every number of threads, every capacity    *)
(* and every number of writes.                                             *)
(***************************************************************************)
EXTENDS RingBuffer, SequenceTheorems, FiniteSetTheorems, TLAPS

-----------------------------------------------------------------------------
(* Type correctness *)

PCs == {"idle"} \cup ReadPCs \cup WritePCs \cup StopPCs

\* notify_one moves one or two threads to known places.
LEMMA NotifyOneType ==
  ASSUME pc \in [Threads -> PCs], NEW t \in Threads,
         NEW p \in PCs, NEW asleep, NEW awake \in PCs,
         NotifyOne(t, p, asleep, awake)
  PROVE  pc' \in [Threads -> PCs]
BY DEF NotifyOne, Goto, Waiting

LEMMA TypeInit == Init => TypeOK
<1> SUFFICES ASSUME Init PROVE TypeOK
  OBVIOUS
<1>1. buf \in Seq(1..pushed)
  BY EmptySeq DEF Init
<1>2. /\ pushed \in Nat
      /\ stopped \in BOOLEAN
      /\ pc \in [Threads -> {"idle"} \cup ReadPCs \cup WritePCs \cup StopPCs]
  BY DEF Init
<1>3. got \in [Readers -> 0..pushed]
  BY DEF Init
<1> QED
  BY <1>1, <1>2, <1>3 DEF TypeOK

LEMMA TypeStep == TypeOK /\ [Next]_vars => TypeOK'
<1> SUFFICES ASSUME TypeOK, [Next]_vars PROVE TypeOK'
  OBVIOUS
<1> USE DEF PCs, ReadPCs, WritePCs, StopPCs
<1>1. CASE UNCHANGED vars
  BY <1>1 DEF vars, TypeOK
<1>2. ASSUME NEW t \in Threads, ReadPop(t) PROVE TypeOK'
  <2>1. /\ Head(buf) \in 1..pushed
        /\ Tail(buf) \in Seq(1..pushed)
    BY <1>2, HeadTailProperties DEF TypeOK, ReadPop
  <2> QED
    BY <1>2, <2>1 DEF TypeOK, ReadPop, EntersRead, Goto
<1>3. ASSUME NEW t \in Threads, WritePush(t) PROVE TypeOK'
  <2>1. buf \in Seq(1..(pushed + 1))
    BY SeqMonotonic DEF TypeOK
  <2>2. Append(buf, pushed + 1) \in Seq(1..(pushed + 1))
    BY <2>1, AppendProperties DEF TypeOK
  <2> QED
    BY <1>3, <2>2 DEF TypeOK, WritePush, EntersWrite, Goto
<1>4. ASSUME NEW t \in Threads,
             ReadEnd(t) \/ ReadEmpty(t) \/ ReadBlock(t) \/ WriteFull(t) \/ WriteBlock(t)
               \/ StopStore(t) \/ SpuriousWakeup(t)
      PROVE  TypeOK'
  BY <1>4 DEF TypeOK, ReadEnd, ReadEmpty, ReadBlock, WriteFull, WriteBlock, StopStore,
              SpuriousWakeup, Goto
<1>5. ASSUME NEW t \in Threads,
             ReadNotify(t) \/ WriteNotify(t) \/ StopNotifyFull(t) \/ StopNotifyNotFull(t)
      PROVE  TypeOK'
  BY <1>5, NotifyOneType
     DEF TypeOK, ReadNotify, WriteNotify, StopNotifyFull, StopNotifyNotFull
<1>6. ASSUME NEW t \in Threads, Clear(t) PROVE TypeOK'
  BY <1>6, EmptySeq DEF TypeOK, Clear
<1> QED
  BY <1>1, <1>2, <1>3, <1>4, <1>5, <1>6 DEF Next, Read, Write, Stop

\* Every element a reader was handed was pushed before, and every thread is at
\* a place the code has.
THEOREM TypeCorrect == Spec => []TypeOK
<1> QED
  BY TypeInit, TypeStep, PTL DEF Spec

-----------------------------------------------------------------------------
(* Order, capacity and the mutex *)

Inv == Contiguous /\ Bounded /\ OneHolder

\* A notification only wakes sleepers and never makes anybody hold the mutex.
LEMMA NotifyOneHolder ==
  ASSUME pc \in [Threads -> PCs], OneHolder, NEW t \in Threads,
         NEW p \in PCs \ {"r_block", "w_block"}, NEW asleep,
         NEW awake \in PCs \ {"r_block", "w_block"},
         NotifyOne(t, p, asleep, awake)
  PROVE  OneHolder'
BY DEF NotifyOne, Goto, Waiting, OneHolder, PCs, ReadPCs, WritePCs, StopPCs

\* A thread becomes the holder only when there is none.
LEMMA GotoHolder ==
  ASSUME pc \in [Threads -> PCs], OneHolder, NEW t \in Threads, NEW p \in PCs,
         Goto(t, p), ~Held \/ p \notin {"r_block", "w_block"}
  PROVE  OneHolder'
BY DEF Goto, OneHolder, Held

LEMMA InvInit == Init => Inv
<1> SUFFICES ASSUME Init PROVE Inv
  OBVIOUS
<1>1. Len(buf) = 0
  BY EmptySeq DEF Init
<1>2. Contiguous /\ Bounded
  BY <1>1, RingAssumption DEF Contiguous, Bounded
<1>3. OneHolder
  BY DEF OneHolder, Init
<1> QED
  BY <1>2, <1>3 DEF Inv

LEMMA InvStep == TypeOK /\ Inv /\ [Next]_vars => Inv'
<1> SUFFICES ASSUME TypeOK, Inv, [Next]_vars PROVE Inv'
  OBVIOUS
<1>0. pc \in [Threads -> PCs]
  BY DEF TypeOK, PCs
<1>1. CASE UNCHANGED vars
  BY <1>1 DEF vars, Inv, Contiguous, Bounded, OneHolder
<1>2. ASSUME NEW t \in Threads, ReadPop(t) PROVE Inv'
  <2>1. /\ Len(buf) \in Nat
        /\ Len(Tail(buf)) = Len(buf) - 1
        /\ \A i \in 1..Len(Tail(buf)) : Tail(buf)[i] = buf[i + 1]
    BY <1>2, HeadTailProperties, LenProperties DEF TypeOK, ReadPop
  <2>2. Contiguous'
    BY <1>2, <2>1 DEF Inv, Contiguous, ReadPop, TypeOK
  <2>3. Bounded'
    BY <1>2, <2>1, RingAssumption DEF Inv, Bounded, ReadPop
  <2>4. OneHolder'
    BY <1>0, <1>2, GotoHolder DEF Inv, ReadPop, PCs, ReadPCs
  <2> QED
    BY <2>2, <2>3, <2>4 DEF Inv
<1>3. ASSUME NEW t \in Threads, WritePush(t) PROVE Inv'
  <2>0. buf \in Seq(Nat) /\ pushed + 1 \in Nat
    BY SeqMonotonic DEF TypeOK
  <2>1. /\ Len(buf) \in Nat
        /\ Len(buf') = Len(buf) + 1
        /\ \A i \in 1..Len(buf) : buf'[i] = buf[i]
        /\ buf'[Len(buf) + 1] = pushed + 1
        /\ pushed' = pushed + 1
    BY <1>3, <2>0, AppendProperties, LenProperties DEF WritePush
  <2>2. Contiguous'
    <3> SUFFICES ASSUME NEW i \in 1..Len(buf')
                 PROVE  buf'[i] = (pushed' - Len(buf')) + i
      BY DEF Contiguous
    <3>1. CASE i \in 1..Len(buf)
      BY <2>1, <3>1 DEF Inv, Contiguous, TypeOK
    <3>2. CASE i = Len(buf) + 1
      BY <2>1, <3>2 DEF TypeOK
    <3> QED
      BY <2>1, <3>1, <3>2
  <2>3. Bounded'
    BY <1>3, <2>1, RingAssumption DEF Inv, Bounded, WritePush
  <2>4. OneHolder'
    BY <1>0, <1>3, GotoHolder DEF Inv, WritePush, PCs, WritePCs
  <2> QED
    BY <2>2, <2>3, <2>4 DEF Inv
<1>4. ASSUME NEW t \in Threads,
             ReadEnd(t) \/ ReadEmpty(t) \/ ReadBlock(t) \/ WriteFull(t) \/ WriteBlock(t)
               \/ StopStore(t) \/ SpuriousWakeup(t)
      PROVE  Inv'
  <2>1. OneHolder'
    BY <1>0, <1>4, GotoHolder
       DEF Inv, ReadEnd, ReadEmpty, ReadBlock, WriteFull, WriteBlock, StopStore, SpuriousWakeup,
           EntersRead, EntersWrite, PCs, ReadPCs, WritePCs, StopPCs
  <2>2. UNCHANGED <<buf, pushed>>
    BY <1>4 DEF ReadEnd, ReadEmpty, ReadBlock, WriteFull, WriteBlock, StopStore, SpuriousWakeup
  <2> QED
    BY <2>1, <2>2 DEF Inv, Contiguous, Bounded
<1>5. ASSUME NEW t \in Threads,
             ReadNotify(t) \/ WriteNotify(t) \/ StopNotifyFull(t) \/ StopNotifyNotFull(t)
      PROVE  Inv'
  <2>1. OneHolder'
    BY <1>0, <1>5, NotifyOneHolder
       DEF Inv, ReadNotify, WriteNotify, StopNotifyFull, StopNotifyNotFull,
           PCs, ReadPCs, WritePCs, StopPCs
  <2>2. UNCHANGED <<buf, pushed>>
    BY <1>5 DEF ReadNotify, WriteNotify, StopNotifyFull, StopNotifyNotFull
  <2> QED
    BY <2>1, <2>2 DEF Inv, Contiguous, Bounded
<1>6. ASSUME NEW t \in Threads, Clear(t) PROVE Inv'
  <2>1. Len(buf') = 0
    BY <1>6, EmptySeq DEF Clear
  <2>2. Contiguous' /\ Bounded'
    BY <2>1, RingAssumption DEF Contiguous, Bounded
  <2>3. OneHolder'
    BY <1>6 DEF Clear, Inv, OneHolder
  <2> QED
    BY <2>2, <2>3 DEF Inv
<1> QED
  BY <1>1, <1>2, <1>3, <1>4, <1>5, <1>6 DEF Next, Read, Write, Stop

\* Elements stay in the order of their pushes, the capacity is respected and
\* the mutex is held once, for any number of readers, writers and stoppers.
THEOREM Safety == Spec => []Consistent
<1> QED
  BY TypeCorrect, InvInit, InvStep, PTL DEF Spec, Inv, Consistent

-----------------------------------------------------------------------------
(* RingBuffer implements Channel *)

LEMMA PromiseInit == Init => Ch!Init
<1> SUFFICES ASSUME Init PROVE Ch!Init
  OBVIOUS
<1>1. Len(buf) = 0
  BY EmptySeq DEF Init
<1>2. /\ pushed = 0
      /\ stopped = FALSE
      /\ got = [r \in Readers |-> 0]
      /\ {r \in Readers : pc[r] = "r_end"} = {}
  BY DEF Init, Threads
<1> QED
  BY <1>1, <1>2 DEF Ch!Init

\* Steps that touch no data and send no reader to its end are invisible.
LEMMA InvisibleStep ==
  ASSUME UNCHANGED <<buf, stopped, pushed, got>>,
         {r \in Readers : pc'[r] = "r_end"} = {r \in Readers : pc[r] = "r_end"}
  PROVE  UNCHANGED Ch!vars
BY DEF Ch!vars

LEMMA PromiseStep == TypeOK /\ Inv /\ [Next]_vars => [Ch!Next]_(Ch!vars)
<1> SUFFICES ASSUME TypeOK, Inv, [Next]_vars PROVE [Ch!Next]_(Ch!vars)
  OBVIOUS
<1> DEFINE Ended == {r \in Readers : pc[r] = "r_end"}
<1>0. /\ pc \in [Threads -> PCs]
      /\ Readers \subseteq Threads
      /\ Len(buf) \in Nat /\ pushed \in Nat
  BY LenProperties DEF TypeOK, PCs, Threads
<1>1. CASE UNCHANGED vars
  BY <1>1 DEF vars, Ch!vars
<1>2. ASSUME NEW t \in Threads, ReadPop(t) PROVE Ch!Take(t) /\ t \in Readers
  <2>1. /\ Len(buf) > 0
        /\ Len(buf') = Len(buf) - 1
        /\ Head(buf) = buf[1]
    BY <1>2, HeadTailProperties, EmptySeq DEF TypeOK, ReadPop
  <2>2. Head(buf) = (pushed - Len(buf)) + 1
    BY <1>0, <2>1 DEF Inv, Contiguous
  <2>3. t \in Readers /\ t \notin Ended /\ Ended' = Ended
    BY <1>0, <1>2 DEF ReadPop, EntersRead, Goto
  <2>4. /\ got' = [got EXCEPT ![t] = (pushed - Len(buf)) + 1]
        /\ UNCHANGED <<stopped, pushed>>
    BY <1>2, <2>2 DEF ReadPop
  <2> QED
    BY <1>0, <2>1, <2>3, <2>4 DEF Ch!Take
<1>3. ASSUME NEW t \in Threads, WritePush(t) PROVE Ch!Put
  <2>1. buf \in Seq(Nat) /\ pushed + 1 \in Nat
    BY SeqMonotonic DEF TypeOK
  <2>2. Len(buf') = Len(buf) + 1
    BY <1>3, <2>1, AppendProperties DEF WritePush
  <2>3. Ended' = Ended
    BY <1>0, <1>3 DEF WritePush, EntersWrite, Goto
  <2> QED
    BY <1>0, <1>3, <2>2, <2>3, RingAssumption DEF WritePush, Ch!Put
<1>4. ASSUME NEW t \in Threads, ReadEnd(t) PROVE Ch!Close(t) /\ t \in Readers
  <2>1. Len(buf) = 0
    BY <1>4, EmptySeq DEF ReadEnd
  <2>2. t \in Readers /\ Ended' = Ended \cup {t}
    BY <1>0, <1>4 DEF ReadEnd, EntersRead, Goto
  <2> QED
    BY <1>0, <1>4, <2>1, <2>2 DEF ReadEnd, Ch!Close
<1>5. ASSUME NEW t \in Threads, Clear(t) PROVE Ch!Drain
  <2>1. Len(buf') = 0
    BY <1>5, EmptySeq DEF Clear
  <2> QED
    BY <1>0, <1>5, <2>1 DEF Clear, Ch!Drain
<1>6. ASSUME NEW t \in Threads, StopStore(t) PROVE Ch!End
  <2>1. Ended' = Ended
    BY <1>0, <1>6 DEF StopStore, Goto
  <2> QED
    BY <1>6, <2>1 DEF StopStore, Ch!End
<1>7. ASSUME NEW t \in Threads,
             ReadEmpty(t) \/ ReadBlock(t) \/ WriteFull(t) \/ WriteBlock(t) \/ SpuriousWakeup(t)
      PROVE  UNCHANGED Ch!vars
  <2>1. Ended' = Ended
    BY <1>0, <1>7 DEF ReadEmpty, ReadBlock, WriteFull, WriteBlock, SpuriousWakeup,
                      EntersRead, EntersWrite, Goto
  <2> QED
    BY <1>7, <2>1, InvisibleStep DEF ReadEmpty, ReadBlock, WriteFull, WriteBlock, SpuriousWakeup
<1>8. ASSUME NEW t \in Threads,
             ReadNotify(t) \/ WriteNotify(t) \/ StopNotifyFull(t) \/ StopNotifyNotFull(t)
      PROVE  UNCHANGED Ch!vars
  <2>1. Ended' = Ended
    BY <1>0, <1>8 DEF ReadNotify, WriteNotify, StopNotifyFull, StopNotifyNotFull,
                      NotifyOne, Waiting, Goto
  <2> QED
    BY <1>8, <2>1, InvisibleStep
       DEF ReadNotify, WriteNotify, StopNotifyFull, StopNotifyNotFull
<1> QED
  BY <1>1, <1>2, <1>3, <1>4, <1>5, <1>6, <1>7, <1>8 DEF Next, Read, Write, Stop, Ch!Next

\* Whatever the threads do, the users of the buffer see a channel that hands
\* out every element once, in order, and ends only when it is empty.
THEOREM Implements == Spec => Promise
<1> QED
  BY TypeCorrect, Safety, PromiseInit, PromiseStep, PTL
     DEF Spec, Promise, Ch!Spec, Inv, Consistent

-----------------------------------------------------------------------------
(* No wakeup is lost *)

\* The threads whose place is in P.
At(f, P) == {t \in Threads : f[t] \in P}

Count(f, P) == Cardinality(At(f, P))
In(p, P) == IF p \in P THEN 1 ELSE 0

\* From f to g, thread t moves to p and the others stay.
Moved(f, g, t, p) == g = [f EXCEPT ![t] = p]

\* How the number of threads at P changes when one thread moves to p.
LEMMA MoveOne ==
  ASSUME NEW f \in [Threads -> PCs], NEW t \in Threads, NEW p \in PCs, NEW P,
         NEW g, Moved(f, g, t, p)
  PROVE  /\ g \in [Threads -> PCs]
         /\ Count(f, P) \in Nat
         /\ Count(g, P) \in Nat
         /\ Count(g, P) = (Count(f, P) - In(f[t], P)) + In(p, P)
<1> USE DEF Moved
<1>0. g \in [Threads -> PCs]
  OBVIOUS
<1>1. IsFiniteSet(At(f, P)) /\ Count(f, P) \in Nat /\ Count(g, P) \in Nat
  BY RingAssumption, FS_Subset, FS_CardinalityType DEF At, Count
<1>2. CASE f[t] \in P /\ p \in P
  <2>1. At(g, P) = At(f, P)
    BY <1>2 DEF At
  <2> QED
    BY <1>0, <1>1, <1>2, <2>1 DEF Count, In
<1>3. CASE f[t] \in P /\ p \notin P
  <2>1. At(g, P) = At(f, P) \ {t} /\ t \in At(f, P)
    BY <1>3 DEF At
  <2>2. Cardinality(At(f, P) \ {t}) = Cardinality(At(f, P)) - 1
    BY <1>1, <2>1, FS_RemoveElement
  <2>3. Count(g, P) = Count(f, P) - 1
    BY <2>1, <2>2 DEF Count
  <2>4. In(f[t], P) = 1 /\ In(p, P) = 0
    BY <1>3 DEF In
  <2> QED
    BY <1>0, <1>1, <2>3, <2>4
<1>4. CASE f[t] \notin P /\ p \in P
  <2>1. At(g, P) = At(f, P) \cup {t} /\ t \notin At(f, P)
    BY <1>4 DEF At
  <2>2. Cardinality(At(f, P) \cup {t}) = Cardinality(At(f, P)) + 1
    BY <1>1, <2>1, FS_AddElement
  <2>3. Count(g, P) = Count(f, P) + 1
    BY <2>1, <2>2 DEF Count
  <2>4. In(f[t], P) = 0 /\ In(p, P) = 1
    BY <1>4 DEF In
  <2> QED
    BY <1>0, <1>1, <2>3, <2>4
<1>5. CASE f[t] \notin P /\ p \notin P
  <2>1. At(g, P) = At(f, P)
    BY <1>5 DEF At
  <2> QED
    BY <1>0, <1>1, <1>5, <2>1 DEF Count, In
<1> QED
  BY <1>2, <1>3, <1>4, <1>5

ComingReaders == {"read", "w_notify"}
ComingWriters == {"write", "r_notify"}

\* Who is about to sleep holds the mutex, so what it found is still so.
BlockedEmpty == \A t \in Threads : pc[t] = "r_block" => Len(buf) = 0

\* A notification moves the notifier, and then one sleeper if there is any.
LEMMA NotifyOneMoves ==
  ASSUME pc \in [Threads -> PCs], NEW t \in Threads, NEW p, NEW asleep, NEW awake,
         pc[t] # asleep, NotifyOne(t, p, asleep, awake)
  PROVE  \/ /\ \A x \in Threads : pc[x] # asleep
            /\ pc' = [pc EXCEPT ![t] = p]
         \/ \E x \in Threads :
              /\ x # t /\ pc[x] = asleep
              /\ pc' = [[pc EXCEPT ![t] = p] EXCEPT ![x] = awake]
BY DEF NotifyOne, Goto, Waiting

\* What a notification does to the number of threads at P.
LEMMA NotifyOneCount ==
  ASSUME pc \in [Threads -> PCs], NEW t \in Threads, NEW p \in PCs, NEW asleep,
         NEW awake \in PCs, NEW P, NotifyOne(t, p, asleep, awake),
         pc[t] # asleep, asleep \notin P, p \notin P
  PROVE  /\ Count(pc, P) \in Nat
         /\ Count(pc', P) \in Nat
         /\ \/ /\ \A x \in Threads : pc[x] # asleep
               /\ Count(pc', P) = Count(pc, P) - In(pc[t], P)
            \/ Count(pc', P) = (Count(pc, P) - In(pc[t], P)) + In(awake, P)
<1> DEFINE f == [pc EXCEPT ![t] = p]
<1> HIDE DEF f
<1>0. Moved(pc, f, t, p)
  BY DEF f, Moved
<1>1. /\ f \in [Threads -> PCs]
      /\ Count(pc, P) \in Nat
      /\ Count(f, P) \in Nat
      /\ Count(f, P) = (Count(pc, P) - In(pc[t], P)) + In(p, P)
  BY <1>0, MoveOne
<1>2. In(p, P) = 0 /\ In(pc[t], P) \in {0, 1}
  BY DEF In
<1>3. CASE (\A x \in Threads : pc[x] # asleep) /\ pc' = f
  BY <1>1, <1>2, <1>3
<1>4. ASSUME NEW x \in Threads, x # t, pc[x] = asleep, Moved(f, pc', x, awake)
      PROVE  Count(pc', P) \in Nat /\ Count(pc', P) = Count(f, P) + In(awake, P)
  <2>1. f[x] = asleep
    BY <1>0, <1>4 DEF Moved
  <2>2. In(f[x], P) = 0
    BY <2>1 DEF In
  <2>3. /\ Count(pc', P) \in Nat
        /\ Count(pc', P) = (Count(f, P) - In(f[x], P)) + In(awake, P)
    BY <1>1, <1>4, MoveOne
  <2> QED
    BY <1>1, <2>2, <2>3
<1>5. \/ (\A x \in Threads : pc[x] # asleep) /\ pc' = f
      \/ \E x \in Threads : x # t /\ pc[x] = asleep /\ Moved(f, pc', x, awake)
  BY NotifyOneMoves DEF f, Moved
<1> QED
  BY <1>1, <1>2, <1>3, <1>4, <1>5

LEMMA GotoCount ==
  ASSUME pc \in [Threads -> PCs], NEW t \in Threads, NEW p \in PCs, NEW P, Goto(t, p)
  PROVE  /\ Count(pc, P) \in Nat
         /\ Count(pc', P) \in Nat
         /\ Count(pc', P) = (Count(pc, P) - In(pc[t], P)) + In(p, P)
<1>1. Moved(pc, pc', t, p)
  BY DEF Goto, Moved
<1> QED
  BY <1>1, MoveOne

\* How each operation changes the number of elements.
LEMMA Lengths ==
  ASSUME TypeOK, NEW t \in Threads
  PROVE  /\ Len(buf) \in Nat
         /\ ReadPop(t) => Len(buf) > 0 /\ Len(buf') = Len(buf) - 1
         /\ WritePush(t) => Len(buf') = Len(buf) + 1
         /\ Clear(t) => Len(buf') = 0
         /\ ReadEmpty(t) \/ ReadEnd(t) => Len(buf) = 0
<1>1. Len(buf) \in Nat
  BY LenProperties DEF TypeOK
<1>2. ASSUME ReadPop(t) PROVE Len(buf) > 0 /\ Len(buf') = Len(buf) - 1
  BY <1>2, HeadTailProperties, EmptySeq DEF TypeOK, ReadPop
<1>3. ASSUME WritePush(t) PROVE Len(buf') = Len(buf) + 1
  <2>1. buf \in Seq(Nat) /\ pushed + 1 \in Nat
    BY SeqMonotonic DEF TypeOK
  <2> QED
    BY <1>3, <2>1, AppendProperties DEF WritePush
<1>4. ASSUME Clear(t) PROVE Len(buf') = 0
  BY <1>4, EmptySeq DEF Clear
<1>5. ASSUME ReadEmpty(t) \/ ReadEnd(t) PROVE Len(buf) = 0
  BY <1>5, EmptySeq DEF ReadEmpty, ReadEnd
<1> QED
  BY <1>1, <1>2, <1>3, <1>4, <1>5

\* Nobody is about to sleep while another thread works under the mutex.
LEMMA BlockedStep == TypeOK /\ BlockedEmpty /\ [Next]_vars => BlockedEmpty'
<1> SUFFICES ASSUME TypeOK, BlockedEmpty, [Next]_vars PROVE BlockedEmpty'
  OBVIOUS
<1>0. pc \in [Threads -> PCs]
  BY DEF TypeOK, PCs
<1>1. CASE UNCHANGED vars
  BY <1>1 DEF vars, BlockedEmpty
<1>2. ASSUME NEW t \in Threads, ReadPop(t) \/ WritePush(t) \/ Clear(t) PROVE BlockedEmpty'
  BY <1>0, <1>2 DEF BlockedEmpty, ReadPop, WritePush, Clear, EntersRead, EntersWrite, Held, Goto
<1>3. ASSUME NEW t \in Threads, ReadEmpty(t) PROVE BlockedEmpty'
  BY <1>3, Lengths DEF BlockedEmpty, ReadEmpty
<1>4. ASSUME NEW t \in Threads,
             ReadEnd(t) \/ ReadBlock(t) \/ WriteFull(t) \/ WriteBlock(t) \/ StopStore(t)
               \/ SpuriousWakeup(t)
      PROVE  BlockedEmpty'
  BY <1>0, <1>4 DEF BlockedEmpty, ReadEnd, ReadBlock, WriteFull, WriteBlock, StopStore,
                    SpuriousWakeup, Goto
<1>5. ASSUME NEW t \in Threads,
             ReadNotify(t) \/ WriteNotify(t) \/ StopNotifyFull(t) \/ StopNotifyNotFull(t)
      PROVE  BlockedEmpty'
  BY <1>0, <1>5 DEF BlockedEmpty, ReadNotify, WriteNotify, StopNotifyFull, StopNotifyNotFull,
                    NotifyOne, Waiting, Goto
<1> QED
  BY <1>1, <1>2, <1>3, <1>4, <1>5 DEF Next, Read, Write, Stop

\* Somebody sleeps at q.
Sleeping(f, q) == \E x \in Threads : f[x] = q

\* A thread that does not go to sleep at q leaves the sleepers there alone.
LEMMA GotoWake ==
  ASSUME pc \in [Threads -> PCs], NEW t \in Threads, NEW p \in PCs, NEW P, NEW q, p # q,
         Goto(t, p)
  PROVE  /\ Sleeping(pc', q) => Sleeping(pc, q)
         /\ Count(pc, P) \in Nat
         /\ Count(pc', P) \in Nat
         /\ Count(pc', P) = (Count(pc, P) - In(pc[t], P)) + In(p, P)
<1>1. Sleeping(pc', q) => Sleeping(pc, q)
  BY DEF Sleeping, Goto
<1> QED
  BY <1>1, GotoCount

\* What a notification of the sleepers at `asleep` does to those at q and to the
\* number of threads at P: it finds none asleep, or sends one to `awake`.
Notified(t, asleep, awake, q, P) ==
  /\ Sleeping(pc', q) => Sleeping(pc, q)
  /\ Count(pc, P) \in Nat
  /\ Count(pc', P) \in Nat
  /\ \/ asleep = q /\ ~Sleeping(pc', q)
     \/ asleep # q /\ Count(pc', P) >= Count(pc, P) - In(pc[t], P)
     \/ Count(pc', P) = (Count(pc, P) - In(pc[t], P)) + In(awake, P)

LEMMA NotifyWake ==
  ASSUME pc \in [Threads -> PCs], NEW t \in Threads, NEW p \in PCs, NEW q,
         NEW asleep, NEW awake \in PCs, NEW P, NotifyOne(t, p, asleep, awake),
         pc[t] # asleep, asleep \notin P, p \notin P, p # q, awake # q
  PROVE  Notified(t, asleep, awake, q, P)
<1>1. Sleeping(pc', q) => Sleeping(pc, q)
  BY DEF Sleeping, NotifyOne, Waiting, Goto
<1>2. In(awake, P) \in {0, 1} /\ In(pc[t], P) \in {0, 1}
  BY DEF In
<1>3. (\A x \in Threads : pc[x] # q) => ~Sleeping(pc', q)
  BY <1>1 DEF Sleeping
<1>4. /\ Count(pc, P) \in Nat
      /\ Count(pc', P) \in Nat
      /\ \/ asleep = q /\ ~Sleeping(pc', q)
         \/ asleep # q /\ Count(pc', P) >= Count(pc, P) - In(pc[t], P)
         \/ Count(pc', P) = (Count(pc, P) - In(pc[t], P)) + In(awake, P)
  BY <1>2, <1>3, NotifyOneCount
<1> QED
  BY <1>1, <1>4 DEF Notified

Woken == Sleeping(pc, "r_wait") => Len(buf) <= Count(pc, ComingReaders)

LEMMA WokenStep == TypeOK /\ BlockedEmpty /\ Woken /\ [Next]_vars => Woken'
<1> SUFFICES ASSUME TypeOK, BlockedEmpty, Woken, [Next]_vars PROVE Woken'
  OBVIOUS
<1>p. /\ {"idle", "read", "r_wait", "r_notify", "write", "w_notify"} \subseteq PCs
      /\ {"r_end", "r_block", "w_block", "w_wait", "s_full", "s_not_full"} \subseteq PCs
  BY DEF PCs, ReadPCs, WritePCs, StopPCs
<1>q. ComingReaders \cap {"idle", "s_not_full", "r_wait", "w_wait"} = {}
  BY DEF ComingReaders
<1>0. /\ pc \in [Threads -> PCs]
      /\ Len(buf) \in Nat
  BY LenProperties DEF TypeOK, PCs
<1>1. Woken' <=> (Sleeping(pc', "r_wait") => Len(buf') <= Count(pc', ComingReaders))
  BY DEF Woken, Sleeping, Count, At
<1>2. \A p : In(p, ComingReaders) = IF p \in {"read", "w_notify"} THEN 1 ELSE 0
  BY DEF In, ComingReaders
<1>3. CASE UNCHANGED vars
  BY <1>3 DEF vars, Woken, Sleeping, Count, At
<1>4. ASSUME NEW t \in Threads, ReadPop(t) PROVE Woken'
  <2>0. Goto(t, "r_notify") /\ "r_notify" \in PCs /\ "r_notify" # "r_wait"
    BY <1>p, <1>4 DEF ReadPop
  <2>3. In("r_notify", ComingReaders) = 0 /\ In(pc[t], ComingReaders) \in {0, 1}
    BY <1>2
  <2>1. /\ Sleeping(pc', "r_wait") => Sleeping(pc, "r_wait")
        /\ Count(pc, ComingReaders) \in Nat /\ Count(pc', ComingReaders) \in Nat
        /\ Count(pc', ComingReaders)
             = (Count(pc, ComingReaders) - In(pc[t], ComingReaders)) + In("r_notify", ComingReaders)
    BY <1>0, <2>0, GotoWake
  <2>2. Len(buf') = Len(buf) - 1
    BY <1>4, Lengths
  <2> QED
    BY <1>0, <1>1, <2>1, <2>2, <2>3 DEF Woken
<1>5. ASSUME NEW t \in Threads, WritePush(t) PROVE Woken'
  <2>1. /\ Sleeping(pc', "r_wait") => Sleeping(pc, "r_wait")
        /\ Count(pc, ComingReaders) \in Nat /\ Count(pc', ComingReaders) \in Nat
        /\ Count(pc', ComingReaders) = (Count(pc, ComingReaders) - In(pc[t], ComingReaders)) + In("w_notify", ComingReaders)
        /\ pc[t] \in {"idle", "write"}
    BY <1>0, <1>p, <1>5, GotoWake DEF WritePush, EntersWrite
  <2>2. Len(buf') = Len(buf) + 1
    BY <1>5, Lengths
  <2> QED
    BY <1>0, <1>p, <1>1, <1>2, <2>1, <2>2 DEF Woken
<1>6. ASSUME NEW t \in Threads, ReadEmpty(t) \/ ReadEnd(t) \/ ReadBlock(t) PROVE Woken'
  <2>1. Len(buf') = 0
    BY <1>6, Lengths DEF BlockedEmpty, ReadBlock, ReadEmpty, ReadEnd
  <2>2. Count(pc', ComingReaders) \in Nat
    BY <1>0, <1>p, <1>6, GotoCount DEF ReadEmpty, ReadEnd, ReadBlock
  <2> QED
    BY <1>0, <1>1, <2>1, <2>2
<1>7. ASSUME NEW t \in Threads, Clear(t) PROVE Woken'
  <2>1. Count(pc', ComingReaders) \in Nat
    BY <1>0, <1>p, <1>7, RingAssumption, FS_Subset, FS_CardinalityType DEF Clear, Count, At
  <2> QED
    BY <1>1, <1>7, <2>1, Lengths
<1>8. ASSUME NEW t \in Threads, NEW p \in {"w_block", "w_wait", "s_full", "read", "write"},
             Goto(t, p), pc[t] \notin ComingReaders \/ p = "w_block", pc[t] # "read", pc[t] # "w_notify",
             UNCHANGED buf
      PROVE  Woken'
  <2>1. /\ Sleeping(pc', "r_wait") => Sleeping(pc, "r_wait")
        /\ Count(pc, ComingReaders) \in Nat /\ Count(pc', ComingReaders) \in Nat
        /\ Count(pc', ComingReaders) = (Count(pc, ComingReaders) - In(pc[t], ComingReaders)) + In(p, ComingReaders)
    BY <1>0, <1>p, <1>8, GotoWake
  <2> QED
    BY <1>0, <1>p, <1>1, <1>2, <1>8, <2>1 DEF Woken
<1>9. ASSUME NEW t \in Threads, WriteFull(t) \/ WriteBlock(t) \/ StopStore(t) \/ SpuriousWakeup(t)
      PROVE  Woken'
  BY <1>8, <1>9 DEF WriteFull, WriteBlock, StopStore, SpuriousWakeup, EntersWrite, ComingReaders
<1>10. ASSUME NEW t \in Threads, ReadNotify(t) \/ StopNotifyNotFull(t) PROVE Woken'
  <2>1. /\ NotifyOne(t, "idle", "w_wait", "write")
        /\ pc[t] \in {"r_notify", "s_not_full"}
        /\ UNCHANGED buf
    BY <1>10 DEF ReadNotify, StopNotifyNotFull
  <2>2. /\ pc[t] # "w_wait" /\ "w_wait" \notin ComingReaders /\ "idle" \notin ComingReaders
        /\ "idle" # "r_wait" /\ "write" # "r_wait" /\ "w_wait" # "r_wait"
        /\ "idle" \in PCs /\ "write" \in PCs
    BY <1>p, <1>q, <2>1
  <2>3. In(pc[t], ComingReaders) = 0 /\ In("write", ComingReaders) = 0
    BY <1>2, <2>1
  <2>4. /\ Sleeping(pc', "r_wait") => Sleeping(pc, "r_wait")
        /\ Count(pc, ComingReaders) \in Nat /\ Count(pc', ComingReaders) \in Nat
        /\ \/ Count(pc', ComingReaders) >= Count(pc, ComingReaders) - In(pc[t], ComingReaders)
           \/ Count(pc', ComingReaders)
                = (Count(pc, ComingReaders) - In(pc[t], ComingReaders)) + In("write", ComingReaders)
    <3>1. Notified(t, "w_wait", "write", "r_wait", ComingReaders)
      BY <1>0, <2>1, <2>2, NotifyWake
    <3> QED
      BY <3>1 DEF Notified
  <2> QED
    BY <1>0, <1>1, <2>1, <2>3, <2>4 DEF Woken
<1>11. ASSUME NEW t \in Threads, NEW p \in {"idle", "s_not_full"},
              NotifyOne(t, p, "r_wait", "read"), pc[t] \in {"w_notify", "s_full"}, UNCHANGED buf
       PROVE  Woken'
  <2>1. /\ pc[t] # "r_wait" /\ p # "r_wait" /\ p \in PCs /\ p \notin ComingReaders
        /\ "r_wait" \notin ComingReaders /\ "read" # "r_wait" /\ "read" \in PCs
    BY <1>p, <1>q, <1>11
  <2>2. In(pc[t], ComingReaders) \in {0, 1} /\ In("read", ComingReaders) = 1
    BY <1>2
  <2>3. /\ Sleeping(pc', "r_wait") => Sleeping(pc, "r_wait")
        /\ Count(pc, ComingReaders) \in Nat /\ Count(pc', ComingReaders) \in Nat
        /\ \/ ~Sleeping(pc', "r_wait")
           \/ Count(pc', ComingReaders)
                = (Count(pc, ComingReaders) - In(pc[t], ComingReaders)) + In("read", ComingReaders)
    <3>1. Notified(t, "r_wait", "read", "r_wait", ComingReaders)
      BY <1>0, <1>11, <2>1, NotifyWake
    <3> QED
      BY <3>1 DEF Notified
  <2> QED
    BY <1>0, <1>1, <1>11, <2>2, <2>3 DEF Woken
<1>12. ASSUME NEW t \in Threads, WriteNotify(t) \/ StopNotifyFull(t) PROVE Woken'
  BY <1>11, <1>12 DEF WriteNotify, StopNotifyFull
<1> QED
  BY <1>3, <1>4, <1>5, <1>6, <1>7, <1>9, <1>10, <1>12 DEF Next, Read, Write, Stop

LEMMA WokenInit == Init => BlockedEmpty /\ Woken
<1> SUFFICES ASSUME Init PROVE BlockedEmpty /\ Woken
  OBVIOUS
<1>1. \A t \in Threads : pc[t] = "idle"
  BY DEF Init
<1> QED
  BY <1>1 DEF BlockedEmpty, Woken, Sleeping

\* No push is forgotten: as long as a reader sleeps, the elements in the buffer
\* are outnumbered by the readers awake and the notifications on their way.
THEOREM NoReaderLeftAsleep == Spec => []ReaderWakeups
<1>1. Init => TypeOK /\ BlockedEmpty /\ Woken
  BY TypeInit, WokenInit
<1>2. TypeOK /\ BlockedEmpty /\ Woken /\ [Next]_vars => (TypeOK /\ BlockedEmpty /\ Woken)'
  BY TypeStep, BlockedStep, WokenStep
<1>3. Woken => ReaderWakeups
  BY DEF Woken, ReaderWakeups, Sleeping, Waiting, Count, At, ComingReaders
<1> QED
  BY <1>1, <1>2, <1>3, PTL DEF Spec

-----------------------------------------------------------------------------
(* The same for the writers, where nobody clears but the only writer *)

OnlyWriterClears == \A c \in Clearers : Writers \subseteq {c}

BlockedFull == \A t \in Threads : pc[t] = "w_block" => Len(buf) >= Capacity

\* Who is inside write is a writer.
InsideWrite == \A t \in Threads : pc[t] \in {"write", "w_block", "w_wait"} => t \in Writers

\* Nobody has filled or freed a slot since a writer found none.
LEMMA FullStep == TypeOK /\ BlockedFull /\ InsideWrite /\ [Next]_vars => BlockedFull' /\ InsideWrite'
<1> SUFFICES ASSUME TypeOK, BlockedFull, InsideWrite, [Next]_vars
             PROVE  BlockedFull' /\ InsideWrite'
  OBVIOUS
<1>0. pc \in [Threads -> PCs]
  BY DEF TypeOK, PCs
<1>1. CASE UNCHANGED vars
  BY <1>1 DEF vars, BlockedFull, InsideWrite
<1>2. ASSUME NEW t \in Threads, ReadPop(t) \/ WritePush(t) \/ Clear(t)
      PROVE  BlockedFull' /\ InsideWrite'
  BY <1>0, <1>2 DEF BlockedFull, InsideWrite, ReadPop, WritePush, Clear, EntersRead, EntersWrite,
                    Held, Goto
<1>3. ASSUME NEW t \in Threads,
             ReadEmpty(t) \/ ReadEnd(t) \/ ReadBlock(t) \/ WriteFull(t) \/ WriteBlock(t)
               \/ StopStore(t) \/ SpuriousWakeup(t)
      PROVE  BlockedFull' /\ InsideWrite'
  BY <1>0, <1>3 DEF BlockedFull, InsideWrite, ReadEmpty, ReadEnd, ReadBlock, WriteFull, WriteBlock,
                    StopStore, SpuriousWakeup, EntersWrite, Goto
<1>4. ASSUME NEW t \in Threads,
             ReadNotify(t) \/ WriteNotify(t) \/ StopNotifyFull(t) \/ StopNotifyNotFull(t)
      PROVE  BlockedFull' /\ InsideWrite'
  BY <1>0, <1>4 DEF BlockedFull, InsideWrite, ReadNotify, WriteNotify, StopNotifyFull,
                    StopNotifyNotFull, NotifyOne, Waiting, Goto
<1> QED
  BY <1>1, <1>2, <1>3, <1>4 DEF Next, Read, Write, Stop

WriterWoken == Sleeping(pc, "w_wait") => Capacity - Len(buf) <= Count(pc, ComingWriters)

LEMMA WriterWokenStep ==
  ASSUME OnlyWriterClears, TypeOK, BlockedFull, InsideWrite, WriterWoken, [Next]_vars
  PROVE  WriterWoken'
<1>p. /\ {"idle", "read", "r_wait", "r_notify", "write", "w_notify"} \subseteq PCs
      /\ {"r_end", "r_block", "w_block", "w_wait", "s_full", "s_not_full"} \subseteq PCs
  BY DEF PCs, ReadPCs, WritePCs, StopPCs
<1>q. ComingWriters \cap {"idle", "s_not_full", "r_wait", "w_wait"} = {}
  BY DEF ComingWriters
<1>0. /\ pc \in [Threads -> PCs]
      /\ Len(buf) \in Nat /\ Capacity \in Nat
  BY LenProperties, RingAssumption DEF TypeOK, PCs
<1>1. WriterWoken' <=> (Sleeping(pc', "w_wait") => Capacity - Len(buf') <= Count(pc', ComingWriters))
  BY DEF WriterWoken, Sleeping, Count, At
<1>2. \A p : In(p, ComingWriters) = IF p \in {"write", "r_notify"} THEN 1 ELSE 0
  BY DEF In, ComingWriters
<1>3. CASE UNCHANGED vars
  BY <1>3 DEF vars, WriterWoken, Sleeping, Count, At
\* A pop frees one slot and owes one notification.
<1>4. ASSUME NEW t \in Threads, ReadPop(t) PROVE WriterWoken'
  <2>0. Goto(t, "r_notify") /\ "r_notify" \in PCs /\ "r_notify" # "w_wait" /\ pc[t] \in {"idle", "read"}
    BY <1>p, <1>4 DEF ReadPop, EntersRead
  <2>1. /\ Sleeping(pc', "w_wait") => Sleeping(pc, "w_wait")
        /\ Count(pc, ComingWriters) \in Nat /\ Count(pc', ComingWriters) \in Nat
        /\ Count(pc', ComingWriters)
             = (Count(pc, ComingWriters) - In(pc[t], ComingWriters)) + In("r_notify", ComingWriters)
    BY <1>0, <2>0, GotoWake
  <2>2. Len(buf') = Len(buf) - 1
    BY <1>4, Lengths
  <2>3. In("r_notify", ComingWriters) = 1 /\ In(pc[t], ComingWriters) = 0
    BY <1>2, <2>0
  <2> QED
    BY <1>0, <1>1, <2>1, <2>2, <2>3 DEF WriterWoken
\* A push fills one slot, and at most one writer less is awake.
<1>5. ASSUME NEW t \in Threads, WritePush(t) PROVE WriterWoken'
  <2>1. Goto(t, "w_notify") /\ "w_notify" \in PCs /\ "w_notify" # "w_wait"
    BY <1>p, <1>5 DEF WritePush
  <2>2. /\ Sleeping(pc', "w_wait") => Sleeping(pc, "w_wait")
        /\ Count(pc, ComingWriters) \in Nat /\ Count(pc', ComingWriters) \in Nat
        /\ Count(pc', ComingWriters)
             = (Count(pc, ComingWriters) - In(pc[t], ComingWriters)) + In("w_notify", ComingWriters)
    BY <1>0, <2>1, GotoWake
  <2>3. Len(buf') = Len(buf) + 1
    BY <1>5, Lengths
  <2>4. In("w_notify", ComingWriters) = 0 /\ In(pc[t], ComingWriters) \in {0, 1}
    BY <1>2
  <2> QED
    BY <1>0, <1>1, <2>2, <2>3, <2>4 DEF WriterWoken
\* Who goes to sleep found no slot, and there is none still.
<1>6. ASSUME NEW t \in Threads, WriteFull(t) \/ WriteBlock(t) PROVE WriterWoken'
  <2>1. Len(buf') >= Capacity /\ Len(buf') \in Nat
    BY <1>0, <1>6 DEF WriteFull, WriteBlock, BlockedFull
  <2>2. Count(pc', ComingWriters) \in Nat
    BY <1>0, <1>p, <1>6, GotoCount DEF WriteFull, WriteBlock
  <2> QED
    BY <1>0, <1>1, <2>1, <2>2
\* clear frees all slots and notifies nobody; but who clears is the only writer.
<1>7. ASSUME NEW t \in Threads, Clear(t) PROVE WriterWoken'
  <2>1. t \in Clearers /\ pc[t] = "idle" /\ UNCHANGED pc
    BY <1>7 DEF Clear
  <2>2. \A x \in Threads : pc[x] # "w_wait"
    <3> SUFFICES ASSUME NEW x \in Threads, pc[x] = "w_wait" PROVE FALSE
      OBVIOUS
    <3>1. x \in Writers
      BY DEF InsideWrite
    <3>2. x = t
      BY <2>1, <3>1 DEF OnlyWriterClears
    <3> QED
      BY <2>1, <3>2
  <2> QED
    BY <1>1, <2>1, <2>2 DEF Sleeping
<1>8. ASSUME NEW t \in Threads, NEW p \in {"r_end", "r_block", "r_wait", "s_full", "read", "write"},
             Goto(t, p), pc[t] \in {"idle", "read", "r_block", "r_wait", "w_wait"}, UNCHANGED buf
      PROVE  WriterWoken'
  <2>1. /\ Sleeping(pc', "w_wait") => Sleeping(pc, "w_wait")
        /\ Count(pc, ComingWriters) \in Nat /\ Count(pc', ComingWriters) \in Nat
        /\ Count(pc', ComingWriters)
             = (Count(pc, ComingWriters) - In(pc[t], ComingWriters)) + In(p, ComingWriters)
    <3>1. p \in PCs /\ p # "w_wait"
      BY <1>p
    <3> QED
      BY <1>0, <1>8, <3>1, GotoWake
  <2>2. In(pc[t], ComingWriters) = 0 /\ In(p, ComingWriters) \in {0, 1}
    BY <1>2, <1>8
  <2> QED
    BY <1>0, <1>1, <1>8, <2>1, <2>2 DEF WriterWoken
<1>9. ASSUME NEW t \in Threads,
             ReadEnd(t) \/ ReadEmpty(t) \/ ReadBlock(t) \/ StopStore(t) \/ SpuriousWakeup(t)
      PROVE  WriterWoken'
  BY <1>8, <1>9 DEF ReadEnd, ReadEmpty, ReadBlock, StopStore, SpuriousWakeup, EntersRead
\* A notification that was owed is given, or nobody sleeps.
<1>10. ASSUME NEW t \in Threads, ReadNotify(t) \/ StopNotifyNotFull(t) PROVE WriterWoken'
  <2>1. /\ NotifyOne(t, "idle", "w_wait", "write")
        /\ pc[t] \in {"r_notify", "s_not_full"}
        /\ UNCHANGED buf
    BY <1>10 DEF ReadNotify, StopNotifyNotFull
  <2>2. /\ pc[t] # "w_wait" /\ "w_wait" \notin ComingWriters /\ "idle" \notin ComingWriters
        /\ "idle" # "w_wait" /\ "write" # "w_wait"
        /\ "idle" \in PCs /\ "write" \in PCs
    BY <1>p, <1>q, <2>1
  <2>3. In(pc[t], ComingWriters) \in {0, 1} /\ In("write", ComingWriters) = 1
    BY <1>2
  <2>4. /\ Sleeping(pc', "w_wait") => Sleeping(pc, "w_wait")
        /\ Count(pc, ComingWriters) \in Nat /\ Count(pc', ComingWriters) \in Nat
        /\ \/ ~Sleeping(pc', "w_wait")
           \/ Count(pc', ComingWriters)
                = (Count(pc, ComingWriters) - In(pc[t], ComingWriters)) + In("write", ComingWriters)
    <3>1. Notified(t, "w_wait", "write", "w_wait", ComingWriters)
      BY <1>0, <2>1, <2>2, NotifyWake
    <3> QED
      BY <3>1 DEF Notified
  <2> QED
    BY <1>0, <1>1, <2>1, <2>3, <2>4 DEF WriterWoken
<1>11. ASSUME NEW t \in Threads, NEW p \in {"idle", "s_not_full"},
              NotifyOne(t, p, "r_wait", "read"), pc[t] \in {"w_notify", "s_full"}, UNCHANGED buf
       PROVE  WriterWoken'
  <2>1. /\ pc[t] # "r_wait" /\ p # "w_wait" /\ p \in PCs /\ p \notin ComingWriters
        /\ "r_wait" \notin ComingWriters /\ "read" # "w_wait" /\ "read" \in PCs
        /\ "r_wait" # "w_wait"
    BY <1>p, <1>q, <1>11
  <2>2. In(pc[t], ComingWriters) = 0 /\ In("read", ComingWriters) = 0
    BY <1>2, <1>11
  <2>3. /\ Sleeping(pc', "w_wait") => Sleeping(pc, "w_wait")
        /\ Count(pc, ComingWriters) \in Nat /\ Count(pc', ComingWriters) \in Nat
        /\ \/ Count(pc', ComingWriters) >= Count(pc, ComingWriters) - In(pc[t], ComingWriters)
           \/ Count(pc', ComingWriters)
                = (Count(pc, ComingWriters) - In(pc[t], ComingWriters)) + In("read", ComingWriters)
    <3>1. Notified(t, "r_wait", "read", "w_wait", ComingWriters)
      BY <1>0, <1>11, <2>1, NotifyWake
    <3> QED
      BY <3>1, <2>1 DEF Notified
  <2> QED
    BY <1>0, <1>1, <1>11, <2>2, <2>3 DEF WriterWoken
<1>12. ASSUME NEW t \in Threads, WriteNotify(t) \/ StopNotifyFull(t) PROVE WriterWoken'
  BY <1>11, <1>12 DEF WriteNotify, StopNotifyFull
<1> QED
  BY <1>3, <1>4, <1>5, <1>6, <1>7, <1>9, <1>10, <1>12 DEF Next, Read, Write, Stop

LEMMA WriterWokenInit == Init => BlockedFull /\ InsideWrite /\ WriterWoken
<1> SUFFICES ASSUME Init PROVE BlockedFull /\ InsideWrite /\ WriterWoken
  OBVIOUS
<1>1. \A t \in Threads : pc[t] = "idle"
  BY DEF Init
<1> QED
  BY <1>1 DEF BlockedFull, InsideWrite, WriterWoken, Sleeping

\* No free slot is forgotten while a writer sleeps, although clear notifies
\* nobody: it is enough that nobody writes but the thread that clears, as in the
\* player, for any number of readers, or that nobody clears.
THEOREM NoWriterLeftAsleep ==
  ASSUME OnlyWriterClears
  PROVE  Spec => []WriterWakeups
<1>1. Init => TypeOK /\ BlockedFull /\ InsideWrite /\ WriterWoken
  BY TypeInit, WriterWokenInit
<1>2. TypeOK /\ BlockedFull /\ InsideWrite /\ WriterWoken /\ [Next]_vars
        => (TypeOK /\ BlockedFull /\ InsideWrite /\ WriterWoken)'
  BY TypeStep, FullStep, WriterWokenStep
<1>3. WriterWoken => WriterWakeups
  BY DEF WriterWoken, WriterWakeups, Sleeping, Waiting, Count, At, ComingWriters
<1> QED
  BY <1>1, <1>2, <1>3, PTL DEF Spec
=============================================================================
