--------------------------- MODULE TSQueueProofs ---------------------------
(***************************************************************************)
(* Proofs about TSQueue for every set of threads and any number of pushes: *)
(* the monitor is sound, no wakeup is lost, and every step of the queue is *)
(* a step of FifoQueue or a stutter.                                       *)
(***************************************************************************)
EXTENDS TSQueue, FiniteSetTheorems, SequenceTheorems, TLAPS

(* The inductive invariant: which thread owns the lock says who can move,   *)
(* and that is what keeps the count of awake threads above the queue.       *)
IInv == TypeOK /\ MonitorInv /\ NoLostWakeup

USE DEF Threads

-----------------------------------------------------------------------------
(* The awake threads are finitely many.                                     *)
LEMMA AwakeFinite == IsFiniteSet(Awake) /\ Cardinality(Awake) \in Nat
  BY ThreadsAssumption, FS_Subset, FS_CardinalityType DEF Awake

(* What can happen to the set of awake threads in a step.                   *)
LEMMA OneMoreAwake ==
  ASSUME NEW t, t \notin Awake, Awake' = Awake \cup {t}
  PROVE  Cardinality(Awake') = Cardinality(Awake) + 1
  BY AwakeFinite, FS_AddElement

LEMMA OneLessAwake ==
  ASSUME NEW t, t \in Awake, Awake' = Awake \ {t}
  PROVE  Cardinality(Awake') = Cardinality(Awake) - 1
  BY AwakeFinite, FS_RemoveElement

LEMMA SwapAwake ==
  ASSUME NEW t, NEW u, t \in Awake, u \notin Awake,
         Awake' = (Awake \ {t}) \cup {u}
  PROVE  Cardinality(Awake') = Cardinality(Awake)
  <1> DEFINE Rest == Awake \ {t}
  <1>1. IsFiniteSet(Rest) /\ Cardinality(Rest) = Cardinality(Awake) - 1
    BY AwakeFinite, FS_RemoveElement
  <1>2. u \notin Rest /\ Awake' = Rest \cup {u}
    OBVIOUS
  <1> HIDE DEF Rest
  <1>3. Cardinality(Awake') = Cardinality(Rest) + 1
    BY <1>1, <1>2, FS_AddElement
  <1> QED BY <1>1, <1>3, AwakeFinite

-----------------------------------------------------------------------------
(* Types.                                                                   *)

LEMMA InitTypeOK == Init => TypeOK
  BY DEF Init, TypeOK, StepsOf, Element

LEMMA NextTypeOK == TypeOK /\ [Next]_vars => TypeOK'
  <1> SUFFICES ASSUME TypeOK, [Next]_vars PROVE TypeOK'
    OBVIOUS
  <1> USE ThreadsAssumption DEF TypeOK, StepsOf, GoTo, Acquire, Release
  <1>1. ASSUME NEW t \in Pushers, PushLock(t) PROVE TypeOK'
    BY <1>1 DEF PushLock
  <1>2. ASSUME NEW t \in Pushers, PushAdd(t) PROVE TypeOK'
    <2>1. [by |-> t, n |-> pushes[t] + 1] \in Element
      BY DEF Element
    <2>2. m_queue' \in Seq(Element)
      BY <1>2, <2>1 DEF PushAdd
    <2> QED BY <1>2, <2>2 DEF PushAdd
  <1>3. ASSUME NEW t \in Pushers, Notify(t) PROVE TypeOK'
    BY <1>3 DEF Notify
  <1>4. ASSUME NEW t \in Threads, Unlock(t) PROVE TypeOK'
    BY <1>4 DEF Unlock
  <1>5. ASSUME NEW t \in Poppers, PopLock(t) PROVE TypeOK'
    BY <1>5 DEF PopLock
  <1>6. ASSUME NEW t \in Poppers, PopWait(t) PROVE TypeOK'
    BY <1>6 DEF PopWait
  <1>7. ASSUME NEW t \in Poppers, SpuriousWake(t) PROVE TypeOK'
    BY <1>7 DEF SpuriousWake
  <1>8. ASSUME NEW t \in Poppers \cup Pollers, Take(t) PROVE TypeOK'
    <2>1. Head(m_queue) \in Element /\ m_queue' \in Seq(Element)
      BY <1>8, HeadTailProperties DEF Take
    <2>2. popped' \in [Poppers \cup Pollers -> Seq(Element)]
      BY <1>8, <2>1 DEF Take
    <2> QED BY <1>8, <2>1, <2>2 DEF Take
  <1>9. ASSUME NEW t \in Pollers, TryPopLock(t) PROVE TypeOK'
    BY <1>9 DEF TryPopLock
  <1>10. ASSUME NEW t \in Pollers, TryPopEmpty(t) PROVE TypeOK'
    BY <1>10 DEF TryPopEmpty
  <1>11. CASE UNCHANGED vars
    BY <1>11 DEF vars
  <1> QED
    BY <1>1, <1>2, <1>3, <1>4, <1>5, <1>6, <1>7, <1>8, <1>9, <1>10, <1>11
       DEF Next, PushStep, PopStep, PollStep

-----------------------------------------------------------------------------
(* The monitor.                                                             *)

LEMMA InitMonitorInv == Init => MonitorInv
  BY ThreadsAssumption DEF Init, MonitorInv, HoldsLock

LEMMA NextMonitorInv == TypeOK /\ MonitorInv /\ [Next]_vars => MonitorInv'
  <1> SUFFICES ASSUME TypeOK, MonitorInv, [Next]_vars PROVE MonitorInv'
    OBVIOUS
  <1> USE ThreadsAssumption
      DEF TypeOK, MonitorInv, StepsOf, HoldsLock, GoTo, Acquire, Release
  <1>1. ASSUME NEW t \in Pushers, PushLock(t) PROVE MonitorInv'
    BY <1>1 DEF PushLock
  <1>2. ASSUME NEW t \in Pushers, PushAdd(t) PROVE MonitorInv'
    BY <1>2 DEF PushAdd
  <1>3. ASSUME NEW t \in Pushers, Notify(t) PROVE MonitorInv'
    <2>1. t \in Threads /\ m_mutex = t /\ m_mutex' = m_mutex /\ pc[t] = "notify"
      BY <1>3 DEF Notify
    <2>2. CASE waiting = {}
      BY <1>3, <2>1, <2>2 DEF Notify
    <2>3. ASSUME NEW u \in waiting, waiting' = waiting \ {u},
                 pc' = [pc EXCEPT ![t] = "unlock", ![u] = "woken"]
          PROVE  MonitorInv'
      <3>1. u \in Threads /\ pc[u] = "waiting" /\ u # t
        BY <2>1
      <3>2. \A v \in Threads :
              pc'[v] = IF v = u THEN "woken" ELSE IF v = t THEN "unlock" ELSE pc[v]
        BY <2>1, <2>3, <3>1
      <3>3. waiting' = {v \in Threads : pc'[v] = "waiting"}
        BY <2>1, <2>3, <3>1, <3>2
      <3>4. \A v \in Threads : pc'[v] \in HoldsLock <=> pc[v] \in HoldsLock
        BY <2>1, <3>1, <3>2
      <3> QED BY <2>1, <3>3, <3>4
    <2> QED BY <1>3, <2>2, <2>3 DEF Notify
  <1>4. ASSUME NEW t \in Threads, Unlock(t) PROVE MonitorInv'
    BY <1>4 DEF Unlock
  <1>5. ASSUME NEW t \in Poppers, PopLock(t) PROVE MonitorInv'
    BY <1>5 DEF PopLock
  <1>6. ASSUME NEW t \in Poppers, PopWait(t) PROVE MonitorInv'
    BY <1>6 DEF PopWait
  <1>7. ASSUME NEW t \in Poppers, SpuriousWake(t) PROVE MonitorInv'
    BY <1>7 DEF SpuriousWake
  <1>8. ASSUME NEW t \in Poppers \cup Pollers, Take(t) PROVE MonitorInv'
    BY <1>8 DEF Take
  <1>9. ASSUME NEW t \in Pollers, TryPopLock(t) PROVE MonitorInv'
    BY <1>9 DEF TryPopLock
  <1>10. ASSUME NEW t \in Pollers, TryPopEmpty(t) PROVE MonitorInv'
    BY <1>10 DEF TryPopEmpty
  <1>11. CASE UNCHANGED vars
    BY <1>11 DEF vars
  <1> QED
    BY <1>1, <1>2, <1>3, <1>4, <1>5, <1>6, <1>7, <1>8, <1>9, <1>10, <1>11
       DEF Next, PushStep, PopStep, PollStep

-----------------------------------------------------------------------------
(* The wakeups.                                                             *)

LEMMA InitNoLostWakeup == Init => NoLostWakeup
  BY DEF Init, NoLostWakeup

LEMMA NextNoLostWakeup == IInv /\ [Next]_vars => NoLostWakeup'
  <1> SUFFICES ASSUME IInv, [Next]_vars PROVE NoLostWakeup'
    OBVIOUS
  <1> USE ThreadsAssumption
      DEF IInv, TypeOK, MonitorInv, StepsOf, HoldsLock, GoTo, Acquire, Release
  <1>c. Cardinality(Awake) \in Nat /\ Len(m_queue) \in Nat
    BY AwakeFinite
  <1>1. ASSUME NEW t \in Pushers, PushLock(t) PROVE NoLostWakeup'
    <2>1. Awake' = Awake
      BY <1>1 DEF PushLock, Awake
    <2> QED BY <1>1, <2>1 DEF PushLock, NoLostWakeup
  <1>2. ASSUME NEW t \in Pushers, PushAdd(t) PROVE NoLostWakeup'
    <2>1. t \notin Awake /\ Awake' = Awake \cup {t}
      BY <1>2 DEF PushAdd, Awake
    <2>2. Cardinality(Awake') = Cardinality(Awake) + 1
      BY <2>1, OneMoreAwake
    <2>3. Len(m_queue') = Len(m_queue) + 1
      BY <1>2 DEF PushAdd
    <2>4. waiting' = waiting
      BY <1>2 DEF PushAdd
    <2> QED BY <1>c, <2>2, <2>3, <2>4 DEF NoLostWakeup
  <1>3. ASSUME NEW t \in Pushers, Notify(t) PROVE NoLostWakeup'
    <2>1. CASE waiting = {}
      BY <1>3, <2>1 DEF Notify, NoLostWakeup
    <2>2. CASE waiting # {}
      <3>1. PICK u \in waiting :
              pc' = [pc EXCEPT ![t] = "unlock", ![u] = "woken"]
        BY <1>3, <2>2 DEF Notify
      <3>2. t \in Awake /\ u \notin Awake /\ u # t
        BY <1>3 DEF Notify, Awake
      <3>3. Awake' = (Awake \ {t}) \cup {u}
        BY <1>3, <3>1, <3>2 DEF Notify, Awake
      <3>5. Cardinality(Awake') = Cardinality(Awake)
        BY <3>2, <3>3, SwapAwake
      <3> QED BY <1>3, <2>2, <3>5 DEF Notify, NoLostWakeup
    <2> QED BY <2>1, <2>2
  <1>4. ASSUME NEW t \in Threads, Unlock(t) PROVE NoLostWakeup'
    <2>1. Awake' = Awake
      BY <1>4 DEF Unlock, Awake
    <2> QED BY <1>4, <2>1 DEF Unlock, NoLostWakeup
  <1>5. ASSUME NEW t \in Poppers, PopLock(t) PROVE NoLostWakeup'
    <2>1. CASE pc[t] = "idle"
      <3>1. t \notin Awake /\ Awake' = Awake \cup {t}
        BY <1>5, <2>1 DEF PopLock, Awake
      <3>2. Cardinality(Awake') = Cardinality(Awake) + 1
        BY <3>1, OneMoreAwake
      <3> QED BY <1>5, <1>c, <3>2 DEF PopLock, NoLostWakeup
    <2>2. CASE pc[t] = "woken"
      <3>1. Awake' = Awake
        BY <1>5, <2>2 DEF PopLock, Awake
      <3> QED BY <1>5, <3>1 DEF PopLock, NoLostWakeup
    <2> QED BY <1>5, <2>1, <2>2 DEF PopLock
  <1>6. ASSUME NEW t \in Poppers, PopWait(t) PROVE NoLostWakeup'
    <2>1. Len(m_queue') = 0
      BY <1>6 DEF PopWait
    <2>2. IsFiniteSet(Awake') /\ Cardinality(Awake') \in Nat
      BY FS_Subset, FS_CardinalityType DEF Awake
    <2> QED BY <2>1, <2>2 DEF NoLostWakeup
  <1>7. ASSUME NEW t \in Poppers, SpuriousWake(t) PROVE NoLostWakeup'
    <2>1. t \notin Awake /\ Awake' = Awake \cup {t}
      BY <1>7 DEF SpuriousWake, Awake
    <2>2. waiting # {} /\ m_queue' = m_queue
      BY <1>7 DEF SpuriousWake
    <2>3. Cardinality(Awake') = Cardinality(Awake) + 1
      BY <2>1, OneMoreAwake
    <2> QED BY <1>c, <2>2, <2>3 DEF NoLostWakeup
  <1>8. ASSUME NEW t \in Poppers \cup Pollers, Take(t) PROVE NoLostWakeup'
    <2>1. waiting' = waiting /\ Len(m_queue') = Len(m_queue) - 1
      BY <1>8, HeadTailProperties DEF Take
    <2>2. CASE t \in Poppers
      <3>1. t \in Awake /\ Awake' = Awake \ {t}
        BY <1>8, <2>2 DEF Take, Awake
      <3>2. Cardinality(Awake') = Cardinality(Awake) - 1
        BY <3>1, OneLessAwake
      <3> QED BY <1>c, <2>1, <3>2 DEF NoLostWakeup
    <2>3. CASE t \in Pollers
      <3>1. Awake' = Awake
        BY <1>8, <2>3 DEF Take, Awake
      <3> QED BY <1>c, <2>1, <3>1 DEF NoLostWakeup
    <2> QED BY <2>2, <2>3
  <1>9. ASSUME NEW t \in Pollers, TryPopLock(t) PROVE NoLostWakeup'
    <2>1. Awake' = Awake
      BY <1>9 DEF TryPopLock, Awake
    <2> QED BY <1>9, <2>1 DEF TryPopLock, NoLostWakeup
  <1>10. ASSUME NEW t \in Pollers, TryPopEmpty(t) PROVE NoLostWakeup'
    <2>1. Awake' = Awake
      BY <1>10 DEF TryPopEmpty, Awake
    <2> QED BY <1>10, <2>1 DEF TryPopEmpty, NoLostWakeup
  <1>11. CASE UNCHANGED vars
    BY <1>11 DEF vars, NoLostWakeup, Awake
  <1> QED
    BY <1>1, <1>2, <1>3, <1>4, <1>5, <1>6, <1>7, <1>8, <1>9, <1>10, <1>11
       DEF Next, PushStep, PopStep, PollStep

-----------------------------------------------------------------------------
(* The inductive invariant holds: TSQueue's types, its monitor (who is      *)
(* between lock and unlock, who sleeps) and its wakeups (TS-queue.h:20-62). *)
THEOREM Correctness == Spec => [](TypeOK /\ MonitorInv /\ NoLostWakeup)
  <1>1. Init => IInv
    BY InitTypeOK, InitMonitorInv, InitNoLostWakeup DEF IInv
  <1>2. IInv /\ [Next]_vars => IInv'
    BY NextTypeOK, NextMonitorInv, NextNoLostWakeup DEF IInv
  <1>3. IInv => TypeOK /\ MonitorInv /\ NoLostWakeup
    BY DEF IInv
  <1> QED BY <1>1, <1>2, <1>3, PTL DEF Spec

(* In particular every thread is at a step of its own operation, and what   *)
(* is queued or popped was pushed.                                          *)
THEOREM TypeCorrect == Spec => []TypeOK
  <1> QED BY Correctness, PTL

(* The model's bound on the calls is respected inside a call too.           *)
LEMMA PushesBounded ==
  Spec => [](\A t \in Pushers : pc[t] = "push" => pushes[t] < PushesPerThread)
  <1> DEFINE Bounded ==
        \A t \in Pushers : pc[t] = "push" => pushes[t] < PushesPerThread
  <1>1. Init => Bounded
    BY DEF Init
  <1>2. TypeOK /\ MonitorInv /\ Bounded /\ [Next]_vars => Bounded'
    BY DEF TypeOK, MonitorInv, HoldsLock, Next, vars, PushStep, PopStep, PollStep,
       PushLock, PushAdd, Notify, Unlock, PopLock, PopWait, SpuriousWake, Take,
       TryPopLock, TryPopEmpty, GoTo
  <1> QED BY <1>1, <1>2, Correctness, PTL DEF Spec

(* Every step of the locked queue is a Put or a Take of FifoQueue, or       *)
(* changes nothing that FifoQueue sees: elements leave in the order they    *)
(* entered and each goes to one taker.                                      *)
THEOREM ImplementsFifoSafety == Spec => Fifo!FInit /\ [][Fifo!FNext]_(Fifo!fvars)
  <1>1. Init => Fifo!FInit
    BY DEF Init, Fifo!FInit
  <1> DEFINE Bounded ==
        \A t \in Pushers : pc[t] = "push" => pushes[t] < PushesPerThread
  <1>2. Bounded /\ [Next]_vars => [Fifo!FNext]_(Fifo!fvars)
    <2> SUFFICES ASSUME Bounded, [Next]_vars
                 PROVE  [Fifo!FNext]_(Fifo!fvars)
      OBVIOUS
    <2> USE DEF Fifo!FNext, Fifo!fvars
    <2>1. ASSUME NEW t \in Pushers, PushAdd(t) PROVE Fifo!FNext
      BY <2>1 DEF PushAdd, Fifo!Put
    <2>2. ASSUME NEW t \in Poppers \cup Pollers, Take(t) PROVE Fifo!FNext
      BY <2>2 DEF Take, Fifo!Take
    <2> QED
      BY <2>1, <2>2 DEF Next, PushStep, PopStep, PollStep, vars, PushLock,
         Notify, Unlock, PopLock, PopWait, SpuriousWake, TryPopLock, TryPopEmpty
  <1> QED BY <1>1, <1>2, PushesBounded, PTL DEF Spec
=============================================================================
