------------------------------ MODULE TSQueue ------------------------------
(***************************************************************************)
(* TSQueue<T> (TS-queue.h): a std::queue behind a mutex, with a condition  *)
(* variable on which pop() waits.  The server has two of them: the event   *)
(* loop pushes work that the workers pop(), and the workers push results   *)
(* that the event loop polls with try_pop().                               *)
(***************************************************************************)
EXTENDS Naturals, Sequences, FiniteSets

CONSTANTS
  Pushers,          (* threads that call push()                             *)
  Poppers,          (* threads that call pop()                              *)
  Pollers,          (* threads that call try_pop()                          *)
  PushesPerThread,  (* bound: calls of push() by one thread                 *)
  NoThread          (* m_mutex is free                                      *)

Threads == Pushers \cup Poppers \cup Pollers

ASSUME ThreadsAssumption ==
  /\ IsFiniteSet(Threads) /\ NoThread \notin Threads
  /\ Pushers \cap (Poppers \cup Pollers) = {} /\ Poppers \cap Pollers = {}
  /\ PushesPerThread \in Nat

VARIABLES
  m_queue,          (* the underlying queue                                 *)
  m_mutex,          (* the thread that holds the lock, or NoThread          *)
  waiting,          (* the threads blocked on m_cond                        *)
  pc,               (* pc[t]: where thread t is in its call                 *)
  pushes,           (* pushes[t]: elements pushed so far by t               *)
  popped            (* popped[t]: what t's calls have returned, in order    *)

vars == <<m_queue, m_mutex, waiting, pc, pushes, popped>>

Init ==
  /\ m_queue = <<>> /\ m_mutex = NoThread /\ waiting = {}
  /\ pc = [t \in Threads |-> "idle"]
  /\ pushes = [t \in Pushers |-> 0]
  /\ popped = [t \in Poppers \cup Pollers |-> <<>>]

GoTo(t, step) == pc' = [pc EXCEPT ![t] = step]
Acquire(t) == m_mutex = NoThread /\ m_mutex' = t
Release == m_mutex' = NoThread

-----------------------------------------------------------------------------
(* push(): lock, m_queue.push, notify_one, and unlock on return.            *)

PushLock(t) ==
  /\ pc[t] = "idle" /\ pushes[t] < PushesPerThread
  /\ Acquire(t)
  /\ GoTo(t, "push")
  /\ UNCHANGED <<m_queue, waiting, pushes, popped>>

PushAdd(t) ==
  /\ pc[t] = "push"
  /\ m_queue' = Append(m_queue, [by |-> t, n |-> pushes[t] + 1])
  /\ pushes' = [pushes EXCEPT ![t] = @ + 1]
  /\ GoTo(t, "notify")
  /\ UNCHANGED <<m_mutex, waiting, popped>>

(* Mutation of Notify: only when the queue was empty before the push.       *)
MutNotifyFirst(t) ==
  /\ pc[t] = "notify"
  /\ IF waiting = {} \/ Len(m_queue) > 1
       THEN pc' = [pc EXCEPT ![t] = "unlock"] /\ UNCHANGED waiting
       ELSE \E u \in waiting :
              /\ waiting' = waiting \ {u}
              /\ pc' = [pc EXCEPT ![t] = "unlock", ![u] = "woken"]
  /\ UNCHANGED <<m_queue, m_mutex, pushes, popped>>

(* notify_one wakes some waiting thread, which then has to get the lock.    *)
Notify(t) ==
  /\ pc[t] = "notify"
  /\ IF waiting = {}
       THEN pc' = [pc EXCEPT ![t] = "unlock"] /\ UNCHANGED waiting
       ELSE \E u \in waiting :
              /\ waiting' = waiting \ {u}
              /\ pc' = [pc EXCEPT ![t] = "unlock", ![u] = "woken"]
  /\ UNCHANGED <<m_queue, m_mutex, pushes, popped>>

Unlock(t) ==
  /\ pc[t] = "unlock"
  /\ Release
  /\ GoTo(t, "idle")
  /\ UNCHANGED <<m_queue, waiting, pushes, popped>>

-----------------------------------------------------------------------------
(* pop(): lock, wait on m_cond while the queue is empty, take the front.    *)

PopLock(t) ==
  /\ pc[t] \in {"idle", "woken"}
  /\ Acquire(t)
  /\ GoTo(t, "test")
  /\ UNCHANGED <<m_queue, waiting, pushes, popped>>

(* wait() gives the lock back and blocks in one step.                       *)
PopWait(t) ==
  /\ pc[t] = "test" /\ m_queue = <<>>
  /\ waiting' = waiting \cup {t}
  /\ Release
  /\ GoTo(t, "waiting")
  /\ UNCHANGED <<m_queue, pushes, popped>>

(* A spurious wakeup, which the standard allows at any time.                *)
SpuriousWake(t) ==
  /\ pc[t] = "waiting"
  /\ waiting' = waiting \ {t}
  /\ GoTo(t, "woken")
  /\ UNCHANGED <<m_queue, m_mutex, pushes, popped>>

(* Mutation of Take: front() without the lock's pop().                      *)
MutTakeFrontOnly(t) ==
  /\ pc[t] = "test" /\ m_queue # <<>>
  /\ popped' = [popped EXCEPT ![t] = Append(@, Head(m_queue))]
  /\ GoTo(t, "unlock")
  /\ UNCHANGED <<m_queue, m_mutex, waiting, pushes>>

(* front() and m_queue.pop(), in pop() and in try_pop().                    *)
Take(t) ==
  /\ pc[t] = "test" /\ m_queue # <<>>
  /\ popped' = [popped EXCEPT ![t] = Append(@, Head(m_queue))]
  /\ m_queue' = Tail(m_queue)
  /\ GoTo(t, "unlock")
  /\ UNCHANGED <<m_mutex, waiting, pushes>>

-----------------------------------------------------------------------------
(* try_pop(): lock, and take the front or return false.                     *)

TryPopLock(t) ==
  /\ pc[t] = "idle"
  /\ Acquire(t)
  /\ GoTo(t, "test")
  /\ UNCHANGED <<m_queue, waiting, pushes, popped>>

(* Mutation of TryPopEmpty: it waits as pop() does.                         *)
MutTryPopWaits(t) ==
  /\ pc[t] = "test" /\ m_queue = <<>>
  /\ waiting' = waiting \cup {t}
  /\ Release
  /\ GoTo(t, "waiting")
  /\ UNCHANGED <<m_queue, pushes, popped>>

TryPopEmpty(t) ==
  /\ pc[t] = "test" /\ m_queue = <<>>
  /\ GoTo(t, "unlock")
  /\ UNCHANGED <<m_queue, m_mutex, waiting, pushes, popped>>

-----------------------------------------------------------------------------
PushStep(t) == PushLock(t) \/ PushAdd(t) \/ Notify(t) \/ Unlock(t)
PopStep(t)  == PopLock(t) \/ PopWait(t) \/ Take(t) \/ Unlock(t)
PollStep(t) == TryPopLock(t) \/ TryPopEmpty(t) \/ Take(t) \/ Unlock(t)

Next == \/ \E t \in Pushers : PushStep(t)
        \/ \E t \in Poppers : PopStep(t) \/ SpuriousWake(t)
        \/ \E t \in Pollers : PollStep(t)

Spec == Init /\ [][Next]_vars

(* The threads run, and a thread that wants the lock gets it sooner or      *)
(* later although others take it again and again.  Nothing is assumed of    *)
(* spurious wakeups, and no thread has to push.                             *)
Fairness ==
  /\ \A t \in Pushers : WF_vars(PushAdd(t) \/ Notify(t) \/ Unlock(t))
  /\ \A t \in Poppers : WF_vars(PopWait(t) \/ Take(t) \/ Unlock(t))
                        /\ SF_vars(PopLock(t))
  /\ \A t \in Pollers : WF_vars(TryPopEmpty(t) \/ Take(t) \/ Unlock(t))
                        /\ SF_vars(TryPopLock(t))

FairSpec == Spec /\ Fairness

-----------------------------------------------------------------------------
(* Properties.                                                              *)

HoldsLock == {"push", "notify", "unlock", "test"}
StepsOf(t) ==
  IF t \in Pushers THEN {"idle", "push", "notify", "unlock"}
  ELSE IF t \in Poppers THEN {"idle", "test", "waiting", "woken", "unlock"}
  ELSE {"idle", "test", "unlock"}
Element == [by : Pushers, n : Nat]

TypeOK ==
  /\ m_queue \in Seq(Element)
  /\ m_mutex \in Threads \cup {NoThread}
  /\ waiting \subseteq Poppers
  /\ pc \in [Threads -> {"idle", "push", "notify", "unlock", "test",
                         "waiting", "woken"}]
  /\ \A t \in Threads : pc[t] \in StepsOf(t)
  /\ pushes \in [Pushers -> Nat]
  /\ popped \in [Poppers \cup Pollers -> Seq(Element)]

(* The monitor: at most one thread is between lock and unlock, and it is    *)
(* the owner of m_mutex; a thread that sleeps in wait() has given the lock  *)
(* back and is in the wait set, and no other is.                            *)
MonitorInv ==
  /\ \A t \in Threads : pc[t] \in HoldsLock <=> m_mutex = t
  /\ waiting = {t \in Threads : pc[t] = "waiting"}

(* The threads that will look at the queue, or wake one that will, without  *)
(* another push: a pop() that is past its wait or was woken, and a push()   *)
(* that has not notified yet.                                               *)
Awake == {t \in Threads : pc[t] = "woken" \/ pc[t] = "notify"
                          \/ (t \in Poppers /\ pc[t] = "test")}

(* No wakeup is lost (TS-queue.h:20-51): while some pop() sleeps, there is  *)
(* an awake thread for every element in the queue.                          *)
NoLostWakeup == waiting # {} => Len(m_queue) <= Cardinality(Awake)

(* Every element goes to one taker, in order, and is eventually taken.      *)
Fifo == INSTANCE FifoQueue
          WITH Putters <- Pushers, Takers <- Poppers \cup Pollers,
               PutsPerThread <- PushesPerThread,
               queue <- m_queue, puts <- pushes, taken <- popped
ImplementsFifo == Fifo!FSpec
=============================================================================
