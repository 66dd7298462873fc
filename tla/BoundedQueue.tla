---------------------------- MODULE BoundedQueue ----------------------------
(***************************************************************************)
(* core/BoundedQueue.h: the bounded, closable FIFO between the capture     *)
(* threads and the ALPR workers.                                           *)
(*                                                                         *)
(* A critical section under mutex_ is one action.  notify_one() and        *)
(* notify_all() run after the lock is released, so they are actions of     *)
(* their own: any other thread may run between the push and its            *)
(* notification.  notEmpty_.wait_for(lock, timeout, pred) is a wait set:   *)
(* a consumer that finds the predicate false is "waiting"; a notification  *)
(* (or a spurious wake-up) makes it "woken", the timeout makes it          *)
(* "expired"; both then re-take the lock and evaluate the predicate.       *)
(*                                                                         *)
(* Values are the numbers 1, 2, ... in the order in which pushes take the  *)
(* lock; what they carry never matters here.                               *)
(***************************************************************************)
EXTENDS DropOldest, FiniteSets

CONSTANTS
    Producers,    \* threads that push and may close
    Consumers,    \* threads that pop
    Capacity,     \* the constructor's argument, 0 included
    MaxOffered    \* bound: values offered to the queue in one behaviour

ASSUME QueueAssumption ==
    /\ IsFiniteSet(Consumers)
    /\ IsFiniteSet(Producers)
    /\ Capacity \in Nat
    /\ MaxOffered \in Nat

VARIABLES
    queue,        \* queue_
    closed,       \* closed_
    prod,         \* what a producer still has to do outside the lock
    cons,         \* where a consumer is in waitPop
    offered,      \* history: pushes so far; the last value offered
    refused,      \* history: values a push did not enqueue
    taken,        \* history: values handed to consumers
    dropped       \* history: how many pushDropOldest calls returned true

vars == <<queue, closed, prod, cons, offered, refused, taken, dropped>>

-----------------------------------------------------------------------------

(* capacity_(capacity ? capacity : 1) *)
Cap == IF Capacity = 0 THEN 1 ELSE Capacity

Waiting == {c \in Consumers : cons[c] = "waiting"}
Woken == {c \in Consumers : cons[c] = "woken"}
Notifiers == {p \in Producers : prod[p] = "notify_one"}

Init ==
    /\ queue = <<>>
    /\ closed = FALSE
    /\ prod = [p \in Producers |-> "idle"]
    /\ cons = [c \in Consumers |-> "idle"]
    /\ offered = 0
    /\ refused = {}
    /\ taken = {}
    /\ dropped = 0

-----------------------------------------------------------------------------
(* Pushing.                                                                *)

(* A push begins: the thread is free and the bound allows another value. *)
Offer(p) ==
    /\ prod[p] = "idle"
    /\ offered < MaxOffered
    /\ offered' = offered + 1
    /\ UNCHANGED <<closed, cons, taken>>

(* `return false` before anything is enqueued: nothing to notify. *)
Refuse ==
    /\ refused' = refused \cup {offered + 1}
    /\ UNCHANGED <<queue, prod, dropped>>

(* Deviant: the eviction is not reported to the caller. *)
PushDropOldestUncounted(p) ==
    /\ Offer(p)
    /\ \/ closed /\ Refuse
       \/ /\ ~closed
          /\ queue' = PushDropOldest(queue, offered + 1, Cap)
          /\ prod' = [prod EXCEPT ![p] = "notify_one"]
          /\ UNCHANGED <<refused, dropped>>

(* pushDropOldest: a closed queue swallows the value and returns false,    *)
(* the same answer as for a push that evicted nothing.                     *)
PushOrEvict(p) ==
    /\ Offer(p)
    /\ \/ closed /\ Refuse
       \/ /\ ~closed
          /\ queue' = PushDropOldest(queue, offered + 1, Cap)
          /\ dropped' = IF Full(queue, Cap) THEN dropped + 1 ELSE dropped
          /\ prod' = [prod EXCEPT ![p] = "notify_one"]
          /\ UNCHANGED refused

(* tryPush: refuses when closed or full. *)
TryPush(p) ==
    /\ Offer(p)
    /\ \/ (closed \/ Full(queue, Cap)) /\ Refuse
       \/ /\ ~closed /\ ~Full(queue, Cap)
          /\ queue' = Append(queue, offered + 1)
          /\ prod' = [prod EXCEPT ![p] = "notify_one"]
          /\ UNCHANGED <<refused, dropped>>

(* Deviant: the notification of a push is forgotten. *)
NotifyNobody(p) ==
    /\ prod[p] = "notify_one"
    /\ prod' = [prod EXCEPT ![p] = "idle"]
    /\ UNCHANGED <<queue, closed, cons, offered, refused, taken, dropped>>

(* notEmpty_.notify_one(), after the lock: wakes one waiter if there is one. *)
NotifyOne(p) ==
    /\ prod[p] = "notify_one"
    /\ prod' = [prod EXCEPT ![p] = "idle"]
    /\ \/ Waiting = {} /\ UNCHANGED cons
       \/ \E c \in Waiting : cons' = [cons EXCEPT ![c] = "woken"]
    /\ UNCHANGED <<queue, closed, offered, refused, taken, dropped>>

-----------------------------------------------------------------------------
(* Closing.                                                                *)

(* close(), its critical section.  Several threads may call it. *)
Close(p) ==
    /\ prod[p] = "idle"
    /\ closed' = TRUE
    /\ prod' = [prod EXCEPT ![p] = "notify_all"]
    /\ UNCHANGED <<queue, cons, offered, refused, taken, dropped>>

(* Deviant: close() wakes one consumer only. *)
NotifyAllOne(p) ==
    /\ prod[p] = "notify_all"
    /\ prod' = [prod EXCEPT ![p] = "idle"]
    /\ \/ Waiting = {} /\ UNCHANGED cons
       \/ \E c \in Waiting : cons' = [cons EXCEPT ![c] = "woken"]
    /\ UNCHANGED <<queue, closed, offered, refused, taken, dropped>>

(* notEmpty_.notify_all(), after the lock. *)
NotifyAll(p) ==
    /\ prod[p] = "notify_all"
    /\ prod' = [prod EXCEPT ![p] = "idle"]
    /\ cons' = [c \in Consumers |->
                  IF cons[c] = "waiting" THEN "woken" ELSE cons[c]]
    /\ UNCHANGED <<queue, closed, offered, refused, taken, dropped>>

-----------------------------------------------------------------------------
(* Popping.                                                                *)

(* front() and pop_front() *)
TakeHead(c) ==
    /\ queue # <<>>
    /\ taken' = taken \cup {Head(queue)}
    /\ queue' = Tail(queue)
    /\ cons' = [cons EXCEPT ![c] = "idle"]

(* The call returns std::nullopt. *)
TakeNothing(c) ==
    /\ cons' = [cons EXCEPT ![c] = "idle"]
    /\ UNCHANGED <<queue, taken>>

(* The predicate `!queue_.empty() || closed_`, and what follows it. *)
EvaluateWait(c) ==
    \/ TakeHead(c)
    \/ /\ queue = <<>> /\ closed
       /\ TakeNothing(c)
    \/ /\ queue = <<>> /\ ~closed
       /\ cons' = [cons EXCEPT ![c] = "waiting"]
       /\ UNCHANGED <<queue, taken>>

(* waitPop takes the lock and evaluates the predicate for the first time. *)
WaitPop(c) ==
    /\ cons[c] = "idle"
    /\ EvaluateWait(c)
    /\ UNCHANGED <<closed, prod, offered, refused, dropped>>

(* A woken consumer re-takes the lock and evaluates the predicate again. *)
Resume(c) ==
    /\ cons[c] = "woken"
    /\ EvaluateWait(c)
    /\ UNCHANGED <<closed, prod, offered, refused, dropped>>

(* wait_for may return from its inner wait without a notification. *)
SpuriousWake(c) ==
    /\ cons[c] = "waiting"
    /\ cons' = [cons EXCEPT ![c] = "woken"]
    /\ UNCHANGED <<queue, closed, prod, offered, refused, taken, dropped>>

(* The timeout fires: the consumer leaves the wait set. *)
Expire(c) ==
    /\ cons[c] = "waiting"
    /\ cons' = [cons EXCEPT ![c] = "expired"]
    /\ UNCHANGED <<queue, closed, prod, offered, refused, taken, dropped>>

(* After a timeout wait_for returns whatever the predicate says. *)
ResumeExpired(c) ==
    /\ cons[c] = "expired"
    /\ \/ TakeHead(c)
       \/ queue = <<>> /\ TakeNothing(c)
    /\ UNCHANGED <<closed, prod, offered, refused, dropped>>

(* tryPop *)
TryPop(c) ==
    /\ cons[c] = "idle"
    /\ \/ TakeHead(c)
       \/ queue = <<>> /\ TakeNothing(c)
    /\ UNCHANGED <<closed, prod, offered, refused, dropped>>

-----------------------------------------------------------------------------

ProducerStep(p) ==
    \/ PushOrEvict(p)
    \/ TryPush(p)
    \/ NotifyOne(p)
    \/ Close(p)
    \/ NotifyAll(p)

ConsumerStep(c) ==
    \/ WaitPop(c)
    \/ Resume(c)
    \/ SpuriousWake(c)
    \/ Expire(c)
    \/ ResumeExpired(c)
    \/ TryPop(c)

Next ==
    \/ \E p \in Producers : ProducerStep(p)
    \/ \E c \in Consumers : ConsumerStep(c)

(* A thread that is inside an operation keeps running: a producer past its *)
(* unlock issues the notification, a consumer that left the wait set gets  *)
(* the lock.  Nothing forces a thread to start an operation, and timeouts  *)
(* and spurious wake-ups are never relied on.                              *)
Fairness ==
    /\ \A p \in Producers : WF_vars(NotifyOne(p)) /\ WF_vars(NotifyAll(p))
    /\ \A c \in Consumers : WF_vars(Resume(c)) /\ WF_vars(ResumeExpired(c))

Spec == Init /\ [][Next]_vars

FairSpec == Spec /\ Fairness

-----------------------------------------------------------------------------
(* Properties.                                                             *)

(* The type of every variable; a queue never holds more than capacity_.    *)
TypeOK ==
    /\ queue \in Seq(Nat)
    /\ Len(queue) <= Cap
    /\ closed \in BOOLEAN
    /\ prod \in [Producers -> {"idle", "notify_one", "notify_all"}]
    /\ cons \in [Consumers -> {"idle", "waiting", "woken", "expired"}]
    /\ offered \in Nat
    /\ refused \subseteq 1..offered
    /\ taken \subseteq 1..offered
    /\ dropped \in Nat

Accepted == (1..offered) \ refused
Lost == Accepted \ (taken \cup Elements(queue))

(* First in, first out across every mix of pushDropOldest, tryPush and     *)
(* pops by several consumers: the queue is in order of acceptance, and     *)
(* whatever was taken or evicted is older than whatever is still queued.   *)
Fifo ==
    /\ \A i, j \in 1..Len(queue) : i < j => queue[i] < queue[j]
    /\ \A x \in taken \cup Lost, y \in Elements(queue) : x < y

(* Every value that entered the queue and was not handed to a consumer or  *)
(* is still queued was reported by a pushDropOldest that returned true: an *)
(* eviction is never silent (processFrame counts alprDropped from it).     *)
EvictionsReported ==
    Cardinality(refused) + Cardinality(taken) + dropped + Len(queue) = offered

(* A frame is evicted only when the consumers are a whole queue behind:    *)
(* capacity_ newer values were accepted after it ("stale video is          *)
(* worthless, the newest frame matters").  The newest one is never lost.   *)
OnlyStaleEvicted ==
    \A x \in Lost : Cardinality({y \in Accepted : y > x}) >= Cap

(* No lost wake-up.  While a consumer sleeps, every queued value has a     *)
(* notification or an awake consumer of its own on the way; and nobody     *)
(* sleeps on a closed queue unless the notify_all of a close() is still to *)
(* come.  The notifications run outside the lock, after any other step.    *)
NoLostWakeup ==
    /\ Waiting # {} => Len(queue) <= Cardinality(Notifiers) + Cardinality(Woken)
    /\ closed /\ Waiting # {} => \E p \in Producers : prod[p] = "notify_all"

(* A queued value is not left lying while consumers sleep on it, again     *)
(* without the timeout: somebody empties the queue or nobody is asleep.    *)
SleepersAreServed == (queue # <<>> /\ Waiting # {}) ~> (queue = <<>> \/ Waiting = {})
=============================================================================
