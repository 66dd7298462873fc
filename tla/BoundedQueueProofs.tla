------------------------- MODULE BoundedQueueProofs -------------------------
(***************************************************************************)
(* Theorems about BoundedQueue for every set of threads, every capacity    *)
(* and every number of values.  FIFO order needs to know that the queue    *)
(* holds the latest accepted values (LatestInOrder); no lost wake-up needs *)
(* its own two counting conjuncts and nothing else.                        *)
(***************************************************************************)
EXTENDS BoundedQueue, CommonLemmas

(* Capacity 0 behaves as capacity 1, so there is always room for one. *)
LEMMA CapPositive == Cap \in Nat \ {0}
BY QueueAssumption DEF Cap

-----------------------------------------------------------------------------

(* An offered value is a new number, whatever becomes of it. *)
LEMMA NewOffer ==
  ASSUME TypeOK
  PROVE  /\ offered + 1 \in Nat
         /\ 1..(offered + 1) = (1..offered) \cup {offered + 1}
         /\ offered + 1 \notin 1..offered
BY DEF TypeOK

(* An unclosed pushDropOldest lengthens the queue unless it evicts. *)
LEMMA PushLength ==
  ASSUME TypeOK
  PROVE  /\ Len(queue) \in Nat
         /\ Len(PushDropOldest(queue, offered + 1, Cap)) =
              IF Full(queue, Cap) THEN Len(queue) ELSE Len(queue) + 1
<1> DEFINE x == offered + 1
           longer == PushDropOldest(queue, x, Cap)
<1>1. x \in Nat /\ queue \in Seq(Nat) /\ Len(queue) <= Cap /\ Len(queue) \in Nat
  BY NewOffer, LenProperties DEF TypeOK
<1> HIDE DEF x
<1>2. Len(longer) = IF Full(queue, Cap) THEN Len(queue) ELSE Len(queue) + 1
  BY <1>1, CapPositive, PushDropOldestBounded
<1> QED BY <1>1, <1>2 DEF x

(* The queue holds values of 1..offered only, in every reachable state. *)
Contents ==
    /\ LatestInOrder(queue, Accepted)
    /\ taken \subseteq Accepted \ Elements(queue)

(* Removing the head keeps the queue a sequence within its capacity. *)
LEMMA TakeHeadType ==
  ASSUME TypeOK, Contents, NEW c \in Consumers, TakeHead(c)
  PROVE  /\ queue' \in Seq(Nat)
         /\ Len(queue') = Len(queue) - 1
         /\ Len(queue') <= Cap
         /\ Head(queue) \in 1..offered
         /\ taken' \subseteq 1..offered
         /\ cons' \in [Consumers -> {"idle", "waiting", "woken", "expired"}]
<1>1. /\ queue' \in Seq(Nat)
      /\ Len(queue') = Len(queue) - 1
      /\ Len(queue) \in Nat
  BY HeadTailProperties, LenProperties DEF TypeOK, TakeHead
<1>2. Accepted \in SUBSET Nat
  BY DEF TypeOK, Accepted
<1>3. Head(queue) \in Accepted
  BY <1>2, InOrderTail DEF TypeOK, Contents, TakeHead
<1>4. Len(queue') <= Cap
  BY <1>1, CapPositive DEF TypeOK
<1>5. Head(queue) \in 1..offered
  BY <1>3 DEF Accepted
<1>6. /\ taken' \subseteq 1..offered
      /\ cons' \in [Consumers -> {"idle", "waiting", "woken", "expired"}]
  BY <1>5 DEF TypeOK, TakeHead
<1> QED
  BY <1>1, <1>4, <1>5, <1>6

(* waitPop's predicate is evaluated in one of three ways; each keeps the   *)
(* types.                                                                  *)
LEMMA EvaluateWaitType ==
  ASSUME TypeOK, Contents, NEW c \in Consumers, EvaluateWait(c) \/ TakeHead(c) \/ TakeNothing(c)
  PROVE  /\ queue' \in Seq(Nat)
         /\ Len(queue') <= Cap
         /\ taken' \subseteq 1..offered
         /\ cons' \in [Consumers -> {"idle", "waiting", "woken", "expired"}]
<1>1. CASE TakeHead(c)
  BY <1>1, TakeHeadType
<1>2. CASE TakeNothing(c)
  BY <1>2 DEF TypeOK, TakeNothing
<1>3. CASE EvaluateWait(c)
  BY <1>1, <1>2, <1>3 DEF TypeOK, EvaluateWait
<1> QED
  BY <1>1, <1>2, <1>3

(* Every step of a producer or a consumer keeps the types. *)
LEMMA TypeStep == TypeOK /\ Contents /\ [Next]_vars => TypeOK'
<1> SUFFICES ASSUME TypeOK, Contents, [Next]_vars PROVE TypeOK'
  OBVIOUS
<1> USE CapPositive
<1>0. /\ offered + 1 \in Nat
      /\ 1..offered \subseteq 1..(offered + 1)
      /\ offered + 1 \in 1..(offered + 1)
  BY DEF TypeOK
<1>1. ASSUME NEW p \in Producers, PushOrEvict(p) PROVE TypeOK'
  <2>1. PushDropOldest(queue, offered + 1, Cap) \in Seq(Nat)
    BY <1>0, PushDropOldestBounded DEF TypeOK
  <2>2. Len(PushDropOldest(queue, offered + 1, Cap)) <= Cap
    BY <1>0, PushDropOldestBounded DEF TypeOK
  <2>3. CASE closed /\ Refuse
    BY <1>0, <1>1, <2>3 DEF TypeOK, PushOrEvict, Offer, Refuse
  <2>4. CASE ~closed
    <3>1. queue' \in Seq(Nat) /\ Len(queue') <= Cap
      BY <1>1, <2>1, <2>2, <2>4 DEF PushOrEvict
    <3>2. dropped' \in Nat
      BY <1>1, <2>4 DEF TypeOK, PushOrEvict
    <3> QED
      BY <1>0, <1>1, <2>4, <3>1, <3>2 DEF TypeOK, PushOrEvict, Offer
  <2> QED
    BY <1>1, <2>3, <2>4 DEF PushOrEvict
<1>2. ASSUME NEW p \in Producers, TryPush(p) PROVE TypeOK'
  <2>1. CASE (closed \/ Full(queue, Cap)) /\ Refuse
    BY <1>0, <1>2, <2>1 DEF TypeOK, TryPush, Offer, Refuse
  <2>2. CASE ~closed /\ ~Full(queue, Cap) /\ queue' = Append(queue, offered + 1)
    <3>1. queue' \in Seq(Nat) /\ Len(queue') = Len(queue) + 1
      BY <1>0, <2>2, AppendProperties DEF TypeOK
    <3>2. Len(queue) \in Nat
      BY LenProperties DEF TypeOK
    <3>3. Len(queue') <= Cap
      BY <2>2, <3>1, <3>2 DEF Full
    <3> QED
      BY <1>0, <1>2, <2>2, <3>1, <3>3 DEF TypeOK, TryPush, Offer, Refuse
  <2> QED
    BY <1>2, <2>1, <2>2 DEF TryPush
<1>3. ASSUME NEW p \in Producers, NotifyOne(p) PROVE TypeOK'
  BY <1>3 DEF TypeOK, NotifyOne, Waiting
<1>4. ASSUME NEW p \in Producers, Close(p) PROVE TypeOK'
  BY <1>4 DEF TypeOK, Close
<1>5. ASSUME NEW p \in Producers, NotifyAll(p) PROVE TypeOK'
  BY <1>5 DEF TypeOK, NotifyAll
<1>6. ASSUME NEW c \in Consumers,
             WaitPop(c) \/ Resume(c) \/ ResumeExpired(c) \/ TryPop(c)
      PROVE  TypeOK'
  <2>1. EvaluateWait(c) \/ TakeHead(c) \/ TakeNothing(c)
    BY <1>6 DEF WaitPop, Resume, ResumeExpired, TryPop
  <2>2. UNCHANGED <<closed, prod, offered, refused, dropped>>
    BY <1>6 DEF WaitPop, Resume, ResumeExpired, TryPop
  <2> QED
    BY <2>1, <2>2, EvaluateWaitType DEF TypeOK
<1>7. ASSUME NEW c \in Consumers, SpuriousWake(c) \/ Expire(c) PROVE TypeOK'
  BY <1>7 DEF TypeOK, SpuriousWake, Expire
<1>8. CASE UNCHANGED vars
  BY <1>8 DEF TypeOK, vars
<1> QED
  BY <1>1, <1>2, <1>3, <1>4, <1>5, <1>6, <1>7, <1>8
     DEF Next, ProducerStep, ConsumerStep

-----------------------------------------------------------------------------
(* FIFO order and the whereabouts of every accepted value.                 *)

(* A refused value is a new number that never counts as accepted. *)
LEMMA RefuseKeepsAccepted ==
  ASSUME TypeOK, NEW p \in Producers, Offer(p), Refuse
  PROVE  Accepted' = Accepted
BY DEF TypeOK, Offer, Refuse, Accepted

(* An enqueued value is a new number, larger than all accepted before. *)
LEMMA AcceptAddsNewest ==
  ASSUME TypeOK, NEW p \in Producers, Offer(p), UNCHANGED refused
  PROVE  /\ Accepted' = Accepted \cup {offered + 1}
         /\ Accepted \in SUBSET Nat
         /\ offered + 1 \in Nat
         /\ \A a \in Accepted : a < offered + 1
BY DEF TypeOK, Offer, Accepted

(* Taking the head moves one value from the queue to taken. *)
LEMMA TakeHeadContents ==
  ASSUME TypeOK, Contents, NEW c \in Consumers, TakeHead(c),
         UNCHANGED <<offered, refused>>
  PROVE  Contents'
<1>1. Accepted \in SUBSET Nat /\ Accepted' = Accepted
  BY DEF TypeOK, Accepted
<1>2. queue \in Seq(Nat) /\ queue # <<>> /\ queue' = Tail(queue)
  BY DEF TypeOK, TakeHead
<1>3. /\ LatestInOrder(Tail(queue), Accepted)
      /\ Head(queue) \in Accepted
      /\ Head(queue) \notin Elements(Tail(queue))
  BY <1>1, <1>2, InOrderTail DEF Contents
<1>4. Elements(queue) = {Head(queue)} \cup Elements(Tail(queue))
  BY <1>2, ElementsOfTail
<1>5. LatestInOrder(queue', Accepted')
  BY <1>1, <1>2, <1>3
<1>6. taken' \subseteq Accepted' \ Elements(queue')
  BY <1>1, <1>2, <1>3, <1>4 DEF Contents, TakeHead
<1> QED
  BY <1>5, <1>6 DEF Contents

(* A push without eviction appends; one with eviction forgets the head. *)
LEMMA PushContents ==
  ASSUME TypeOK, Contents, NEW p \in Producers, Offer(p), UNCHANGED refused,
         \/ queue' = Append(queue, offered + 1)
         \/ queue # <<>> /\ queue' = Append(Tail(queue), offered + 1)
  PROVE  Contents'
<1>1. /\ Accepted' = Accepted \cup {offered + 1}
      /\ Accepted \in SUBSET Nat
      /\ offered + 1 \in Nat
      /\ \A a \in Accepted : a < offered + 1
  BY AcceptAddsNewest
<1>2. queue \in Seq(Nat) /\ taken' = taken
  BY DEF TypeOK, Offer
<1>3. offered + 1 \notin taken
  BY <1>1 DEF Contents
<1>4. CASE queue' = Append(queue, offered + 1)
  <2>1. LatestInOrder(queue', Accepted')
    BY <1>1, <1>2, <1>4, InOrderAppend DEF Contents
  <2>2. Elements(queue') = Elements(queue) \cup {offered + 1}
    BY <1>1, <1>2, <1>4, ElementsOfAppend
  <2> QED
    BY <1>1, <1>2, <1>3, <2>1, <2>2 DEF Contents
<1>5. CASE queue # <<>> /\ queue' = Append(Tail(queue), offered + 1)
  <2>1. Tail(queue) \in Seq(Nat)
    BY <1>2, <1>5, HeadTailProperties
  <2>2. LatestInOrder(Tail(queue), Accepted)
    BY <1>1, <1>2, <1>5, InOrderTail DEF Contents
  <2>3. LatestInOrder(queue', Accepted')
    BY <1>1, <1>5, <2>1, <2>2, InOrderAppend
  <2>4. Elements(queue') = Elements(Tail(queue)) \cup {offered + 1}
    <3>1. \A t \in Seq(Nat), n \in Nat :
            Elements(Append(t, n)) = Elements(t) \cup {n}
      BY ElementsOfAppend
    <3> QED
      BY <1>1, <1>5, <2>1, <3>1, Zenon
  <2>5. Elements(Tail(queue)) \subseteq Elements(queue)
    BY <1>2, <1>5, ElementsOfTail
  <2> QED
    BY <1>1, <1>2, <1>3, <2>3, <2>4, <2>5 DEF Contents
<1> QED
  BY <1>4, <1>5

(* No step disturbs the order. *)
LEMMA ContentsStep == TypeOK /\ Contents /\ [Next]_vars => Contents'
<1> SUFFICES ASSUME TypeOK, Contents, [Next]_vars PROVE Contents'
  OBVIOUS
<1>1. ASSUME NEW p \in Producers, PushOrEvict(p) PROVE Contents'
  <2>1. CASE closed /\ Refuse
    BY <1>1, <2>1, RefuseKeepsAccepted DEF PushOrEvict, Offer, Refuse, Contents
  <2>2. CASE ~closed
    <3>1. Offer(p) /\ UNCHANGED refused
      BY <1>1, <2>2 DEF PushOrEvict
    <3>2. Full(queue, Cap) => queue # <<>>
      BY CapPositive, NewOffer, PushDropOldestBounded DEF TypeOK
    <3>3. \/ queue' = Append(queue, offered + 1)
          \/ queue # <<>> /\ queue' = Append(Tail(queue), offered + 1)
      BY <1>1, <2>2, <3>2 DEF PushOrEvict, PushDropOldest
    <3> QED
      BY <3>1, <3>3, PushContents
  <2> QED
    BY <1>1, <2>1, <2>2 DEF PushOrEvict
<1>2. ASSUME NEW p \in Producers, TryPush(p) PROVE Contents'
  <2>1. CASE (closed \/ Full(queue, Cap)) /\ Refuse
    BY <1>2, <2>1, RefuseKeepsAccepted DEF TryPush, Offer, Refuse, Contents
  <2>2. CASE ~closed /\ ~Full(queue, Cap)
    BY <1>2, <2>2, PushContents DEF TryPush
  <2> QED
    BY <1>2, <2>1, <2>2 DEF TryPush
<1>3. ASSUME NEW c \in Consumers,
             WaitPop(c) \/ Resume(c) \/ ResumeExpired(c) \/ TryPop(c)
      PROVE  Contents'
  <2>1. \/ TakeHead(c) /\ UNCHANGED <<offered, refused>>
        \/ UNCHANGED <<queue, taken, offered, refused>>
    BY <1>3 DEF WaitPop, Resume, ResumeExpired, TryPop, EvaluateWait, TakeNothing
  <2>2. CASE UNCHANGED <<queue, taken, offered, refused>>
    BY <2>2 DEF Contents, Accepted
  <2> QED
    BY <2>1, <2>2, TakeHeadContents
<1>4. CASE UNCHANGED <<queue, taken, offered, refused>>
  BY <1>4 DEF Contents, Accepted
<1> QED
  BY <1>1, <1>2, <1>3, <1>4
     DEF Next, ProducerStep, ConsumerStep, NotifyOne, Close, NotifyAll,
         SpuriousWake, Expire, vars

(* The order part of the invariant says what Fifo says. *)
LEMMA ContentsImpliesFifo == TypeOK /\ Contents => Fifo
<1> SUFFICES ASSUME TypeOK, Contents PROVE Fifo
  OBVIOUS
<1>1. taken \cup Lost \subseteq Accepted \ Elements(queue)
  BY DEF Contents, Lost
<1> QED
  BY <1>1 DEF Contents, Fifo, LatestInOrder

(* The initial state. *)
LEMMA InitContents == Init => TypeOK /\ Contents
<1> SUFFICES ASSUME Init PROVE TypeOK /\ Contents
  OBVIOUS
<1>1. Elements(queue) = {} /\ queue \in Seq(Nat) /\ Len(queue) = 0
  BY EmptySeq DEF Init, Elements
<1>2. TypeOK
  <2>1. Len(queue) <= Cap
    BY <1>1, CapPositive
  <2>2. /\ prod \in [Producers -> {"idle", "notify_one", "notify_all"}]
        /\ cons \in [Consumers -> {"idle", "waiting", "woken", "expired"}]
    BY DEF Init
  <2> QED
    BY <1>1, <2>1, <2>2 DEF Init, TypeOK
<1>3. Accepted = {} /\ taken = {}
  BY DEF Init, Accepted
<1>4. Contents
  BY <1>1, <1>3 DEF Contents, LatestInOrder
<1> QED
  BY <1>2, <1>4

(* BoundedQueue keeps its types and never holds more than its capacity.    *)
THEOREM TypeCorrect == Spec => []TypeOK
<1>1. TypeOK /\ Contents /\ [Next]_vars => (TypeOK /\ Contents)'
  BY TypeStep, ContentsStep
<1> QED
  BY <1>1, InitContents, PTL DEF Spec

(* First in, first out, with any mix of producers, consumers, evictions    *)
(* and refused pushes: BoundedQueue.h:42-92.                               *)
THEOREM FifoOrder == Spec => []Fifo
<1>1. TypeOK /\ Contents /\ [Next]_vars => (TypeOK /\ Contents)'
  BY TypeStep, ContentsStep
<1> QED
  BY <1>1, InitContents, ContentsImpliesFifo, PTL DEF Spec

-----------------------------------------------------------------------------
(* Every accepted value is queued, taken or reported as evicted.           *)

(* The history sets are finite, so they can be counted. *)
LEMMA HistoryFinite ==
  ASSUME TypeOK
  PROVE  /\ IsFiniteSet(refused) /\ Cardinality(refused) \in Nat
         /\ IsFiniteSet(taken) /\ Cardinality(taken) \in Nat
<1>1. IsFiniteSet(1..offered)
  BY FS_Interval DEF TypeOK
<1>2. IsFiniteSet(refused) /\ IsFiniteSet(taken)
  BY <1>1, FS_Subset DEF TypeOK
<1> QED
  BY <1>2, FS_CardinalityType

(* Each step moves one value from one place to one other. *)
LEMMA AccountStep ==
  TypeOK /\ Contents /\ EvictionsReported /\ [Next]_vars => EvictionsReported'
<1> SUFFICES ASSUME TypeOK, Contents, EvictionsReported, [Next]_vars
             PROVE  EvictionsReported'
  OBVIOUS
<1>0. /\ Len(queue) \in Nat /\ offered \in Nat /\ dropped \in Nat
      /\ IsFiniteSet(refused) /\ Cardinality(refused) \in Nat
      /\ IsFiniteSet(taken) /\ Cardinality(taken) \in Nat
  BY HistoryFinite, LenProperties DEF TypeOK
<1>1. ASSUME NEW p \in Producers, Offer(p), Refuse PROVE EvictionsReported'
  <2>1. offered + 1 \notin refused
    BY DEF TypeOK
  <2>2. Cardinality(refused') = Cardinality(refused) + 1
    BY <1>0, <1>1, <2>1, FS_AddElement DEF Refuse
  <2> QED
    BY <1>0, <1>1, <2>2 DEF EvictionsReported, Offer, Refuse
<1>2. ASSUME NEW p \in Producers, PushOrEvict(p) PROVE EvictionsReported'
  <2>1. CASE closed /\ Refuse
    BY <1>1, <1>2, <2>1 DEF PushOrEvict
  <2>2. CASE ~closed
    <3>1. Len(queue') = IF Full(queue, Cap) THEN Len(queue) ELSE Len(queue) + 1
      BY <1>2, <2>2, PushLength DEF PushOrEvict
    <3> QED
      BY <1>0, <1>2, <2>2, <3>1 DEF EvictionsReported, PushOrEvict, Offer
  <2> QED
    BY <1>2, <2>1, <2>2 DEF PushOrEvict
<1>3. ASSUME NEW p \in Producers, TryPush(p) PROVE EvictionsReported'
  <2>1. CASE (closed \/ Full(queue, Cap)) /\ Refuse
    BY <1>1, <1>3, <2>1 DEF TryPush
  <2>2. CASE ~closed /\ ~Full(queue, Cap)
    <3>1. Len(queue') = Len(queue) + 1
      BY <1>3, <2>2, NewOffer, AppendProperties DEF TypeOK, TryPush
    <3> QED
      BY <1>0, <1>3, <2>2, <3>1 DEF EvictionsReported, TryPush, Offer
  <2> QED
    BY <1>3, <2>1, <2>2 DEF TryPush
<1>4. ASSUME NEW c \in Consumers, TakeHead(c),
             UNCHANGED <<offered, refused, dropped>>
      PROVE  EvictionsReported'
  <2>1. Head(queue) \notin taken
    <3>1. Head(queue) \in Elements(queue)
      BY <1>4, ElementsOfTail DEF TakeHead, TypeOK
    <3> QED
      BY <3>1 DEF Contents
  <2>2. Cardinality(taken') = Cardinality(taken) + 1
    BY <1>0, <1>4, <2>1, FS_AddElement DEF TakeHead
  <2>3. Len(queue') = Len(queue) - 1
    BY <1>4, HeadTailProperties DEF TakeHead, TypeOK
  <2> QED
    BY <1>0, <1>4, <2>2, <2>3 DEF EvictionsReported
<1>5. ASSUME NEW c \in Consumers,
             WaitPop(c) \/ Resume(c) \/ ResumeExpired(c) \/ TryPop(c)
      PROVE  EvictionsReported'
  <2>1. \/ TakeHead(c) /\ UNCHANGED <<offered, refused, dropped>>
        \/ UNCHANGED <<queue, taken, offered, refused, dropped>>
    BY <1>5 DEF WaitPop, Resume, ResumeExpired, TryPop, EvaluateWait, TakeNothing
  <2>2. CASE UNCHANGED <<queue, taken, offered, refused, dropped>>
    BY <2>2 DEF EvictionsReported
  <2> QED
    BY <1>4, <2>1, <2>2
<1>6. CASE UNCHANGED <<queue, taken, offered, refused, dropped>>
  BY <1>6 DEF EvictionsReported
<1> QED
  BY <1>2, <1>3, <1>5, <1>6
     DEF Next, ProducerStep, ConsumerStep, NotifyOne, Close, NotifyAll,
         SpuriousWake, Expire, vars

(* Nothing is lost silently: refused, taken, evicted-and-reported and      *)
(* queued values add up to what was offered (BoundedQueue.h:42-55).        *)
THEOREM NothingLostSilently == Spec => []EvictionsReported
<1>1. Init => EvictionsReported
  BY FS_EmptySet, EmptySeq DEF Init, EvictionsReported
<1>2. TypeOK /\ Contents /\ [Next]_vars => (TypeOK /\ Contents)'
  BY TypeStep, ContentsStep
<1> QED
  BY <1>1, <1>2, InitContents, AccountStep, PTL DEF Spec

-----------------------------------------------------------------------------
(* No wake-up is lost.                                                     *)

(* The threads in a given state can be counted. *)
LEMMA ThreadsFinite ==
  /\ IsFiniteSet(Waiting)
  /\ IsFiniteSet(Woken) /\ Cardinality(Woken) \in Nat
  /\ IsFiniteSet(Notifiers) /\ Cardinality(Notifiers) \in Nat
<1>1. IsFiniteSet(Waiting) /\ IsFiniteSet(Woken) /\ IsFiniteSet(Notifiers)
  BY QueueAssumption, FS_Subset DEF Waiting, Woken, Notifiers
<1> QED
  BY <1>1, FS_CardinalityType

(* A push adds at most one value and one pending notification. *)
LEMMA PushWakeup ==
  ASSUME TypeOK, NoLostWakeup, NEW p \in Producers, Offer(p), ~closed,
         Len(queue') <= Len(queue) + 1, Len(queue') \in Nat,
         prod' = [prod EXCEPT ![p] = "notify_one"]
  PROVE  NoLostWakeup'
<1>1. Notifiers' = Notifiers \cup {p} /\ p \notin Notifiers
  BY DEF Notifiers, Offer, TypeOK
<1>2. Cardinality(Notifiers') = Cardinality(Notifiers) + 1
  BY <1>1, ThreadsFinite, FS_AddElement
<1>3. Waiting' = Waiting /\ Woken' = Woken /\ closed' = closed
  BY DEF Waiting, Woken, Offer
<1>4. Len(queue) \in Nat
  BY LenProperties DEF TypeOK
<1> QED
  BY <1>2, <1>3, <1>4, ThreadsFinite DEF NoLostWakeup

(* A refused push notifies nobody and changes nothing that matters. *)
LEMMA RefuseWakeup ==
  ASSUME NoLostWakeup, NEW p \in Producers, Offer(p), Refuse
  PROVE  NoLostWakeup'
BY DEF NoLostWakeup, Offer, Refuse, Waiting, Woken, Notifiers

(* A notification that finds sleepers turns into an awake consumer. *)
LEMMA NotifyOneWakeup ==
  ASSUME TypeOK, NoLostWakeup, NEW p \in Producers, NotifyOne(p)
  PROVE  NoLostWakeup'
<1>1. Notifiers' = Notifiers \ {p} /\ p \in Notifiers
  BY DEF NotifyOne, Notifiers, TypeOK
<1>2. Cardinality(Notifiers') = Cardinality(Notifiers) - 1
  BY <1>1, ThreadsFinite, FS_RemoveElement
<1>3. CASE Waiting = {} /\ UNCHANGED cons
  BY <1>3 DEF Waiting, NoLostWakeup
<1>4. ASSUME NEW c \in Waiting, cons' = [cons EXCEPT ![c] = "woken"]
      PROVE  NoLostWakeup'
  <2>1. Woken' = Woken \cup {c} /\ c \notin Woken
    BY <1>4 DEF Woken, Waiting, TypeOK
  <2>2. Cardinality(Woken') = Cardinality(Woken) + 1
    BY <2>1, ThreadsFinite, FS_AddElement
  <2>3. UNCHANGED <<queue, closed>>
    BY DEF NotifyOne
  <2>4. closed => \E r \in Producers : prod'[r] = "notify_all"
    BY <1>4 DEF NoLostWakeup, NotifyOne, TypeOK
  <2> QED
    BY <1>2, <1>4, <2>2, <2>3, <2>4, ThreadsFinite DEF NoLostWakeup
<1> QED
  BY <1>3, <1>4 DEF NotifyOne

(* A consumer leaves waitPop with a value, leaves it with nothing, or goes *)
(* to sleep on an empty open queue.                                        *)
LEMMA EvaluateWakeup ==
  ASSUME TypeOK, NoLostWakeup, NEW c \in Consumers,
         cons[c] \in {"idle", "woken", "expired"},
         EvaluateWait(c) \/ TakeHead(c) \/ (queue = <<>> /\ TakeNothing(c)),
         UNCHANGED <<prod, closed>>
  PROVE  NoLostWakeup'
<1>0. Len(queue) \in Nat /\ Notifiers' = Notifiers
  BY LenProperties DEF TypeOK, Notifiers
<1>1. CASE TakeHead(c)
  <2>1. Len(queue') = Len(queue) - 1
    BY <1>1, HeadTailProperties DEF TakeHead, TypeOK
  <2>2. Waiting' = Waiting /\ Woken' = Woken \ {c}
    BY <1>1 DEF Waiting, Woken, TakeHead, TypeOK
  <2>3. /\ IsFiniteSet(Woken \ {c})
        /\ Cardinality(Woken \ {c}) =
             IF c \in Woken THEN Cardinality(Woken) - 1 ELSE Cardinality(Woken)
    BY ThreadsFinite, FS_RemoveElement
  <2>4. Cardinality(Woken \ {c}) \in Nat
    BY <2>3, FS_CardinalityType
  <2> QED
    BY <1>0, <2>1, <2>2, <2>3, <2>4, ThreadsFinite DEF NoLostWakeup
<1>2. CASE queue = <<>> /\ queue' = queue
  <2>1. Len(queue') = 0
    BY <1>2, EmptySeq
  <2>2. Cardinality(Woken') \in Nat
    <3>1. IsFiniteSet(Woken')
      BY QueueAssumption, FS_Subset DEF Woken
    <3> QED
      BY <3>1, FS_CardinalityType
  <2>3. closed => Waiting' \subseteq Waiting
    BY <1>2 DEF EvaluateWait, TakeHead, TakeNothing, Waiting, TypeOK
  <2> QED
    BY <1>0, <2>1, <2>2, <2>3, ThreadsFinite DEF NoLostWakeup
<1> QED
  BY <1>1, <1>2 DEF EvaluateWait, TakeNothing

(* Every step keeps the books of sleepers and notifications. *)
LEMMA WakeupStep == TypeOK /\ NoLostWakeup /\ [Next]_vars => NoLostWakeup'
<1> SUFFICES ASSUME TypeOK, NoLostWakeup, [Next]_vars PROVE NoLostWakeup'
  OBVIOUS
<1>0. Len(queue) \in Nat
  BY LenProperties DEF TypeOK
<1>1. ASSUME NEW p \in Producers, PushOrEvict(p) PROVE NoLostWakeup'
  <2>1. CASE closed /\ Refuse
    BY <1>1, <2>1, RefuseWakeup DEF PushOrEvict
  <2>2. CASE ~closed
    <3>1. Len(queue') = IF Full(queue, Cap) THEN Len(queue) ELSE Len(queue) + 1
      BY <1>1, <2>2, PushLength DEF PushOrEvict
    <3>2. Len(queue') \in Nat /\ Len(queue') <= Len(queue) + 1
      BY <1>0, <3>1
    <3> QED
      BY <1>1, <2>2, <3>2, PushWakeup DEF PushOrEvict
  <2> QED
    BY <1>1, <2>1, <2>2 DEF PushOrEvict
<1>2. ASSUME NEW p \in Producers, TryPush(p) PROVE NoLostWakeup'
  <2>1. CASE (closed \/ Full(queue, Cap)) /\ Refuse
    BY <1>2, <2>1, RefuseWakeup DEF TryPush
  <2>2. CASE ~closed /\ ~Full(queue, Cap)
    <3>1. Len(queue') = Len(queue) + 1
      BY <1>2, <2>2, NewOffer, AppendProperties DEF TypeOK, TryPush
    <3> QED
      BY <1>0, <1>2, <2>2, <3>1, PushWakeup DEF TryPush
  <2> QED
    BY <1>2, <2>1, <2>2 DEF TryPush
<1>3. ASSUME NEW p \in Producers, NotifyOne(p) PROVE NoLostWakeup'
  BY <1>3, NotifyOneWakeup
<1>4. ASSUME NEW p \in Producers, Close(p) PROVE NoLostWakeup'
  <2>1. Notifiers' = Notifiers /\ Waiting' = Waiting /\ Woken' = Woken
    BY <1>4 DEF Close, Notifiers, Waiting, Woken, TypeOK
  <2>2. queue' = queue /\ prod'[p] = "notify_all"
    BY <1>4 DEF Close, TypeOK
  <2> QED
    BY <2>1, <2>2 DEF NoLostWakeup
<1>5. ASSUME NEW p \in Producers, NotifyAll(p) PROVE NoLostWakeup'
  <2>1. Waiting' = {}
    BY <1>5 DEF NotifyAll, Waiting, TypeOK
  <2> QED
    BY <2>1 DEF NoLostWakeup
<1>6. ASSUME NEW c \in Consumers,
             WaitPop(c) \/ Resume(c) \/ ResumeExpired(c) \/ TryPop(c)
      PROVE  NoLostWakeup'
  BY <1>6, EvaluateWakeup DEF WaitPop, Resume, ResumeExpired, TryPop
<1>7. ASSUME NEW c \in Consumers, SpuriousWake(c) PROVE NoLostWakeup'
  <2>1. Notifiers' = Notifiers /\ Waiting' \subseteq Waiting
    BY <1>7 DEF SpuriousWake, Notifiers, Waiting, TypeOK
  <2>2. Woken' = Woken \cup {c} /\ c \notin Woken
    BY <1>7 DEF SpuriousWake, Woken, TypeOK
  <2>3. Cardinality(Woken') = Cardinality(Woken) + 1
    BY <2>2, ThreadsFinite, FS_AddElement
  <2> QED
    BY <1>0, <1>7, <2>1, <2>3, ThreadsFinite DEF NoLostWakeup, SpuriousWake
<1>8. ASSUME NEW c \in Consumers, Expire(c) PROVE NoLostWakeup'
  <2>1. Notifiers' = Notifiers /\ Waiting' \subseteq Waiting /\ Woken' = Woken
    BY <1>8 DEF Expire, Notifiers, Waiting, Woken, TypeOK
  <2> QED
    BY <1>8, <2>1 DEF NoLostWakeup, Expire
<1>9. CASE UNCHANGED vars
  BY <1>9 DEF vars, NoLostWakeup, Notifiers, Waiting, Woken
<1> QED
  BY <1>1, <1>2, <1>3, <1>4, <1>5, <1>6, <1>7, <1>8, <1>9
     DEF Next, ProducerStep, ConsumerStep

(* No wake-up is lost although the notifications are sent outside the      *)
(* lock: BoundedQueue.h:53, 67, 79 and 100.                                *)
THEOREM WakeupsNotLost == Spec => []NoLostWakeup
<1>1. Init => NoLostWakeup
  BY DEF Init, NoLostWakeup, Waiting
<1>2. TypeOK /\ Contents /\ [Next]_vars => (TypeOK /\ Contents)'
  BY TypeStep, ContentsStep
<1> QED
  BY <1>1, <1>2, InitContents, WakeupStep, PTL DEF Spec

-----------------------------------------------------------------------------
(* Evicted values are a whole queue behind.                                *)

(* The values accepted after x only grow in number. *)
LEMMA NewerGrows ==
  ASSUME NEW A \in SUBSET Nat, IsFiniteSet(A), NEW B \in SUBSET A, NEW x \in Nat
  PROVE  /\ Cardinality({y \in A : y > x}) \in Nat
         /\ Cardinality({y \in B : y > x}) \in Nat
         /\ Cardinality({y \in B : y > x}) <= Cardinality({y \in A : y > x})
<1>1. IsFiniteSet({y \in A : y > x})
  BY FS_Subset
<1>2. /\ IsFiniteSet({y \in B : y > x})
      /\ Cardinality({y \in B : y > x}) <= Cardinality({y \in A : y > x})
  BY <1>1, FS_Subset
<1> QED
  BY <1>1, <1>2, FS_CardinalityType

(* The accepted values stay a finite set of numbers. *)
LEMMA AcceptedFinite ==
  ASSUME TypeOK PROVE Accepted \in SUBSET Nat /\ IsFiniteSet(Accepted)
<1>1. IsFiniteSet(1..offered) /\ 1..offered \in SUBSET Nat
  BY FS_Interval DEF TypeOK
<1> QED
  BY <1>1, FS_Subset DEF Accepted

(* A step that loses nothing more cannot break the property. *)
LEMMA NothingMoreLost ==
  ASSUME TypeOK, TypeOK', OnlyStaleEvicted,
         Accepted \subseteq Accepted', Lost' \subseteq Lost
  PROVE  OnlyStaleEvicted'
<1> SUFFICES ASSUME NEW x \in Lost'
             PROVE  Cardinality({y \in Accepted' : y > x}) >= Cap
  BY DEF OnlyStaleEvicted
<1>1. /\ Accepted \in SUBSET Nat /\ IsFiniteSet(Accepted)
      /\ Accepted' \in SUBSET Nat /\ IsFiniteSet(Accepted')
  <2>1. (Accepted \in SUBSET Nat /\ IsFiniteSet(Accepted))'
    BY AcceptedFinite, PTL
  <2> QED
    BY <2>1, AcceptedFinite
<1>2. x \in Nat
  BY <1>1 DEF Lost
<1>3. Cardinality({y \in Accepted : y > x}) >= Cap
  BY DEF OnlyStaleEvicted
<1>4. /\ Cardinality({y \in Accepted' : y > x}) \in Nat
      /\ Cardinality({y \in Accepted : y > x}) \in Nat
      /\ Cardinality({y \in Accepted : y > x})
           <= Cardinality({y \in Accepted' : y > x})
  BY <1>1, <1>2, NewerGrows
<1> QED
  BY <1>3, <1>4, CapPositive

(* An eviction leaves a full queue of newer values behind it. *)
LEMMA EvictionStale ==
  ASSUME TypeOK, Contents, TypeOK', Contents', OnlyStaleEvicted,
         NEW p \in Producers, PushOrEvict(p), ~closed, Full(queue, Cap)
  PROVE  OnlyStaleEvicted'
<1> DEFINE h == Head(queue)
<1>1. /\ queue \in Seq(Nat) /\ queue # <<>>
      /\ queue' = Append(Tail(queue), offered + 1)
  <2>1. offered + 1 \in Nat
    BY NewOffer
  <2>2. queue # <<>>
    BY <2>1, CapPositive, PushDropOldestBounded DEF TypeOK
  <2> QED
    BY <2>2 DEF TypeOK, PushOrEvict, PushDropOldest
<1>2. /\ Accepted' = Accepted \cup {offered + 1}
      /\ Accepted \in SUBSET Nat
      /\ offered + 1 \in Nat
      /\ \A a \in Accepted : a < offered + 1
  BY AcceptAddsNewest DEF PushOrEvict
<1>3. taken' = taken
  BY DEF PushOrEvict, Offer
<1>4. /\ LatestInOrder(Tail(queue), Accepted)
      /\ h \in Accepted
      /\ h \notin Elements(Tail(queue))
  BY <1>1, <1>2, InOrderTail DEF Contents
<1>5. Elements(queue) = {h} \cup Elements(Tail(queue))
  BY <1>1, ElementsOfTail
<1>6. Tail(queue) \in Seq(Nat)
  BY <1>1, HeadTailProperties
<1>7. Elements(queue') = Elements(Tail(queue)) \cup {offered + 1}
  <2>1. \A t \in Seq(Nat), n \in Nat :
          Elements(Append(t, n)) = Elements(t) \cup {n}
    BY ElementsOfAppend
  <2> QED
    BY <1>1, <1>2, <1>6, <2>1, Zenon
<1>8. Lost' \subseteq Lost \cup {h}
  BY <1>2, <1>3, <1>5, <1>7 DEF Lost
<1>9. IsFiniteSet(Accepted)
  BY AcceptedFinite
<1>10. IsFiniteSet(Accepted') /\ Accepted' \in SUBSET Nat
  BY <1>2, <1>9, FS_AddElement
<1>11. ASSUME NEW x \in Lost
       PROVE  Cardinality({y \in Accepted' : y > x}) >= Cap
  <2>1. x \in Nat
    BY <1>2 DEF Lost
  <2>2. Cardinality({y \in Accepted : y > x}) >= Cap
    BY DEF OnlyStaleEvicted
  <2>3. /\ Cardinality({y \in Accepted' : y > x}) \in Nat
        /\ Cardinality({y \in Accepted : y > x}) \in Nat
        /\ Cardinality({y \in Accepted : y > x})
             <= Cardinality({y \in Accepted' : y > x})
    BY <1>2, <1>10, <2>1, NewerGrows
  <2> QED
    BY <2>2, <2>3, CapPositive
<1>12. Cardinality({y \in Accepted' : y > h}) >= Cap
  <2>1. \A y \in Elements(Tail(queue)) : y > h
    BY <1>2, <1>4 DEF LatestInOrder
  <2>2. Elements(queue') \subseteq {y \in Accepted' : y > h}
    BY <1>2, <1>4, <1>7, <2>1 DEF LatestInOrder
  <2>3. /\ IsFiniteSet(Elements(queue'))
        /\ Cardinality(Elements(queue')) = Len(queue')
    <3>1. queue' \in Seq(Nat) /\ LatestInOrder(queue', Accepted')
      BY DEF TypeOK, Contents
    <3> QED
      BY <3>1, InOrderCardinality
  <2>4. Len(queue') = Len(queue) /\ Len(queue) \in Nat /\ Len(queue) >= Cap
    BY PushLength DEF PushOrEvict, Full
  <2>5. IsFiniteSet({y \in Accepted' : y > h})
    BY <1>10, FS_Subset
  <2>6. /\ Cardinality(Elements(queue')) <= Cardinality({y \in Accepted' : y > h})
        /\ Cardinality({y \in Accepted' : y > h}) \in Nat
    BY <2>2, <2>5, FS_Subset, FS_CardinalityType
  <2> QED
    BY <2>3, <2>4, <2>6, CapPositive
<1> QED
  BY <1>8, <1>11, <1>12 DEF OnlyStaleEvicted

(* Only an eviction loses anything. *)
LEMMA StaleStep ==
  ASSUME TypeOK, Contents, TypeOK', Contents', OnlyStaleEvicted, [Next]_vars
  PROVE  OnlyStaleEvicted'
<1>0. offered + 1 \in Nat /\ queue \in Seq(Nat)
  BY NewOffer DEF TypeOK
<1>1. ASSUME NEW p \in Producers, Offer(p), Refuse PROVE OnlyStaleEvicted'
  <2>1. Accepted' = Accepted /\ UNCHANGED <<queue, taken>>
    BY <1>1, RefuseKeepsAccepted DEF Offer, Refuse
  <2> QED
    BY <2>1, NothingMoreLost DEF Lost
<1>2. ASSUME NEW p \in Producers, Offer(p), UNCHANGED refused,
             queue' = Append(queue, offered + 1)
      PROVE  OnlyStaleEvicted'
  <2>1. Accepted' = Accepted \cup {offered + 1} /\ taken' = taken
    BY <1>2, AcceptAddsNewest DEF Offer
  <2>2. Elements(queue') = Elements(queue) \cup {offered + 1}
    BY <1>0, <1>2, ElementsOfAppend
  <2>3. Lost' \subseteq Lost /\ Accepted \subseteq Accepted'
    BY <2>1, <2>2 DEF Lost
  <2> QED
    BY <2>3, NothingMoreLost
<1>3. ASSUME NEW p \in Producers, PushOrEvict(p) PROVE OnlyStaleEvicted'
  <2>1. CASE closed /\ Refuse
    BY <1>1, <1>3, <2>1 DEF PushOrEvict
  <2>2. CASE ~closed /\ Full(queue, Cap)
    BY <1>3, <2>2, EvictionStale
  <2>3. CASE ~closed /\ ~Full(queue, Cap)
    BY <1>2, <1>3, <2>3 DEF PushOrEvict, PushDropOldest
  <2> QED
    BY <1>3, <2>1, <2>2, <2>3 DEF PushOrEvict
<1>4. ASSUME NEW p \in Producers, TryPush(p) PROVE OnlyStaleEvicted'
  BY <1>1, <1>2, <1>4 DEF TryPush
<1>5. ASSUME NEW c \in Consumers, TakeHead(c), UNCHANGED <<offered, refused>>
      PROVE  OnlyStaleEvicted'
  <2>1. Elements(queue) = {Head(queue)} \cup Elements(Tail(queue))
    BY <1>0, <1>5, ElementsOfTail DEF TakeHead
  <2>2. Lost' \subseteq Lost /\ Accepted \subseteq Accepted'
    BY <1>5, <2>1 DEF Lost, Accepted, TakeHead
  <2> QED
    BY <2>2, NothingMoreLost
<1>6. CASE UNCHANGED <<queue, taken, offered, refused>>
  BY <1>6, NothingMoreLost DEF Lost, Accepted
<1>7. ASSUME NEW c \in Consumers,
             WaitPop(c) \/ Resume(c) \/ ResumeExpired(c) \/ TryPop(c)
      PROVE  OnlyStaleEvicted'
  <2>1. \/ TakeHead(c) /\ UNCHANGED <<offered, refused>>
        \/ UNCHANGED <<queue, taken, offered, refused>>
    BY <1>7 DEF WaitPop, Resume, ResumeExpired, TryPop, EvaluateWait, TakeNothing
  <2> QED
    BY <1>5, <1>6, <2>1
<1> QED
  BY <1>3, <1>4, <1>6, <1>7
     DEF Next, ProducerStep, ConsumerStep, NotifyOne, Close, NotifyAll,
         SpuriousWake, Expire, vars

(* Whatever pushDropOldest evicts is at least capacity values old, so the  *)
(* newest frame always survives: BoundedQueue.h:42-55.                     *)
THEOREM EvictsOnlyStale == Spec => []OnlyStaleEvicted
<1>1. Init => OnlyStaleEvicted
  <2>1. Init => Lost = {}
    BY DEF Init, Lost, Accepted
  <2> QED
    BY <2>1 DEF OnlyStaleEvicted
<1>2. TypeOK /\ Contents /\ [Next]_vars => (TypeOK /\ Contents)'
  BY TypeStep, ContentsStep
<1>3. TypeOK /\ Contents /\ OnlyStaleEvicted /\ [Next]_vars
        /\ (TypeOK /\ Contents)' => OnlyStaleEvicted'
  BY StaleStep
<1> QED
  BY <1>1, <1>2, <1>3, InitContents, PTL DEF Spec
=============================================================================
