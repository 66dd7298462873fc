------------------------- MODULE TcpTransportProofs -------------------------
(***************************************************************************)
(* Theorems about TcpTransport for any number of senders, any capacities   *)
(* and any number of messages and commands.  Order and loss are proved     *)
(* from where a message can be: received, on the wire, in the batch or in  *)
(* the queue, each of which increases and lies below the next.             *)
(***************************************************************************)
EXTENDS TcpTransport, CommonLemmas

(* What else every reachable state satisfies: a command that was begun was *)
(* counted, the batch is filled only while it is being sent, the I/O       *)
(* thread does not exist before start(), and nothing is discarded before   *)
(* the transport is destroyed.                                             *)
Control ==
    /\ writing => asked # 0
    /\ io # "sending" => batch = <<>>
    /\ stopper = "new" => io = "off"
    /\ stopper # "destroyed" => discarded = {}

(* A wake-up never starts or stops the I/O thread, nor moves it elsewhere. *)
LEMMA WakenedStates ==
  ASSUME io \in IoStates
  PROVE  /\ Wakened \in IoStates
         /\ io = "off" <=> Wakened = "off"
         /\ io = "sending" <=> Wakened = "sending"
BY DEF Wakened, IoStates

(* A piece of a sequence is a sequence of the same things. *)
LEMMA Piece ==
  ASSUME NEW S, NEW s \in Seq(S), NEW m \in 1..(Len(s) + 1), NEW n \in 0..Len(s)
  PROVE  SubSeq(s, m, n) \in Seq(S)
<1>1. Len(s) \in Nat /\ \A i \in 1..Len(s) : s[i] \in S
  BY LenProperties, ElementOfSeq
<1>2. \A i \in m..n : s[i] \in S
  BY <1>1
<1> QED BY <1>1, <1>2, SubSeqProperties

(* The callers keep the types. *)
LEMMA CallersType ==
  ASSUME TypeOK, Control,
         Start \/ Stop \/ StopNotify \/ Join \/ Destroy \/ \E s \in Senders : Push(s) \/ Notify(s)
  PROVE  TypeOK' /\ Control'
<1>0. io \in IoStates
  BY DEF TypeOK
<1>1. CASE Start
  BY <1>1 DEF TypeOK, Control, Start, queueVars, outVars, inVars, IoStates
<1>2. CASE Stop
  BY <1>2 DEF TypeOK, Control, Stop, queueVars, outVars, inVars
<1>3. CASE StopNotify
  BY <1>0, <1>3, WakenedStates DEF TypeOK, Control, StopNotify, queueVars, outVars, inVars
<1>4. CASE Join
  BY <1>4 DEF TypeOK, Control, Join, queueVars, outVars, inVars
<1>5. ASSUME NEW s \in Senders, Push(s) PROVE TypeOK' /\ Control'
  <2>1. accepted + 1 \in Nat /\ SendQueueCapacity \in Nat \ {0}
    BY TransportAssumption DEF TypeOK
  <2>2. /\ PushDropOldest(sendQueue, accepted + 1, SendQueueCapacity) \in Seq(Nat)
        /\ Len(PushDropOldest(sendQueue, accepted + 1, SendQueueCapacity)) <= SendQueueCapacity
        /\ Full(sendQueue, SendQueueCapacity) => sendQueue # <<>>
    BY <2>1, PushDropOldestBounded DEF TypeOK
  <2>3. sendQueue' \in Seq(Nat) /\ Len(sendQueue') <= SendQueueCapacity
    BY <1>5, <2>2 DEF Push
  <2>4. evicted' \subseteq Nat
    <3>1. sendQueue # <<>> => Head(sendQueue) \in Nat
      BY HeadTailProperties DEF TypeOK
    <3> QED BY <1>5, <2>2, <3>1 DEF Push, TypeOK
  <2>5. accepted' \in Nat /\ sender' \in [Senders -> {"idle", "notify"}]
    BY <1>5, <2>1 DEF Push, TypeOK
  <2> QED BY <1>5, <2>3, <2>4, <2>5 DEF TypeOK, Control, Push, outVars, inVars
<1>6. ASSUME NEW s \in Senders, Notify(s) PROVE TypeOK' /\ Control'
  BY <1>0, <1>6, WakenedStates DEF TypeOK, Control, Notify, Notified, queueVars, outVars, inVars
<1>7. CASE Destroy
  <2>1. <<>> \in Seq(Nat) /\ Len(<<>>) <= SendQueueCapacity
    BY TransportAssumption
  <2>2. discarded' \subseteq Nat
    BY <1>7, ElementOfSeq DEF Destroy, TypeOK, Elements
  <2> QED BY <1>7, <2>1, <2>2 DEF TypeOK, Control, Destroy, outVars, inVars
<1> QED BY <1>1, <1>2, <1>3, <1>4, <1>5, <1>6, <1>7

(* The I/O thread's control steps keep the types. *)
LEMMA IoControlType ==
  ASSUME TypeOK, Control, UNCHANGED <<running, sender, stopper>>,
         UNCHANGED <<queueVars, outVars, inVars>>,
         \/ Top \/ Connect
         \/ (RetryWait \/ SendWait \/ ServeTest) /\ UNCHANGED state
  PROVE  TypeOK' /\ Control'
<1>1. io' \in IoStates /\ io # "off" /\ io # "sending" /\ io' # "off"
      /\ state' \in {"Disconnected", "Connecting", "Connected"}
  BY DEF TypeOK, Top, Connect, RetryWait, SendWait, ServeTest, IoGoto, IoStates
<1>2. UNCHANGED <<sendQueue, accepted, evicted, discarded, batch, wire, received, cut,
                  inbound, incoming, writing, asked, dispatched>>
  BY DEF queueVars, outVars, inVars
<1> QED BY <1>1, <1>2 DEF TypeOK, Control

(* Draining moves the queue into the empty batch. *)
LEMMA DrainType ==
  ASSUME TypeOK, Control, Drain, UNCHANGED <<state, wire, received, cut, inVars>>,
         UNCHANGED <<running, sender, stopper>>
  PROVE  TypeOK' /\ Control'
<1>1. <<>> \in Seq(Nat) /\ Len(<<>>) <= SendQueueCapacity
  BY TransportAssumption
<1>2. io' \in IoStates /\ io # "off" /\ io' = "sending"
  BY DEF Drain, IoStates
<1>3. batch' = sendQueue /\ sendQueue' = <<>> /\ UNCHANGED <<accepted, evicted, discarded>>
  BY DEF Drain
<1>4. UNCHANGED <<inbound, incoming, writing, asked, dispatched>>
  BY DEF inVars
<1> QED BY <1>1, <1>2, <1>3, <1>4 DEF TypeOK, Control

(* ::send moves messages from the batch to the wire while there is room. *)
LEMMA SendType ==
  ASSUME TypeOK, Control, Send, UNCHANGED <<state, queueVars, received, inVars>>,
         UNCHANGED <<running, sender, stopper>>
  PROVE  TypeOK' /\ Control'
<1>1. io = "sending" /\ cut' = cut
  BY DEF Send
<1>2. UNCHANGED <<sendQueue, accepted, evicted, discarded, inbound, incoming, writing, asked, dispatched>>
  BY DEF queueVars, inVars
<1>3. CASE batch = <<>> /\ io' = "select" /\ UNCHANGED <<batch, wire>>
  BY <1>1, <1>2, <1>3 DEF TypeOK, Control, IoStates
<1>4. ASSUME NEW n \in 1..Len(batch), Len(wire) + n <= WireSize,
             wire' = wire \o SubSeq(batch, 1, n),
             batch' = SubSeq(batch, n + 1, Len(batch)), io' = io
      PROVE  TypeOK' /\ Control'
  <2>1. batch \in Seq(Nat) /\ wire \in Seq(Nat) /\ Len(batch) \in Nat /\ Len(wire) \in Nat
    BY LenProperties DEF TypeOK
  <2>2. /\ SubSeq(batch, 1, n) \in Seq(Nat) /\ SubSeq(batch, n + 1, Len(batch)) \in Seq(Nat)
    <3>1. 1 \in 1..(Len(batch) + 1) /\ n \in 0..Len(batch)
          /\ n + 1 \in 1..(Len(batch) + 1) /\ Len(batch) \in 0..Len(batch)
      BY <2>1
    <3> QED BY <2>1, <3>1, Piece
  <2>3. Len(SubSeq(batch, 1, n)) = n
    <3>1. \A i \in 1..n : batch[i] \in Nat
      BY <2>1, ElementOfSeq
    <3> QED BY <2>1, <3>1, SubSeqProperties
  <2>4. wire' \in Seq(Nat) /\ Len(wire') <= WireSize
    BY <1>4, <2>1, <2>2, <2>3, ConcatProperties
  <2> QED BY <1>1, <1>2, <1>4, <2>2, <2>4 DEF TypeOK, Control
<1> QED BY <1>3, <1>4 DEF Send

(* A failed ::send gives up the batch. *)
LEMMA SendFailsType ==
  ASSUME TypeOK, Control, SendFails
  PROVE  TypeOK' /\ Control'
<1>1. <<>> \in Seq(Nat) /\ Elements(batch) \subseteq Nat
  BY ElementOfSeq DEF TypeOK, Elements
<1> QED BY <1>1 DEF TypeOK, Control, SendFails, IoGoto, IoStates, queueVars, inVars

(* Reading, successful or not, keeps the types. *)
LEMMA RecvType ==
  ASSUME TypeOK, Control,
         \/ RecvFails
         \/ /\ SelectAndRecv
            /\ UNCHANGED <<state, queueVars, outVars, writing, asked, dispatched>>
            /\ UNCHANGED <<running, sender, stopper>>
  PROVE  TypeOK' /\ Control'
<1>1. CASE RecvFails
  BY <1>1 DEF TypeOK, Control, RecvFails, IoGoto, IoStates, queueVars, outVars, inVars
<1>2. CASE /\ SelectAndRecv
           /\ UNCHANGED <<state, queueVars, outVars, writing, asked, dispatched>>
           /\ UNCHANGED <<running, sender, stopper>>
  <2>1. io = "select" /\ io' \in IoStates /\ io' # "off"
    BY <1>2 DEF SelectAndRecv, AfterSelect, IoStates
  <2>2. UNCHANGED <<sendQueue, accepted, evicted, discarded, batch, wire, received, cut>>
    BY <1>2 DEF queueVars, outVars
  <2>3. inbound' \in Seq(Fragments) /\ incoming' \in Seq(Fragments)
    <3>1. CASE UNCHANGED <<inbound, incoming>>
      BY <3>1 DEF TypeOK
    <3>2. ASSUME NEW n \in 1..Len(incoming), inbound' = inbound \o SubSeq(incoming, 1, n),
                 incoming' = SubSeq(incoming, n + 1, Len(incoming))
          PROVE  inbound' \in Seq(Fragments) /\ incoming' \in Seq(Fragments)
      <4>1. incoming \in Seq(Fragments) /\ Len(incoming) \in Nat
        BY LenProperties DEF TypeOK
      <4>2. 1 \in 1..(Len(incoming) + 1) /\ n \in 0..Len(incoming)
            /\ n + 1 \in 1..(Len(incoming) + 1) /\ Len(incoming) \in 0..Len(incoming)
        BY <4>1
      <4>3. SubSeq(incoming, 1, n) \in Seq(Fragments)
            /\ SubSeq(incoming, n + 1, Len(incoming)) \in Seq(Fragments)
        BY <4>1, <4>2, Piece
      <4> QED BY <3>2, <4>3, ConcatProperties DEF TypeOK
    <3> QED BY <1>2, <3>1, <3>2 DEF SelectAndRecv
  <2> QED BY <1>2, <2>1, <2>2, <2>3 DEF TypeOK, Control
<1> QED BY <1>1, <1>2

(* Dispatching cuts a whole line off what was read. *)
LEMMA DispatchType ==
  ASSUME TypeOK, Control, Dispatch,
         UNCHANGED <<state, queueVars, outVars, incoming, writing, asked>>,
         UNCHANGED <<running, sender, stopper>>
  PROVE  TypeOK' /\ Control'
<1>1. io = "dispatch" /\ io' \in {"dispatch", "serve"}
  BY DEF Dispatch, AfterSelect
<1>2. UNCHANGED <<sendQueue, accepted, evicted, discarded, batch, wire, received, cut>>
  BY DEF queueVars, outVars
<1>3. inbound' \in Seq(Fragments) /\ dispatched' \in Seq(Seq(Fragments))
  <2>1. CASE UNCHANGED <<inbound, dispatched>>
    BY <2>1 DEF TypeOK
  <2>2. ASSUME NEW newline \in Newlines(inbound),
               dispatched' = Append(dispatched, SubSeq(inbound, 1, newline)),
               inbound' = SubSeq(inbound, newline + 1, Len(inbound))
        PROVE  inbound' \in Seq(Fragments) /\ dispatched' \in Seq(Seq(Fragments))
    <3>1. inbound \in Seq(Fragments) /\ Len(inbound) \in Nat /\ newline \in 1..Len(inbound)
      BY LenProperties DEF TypeOK, Newlines
    <3>2. 1 \in 1..(Len(inbound) + 1) /\ newline \in 0..Len(inbound)
          /\ newline + 1 \in 1..(Len(inbound) + 1) /\ Len(inbound) \in 0..Len(inbound)
      BY <3>1
    <3>3. SubSeq(inbound, 1, newline) \in Seq(Fragments)
          /\ SubSeq(inbound, newline + 1, Len(inbound)) \in Seq(Fragments)
      BY <3>1, <3>2, Piece
    <3> QED BY <2>2, <3>3, AppendProperties DEF TypeOK
  <2> QED BY <2>1, <2>2 DEF Dispatch
<1> QED BY <1>1, <1>2, <1>3 DEF TypeOK, Control, IoStates

(* Closing forgets the connection's streams. *)
LEMMA CloseType ==
  ASSUME TypeOK, Control, Close,
         UNCHANGED <<queueVars, batch, received, asked, dispatched>>,
         UNCHANGED <<running, sender, stopper>>
  PROVE  TypeOK' /\ Control'
<1>1. /\ io = "close" /\ io' \in {"retry_check", "top"}
      /\ state' \in {"Disconnected", "Connecting", "Connected"}
  BY DEF Close, TypeOK
<1>2. UNCHANGED <<sendQueue, accepted, evicted, discarded>>
  BY DEF queueVars
<1>3. incoming' = <<>> /\ inbound' = <<>> /\ writing' = FALSE /\ <<>> \in Seq(Fragments)
  BY DEF Close, Forgotten
<1>4. wire' \in Seq(Nat) /\ Len(wire') <= WireSize /\ cut' \subseteq Nat
  <2> PICK n \in 0..Len(wire) : /\ wire' = SubSeq(wire, 1, n)
                                /\ cut' = cut \cup Elements(SubSeq(wire, n + 1, Len(wire)))
    BY DEF Close
  <2>1. wire \in Seq(Nat) /\ Len(wire) \in Nat /\ Len(wire) <= WireSize
    BY LenProperties DEF TypeOK
  <2>2. 1 \in 1..(Len(wire) + 1) /\ n \in 0..Len(wire)
        /\ n + 1 \in 1..(Len(wire) + 1) /\ Len(wire) \in 0..Len(wire)
    BY <2>1
  <2>3. SubSeq(wire, 1, n) \in Seq(Nat) /\ SubSeq(wire, n + 1, Len(wire)) \in Seq(Nat)
    BY <2>1, <2>2, Piece
  <2>4. Len(SubSeq(wire, 1, n)) = n
    <3>1. \A i \in 1..n : wire[i] \in Nat
      BY <2>1, ElementOfSeq
    <3> QED BY <2>1, <3>1, SubSeqProperties
  <2>5. Elements(SubSeq(wire, n + 1, Len(wire))) \subseteq Nat
    BY <2>3, ElementOfSeq DEF Elements
  <2>6. wire' \in Seq(Nat) /\ cut' \subseteq Nat
    BY <2>3, <2>5 DEF TypeOK
  <2>7. Len(wire') <= WireSize
    BY <2>1, <2>4, TransportAssumption
  <2> QED BY <2>6, <2>7
<1> QED BY <1>1, <1>2, <1>3, <1>4 DEF TypeOK, Control, IoStates

(* The server's steps keep the types. *)
LEMMA ServerType ==
  ASSUME TypeOK, Control, ServerReads \/ ServerWrites
  PROVE  TypeOK' /\ Control'
<1>1. CASE ServerReads
  <2>1. wire \in Seq(Nat) /\ wire # <<>> /\ received \in Seq(Nat) /\ Len(wire) \in Nat
    BY <1>1, LenProperties DEF TypeOK, ServerReads
  <2>2. Head(wire) \in Nat /\ Tail(wire) \in Seq(Nat) /\ Len(Tail(wire)) = Len(wire) - 1
    BY <2>1, HeadTailProperties
  <2>3. received' \in Seq(Nat)
    BY <1>1, <2>1, <2>2, AppendProperties DEF ServerReads
  <2>4. wire' \in Seq(Nat) /\ Len(wire') <= WireSize
    BY <1>1, <2>1, <2>2, TransportAssumption DEF TypeOK, ServerReads
  <2> QED BY <1>1, <2>3, <2>4 DEF TypeOK, Control, ServerReads, queueVars, inVars
<1>2. CASE ServerWrites
  <2>1. asked' \in Nat \ {0} /\ writing' \in BOOLEAN
    BY <1>2 DEF ServerWrites, TypeOK, Control
  <2>2. <<asked', IF writing THEN "end" ELSE "begin">> \in Fragments
    BY <2>1 DEF Fragments
  <2>3. incoming' \in Seq(Fragments)
    BY <1>2, <2>2, AppendProperties DEF TypeOK, ServerWrites
  <2> QED BY <1>2, <2>1, <2>3 DEF TypeOK, Control, ServerWrites, queueVars, outVars
<1> QED BY <1>1, <1>2

(* Every step keeps the types. *)
LEMMA TypeStep == TypeOK /\ Control /\ [Next]_vars => TypeOK' /\ Control'
<1> SUFFICES ASSUME TypeOK, Control, [Next]_vars PROVE TypeOK' /\ Control'
  OBVIOUS
<1>1. CASE Start \/ Stop \/ StopNotify \/ Join \/ Destroy \/ \E s \in Senders : Push(s) \/ Notify(s)
  BY <1>1, CallersType
<1>2. CASE IoStep
  <2>1. UNCHANGED <<running, sender, stopper>>
    BY <1>2 DEF IoStep
  <2>2. CASE (Top \/ Connect) /\ UNCHANGED <<queueVars, outVars, inVars>>
    <3>1. (Top \/ Connect) /\ UNCHANGED <<queueVars, outVars, inVars>>
      BY <2>2
    <3> QED BY <2>1, <3>1, IoControlType
  <2>3. CASE (RetryWait \/ SendWait \/ ServeTest) /\ UNCHANGED <<state, queueVars, outVars, inVars>>
    <3>1. UNCHANGED <<queueVars, outVars, inVars>> /\ UNCHANGED state
      BY <2>3
    <3> QED BY <2>1, <2>3, <3>1, IoControlType
  <2>4. CASE Drain /\ UNCHANGED <<state, wire, received, cut, inVars>>
    BY <2>1, <2>4, DrainType
  <2>5. CASE Send /\ UNCHANGED <<state, queueVars, received, inVars>>
    BY <2>1, <2>5, SendType
  <2>6. CASE SelectAndRecv /\ UNCHANGED <<state, queueVars, outVars, writing, asked, dispatched>>
    BY <2>1, <2>6, RecvType
  <2>7. CASE Dispatch /\ UNCHANGED <<state, queueVars, outVars, incoming, writing, asked>>
    BY <2>1, <2>7, DispatchType
  <2>8. CASE Close /\ UNCHANGED <<queueVars, batch, received, asked, dispatched>>
    BY <2>1, <2>8, CloseType
  <2> QED BY <1>2, <2>2, <2>3, <2>4, <2>5, <2>6, <2>7, <2>8 DEF IoStep
<1>3. CASE SendFails
  BY <1>3, SendFailsType
<1>4. CASE RecvFails
  BY <1>4, RecvType
<1>5. CASE ServerReads \/ ServerWrites
  BY <1>5, ServerType
<1>6. CASE UNCHANGED vars
  BY <1>6 DEF TypeOK, Control, vars, queueVars, outVars, inVars
<1> QED BY <1>1, <1>2, <1>3, <1>4, <1>5, <1>6 DEF Next

LEMMA TypeInit == Init => TypeOK /\ Control
<1> SUFFICES ASSUME Init PROVE TypeOK /\ Control
  OBVIOUS
<1>1. /\ <<>> \in Seq(Nat) /\ Len(<<>>) = 0 /\ <<>> \in Seq(Fragments)
      /\ <<>> \in Seq(Seq(Fragments))
  OBVIOUS
<1>2. 0 <= SendQueueCapacity /\ 0 <= WireSize
  BY TransportAssumption
<1> QED BY <1>1, <1>2 DEF Init, TypeOK, Control, IoStates

(* Every variable keeps its type, and neither buffer outgrows its capacity.*)
THEOREM TypeCorrect == Spec => [](TypeOK /\ Control)
BY TypeInit, TypeStep, PTL DEF Spec

-----------------------------------------------------------------------------
(* Where messages are, and in which order.                                 *)

Ordered ==
    /\ Increasing(received) /\ Increasing(wire) /\ Increasing(batch) /\ Increasing(sendQueue)
    /\ Below(received, wire) /\ Below(received, batch) /\ Below(received, sendQueue)
    /\ Below(wire, batch) /\ Below(wire, sendQueue)
    /\ Below(batch, sendQueue)

Kept == Elements(received) \cup Elements(wire) \cup Elements(batch) \cup Elements(sendQueue)

Accounted ==
    /\ Kept \cup evicted \cup cut \cup discarded = 1..accepted
    /\ Kept \cap (evicted \cup cut \cup discarded) = {}
    /\ evicted \cap cut = {} /\ (evicted \cup cut) \cap discarded = {}

Flow == Ordered /\ Accounted

(* A message that send() accepts is the greatest; what is evicted was in   *)
(* the queue and leaves it.                                                *)
LEMMA PushFlow ==
  ASSUME TypeOK, Flow, NEW s \in Senders, Push(s)
  PROVE  /\ Flow'
         /\ accepted + 1 \in Elements(sendQueue')
         /\ Elements(sendQueue') \subseteq Elements(sendQueue) \cup {accepted + 1}
<1> DEFINE n == accepted + 1
           rest == IF Full(sendQueue, SendQueueCapacity) THEN Tail(sendQueue) ELSE sendQueue
           gone == IF Full(sendQueue, SendQueueCapacity) THEN {Head(sendQueue)} ELSE {}
<1>1. n \in Nat /\ accepted \in Nat /\ sendQueue \in Seq(Nat) /\ Len(sendQueue) \in Nat
  BY LenProperties DEF TypeOK
<1>2. Full(sendQueue, SendQueueCapacity) => sendQueue # <<>>
  BY <1>1, TransportAssumption, EmptySeq DEF Full
<1>3. /\ rest \in Seq(Nat) /\ Increasing(rest)
      /\ Elements(sendQueue) = gone \cup Elements(rest) /\ gone \cap Elements(rest) = {}
  <2>1. CASE Full(sendQueue, SendQueueCapacity)
    <3>1. Increasing(sendQueue) /\ sendQueue # <<>>
      BY <1>2, <2>1 DEF Flow, Ordered
    <3>2. /\ Head(sendQueue) \in Nat /\ Tail(sendQueue) \in Seq(Nat)
          /\ Increasing(Tail(sendQueue))
          /\ Elements(sendQueue) = {Head(sendQueue)} \cup Elements(Tail(sendQueue))
          /\ \A e \in Elements(Tail(sendQueue)) : Head(sendQueue) < e
      BY <1>1, <3>1, IncreasingTail
    <3> QED BY <2>1, <3>2
  <2>2. CASE ~Full(sendQueue, SendQueueCapacity)
    BY <1>1, <2>2 DEF Flow, Ordered
  <2> QED BY <2>1, <2>2
<1>4. /\ sendQueue' = Append(rest, n) /\ evicted' = evicted \cup gone /\ accepted' = n
      /\ UNCHANGED <<discarded, batch, wire, received, cut>>
  BY DEF Push, PushDropOldest, outVars
<1> HIDE DEF rest, gone
<1>5. Kept \subseteq 1..accepted /\ 1..n = (1..accepted) \cup {n} /\ n \notin 1..accepted
  BY <1>1 DEF Flow, Accounted
<1>6. \A e \in Kept : e \in Nat /\ e < n
  BY <1>1, <1>5
<1>7. Increasing(sendQueue') /\ Elements(sendQueue') = Elements(rest) \cup {n}
  <2>1. \A e \in Elements(rest) : e < n
    BY <1>3, <1>6 DEF Kept
  <2> QED BY <1>1, <1>3, <1>4, <2>1, IncreasingAppend
<1>8. Below(received, sendQueue') /\ Below(wire, sendQueue') /\ Below(batch, sendQueue')
  <2>1. ASSUME NEW q, Elements(q) \subseteq Kept, Below(q, sendQueue) PROVE Below(q, sendQueue')
    BY <1>3, <1>6, <1>7, <2>1 DEF Below
  <2> QED BY <2>1 DEF Flow, Ordered, Kept
<1>9. Ordered'
  BY <1>4, <1>7, <1>8 DEF Flow, Ordered
<1>10. Accounted'
  <2>1. Kept' = (Kept \ gone) \cup {n}
    <3>1. \A e \in gone : e \notin Elements(received) /\ e \notin Elements(wire)
                          /\ e \notin Elements(batch) /\ e \notin Elements(rest)
      <4>1. \A e \in gone : e \in Elements(sendQueue) /\ e \in Kept /\ e \in Nat
        BY <1>3, <1>6 DEF Kept
      <4>2. ASSUME NEW q, Below(q, sendQueue), NEW e \in gone PROVE e \notin Elements(q)
        <5>1. e \in Elements(q) => e < e
          BY <4>1, <4>2 DEF Below
        <5> QED BY <4>1, <5>1
      <4> QED BY <1>3, <4>2 DEF Flow, Ordered
    <3> QED BY <1>3, <1>4, <1>7, <3>1 DEF Kept
  <2>2. gone \subseteq Kept
    BY <1>3 DEF Kept
  <2>3. /\ Kept \cup evicted \cup cut \cup discarded = 1..accepted
        /\ Kept \cap (evicted \cup cut \cup discarded) = {}
        /\ evicted \cap cut = {} /\ (evicted \cup cut) \cap discarded = {}
    BY DEF Flow, Accounted
  <2>4. n \notin evicted \cup cut \cup discarded /\ n \notin gone
    BY <1>5, <2>2, <2>3
  <2> HIDE DEF n
  <2>5. Kept' \cup evicted' \cup cut' \cup discarded' = 1..accepted'
    BY <1>4, <1>5, <2>1, <2>2, <2>3
  <2>6. evicted' = evicted \cup gone /\ cut' = cut /\ discarded' = discarded
    BY <1>4
  <2>7. Kept' \cap (evicted' \cup cut' \cup discarded') = {}
    BY <2>1, <2>2, <2>3, <2>4, <2>6
  <2>8. evicted' \cap cut' = {} /\ (evicted' \cup cut') \cap discarded' = {}
    BY <2>2, <2>3, <2>6
  <2> QED BY <2>5, <2>7, <2>8 DEF Accounted
<1> QED BY <1>3, <1>7, <1>9, <1>10 DEF Flow

(* Draining moves everything from the queue to the empty batch. *)
LEMMA DrainFlow ==
  ASSUME TypeOK, Control, Flow, Drain, UNCHANGED <<state, wire, received, cut, inVars>>
  PROVE  Flow'
<1>1. batch = <<>> /\ batch' = sendQueue /\ sendQueue' = <<>> /\ UNCHANGED <<accepted, evicted, discarded>>
  BY DEF Drain, Control
<1>2. Elements(<<>>) = {} /\ Increasing(<<>>) /\ \A q : Below(q, <<>>)
  BY DEF Elements, Increasing, Below
<1>3. Ordered'
  BY <1>1, <1>2 DEF Flow, Ordered
<1>4. Accounted'
  BY <1>1, <1>2 DEF Flow, Accounted, Kept
<1> QED BY <1>3, <1>4 DEF Flow

(* Sending moves the beginning of the batch to the end of the wire. *)
LEMMA SendFlow ==
  ASSUME TypeOK, Flow, Send, UNCHANGED <<state, queueVars, received, inVars>>
  PROVE  Flow' /\ Elements(wire') \cup Elements(batch') = Elements(wire) \cup Elements(batch)
<1>1. UNCHANGED <<sendQueue, accepted, evicted, discarded, received, cut>>
  BY DEF Send, queueVars
<1>2. CASE UNCHANGED <<batch, wire>>
  BY <1>1, <1>2 DEF Flow, Ordered, Accounted, Kept
<1>3. ASSUME NEW n \in 1..Len(batch), wire' = wire \o SubSeq(batch, 1, n),
             batch' = SubSeq(batch, n + 1, Len(batch))
      PROVE  Flow' /\ Elements(wire') \cup Elements(batch') = Elements(wire) \cup Elements(batch)
  <2> DEFINE p == SubSeq(batch, 1, n)
             q == SubSeq(batch, n + 1, Len(batch))
  <2>1. batch \in Seq(Nat) /\ wire \in Seq(Nat) /\ n \in 0..Len(batch) /\ Increasing(batch)
    BY LenProperties DEF TypeOK, Flow, Ordered
  <2>2. /\ p \in Seq(Nat) /\ q \in Seq(Nat) /\ Increasing(p) /\ Increasing(q) /\ Below(p, q)
        /\ Elements(batch) = Elements(p) \cup Elements(q)
    BY <2>1, IncreasingSplit
  <2>3. wire' = wire \o p /\ batch' = q
    BY <1>3
  <2> HIDE DEF p, q
  <2>4. Elements(wire') = Elements(wire) \cup Elements(p)
    BY <2>1, <2>2, <2>3, ElementsOfConcat
  <2>5. Increasing(wire')
    <3>1. Below(wire, p) /\ Increasing(wire)
      BY <2>2 DEF Flow, Ordered, Below
    <3> QED BY <2>1, <2>2, <2>3, <3>1, IncreasingConcat
  <2>6. /\ Below(received, wire') /\ Below(received, batch')
        /\ Below(wire', batch') /\ Below(wire', sendQueue) /\ Below(batch', sendQueue)
    BY <2>2, <2>3, <2>4 DEF Flow, Ordered, Below
  <2>7. Ordered'
    BY <1>1, <2>2, <2>3, <2>5, <2>6 DEF Flow, Ordered
  <2>8. Kept' = Kept
    BY <1>1, <2>2, <2>3, <2>4 DEF Kept
  <2> QED BY <1>1, <2>2, <2>3, <2>4, <2>7, <2>8 DEF Flow, Accounted
<1> QED BY <1>2, <1>3 DEF Send

(* A failed ::send loses the batch. *)
LEMMA SendFailsFlow ==
  ASSUME Flow, SendFails
  PROVE  Flow'
<1>1. /\ batch' = <<>> /\ cut' = cut \cup Elements(batch)
      /\ UNCHANGED <<sendQueue, accepted, evicted, discarded, wire, received>>
  BY DEF SendFails, queueVars
<1>2. Elements(<<>>) = {} /\ Increasing(<<>>)
      /\ (\A q : Below(q, <<>>)) /\ (\A q : Below(<<>>, q))
  BY DEF Elements, Increasing, Below
<1>3. Ordered'
  BY <1>1, <1>2 DEF Flow, Ordered
<1>4. ASSUME NEW e \in Elements(batch)
      PROVE  e \notin Elements(received) \cup Elements(wire) \cup Elements(sendQueue)
  <2>1. e \in 1..accepted
    BY DEF Flow, Accounted, Kept
  <2>2. ~(e < e)
    BY <2>1
  <2> QED BY <2>2 DEF Flow, Ordered, Below
<1>5. Accounted'
  BY <1>1, <1>2, <1>4 DEF Flow, Accounted, Kept
<1> QED BY <1>3, <1>5 DEF Flow

(* Closing loses the end of the wire. *)
LEMMA CloseFlow ==
  ASSUME TypeOK, Flow, Close, UNCHANGED <<queueVars, batch, received, asked, dispatched>>
  PROVE  Flow' /\ Elements(wire') \subseteq Elements(wire)
<1> PICK n \in 0..Len(wire) : /\ wire' = SubSeq(wire, 1, n)
                              /\ cut' = cut \cup Elements(SubSeq(wire, n + 1, Len(wire)))
  BY DEF Close
<1> DEFINE p == SubSeq(wire, 1, n)
           q == SubSeq(wire, n + 1, Len(wire))
<1>1. UNCHANGED <<sendQueue, accepted, evicted, discarded, batch, received>>
  BY DEF queueVars
<1>2. /\ p \in Seq(Nat) /\ q \in Seq(Nat) /\ Increasing(p) /\ Below(p, q)
      /\ Elements(wire) = Elements(p) \cup Elements(q)
  <2>1. wire \in Seq(Nat) /\ Increasing(wire)
    BY DEF TypeOK, Flow, Ordered
  <2> QED BY <2>1, IncreasingSplit
<1>3. wire' = p /\ cut' = cut \cup Elements(q)
  OBVIOUS
<1> HIDE DEF p, q
<1>4. Ordered'
  BY <1>1, <1>2, <1>3 DEF Flow, Ordered, Below
<1>5. ASSUME NEW e \in Elements(q)
      PROVE  e \notin Elements(received) \cup Elements(p) \cup Elements(batch) \cup Elements(sendQueue)
  <2>1. e \in 1..accepted /\ e \in Elements(wire)
    BY <1>2 DEF Flow, Accounted, Kept
  <2>2. ~(e < e)
    BY <2>1
  <2> QED BY <1>2, <2>1, <2>2 DEF Flow, Ordered, Below
<1>6. Accounted'
  BY <1>1, <1>2, <1>3, <1>5 DEF Flow, Accounted, Kept
<1> QED BY <1>2, <1>3, <1>4, <1>6 DEF Flow

(* A transport that is destroyed takes its queue along. *)
LEMMA DestroyFlow ==
  ASSUME Control, Flow, Destroy
  PROVE  Flow'
<1>1. /\ discarded = {} /\ discarded' = Elements(sendQueue) /\ sendQueue' = <<>>
      /\ UNCHANGED <<accepted, evicted, batch, wire, received, cut>>
  BY DEF Control, Destroy, outVars
<1>2. Elements(<<>>) = {} /\ Increasing(<<>>) /\ \A q : Below(q, <<>>)
  BY DEF Elements, Increasing, Below
<1>3. Ordered'
  BY <1>1, <1>2 DEF Flow, Ordered
<1>4. ASSUME NEW e \in Elements(sendQueue)
      PROVE  e \notin Elements(received) \cup Elements(wire) \cup Elements(batch)
  <2>1. e \in 1..accepted
    BY DEF Flow, Accounted, Kept
  <2>2. ~(e < e)
    BY <2>1
  <2> QED BY <2>2 DEF Flow, Ordered, Below
<1>5. Accounted'
  BY <1>1, <1>2, <1>4 DEF Flow, Accounted, Kept
<1> QED BY <1>3, <1>5 DEF Flow

(* The server reads the head of the wire, the least message outstanding. *)
LEMMA ServerReadsFlow ==
  ASSUME TypeOK, Flow, ServerReads
  PROVE  /\ Flow'
         /\ Head(wire) \in Elements(wire)
         /\ Elements(wire') = Elements(wire) \ {Head(wire)}
         /\ \A e \in Elements(wire') \cup Elements(batch) \cup Elements(sendQueue) : Head(wire) < e
<1>1. /\ wire' = Tail(wire) /\ received' = Append(received, Head(wire)) /\ wire # <<>>
      /\ UNCHANGED <<sendQueue, accepted, evicted, discarded, batch, cut>>
  BY DEF ServerReads, queueVars
<1>2. wire \in Seq(Nat) /\ received \in Seq(Nat) /\ Increasing(wire) /\ Increasing(received)
  BY DEF TypeOK, Flow, Ordered
<1>3. /\ Head(wire) \in Nat /\ Increasing(wire')
      /\ Elements(wire) = {Head(wire)} \cup Elements(wire')
      /\ \A e \in Elements(wire') : Head(wire) < e
  BY <1>1, <1>2, IncreasingTail
<1>4. Head(wire) \in Elements(wire) /\ Elements(wire') = Elements(wire) \ {Head(wire)}
  <2>1. Head(wire) \notin Elements(wire')
    BY <1>3
  <2> QED BY <1>3, <2>1
<1>5. \A e \in Elements(wire') \cup Elements(batch) \cup Elements(sendQueue) : Head(wire) < e
  BY <1>3, <1>4 DEF Flow, Ordered, Below
<1>6. Increasing(received') /\ Elements(received') = Elements(received) \cup {Head(wire)}
  <2>1. \A e \in Elements(received) : e < Head(wire)
    BY <1>4 DEF Flow, Ordered, Below
  <2> QED BY <1>1, <1>2, <1>3, <2>1, IncreasingAppend
<1>7. Ordered'
  BY <1>1, <1>3, <1>4, <1>5, <1>6 DEF Flow, Ordered, Below
<1>8. Accounted'
  <2>1. Kept' = Kept
    BY <1>1, <1>3, <1>6 DEF Kept
  <2> QED BY <1>1, <2>1 DEF Flow, Accounted
<1> QED BY <1>4, <1>5, <1>7, <1>8 DEF Flow

(* Nothing else moves messages. *)
flowVars == <<sendQueue, accepted, evicted, discarded, batch, wire, received, cut>>

LEMMA StillFlow == Flow /\ UNCHANGED flowVars => Flow'
BY DEF Flow, Ordered, Accounted, Kept, flowVars

LEMMA OtherSteps ==
  ASSUME Next
  PROVE  \/ \E s \in Senders : Push(s)
         \/ Drain /\ UNCHANGED <<state, wire, received, cut, inVars>>
         \/ Send /\ UNCHANGED <<state, queueVars, received, inVars>>
         \/ SendFails \/ Destroy
         \/ Close /\ UNCHANGED <<queueVars, batch, received, asked, dispatched>>
         \/ ServerReads
         \/ UNCHANGED flowVars
<1>1. CASE Start \/ Stop \/ StopNotify \/ Join \/ RecvFails \/ ServerWrites
           \/ \E s \in Senders : Notify(s)
  BY <1>1 DEF Start, Stop, StopNotify, Join, RecvFails, ServerWrites, Notify,
              queueVars, outVars, flowVars
<1>2. CASE IoStep
  BY <1>2 DEF IoStep, queueVars, outVars, flowVars
<1>3. CASE \E s \in Senders : Push(s)
  BY <1>3
<1>4. CASE SendFails \/ Destroy \/ ServerReads
  BY <1>4
<1> QED BY <1>1, <1>2, <1>3, <1>4 DEF Next

LEMMA FlowStep == TypeOK /\ Control /\ Flow /\ [Next]_vars => Flow'
<1> SUFFICES ASSUME TypeOK, Control, Flow, [Next]_vars PROVE Flow'
  OBVIOUS
<1>1. CASE UNCHANGED vars
  <2>1. UNCHANGED flowVars
    BY <1>1 DEF vars, queueVars, outVars, flowVars
  <2> QED BY <2>1, StillFlow
<1>2. CASE Next
  BY <1>2, OtherSteps, PushFlow, DrainFlow, SendFlow, SendFailsFlow, DestroyFlow, CloseFlow,
     ServerReadsFlow, StillFlow
<1> QED BY <1>1, <1>2

LEMMA FlowInit == Init => Flow
<1> SUFFICES ASSUME Init PROVE Flow
  OBVIOUS
<1>1. Elements(<<>>) = {} /\ Increasing(<<>>) /\ Below(<<>>, <<>>) /\ 1..0 = {}
  BY DEF Elements, Increasing, Below
<1> QED BY <1>1 DEF Init, Flow, Ordered, Accounted, Kept

LEMMA Invariance == Spec => [](TypeOK /\ Control /\ Flow)
BY TypeInit, TypeStep, FlowInit, FlowStep, PTL DEF Spec

(* Flight in one piece. *)
LEMMA FlightFacts ==
  ASSUME TypeOK, Ordered
  PROVE  /\ Flight \in Seq(Nat) /\ Increasing(Flight) /\ Below(received, Flight)
         /\ Elements(Flight) = Elements(wire) \cup Elements(batch) \cup Elements(sendQueue)
         /\ Increasing(received \o Flight)
         /\ Elements(received \o Flight) = Kept
<1>1. /\ wire \in Seq(Nat) /\ batch \in Seq(Nat) /\ sendQueue \in Seq(Nat)
      /\ received \in Seq(Nat)
  BY DEF TypeOK
<1> DEFINE front == wire \o batch
<1>2. /\ front \in Seq(Nat) /\ Increasing(front)
      /\ Elements(front) = Elements(wire) \cup Elements(batch)
  BY <1>1, ConcatProperties, IncreasingConcat, ElementsOfConcat DEF Ordered
<1>3. Flight = front \o sendQueue
  BY DEF Flight
<1> HIDE DEF front
<1>4. Below(front, sendQueue) /\ Below(received, front)
  BY <1>2 DEF Ordered, Below
<1>5. /\ Flight \in Seq(Nat) /\ Increasing(Flight)
      /\ Elements(Flight) = Elements(front) \cup Elements(sendQueue)
  BY <1>1, <1>2, <1>3, <1>4, ConcatProperties, IncreasingConcat, ElementsOfConcat DEF Ordered
<1>6. Below(received, Flight)
  BY <1>4, <1>5 DEF Ordered, Below
<1>7. Increasing(received \o Flight)
      /\ Elements(received \o Flight) = Elements(received) \cup Elements(Flight)
  BY <1>1, <1>5, <1>6, IncreasingConcat, ElementsOfConcat DEF Ordered
<1> QED BY <1>2, <1>5, <1>6, <1>7 DEF Kept

(* INetworkTransport.h:22: plate messages are ordered, from the server     *)
(* back to the queue, whatever happens to connections.                     *)
THEOREM MessagesInOrder == Spec => []InOrder
<1>1. TypeOK /\ Flow => InOrder
  BY FlightFacts DEF Flow, InOrder, Increasing
<1> QED BY Invariance, <1>1, PTL

-----------------------------------------------------------------------------
(* The transport implements LossyChannel: accepting is accepting, a        *)
(* server's read is a delivery, a failure a loss.                          *)

LEMMA ChannelInit == Init => Channel!Init
<1> SUFFICES ASSUME Init PROVE Channel!Init
  OBVIOUS
<1>1. Flow
  BY FlowInit
<1>2. Elements(Flight) = {}
  <2>1. TypeOK /\ Ordered
    BY <1>1, TypeInit DEF Flow
  <2>2. Elements(<<>>) = {}
    BY DEF Elements
  <2> QED BY <2>1, <2>2, FlightFacts DEF Init
<1> QED BY <1>2 DEF Init, Channel!Init

LEMMA ChannelStep ==
  TypeOK /\ Control /\ Flow /\ [Next]_vars /\ TypeOK' /\ Flow' => [Channel!Next]_(Channel!vars)
<1> SUFFICES ASSUME TypeOK, Control, Flow, [Next]_vars, TypeOK', Flow'
             PROVE  [Channel!Next]_(Channel!vars)
  OBVIOUS
<1>1. Elements(Flight) = Elements(wire) \cup Elements(batch) \cup Elements(sendQueue)
  BY FlightFacts DEF Flow
<1>2. Elements(Flight)' = Elements(wire') \cup Elements(batch') \cup Elements(sendQueue')
  <2>1. TypeOK' /\ Ordered'
    BY DEF Flow
  <2>2. (TypeOK /\ Ordered
          => Elements(Flight) = Elements(wire) \cup Elements(batch) \cup Elements(sendQueue))'
    BY FlightFacts, PTL
  <2> QED BY <2>1, <2>2
<1>3. ASSUME NEW s \in Senders, Push(s) PROVE Channel!Accept
  <2>1. accepted' = accepted + 1 /\ UNCHANGED <<batch, wire, received>>
    BY <1>3 DEF Push, outVars
  <2>2. /\ accepted + 1 \in Elements(sendQueue')
        /\ Elements(sendQueue') \subseteq Elements(sendQueue) \cup {accepted + 1}
    BY <1>3, PushFlow
  <2> DEFINE kept == Elements(Flight)' \ {accepted + 1}
  <2>3. kept \in SUBSET Elements(Flight)
    BY <1>1, <1>2, <2>1, <2>2
  <2>4. Elements(Flight)' = kept \cup {accepted + 1}
    BY <1>2, <2>2
  <2> QED BY <2>1, <2>3, <2>4 DEF Channel!Accept
<1>4. ASSUME Elements(Flight)' \subseteq Elements(Flight), UNCHANGED <<accepted, received>>
      PROVE  Channel!Lose
  BY <1>4 DEF Channel!Lose
<1>5. CASE Drain /\ UNCHANGED <<state, wire, received, cut, inVars>>
  <2>1. batch' = sendQueue /\ sendQueue' = <<>> /\ UNCHANGED <<accepted, wire, received>>
    BY <1>5 DEF Drain
  <2>2. Elements(<<>>) = {}
    BY DEF Elements
  <2> QED BY <1>1, <1>2, <1>4, <2>1, <2>2 DEF Channel!Next
<1>6. CASE Send /\ UNCHANGED <<state, queueVars, received, inVars>>
  <2>1. UNCHANGED <<sendQueue, accepted, received>>
    BY <1>6 DEF queueVars
  <2>2. Elements(wire') \cup Elements(batch') = Elements(wire) \cup Elements(batch)
    BY <1>6, SendFlow
  <2> QED BY <1>1, <1>2, <1>4, <2>1, <2>2 DEF Channel!Next
<1>7. CASE SendFails
  <2>1. batch' = <<>> /\ UNCHANGED <<sendQueue, accepted, wire, received>>
    BY <1>7 DEF SendFails, queueVars
  <2>2. Elements(<<>>) = {}
    BY DEF Elements
  <2> QED BY <1>1, <1>2, <1>4, <2>1, <2>2 DEF Channel!Next
<1>8. CASE Destroy
  <2>1. sendQueue' = <<>> /\ UNCHANGED <<accepted, wire, batch, received>>
    BY <1>8 DEF Destroy, outVars
  <2>2. Elements(<<>>) = {}
    BY DEF Elements
  <2> QED BY <1>1, <1>2, <1>4, <2>1, <2>2 DEF Channel!Next
<1>9. CASE Close /\ UNCHANGED <<queueVars, batch, received, asked, dispatched>>
  <2>1. UNCHANGED <<sendQueue, accepted, batch, received>>
    BY <1>9 DEF queueVars
  <2>2. Elements(wire') \subseteq Elements(wire)
    BY <1>9, CloseFlow
  <2> QED BY <1>1, <1>2, <1>4, <2>1, <2>2 DEF Channel!Next
<1>10. CASE ServerReads
  <2>1. /\ received' = Append(received, Head(wire))
        /\ UNCHANGED <<sendQueue, accepted, batch>>
    BY <1>10 DEF ServerReads, queueVars
  <2>2. /\ Head(wire) \in Elements(wire) /\ Elements(wire') = Elements(wire) \ {Head(wire)}
        /\ \A e \in Elements(wire') \cup Elements(batch) \cup Elements(sendQueue) : Head(wire) < e
    BY <1>10, ServerReadsFlow
  <2>3. Elements(wire) \subseteq Nat /\ Elements(Flight) \subseteq Nat
    <3>1. Kept \subseteq 1..accepted /\ accepted \in Nat
      BY DEF Flow, Accounted, TypeOK
    <3> QED BY <1>1, <3>1 DEF Kept
  <2>4. Head(wire) \in Elements(Flight) /\ \A e \in Elements(Flight) : Head(wire) <= e
    BY <1>1, <2>2, <2>3
  <2>5. Elements(Flight)' = Elements(Flight) \ {Head(wire)}
    <3>1. Head(wire) \in Nat /\ ~(Head(wire) < Head(wire))
      BY <2>2, <2>3
    <3>2. Head(wire) \notin Elements(wire') \cup Elements(batch) \cup Elements(sendQueue)
      BY <2>2, <3>1
    <3> QED BY <1>1, <1>2, <2>1, <2>2, <3>2
  <2> QED BY <2>1, <2>4, <2>5 DEF Channel!Next, Channel!Deliver
<1>11. CASE UNCHANGED flowVars
  BY <1>1, <1>2, <1>11 DEF flowVars, Channel!vars
<1>12. CASE UNCHANGED vars
  BY <1>11, <1>12 DEF vars, flowVars, queueVars, outVars
<1>13. CASE Next
  BY <1>3, <1>5, <1>6, <1>7, <1>8, <1>9, <1>10, <1>11, <1>13, OtherSteps DEF Channel!Next
<1> QED BY <1>12, <1>13

(* The uplink is LossyChannel: what arrives does so in order and once.     *)
THEOREM ImplementsChannel == Spec => KeepsOrder
<1>1. TypeOK /\ Control /\ Flow /\ [Next]_vars => [Channel!Next]_(Channel!vars)
  BY TypeStep, FlowStep, ChannelStep
<1> QED BY <1>1, ChannelInit, Invariance, PTL DEF Spec, KeepsOrder, Channel!Spec

-----------------------------------------------------------------------------
(* The I/O thread goes to sleep on an empty queue only, and whoever fills  *)
(* the queue afterwards has a notification to make.                        *)
Attentive == SendsAreNoticed /\ (io = "send_drowsy" => sendQueue = <<>>)

LEMMA NoticedStep == TypeOK /\ Attentive /\ [Next]_vars => Attentive'
<1> SUFFICES ASSUME TypeOK, Attentive, [Next]_vars PROVE Attentive'
  OBVIOUS
<1> USE DEF Attentive, SendsAreNoticed
<1>1. ASSUME NEW s \in Senders, Push(s) PROVE Attentive'
  <2>1. io' = io /\ io # "send_drowsy" /\ sender' = [sender EXCEPT ![s] = "notify"]
    BY <1>1 DEF Push, HoldsMutex
  <2>2. sender'[s] = "notify"
    BY <2>1 DEF TypeOK
  <2> QED BY <2>1, <2>2
<1>2. ASSUME NEW s \in Senders, Notify(s) PROVE Attentive'
  <2>1. io' # "send_asleep" /\ (io' = "send_drowsy" => io = "send_drowsy") /\ sendQueue' = sendQueue
    BY <1>2 DEF Notify, Notified, Wakened, queueVars
  <2> QED BY <2>1
<1>3. CASE StopNotify
  <2>1. io' # "send_asleep" /\ (io' = "send_drowsy" => io = "send_drowsy") /\ sendQueue' = sendQueue
    BY <1>3 DEF StopNotify, Wakened, queueVars
  <2> QED BY <2>1
<1>4. CASE Start \/ Stop \/ Join \/ SendFails \/ RecvFails \/ ServerReads \/ ServerWrites
  <2>1. UNCHANGED <<sender, sendQueue>> /\ (io' = io \/ io' \in {"top", "close"})
    BY <1>4 DEF Start, Stop, Join, SendFails, RecvFails, ServerReads, ServerWrites, IoGoto, queueVars
  <2> QED BY <2>1
<1>5. CASE IoStep
  <2>1. sender' = sender
    BY <1>5 DEF IoStep
  <2>2. CASE SendWait /\ UNCHANGED queueVars
    BY <2>1, <2>2 DEF SendWait, IoGoto, queueVars
  <2>3. CASE io' \notin {"send_asleep", "send_drowsy"}
    BY <2>3
  <2>4. \/ SendWait /\ UNCHANGED queueVars
        \/ io' \notin {"send_asleep", "send_drowsy"}
    BY <1>5 DEF IoStep, Top, Connect, RetryWait, ServeTest, Drain, Send, SelectAndRecv,
                Dispatch, Close, IoGoto, AfterSelect
  <2> QED BY <2>2, <2>3, <2>4
<1>6. CASE UNCHANGED vars
  BY <1>6 DEF vars, queueVars
<1>7. CASE Destroy
  BY <1>7 DEF Destroy
<1> QED BY <1>1, <1>2, <1>3, <1>4, <1>5, <1>6, <1>7 DEF Next

(* send() never leaves the I/O thread asleep on a filled queue without a   *)
(* notification to come, whatever the number of senders.                   *)
THEOREM SendersWakeTheIoThread == Spec => []SendsAreNoticed
<1>1. Init => Attentive
  BY DEF Init, Attentive, SendsAreNoticed
<1>2. Attentive => SendsAreNoticed
  BY DEF Attentive
<1> QED BY <1>1, <1>2, NoticedStep, TypeCorrect, PTL DEF Spec

-----------------------------------------------------------------------------
(* The link after stop().                                                  *)

(* Before start(), and when start() fails, there is no I/O thread; when    *)
(* stop() has returned there is none any more, and nothing is accepted.    *)
Halted ==
    /\ io = "off" => state = "Disconnected"
    /\ stopper = "new" => io = "off" /\ ~running
    /\ stopper = "started" /\ ~running => io = "off"
    /\ stopper \notin {"new", "started"} => ~running
    /\ Stopped => io \in {"off", "done"} /\ state = "Disconnected"

LEMMA HaltedStep == TypeOK /\ Halted /\ [Next]_vars => Halted'
<1> SUFFICES ASSUME TypeOK, Halted, [Next]_vars PROVE Halted'
  OBVIOUS
<1>1. CASE Start \/ Stop \/ Join \/ Destroy
  BY <1>1 DEF Start, Stop, Join, Destroy, IoJoined, Halted, Stopped, TypeOK
<1>2. CASE StopNotify \/ \E s \in Senders : Notify(s)
  <2>1. io' = Wakened /\ UNCHANGED <<running, state>>
        /\ (stopper' = stopper \/ (stopper = "notify" /\ stopper' = "join"))
    BY <1>2 DEF StopNotify, Notify, Notified
  <2>2. io \in {"off", "done"} => io' = io
    BY <2>1 DEF Wakened
  <2>3. io' = "off" => io = "off"
    BY <2>1 DEF Wakened
  <2> QED BY <2>1, <2>2, <2>3 DEF Halted, Stopped
<1>3. CASE IoStep \/ SendFails \/ RecvFails
  <2>1. io \notin {"off", "done"} /\ io' # "off" /\ UNCHANGED <<stopper, running>>
    BY <1>3 DEF IoStep, SendFails, RecvFails, Top, Connect, RetryWait, SendWait, ServeTest, Drain,
                Send, SelectAndRecv, Dispatch, Close, IoGoto, AfterSelect
  <2> QED BY <2>1 DEF Halted, Stopped
<1>4. CASE ServerReads \/ ServerWrites \/ UNCHANGED vars \/ \E s \in Senders : Push(s)
  <2>1. UNCHANGED <<io, state, stopper, running>>
    BY <1>4 DEF ServerReads, ServerWrites, vars, Push
  <2> QED BY <2>1 DEF Halted, Stopped
<1> QED BY <1>1, <1>2, <1>3, <1>4 DEF Next

(* When stop() has returned the link is down and stays down, and no        *)
(* handler is called any more.                                             *)
THEOREM NoHandlerAfterStop == Spec => QuietAfterStop
<1>1. Init => Halted
  BY DEF Init, Halted
<1>2. TypeOK /\ Halted /\ [Next]_vars
        => [Stopped => /\ state = "Disconnected"
                                   /\ UNCHANGED <<dispatched, state>>]_<<dispatched, state>>
  <2> SUFFICES ASSUME TypeOK, Halted, [Next]_vars, Stopped
               PROVE  state = "Disconnected" /\ UNCHANGED <<dispatched, state>>
    OBVIOUS
  <2>1. io \in {"off", "done"} /\ state = "Disconnected"
    BY DEF Halted
  <2>2. ~IoStep
    BY <2>1 DEF IoStep, Top, Connect, RetryWait, SendWait, ServeTest, Drain, Send, SelectAndRecv,
                Dispatch, Close, IoGoto
  <2> QED BY <2>1, <2>2 DEF Next, Start, Stop, StopNotify, Join, Destroy, Push, Notify, SendFails,
                            RecvFails, ServerReads, ServerWrites, Stopped, vars, inVars
<1> QED BY <1>1, <1>2, HaltedStep, TypeCorrect, PTL DEF Spec, QuietAfterStop

-----------------------------------------------------------------------------
(* What is lost.                                                           *)

(* The queue holds the newest messages, so that what is evicted is          *)
(* SendQueueCapacity messages old and what is discarded is newer. *)
Newest ==
    /\ \A i \in 1..Len(sendQueue) : sendQueue[i] = accepted - Len(sendQueue) + i
    /\ \A m \in evicted : m + SendQueueCapacity <= accepted
    /\ \A m \in discarded : m..accepted \subseteq discarded /\ accepted < m + SendQueueCapacity
    /\ stopper = "destroyed" => sendQueue = <<>>

LEMMA PushNewest ==
  ASSUME TypeOK, Control, Halted, Newest, NEW s \in Senders, Push(s)
  PROVE  Newest'
<1>1. /\ accepted' = accepted + 1 /\ accepted \in Nat
      /\ sendQueue \in Seq(Nat) /\ Len(sendQueue) \in Nat /\ Len(sendQueue) <= SendQueueCapacity
      /\ SendQueueCapacity \in Nat \ {0}
      /\ stopper' = stopper /\ stopper # "destroyed" /\ discarded' = {}
  BY TransportAssumption, LenProperties DEF Push, Control, Halted, TypeOK
<1>2. evicted \subseteq Nat /\ \A m \in evicted : m + SendQueueCapacity <= accepted'
  BY <1>1 DEF Newest, TypeOK
<1>3. CASE Full(sendQueue, SendQueueCapacity)
  <2>1. Len(sendQueue) = SendQueueCapacity /\ sendQueue # <<>>
    BY <1>1, <1>3, EmptySeq DEF Full
  <2>2. /\ Head(sendQueue) = sendQueue[1] /\ Tail(sendQueue) \in Seq(Nat)
        /\ Len(Tail(sendQueue)) = Len(sendQueue) - 1
        /\ \A i \in 1..(Len(sendQueue) - 1) : Tail(sendQueue)[i] = sendQueue[i + 1]
    BY <1>1, <2>1, HeadTailProperties
  <2>3. Head(sendQueue) + SendQueueCapacity <= accepted'
    BY <1>1, <2>1, <2>2 DEF Newest
  <2>4. sendQueue' = Append(Tail(sendQueue), accepted') /\ evicted' = evicted \cup {Head(sendQueue)}
    BY <1>1, <1>3 DEF Push, PushDropOldest
  <2>5. /\ Len(sendQueue') = Len(sendQueue)
        /\ \A i \in 1..(Len(sendQueue) - 1) : sendQueue'[i] = sendQueue[i + 1]
        /\ sendQueue'[Len(sendQueue)] = accepted'
    BY <1>1, <2>1, <2>2, <2>4, AppendProperties
  <2>6. \A i \in 1..Len(sendQueue') : sendQueue'[i] = accepted' - Len(sendQueue') + i
    <3> SUFFICES ASSUME NEW i \in 1..Len(sendQueue)
                 PROVE  sendQueue'[i] = accepted' - Len(sendQueue) + i
      BY <2>5
    <3>1. CASE i = Len(sendQueue)
      BY <1>1, <2>5, <3>1
    <3>2. CASE i # Len(sendQueue)
      <4>1. i \in 1..(Len(sendQueue) - 1) /\ i + 1 \in 1..Len(sendQueue)
        BY <1>1, <3>2
      <4>2. sendQueue[i + 1] = accepted - Len(sendQueue) + (i + 1)
        BY <4>1 DEF Newest
      <4> QED BY <1>1, <2>5, <4>1, <4>2
    <3> QED BY <3>1, <3>2
  <2> QED BY <1>1, <1>2, <2>3, <2>4, <2>6 DEF Newest
<1>4. CASE ~Full(sendQueue, SendQueueCapacity)
  <2>1. sendQueue' = Append(sendQueue, accepted') /\ evicted' = evicted
    BY <1>1, <1>4 DEF Push, PushDropOldest
  <2>2. /\ Len(sendQueue') = Len(sendQueue) + 1
        /\ \A i \in 1..Len(sendQueue) : sendQueue'[i] = sendQueue[i]
        /\ sendQueue'[Len(sendQueue) + 1] = accepted'
    BY <1>1, <2>1, AppendProperties
  <2>3. \A i \in 1..Len(sendQueue') : sendQueue'[i] = accepted' - Len(sendQueue') + i
    <3> SUFFICES ASSUME NEW i \in 1..(Len(sendQueue) + 1)
                 PROVE  sendQueue'[i] = accepted' - (Len(sendQueue) + 1) + i
      BY <2>2
    <3>1. CASE i = Len(sendQueue) + 1
      BY <1>1, <2>2, <3>1
    <3>2. CASE i # Len(sendQueue) + 1
      <4>1. i \in 1..Len(sendQueue)
        BY <1>1, <3>2
      <4>2. sendQueue[i] = accepted - Len(sendQueue) + i
        BY <4>1 DEF Newest
      <4> QED BY <1>1, <2>2, <4>1, <4>2
    <3> QED BY <3>1, <3>2
  <2> QED BY <1>1, <1>2, <2>1, <2>3 DEF Newest
<1> QED BY <1>3, <1>4

LEMMA DestroyNewest ==
  ASSUME TypeOK, Newest, Destroy
  PROVE  Newest'
<1>1. /\ accepted \in Nat /\ sendQueue \in Seq(Nat) /\ Len(sendQueue) \in Nat
      /\ Len(sendQueue) <= SendQueueCapacity /\ SendQueueCapacity \in Nat \ {0}
  BY TransportAssumption, LenProperties DEF TypeOK
<1>2. discarded' = Elements(sendQueue) /\ sendQueue' = <<>> /\ UNCHANGED <<accepted, evicted>>
  BY DEF Destroy
<1>3. ASSUME NEW m \in Elements(sendQueue)
      PROVE  m..accepted \subseteq Elements(sendQueue) /\ accepted < m + SendQueueCapacity
  <2> PICK i \in 1..Len(sendQueue) : m = sendQueue[i]
    BY DEF Elements
  <2>1. m = accepted - Len(sendQueue) + i
    BY DEF Newest
  <2>2. ASSUME NEW k \in m..accepted PROVE k \in Elements(sendQueue)
    <3> DEFINE j == k - accepted + Len(sendQueue)
    <3>1. j \in 1..Len(sendQueue) /\ accepted - Len(sendQueue) + j = k
      BY <1>1, <2>1
    <3>2. sendQueue[j] = accepted - Len(sendQueue) + j
      BY <3>1 DEF Newest
    <3> QED BY <3>1, <3>2 DEF Elements
  <2> QED BY <1>1, <2>1, <2>2
<1> QED BY <1>2, <1>3 DEF Newest

LEMMA NewestStep == TypeOK /\ Control /\ Halted /\ Newest /\ [Next]_vars => Newest'
<1> SUFFICES ASSUME TypeOK, Control, Halted, Newest, [Next]_vars PROVE Newest'
  OBVIOUS
<1>1. CASE \E s \in Senders : Push(s)
  BY <1>1, PushNewest
<1>2. CASE Destroy
  BY <1>2, DestroyNewest
<1>3. CASE Drain /\ UNCHANGED stopper
  BY <1>3 DEF Drain, Newest
<1>4. CASE UNCHANGED queueVars /\ (stopper' = "destroyed" => stopper = "destroyed")
  BY <1>4 DEF Newest, queueVars
<1>5. \/ (\E s \in Senders : Push(s)) \/ Destroy \/ (Drain /\ UNCHANGED stopper)
      \/ UNCHANGED queueVars /\ (stopper' = "destroyed" => stopper = "destroyed")
  BY DEF Next, vars, Start, Stop, StopNotify, Join, Notify, IoStep, SendFails, RecvFails,
         ServerReads, ServerWrites
<1> QED BY <1>1, <1>2, <1>3, <1>4, <1>5

(* A message that send() accepted is lost by an eviction, when             *)
(* SendQueueCapacity newer ones were accepted, with a connection, or, if   *)
(* it is among the newest, with the transport; by nothing else, by one of  *)
(* these only, and it does not come back.                                  *)
THEOREM LossesAccounted == Spec => []NothingElseLost
<1>1. Init => Halted /\ Newest
  BY DEF Init, Halted, Stopped, Newest
<1>2. TypeOK /\ Control /\ Flow /\ Halted /\ Newest => NothingElseLost
  <2> SUFFICES ASSUME TypeOK, Control, Flow, Halted, Newest PROVE NothingElseLost
    OBVIOUS
  <2>1. Elements(received \o Flight) = Kept
    BY FlightFacts DEF Flow
  <2>2. stopper = "destroyed" => batch \o sendQueue = <<>>
    BY DEF Control, Halted, Stopped, Newest
  <2> QED BY <2>1, <2>2 DEF Flow, Accounted, Newest, NothingElseLost
<1> QED BY Invariance, <1>1, <1>2, HaltedStep, NewestStep, PTL DEF Spec

-----------------------------------------------------------------------------
(* The server's commands.                                                  *)

(* What the server has written on this connection and the I/O thread has   *)
(* not handed over. *)
Stream == inbound \o incoming

(* Lines follow each other: a line that was begun is ended next, and the   *)
(* numbers of the commands grow from line to line.                         *)
Lines(s) ==
    /\ s # <<>> => s[1][2] = "begin"
    /\ \A i, j \in 1..Len(s) :
         j = i + 1 => IF s[i][2] = "begin" THEN s[j] = <<s[i][1], "end">> ELSE s[j][2] = "begin"
    /\ \A i, j \in 1..Len(s) :
         i < j => s[i][1] <= s[j][1] /\ (s[i][2] = "end" => s[i][1] < s[j][1])

(* A line is unfinished exactly while the server is writing it; ...        *)
Unfinished(s) ==
    /\ \A i \in 1..Len(s) : s[i][1] <= asked
    /\ writing => s # <<>> /\ s[Len(s)] = <<asked, "begin">>
    /\ ~writing => (s # <<>> => s[Len(s)][2] = "end")

(* ... what was handed over came before what is still to come.             *)
Behind(s) == \A i \in 1..Len(dispatched), j \in 1..Len(s) : dispatched[i][1][1] < s[j][1]

Told ==
    \A i \in 1..Len(dispatched) :
      /\ dispatched[i][1][1] \in 1..asked
      /\ dispatched[i] = <<<<dispatched[i][1][1], "begin">>, <<dispatched[i][1][1], "end">>>>

Growing ==
    \A i, j \in 1..Len(dispatched) : i < j => dispatched[i][1][1] < dispatched[j][1][1]

Commands == Lines(Stream) /\ Unfinished(Stream) /\ Behind(Stream) /\ Told /\ Growing

LEMMA StreamType ==
  ASSUME TypeOK
  PROVE  /\ Stream \in Seq(Fragments) /\ Len(Stream) = Len(inbound) + Len(incoming)
         /\ Len(inbound) \in Nat /\ Len(incoming) \in Nat
         /\ \A i \in 1..Len(Stream) :
              Stream[i] = IF i <= Len(inbound) THEN inbound[i] ELSE incoming[i - Len(inbound)]
         /\ \A i \in 1..Len(Stream) :
              /\ Stream[i][1] \in Nat \ {0} /\ Stream[i][2] \in {"begin", "end"}
              /\ Stream[i] = <<Stream[i][1], Stream[i][2]>>
<1>1. /\ inbound \in Seq(Fragments) /\ incoming \in Seq(Fragments)
      /\ Len(inbound) \in Nat /\ Len(incoming) \in Nat
  BY LenProperties DEF TypeOK
<1>2. /\ Stream \in Seq(Fragments) /\ Len(Stream) = Len(inbound) + Len(incoming)
      /\ \A i \in 1..Len(Stream) :
           Stream[i] = IF i <= Len(inbound) THEN inbound[i] ELSE incoming[i - Len(inbound)]
  BY <1>1, ConcatProperties DEF Stream
<1>3. \A i \in 1..Len(Stream) : Stream[i] \in Fragments
  BY <1>2, ElementOfSeq
<1> QED BY <1>1, <1>2, <1>3 DEF Fragments

(* A read moves fragments within the stream. *)
LEMMA RecvCommands ==
  ASSUME TypeOK, TypeOK', Commands, SelectAndRecv, UNCHANGED <<writing, asked, dispatched>>
  PROVE  Commands'
<1>1. CASE UNCHANGED <<inbound, incoming>>
  BY <1>1 DEF Commands, Stream, Lines, Unfinished, Behind, Told, Growing
<1>2. ASSUME NEW n \in 1..Len(incoming),
             inbound' = inbound \o SubSeq(incoming, 1, n),
             incoming' = SubSeq(incoming, n + 1, Len(incoming))
      PROVE  Stream' = Stream
  <2>1. /\ Stream \in Seq(Fragments) /\ Len(Stream) = Len(inbound) + Len(incoming)
        /\ Len(inbound) \in Nat /\ Len(incoming) \in Nat
        /\ \A i \in 1..Len(Stream) :
             Stream[i] = IF i <= Len(inbound) THEN inbound[i] ELSE incoming[i - Len(inbound)]
    BY StreamType
  <2>2. (TypeOK =>
          /\ Stream \in Seq(Fragments) /\ Len(Stream) = Len(inbound) + Len(incoming)
          /\ \A i \in 1..Len(Stream) :
               Stream[i] = IF i <= Len(inbound) THEN inbound[i] ELSE incoming[i - Len(inbound)])'
    BY StreamType, PTL
  <2>3. \A i \in 1..Len(incoming) : incoming[i] \in Fragments
    BY ElementOfSeq DEF TypeOK
  <2>4. /\ Len(SubSeq(incoming, 1, n)) = n /\ SubSeq(incoming, 1, n) \in Seq(Fragments)
        /\ \A i \in 1..n : SubSeq(incoming, 1, n)[i] = incoming[i]
    BY <2>1, <2>3, SubSeqProperties
  <2>5. /\ Len(incoming') = Len(incoming) - n
        /\ \A i \in 1..(Len(incoming) - n) : incoming'[i] = incoming[n + i]
    BY <1>2, <2>1, <2>3, SubSeqProperties
  <2>6. inbound \in Seq(Fragments)
    BY DEF TypeOK
  <2>7. /\ Len(inbound') = Len(inbound) + n
        /\ \A i \in 1..(Len(inbound) + n) :
             inbound'[i] = IF i <= Len(inbound) THEN inbound[i] ELSE incoming[i - Len(inbound)]
    BY <1>2, <2>1, <2>4, <2>6, ConcatProperties
  <2>8. Len(Stream') = Len(Stream)
    BY <2>1, <2>2, <2>5, <2>7
  <2>9. ASSUME NEW i \in 1..Len(Stream) PROVE Stream'[i] = Stream[i]
    <3>1. CASE i <= Len(inbound)
      BY <2>1, <2>2, <2>5, <2>7, <2>8, <3>1
    <3>2. CASE i > Len(inbound) /\ i <= Len(inbound) + n
      <4>1. Stream'[i] = inbound'[i] /\ inbound'[i] = incoming[i - Len(inbound)]
        BY <2>1, <2>2, <2>7, <2>8, <3>2
      <4> QED BY <2>1, <3>2, <4>1
    <3>3. CASE i > Len(inbound) + n
      <4>1. Stream'[i] = incoming'[i - (Len(inbound) + n)]
        BY <2>1, <2>2, <2>7, <2>8, <3>3
      <4>2. /\ i - (Len(inbound) + n) \in 1..(Len(incoming) - n)
            /\ n + (i - (Len(inbound) + n)) = i - Len(inbound)
        BY <2>1, <3>3
      <4>3. incoming'[i - (Len(inbound) + n)] = incoming[i - Len(inbound)]
        BY <2>5, <4>2
      <4> QED BY <2>1, <3>3, <4>1, <4>3
    <3> QED BY <2>1, <3>1, <3>2, <3>3
  <2> QED BY <2>1, <2>2, <2>8, <2>9, SeqEqual
<1>3. Stream' = Stream
  BY <1>1, <1>2 DEF SelectAndRecv, Stream
<1> QED BY <1>3 DEF Commands, Lines, Unfinished, Behind, Told, Growing

(* The server begins a line or ends it. *)
LEMMA WriteCommands ==
  ASSUME TypeOK, TypeOK', Commands, ServerWrites
  PROVE  Commands'
<1> DEFINE new == <<asked', IF writing THEN "end" ELSE "begin">>
<1>1. /\ incoming' = Append(incoming, new) /\ writing' = ~writing
      /\ asked' = IF writing THEN asked ELSE asked + 1
      /\ UNCHANGED <<inbound, dispatched>>
  BY DEF ServerWrites
<1>2. /\ Stream \in Seq(Fragments) /\ Len(Stream) = Len(inbound) + Len(incoming)
      /\ Len(inbound) \in Nat /\ Len(incoming) \in Nat /\ Len(Stream) \in Nat
      /\ \A i \in 1..Len(Stream) :
           Stream[i] = IF i <= Len(inbound) THEN inbound[i] ELSE incoming[i - Len(inbound)]
      /\ \A i \in 1..Len(Stream) : Stream[i][1] \in Nat /\ Stream[i][2] \in {"begin", "end"}
  BY StreamType, LenProperties
<1>3. (TypeOK =>
        /\ Stream \in Seq(Fragments) /\ Len(Stream) = Len(inbound) + Len(incoming)
        /\ \A i \in 1..Len(Stream) :
             Stream[i] = IF i <= Len(inbound) THEN inbound[i] ELSE incoming[i - Len(inbound)])'
  BY StreamType, PTL
<1>4. /\ Len(incoming') = Len(incoming) + 1
      /\ \A i \in 1..Len(incoming) : incoming'[i] = incoming[i]
      /\ incoming'[Len(incoming) + 1] = new
  <2>1. incoming \in Seq(Fragments) /\ incoming' \in Seq(Fragments)
    BY DEF TypeOK
  <2> HIDE DEF new
  <2> QED BY <1>1, <2>1, AppendProperties
<1> HIDE DEF new
<1> DEFINE s == Stream
           t == Stream'
           n == Len(Stream)
<1>5. /\ Len(t) = n + 1 /\ t[n + 1] = new
      /\ \A i \in 1..n : t[i] = s[i]
  <2>1. Len(t) = n + 1
    BY <1>1, <1>2, <1>3, <1>4
  <2>2. t[n + 1] = incoming'[Len(incoming) + 1]
    <3>1. n + 1 \in 1..Len(t) /\ ~(n + 1 <= Len(inbound)) /\ n + 1 - Len(inbound) = Len(incoming) + 1
      BY <1>2, <2>1
    <3> QED BY <1>1, <1>3, <3>1
  <2>3. ASSUME NEW i \in 1..n PROVE t[i] = s[i]
    <3>1. i \in 1..Len(t)
      BY <1>2, <2>1
    <3>2. CASE i <= Len(inbound)
      BY <1>1, <1>2, <1>3, <3>1, <3>2
    <3>3. CASE ~(i <= Len(inbound))
      <4>1. i - Len(inbound) \in 1..Len(incoming)
        BY <1>2, <3>3
      <4> QED BY <1>1, <1>2, <1>3, <1>4, <3>1, <3>3, <4>1
    <3> QED BY <3>2, <3>3
  <2> QED BY <1>4, <2>1, <2>2, <2>3
<1>6. asked \in Nat /\ asked' \in Nat /\ writing \in BOOLEAN
      /\ new[1] = asked' /\ new[2] = IF writing THEN "end" ELSE "begin"
  BY DEF TypeOK, new
<1>7. /\ Lines(s) /\ Unfinished(s) /\ Behind(s)
      /\ s # <<>> <=> n # 0
  BY <1>2, EmptySeq DEF Commands
<1>8. n \in Nat /\ \A i \in 1..n : s[i][1] \in Nat /\ s[i][2] \in {"begin", "end"}
  BY <1>2
<1>9. t \in Seq(Fragments) /\ t # <<>>
  BY <1>3, <1>5, <1>8, EmptySeq
<1> HIDE DEF s, t, n
<1>10. \A i \in 1..n : s[i][1] <= asked /\ asked <= asked'
  BY <1>1, <1>6, <1>7, <1>8 DEF Unfinished, s, n
<1>11. writing => n # 0 /\ s[n] = <<asked, "begin">> /\ new = <<asked, "end">>
  BY <1>1, <1>7 DEF Unfinished, s, n, new
<1>12. ~writing => (n # 0 => s[n][2] = "end") /\ new[2] = "begin" /\ asked < asked'
  BY <1>1, <1>6, <1>7 DEF Unfinished, s, n
<1>13. t[1][2] = "begin"
  <2>1. CASE n = 0
    BY <1>5, <1>11, <1>12, <2>1
  <2>2. CASE n # 0
    BY <1>5, <1>7, <1>8, <2>2 DEF Lines
  <2> QED BY <2>1, <2>2
<1>14. ASSUME NEW i \in 1..(n + 1), NEW j \in 1..(n + 1), j = i + 1
       PROVE  IF t[i][2] = "begin" THEN t[j] = <<t[i][1], "end">> ELSE t[j][2] = "begin"
  <2>1. CASE j \in 1..n
    <3>1. t[i] = s[i] /\ t[j] = s[j] /\ i \in 1..n
      BY <1>5, <1>8, <1>14, <2>1
    <3> QED BY <1>7, <1>14, <2>1, <3>1 DEF Lines, n, s
  <2>2. CASE j = n + 1
    <3>1. i = n /\ n # 0 /\ t[i] = s[n] /\ t[j] = new
      BY <1>5, <1>8, <1>14, <2>2
    <3> QED BY <1>6, <1>11, <1>12, <3>1
  <2> QED BY <1>8, <2>1, <2>2
<1>15. ASSUME NEW i \in 1..(n + 1), NEW j \in 1..(n + 1), i < j
       PROVE  t[i][1] <= t[j][1] /\ (t[i][2] = "end" => t[i][1] < t[j][1])
  <2>1. CASE j \in 1..n
    <3>1. t[i] = s[i] /\ t[j] = s[j] /\ i \in 1..n
      BY <1>5, <1>8, <1>15, <2>1
    <3> QED BY <1>7, <1>15, <2>1, <3>1 DEF Lines, n, s
  <2>2. CASE j = n + 1
    <3>1. i \in 1..n /\ t[i] = s[i] /\ t[j][1] = asked' /\ s[i][1] \in Nat
      BY <1>5, <1>6, <1>8, <1>15, <2>2
    <3>2. s[i][1] <= asked'
      BY <1>6, <1>10, <3>1
    <3>3. CASE ~writing
      BY <1>6, <1>10, <1>12, <3>1, <3>2, <3>3
    <3>4. CASE writing /\ s[i][2] = "end"
      <4>1. i # n
        BY <1>11, <3>4
      <4>2. i < n /\ n \in 1..n
        BY <1>8, <3>1, <4>1
      <4>3. s[i][1] < s[n][1] /\ s[n][1] = asked
        BY <1>7, <1>11, <3>1, <3>4, <4>2 DEF Lines, n, s
      <4> QED BY <1>6, <1>10, <3>1, <4>3
    <3> QED BY <1>6, <3>1, <3>2, <3>3, <3>4
  <2> QED BY <1>8, <2>1, <2>2
<1>16. Lines(t)
  BY <1>5, <1>13, <1>14, <1>15 DEF Lines
<1>17. /\ \A i \in 1..(n + 1) : t[i][1] <= asked'
       /\ writing' => t # <<>> /\ t[n + 1] = <<asked', "begin">>
       /\ ~writing' => (t # <<>> => t[n + 1][2] = "end")
  <2>1. \A i \in 1..(n + 1) : t[i][1] <= asked'
    BY <1>5, <1>6, <1>8, <1>10
  <2> QED BY <1>1, <1>5, <1>6, <1>9, <1>11, <1>12, <2>1 DEF new
<1>18. \A i \in 1..Len(dispatched), j \in 1..(n + 1) : dispatched[i][1][1] < t[j][1]
  <2> SUFFICES ASSUME NEW i \in 1..Len(dispatched), NEW j \in 1..(n + 1)
               PROVE  dispatched[i][1][1] < t[j][1]
    OBVIOUS
  <2>1. CASE j \in 1..n
    BY <1>5, <1>7, <2>1 DEF Behind, n, s
  <2>2. CASE j = n + 1
    <3>1. t[j][1] = asked' /\ dispatched[i][1][1] <= asked /\ dispatched[i][1][1] \in Nat
      BY <1>5, <1>6, <2>2 DEF Commands, Told
    <3>2. CASE ~writing
      BY <1>6, <1>12, <3>1, <3>2
    <3>3. CASE writing
      BY <1>1, <1>6, <1>7, <1>8, <1>11, <3>1, <3>3 DEF Behind, n, s
    <3> QED BY <1>6, <3>2, <3>3
  <2> QED BY <1>8, <2>1, <2>2
<1>19. Lines(Stream)' /\ Unfinished(Stream)' /\ Behind(Stream)'
  BY <1>1, <1>5, <1>16, <1>17, <1>18 DEF Lines, Unfinished, Behind, t
<1>20. Told'
  BY <1>1, <1>6 DEF Commands, Told
<1> QED BY <1>1, <1>19, <1>20 DEF Commands, Growing

(* A line is handed over: the first two fragments of the stream. *)
LEMMA DispatchCommands ==
  ASSUME TypeOK, TypeOK', Commands, Dispatch, UNCHANGED <<incoming, writing, asked>>
  PROVE  Commands'
<1> DEFINE s == Stream
           t == Stream'
           n == Len(Stream)
<1>1. /\ s \in Seq(Fragments) /\ n = Len(inbound) + Len(incoming)
      /\ Len(inbound) \in Nat /\ Len(incoming) \in Nat /\ n \in Nat
      /\ \A i \in 1..n : s[i] = IF i <= Len(inbound) THEN inbound[i] ELSE incoming[i - Len(inbound)]
      /\ \A i \in 1..n : /\ s[i][1] \in Nat \ {0} /\ s[i][2] \in {"begin", "end"}
                         /\ s[i] = <<s[i][1], s[i][2]>> /\ s[i] \in Fragments
  <2>1. s \in Seq(Fragments)
    BY StreamType
  <2>2. \A i \in 1..n : s[i] \in Fragments
    BY <2>1, ElementOfSeq
  <2> HIDE DEF s, n
  <2> QED BY <2>2, StreamType, LenProperties DEF s, n
<1>2. /\ t \in Seq(Fragments) /\ Len(t) = Len(inbound') + Len(incoming)
      /\ \A i \in 1..Len(t) :
           t[i] = IF i <= Len(inbound') THEN inbound'[i] ELSE incoming[i - Len(inbound')]
  <2>1. (TypeOK =>
          /\ Stream \in Seq(Fragments) /\ Len(Stream) = Len(inbound) + Len(incoming)
          /\ \A i \in 1..Len(Stream) :
               Stream[i] = IF i <= Len(inbound) THEN inbound[i] ELSE incoming[i - Len(inbound)])'
    BY StreamType, PTL
  <2> QED BY <2>1
<1>3. Lines(s) /\ Unfinished(s) /\ Behind(s) /\ Told /\ Growing /\ (s # <<>> <=> n # 0)
  BY <1>1, EmptySeq DEF Commands
<1>4. CASE UNCHANGED <<inbound, dispatched>>
  BY <1>4 DEF Commands, Stream, Lines, Unfinished, Behind, Told, Growing
<1>5. ASSUME NEW newline \in Newlines(inbound), \A i \in Newlines(inbound) : newline <= i,
             dispatched' = Append(dispatched, SubSeq(inbound, 1, newline)),
             inbound' = SubSeq(inbound, newline + 1, Len(inbound))
      PROVE  Commands'
  <2>0. n = Len(s)
    OBVIOUS
  <2> HIDE DEF s, t, n
  <2>1. newline \in 1..Len(inbound) /\ inbound[newline][2] = "end"
    BY <1>5 DEF Newlines
  <2>2. n # 0 /\ inbound[1] = s[1] /\ s[1][2] = "begin"
    BY <1>1, <1>3, <2>1 DEF Lines
  <2>3. Len(inbound) >= 2 /\ n >= 2
    BY <1>1, <2>1, <2>2
  <2>4. inbound[2] = s[2] /\ s[2] = <<s[1][1], "end">> /\ s[1] = <<s[1][1], "begin">>
    <3>1. 1 \in 1..n /\ 2 \in 1..n /\ 2 = 1 + 1
      BY <1>1, <2>3
    <3>2. s[2] = <<s[1][1], "end">>
      BY <1>3, <2>2, <3>1 DEF Lines, s, n
    <3>3. s[1] = <<s[1][1], "begin">>
      BY <1>1, <2>2, <3>1
    <3> QED BY <1>1, <2>3, <3>1, <3>2, <3>3
  <2>5. newline = 2
    <3>1. 2 \in Newlines(inbound)
      BY <1>1, <2>3, <2>4 DEF Newlines
    <3>2. newline <= 2 /\ newline # 1
      BY <1>5, <2>1, <2>2, <3>1
    <3> QED BY <1>1, <2>1, <3>2
  <2>6. inbound \in Seq(Fragments) /\ dispatched \in Seq(Seq(Fragments))
    BY DEF TypeOK
  <2>7. \A i \in 1..Len(inbound) : inbound[i] \in Fragments
    BY <2>6, ElementOfSeq
  <2> DEFINE line == SubSeq(inbound, 1, 2)
  <2>8. line = <<s[1], s[2]>> /\ line \in Seq(Fragments)
    <3>1. line \in Seq(Fragments) /\ Len(line) = 2 /\ line[1] = inbound[1] /\ line[2] = inbound[2]
      BY <1>1, <2>3, <2>7, SubSeqProperties
    <3>2. s[1] \in Fragments /\ s[2] \in Fragments
      BY <1>1, <2>3
    <3>3. <<s[1], s[2]>> \in Seq(Fragments) /\ Len(<<s[1], s[2]>>) = 2
          /\ <<s[1], s[2]>>[1] = s[1] /\ <<s[1], s[2]>>[2] = s[2]
      BY <3>2
    <3>4. \A i \in 1..2 : i = 1 \/ i = 2
      OBVIOUS
    <3>5. \A i \in 1..Len(line) : line[i] = <<s[1], s[2]>>[i]
      BY <2>2, <2>4, <3>1, <3>3, <3>4
    <3> HIDE DEF line
    <3> QED BY <3>1, <3>3, <3>5, SeqEqual
  <2>9. line[1][1] = s[1][1] /\ line = <<<<s[1][1], "begin">>, <<s[1][1], "end">>>>
    <3> DEFINE num == s[1][1]
    <3>1. s[1] = <<num, "begin">> /\ s[2] = <<num, "end">>
      BY <2>4
    <3> HIDE DEF num, line
    <3>2. line = <<<<num, "begin">>, <<num, "end">>>>
      BY <2>8, <3>1
    <3>3. line[1][1] = num
      BY <3>2
    <3> QED BY <3>2, <3>3 DEF num
  <2>10. /\ Len(inbound') = Len(inbound) - 2
         /\ \A i \in 1..(Len(inbound) - 2) : inbound'[i] = inbound[i + 2]
    <3>1. \A i \in 3..Len(inbound) : inbound[i] \in Fragments
      BY <2>7
    <3>2. inbound' = SubSeq(inbound, 3, Len(inbound))
      BY <1>5, <2>5
    <3>3. Len(inbound) \in Int /\ 3 \in Int /\ 3 <= Len(inbound) + 1
      BY <1>1, <2>3
    <3> DEFINE rest == SubSeq(inbound, 3, Len(inbound))
    <3>4. /\ Len(rest) = IF 3 <= Len(inbound) THEN Len(inbound) - 3 + 1 ELSE 0
          /\ \A i \in 1..(Len(inbound) - 3 + 1) : rest[i] = inbound[3 + i - 1]
      BY <3>1, <3>3, SubSeqProperties
    <3> HIDE DEF rest
    <3>5. Len(rest) = Len(inbound) - 2
      <4>1. Len(inbound) \in Nat /\ Len(inbound) >= 2
        BY <1>1, <2>3
      <4>2. Len(rest) = IF 3 <= Len(inbound) THEN Len(inbound) - 3 + 1 ELSE 0
        BY <3>4
      <4>3. CASE 3 <= Len(inbound)
        BY <4>1, <4>2, <4>3
      <4>4. CASE ~(3 <= Len(inbound))
        <5>1. Len(inbound) = 2
          <6>1. \A k \in Nat : k >= 2 /\ ~(3 <= k) => k = 2
            OBVIOUS
          <6> QED BY <4>1, <4>4, <6>1
        <5>2. Len(rest) = 0
          BY <4>2, <4>4
        <5> QED BY <5>1, <5>2
      <4> QED BY <4>3, <4>4
    <3>6. ASSUME NEW i \in 1..(Len(inbound) - 2) PROVE rest[i] = inbound[i + 2]
      <4>1. i \in 1..(Len(inbound) - 3 + 1) /\ 3 + i - 1 = i + 2
        BY <1>1
      <4> QED BY <3>4, <4>1
    <3> QED BY <3>2, <3>5, <3>6 DEF rest
  <2>11. Len(t) = n - 2 /\ \A i \in 1..(n - 2) : t[i] = s[i + 2]
    <3>1. Len(t) = n - 2
      BY <1>1, <1>2, <2>10
    <3>2. ASSUME NEW i \in 1..(n - 2) PROVE t[i] = s[i + 2]
      <4>1. i + 2 \in 1..n /\ i \in 1..Len(t)
        BY <1>1, <2>3, <3>1
      <4>2. CASE i <= Len(inbound) - 2
        BY <1>1, <1>2, <2>10, <4>1, <4>2
      <4>3. CASE ~(i <= Len(inbound) - 2)
        <5>1. t[i] = incoming[i - (Len(inbound) - 2)] /\ s[i + 2] = incoming[i + 2 - Len(inbound)]
          BY <1>1, <1>2, <2>10, <4>1, <4>3
        <5>2. i - (Len(inbound) - 2) = i + 2 - Len(inbound)
          BY <1>1, <4>1
        <5> QED BY <5>1, <5>2
      <4> QED BY <4>2, <4>3
    <3> QED BY <3>1, <3>2
  <2>12. t # <<>> <=> n - 2 # 0
    BY <1>1, <1>2, <2>3, <2>11, EmptySeq
  <2>13. \A i \in 1..(n - 2) : i + 2 \in 1..n
    BY <1>1, <2>3
  <2>14. Lines(t)
    <3>0. /\ \A i, j \in 1..n : j = i + 1 => IF s[i][2] = "begin" THEN s[j] = <<s[i][1], "end">>
                                                              ELSE s[j][2] = "begin"
          /\ \A i, j \in 1..n : i < j => s[i][1] <= s[j][1] /\ (s[i][2] = "end" => s[i][1] < s[j][1])
      <4>1. Lines(s)
        BY <1>3
      <4> QED BY <2>0, <4>1 DEF Lines
    <3>1. t # <<>> => t[1][2] = "begin"
      <4> SUFFICES ASSUME t # <<>> PROVE t[1][2] = "begin"
        OBVIOUS
      <4>1. 2 \in 1..n /\ 3 \in 1..n /\ t[1] = s[3] /\ s[2][2] # "begin"
        BY <1>1, <2>3, <2>4, <2>11, <2>12
      <4>2. IF s[2][2] = "begin" THEN s[3] = <<s[2][1], "end">> ELSE s[3][2] = "begin"
        BY <3>0, <4>1
      <4> QED BY <4>1, <4>2
    <3>2. ASSUME NEW i \in 1..(n - 2), NEW j \in 1..(n - 2), j = i + 1
          PROVE  IF t[i][2] = "begin" THEN t[j] = <<t[i][1], "end">> ELSE t[j][2] = "begin"
      <4> DEFINE k == i + 2
                 l == j + 2
      <4>1. k \in 1..n /\ l \in 1..n /\ l = k + 1 /\ t[i] = s[k] /\ t[j] = s[l]
        BY <1>1, <2>11, <2>13, <3>2
      <4> HIDE DEF k, l
      <4>2. IF s[k][2] = "begin" THEN s[l] = <<s[k][1], "end">> ELSE s[l][2] = "begin"
        BY <3>0, <4>1
      <4> QED BY <4>1, <4>2
    <3>3. ASSUME NEW i \in 1..(n - 2), NEW j \in 1..(n - 2), i < j
          PROVE  t[i][1] <= t[j][1] /\ (t[i][2] = "end" => t[i][1] < t[j][1])
      <4> DEFINE k == i + 2
                 l == j + 2
      <4>1. k \in 1..n /\ l \in 1..n /\ k < l /\ t[i] = s[k] /\ t[j] = s[l]
        <5>1. k \in 1..n /\ l \in 1..n
          BY <2>13
        <5>2. t[i] = s[k] /\ t[j] = s[l]
          BY <2>11
        <5> QED BY <3>3, <5>1, <5>2
      <4> HIDE DEF k, l
      <4>2. s[k][1] <= s[l][1] /\ (s[k][2] = "end" => s[k][1] < s[l][1])
        BY <3>0, <4>1
      <4> QED BY <4>1, <4>2
    <3> QED BY <2>11, <3>1, <3>2, <3>3 DEF Lines
  <2>15. /\ \A i \in 1..Len(t) : t[i][1] <= asked
         /\ writing => t # <<>> /\ t[Len(t)] = <<asked, "begin">>
         /\ ~writing => (t # <<>> => t[Len(t)][2] = "end")
    <3>1. \A i \in 1..Len(t) : t[i][1] <= asked
      BY <1>3, <2>11, <2>13 DEF Unfinished, n, s
    <3>2. t # <<>> => t[Len(t)] = s[n]
      <4>1. n - 2 # 0 => n - 2 \in 1..(n - 2) /\ (n - 2) + 2 = n
        BY <1>1, <2>3
      <4> QED BY <2>11, <2>12, <4>1
    <3>3. writing => n # 2
      <4>1. n = 2 => s[n][2] = "end"
        BY <2>4
      <4> QED BY <1>3, <4>1 DEF Unfinished, n, s
    <3> QED BY <1>1, <1>3, <2>3, <2>12, <3>1, <3>2, <3>3 DEF Unfinished, n, s
  <2>16. /\ Len(dispatched) \in Nat /\ Len(dispatched') = Len(dispatched) + 1
         /\ \A i \in 1..Len(dispatched) : dispatched'[i] = dispatched[i]
         /\ dispatched'[Len(dispatched) + 1] = line
    <3> HIDE DEF line
    <3>1. dispatched' = Append(dispatched, line)
      BY <1>5, <2>5 DEF line
    <3> QED BY <2>6, <2>8, <3>1, AppendProperties, LenProperties
  <2> HIDE DEF line
  <2>17. s[1][1] \in 1..asked /\ 1 \in 1..n
    <3>1. 1 \in 1..n /\ asked \in Nat
      BY <1>1, <2>3 DEF TypeOK
    <3>2. s[1][1] <= asked
      <4>1. \A i \in 1..n : s[i][1] <= asked
        BY <1>3, <2>0 DEF Unfinished
      <4> QED BY <3>1, <4>1
    <3>3. s[1][1] \in Nat \ {0}
      BY <1>1, <3>1
    <3> QED BY <3>1, <3>2, <3>3
  <2>18. Told'
    <3> SUFFICES ASSUME NEW i \in 1..(Len(dispatched) + 1)
                 PROVE  /\ dispatched'[i][1][1] \in 1..asked
                        /\ dispatched'[i] = <<<<dispatched'[i][1][1], "begin">>,
                                              <<dispatched'[i][1][1], "end">>>>
      BY <2>16 DEF Told
    <3>1. CASE i \in 1..Len(dispatched)
      BY <1>3, <2>16, <3>1 DEF Told
    <3>2. CASE i = Len(dispatched) + 1
      BY <2>9, <2>16, <2>17, <3>2
    <3> QED BY <2>16, <3>1, <3>2
  <2>19. Growing'
    <3> SUFFICES ASSUME NEW i \in 1..(Len(dispatched) + 1), NEW j \in 1..(Len(dispatched) + 1), i < j
                 PROVE  dispatched'[i][1][1] < dispatched'[j][1][1]
      BY <2>16 DEF Growing
    <3>1. CASE j \in 1..Len(dispatched)
      <4>1. i \in 1..Len(dispatched)
        BY <2>16, <3>1
      <4> QED BY <1>3, <2>16, <3>1, <4>1 DEF Growing
    <3>2. CASE j = Len(dispatched) + 1
      <4>1. i \in 1..Len(dispatched)
        BY <2>16, <3>2
      <4>2. dispatched[i][1][1] < s[1][1]
        BY <1>3, <2>17, <4>1 DEF Behind, n, s
      <4> QED BY <2>9, <2>16, <3>2, <4>1, <4>2
    <3> QED BY <2>16, <3>1, <3>2
  <2>20. \A i \in 1..(Len(dispatched) + 1), j \in 1..Len(t) : dispatched'[i][1][1] < t[j][1]
    <3> SUFFICES ASSUME NEW i \in 1..(Len(dispatched) + 1), NEW j \in 1..Len(t)
                 PROVE  dispatched'[i][1][1] < t[j][1]
      OBVIOUS
    <3>1. j + 2 \in 1..n /\ t[j] = s[j + 2]
      BY <2>11, <2>13
    <3>2. CASE i \in 1..Len(dispatched)
      BY <1>3, <2>16, <3>1, <3>2 DEF Behind, n, s
    <3>3. CASE i = Len(dispatched) + 1
      <4>1. 2 \in 1..n /\ 2 < j + 2 /\ s[2][2] = "end" /\ s[2][1] = s[1][1]
        BY <1>1, <2>3, <2>4, <2>11, <3>1
      <4>2. s[2][1] < s[j + 2][1]
        BY <1>3, <3>1, <4>1 DEF Lines, n, s
      <4> QED BY <2>9, <2>16, <3>1, <3>3, <4>1, <4>2
    <3> QED BY <2>16, <3>2, <3>3
  <2>21. Lines(Stream)' /\ Unfinished(Stream)' /\ Behind(Stream)'
    BY <2>14, <2>15, <2>16, <2>20 DEF Lines, Unfinished, Behind, t
  <2> QED BY <2>18, <2>19, <2>21 DEF Commands
<1> QED BY <1>4, <1>5 DEF Dispatch

(* A closed connection takes its unfinished line along. *)
LEMMA CloseCommands ==
  ASSUME TypeOK, Commands, Close, UNCHANGED <<asked, dispatched>>
  PROVE  Commands'
<1>1. incoming' = <<>> /\ inbound' = <<>> /\ writing' = FALSE
  BY DEF Close, Forgotten
<1>2. Stream' = <<>> /\ Len(Stream') = 0
  BY <1>1 DEF Stream
<1>3. Lines(Stream)' /\ Unfinished(Stream)' /\ Behind(Stream)'
  BY <1>1, <1>2 DEF Lines, Unfinished, Behind
<1> QED BY <1>3 DEF Commands, Told, Growing

LEMMA CommandsInit == Init => Commands
<1> SUFFICES ASSUME Init PROVE Commands
  OBVIOUS
<1>1. inbound = <<>> /\ incoming = <<>> /\ dispatched = <<>> /\ writing = FALSE
  BY DEF Init
<1>2. Stream = <<>> /\ Len(Stream) = 0 /\ Len(dispatched) = 0
  BY <1>1 DEF Stream
<1> QED BY <1>1, <1>2 DEF Commands, Lines, Unfinished, Behind, Told, Growing

LEMMA CommandsStep == TypeOK /\ TypeOK' /\ Commands /\ [Next]_vars => Commands'
<1> SUFFICES ASSUME TypeOK, TypeOK', Commands, [Next]_vars PROVE Commands'
  OBVIOUS
<1>1. CASE UNCHANGED inVars
  BY <1>1 DEF inVars, Commands, Stream, Lines, Unfinished, Behind, Told, Growing
<1>2. CASE IoStep
  BY <1>1, <1>2, RecvCommands, DispatchCommands, CloseCommands DEF IoStep
<1>3. CASE ServerWrites
  BY <1>3, WriteCommands
<1>4. UNCHANGED inVars \/ IoStep \/ ServerWrites
  BY DEF Next, vars, Start, Stop, StopNotify, Join, Destroy, Push, Notify, SendFails, RecvFails,
         ServerReads
<1> QED BY <1>1, <1>2, <1>3, <1>4

(* However reads cut the stream and wherever connections end, the message  *)
(* handler gets whole lines, each once and in order: what a connection     *)
(* left unfinished does not meet what the next one brings.                 *)
THEOREM CommandsAreWhole == Spec => []CommandsWhole
<1>1. Commands => CommandsWhole
  BY DEF Commands, Told, Growing, CommandsWhole
<1> QED BY TypeCorrect, CommandsInit, CommandsStep, <1>1, PTL DEF Spec

=============================================================================
