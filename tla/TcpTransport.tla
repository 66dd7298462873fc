---------------------------- MODULE TcpTransport ----------------------------
(***************************************************************************)
(* network/TcpNetworkTransport.cpp: the uplink to the site server.  Any    *)
(* thread send()s; one I/O thread connects, drains the send queue into the *)
(* socket, reads commands and reconnects; another thread stop()s it.       *)
(*                                                                         *)
(* Messages are the numbers 1, 2, ... in the order in which send() accepts *)
(* them.  A connection is two streams: wire carries whole messages to the  *)
(* server (of a message cut in the middle the server's line never ends),   *)
(* incoming carries the server's commands, each in two fragments, the      *)
(* second of which ends with the newline.  A connection may break at any   *)
(* call on the socket; the server may still get some of what is on the     *)
(* wire then, and it reads one connection to its end before the next.      *)
(*                                                                         *)
(* queueCv_.wait_for is split where stop() can get in between: the         *)
(* predicate is evaluated under mutex_ ("check"), found false ("drowsy",   *)
(* mutex_ still held), and only then does the thread sleep ("asleep").     *)
(* stop() changes running_ without mutex_; send() needs mutex_.            *)
(***************************************************************************)
EXTENDS DropOldest

CONSTANTS
    Senders,              \* threads that call send()
    SendQueueCapacity,    \* sendQueueCapacity
    WireSize,             \* messages the kernel buffers for a slow server
    MaxMessages,          \* bound: messages accepted
    MaxCommands           \* bound: commands the server sends

(* Capacity 0 is not refused by Config and makes pop_front undefined. *)
ASSUME TransportAssumption ==
    /\ SendQueueCapacity \in Nat \ {0}
    /\ WireSize \in Nat \ {0}
    /\ MaxMessages \in Nat
    /\ MaxCommands \in Nat

VARIABLES
    running,       \* running_
    state,         \* state_
    sendQueue,     \* sendQueue_
    sender,        \* where a send() is
    stopper,       \* where start() / stop() are
    io,            \* where the I/O thread is
    batch,         \* toSend: what serveConnection has not yet written
    inbound,       \* inbound: what it has read, up to the last newline
    wire,          \* written, not yet read by the server
    incoming,      \* written by the server, not yet read
    accepted,      \* history: messages send() returned true for
    received,      \* history: messages the server got
    evicted,       \* history: messages popped to make room
    discarded,     \* history: messages the transport still held at its end
    cut,           \* history: messages that went down with a connection
    writing,       \* the server is in the middle of a command's line
    asked,         \* history: commands sent by the server
    dispatched     \* history: lines handed to the message handler

queueVars == <<sendQueue, accepted, evicted, discarded>>
outVars == <<batch, wire, received, cut>>
inVars == <<inbound, incoming, writing, asked, dispatched>>
vars == <<running, state, sender, stopper, io, queueVars, outVars, inVars>>

Init ==
    /\ running = FALSE
    /\ state = "Disconnected"
    /\ sendQueue = <<>>
    /\ sender = [s \in Senders |-> "idle"]
    /\ stopper = "new"
    /\ io = "off"
    /\ batch = <<>> /\ inbound = <<>> /\ wire = <<>> /\ incoming = <<>>
    /\ accepted = 0
    /\ received = <<>>
    /\ evicted = {} /\ cut = {} /\ discarded = {}
    /\ writing = FALSE
    /\ asked = 0
    /\ dispatched = <<>>

(* The I/O thread sleeps, or has decided to with mutex_ in its hands. *)
Asleep == io \in {"send_asleep", "retry_asleep"}
HoldsMutex == io \in {"send_drowsy", "retry_drowsy"}

(* A notification sends a sleeping I/O thread back to its predicate. *)
Wakened == CASE io = "send_asleep" -> "send_check"
             [] io = "retry_asleep" -> "retry_check"
             [] OTHER -> io

-----------------------------------------------------------------------------
(* The callers: start(), send(), stop().                                   *)

(* start(): the socket subsystem may fail to initialize (Windows). *)
Start ==
    /\ stopper = "new"
    /\ stopper' = "started"
    /\ \/ running' = TRUE /\ io' = "top"
       \/ UNCHANGED <<running, io>>
    /\ UNCHANGED <<state, sender, queueVars, outVars, inVars>>

(* send(), its critical section; it refuses when the transport is not      *)
(* running, and then changes nothing.  When full, the oldest message goes. *)
Push(s) ==
    /\ sender[s] = "idle" /\ ~HoldsMutex
    /\ running
    /\ accepted < MaxMessages
    /\ accepted' = accepted + 1
    /\ evicted' = IF Full(sendQueue, SendQueueCapacity)
                    THEN evicted \cup {Head(sendQueue)} ELSE evicted
    /\ sendQueue' = PushDropOldest(sendQueue, accepted + 1, SendQueueCapacity)
    /\ sender' = [sender EXCEPT ![s] = "notify"]
    /\ UNCHANGED <<running, state, stopper, io, discarded, outVars, inVars>>

(* Deviant: send() does not notify. *)
Unnotified == io

(* What notify_one makes of the I/O thread, its only possible waiter. *)
Notified == Wakened

(* queueCv_.notify_one(), after the lock *)
Notify(s) ==
    /\ sender[s] = "notify"
    /\ sender' = [sender EXCEPT ![s] = "idle"]
    /\ io' = Notified
    /\ UNCHANGED <<running, state, stopper, queueVars, outVars, inVars>>

(* stop(): running_.exchange(false), without mutex_.  Of a transport that  *)
(* does not run there is nothing to stop. *)
Stop ==
    /\ stopper = "started"
    /\ stopper' = IF running THEN "notify" ELSE "stopped"
    /\ running' = FALSE
    /\ UNCHANGED <<state, sender, io, queueVars, outVars, inVars>>

(* queueCv_.notify_all() *)
StopNotify ==
    /\ stopper = "notify"
    /\ stopper' = "join"
    /\ io' = Wakened
    /\ UNCHANGED <<running, state, sender, queueVars, outVars, inVars>>

(* Deviant: stop() does not wait for the I/O thread. *)
IoForgotten == TRUE

IoJoined == io = "done"

(* ioThread_.join(), setState(Disconnected) *)
Join ==
    /\ stopper = "join" /\ IoJoined
    /\ stopper' = "stopped"
    /\ state' = "Disconnected"
    /\ UNCHANGED <<running, sender, io, queueVars, outVars, inVars>>

(* ~TcpNetworkTransport, at the end of runMultiCameraPipeline, when nobody *)
(* is left to send: its stop() finds nothing running, and the messages in  *)
(* sendQueue_ go with it. *)
Destroy ==
    /\ stopper = "stopped"
    /\ \A s \in Senders : sender[s] = "idle"
    /\ stopper' = "destroyed"
    /\ discarded' = Elements(sendQueue)
    /\ sendQueue' = <<>>
    /\ UNCHANGED <<running, state, sender, io, accepted, evicted, outVars, inVars>>

-----------------------------------------------------------------------------
(* The I/O thread: ioLoop and serveConnection.                             *)

IoGoto(here, there) == io = here /\ io' = there

(* Deviant: a loop that does not look at running_. *)
RunsOn == TRUE

(* while (running_.load()) *)
KeepsRunning == running

(* ioLoop's loop. *)
Top ==
    \/ KeepsRunning /\ IoGoto("top", "connect") /\ state' = "Connecting"
    \/ ~KeepsRunning /\ IoGoto("top", "done") /\ UNCHANGED state

(* connectToServer() *)
Connect ==
    \/ IoGoto("connect", "serve") /\ state' = "Connected"
    \/ IoGoto("connect", "retry_check") /\ state' = "Disconnected"

(* The wait before the next attempt, until stop() or the timeout ... *)
RetryWait ==
    \/ io = "retry_check" /\ io' = IF running THEN "retry_drowsy" ELSE "top"
    \/ IoGoto("retry_drowsy", "retry_asleep")
    \/ IoGoto("retry_asleep", "top")

(* ... and the wait for something to send.  Spurious wake-ups are left out *)
(* here: they only take the thread back to its predicate.                  *)
SendWait ==
    \/ io = "send_check" /\ sendQueue = <<>> /\ running /\ io' = "send_drowsy"
    \/ IoGoto("send_drowsy", "send_asleep")

(* serveConnection's loop. *)
ServeTest == io = "serve" /\ io' = IF KeepsRunning THEN "send_check" ELSE "close"

(* The wait is over, by its predicate or by the 200 ms timeout: the whole  *)
(* queue is moved into toSend. *)
Drain ==
    /\ \/ io = "send_check" /\ (sendQueue # <<>> \/ ~running)
       \/ io = "send_asleep"
    /\ io' = "sending"
    /\ batch' = sendQueue
    /\ sendQueue' = <<>>
    /\ UNCHANGED <<accepted, evicted, discarded>>

(* ::send takes as much as the kernel has room for, and blocks while there *)
(* is none ...                                                             *)
Send ==
    /\ io = "sending"
    /\ \/ /\ batch = <<>>
          /\ io' = "select"
          /\ UNCHANGED <<batch, wire>>
       \/ /\ \E n \in 1..Len(batch) :
               /\ Len(wire) + n <= WireSize
               /\ wire' = wire \o SubSeq(batch, 1, n)
               /\ batch' = SubSeq(batch, n + 1, Len(batch))
          /\ UNCHANGED io
    /\ UNCHANGED cut

(* ... or it fails, and toSend is gone with the stack frame. *)
SendFails ==
    /\ batch # <<>>
    /\ IoGoto("sending", "close")
    /\ cut' = cut \cup Elements(batch)
    /\ batch' = <<>>
    /\ UNCHANGED <<running, state, sender, stopper, queueVars, wire, received, inVars>>

(* Deviant: after a look at the socket comes another one. *)
Lingers == "select"

AfterSelect == "serve"

(* select: nothing to read for 50 ms; or recv returns some of what the     *)
(* server wrote ...                                                        *)
SelectAndRecv ==
    /\ io = "select"
    /\ \/ io' = AfterSelect /\ UNCHANGED <<inbound, incoming>>
       \/ \E n \in 1..Len(incoming) :
            /\ inbound' = inbound \o SubSeq(incoming, 1, n)
            /\ incoming' = SubSeq(incoming, n + 1, Len(incoming))
            /\ io' = "dispatch"

(* ... or there is an error, or the server has closed the connection. *)
RecvFails ==
    /\ IoGoto("select", "close")
    /\ UNCHANGED <<running, state, sender, stopper, queueVars, outVars, inVars>>

Newlines(buffer) == {i \in 1..Len(buffer) : buffer[i][2] = "end"}

(* One message at a time, up to the next newline. *)
Dispatch ==
    /\ io = "dispatch"
    /\ \/ /\ Newlines(inbound) = {}
          /\ io' = AfterSelect
          /\ UNCHANGED <<inbound, dispatched>>
       \/ /\ \E newline \in Newlines(inbound) :
               /\ \A i \in Newlines(inbound) : newline <= i
               /\ dispatched' = Append(dispatched, SubSeq(inbound, 1, newline))
               /\ inbound' = SubSeq(inbound, newline + 1, Len(inbound))
          /\ UNCHANGED io

(* Deviant: what was read on a connection outlives it. *)
Remembered(buffer) == buffer

(* A local variable of serveConnection. *)
Forgotten(buffer) == <<>>

(* serveConnection returns, closesocket: the kernel may still deliver some *)
(* of what was written.  A transport that still runs reports the loss and  *)
(* waits before it connects again.                                         *)
Close ==
    /\ io = "close"
    /\ \E n \in 0..Len(wire) :
         /\ wire' = SubSeq(wire, 1, n)
         /\ cut' = cut \cup Elements(SubSeq(wire, n + 1, Len(wire)))
    /\ incoming' = <<>> /\ writing' = FALSE
    /\ inbound' = Forgotten(inbound)
    /\ \/ running /\ io' = "retry_check" /\ state' = "Disconnected"
       \/ ~running /\ io' = "top" /\ UNCHANGED state

IoStep ==
    /\ \/ /\ Top \/ Connect
          /\ UNCHANGED <<queueVars, outVars, inVars>>
       \/ /\ RetryWait \/ SendWait \/ ServeTest
          /\ UNCHANGED <<state, queueVars, outVars, inVars>>
       \/ Drain /\ UNCHANGED <<state, wire, received, cut, inVars>>
       \/ Send /\ UNCHANGED <<state, queueVars, received, inVars>>
       \/ SelectAndRecv /\ UNCHANGED <<state, queueVars, outVars, writing, asked, dispatched>>
       \/ Dispatch /\ UNCHANGED <<state, queueVars, outVars, incoming, writing, asked>>
       \/ Close /\ UNCHANGED <<queueVars, batch, received, asked, dispatched>>
    /\ UNCHANGED <<running, sender, stopper>>

-----------------------------------------------------------------------------
(* The site server, and the network.                                       *)

Linked == io \in {"serve", "send_check", "send_drowsy", "send_asleep", "sending",
                  "select", "dispatch", "close"}

ServerReads ==
    /\ wire # <<>>
    /\ received' = Append(received, Head(wire))
    /\ wire' = Tail(wire)
    /\ UNCHANGED <<running, state, sender, stopper, io, queueVars, batch, cut, inVars>>

(* A command is written in two pieces, or its connection ends in between. *)
ServerWrites ==
    /\ Linked
    /\ writing' = ~writing
    /\ asked' = IF writing THEN asked ELSE asked + 1
    /\ asked' <= MaxCommands
    /\ incoming' = Append(incoming, <<asked', IF writing THEN "end" ELSE "begin">>)
    /\ UNCHANGED <<running, state, sender, stopper, io, queueVars, outVars, inbound,
                   dispatched>>

Next ==
    \/ Start \/ Stop \/ StopNotify \/ Join \/ Destroy
    \/ \E s \in Senders : Push(s) \/ Notify(s)
    \/ IoStep \/ SendFails \/ RecvFails
    \/ ServerReads \/ ServerWrites

(* Threads inside an operation keep running, and the I/O thread's timeouts *)
(* fire; a ::send that blocks waits for the server or the network, on      *)
(* which nothing is assumed, and a connection need never fail.  Whether    *)
(* anybody sends or stops is up to them.                                   *)
Fairness ==
    /\ WF_vars(IoStep) /\ WF_vars(StopNotify) /\ WF_vars(Join)
    /\ \A s \in Senders : WF_vars(Notify(s))

Spec == Init /\ [][Next]_vars

FairSpec == Spec /\ Fairness

(* ... and a server that reads what it is sent. *)
ServedSpec == FairSpec /\ WF_vars(ServerReads)

-----------------------------------------------------------------------------
(* Properties.                                                             *)

IoStates == {"off", "top", "connect", "retry_check", "retry_drowsy", "retry_asleep",
             "serve", "send_check", "send_drowsy", "send_asleep", "sending",
             "select", "dispatch", "close", "done"}
Fragments == (Nat \ {0}) \X {"begin", "end"}

(* The type of every variable, with the capacities of both buffers. *)
TypeOK ==
    /\ running \in BOOLEAN
    /\ state \in {"Disconnected", "Connecting", "Connected"}
    /\ sendQueue \in Seq(Nat) /\ Len(sendQueue) <= SendQueueCapacity
    /\ sender \in [Senders -> {"idle", "notify"}]
    /\ stopper \in {"new", "started", "notify", "join", "stopped", "destroyed"}
    /\ io \in IoStates
    /\ batch \in Seq(Nat)
    /\ wire \in Seq(Nat) /\ Len(wire) <= WireSize
    /\ inbound \in Seq(Fragments) /\ incoming \in Seq(Fragments)
    /\ writing \in BOOLEAN
    /\ accepted \in Nat /\ asked \in Nat
    /\ received \in Seq(Nat)
    /\ evicted \subseteq Nat /\ cut \subseteq Nat /\ discarded \subseteq Nat
    /\ dispatched \in Seq(Seq(Fragments))

Flight == wire \o batch \o sendQueue

(* Plate reports are ordered (INetworkTransport.h:22): from the server     *)
(* back through the socket and the batch being written to the queue,       *)
(* messages are in the order in which send() accepted them, none twice,    *)
(* however often the connection broke in between.                          *)
InOrder ==
    LET all == received \o Flight
    IN  \A i, j \in 1..Len(all) : i < j => all[i] < all[j]

(* What send() returned true for has arrived, is on its way, or was lost   *)
(* in one of three ways: evicted, when at least SendQueueCapacity newer    *)
(* messages had been accepted; with a connection; or with the transport,   *)
(* whose shutdown does not wait for the queue - these are the newest       *)
(* messages.  Nothing is lost twice, and nothing lost turns up again.      *)
NothingElseLost ==
    LET kept == Elements(received \o Flight)
    IN  /\ kept \cup evicted \cup cut \cup discarded = 1..accepted
        /\ kept \cap (evicted \cup cut \cup discarded) = {}
        /\ evicted \cap cut = {} /\ (evicted \cup cut) \cap discarded = {}
        /\ \A m \in evicted : m + SendQueueCapacity <= accepted
        /\ \A m \in discarded : m..accepted \subseteq discarded
                              /\ accepted < m + SendQueueCapacity
        /\ stopper = "destroyed" => batch \o sendQueue = <<>>

(* The server's commands reach the message handler whole and in order: no  *)
(* line is put together from two connections, or handed over twice.        *)
CommandsWhole ==
    /\ \A i \in 1..Len(dispatched) : \E n \in 1..asked :
         dispatched[i] = <<<<n, "begin">>, <<n, "end">>>>
    /\ \A i, j \in 1..Len(dispatched) :
         i < j => dispatched[i][1][1] < dispatched[j][1][1]

(* send() never leaves the I/O thread asleep on a filled queue: its        *)
(* notification is still on its way.                                       *)
SendsAreNoticed ==
    io = "send_asleep" /\ sendQueue # <<>> => \E s \in Senders : sender[s] = "notify"

Stopped == stopper \in {"stopped", "destroyed"}

(* Once stop() has returned no handler is called and the link is down: the *)
(* handler set by runMultiCameraPipeline refers to its local state.        *)
QuietAfterStop ==
    [][Stopped =>
         /\ state = "Disconnected"
         /\ UNCHANGED <<dispatched, state>>]_<<dispatched, state>>

(* The uplink as LossyChannel promises it. *)
Channel == INSTANCE LossyChannel
             WITH outstanding <- Elements(Flight), delivered <- received

KeepsOrder == Channel!Spec

(* stop() returns. *)
StopReturns == stopper = "notify" ~> stopper = "stopped"

(* While the link holds, what is in the queue gets to the server, or is    *)
(* evicted while the I/O thread is busy.                                   *)
QueueFlushed ==
    \A m \in 1..MaxMessages :
      (m \in Elements(sendQueue) /\ Linked)
        ~> (m \in Elements(received) \cup evicted \/ ~Linked)

-----------------------------------------------------------------------------
(* What the documentation says and the code does not do.                   *)

(* INetworkTransport.h:59-60: "Implementations queue messages while        *)
(* disconnected (bounded) and flush them after reconnect": what was never  *)
(* written is not given up with the connection.                            *)
UnwrittenSurvives ==
    [][io = "sending" /\ io' = "close" => Elements(batch) \subseteq Elements(Flight)']_vars

(* TcpNetworkTransport.cpp:233: "Interruptible sleep so stop() is          *)
(* responsive.": stop() has notified, and the thread it joins is not       *)
(* asleep.                                                                 *)
SleepIsInterrupted == stopper = "join" => io # "retry_asleep"
=============================================================================
