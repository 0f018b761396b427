----------------------------- MODULE Connection -----------------------------
(***************************************************************************)
(* One connection of a client: src/server/network/connection/connection.cpp*)
(* with the parts of protocol.cpp, outputmessage.cpp and server.cpp that   *)
(* drive it.                                                               *)
(*                                                                         *)
(* The network thread runs asio's handlers one at a time: reads, writes,   *)
(* posted work and timers.  The dispatcher thread sends, closes and parses *)
(* packets.  connectionLock makes a handler atomic, except that            *)
(* onSendMessage runs without it and that resumeWork never takes it.       *)
(* Every read is into the one buffer msg, from which the dispatcher parses *)
(* a packet.                                                               *)
(***************************************************************************)
EXTENDS Integers, Sequences

CONSTANTS
  ServerSendsFirst,   \* is_single_socket() of the service, for each connection
  MaxMessages,        \* bounds of the model: messages that enter the queue, and
  MaxPackets          \* packets the client sends

ASSUME ConnectionAssumption ==
  /\ ServerSendsFirst \subseteq BOOLEAN
  /\ {MaxMessages, MaxPackets} \subseteq Nat

VARIABLES
  connectionState,
  socketOpen,    \* socket.is_open()
  hasProtocol,   \* protocol # nullptr
  receivedFirst,
  messageQueue,  \* messages, numbered in the order they enter it
  posted,        \* internalWorker handlers posted to the network thread
  sealing,       \* the network thread is in onSendMessage, without the lock
  writing,       \* async_writes whose handler has not been called
  reader,        \* what the async_read in progress waits for
  tail,          \* the network thread is in parsePacket, after handing a packet on
  event,         \* the dispatcher event that parses the packet in msg
  readTimer, writeTimer,   \* a wait is armed
  outputBuffer,  \* TRUE: messages are collected for the autosend
  releaseEvent,  \* the event of Protocol::release
  peer,          \* the client reads, has stopped reading, or is gone
  queued,        \* messages that have entered the queue
  received,      \* packets that have been read
  sealed, wire,  \* history: the messages onSendMessage saw, and those written
  softClosed     \* history: closed, not forced, while messages were queued

handlerVars == <<posted, sealing, writing, reader, tail>>
historyVars == <<queued, received, sealed, wire>>
connVars == <<connectionState, socketOpen, hasProtocol, receivedFirst, messageQueue,
              handlerVars, event, readTimer, writeTimer, outputBuffer, releaseEvent,
              peer, historyVars, softClosed>>

\* ServicePort::onAccept: accept() for a protocol that sends first, whose client
\* may announce a proxy; acceptInternal() when the first packet decides.
ConnectionInit ==
  /\ hasProtocol \in ServerSendsFirst
  /\ connectionState = IF hasProtocol THEN "identifying" ELSE "open"
  /\ reader = IF hasProtocol THEN "ident" ELSE "header"
  /\ socketOpen = TRUE
  /\ receivedFirst = FALSE
  /\ messageQueue = <<>> /\ posted = 0 /\ sealing = FALSE /\ writing = 0
  /\ tail = FALSE /\ event = "none"
  /\ readTimer = TRUE /\ writeTimer = FALSE
  /\ outputBuffer = FALSE
  /\ releaseEvent = "none"
  /\ peer = "reads"
  /\ queued = 0 /\ received = 0 /\ sealed = <<>> /\ wire = <<>>
  /\ softClosed = FALSE

-----------------------------------------------------------------------------
Closed == connectionState = "closed"

\* The network thread is between two handlers.
NetworkThreadFree == ~sealing /\ ~tail

\* parsePacket keeps connectionLock after it has handed the packet on.
LockFree == ~tail

\* close(force), in a handler that leaves the queue and the timers r and w.  A
\* second close does nothing, also when it is forced and the first was not.
Close(force, queue, r, w) ==
  /\ connectionState' = "closed"
  /\ releaseEvent' = IF hasProtocol' /\ ~Closed THEN "posted" ELSE releaseEvent
  /\ softClosed' = (softClosed \/ (~Closed /\ ~force /\ queue # <<>>))
  /\ IF ~Closed /\ socketOpen /\ (queue = <<>> \/ force)
     THEN socketOpen' = FALSE /\ readTimer' = FALSE /\ writeTimer' = FALSE
     ELSE socketOpen' = socketOpen /\ readTimer' = r /\ writeTimer' = w

NotClosing == UNCHANGED <<connectionState, socketOpen, releaseEvent, softClosed>>

-----------------------------------------------------------------------------
(***************************************************************************)
(* The dispatcher thread.                                                  *)
(***************************************************************************)

EnqueueAlwaysPosting ==   \* mutant
  IF Closed THEN UNCHANGED <<messageQueue, queued, posted>>
  ELSE /\ queued < MaxMessages
       /\ queued' = queued + 1
       /\ messageQueue' = Append(messageQueue, queued')
       /\ posted' = posted + 1

\* Connection::send.
Enqueue ==
  IF Closed THEN UNCHANGED <<messageQueue, queued, posted>>
  ELSE /\ queued < MaxMessages
       /\ queued' = queued + 1
       /\ messageQueue' = Append(messageQueue, queued')
       /\ posted' = IF messageQueue = <<>> THEN posted + 1 ELSE posted

\* A message of its own: onConnect's challenge, the answer of the waiting list.
Send ==
  /\ LockFree /\ hasProtocol
  /\ Enqueue
  /\ NotClosing
  /\ UNCHANGED <<hasProtocol, receivedFirst, sealing, writing, reader, tail, event,
                 readTimer, writeTimer, outputBuffer, peer, received, sealed, wire>>

\* writeToOutputBuffer, while it fits.
WriteToOutputBuffer ==
  /\ hasProtocol /\ ~outputBuffer
  /\ outputBuffer' = TRUE
  /\ NotClosing
  /\ UNCHANGED <<hasProtocol, receivedFirst, messageQueue, handlerVars, event, readTimer,
                 writeTimer, peer, historyVars>>

\* OutputMessagePool::sendAll, for a protocol that release() has not removed, or
\* getOutputBuffer when the buffer is full: the buffer is sent as one message.
SendAll ==
  /\ LockFree
  /\ outputBuffer /\ releaseEvent # "done"
  /\ outputBuffer' = FALSE
  /\ Enqueue
  /\ NotClosing
  /\ UNCHANGED <<hasProtocol, receivedFirst, sealing, writing, reader, tail, event,
                 readTimer, writeTimer, peer, received, sealed, wire>>

\* Protocol::disconnect.
Disconnect ==
  /\ hasProtocol' = hasProtocol
  /\ LockFree /\ hasProtocol
  /\ Close(FALSE, messageQueue, readTimer, writeTimer)
  /\ UNCHANGED <<receivedFirst, messageQueue, handlerVars, event,
                 outputBuffer, peer, historyVars>>

\* The event of sendRecvMessageCallback, and resumeWork at its end: a timer and
\* a read, without the lock.
ParseEvent ==
  /\ event = "posted"
  /\ event' = "parsing"
  /\ NotClosing
  /\ UNCHANGED <<hasProtocol, receivedFirst, messageQueue, handlerVars, readTimer,
                 writeTimer, outputBuffer, peer, historyVars>>

ResumeWork ==
  /\ event = "parsing"
  /\ event' = "none"
  /\ reader' = "header"
  /\ readTimer' = TRUE
  /\ NotClosing
  /\ UNCHANGED <<hasProtocol, receivedFirst, messageQueue, posted, sealing, writing, tail,
                 writeTimer, outputBuffer, peer, historyVars>>

\* The event of Protocol::release runs, or the dispatcher drops it because it
\* has waited longer than CONNECTION_WRITE_TIMEOUT.
ReleaseEvent ==
  /\ releaseEvent = "posted"
  /\ releaseEvent' \in {"done", "expired"}
  /\ UNCHANGED <<connectionState, socketOpen, hasProtocol, receivedFirst, messageQueue,
                 handlerVars, event, readTimer, writeTimer, outputBuffer, peer,
                 historyVars, softClosed>>

-----------------------------------------------------------------------------
(***************************************************************************)
(* The network thread: reading.                                            *)
(***************************************************************************)

\* A read handler gives up: nothing is read any more.
GiveUp(force) ==
  /\ reader' = "none"
  /\ Close(force, messageQueue, FALSE, writeTimer)

\* An async_read ends with an error.
ReadFails ==
  /\ hasProtocol' = hasProtocol
  /\ NetworkThreadFree
  /\ reader # "none"
  /\ ~socketOpen \/ peer = "gone"
  /\ GiveUp(TRUE)
  /\ UNCHANGED <<receivedFirst, messageQueue, posted, sealing, writing, tail, event,
                 outputBuffer, peer, historyVars>>

\* Bytes arrive for a connection that has been closed.
ReadClosed ==
  /\ hasProtocol' = hasProtocol
  /\ NetworkThreadFree
  /\ reader # "none"
  /\ socketOpen /\ peer # "gone" /\ Closed
  /\ GiveUp(TRUE)
  /\ UNCHANGED <<receivedFirst, messageQueue, posted, sealing, writing, tail, event,
                 outputBuffer, peer, historyVars>>

\* A read handler gets its bytes and the next read waits for r.
ReadOn(r) ==
  /\ reader' = r
  /\ readTimer' = TRUE
  /\ UNCHANGED <<socketOpen, releaseEvent, softClosed, writeTimer>>

BytesArrive(r) ==
  /\ NetworkThreadFree
  /\ reader = r
  /\ socketOpen /\ peer # "gone" /\ ~Closed

\* parseProxyIdentification: no proxy, and the bytes are a packet's header; the
\* first or the last part of the proxy's name; another name; or a header that
\* parseHeader rejects.
ReadIdentification ==
  /\ hasProtocol' = hasProtocol
  /\ BytesArrive("ident")
  /\ \/ connectionState = "identifying" /\ connectionState' = "open" /\ ReadOn("packet")
     \/ connectionState = "identifying" /\ connectionState' = "readings" /\ ReadOn("ident")
     \/ connectionState = "readings" /\ connectionState' = "open" /\ ReadOn("header")
     \/ connectionState = "readings" /\ GiveUp(TRUE)
     \/ connectionState = "identifying" /\ \E force \in BOOLEAN : GiveUp(force)
  /\ UNCHANGED <<receivedFirst, messageQueue, posted, sealing, writing, tail,
                 event, outputBuffer, peer, historyVars>>

\* parseHeader: too many packets (a close that is not forced), a bad length, or
\* the body comes next.
ReadHeader ==
  /\ hasProtocol' = hasProtocol
  /\ BytesArrive("header")
  /\ \/ ReadOn("packet") /\ UNCHANGED connectionState
     \/ \E force \in BOOLEAN : GiveUp(force)
  /\ UNCHANGED <<receivedFirst, messageQueue, posted, sealing, writing, tail,
                 event, outputBuffer, peer, historyVars>>

\* parsePacket, the first packet: without a service for it the connection is
\* closed; onRecvFirstMessage may disconnect, and the next read starts anyway.
ReadFirstPacket ==
  /\ BytesArrive("packet")
  /\ received < MaxPackets /\ received' = received + 1
  /\ ~receivedFirst /\ receivedFirst' = TRUE
  /\ \/ ~hasProtocol /\ UNCHANGED hasProtocol /\ GiveUp(TRUE)
     \/ hasProtocol' = TRUE /\ ReadOn("header") /\ UNCHANGED connectionState
     \/ hasProtocol' = TRUE /\ Close(FALSE, messageQueue, TRUE, writeTimer)
        /\ reader' = "header"
  /\ UNCHANGED <<messageQueue, posted, sealing, writing, tail, event, outputBuffer, peer,
                 queued, sealed, wire>>

\* onRecvMessage hands the packet to the dispatcher; the rest of parsePacket
\* (ParsePacketEnd) starts no read.
HandOver ==
  /\ event' = "posted" /\ tail' = TRUE
  /\ reader' = "none" /\ readTimer' = FALSE
  /\ UNCHANGED <<socketOpen, releaseEvent, softClosed, writeTimer>>

\* parsePacket, a later packet: a ping, a wrong checksum and a packet that does
\* not decrypt are skipped.
ReadPacket ==
  /\ BytesArrive("packet")
  /\ received < MaxPackets /\ received' = received + 1
  /\ receivedFirst
  /\ \/ HandOver
     \/ ReadOn("header") /\ UNCHANGED <<event, tail>>
  /\ UNCHANGED <<connectionState, hasProtocol, receivedFirst, messageQueue, posted, sealing,
                 writing, outputBuffer, peer, queued, sealed, wire>>

\* The timer that parsePacket arms last, before or after resumeWork's.
ParsePacketEnd ==
  /\ tail
  /\ tail' = FALSE
  /\ readTimer' = TRUE
  /\ NotClosing
  /\ UNCHANGED <<hasProtocol, receivedFirst, messageQueue, posted, sealing, writing,
                 reader, event, writeTimer, outputBuffer, peer, historyVars>>

-----------------------------------------------------------------------------
(***************************************************************************)
(* The network thread: writing.                                            *)
(***************************************************************************)

\* internalWorker up to onSendMessage, which gets the front of the queue.  Its
\* branch for an empty queue is never taken (WrittenInOrder).
InternalWorker ==
  /\ NetworkThreadFree
  /\ posted > 0 /\ posted' = posted - 1
  /\ messageQueue # <<>>
  /\ sealing' = TRUE
  /\ sealed' = Append(sealed, Head(messageQueue))
  /\ NotClosing
  /\ UNCHANGED <<hasProtocol, receivedFirst, messageQueue, writing, reader, tail, event,
                 readTimer, writeTimer, outputBuffer, peer, queued, received, wire>>

\* internalSend, with the lock again.
InternalSend ==
  /\ sealing
  /\ sealing' = FALSE
  /\ writing' = writing + 1
  /\ writeTimer' = TRUE
  /\ NotClosing
  /\ UNCHANGED <<hasProtocol, receivedFirst, messageQueue, posted, reader, tail, event,
                 readTimer, outputBuffer, peer, historyVars>>

OnWriteOperationLeavingSocket ==   \* mutant
  /\ NetworkThreadFree
  /\ writing > 0 /\ writing' = writing - 1
  /\ socketOpen /\ peer = "reads"
  /\ wire' = Append(wire, sealed[Len(wire) + 1])
  /\ messageQueue' = Tail(messageQueue)
  /\ writeTimer' = FALSE
  /\ \/ /\ messageQueue' # <<>>
        /\ sealing' = TRUE
        /\ sealed' = Append(sealed, Head(messageQueue'))
     \/ messageQueue' = <<>> /\ UNCHANGED <<sealing, sealed>>
  /\ UNCHANGED <<connectionState, socketOpen, readTimer, releaseEvent, softClosed,
                 hasProtocol, receivedFirst, posted, reader, tail, event, outputBuffer,
                 peer, queued, received>>

\* onWriteOperation of a write that succeeded: the next message, or the socket
\* is closed if the connection is.
OnWriteOperation ==
  /\ NetworkThreadFree
  /\ writing > 0 /\ writing' = writing - 1
  /\ socketOpen /\ peer = "reads"
  /\ wire' = Append(wire, sealed[Len(wire) + 1])
  /\ messageQueue' = Tail(messageQueue)
  /\ writeTimer' = FALSE
  /\ \/ /\ messageQueue' # <<>>
        /\ sealing' = TRUE
        /\ sealed' = Append(sealed, Head(messageQueue'))
        /\ UNCHANGED <<socketOpen, readTimer>>
     \/ /\ messageQueue' = <<>>
        /\ socketOpen' = ~Closed
        /\ readTimer' = (readTimer /\ ~Closed)
        /\ UNCHANGED <<sealing, sealed>>
  /\ UNCHANGED <<connectionState, releaseEvent, softClosed, hasProtocol, receivedFirst,
                 posted, reader, tail, event, outputBuffer, peer, queued, received>>

\* onWriteOperation of a write that failed.
OnWriteError ==
  /\ hasProtocol' = hasProtocol
  /\ NetworkThreadFree
  /\ writing > 0 /\ writing' = writing - 1
  /\ ~socketOpen \/ peer = "gone"
  /\ messageQueue' = <<>>
  /\ Close(TRUE, <<>>, readTimer, FALSE)
  /\ UNCHANGED <<receivedFirst, posted, sealing, reader, tail, event,
                 outputBuffer, peer, historyVars>>

\* handleTimeout.
ReadTimeout ==
  /\ hasProtocol' = hasProtocol
  /\ NetworkThreadFree /\ readTimer
  /\ Close(TRUE, messageQueue, FALSE, writeTimer)
  /\ UNCHANGED <<receivedFirst, messageQueue, handlerVars, event,
                 outputBuffer, peer, historyVars>>

WriteTimeout ==
  /\ hasProtocol' = hasProtocol
  /\ NetworkThreadFree /\ writeTimer
  /\ Close(TRUE, messageQueue, readTimer, FALSE)
  /\ UNCHANGED <<receivedFirst, messageQueue, handlerVars, event,
                 outputBuffer, peer, historyVars>>

\* The last handler that owned the closed connection is gone, and the destructor
\* of its socket closes it.
Destroy ==
  /\ Closed /\ socketOpen
  /\ NetworkThreadFree /\ posted = 0 /\ writing = 0 /\ reader = "none"
  /\ event # "parsing"
  /\ socketOpen' = FALSE /\ readTimer' = FALSE /\ writeTimer' = FALSE
  /\ UNCHANGED <<connectionState, releaseEvent, softClosed, hasProtocol, receivedFirst,
                 messageQueue, handlerVars, event, outputBuffer, peer, historyVars>>

\* The client stops reading, or its end of the connection goes away.
PeerChanges ==
  /\ peer # "gone"
  /\ peer' \in {"stalled", "gone"} \ {peer}
  /\ NotClosing
  /\ UNCHANGED <<hasProtocol, receivedFirst, messageQueue, handlerVars, event, readTimer,
                 writeTimer, outputBuffer, historyVars>>

-----------------------------------------------------------------------------
NetworkThread ==
  \/ ReadFails \/ ReadClosed \/ ReadIdentification \/ ReadHeader \/ ReadFirstPacket
  \/ ReadPacket \/ ParsePacketEnd \/ InternalWorker \/ InternalSend \/ OnWriteOperation \/ OnWriteError
  \/ ReadTimeout \/ WriteTimeout \/ Destroy

DispatcherThread ==
  \/ Send \/ WriteToOutputBuffer \/ SendAll \/ Disconnect \/ ParseEvent \/ ResumeWork
  \/ ReleaseEvent

ConnectionNext == NetworkThread \/ DispatcherThread \/ PeerChanges

\* asio calls every handler whose operation has ended, and the write timer's when
\* its time has passed; the dispatcher ends the packet it parses.
ConnectionFairness ==
  /\ WF_connVars(ReadFails) /\ WF_connVars(ParsePacketEnd)
  /\ WF_connVars(InternalWorker) /\ WF_connVars(InternalSend)
  /\ WF_connVars(OnWriteOperation) /\ WF_connVars(OnWriteError)
  /\ WF_connVars(WriteTimeout) /\ WF_connVars(Destroy)
  /\ WF_connVars(ResumeWork)

ConnectionSpec == ConnectionInit /\ [][ConnectionNext]_connVars /\ ConnectionFairness

-----------------------------------------------------------------------------
(***************************************************************************)
(* Properties.                                                             *)
(***************************************************************************)

\* The parts of the connection keep their types; at most one handler or write
\* works on the queue, so the reference to its front that internalWorker keeps
\* while it does not hold the lock stays valid.
ConnTypeOK ==
  /\ connectionState \in {"identifying", "readings", "open", "closed"}
  /\ {socketOpen, hasProtocol, receivedFirst, sealing, tail, readTimer, writeTimer,
      outputBuffer, softClosed} \subseteq BOOLEAN
  /\ posted + writing + (IF sealing THEN 1 ELSE 0) \in 0..1
  /\ reader \in {"none", "ident", "header", "packet"}
  /\ event \in {"none", "posted", "parsing"}
  /\ releaseEvent \in {"none", "posted", "done", "expired"}
  /\ peer \in {"reads", "stalled", "gone"}

\* Every message is encrypted and numbered once, in the order of the queue, and
\* written in the order of its number; a worker always finds its message.
WrittenInOrder ==
  /\ \A i \in DOMAIN sealed : sealed[i] = i
  /\ \A i \in DOMAIN wire : wire[i] = i
  /\ Len(wire) <= Len(sealed)
  /\ posted > 0 => messageQueue # <<>>

\* No read fills msg while the dispatcher has still to parse the packet in it.
MsgIsOwned == event # "none" => reader = "none"

\* A connection that is not closed is watched: its read timer is armed whenever
\* the network thread is between handlers, also while the dispatcher has the
\* packet, and the write timer as long as a write is in progress.
OpenIsWatched ==
  ~Closed /\ ~tail => readTimer /\ (writing > 0 => writeTimer)

\* Protocol::release is owed exactly when a connection with a protocol has been
\* closed, whichever handler closed it.
ReleaseIsOwed ==
  releaseEvent # "none" <=> (Closed /\ hasProtocol)

\* A write ends: the client reads, is gone, or the write timer closes the socket.
\* A connection that was closed with messages left is the exception, since the
\* timer's forced close finds it closed already.
WritesEnd == (writing > 0) ~> (writing = 0 \/ softClosed)

\* The socket of a closed connection is closed once its last message is out,
\* unless the client has stopped reading.
ClosedSocketCloses == Closed ~> (~socketOpen \/ peer = "stalled")

\* What the two threads share is used by one of them at a time: the queue, the
\* buffer, the timers and the release of the protocol.
ConnectionIsSafe ==
  /\ ConnTypeOK /\ WrittenInOrder /\ MsgIsOwned
  /\ OpenIsWatched /\ ReleaseIsOwed

\* Nothing of a connection stays for ever: a write ends, and a closed one closes
\* its socket.
ConnectionEnds == WritesEnd /\ ClosedSocketCloses
=============================================================================
