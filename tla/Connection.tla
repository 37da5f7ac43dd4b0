----------------------------- MODULE Connection -----------------------------
(***************************************************************************)
(* One game connection (Src/connection.cpp), its protocol (protocol.cpp)   *)
(* and the pool of output messages (outputmessage.cpp), from the first     *)
(* byte to the deletion of the socket.  Two threads work on them: the      *)
(* service thread runs the handlers of the socket and of the two timers,   *)
(* one after the other, and the dispatcher thread runs the game, sends     *)
(* what it has written and closes the connection.  m_connectionLock is     *)
(* held for the length of a handler, so a handler is one step.             *)
(*                                                                         *)
(* A message is "auto" in m_autoSend and "waiting" in m_addQueue; "writing"*)
(* until onWrite has let it go, and "released" until the dispatcher has    *)
(* put it back into the pool.  A message in use holds one reference of the *)
(* protocol and one of the connection, so the reference counts are the     *)
(* number of messages in use.                                              *)
(***************************************************************************)
EXTENDS Integers, Sequences

CONSTANTS Msg, None

ASSUME ConnectionAssumption == None \notin Msg

VARIABLES
  connState,     \* m_connectionState
  socket,        \* m_socket
  readError, writeError, pendingRead, pendingWrite,
  reading,       \* the read the socket is busy with
  writing,       \* and the message it writes
  readTimer, writeTimer,
  service,       \* handlers ready to run on the service thread, in order
  protocol,      \* m_protocol: attached, waiting for its messages, or gone
  msg,           \* where each message is
  outputBuffer,  \* the protocol's m_outputBuffer
  closeTasks,    \* calls of closeConnection queued in the dispatcher
  releasing,     \* whether releaseConnection is scheduled to try again
  limited        \* history: the packet limit was exceeded

vars == <<connState, socket, readError, writeError, pendingRead, pendingWrite,
          reading, writing, readTimer, writeTimer, service, protocol, msg,
          outputBuffer, closeTasks, releasing, limited>>

InUse == {m \in Msg : msg[m] # "free"}
Put(m, where) == [msg EXCEPT ![m] = where]
Handler(kind, ok) == [on |-> kind, ok |-> ok, msg |-> None]
Wrote(m, ok) == [on |-> "write", ok |-> ok, msg |-> m]

\* Connection::handle: the protocol has sent its greeting and the first
\* header is being read.
Init ==
  /\ connState = "OPEN" /\ socket = "open"
  /\ readError = FALSE /\ writeError = FALSE
  /\ pendingRead = 1 /\ pendingWrite = 1
  /\ reading = "header" /\ writing \in Msg
  /\ readTimer = TRUE /\ writeTimer = TRUE
  /\ service = <<>>
  /\ protocol = "attached"
  /\ msg = [m \in Msg |-> IF m = writing THEN "writing" ELSE "free"]
  /\ outputBuffer = None
  /\ closeTasks = 0 /\ releasing = FALSE /\ limited = FALSE

-----------------------------------------------------------------------------
(* The parts of handlers.                                                  *)

\* Connection::close, on any thread.
CloseAgain ==
  IF connState = "REQUEST_CLOSE"
  THEN UNCHANGED <<connState, closeTasks>>
  ELSE connState' = "REQUEST_CLOSE" /\ closeTasks' = closeTasks + 1

Close ==
  IF connState \in {"CLOSED", "REQUEST_CLOSE"}
  THEN UNCHANGED <<connState, closeTasks>>
  ELSE connState' = "REQUEST_CLOSE" /\ closeTasks' = closeTasks + 1

\* closeSocket: what the socket was busy with ends with an error.  The
\* handlers in pre are ready already, those in post become so afterwards.
CloseSocket(pre, post) ==
  /\ service' = pre
       \o (IF reading = "none" THEN <<>> ELSE <<Handler(reading, FALSE)>>)
       \o (IF writing = None THEN <<>> ELSE <<Wrote(writing, FALSE)>>)
       \o post
  /\ reading' = "none" /\ writing' = None
  /\ IF socket = "open"
     THEN socket' = "closed" /\ pendingRead' = 0 /\ pendingWrite' = 0
     ELSE UNCHANGED <<socket, pendingRead, pendingWrite>>

\* Connection::send: what becomes of a message.
SentAtOnce(m) ==
  IF connState # "OPEN" \/ writeError THEN "released" ELSE "writing"

Sent(m) ==
  IF connState # "OPEN" \/ writeError THEN "released"
  ELSE IF pendingWrite = 0 THEN "writing" ELSE "waiting"

\* internalSend, of a message of status s.
StartWrite(m, s) ==
  IF s = "writing"
  THEN /\ writing' = m /\ writeTimer' = TRUE
       /\ pendingWrite' = pendingWrite + 1
  ELSE UNCHANGED <<writing, writeTimer, pendingWrite>>

\* OutputMessagePool::send of a message made for the occasion.
SendSingle(m) ==
  /\ msg[m] = "free" /\ protocol = "attached"
  /\ msg' = Put(m, Sent(m))
  /\ StartWrite(m, Sent(m))

-----------------------------------------------------------------------------
(* The socket and the timers hand their handlers to the service thread.    *)

ReadEnds ==
  /\ reading # "none"
  /\ \E ok \in BOOLEAN : service' = Append(service, Handler(reading, ok))
  /\ reading' = "none"
  /\ UNCHANGED <<connState, socket, readError, writeError, pendingRead,
                 pendingWrite, writing, readTimer, writeTimer, protocol, msg,
                 outputBuffer, closeTasks, releasing, limited>>

WriteEnds ==
  /\ writing # None
  /\ \E ok \in BOOLEAN : service' = Append(service, Wrote(writing, ok))
  /\ writing' = None
  /\ UNCHANGED <<connState, socket, readError, writeError, pendingRead,
                 pendingWrite, reading, readTimer, writeTimer, protocol, msg,
                 outputBuffer, closeTasks, releasing, limited>>

TimersExpire ==
  /\ \/ /\ readTimer /\ readTimer' = FALSE /\ UNCHANGED writeTimer
        /\ service' = Append(service, Handler("readTimeout", TRUE))
     \/ /\ writeTimer /\ writeTimer' = FALSE /\ UNCHANGED readTimer
        /\ service' = Append(service, Handler("writeTimeout", TRUE))
  /\ UNCHANGED <<connState, socket, readError, writeError, pendingRead,
                 pendingWrite, reading, writing, protocol, msg, outputBuffer,
                 closeTasks, releasing, limited>>

-----------------------------------------------------------------------------
(* The service thread.                                                     *)

Runs(kind) == service # <<>> /\ Head(service).on = kind
Ok == Head(service).ok

\* Both read handlers: an error, or a connection that is closing, ends here.
ReadFails(kind) ==
  /\ Runs(kind)
  /\ ~Ok \/ connState # "OPEN" \/ readError
  /\ readTimer' = FALSE
  /\ readError' = (readError \/ ~Ok)
  /\ Close
  /\ service' = Tail(service)
  /\ UNCHANGED <<socket, writeError, pendingRead, pendingWrite, reading,
                 writing, writeTimer, protocol, msg, outputBuffer, releasing,
                 limited>>

\* parseHeader goes on to the body, unless the packets come too fast: then it
\* calls closeConnection, which does nothing in this state but complain.
ParseHeader ==
  /\ Runs("header") /\ Ok /\ connState = "OPEN" /\ ~readError
  /\ service' = Tail(service)
  /\ \/ /\ reading' = "packet" /\ readTimer' = TRUE
        /\ UNCHANGED limited
     \/ /\ readTimer' = FALSE /\ limited' = TRUE
        /\ UNCHANGED reading
  /\ UNCHANGED <<connState, socket, readError, writeError, pendingRead,
                 pendingWrite, writing, writeTimer, protocol, msg,
                 outputBuffer, closeTasks, releasing>>

\* parsePacket hands the packet to the protocol, which adds game tasks, or
\* refuses the client with or without a message, and reads on in any case.
ParsePacketStop ==
  /\ Runs("packet") /\ Ok /\ connState = "OPEN" /\ ~readError
  /\ service' = Tail(service)
  /\ reading' = "none" /\ readTimer' = TRUE
  /\ UNCHANGED <<msg, writing, writeTimer, pendingWrite, connState, closeTasks>>
  /\ UNCHANGED <<socket, readError, writeError, pendingRead, protocol,
                 outputBuffer, releasing, limited>>

ParsePacket ==
  /\ Runs("packet") /\ Ok /\ connState = "OPEN" /\ ~readError
  /\ service' = Tail(service)
  /\ reading' = "header" /\ readTimer' = TRUE
  /\ \/ UNCHANGED <<msg, writing, writeTimer, pendingWrite, connState, closeTasks>>
     \/ Close /\ UNCHANGED <<msg, writing, writeTimer, pendingWrite>>
     \/ Close /\ \E m \in Msg : SendSingle(m)
  /\ UNCHANGED <<socket, readError, writeError, pendingRead, protocol,
                 outputBuffer, releasing, limited>>

\* onWrite.
OnWriteWithoutClose ==
  /\ Runs("write")
  /\ writeTimer' = FALSE
  /\ msg' = Put(Head(service).msg, "released")
  /\ writeError' = (writeError \/ ~Ok)
  /\ pendingWrite' = pendingWrite - 1
  /\ service' = Tail(service)
  /\ UNCHANGED <<connState, closeTasks, socket, pendingRead, reading, writing,
                 readError, readTimer, protocol, outputBuffer, releasing, limited>>

OnWriteCountsFirst ==
  /\ Runs("write")
  /\ writeTimer' = FALSE
  /\ msg' = Put(Head(service).msg, "released")
  /\ writeError' = (writeError \/ ~Ok)
  /\ pendingWrite' = pendingWrite - 1
  /\ IF connState # "OPEN" \/ writeError'
     THEN /\ Close /\ service' = Tail(service)
          /\ socket' = (IF socket = "open" THEN "closed" ELSE socket)
     ELSE service' = Tail(service) /\ UNCHANGED <<connState, closeTasks, socket>>
  /\ UNCHANGED <<pendingRead, reading, writing, readError, readTimer, protocol,
                 outputBuffer, releasing, limited>>

OnWrite ==
  /\ Runs("write")
  /\ writeTimer' = FALSE
  /\ msg' = Put(Head(service).msg, "released")
  /\ writeError' = (writeError \/ ~Ok)
  /\ IF connState # "OPEN" \/ writeError'
     THEN Close /\ CloseSocket(Tail(service), <<>>)
     ELSE /\ pendingWrite' = pendingWrite - 1
          /\ service' = Tail(service)
          /\ UNCHANGED <<connState, closeTasks, socket, pendingRead, reading,
                         writing>>
  /\ UNCHANGED <<readError, readTimer, protocol, outputBuffer, releasing, limited>>

\* A timer's handler holds the connection weakly: after onStop it finds none.
\* Otherwise it looks whether what it waited for is still under way.
OnTimeout ==
  /\ Runs("readTimeout") \/ Runs("writeTimeout")
  /\ IF /\ socket # "deleted"
        /\ \/ Runs("readTimeout") /\ (pendingRead > 0 \/ readError)
           \/ Runs("writeTimeout") /\ (pendingWrite > 0 \/ writeError)
     THEN Close /\ CloseSocket(Tail(service), <<>>)
     ELSE /\ service' = Tail(service)
          /\ UNCHANGED <<connState, closeTasks, socket, pendingRead,
                         pendingWrite, reading, writing>>
  /\ UNCHANGED <<readError, writeError, readTimer, writeTimer, protocol, msg,
                 outputBuffer, releasing, limited>>

\* onStop, after which only a handler in progress still knows the connection.
OnStop ==
  /\ Runs("stop")
  /\ socket' = "deleted"
  /\ readTimer' = FALSE /\ writeTimer' = FALSE
  /\ service' = Tail(service)
  /\ UNCHANGED <<connState, readError, writeError, pendingRead, pendingWrite,
                 reading, writing, protocol, msg, outputBuffer, closeTasks,
                 releasing, limited>>

-----------------------------------------------------------------------------
(* The dispatcher thread.                                                  *)

\* The game writes to the client: getOutputBuffer takes a message from the
\* pool unless the last one is still being filled.
GameWrites ==
  /\ protocol = "attached"
  /\ outputBuffer = None
  /\ \E m \in Msg : /\ msg[m] = "free"
                    /\ msg' = Put(m, "auto")
                    /\ outputBuffer' = m
  /\ UNCHANGED <<connState, socket, readError, writeError, pendingRead,
                 pendingWrite, reading, writing, readTimer, writeTimer,
                 service, protocol, closeTasks, releasing, limited>>

\* The game ends the connection: logout, or disconnectClient.
GameCloses ==
  /\ protocol = "attached"
  /\ Close
  /\ \/ UNCHANGED <<msg, writing, writeTimer, pendingWrite>>
     \/ \E m \in Msg : SendSingle(m)
  /\ UNCHANGED <<socket, readError, writeError, pendingRead, reading,
                 readTimer, service, protocol, outputBuffer, releasing, limited>>

\* sendAll, which runs after every task, takes the messages one by one.  A
\* message that is 10 ms old is sent, to wait again if another is being
\* written; whether it is sent or refused, it is sealed by onSendMessage and
\* is no longer the protocol's buffer.
SendAllUnsealed(m) ==
  /\ msg[m] \in {"auto", "waiting"}
  /\ msg' = Put(m, Sent(m))
  /\ StartWrite(m, Sent(m))
  /\ UNCHANGED <<connState, socket, readError, writeError, pendingRead, reading,
                 readTimer, service, protocol, outputBuffer, closeTasks,
                 releasing, limited>>

SendAll(m) ==
  /\ msg[m] \in {"auto", "waiting"}
  /\ msg' = Put(m, Sent(m))
  /\ StartWrite(m, Sent(m))
  /\ outputBuffer' = IF outputBuffer = m /\ Sent(m) # "waiting" THEN None
                                                                ELSE outputBuffer
  /\ UNCHANGED <<connState, socket, readError, writeError, pendingRead, reading,
                 readTimer, service, protocol, closeTasks, releasing, limited>>

\* A message that has waited for ten seconds is dropped.
DropOld(m) ==
  /\ msg[m] = "waiting"
  /\ msg' = Put(m, "released")
  /\ outputBuffer' = IF outputBuffer = m THEN None ELSE outputBuffer
  /\ UNCHANGED <<connState, socket, readError, writeError, pendingRead,
                 pendingWrite, reading, writing, readTimer, writeTimer,
                 service, protocol, closeTasks, releasing, limited>>

\* internalReleaseMessage.
ReleaseMessage(m) ==
  /\ msg[m] = "released"
  /\ msg' = Put(m, "free")
  /\ UNCHANGED <<connState, socket, readError, writeError, pendingRead,
                 pendingWrite, reading, writing, readTimer, writeTimer,
                 service, protocol, outputBuffer, closeTasks, releasing, limited>>

\* What releaseProtocol and releaseConnection achieve: while a message holds
\* a reference they leave it to the scheduler to try again.
ProtocolReleasedAtOnce == "gone"

ProtocolReleased == IF InUse = {} THEN "gone" ELSE "releasing"

StoppedAtOnce == <<Handler("stop", TRUE)>>
Stopped == IF InUse = {} THEN <<Handler("stop", TRUE)>> ELSE <<>>

\* The queued closeConnection: the protocol goes first, the socket when
\* nothing is being written.
CloseConnection ==
  /\ closeTasks > 0
  /\ closeTasks' = closeTasks - 1
  /\ IF connState # "REQUEST_CLOSE"
     THEN UNCHANGED <<connState, socket, protocol, releasing, service, reading,
                      writing, pendingRead, pendingWrite>>
     ELSE /\ protocol' = IF protocol = "attached" THEN ProtocolReleased
                                                  ELSE protocol
          /\ IF pendingWrite = 0 \/ writeError
             THEN /\ connState' = "CLOSED"
                  /\ CloseSocket(service, Stopped)
                  /\ releasing' = (Stopped = <<>>)
             ELSE /\ connState' = "CLOSING"
                  /\ UNCHANGED <<socket, releasing, service, reading, writing,
                                 pendingRead, pendingWrite>>
  /\ UNCHANGED <<readError, writeError, readTimer, writeTimer, msg,
                 outputBuffer, limited>>

RetryProtocol ==
  /\ protocol = "releasing"
  /\ protocol' = ProtocolReleased
  /\ UNCHANGED <<connState, socket, readError, writeError, pendingRead,
                 pendingWrite, reading, writing, readTimer, writeTimer,
                 service, msg, outputBuffer, closeTasks, releasing, limited>>

RetryRelease ==
  /\ releasing
  /\ service' = service \o Stopped
  /\ releasing' = (Stopped = <<>>)
  /\ UNCHANGED <<connState, socket, readError, writeError, pendingRead,
                 pendingWrite, reading, writing, readTimer, writeTimer,
                 protocol, msg, outputBuffer, closeTasks, limited>>

-----------------------------------------------------------------------------
ServiceThread ==
  \/ \E kind \in {"header", "packet"} : ReadFails(kind)
  \/ ParseHeader \/ ParsePacket
  \/ OnWrite \/ OnTimeout \/ OnStop

Next ==
  \/ ReadEnds \/ WriteEnds \/ TimersExpire
  \/ ServiceThread
  \/ GameWrites \/ GameCloses
  \/ \E m \in Msg : SendAll(m) \/ DropOld(m) \/ ReleaseMessage(m)
  \/ CloseConnection \/ RetryProtocol \/ RetryRelease

Spec == Init /\ [][Next]_vars

\* The service thread runs what is ready and a timer that is not stopped
\* expires; the dispatcher runs what is queued and ends every task with
\* sendAll.  The peer need not send, read or answer anything.
Fairness ==
  /\ WF_vars(ServiceThread) /\ WF_vars(TimersExpire)
  /\ WF_vars(CloseConnection) /\ WF_vars(RetryProtocol) /\ WF_vars(RetryRelease)
  /\ \A m \in Msg : WF_vars(SendAll(m)) /\ WF_vars(ReleaseMessage(m))

FairSpec == Spec /\ Fairness

-----------------------------------------------------------------------------
(* Properties.                                                             *)

Kinds == {"header", "packet", "write", "readTimeout", "writeTimeout", "stop"}

\* The types of the state.
TypeOK ==
  /\ connState \in {"OPEN", "REQUEST_CLOSE", "CLOSING", "CLOSED"}
  /\ socket \in {"open", "closed", "deleted"}
  /\ readError \in BOOLEAN /\ writeError \in BOOLEAN
  /\ pendingRead \in 0..1 /\ pendingWrite \in 0..1
  /\ reading \in {"none", "header", "packet"}
  /\ writing \in Msg \cup {None}
  /\ readTimer \in BOOLEAN /\ writeTimer \in BOOLEAN
  /\ service \in Seq([on : Kinds, ok : BOOLEAN, msg : Msg \cup {None}])
  /\ protocol \in {"attached", "releasing", "gone"}
  /\ msg \in [Msg -> {"free", "auto", "waiting", "writing", "released"}]
  /\ outputBuffer \in Msg \cup {None}
  /\ closeTasks \in 0..1
  /\ releasing \in BOOLEAN /\ limited \in BOOLEAN

SocketHandlers == {"header", "packet", "write"}
Queued(kinds) == {i \in DOMAIN service : service[i].on \in kinds}

\* async_write may not be started while another is under way on the socket:
\* a message is handed to it only when onWrite has let the last one go.
OneWrite == \A m, n \in Msg : msg[m] = "writing" /\ msg[n] = "writing" => m = n

\* A message that has been encrypted, is being written or was let go is not
\* the one the game still appends to (Protocol::onSendMessage).
SealedMessages == outputBuffer # None => msg[outputBuffer] \in {"auto", "waiting"}

\* As long as the connection is open the client is listened to: a read is
\* under way, or its handler is due (accept, parseHeader, parsePacket).  Only
\* the packet limit, see RateLimitDisconnects, is an exception.
OpenListens ==
  connState = "OPEN" /\ ~limited =>
    reading # "none" \/ Queued({"header", "packet"}) # {}

\* onStop is the last thing that happens to a connection: when it is due or
\* done, there is no second one, no handler of the socket behind it that
\* would find the socket deleted, no queued closeConnection or
\* releaseConnection with its plain pointer, and no message that refers to it.
StopIsLast ==
  (socket = "deleted" \/ Queued({"stop"}) # {}) =>
    /\ connState = "CLOSED"
    /\ closeTasks = 0 /\ ~releasing
    /\ reading = "none" /\ writing = None
    /\ InUse = {}
    /\ socket = "deleted" => Queued({"stop"} \union SocketHandlers) = {}
    /\ \A i \in Queued({"stop"}), j \in Queued({"stop"} \union SocketHandlers) :
         j <= i

\* The protocol is deleted only when no message refers to it any more, for
\* internalReleaseMessage still counts down its references.
ProtocolOutlivesMessages == protocol = "gone" => InUse = {}

\* From the game's buffer through the socket to its release a message belongs
\* to one side at a time, and its protocol lives as long.
MessagesAreSafe == SealedMessages /\ ProtocolOutlivesMessages

\* A connection that is asked to close is closed and released in the end,
\* with its protocol, whatever the peer does: a write that hangs is ended by
\* its timer.
ClosedIsReleased ==
  connState = "REQUEST_CLOSE" ~> (socket = "deleted" /\ protocol = "gone")

\* "disconnected for exceeding packet per second limit", parseHeader prints.
RateLimitDisconnects == limited => connState # "OPEN"

=============================================================================
