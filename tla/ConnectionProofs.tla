-------------------------- MODULE ConnectionProofs --------------------------
(***************************************************************************)
(* Proofs about a connection, for any number of messages.                  *)
(***************************************************************************)
EXTENDS Connection, TLAPS

USE ConnectionAssumption

HandlerType == [on : Kinds, ok : BOOLEAN, msg : Msg \cup {None}]

\* The handlers of finished writes in a queue, and what holds of them: there
\* is at most one, and it is about a message that still counts as written.
Writes(q) == {i \in DOMAIN q : q[i].on = "write"}
WritesOf(q, where) ==
  /\ \A i, j \in Writes(q) : i = j
  /\ \A i \in Writes(q) : q[i].msg \in Msg /\ where[q[i].msg] = "writing"

\* What makes OneWrite inductive.  The message being written is either the one
\* the socket is busy with or the one whose onWrite is due, and as long as the
\* connection is open m_pendingWrite says whether there is one.
WriteInv ==
  /\ OneWrite
  /\ WritesOf(service, msg)
  /\ writing # None => Writes(service) = {} /\ msg[writing] = "writing"
  /\ connState = "OPEN" =>
       (pendingWrite = 1 <=> \E m \in Msg : msg[m] = "writing")

\* There is a closeConnection in the dispatcher exactly when one is requested.
CloseInv == closeTasks = (IF connState = "REQUEST_CLOSE" THEN 1 ELSE 0)

Inv == TypeOK /\ WriteInv /\ CloseInv /\ SealedMessages /\ ProtocolOutlivesMessages

-----------------------------------------------------------------------------
(* Queues.                                                                 *)

LEMMA OneMore ==
  ASSUME NEW S, NEW q \in Seq(S), NEW x \in S
  PROVE  q \o <<x>> = Append(q, x)
OBVIOUS

\* A queue without its first handler.
LEMMA TakeOff ==
  ASSUME NEW q \in Seq(HandlerType), q # <<>>, NEW where, WritesOf(q, where)
  PROVE  /\ Tail(q) \in Seq(HandlerType)
         /\ Head(q) \in HandlerType
         /\ WritesOf(Tail(q), where)
         /\ Writes(q) = {} => Writes(Tail(q)) = {}
         /\ Head(q).on = "write" =>
              /\ Writes(Tail(q)) = {}
              /\ 1 \in Writes(q)
              /\ Head(q).msg \in Msg /\ where[Head(q).msg] = "writing"
<1>1. /\ Tail(q) \in Seq(HandlerType)
      /\ Head(q) \in HandlerType
      /\ Head(q) = q[1]
      /\ Len(q) \in Nat \ {0}
      /\ DOMAIN q = 1 .. Len(q)
      /\ DOMAIN Tail(q) = 1 .. (Len(q) - 1)
      /\ \A i \in 1 .. (Len(q) - 1) : Tail(q)[i] = q[i + 1]
  OBVIOUS
<1>2. \A i \in Writes(Tail(q)) : i + 1 \in Writes(q) /\ i + 1 # 1
  BY <1>1 DEF Writes
<1>3. Writes(q) = {} => Writes(Tail(q)) = {}
  BY <1>2
<1>4. Head(q).on = "write" => 1 \in Writes(q)
  BY <1>1 DEF Writes
<1>5. Head(q).on = "write" => Writes(Tail(q)) = {}
  BY <1>2, <1>4 DEF WritesOf
<1>6. WritesOf(Tail(q), where)
  <2>1. \A i, j \in Writes(Tail(q)) : i = j
    <3> SUFFICES ASSUME NEW i \in Writes(Tail(q)), NEW j \in Writes(Tail(q))
                 PROVE  i = j
      OBVIOUS
    <3>1. i + 1 = j + 1
      BY <1>2 DEF WritesOf
    <3>2. i \in Nat /\ j \in Nat
      BY <1>1 DEF Writes
    <3> QED BY <3>1, <3>2
  <2>2. ASSUME NEW i \in Writes(Tail(q))
        PROVE  Tail(q)[i].msg \in Msg /\ where[Tail(q)[i].msg] = "writing"
    <3>1. Tail(q)[i] = q[i + 1]
      BY <1>1 DEF Writes
    <3> QED BY <1>2, <3>1 DEF WritesOf
  <2> QED BY <2>1, <2>2 DEF WritesOf
<1> QED BY <1>1, <1>3, <1>4, <1>5, <1>6 DEF WritesOf

\* A queue with one more handler that is not a write's.
LEMMA PutBehind ==
  ASSUME NEW q \in Seq(HandlerType), NEW h \in HandlerType, h.on # "write",
         NEW where, WritesOf(q, where)
  PROVE  /\ Append(q, h) \in Seq(HandlerType)
         /\ Writes(Append(q, h)) = Writes(q)
         /\ WritesOf(Append(q, h), where)
<1>1. /\ Append(q, h) \in Seq(HandlerType)
      /\ DOMAIN q = 1 .. Len(q)
      /\ DOMAIN Append(q, h) = 1 .. (Len(q) + 1)
      /\ Len(q) \in Nat
      /\ Append(q, h)[Len(q) + 1] = h
      /\ \A i \in 1 .. Len(q) : Append(q, h)[i] = q[i]
  OBVIOUS
<1>2. Writes(Append(q, h)) = Writes(q)
  BY <1>1 DEF Writes
<1>3. \A i \in Writes(q) : Append(q, h)[i] = q[i]
  BY <1>1 DEF Writes
<1> QED BY <1>1, <1>2, <1>3 DEF WritesOf

\* A queue without a write's handler gets one.
LEMMA PutWriteBehind ==
  ASSUME NEW q \in Seq(HandlerType), Writes(q) = {}, NEW ok \in BOOLEAN,
         NEW m \in Msg, NEW where, where[m] = "writing"
  PROVE  /\ Append(q, Wrote(m, ok)) \in Seq(HandlerType)
         /\ WritesOf(Append(q, Wrote(m, ok)), where)
<1> DEFINE h == Wrote(m, ok)
<1>0. h \in HandlerType /\ h.on = "write" /\ h.msg = m
  BY DEF Wrote, HandlerType, Kinds
<1> HIDE DEF h
<1>1. /\ Append(q, h) \in Seq(HandlerType)
      /\ DOMAIN q = 1 .. Len(q)
      /\ DOMAIN Append(q, h) = 1 .. (Len(q) + 1)
      /\ Len(q) \in Nat
      /\ Append(q, h)[Len(q) + 1] = h
      /\ \A i \in 1 .. Len(q) : Append(q, h)[i] = q[i]
  BY <1>0
<1>2. Writes(Append(q, h)) = {Len(q) + 1}
  BY <1>0, <1>1 DEF Writes
<1>3. WritesOf(Append(q, h), where)
  BY <1>0, <1>1, <1>2 DEF WritesOf
<1> QED BY <1>1, <1>3 DEF h

\* closeSocket leaves a queue with the write handler it had or, when the socket
\* was writing, with that of the write it has broken off.
LEMMA Closed ==
  ASSUME TypeOK, WriteInv, NEW pre \in Seq(HandlerType), WritesOf(pre, msg),
         writing # None => Writes(pre) = {},
         NEW post, post = <<>> \/ post = <<Handler("stop", TRUE)>>,
         CloseSocket(pre, post)
  PROVE  /\ service' \in Seq(HandlerType) /\ WritesOf(service', msg)
         /\ Writes(pre) = {} /\ writing = None => Writes(service') = {}
<1> DEFINE r == IF reading = "none" THEN <<>> ELSE <<Handler(reading, FALSE)>>
           w == IF writing = None THEN <<>> ELSE <<Wrote(writing, FALSE)>>
<1>1. \A k \in Kinds \ {"write"}, ok \in BOOLEAN :
        Handler(k, ok) \in HandlerType /\ Handler(k, ok).on # "write"
  BY DEF Handler, HandlerType
<1>2. /\ pre \o r \in Seq(HandlerType) /\ WritesOf(pre \o r, msg)
      /\ Writes(pre \o r) = Writes(pre)
  <2>1. CASE reading = "none"
    <3>1. pre \o r = pre
      BY <2>1
    <3> QED BY <3>1
  <2>2. CASE reading # "none"
    <3>1. reading \in Kinds \ {"write"}
      BY <2>2 DEF TypeOK, Kinds
    <3>2. Handler(reading, FALSE) \in HandlerType
          /\ Handler(reading, FALSE).on # "write"
      BY <1>1, <3>1
    <3>3. pre \o r = Append(pre, Handler(reading, FALSE))
      BY <2>2, <3>2, OneMore
    <3> QED BY <3>2, <3>3, PutBehind
  <2> QED BY <2>1, <2>2
<1> DEFINE s == pre \o r
<1>3. /\ s \o w \in Seq(HandlerType) /\ WritesOf(s \o w, msg)
      /\ writing = None => Writes(s \o w) = Writes(s)
  <2> HIDE DEF s
  <2>1. CASE writing = None
    <3>1. s \o w = s
      BY <1>2, <2>1 DEF s
    <3> QED BY <1>2, <3>1 DEF s
  <2>2. CASE writing # None
    <3>1. writing \in Msg /\ msg[writing] = "writing" /\ Writes(s) = {}
      BY <1>2, <2>2 DEF TypeOK, WriteInv, s
    <3>2. Wrote(writing, FALSE) \in HandlerType
      BY <3>1 DEF Wrote, HandlerType, Kinds
    <3>3. s \o w = Append(s, Wrote(writing, FALSE))
      BY <1>2, <2>2, <3>2, OneMore DEF s
    <3>4. s \in Seq(HandlerType)
      BY <1>2 DEF s
    <3> HIDE DEF w
    <3> QED BY <2>2, <3>1, <3>3, <3>4, PutWriteBehind
  <2> QED BY <2>1, <2>2
<1>4. service' = s \o w \o post
  BY DEF CloseSocket
<1> DEFINE t == s \o w
<1>5. /\ t \in Seq(HandlerType) /\ WritesOf(t, msg) /\ service' = t \o post
      /\ Writes(pre) = {} /\ writing = None => Writes(t) = {}
  BY <1>2, <1>3, <1>4
<1> HIDE DEF t
<1>6. CASE post = <<>>
  <2>1. t \o post = t
    BY <1>5, <1>6
  <2> QED BY <1>5, <2>1
<1>7. CASE post = <<Handler("stop", TRUE)>>
  <2>1. Handler("stop", TRUE) \in HandlerType /\ Handler("stop", TRUE).on # "write"
    BY <1>1 DEF Kinds
  <2>2. t \o post = Append(t, Handler("stop", TRUE))
    BY <1>5, <1>7, <2>1, OneMore
  <2> QED BY <1>5, <2>1, <2>2, PutBehind
<1> QED BY <1>6, <1>7

-----------------------------------------------------------------------------
(* Parts of actions.                                                       *)

\* close leaves the connection closing, with one closeConnection if requested.
LEMMA CloseCloses ==
  ASSUME TypeOK, CloseInv, Close
  PROVE  /\ connState' \in {"REQUEST_CLOSE", "CLOSED"}
         /\ closeTasks' \in 0 .. 1
         /\ CloseInv'
BY DEF TypeOK, CloseInv, Close

\* A message that is sent is written only if no other one is.
LEMMA SendKeepsWrites ==
  ASSUME TypeOK, WriteInv, SealedMessages, NEW m \in Msg,
         msg[m] \notin {"writing", "released"},
         msg' = Put(m, Sent(m)), StartWrite(m, Sent(m)),
         WritesOf(service', msg), Writes(service) = {} => Writes(service') = {},
         connState' \in {connState, "REQUEST_CLOSE", "CLOSED"}
  PROVE  /\ msg' \in [Msg -> {"free", "auto", "waiting", "writing", "released"}]
         /\ writing' \in Msg \cup {None}
         /\ writeTimer' \in BOOLEAN
         /\ pendingWrite' \in 0 .. 1
         /\ WriteInv'
<1> USE DEF TypeOK
<1>1. Sent(m) \in {"writing", "waiting", "released"}
  BY DEF Sent
<1>2. /\ msg' \in [Msg -> {"free", "auto", "waiting", "writing", "released"}]
      /\ msg'[m] = Sent(m)
      /\ \A n \in Msg : n # m => msg'[n] = msg[n]
  BY <1>1 DEF Put
<1>3. CASE Sent(m) = "writing"
  <2>1. connState = "OPEN" /\ pendingWrite = 0
    BY <1>3 DEF Sent
  <2>2. \A n \in Msg : msg[n] # "writing"
    BY <2>1 DEF WriteInv
  <2>3. writing' = m /\ writeTimer' = TRUE /\ pendingWrite' = 1
    BY <1>3, <2>1 DEF StartWrite
  <2>4. Writes(service) = {}
    BY <2>2 DEF WriteInv, WritesOf
  <2>5. OneWrite' /\ msg'[writing'] = "writing"
    BY <1>2, <1>3, <2>2, <2>3 DEF OneWrite
  <2>6. WritesOf(service', msg') /\ Writes(service') = {}
    BY <2>4 DEF WritesOf
  <2> QED BY <1>2, <1>3, <2>3, <2>5, <2>6 DEF WriteInv
<1>4. CASE Sent(m) # "writing"
  <2>1. UNCHANGED <<writing, writeTimer, pendingWrite>>
    BY <1>4 DEF StartWrite
  <2>2. \A n \in Msg : msg'[n] = "writing" <=> msg[n] = "writing"
    BY <1>1, <1>2, <1>4
  <2>3. OneWrite'
    BY <2>2 DEF OneWrite, WriteInv
  <2>4. WritesOf(service', msg')
    BY <2>2 DEF WritesOf, WriteInv
  <2>5. writing' # None => Writes(service') = {} /\ msg'[writing'] = "writing"
    BY <2>1, <2>2 DEF WriteInv
  <2>6. connState' = "OPEN" =>
          (pendingWrite' = 1 <=> \E n \in Msg : msg'[n] = "writing")
    BY <2>1, <2>2 DEF WriteInv
  <2> QED BY <1>2, <2>1, <2>3, <2>4, <2>5, <2>6 DEF WriteInv
<1> QED BY <1>3, <1>4

\* What is written stays so in a step that leaves the messages alone.
LEMMA WriteInvFrame ==
  ASSUME WriteInv, UNCHANGED <<msg, writing, pendingWrite>>,
         connState' = "OPEN" => connState = "OPEN",
         WritesOf(service', msg), Writes(service) = {} => Writes(service') = {}
  PROVE  WriteInv'
BY DEF WriteInv, OneWrite, WritesOf, Writes

\* A message that neither was nor is being written may move.
LEMMA SameWrites ==
  ASSUME TypeOK, WriteInv, NEW m \in Msg, msg[m] # "writing", msg'[m] # "writing",
         \A n \in Msg : n # m => msg'[n] = msg[n],
         UNCHANGED <<connState, writing, pendingWrite, service>>
  PROVE  WriteInv'
<1>1. \A n \in Msg : msg'[n] = "writing" <=> msg[n] = "writing"
  OBVIOUS
<1>2. OneWrite'
  BY <1>1 DEF WriteInv, OneWrite
<1>3. WritesOf(service', msg')
  BY <1>1 DEF WriteInv, WritesOf
<1>4. writing' # None => Writes(service') = {} /\ msg'[writing'] = "writing"
  BY <1>1 DEF WriteInv, TypeOK
<1> QED BY <1>1, <1>2, <1>3, <1>4 DEF WriteInv

\* closeSocket keeps what is written, once the connection is not open.
LEMMA WriteInvClosed ==
  ASSUME TypeOK, WriteInv, NEW pre \in Seq(HandlerType), WritesOf(pre, msg),
         writing # None => Writes(pre) = {},
         NEW post, post = <<>> \/ post = <<Handler("stop", TRUE)>>,
         CloseSocket(pre, post), UNCHANGED msg, connState' # "OPEN"
  PROVE  WriteInv'
<1>1. WritesOf(service', msg)
  BY Closed
<1>2. writing' = None
  BY DEF CloseSocket
<1> QED BY <1>1, <1>2 DEF WriteInv, OneWrite, WritesOf, Writes

-----------------------------------------------------------------------------
(* The invariant.                                                          *)

LEMMA InvStep == Inv /\ [Next]_vars => Inv'
<1> SUFFICES ASSUME Inv, [Next]_vars PROVE Inv'
  OBVIOUS
<1> USE DEF Inv
<1>0. service \in Seq(HandlerType) /\ WritesOf(service, msg)
  BY DEF TypeOK, WriteInv, HandlerType
<1>t. ASSUME service # <<>>
      PROVE  /\ Tail(service) \in Seq(HandlerType)
             /\ Head(service) \in HandlerType
             /\ WritesOf(Tail(service), msg)
             /\ Writes(service) = {} => Writes(Tail(service)) = {}
             /\ Head(service).on = "write" =>
                  /\ Writes(Tail(service)) = {} /\ writing = None
                  /\ Head(service).msg \in Msg
                  /\ msg[Head(service).msg] = "writing"
  <2>1. Head(service).on = "write" => 1 \in Writes(service)
    BY <1>0, <1>t, TakeOff
  <2>2. Head(service).on = "write" => writing = None
    BY <2>1 DEF WriteInv
  <2> QED BY <1>0, <1>t, <2>2, TakeOff
<1>h. \A k \in Kinds \ {"write"}, ok \in BOOLEAN :
        Handler(k, ok) \in HandlerType /\ Handler(k, ok).on # "write"
  BY DEF Handler, HandlerType
<1> DEFINE Old == /\ SealedMessages' /\ ProtocolOutlivesMessages'
<1>u. UNCHANGED <<msg, outputBuffer, protocol>> => Old
  BY DEF SealedMessages, ProtocolOutlivesMessages, InUse
<1>b. /\ readError \in BOOLEAN /\ writeError \in BOOLEAN
      /\ readTimer \in BOOLEAN /\ writeTimer \in BOOLEAN
      /\ releasing \in BOOLEAN /\ limited \in BOOLEAN
  BY DEF TypeOK
<1> DEFINE Flags == /\ readError' \in BOOLEAN /\ writeError' \in BOOLEAN
                    /\ readTimer' \in BOOLEAN /\ writeTimer' \in BOOLEAN
                    /\ releasing' \in BOOLEAN /\ limited' \in BOOLEAN
<1>1. CASE ReadEnds
  <2>1. PICK ok \in BOOLEAN : service' = Append(service, Handler(reading, ok))
    BY <1>1 DEF ReadEnds
  <2>2. reading \in Kinds \ {"write"}
    BY <1>1 DEF ReadEnds, TypeOK, Kinds
  <2>3. /\ service' \in Seq(HandlerType)
        /\ Writes(service') = Writes(service)
        /\ WritesOf(service', msg)
    BY <1>0, <1>h, <2>1, <2>2, PutBehind
  <2>4. TypeOK'
    BY <1>1, <2>3 DEF ReadEnds, TypeOK, HandlerType
  <2>5. WriteInv'
    BY <1>1, <2>3, WriteInvFrame DEF ReadEnds
  <2> QED BY <1>1, <1>u, <2>4, <2>5 DEF ReadEnds, CloseInv
<1>2. CASE WriteEnds
  <2>1. PICK ok \in BOOLEAN : service' = Append(service, Wrote(writing, ok))
    BY <1>2 DEF WriteEnds
  <2>2. writing \in Msg /\ Writes(service) = {} /\ msg[writing] = "writing"
    BY <1>2 DEF WriteEnds, TypeOK, WriteInv
  <2>3. service' \in Seq(HandlerType) /\ WritesOf(service', msg)
    BY <1>0, <2>1, <2>2, PutWriteBehind
  <2>4. TypeOK'
    BY <1>2, <2>3 DEF WriteEnds, TypeOK, HandlerType
  <2>5. WriteInv'
    BY <1>2, <2>3 DEF WriteEnds, WriteInv, OneWrite, WritesOf, Writes
  <2> QED BY <1>2, <1>u, <2>4, <2>5 DEF WriteEnds, CloseInv
<1>3. CASE TimersExpire
  <2>1. PICK k \in {"readTimeout", "writeTimeout"} :
          service' = Append(service, Handler(k, TRUE))
    BY <1>3 DEF TimersExpire
  <2>2. /\ service' \in Seq(HandlerType)
        /\ Writes(service') = Writes(service)
        /\ WritesOf(service', msg)
    BY <1>0, <1>h, <2>1, PutBehind DEF Kinds
  <2>f. Flags
    BY <1>3, <1>b, Zenon DEF TimersExpire
  <2>u. UNCHANGED <<connState, socket, pendingRead, pendingWrite, reading,
                    writing, protocol, msg, outputBuffer, closeTasks>>
    BY <1>3 DEF TimersExpire
  <2>3. TypeOK'
    BY <2>2, <2>f, <2>u DEF TypeOK, HandlerType
  <2>4. WriteInv'
    BY <1>3, <2>2, WriteInvFrame DEF TimersExpire
  <2> QED BY <1>3, <1>u, <2>3, <2>4 DEF TimersExpire, CloseInv
<1>4. ASSUME NEW kind \in {"header", "packet"}, ReadFails(kind) PROVE Inv'
  <2>1. service # <<>> /\ service' = Tail(service) /\ Close
    BY <1>4 DEF ReadFails, Runs
  <2>f. Flags
    BY <1>4, <1>b, Zenon DEF ReadFails
  <2>2. TypeOK'
    <3>1. UNCHANGED <<socket, pendingRead, pendingWrite, reading, writing,
                      protocol, msg, outputBuffer>>
      BY <1>4 DEF ReadFails
    <3>2. service' \in Seq(HandlerType)
      BY <1>t, <2>1
    <3>3. connState' \in {"REQUEST_CLOSE", "CLOSED"} /\ closeTasks' \in 0 .. 1
      BY <2>1, CloseCloses
    <3> QED BY <2>f, <3>1, <3>2, <3>3 DEF TypeOK, HandlerType
  <2>3. WriteInv'
    BY <1>4, <1>t, <2>1, CloseCloses, WriteInvFrame DEF ReadFails
  <2> QED BY <1>4, <1>u, <2>1, <2>2, <2>3, CloseCloses DEF ReadFails
<1>5. CASE ParseHeader
  <2>1. service # <<>> /\ service' = Tail(service)
    BY <1>5 DEF ParseHeader, Runs
  <2>f. Flags
    BY <1>5, <1>b, Zenon DEF ParseHeader
  <2>2. TypeOK'
    <3>1. /\ UNCHANGED <<connState, socket, pendingRead, pendingWrite, writing,
                         protocol, msg, outputBuffer, closeTasks>>
          /\ reading' \in {reading, "packet"}
      BY <1>5 DEF ParseHeader
    <3>2. service' \in Seq(HandlerType)
      BY <1>t, <2>1
    <3> QED BY <2>f, <3>1, <3>2 DEF TypeOK, HandlerType
  <2>3. WriteInv'
    BY <1>5, <1>t, <2>1, WriteInvFrame DEF ParseHeader
  <2> QED BY <1>5, <1>u, <2>2, <2>3 DEF ParseHeader, CloseInv
<1>7. CASE OnWrite
  <2> DEFINE m == Head(service).msg
  <2>1. service # <<>> /\ Head(service).on = "write"
    BY <1>7 DEF OnWrite, Runs
  <2>2. /\ m \in Msg /\ msg[m] = "writing" /\ writing = None
        /\ Tail(service) \in Seq(HandlerType)
        /\ Writes(Tail(service)) = {} /\ WritesOf(Tail(service), msg)
    BY <1>t, <2>1
  <2>3. /\ msg' \in [Msg -> {"free", "auto", "waiting", "writing", "released"}]
        /\ msg'[m] = "released"
        /\ \A n \in Msg : n # m => msg'[n] = msg[n]
    BY <1>7, <2>2 DEF OnWrite, Put, TypeOK
  <2>4. \A n \in Msg : msg'[n] # "writing"
    BY <2>2, <2>3 DEF WriteInv, OneWrite
  <2>5. Old
    <3>1. SealedMessages'
      BY <1>7, <2>2, <2>3 DEF OnWrite, SealedMessages, TypeOK
    <3>2. InUse # {}
      BY <2>2 DEF InUse
    <3> QED BY <1>7, <3>1, <3>2 DEF OnWrite, ProtocolOutlivesMessages
  <2>6. Flags
    BY <1>7, <1>b, Zenon DEF OnWrite
  <2>u. UNCHANGED <<protocol, outputBuffer>>
    BY <1>7 DEF OnWrite
  <2>7. CASE connState # "OPEN" \/ writeError'
    <3>1. Close /\ CloseSocket(Tail(service), <<>>)
      BY <1>7, <2>7 DEF OnWrite
    <3>2. service' \in Seq(HandlerType) /\ Writes(service') = {}
      BY <2>2, <3>1, Closed
    <3>3. TypeOK'
      <4>1. connState' \in {"REQUEST_CLOSE", "CLOSED"} /\ closeTasks' \in 0 .. 1
        BY <3>1, CloseCloses
      <4>2. /\ socket' \in {"open", "closed", "deleted"}
            /\ pendingRead' \in 0 .. 1 /\ pendingWrite' \in 0 .. 1
            /\ reading' = "none" /\ writing' = None
        BY <3>1 DEF CloseSocket, TypeOK
      <4> QED BY <2>3, <2>6, <2>u, <3>2, <4>1, <4>2 DEF TypeOK, HandlerType
    <3>4. WriteInv'
      BY <2>4, <3>1, <3>2, CloseCloses
         DEF WriteInv, OneWrite, WritesOf, CloseSocket
    <3> QED BY <2>5, <3>1, <3>3, <3>4, CloseCloses
  <2>8. CASE ~(connState # "OPEN" \/ writeError')
    <3>1. pendingWrite = 1
      BY <2>2, <2>8 DEF WriteInv
    <3>2. pendingWrite' = 0 /\ service' = Tail(service)
      BY <1>7, <2>8, <3>1 DEF OnWrite
    <3>3. TypeOK'
      <4>1. UNCHANGED <<connState, closeTasks, socket, pendingRead, reading,
                        writing>>
        BY <1>7, <2>8 DEF OnWrite
      <4> QED BY <2>2, <2>3, <2>6, <2>u, <3>2, <4>1 DEF TypeOK, HandlerType
    <3>4. WriteInv'
      BY <1>7, <2>2, <2>4, <2>8, <3>2 DEF OnWrite, WriteInv, OneWrite, WritesOf
    <3> QED BY <1>7, <2>5, <2>8, <3>3, <3>4 DEF OnWrite, CloseInv
  <2> QED BY <2>7, <2>8
<1>8. CASE OnTimeout
  <2>1. service # <<>>
    BY <1>8 DEF OnTimeout, Runs
  <2>f. Flags
    BY <1>8, <1>b, Zenon DEF OnTimeout
  <2>u. UNCHANGED <<protocol, msg, outputBuffer>>
    BY <1>8 DEF OnTimeout
  <2>2. CASE Close /\ CloseSocket(Tail(service), <<>>)
    <3>1. service' \in Seq(HandlerType)
      BY <1>t, <2>1, <2>2, Closed DEF WriteInv
    <3>2. TypeOK'
      <4>1. connState' \in {"REQUEST_CLOSE", "CLOSED"} /\ closeTasks' \in 0 .. 1
        BY <2>2, CloseCloses
      <4>2. /\ socket' \in {"open", "closed", "deleted"}
            /\ pendingRead' \in 0 .. 1 /\ pendingWrite' \in 0 .. 1
            /\ reading' = "none" /\ writing' = None
        BY <2>2 DEF CloseSocket, TypeOK
      <4> QED BY <2>f, <2>u, <3>1, <4>1, <4>2 DEF TypeOK, HandlerType
    <3>3. WriteInv'
      BY <1>8, <1>t, <2>1, <2>2, CloseCloses, WriteInvClosed
         DEF OnTimeout, WriteInv
    <3> QED BY <1>8, <1>u, <2>2, <3>2, <3>3, CloseCloses DEF OnTimeout
  <2>3. CASE /\ service' = Tail(service)
             /\ UNCHANGED <<connState, closeTasks, socket, pendingRead,
                            pendingWrite, reading, writing>>
    <3>1. TypeOK'
      BY <1>t, <2>1, <2>3, <2>f, <2>u DEF TypeOK, HandlerType
    <3>2. WriteInv'
      BY <1>8, <1>t, <2>1, <2>3, WriteInvFrame DEF OnTimeout
    <3> QED BY <1>8, <1>u, <2>3, <3>1, <3>2 DEF OnTimeout, CloseInv
  <2> QED BY <1>8, <2>2, <2>3 DEF OnTimeout
<1>9. CASE OnStop
  <2>1. service # <<>> /\ service' = Tail(service)
    BY <1>9 DEF OnStop, Runs
  <2>2. TypeOK'
    BY <1>9, <1>t, <2>1, ZenonT(30) DEF OnStop, TypeOK, HandlerType
  <2>3. WriteInv'
    BY <1>9, <1>t, <2>1, WriteInvFrame DEF OnStop
  <2> QED BY <1>9, <1>u, <2>2, <2>3 DEF OnStop, CloseInv
<1>s. \A m \in Msg : SendSingle(m) =>
        /\ protocol = "attached" /\ msg[m] = "free"
        /\ msg' = Put(m, Sent(m)) /\ StartWrite(m, Sent(m))
        /\ UNCHANGED <<protocol, outputBuffer>> => Old
  <2> SUFFICES ASSUME NEW m \in Msg, SendSingle(m),
                      UNCHANGED <<protocol, outputBuffer>>
               PROVE  Old
    BY DEF SendSingle
  <2>1. \A n \in Msg : n # m => msg'[n] = msg[n]
    BY DEF SendSingle, Put, TypeOK
  <2>2. SealedMessages'
    BY <2>1 DEF SendSingle, SealedMessages, TypeOK
  <2>3. ProtocolOutlivesMessages'
    BY DEF SendSingle, ProtocolOutlivesMessages
  <2> QED BY <2>2, <2>3
<1>6. CASE ParsePacket
  <2>1. /\ service # <<>> /\ service' = Tail(service)
        /\ Tail(service) \in Seq(HandlerType)
        /\ WritesOf(service', msg)
        /\ Writes(service) = {} => Writes(service') = {}
    BY <1>6, <1>t DEF ParsePacket, Runs
  <2>2. /\ reading' = "header" /\ readTimer' = TRUE
        /\ UNCHANGED <<socket, readError, writeError, pendingRead, protocol,
                       outputBuffer, releasing, limited>>
    BY <1>6 DEF ParsePacket
  <2>3. CASE UNCHANGED <<msg, writing, writeTimer, pendingWrite, connState,
                         closeTasks>>
    <3>1. TypeOK'
      BY <1>b, <2>1, <2>2, <2>3 DEF TypeOK, HandlerType
    <3>2. WriteInv'
      BY <2>1, <2>3, WriteInvFrame
    <3> QED BY <1>u, <2>2, <2>3, <3>1, <3>2 DEF CloseInv
  <2>4. CASE Close /\ UNCHANGED <<msg, writing, writeTimer, pendingWrite>>
    <3>1. TypeOK'
      BY <1>b, <2>1, <2>2, <2>4, CloseCloses DEF TypeOK, HandlerType
    <3>2. WriteInv'
      BY <2>1, <2>4, CloseCloses, WriteInvFrame
    <3> QED BY <1>u, <2>2, <2>4, <3>1, <3>2, CloseCloses
  <2>5. ASSUME Close, NEW m \in Msg, SendSingle(m) PROVE Inv'
    <3>1. /\ msg' \in [Msg -> {"free", "auto", "waiting", "writing", "released"}]
          /\ writing' \in Msg \cup {None}
          /\ writeTimer' \in BOOLEAN
          /\ pendingWrite' \in 0 .. 1
          /\ WriteInv'
      BY <1>s, <2>1, <2>5, CloseCloses, SendKeepsWrites
    <3>2. TypeOK'
      BY <1>b, <2>1, <2>2, <2>5, <3>1, CloseCloses DEF TypeOK, HandlerType
    <3> QED BY <1>s, <2>2, <2>5, <3>1, <3>2, CloseCloses
  <2> QED BY <1>6, <2>3, <2>4, <2>5 DEF ParsePacket
<1>w. /\ WritesOf(service, msg)
      /\ UNCHANGED service =>
           WritesOf(service', msg) /\ Writes(service') = Writes(service)
  BY <1>0
<1>10. CASE GameWrites
  <2>1. PICK m \in Msg :
          msg[m] = "free" /\ msg' = Put(m, "auto") /\ outputBuffer' = m
    BY <1>10 DEF GameWrites
  <2>2. /\ msg' \in [Msg -> {"free", "auto", "waiting", "writing", "released"}]
        /\ msg'[m] = "auto" /\ \A n \in Msg : n # m => msg'[n] = msg[n]
    BY <2>1 DEF TypeOK, Put
  <2>3. UNCHANGED <<connState, socket, readError, writeError, pendingRead,
                    pendingWrite, reading, writing, readTimer, writeTimer,
                    service, protocol, closeTasks, releasing, limited>>
        /\ protocol = "attached"
    BY <1>10 DEF GameWrites
  <2>4. TypeOK'
    BY <1>b, <2>1, <2>2, <2>3 DEF TypeOK
  <2>5. WriteInv'
    BY <2>1, <2>2, <2>3, SameWrites
  <2>6. Old
    BY <2>1, <2>2, <2>3 DEF SealedMessages, ProtocolOutlivesMessages
  <2> QED BY <2>3, <2>4, <2>5, <2>6 DEF CloseInv
<1>11. CASE GameCloses
  <2>1. Close /\ UNCHANGED <<socket, readError, writeError, pendingRead, reading,
                 readTimer, service, protocol, outputBuffer, releasing, limited>>
    BY <1>11 DEF GameCloses
  <2>2. CASE UNCHANGED <<msg, writing, writeTimer, pendingWrite>>
    <3>1. TypeOK'
      BY <1>b, <2>1, <2>2, CloseCloses DEF TypeOK
    <3>2. WriteInv'
      BY <1>w, <2>1, <2>2, CloseCloses, WriteInvFrame
    <3> QED BY <1>u, <2>1, <2>2, <3>1, <3>2, CloseCloses
  <2>3. ASSUME NEW m \in Msg, SendSingle(m) PROVE Inv'
    <3>1. /\ msg' \in [Msg -> {"free", "auto", "waiting", "writing", "released"}]
          /\ writing' \in Msg \cup {None}
          /\ writeTimer' \in BOOLEAN
          /\ pendingWrite' \in 0 .. 1
          /\ WriteInv'
      BY <1>s, <1>w, <2>1, <2>3, CloseCloses, SendKeepsWrites
    <3>2. TypeOK'
      BY <1>b, <2>1, <3>1, CloseCloses DEF TypeOK
    <3> QED BY <1>s, <2>1, <2>3, <3>1, <3>2, CloseCloses
  <2> QED BY <1>11, <2>2, <2>3 DEF GameCloses
<1>12. ASSUME NEW m \in Msg, SendAll(m) PROVE Inv'
  <2>1. /\ msg[m] \in {"auto", "waiting"}
        /\ msg' = Put(m, Sent(m)) /\ StartWrite(m, Sent(m))
        /\ outputBuffer' = IF outputBuffer = m /\ Sent(m) # "waiting"
                           THEN None ELSE outputBuffer
        /\ UNCHANGED <<connState, socket, readError, writeError, pendingRead,
                       reading, readTimer, service, protocol, closeTasks,
                       releasing, limited>>
    BY <1>12 DEF SendAll
  <2>2. /\ msg' \in [Msg -> {"free", "auto", "waiting", "writing", "released"}]
        /\ writing' \in Msg \cup {None}
        /\ writeTimer' \in BOOLEAN
        /\ pendingWrite' \in 0 .. 1
        /\ WriteInv'
    BY <1>w, <2>1, SendKeepsWrites
  <2>3. TypeOK'
    BY <1>b, <2>1, <2>2 DEF TypeOK
  <2>4. msg'[m] = Sent(m) /\ \A n \in Msg : n # m => msg'[n] = msg[n]
    BY <2>1 DEF TypeOK, Put
  <2>5. SealedMessages'
    BY <2>1, <2>4 DEF SealedMessages, TypeOK
  <2>6. InUse # {}
    BY <2>1 DEF InUse
  <2> QED BY <2>1, <2>2, <2>3, <2>5, <2>6 DEF CloseInv, ProtocolOutlivesMessages
<1>13. ASSUME NEW m \in Msg, DropOld(m) PROVE Inv'
  <2>1. /\ msg[m] = "waiting" /\ msg' = Put(m, "released")
        /\ outputBuffer' = IF outputBuffer = m THEN None ELSE outputBuffer
        /\ UNCHANGED <<connState, socket, readError, writeError, pendingRead,
                       pendingWrite, reading, writing, readTimer, writeTimer,
                       service, protocol, closeTasks, releasing, limited>>
    BY <1>13 DEF DropOld
  <2>2. /\ msg' \in [Msg -> {"free", "auto", "waiting", "writing", "released"}]
        /\ msg'[m] = "released" /\ \A n \in Msg : n # m => msg'[n] = msg[n]
    BY <2>1 DEF TypeOK, Put
  <2>3. TypeOK'
    BY <1>b, <2>1, <2>2 DEF TypeOK
  <2>4. WriteInv'
    BY <2>1, <2>2, SameWrites
  <2>5. SealedMessages'
    BY <2>1, <2>2 DEF SealedMessages, TypeOK
  <2>6. InUse # {}
    BY <2>1 DEF InUse
  <2> QED BY <2>1, <2>3, <2>4, <2>5, <2>6 DEF CloseInv, ProtocolOutlivesMessages
<1>14. ASSUME NEW m \in Msg, ReleaseMessage(m) PROVE Inv'
  <2>1. /\ msg[m] = "released" /\ msg' = Put(m, "free")
        /\ UNCHANGED <<connState, socket, readError, writeError, pendingRead,
                       pendingWrite, reading, writing, readTimer, writeTimer,
                       service, protocol, outputBuffer, closeTasks, releasing,
                       limited>>
    BY <1>14 DEF ReleaseMessage
  <2>2. /\ msg' \in [Msg -> {"free", "auto", "waiting", "writing", "released"}]
        /\ msg'[m] = "free" /\ \A n \in Msg : n # m => msg'[n] = msg[n]
    BY <2>1 DEF TypeOK, Put
  <2>3. TypeOK'
    BY <1>b, <2>1, <2>2 DEF TypeOK
  <2>4. WriteInv'
    BY <2>1, <2>2, SameWrites
  <2>5. SealedMessages'
    BY <2>1, <2>2 DEF SealedMessages, TypeOK
  <2>6. InUse # {}
    BY <2>1 DEF InUse
  <2> QED BY <2>1, <2>3, <2>4, <2>5, <2>6 DEF CloseInv, ProtocolOutlivesMessages
<1>15. CASE CloseConnection
  <2>1. /\ closeTasks = 1 /\ closeTasks' = 0 /\ connState = "REQUEST_CLOSE"
        /\ UNCHANGED <<readError, writeError, readTimer, writeTimer, msg,
                       outputBuffer, limited>>
        /\ protocol' = IF protocol = "attached" THEN ProtocolReleased
                                                ELSE protocol
    BY <1>15 DEF CloseConnection, TypeOK, CloseInv
  <2>2. Old /\ protocol' \in {"attached", "releasing", "gone"}
    BY <2>1 DEF SealedMessages, ProtocolOutlivesMessages, ProtocolReleased,
                InUse, TypeOK
  <2>3. CASE /\ connState' = "CLOSED"
             /\ CloseSocket(service, Stopped)
             /\ releasing' = (Stopped = <<>>)
    <3>1. Stopped = <<>> \/ Stopped = <<Handler("stop", TRUE)>>
      BY DEF Stopped
    <3>2. writing # None => Writes(service) = {}
      BY DEF WriteInv
    <3>3. service' \in Seq(HandlerType)
      BY <1>0, <2>3, <3>1, <3>2, Closed
    <3>4. WriteInv'
      BY <1>0, <2>1, <2>3, <3>1, <3>2, WriteInvClosed
    <3>5. Flags
      BY <1>b, <2>1, <2>3, Zenon
    <3>6. /\ socket' \in {"open", "closed", "deleted"}
          /\ pendingRead' \in 0 .. 1 /\ pendingWrite' \in 0 .. 1
          /\ reading' = "none" /\ writing' = None
      BY <2>3 DEF CloseSocket, TypeOK
    <3>7. connState' = "CLOSED"
      BY <2>3
    <3>8. TypeOK'
      BY <2>1, <2>2, <3>3, <3>5, <3>6, <3>7 DEF TypeOK, HandlerType
    <3> QED BY <2>1, <2>2, <3>4, <3>7, <3>8 DEF CloseInv
  <2>4. CASE /\ connState' = "CLOSING"
             /\ UNCHANGED <<socket, releasing, service, reading, writing,
                            pendingRead, pendingWrite>>
    <3>1. TypeOK'
      BY <1>b, <2>1, <2>2, <2>4 DEF TypeOK
    <3>2. WriteInv'
      BY <1>w, <2>1, <2>4, WriteInvFrame
    <3> QED BY <2>1, <2>2, <2>4, <3>1, <3>2 DEF CloseInv
  <2> QED BY <1>15, <2>1, <2>3, <2>4 DEF CloseConnection
<1>16. CASE RetryProtocol
  <2>1. /\ protocol' = ProtocolReleased
        /\ UNCHANGED <<connState, socket, readError, writeError, pendingRead,
                       pendingWrite, reading, writing, readTimer, writeTimer,
                       service, msg, outputBuffer, closeTasks, releasing,
                       limited>>
    BY <1>16 DEF RetryProtocol
  <2>2. Old /\ protocol' \in {"attached", "releasing", "gone"}
    BY <2>1 DEF SealedMessages, ProtocolOutlivesMessages, ProtocolReleased, InUse
  <2>3. TypeOK'
    BY <1>b, <2>1, <2>2 DEF TypeOK
  <2>4. WriteInv'
    BY <1>w, <2>1, WriteInvFrame
  <2> QED BY <2>1, <2>2, <2>3, <2>4 DEF CloseInv
<1>17. CASE RetryRelease
  <2>1. /\ service' = service \o Stopped
        /\ UNCHANGED <<connState, socket, readError, writeError, pendingRead,
                       pendingWrite, reading, writing, readTimer, writeTimer,
                       protocol, msg, outputBuffer, closeTasks, limited>>
    BY <1>17 DEF RetryRelease
  <2>2. /\ service' \in Seq(HandlerType) /\ Writes(service') = Writes(service)
        /\ WritesOf(service', msg)
    <3>1. CASE Stopped = <<>>
      <4>1. service' = service
        BY <1>0, <2>1, <3>1
      <4> QED BY <1>0, <4>1
    <3>2. CASE Stopped = <<Handler("stop", TRUE)>>
      <4>1. /\ Handler("stop", TRUE) \in HandlerType
            /\ Handler("stop", TRUE).on # "write"
        BY <1>h DEF Kinds
      <4>2. service' = Append(service, Handler("stop", TRUE))
        BY <1>0, <2>1, <3>2, <4>1, OneMore
      <4> QED BY <1>0, <4>1, <4>2, PutBehind
    <3> QED BY <3>1, <3>2 DEF Stopped
  <2>3. Flags
    BY <1>17, <1>b, <2>1, Zenon DEF RetryRelease
  <2>4. TypeOK'
    BY <2>1, <2>2, <2>3 DEF TypeOK, HandlerType
  <2>5. WriteInv'
    BY <2>1, <2>2, WriteInvFrame
  <2> QED BY <1>u, <2>1, <2>4, <2>5 DEF CloseInv
<1>18. CASE UNCHANGED vars
  <2>1. UNCHANGED <<connState, socket, pendingRead, pendingWrite, reading,
                    writing, service, protocol, msg, outputBuffer, closeTasks>>
    BY <1>18 DEF vars
  <2>2. Flags
    BY <1>18, <1>b, Zenon DEF vars
  <2>3. TypeOK'
    BY <2>1, <2>2 DEF TypeOK
  <2>4. WriteInv'
    BY <1>w, <2>1, WriteInvFrame
  <2> QED BY <1>u, <2>1, <2>3, <2>4 DEF CloseInv
<1> QED BY <1>1, <1>2, <1>3, <1>4, <1>5, <1>6, <1>7, <1>8, <1>9, <1>10, <1>11,
           <1>12, <1>13, <1>14, <1>15, <1>16, <1>17, <1>18 DEF Next, ServiceThread

LEMMA InvInit == Init => Inv
<1> SUFFICES ASSUME Init PROVE Inv
  OBVIOUS
<1> USE DEF Init
<1>1. TypeOK
  <2>1. msg \in [Msg -> {"free", "auto", "waiting", "writing", "released"}]
    OBVIOUS
  <2>2. /\ readError \in BOOLEAN /\ writeError \in BOOLEAN
        /\ readTimer \in BOOLEAN /\ writeTimer \in BOOLEAN
        /\ releasing \in BOOLEAN /\ limited \in BOOLEAN
    BY Zenon
  <2>3. service \in Seq([on : Kinds, ok : BOOLEAN, msg : Msg \cup {None}])
    OBVIOUS
  <2> QED BY <2>1, <2>2, <2>3 DEF TypeOK
<1>2. \A m \in Msg : msg[m] = "writing" <=> m = writing
  OBVIOUS
<1>3. WritesOf(service, msg) /\ Writes(service) = {}
  BY DEF WritesOf, Writes
<1>4. WriteInv
  BY <1>2, <1>3 DEF WriteInv, OneWrite
<1> QED BY <1>1, <1>4 DEF Inv, CloseInv, SealedMessages, ProtocolOutlivesMessages

LEMMA Always == Spec => []Inv
<1>1. Init => Inv
  BY InvInit
<1>2. Inv /\ [Next]_vars => Inv'
  BY InvStep
<1> QED BY <1>1, <1>2, PTL DEF Spec

-----------------------------------------------------------------------------
(* The theorems.                                                           *)

\* Every variable stays within its type; in particular the counters
\* m_pendingRead and m_pendingWrite never exceed one and never go below zero,
\* and never is more than one closeConnection queued.
THEOREM TypeCorrect == Spec => []TypeOK
<1>1. Inv => TypeOK
  BY DEF Inv
<1> QED BY <1>1, Always, PTL

\* However the two threads interleave and whatever fails, send never starts an
\* async_write while another is under way on the socket.
THEOREM OneWriteAtATime == Spec => []OneWrite
<1>1. Inv => OneWrite
  BY DEF Inv, WriteInv
<1> QED BY <1>1, Always, PTL

\* The buffer the game appends to is never one that was encrypted and handed
\* to the socket, or given back; and releaseProtocol deletes the protocol only
\* when no message holds a reference to it, and none takes one afterwards.
THEOREM MessagesStaySafe == Spec => []MessagesAreSafe
<1>1. Inv => MessagesAreSafe
  BY DEF Inv, MessagesAreSafe
<1> QED BY <1>1, Always, PTL

-----------------------------------------------------------------------------
(* The first and the last handlers.                                        *)

At(q, kinds) == {i \in DOMAIN q : q[i].on \in kinds}

\* No handler of the socket and no second onStop is behind an onStop.
Ends(q) ==
  \A i \in At(q, {"stop"}), j \in At(q, {"stop"} \union SocketHandlers) : j <= i

Final == socket = "deleted" \/ At(service, {"stop"}) # {}

\* What makes StopIsLast inductive: the socket of a closed connection is busy
\* with nothing, only a closed connection waits to be released, and by then
\* its protocol takes no more messages.
StopInv ==
  /\ StopIsLast
  /\ connState = "CLOSED" => reading = "none" /\ writing = None
  /\ releasing => connState = "CLOSED"
  /\ connState \in {"CLOSING", "CLOSED"} => protocol # "attached"

LEMMA Shorter ==
  ASSUME NEW q \in Seq(HandlerType), q # <<>>
  PROVE  /\ \A K : At(q, K) = {} => At(Tail(q), K) = {}
         /\ \A K : Head(q).on \notin K /\ At(q, K) # {} => At(Tail(q), K) # {}
         /\ Ends(q) => Ends(Tail(q))
         /\ Ends(q) /\ Head(q).on = "stop" =>
              At(Tail(q), {"stop"} \union SocketHandlers) = {}
<1>1. /\ Head(q) = q[1]
      /\ Len(q) \in Nat \ {0}
      /\ DOMAIN q = 1 .. Len(q)
      /\ DOMAIN Tail(q) = 1 .. (Len(q) - 1)
      /\ \A i \in 1 .. (Len(q) - 1) : Tail(q)[i] = q[i + 1]
  OBVIOUS
<1>2. \A K : \A i \in At(Tail(q), K) : i \in Nat \ {0} /\ i + 1 \in At(q, K)
  BY <1>1 DEF At
<1>3. ASSUME NEW K, Head(q).on \notin K, NEW i \in At(q, K)
      PROVE  i - 1 \in At(Tail(q), K)
  <2>1. i \in 1 .. Len(q) /\ q[i].on \in K /\ i # 1
    BY <1>1, <1>3 DEF At
  <2>2. i - 1 \in 1 .. (Len(q) - 1) /\ (i - 1) + 1 = i
    BY <1>1, <2>1
  <2> QED
    BY <1>1, <2>1, <2>2 DEF At
<1>4. Ends(q) => Ends(Tail(q))
  <2> SUFFICES ASSUME Ends(q), NEW i \in At(Tail(q), {"stop"}),
                      NEW j \in At(Tail(q), {"stop"} \union SocketHandlers)
               PROVE  j <= i
    BY DEF Ends
  <2>1. j + 1 <= i + 1
    BY <1>2 DEF Ends
  <2> QED
    BY <1>2, <2>1
<1>5. ASSUME Ends(q), Head(q).on = "stop",
             NEW j \in At(Tail(q), {"stop"} \union SocketHandlers)
      PROVE  FALSE
  <2>1. 1 \in At(q, {"stop"})
    BY <1>1, <1>5 DEF At
  <2>2. j + 1 <= 1
    BY <1>2, <1>5, <2>1 DEF Ends
  <2> QED
    BY <1>2, <2>2
<1> QED
  BY <1>2, <1>3, <1>4, <1>5

LEMMA Longer ==
  ASSUME NEW q \in Seq(HandlerType), NEW h \in HandlerType
  PROVE  /\ Append(q, h) \in Seq(HandlerType)
         /\ \A K : At(q, K) \subseteq At(Append(q, h), K)
         /\ \A K : h.on \notin K => At(Append(q, h), K) = At(q, K)
         /\ \A K : h.on \in K => At(Append(q, h), K) # {}
         /\ At(q, {"stop"}) = {} => Ends(Append(q, h))
<1>1. /\ Append(q, h) \in Seq(HandlerType)
      /\ DOMAIN q = 1 .. Len(q)
      /\ DOMAIN Append(q, h) = 1 .. (Len(q) + 1)
      /\ Len(q) \in Nat
      /\ Append(q, h)[Len(q) + 1] = h
      /\ \A i \in 1 .. Len(q) : Append(q, h)[i] = q[i]
  OBVIOUS
<1>2. \A K : \A i \in At(Append(q, h), K) :
        i \in 1 .. (Len(q) + 1) /\ (i = Len(q) + 1 \/ i \in At(q, K))
  BY <1>1 DEF At
<1>3. \A K : At(q, K) \subseteq At(Append(q, h), K)
  BY <1>1 DEF At
<1>4. \A K : h.on \notin K => Len(q) + 1 \notin At(Append(q, h), K)
  BY <1>1 DEF At
<1>5. \A K : h.on \in K => Len(q) + 1 \in At(Append(q, h), K)
  BY <1>1 DEF At
<1>6. \A K : h.on \notin K => At(Append(q, h), K) = At(q, K)
  BY <1>2, <1>3, <1>4
<1>7. At(q, {"stop"}) = {} => Ends(Append(q, h))
  BY <1>1, <1>2 DEF Ends
<1> QED
  BY <1>1, <1>3, <1>5, <1>6, <1>7

\* closeSocket ends with what is put behind it.
LEMMA Ending ==
  ASSUME TypeOK, NEW pre \in Seq(HandlerType), NEW post, CloseSocket(pre, post),
         At(pre, {"stop"}) = {}
  PROVE  /\ post = <<>> => At(service', {"stop"}) = {}
         /\ post = StoppedAtOnce => Ends(service') /\ At(service', {"stop"}) # {}
<1> DEFINE r == IF reading = "none" THEN <<>> ELSE <<Handler(reading, FALSE)>>
           w == IF writing = None THEN <<>> ELSE <<Wrote(writing, FALSE)>>
           t == pre \o r \o w
<1>1. pre \o r \in Seq(HandlerType) /\ At(pre \o r, {"stop"}) = {}
  <2>1. CASE reading = "none"
    <3>1. pre \o r = pre
      BY <2>1
    <3> QED
      BY <3>1
  <2>2. CASE reading # "none"
    <3>1. Handler(reading, FALSE) \in HandlerType /\ Handler(reading, FALSE).on # "stop"
      BY <2>2 DEF TypeOK, Handler, HandlerType, Kinds
    <3>2. pre \o r = Append(pre, Handler(reading, FALSE))
      BY <2>2, <3>1, OneMore
    <3>3. Handler(reading, FALSE).on \notin {"stop"}
      BY <3>1
    <3> DEFINE h == Handler(reading, FALSE)
    <3>4. h \in HandlerType /\ h.on \notin {"stop"} /\ pre \o r = Append(pre, h)
      BY <3>1, <3>2, <3>3
    <3> HIDE DEF r, h
    <3>5. Append(pre, h) \in Seq(HandlerType) /\ At(Append(pre, h), {"stop"}) = At(pre, {"stop"})
      BY ONLY <3>4, Longer, pre \in Seq(HandlerType)
    <3> QED
      BY <3>4, <3>5
  <2> QED
    BY <2>1, <2>2
<1>2. t \in Seq(HandlerType) /\ At(t, {"stop"}) = {}
  <2> DEFINE s == pre \o r
  <2>0. s \in Seq(HandlerType) /\ At(s, {"stop"}) = {} /\ t = s \o w
    BY <1>1
  <2> HIDE DEF s, t
  <2>1. CASE writing = None
    <3>1. s \o w = s
      BY <2>0, <2>1
    <3> QED
      BY <2>0, <3>1
  <2>2. CASE writing # None
    <3>1. Wrote(writing, FALSE) \in HandlerType /\ Wrote(writing, FALSE).on \notin {"stop"}
      BY <2>2 DEF TypeOK, Wrote, HandlerType, Kinds
    <3>2. s \o w = Append(s, Wrote(writing, FALSE))
      BY <2>0, <2>2, <3>1, OneMore
    <3> DEFINE h == Wrote(writing, FALSE)
    <3>3. h \in HandlerType /\ h.on \notin {"stop"} /\ s \o w = Append(s, h)
      BY <3>1, <3>2
    <3> HIDE DEF w, h
    <3>4. Append(s, h) \in Seq(HandlerType) /\ At(Append(s, h), {"stop"}) = At(s, {"stop"})
      BY ONLY <2>0, <3>3, Longer
    <3> QED
      BY <2>0, <3>3, <3>4
  <2> QED
    BY <2>1, <2>2
<1>3. service' = t \o post
  BY DEF CloseSocket
<1> HIDE DEF t
<1>4. ASSUME post = <<>> PROVE At(service', {"stop"}) = {}
  <2>1. t \o post = t
    BY <1>2, <1>4
  <2> QED
    BY <1>2, <1>3, <2>1
<1>5. ASSUME post = StoppedAtOnce
      PROVE  Ends(service') /\ At(service', {"stop"}) # {}
  <2>1. Handler("stop", TRUE) \in HandlerType /\ Handler("stop", TRUE).on \in {"stop"}
    BY DEF Handler, HandlerType, Kinds
  <2>2. t \o post = Append(t, Handler("stop", TRUE))
    BY <1>2, <1>5, <2>1, OneMore DEF StoppedAtOnce
  <2> DEFINE h == Handler("stop", TRUE)
  <2>3. h \in HandlerType /\ h.on \in {"stop"} /\ service' = Append(t, h)
    BY <1>3, <2>1, <2>2
  <2> HIDE DEF h
  <2>4. Ends(Append(t, h)) /\ At(Append(t, h), {"stop"}) # {}
    BY ONLY <1>2, <2>3, Longer
  <2> QED
    BY <2>3, <2>4
<1> QED
  BY <1>4, <1>5

\* As long as nothing is final, and nothing becomes so, little must be kept.
LEMMA NotFinal ==
  ASSUME socket' # "deleted", At(service', {"stop"}) = {},
         connState' = "CLOSED" => reading' = "none" /\ writing' = None,
         releasing' => connState' = "CLOSED",
         connState' \in {"CLOSING", "CLOSED"} => protocol' # "attached"
  PROVE  StopInv'
<1>1. Queued({"stop"})' = {}
  BY DEF Queued, At
<1> QED
  BY <1>1 DEF StopInv, StopIsLast

LEMMA Before ==
  ASSUME Inv, StopInv, connState # "CLOSED" \/ InUse # {} \/ reading # "none"
                         \/ writing # None \/ releasing
  PROVE  socket # "deleted" /\ At(service, {"stop"}) = {}
BY DEF StopInv, StopIsLast, Queued, At

\* A handler is taken and changes nothing of the connection, but that the
\* socket may be closed.
LEMMA TakenOff ==
  ASSUME Inv, StopInv, service # <<>>, Head(service).on # "stop",
         service' = Tail(service),
         socket' = socket \/ (socket # "deleted" /\ socket' # "deleted"),
         UNCHANGED <<connState, closeTasks, releasing, reading, writing, msg, protocol>>
  PROVE  StopInv'
<1>1. service \in Seq(HandlerType)
  BY DEF Inv, TypeOK, HandlerType
<1>2. CASE socket # "deleted" /\ At(service, {"stop"}) = {}
  <2>1. socket' # "deleted" /\ At(service', {"stop"}) = {}
    BY <1>1, <1>2, Shorter
  <2> QED
    BY <2>1, NotFinal DEF StopInv
<1>3. CASE socket = "deleted" \/ At(service, {"stop"}) # {}
  <2>1. /\ connState = "CLOSED" /\ closeTasks = 0 /\ ~releasing
        /\ reading = "none" /\ writing = None /\ InUse = {}
        /\ socket = "deleted" => At(service, {"stop"} \union SocketHandlers) = {}
        /\ Ends(service)
    BY <1>3 DEF StopInv, StopIsLast, Queued, At, Ends
  <2>2. /\ socket = "deleted" => At(service', {"stop"} \union SocketHandlers) = {}
        /\ Ends(service')
    BY <1>1, <2>1, Shorter
  <2>3. /\ connState' = "CLOSED" /\ closeTasks' = 0 /\ ~releasing'
        /\ reading' = "none" /\ writing' = None /\ InUse' = {}
    BY <2>1 DEF InUse
  <2>4. socket' = "deleted" => socket = "deleted"
    OBVIOUS
  <2>5. StopIsLast'
    BY <2>2, <2>3, <2>4 DEF StopIsLast, Queued, At, Ends
  <2> QED
    BY <2>3, <2>5 DEF StopInv
<1> QED
  BY <1>2, <1>3

\* A handler is taken, or none, while nothing is final; the connection may be
\* closed again.
LEMMA StaysBefore ==
  ASSUME Inv, StopInv, socket # "deleted", At(service, {"stop"}) = {},
         \/ service' = service
         \/ service # <<>> /\ service' = Tail(service)
         \/ \E h \in HandlerType : h.on # "stop" /\ service' = Append(service, h)
         \/ service # <<>> /\ CloseSocket(Tail(service), <<>>),
         connState' = connState \/ Close,
         \/ UNCHANGED <<reading, writing>>
         \/ connState \notin {"CLOSING", "CLOSED"} /\ connState' # "CLOSED"
         \/ reading' = "none" /\ writing' = None,
         socket' # "deleted", UNCHANGED <<releasing, protocol>>
  PROVE  StopInv'
<1>1. service \in Seq(HandlerType)
  BY DEF Inv, TypeOK, HandlerType
<1>2. At(service', {"stop"}) = {}
  <2>1. CASE service' = service
    BY <2>1
  <2>2. CASE service # <<>> /\ service' = Tail(service)
    BY <1>1, <2>2, Shorter
  <2>3. ASSUME NEW h \in HandlerType, h.on # "stop", service' = Append(service, h)
        PROVE  At(service', {"stop"}) = {}
    <3>1. h.on \notin {"stop"}
      BY <2>3
    <3> QED
      BY <1>1, <2>3, <3>1, Longer
  <2>4. CASE service # <<>> /\ CloseSocket(Tail(service), <<>>)
    <3>1. Tail(service) \in Seq(HandlerType) /\ At(Tail(service), {"stop"}) = {}
      BY <1>1, <2>4, Shorter
    <3> QED
      BY <2>4, <3>1, Ending DEF Inv
  <2> QED
    BY <2>1, <2>2, <2>3, <2>4
<1>3. /\ connState' = "CLOSED" => connState = "CLOSED"
      /\ connState = "CLOSED" => connState' = "CLOSED"
      /\ connState' = "CLOSING" => connState = "CLOSING"
  BY DEF Close
<1>4. connState' = "CLOSED" => reading' = "none" /\ writing' = None
  BY <1>3 DEF StopInv
<1> QED
  BY <1>2, <1>3, <1>4, NotFinal DEF StopInv

LEMMA StopStep == Inv /\ StopInv /\ [Next]_vars => StopInv'
<1> SUFFICES ASSUME Inv, StopInv, [Next]_vars PROVE StopInv'
  OBVIOUS
<1>0. /\ service \in Seq(HandlerType) /\ TypeOK /\ WriteInv
      /\ closeTasks = (IF connState = "REQUEST_CLOSE" THEN 1 ELSE 0)
  BY DEF Inv, TypeOK, HandlerType, CloseInv
<1>h. \A k \in Kinds, ok \in BOOLEAN :
        Handler(k, ok) \in HandlerType /\ Handler(k, ok).on = k
  BY DEF Handler, HandlerType
<1>1. CASE ReadEnds
  <2>1. PICK ok \in BOOLEAN : service' = Append(service, Handler(reading, ok))
    BY <1>1 DEF ReadEnds
  <2>2. Handler(reading, ok) \in HandlerType /\ Handler(reading, ok).on # "stop"
    BY <1>0, <1>1, <1>h DEF ReadEnds, TypeOK, Kinds
  <2>3. socket # "deleted" /\ At(service, {"stop"}) = {} /\ connState # "CLOSED"
    BY <1>1, Before DEF ReadEnds, StopInv
  <2>4. /\ UNCHANGED <<connState, socket, releasing, protocol, writing>>
        /\ reading' = "none"
    BY <1>1 DEF ReadEnds
  <2> HIDE DEF Inv
  <2>5. At(service', {"stop"}) = {}
    <3>1. Handler(reading, ok).on \notin {"stop"}
      BY <2>2
    <3> QED
      BY <1>0, <2>1, <2>2, <2>3, <3>1, Longer
  <2> QED
    BY <2>3, <2>4, <2>5, NotFinal DEF StopInv
<1>2. CASE WriteEnds
  <2>1. PICK ok \in BOOLEAN : service' = Append(service, Wrote(writing, ok))
    BY <1>2 DEF WriteEnds
  <2>2. Wrote(writing, ok) \in HandlerType /\ Wrote(writing, ok).on \notin {"stop"}
    BY <1>0, <1>2 DEF WriteEnds, TypeOK, Kinds, Wrote, HandlerType
  <2>3. socket # "deleted" /\ At(service, {"stop"}) = {} /\ connState # "CLOSED"
    BY <1>2, Before DEF WriteEnds, StopInv
  <2>4. UNCHANGED <<connState, socket, releasing, protocol>>
    BY <1>2 DEF WriteEnds
  <2>5. At(service', {"stop"}) = {}
    BY <1>0, <2>1, <2>2, <2>3, Longer
  <2> QED
    BY <2>3, <2>4, <2>5, NotFinal DEF StopInv
<1>3. CASE TimersExpire
  <2>1. PICK k \in {"readTimeout", "writeTimeout"} :
          service' = Append(service, Handler(k, TRUE))
    BY <1>3 DEF TimersExpire
  <2>2. Handler(k, TRUE) \in HandlerType /\ Handler(k, TRUE).on = k
    BY <1>h DEF Kinds
  <2> DEFINE h == Handler(k, TRUE)
  <2>3. \A K : k \notin K => At(service', K) = At(service, K)
    <3> HIDE DEF h
    <3>1. h \in HandlerType /\ h.on = k /\ service' = Append(service, h)
      BY <2>1, <2>2 DEF h
    <3>2. \A K : h.on \notin K => At(Append(service, h), K) = At(service, K)
      BY ONLY <1>0, <3>1, Longer
    <3> QED
      BY <3>1, <3>2
  <2>4. /\ At(service', {"stop"}) = At(service, {"stop"})
        /\ At(service', {"stop"} \union SocketHandlers)
             = At(service, {"stop"} \union SocketHandlers)
    BY <2>3 DEF SocketHandlers
  <2>5. UNCHANGED <<connState, socket, releasing, protocol, reading, writing, msg,
                    closeTasks>>
    BY <1>3 DEF TimersExpire
  <2> QED
    BY <2>4, <2>5 DEF StopInv, StopIsLast, Queued, At, InUse
<1>4. ASSUME NEW kind \in {"header", "packet"}, ReadFails(kind) PROVE StopInv'
  <2>1. /\ service # <<>> /\ Head(service).on # "stop" /\ service' = Tail(service)
        /\ Close /\ UNCHANGED <<socket, releasing, protocol, reading, writing, msg>>
    BY <1>4 DEF ReadFails, Runs
  <2>2. CASE connState = "CLOSED"
    <3>1. UNCHANGED <<connState, closeTasks>>
      BY <2>1, <2>2 DEF Close
    <3> QED
      BY <2>1, <3>1, TakenOff
  <2>3. CASE connState # "CLOSED"
    <3>1. socket # "deleted" /\ At(service, {"stop"}) = {}
      BY <2>3, Before
    <3> QED
      BY <2>1, <3>1, StaysBefore
  <2> QED
    BY <2>2, <2>3
<1>5. CASE ParseHeader \/ ParsePacket
  <2>1. /\ connState = "OPEN" /\ service # <<>> /\ service' = Tail(service)
        /\ connState' \in {"OPEN", "REQUEST_CLOSE"}
        /\ UNCHANGED <<socket, releasing, protocol>>
    BY <1>5 DEF ParseHeader, ParsePacket, Runs, Close
  <2>2. socket # "deleted" /\ At(service, {"stop"}) = {}
    BY <2>1, Before
  <2>3. At(service', {"stop"}) = {}
    BY <1>0, <2>1, <2>2, Shorter
  <2> QED
    BY <2>1, <2>2, <2>3, NotFinal DEF StopInv
<1>6. CASE OnWrite
  <2>1. service # <<>> /\ Head(service).on = "write"
    BY <1>6 DEF OnWrite, Runs
  <2>2. Head(service).msg \in Msg /\ msg[Head(service).msg] = "writing"
    BY <1>0, <2>1, TakeOff DEF WriteInv
  <2>3. socket # "deleted" /\ At(service, {"stop"}) = {}
    BY <2>2, Before DEF InUse
  <2>4. UNCHANGED <<releasing, protocol>>
    BY <1>6 DEF OnWrite
  <2>5. CASE connState # "OPEN" \/ writeError'
    <3>1. Close /\ CloseSocket(Tail(service), <<>>)
      BY <1>6, <2>5 DEF OnWrite
    <3>2. reading' = "none" /\ writing' = None /\ socket' # "deleted"
      BY <2>3, <3>1 DEF CloseSocket
    <3> QED
      BY <2>1, <2>3, <2>4, <3>1, <3>2, StaysBefore
  <2>6. CASE ~(connState # "OPEN" \/ writeError')
    <3>1. /\ service' = Tail(service)
          /\ UNCHANGED <<connState, closeTasks, socket, reading, writing>>
      BY <1>6, <2>6 DEF OnWrite
    <3> QED
      BY <2>1, <2>3, <2>4, <3>1, StaysBefore
  <2> QED
    BY <2>5, <2>6
<1>7. CASE OnTimeout
  <2>1. /\ service # <<>> /\ Head(service).on # "stop"
        /\ UNCHANGED <<releasing, protocol, msg>>
    BY <1>7 DEF OnTimeout, Runs
  <2>2. CASE service' = Tail(service)
              /\ UNCHANGED <<connState, closeTasks, socket, reading, writing>>
    BY <2>1, <2>2, TakenOff
  <2>3. CASE socket # "deleted" /\ Close /\ CloseSocket(Tail(service), <<>>)
    <3>1. reading' = "none" /\ writing' = None /\ socket' # "deleted"
      BY <2>3 DEF CloseSocket
    <3>2. CASE At(service, {"stop"}) = {}
      BY <2>1, <2>3, <3>1, <3>2, StaysBefore
    <3>3. CASE At(service, {"stop"}) # {}
      <4>1. connState = "CLOSED" /\ reading = "none" /\ writing = None
        BY <3>3, Before
      <4>2. UNCHANGED <<connState, closeTasks>>
        BY <2>3, <4>1 DEF Close
      <4>3. Tail(service) \in Seq(HandlerType)
        BY <1>0, <2>1
      <4>4. service' = Tail(service)
        BY <2>3, <4>1, <4>3 DEF CloseSocket
      <4> QED
        BY <2>1, <2>3, <3>1, <4>1, <4>2, <4>4, TakenOff
    <3> QED
      BY <3>2, <3>3
  <2> QED
    BY <1>7, <2>2, <2>3 DEF OnTimeout
<1>8. CASE OnStop
  <2>1. /\ service # <<>> /\ Head(service).on = "stop" /\ service' = Tail(service)
        /\ socket' = "deleted"
        /\ UNCHANGED <<connState, closeTasks, releasing, reading, writing, msg, protocol>>
    BY <1>8 DEF OnStop, Runs
  <2>2. At(service, {"stop"}) # {}
    <3>1. At(service, {"stop"}) = {} => FALSE
      <4>1. Len(service) \in Nat \ {0} /\ Head(service) = service[1]
            /\ DOMAIN service = 1 .. Len(service)
        BY <1>0, <2>1
      <4> QED
        BY <2>1, <4>1 DEF At
    <3> QED
      BY <3>1
  <2>3. /\ connState = "CLOSED" /\ closeTasks = 0 /\ ~releasing
        /\ reading = "none" /\ writing = None /\ InUse = {}
        /\ Ends(service)
    BY <2>2 DEF StopInv, StopIsLast, Queued, At, Ends
  <2>4. At(service', {"stop"} \union SocketHandlers) = {}
    BY <1>0, <2>1, <2>3, Shorter
  <2>5. At(service', {"stop"}) = {}
    BY <2>4 DEF At
  <2>6. StopIsLast'
    BY <2>1, <2>3, <2>4, <2>5 DEF StopIsLast, Queued, At, InUse
  <2> QED
    BY <2>1, <2>3, <2>6 DEF StopInv
<1>9. CASE GameWrites \/ GameCloses
  <2>1. /\ protocol = "attached" /\ UNCHANGED <<service, socket, releasing, protocol>>
        /\ connState' = connState \/ Close
    BY <1>9 DEF GameWrites, GameCloses
  <2>2. connState \notin {"CLOSING", "CLOSED"} /\ connState' # "CLOSED"
    BY <2>1 DEF StopInv, Close
  <2>3. socket # "deleted" /\ At(service, {"stop"}) = {}
    BY <2>2, Before
  <2> QED
    BY <2>1, <2>2, <2>3, StaysBefore
<1>10. ASSUME NEW m \in Msg, SendAll(m) \/ DropOld(m) \/ ReleaseMessage(m)
       PROVE  StopInv'
  <2>1. m \in InUse
    BY <1>10 DEF SendAll, DropOld, ReleaseMessage, InUse
  <2>2. socket # "deleted" /\ At(service, {"stop"}) = {}
    BY <2>1, Before
  <2>3. UNCHANGED <<service, connState, socket, releasing, protocol, reading>>
    BY <1>10 DEF SendAll, DropOld, ReleaseMessage
  <2>4. writing' = writing \/ connState = "OPEN"
    BY <1>10 DEF SendAll, DropOld, ReleaseMessage, StartWrite, Sent
  <2> QED
    BY <2>2, <2>3, <2>4, NotFinal DEF StopInv
<1>11. CASE CloseConnection
  <2>1. /\ connState = "REQUEST_CLOSE" /\ closeTasks' = 0 /\ UNCHANGED msg
        /\ protocol' = IF protocol = "attached" THEN ProtocolReleased ELSE protocol
    BY <1>0, <1>11 DEF CloseConnection
  <2>2. /\ socket # "deleted" /\ At(service, {"stop"}) = {}
        /\ ~releasing /\ protocol' # "attached"
    BY <2>1, Before DEF StopInv, ProtocolReleased
  <2>3. CASE ~(pendingWrite = 0 \/ writeError)
    <3>1. /\ connState' = "CLOSING" /\ UNCHANGED <<socket, releasing, service>>
      BY <1>11, <2>1, <2>3 DEF CloseConnection
    <3> QED
      BY <2>2, <3>1, NotFinal
  <2>4. CASE pendingWrite = 0 \/ writeError
    <3>1. /\ connState' = "CLOSED" /\ CloseSocket(service, Stopped)
          /\ releasing' = (Stopped = <<>>)
      BY <1>11, <2>1, <2>4 DEF CloseConnection
    <3>2. reading' = "none" /\ writing' = None /\ socket' # "deleted"
      BY <2>2, <3>1 DEF CloseSocket
    <3>3. CASE InUse # {}
      <4>1. Stopped = <<>>
        BY <3>3 DEF Stopped
      <4>2. At(service', {"stop"}) = {}
        BY <1>0, <2>2, <3>1, <4>1, Ending
      <4> QED
        BY <2>2, <3>1, <3>2, <4>2, NotFinal
    <3>4. CASE InUse = {}
      <4>1. Stopped = StoppedAtOnce /\ Stopped # <<>>
        BY <3>4 DEF Stopped, StoppedAtOnce
      <4>2. Ends(service')
        BY <1>0, <2>2, <3>1, <4>1, Ending
      <4>3. ~releasing' /\ InUse' = {}
        BY <2>1, <3>1, <3>4, <4>1 DEF InUse
      <4>4. StopIsLast'
        BY <2>1, <3>1, <3>2, <4>2, <4>3 DEF StopIsLast, Ends, Queued, At
      <4> QED
        BY <2>2, <3>1, <3>2, <4>3, <4>4 DEF StopInv
    <3> QED
      BY <3>3, <3>4
  <2> QED
    BY <2>3, <2>4
<1>12. CASE RetryProtocol
  <2>1. /\ protocol' # "attached"
        /\ UNCHANGED <<connState, socket, releasing, service, reading, writing, msg,
                       closeTasks>>
    BY <1>12 DEF RetryProtocol, ProtocolReleased
  <2> QED
    BY <2>1 DEF StopInv, StopIsLast, Queued, InUse
<1>13. CASE RetryRelease
  <2>1. /\ releasing /\ service' = service \o Stopped /\ releasing' = (Stopped = <<>>)
        /\ UNCHANGED <<connState, socket, protocol, reading, writing, msg, closeTasks>>
    BY <1>13 DEF RetryRelease
  <2>2. /\ connState = "CLOSED" /\ socket # "deleted" /\ At(service, {"stop"}) = {}
        /\ reading = "none" /\ writing = None /\ closeTasks = 0
    BY <1>0, <2>1, Before DEF StopInv
  <2>3. CASE InUse # {}
    <3>1. Stopped = <<>>
      BY <2>3 DEF Stopped
    <3>2. service' = service
      BY <1>0, <2>1, <3>1
    <3> QED
      BY <2>1, <2>2, <3>2, NotFinal DEF StopInv
  <2>4. CASE InUse = {}
    <3>1. Stopped = <<Handler("stop", TRUE)>> /\ Stopped # <<>>
      BY <2>4 DEF Stopped
    <3>2. Handler("stop", TRUE) \in HandlerType
      BY <1>h DEF Kinds
    <3>3. service' = Append(service, Handler("stop", TRUE))
      BY <1>0, <2>1, <3>1, <3>2, OneMore
    <3>4. Ends(service')
      BY <1>0, <2>2, <3>2, <3>3, Longer
    <3>5. ~releasing' /\ InUse' = {}
      BY <2>1, <2>4, <3>1 DEF InUse
    <3>6. StopIsLast'
      BY <2>1, <2>2, <3>4, <3>5 DEF StopIsLast, Ends, Queued, At
    <3> QED
      BY <2>1, <2>2, <3>5, <3>6 DEF StopInv
  <2> QED
    BY <2>3, <2>4
<1>14. CASE UNCHANGED vars
  BY <1>14 DEF vars, StopInv, StopIsLast, Queued, InUse
<1> QED
  BY <1>1, <1>2, <1>3, <1>4, <1>5, <1>6, <1>7, <1>8, <1>9, <1>10, <1>11, <1>12,
     <1>13, <1>14 DEF Next, ServiceThread

\* onStop comes once and last: when it is due or done no handler of the socket
\* is behind it, no closeConnection and no releaseConnection is queued with its
\* plain pointer, and no message refers to the connection.
THEOREM StopComesLast == Spec => []StopIsLast
<1>1. Init => StopInv
  BY DEF Init, StopInv, StopIsLast, Queued
<1>2. Inv /\ StopInv /\ [Next]_vars => StopInv'
  BY StopStep
<1>3. StopInv => StopIsLast
  BY DEF StopInv
<1> QED
  BY <1>1, <1>2, <1>3, Always, PTL DEF Spec

-----------------------------------------------------------------------------
(* Reads.                                                                  *)

LEMMA ListeningStep == TypeOK /\ OpenListens /\ [Next]_vars => OpenListens'
<1> SUFFICES ASSUME TypeOK, OpenListens, [Next]_vars, connState' = "OPEN", ~limited'
             PROVE  reading' # "none" \/ At(service', {"header", "packet"}) # {}
  BY DEF OpenListens, Queued, At
<1>0. service \in Seq(HandlerType)
  BY DEF TypeOK, HandlerType
<1>1. CASE ~limited /\ connState = "OPEN"
  <2>0. reading # "none" \/ At(service, {"header", "packet"}) # {}
    BY <1>1 DEF OpenListens, Queued, At
  <2>1. CASE ReadEnds
    <3>1. PICK ok \in BOOLEAN : service' = Append(service, Handler(reading, ok))
      BY <2>1 DEF ReadEnds
    <3>2. Handler(reading, ok) \in HandlerType
          /\ Handler(reading, ok).on \in {"header", "packet"}
      BY <2>1 DEF ReadEnds, TypeOK, Handler, HandlerType, Kinds
    <3> QED
      BY <1>0, <3>1, <3>2, Longer
  <2>2. CASE WriteEnds \/ TimersExpire
    <3>1. PICK h \in HandlerType : service' = Append(service, h) /\ reading' = reading
      <4>1. CASE WriteEnds
        BY <4>1 DEF WriteEnds, TypeOK, Wrote, HandlerType, Kinds
      <4>2. CASE TimersExpire
        BY <4>2 DEF TimersExpire, Handler, HandlerType, Kinds
      <4> QED
        BY <2>2, <4>1, <4>2
    <3> QED
      BY <1>0, <2>0, <3>1, Longer
  <2>3. CASE ParseHeader \/ ParsePacket
    <3>1. CASE ParseHeader
      BY <1>1, <3>1 DEF ParseHeader
    <3>2. CASE ParsePacket
      BY <3>2 DEF ParsePacket
    <3> QED
      BY <2>3, <3>1, <3>2
  <2>4. CASE OnWrite \/ OnTimeout \/ OnStop
    <3>1. /\ service # <<>> /\ Head(service).on \notin {"header", "packet"}
          /\ service' = Tail(service) /\ reading' = reading
      <4>1. CASE OnWrite
        BY <1>1, <4>1 DEF OnWrite, Runs, Close
      <4>2. CASE OnTimeout
        BY <1>1, <4>2 DEF OnTimeout, Runs, Close
      <4>3. CASE OnStop
        BY <4>3 DEF OnStop, Runs
      <4> QED
        BY <2>4, <4>1, <4>2, <4>3
    <3> QED
      BY <1>0, <2>0, <3>1, Shorter
  <2>5. CASE RetryRelease
    <3>1. /\ reading' = reading /\ service' = service \o Stopped
      BY <2>5 DEF RetryRelease
    <3>2. Handler("stop", TRUE) \in HandlerType
      BY DEF Handler, HandlerType, Kinds
    <3>3. service' = service \/ service' = Append(service, Handler("stop", TRUE))
      <4>1. service \o <<>> = service
        BY <1>0
      <4>2. service \o <<Handler("stop", TRUE)>> = Append(service, Handler("stop", TRUE))
        BY <1>0, <3>2, OneMore
      <4> QED
        BY <3>1, <4>1, <4>2 DEF Stopped
    <3> QED
      BY <1>0, <2>0, <3>1, <3>2, <3>3, Longer
  <2>6. CASE UNCHANGED <<reading, service>>
    BY <2>0, <2>6
  <2>7. CASE CloseConnection
    BY <1>1, <2>0, <2>7 DEF CloseConnection
  <2>8. ASSUME NEW kind \in {"header", "packet"}, ReadFails(kind) PROVE FALSE
    BY <1>1, <2>8 DEF ReadFails, Close
  <2> QED
    <3>1. CASE GameWrites \/ GameCloses \/ RetryProtocol \/ UNCHANGED vars
      BY <2>6, <3>1 DEF GameWrites, GameCloses, RetryProtocol, vars
    <3>2. ASSUME NEW m \in Msg, SendAll(m) \/ DropOld(m) \/ ReleaseMessage(m)
          PROVE  UNCHANGED <<reading, service>>
      BY <3>2 DEF SendAll, DropOld, ReleaseMessage
    <3> QED
      BY <2>1, <2>2, <2>3, <2>4, <2>5, <2>6, <2>7, <2>8, <3>1, <3>2
        DEF Next, ServiceThread
<1>2. limited => limited'
  BY Zenon DEF Next, ServiceThread, ReadEnds, WriteEnds, TimersExpire, ReadFails,
     ParseHeader, ParsePacket, OnWrite, OnTimeout, OnStop, GameWrites, GameCloses,
     SendAll, DropOld, ReleaseMessage, CloseConnection, RetryProtocol, RetryRelease, vars
<1>3. connState # "OPEN" => connState' # "OPEN"
  BY DEF Next, ServiceThread, ReadEnds, WriteEnds, TimersExpire, ReadFails,
     ParseHeader, ParsePacket, OnWrite, OnTimeout, OnStop, GameWrites, GameCloses,
     SendAll, DropOld, ReleaseMessage, CloseConnection, RetryProtocol, RetryRelease,
     vars, Close
<1> QED
  BY <1>1, <1>2, <1>3

\* As long as the connection is open and its packets come slowly enough, a read
\* is under way or its handler is due: no message of the client is missed.
THEOREM ClientIsHeard == Spec => []OpenListens
<1>1. Init => OpenListens
  BY DEF Init, OpenListens
<1>2. TypeOK /\ OpenListens /\ [Next]_vars => OpenListens'
  BY ListeningStep
<1> QED
  BY <1>1, <1>2, TypeCorrect, PTL DEF Spec

=============================================================================
