----------------------------- MODULE HubProofs -----------------------------
(***************************************************************************)
(* Theorems about the hub, for every set of calls, connections, browsers   *)
(* and sessions, and every bound.                                          *)
(***************************************************************************)
EXTENDS Hub, SequenceTheorems, TLAPS

LEMMA EmptyQueues ==
    /\ <<>> \in Seq(Reply)
    /\ <<>> \in Seq(Message)
    /\ <<>> \in Seq(ToolCall)
BY EmptySeq

LEMMA AppendReply ==
    ASSUME NEW q \in Seq(Reply), NEW r \in Reply
    PROVE  Append(q, r) \in Seq(Reply)
BY AppendProperties

\* A call that writes, waits or drops has an id.
HasId == \A c \in Calls : pc[c] \in {"write", "await", "drop"} => callId[c] \in Ids

\* A reader that is about to send holds a result and a call to send it to.
DeliversResult == \A k \in Conns :
    phase[k] = "delivering" => inHand[k] \in Result /\ target[k] \in Calls

TypeInv == TypeOK /\ HasId /\ DeliversResult

\* The initial state is well typed.
LEMMA TypeInit == Init => TypeInv
<1> SUFFICES ASSUME Init PROVE TypeInv
  OBVIOUS
<1> USE HubAssumption
<1>1. CallsTyped
  BY DEF Init, CallsTyped, PCs, Outcomes, Reply
<1>2. TableTyped
  BY EmptyQueues DEF Init, TableTyped
<1>3. ServeTyped
  BY DEF Init, ServeTyped, Phases, Message
<1>4. ExtTyped
  BY EmptyQueues DEF Init, ExtTyped
<1>5. HasId /\ DeliversResult
  BY DEF Init, HasId, DeliversResult
<1>. QED
  BY <1>1, <1>2, <1>3, <1>4, <1>5 DEF TypeInv, TypeOK

\* The steps of a call keep the state well typed.
LEMMA TypeCall == ASSUME TypeInv, NEW c \in Calls, CallStep(c) PROVE TypeInv'
<1> USE HubAssumption
<1> USE DEF TypeInv, TypeOK, CallsTyped, TableTyped, ServeTyped, ExtTyped, HasId, DeliversResult,
            PCs, Outcomes, Reply, callVars, tableVars, attachVars, readerVars, extVars
<1>1. CASE StartCall(c)
  BY <1>1 DEF StartCall
<1>2. CASE AcquireSession(c)
  BY <1>2 DEF AcquireSession
<1>3. CASE GiveUpQueued(c)
  BY <1>3 DEF GiveUpQueued
<1>4. CASE CheckExtension(c)
  BY <1>4 DEF CheckExtension
<1>5. CASE Wake(c)
  BY <1>5 DEF Wake
<1>6. CASE GiveUpParked(c)
  BY <1>6 DEF GiveUpParked, Return
<1>7. CASE Register(c)
  <2>1. CASE /\ \E o \in {"noExtension", "mismatch"} : Return(c, o)
             /\ UNCHANGED <<callId, callConn, tableVars>>
    BY <1>7, <2>1 DEF Register, Return
  <2>2. CASE /\ seq < MaxSeq
             /\ seq' = seq + 1
             /\ pending' = [pending EXCEPT ![FreshId] = c]
             /\ chan' = [chan EXCEPT ![c] = <<>>]
             /\ callId' = [callId EXCEPT ![c] = FreshId]
             /\ callConn' = [callConn EXCEPT ![c] = conn]
             /\ conn # NoConn
             /\ pc' = [pc EXCEPT ![c] = "write"]
             /\ UNCHANGED outcome
    <3>1. FreshId \in Ids /\ FreshId \in 0..MaxSeq /\ seq' \in 0..MaxSeq
      BY <2>2 DEF FreshId, Ids
    <3>2. chan' \in [Calls -> Seq(Reply)]
      BY <2>2, EmptyQueues
    <3>3. CallsTyped'
      BY <1>7, <2>2, <3>1 DEF Register
    <3>4. TableTyped'
      BY <1>7, <2>2, <3>1, <3>2 DEF Register
    <3>5. HasId' /\ DeliversResult'
      BY <1>7, <2>2, <3>1 DEF Register
    <3>. QED
      BY <1>7, <3>3, <3>4, <3>5 DEF Register
  <2>. QED
    BY <1>7, <2>1, <2>2 DEF Register
<1>8. CASE Write(c)
  <2>1. ASSUME pc[c] = "write"
        PROVE  [id |-> callId[c], of |-> c] \in ToolCall
    BY <2>1 DEF ToolCall
  <2>2. outq' \in [Conns -> Seq(ToolCall)]
    <3>1. CASE UNCHANGED outq
      BY <3>1
    <3>2. CASE /\ pc[c] = "write"
               /\ outq' = [outq EXCEPT ![callConn[c]] =
                              Append(@, [id |-> callId[c], of |-> c])]
      BY <3>2, <2>1, AppendProperties
    <3>. QED
      BY <1>8, <3>1, <3>2 DEF Write
  <2>3. pc' \in [Calls -> PCs]
    <3>1. \/ pc' = [pc EXCEPT ![c] = "drop"]
          \/ pc' = [pc EXCEPT ![c] = "await"]
      BY <1>8 DEF Write
    <3>. QED
      BY <3>1
  <2>4. CallsTyped'
    <3>1. outcome' \in [Calls -> Outcomes]
      BY <1>8 DEF Write
    <3>. QED
      BY <1>8, <2>3, <3>1 DEF Write
  <2>5. HasId' /\ DeliversResult'
    BY <1>8 DEF Write
  <2>6. TableTyped' /\ ServeTyped' /\ ExtTyped'
    BY <1>8, <2>2 DEF Write
  <2>. QED
    BY <2>4, <2>5, <2>6
<1>9. CASE Expire(c)
  BY <1>9 DEF Expire
<1>10. CASE Receive(c)
  <2>1. chan[c] # <<>> => Head(chan[c]) \in Reply /\ Tail(chan[c]) \in Seq(Reply)
    BY HeadTailProperties
  <2>. QED
    BY <1>10, <2>1 DEF Receive, Return
<1>11. CASE DropPending(c)
  BY <1>11 DEF DropPending
<1>12. CASE ReleaseSession(c)
  BY <1>12 DEF ReleaseSession
<1>. QED
  BY <1>1, <1>2, <1>3, <1>4, <1>5, <1>6, <1>7, <1>8, <1>9, <1>10, <1>11, <1>12
  DEF CallStep

\* The steps of a connection's goroutine keep the state well typed.
LEMMA TypeConn == ASSUME TypeInv, NEW k \in Conns, ConnStep(k) PROVE TypeInv'
<1> USE HubAssumption
<1> USE DEF TypeInv, TypeOK, CallsTyped, TableTyped, ServeTyped, ExtTyped, HasId, DeliversResult,
            Phases, callVars, tableVars, attachVars, readerVars, extVars
<1>1. CASE Reject(k)
  BY <1>1 DEF Reject
<1>2. CASE Attach(k)
  BY <1>2 DEF Attach, NotifyStateChanged, ClosedByTakeover
<1>3. CASE CloseOld(k)
  BY <1>3 DEF CloseOld
<1>4. CASE Read(k)
  <2>1. inq[k] # <<>> => Head(inq[k]) \in Message /\ Tail(inq[k]) \in Seq(Message)
    BY HeadTailProperties
  <2>. QED
    BY <1>4, <2>1 DEF Read
<1>5. CASE Pong(k)
  BY <1>5 DEF Pong
<1>6. CASE HandleHello(k)
  BY <1>6 DEF HandleHello
<1>7. CASE HandleResult(k)
  <2>1. inHand[k] \in Result /\ inHand[k].id \in Ids
    BY <1>7 DEF HandleResult, Message, Result, HelloMsg
  <2>2. TableTyped'
    BY <1>7 DEF HandleResult, Unregister
  <2>3. ServeTyped'
    BY <1>7, <2>1 DEF HandleResult
  <2>4. CallsTyped' /\ ExtTyped' /\ HasId'
    BY <1>7 DEF HandleResult
  <2>5. DeliversResult'
    BY <1>7, <2>1 DEF HandleResult
  <2>. QED
    BY <2>2, <2>3, <2>4, <2>5
<1>8. CASE Deliver(k)
  <2>1. PICK r \in Reply : chan' = [chan EXCEPT ![target[k]] = Append(@, r)]
    <3>1. inHand[k].of \in Calls
      BY <1>8 DEF Deliver, Result
    <3>. QED
      BY <1>8, <3>1 DEF Deliver, Reply
  <2>2. chan' \in [Calls -> Seq(Reply)]
    BY <2>1, AppendReply
  <2>3. ServeTyped'
    BY <1>8 DEF Deliver
  <2>4. CallsTyped' /\ ExtTyped' /\ HasId'
    BY <1>8 DEF Deliver
  <2>. QED
    BY <1>8, <2>2, <2>3, <2>4 DEF Deliver
<1>9. CASE Disconnect(k)
  <2>1. CallsTyped' /\ HasId'
    BY <1>9 DEF Disconnect, NotifyStateChanged
  <2>2. chan' \in [Calls -> Seq(Reply)] /\ pending' \in [Ids -> Calls \union {NoCall}]
    <3>1. \A c \in Calls : Append(chan[c], NoCall) \in Seq(Reply)
      BY AppendReply DEF Reply
    <3>2. CASE FailPending
      BY <3>1, <3>2 DEF FailPending
    <3>. QED
      BY <1>9, <3>2 DEF Disconnect
  <2>3. ServeTyped'
    BY <1>9 DEF Disconnect
  <2>4. ExtTyped'
    BY <1>9 DEF Disconnect
  <2>. QED
    BY <1>9, <2>1, <2>2, <2>3, <2>4 DEF Disconnect
<1>. QED
  BY <1>1, <1>2, <1>3, <1>4, <1>5, <1>6, <1>7, <1>8, <1>9 DEF ConnStep

\* The steps of the extension keep the state well typed.
LEMMA TypeExt ==
    ASSUME TypeInv, \/ \E b \in Browsers : ExtStep(b)
                    \/ \E j \in jobs : FinishJob(j)
    PROVE  TypeInv'
<1> USE HubAssumption
<1> USE DEF TypeInv, TypeOK, CallsTyped, TableTyped, ServeTyped, ExtTyped, HasId,
            DeliversResult, Phases, callVars, tableVars, attachVars, readerVars, extVars
<1>1. ASSUME NEW b \in Browsers, NEW k \in Conns, Dial(b, k) PROVE TypeInv'
  <2>1. <<HelloMsg>> \in Seq(Message)
    BY EmptyQueues, AppendProperties DEF Message
  <2>2. ServeTyped' /\ DeliversResult'
    BY <1>1 DEF Dial
  <2>. QED
    BY <1>1, <2>1, <2>2 DEF Dial
<1>2. ASSUME NEW b \in Browsers, StartJob(b) PROVE TypeInv'
  <2>1. sock[b] \in Conns /\ outq[sock[b]] \in Seq(ToolCall) /\ outq[sock[b]] # <<>>
    BY <1>2 DEF StartJob
  <2>2. Head(outq[sock[b]]) \in ToolCall /\ Tail(outq[sock[b]]) \in Seq(ToolCall)
    BY <2>1, HeadTailProperties
  <2>3. [id |-> Head(outq[sock[b]]).id, of |-> Head(outq[sock[b]]).of, at |-> b] \in Job
    BY <2>2 DEF ToolCall, Job
  <2>. QED
    BY <1>2, <2>2, <2>3 DEF StartJob
<1>3. ASSUME NEW b \in Browsers, LoseSocket(b) PROVE TypeInv'
  BY <1>3, EmptyQueues DEF LoseSocket
<1>4. ASSUME NEW b \in Browsers, WorkerDies(b) PROVE TypeInv'
  BY <1>4, EmptyQueues DEF WorkerDies
<1>5. ASSUME NEW j \in jobs, FinishJob(j) PROVE TypeInv'
  <2> DEFINE m == [type |-> "tool_result", id |-> j.id, of |-> j.of]
  <2>1. m \in Message /\ j.at \in Browsers
    BY DEF Job, Message, Result
  <2>2. inq' \in [Conns -> Seq(Message)]
    BY <1>5, <2>1, AppendProperties DEF FinishJob
  <2>. QED
    BY <1>5, <2>2 DEF FinishJob
<1>. QED
  BY <1>1, <1>2, <1>3, <1>4, <1>5 DEF ExtStep

\* Passing time and a restart of the daemon keep the state well typed.
LEMMA TypeRest == ASSUME TypeInv, GoStale \/ RestartDaemon PROVE TypeInv'
<1> USE HubAssumption
<1> USE DEF TypeInv, TypeOK, CallsTyped, TableTyped, ServeTyped, ExtTyped, HasId,
            DeliversResult, callVars, tableVars, attachVars, readerVars, extVars
<1>1. CASE GoStale
  BY <1>1 DEF GoStale
<1>2. CASE RestartDaemon
  <2>1. CallsTyped'
    BY <1>2 DEF RestartDaemon, PCs, Outcomes
  <2>2. TableTyped'
    BY <1>2, EmptyQueues DEF RestartDaemon
  <2>3. ServeTyped'
    BY <1>2 DEF RestartDaemon, Phases
  <2>4. ExtTyped' /\ HasId' /\ DeliversResult'
    BY <1>2 DEF RestartDaemon
  <2>. QED
    BY <2>1, <2>2, <2>3, <2>4
<1>. QED
  BY <1>1, <1>2

\* TypeInv is inductive.
LEMMA TypeStep == TypeInv /\ [Next]_vars => TypeInv'
<1> SUFFICES ASSUME TypeInv, [Next]_vars PROVE TypeInv'
  OBVIOUS
<1>1. CASE Next
  BY <1>1, TypeCall, TypeConn, TypeExt, TypeRest DEF Next
<1>2. CASE UNCHANGED vars
  BY <1>2 DEF TypeInv, TypeOK, CallsTyped, TableTyped, ServeTyped, ExtTyped, HasId,
     DeliversResult, vars, callVars, tableVars, attachVars, readerVars, extVars
<1>. QED
  BY <1>1, <1>2

\* Every state of the hub is well typed; in particular every id on the wire is
\* one the hub handed out, and a reader never sends to a nil channel.
THEOREM TypeCorrect == Spec => [](TypeOK /\ HasId /\ DeliversResult)
<1>1. TypeInv => TypeOK /\ HasId /\ DeliversResult
  BY DEF TypeInv
<1>. QED
  BY TypeInit, TypeStep, <1>1, PTL DEF Spec

----------------------------------------------------------------------------
(* The session lock.                                                       *)

Exclusive ==
    \A c, d \in Calls \ Independent :
        Key(c) = Key(d) /\ Holding(c) /\ Holding(d) => c = d

OnlyPageCallsQueue == \A c \in Independent : pc[c] # "queued"

SessionInv == Exclusive /\ NoStrandedSession /\ OnlyPageCallsQueue

\* Every step but the three named ones leaves alone the semaphores and who is
\* between acquireSession and releaseSession.
LEMMA SessionFrame ==
    ASSUME TypeInv, [Next]_vars, ~RestartDaemon,
           \A c \in Calls : ~AcquireSession(c) /\ ~ReleaseSession(c)
    PROVE  /\ sem' = sem
           /\ \A d \in Calls \ Independent : Holding(d)' <=> Holding(d)
<1> USE DEF TypeInv, TypeOK, CallsTyped, Holding
<1>1. ASSUME UNCHANGED <<sem, pc>>
      PROVE  /\ sem' = sem
             /\ \A d \in Calls \ Independent : Holding(d)' <=> Holding(d)
  BY <1>1
<1>2. ASSUME NEW c \in Calls, CallStep(c)
      PROVE  /\ sem' = sem
             /\ \A d \in Calls \ Independent : Holding(d)' <=> Holding(d)
  <2>1. CASE StartCall(c)
    BY <2>1 DEF StartCall
  <2>2. CASE GiveUpQueued(c)
    BY <2>2 DEF GiveUpQueued
  <2>3. CASE CheckExtension(c) \/ Wake(c)
    BY <2>3 DEF CheckExtension, Wake
  <2>4. CASE GiveUpParked(c)
    BY <2>4 DEF GiveUpParked, Return
  <2>5. CASE Register(c)
    <3>1. \/ pc' = [pc EXCEPT ![c] = "release"]
          \/ pc' = [pc EXCEPT ![c] = "write"]
      BY <2>5 DEF Register, Return
    <3>. QED
      BY <2>5, <3>1 DEF Register
  <2>6. CASE Write(c)
    <3>1. \/ pc' = [pc EXCEPT ![c] = "drop"]
          \/ pc' = [pc EXCEPT ![c] = "await"]
      BY <2>6 DEF Write
    <3>. QED
      BY <2>6, <3>1 DEF Write
  <2>7. CASE Expire(c)
    BY <2>7 DEF Expire
  <2>8. CASE Receive(c)
    BY <2>8 DEF Receive, Return
  <2>9. CASE DropPending(c)
    BY <2>9 DEF DropPending
  <2>. QED
    BY <1>2, <2>1, <2>2, <2>3, <2>4, <2>5, <2>6, <2>7, <2>8, <2>9 DEF CallStep
<1>3. ASSUME NEW k \in Conns, ConnStep(k) PROVE UNCHANGED <<sem, pc>>
  BY <1>3 DEF ConnStep, Reject, Attach, CloseOld, Read, Pong, HandleHello,
     HandleResult, Deliver, Disconnect, callVars
<1>4. ASSUME NEW b \in Browsers, ExtStep(b) PROVE UNCHANGED <<sem, pc>>
  BY <1>4 DEF ExtStep, Dial, StartJob, LoseSocket, WorkerDies, callVars
<1>5. ASSUME NEW j \in jobs, FinishJob(j) PROVE UNCHANGED <<sem, pc>>
  BY <1>5 DEF FinishJob, callVars
<1>6. ASSUME GoStale PROVE UNCHANGED <<sem, pc>>
  BY <1>6 DEF GoStale, callVars
<1>7. ASSUME UNCHANGED vars PROVE UNCHANGED <<sem, pc>>
  BY <1>7 DEF vars, callVars
<1>. QED
  BY <1>1, <1>2, <1>3, <1>4, <1>5, <1>6, <1>7 DEF Next

LEMMA OnlyPageCallsStep ==
    ASSUME TypeInv, OnlyPageCallsQueue, [Next]_vars
    PROVE  OnlyPageCallsQueue'
<1> USE HubAssumption
<1> USE DEF TypeInv, TypeOK, CallsTyped, OnlyPageCallsQueue
<1>1. ASSUME NEW c \in Calls, CallStep(c) PROVE OnlyPageCallsQueue'
  <2>1. CASE StartCall(c)
    BY <2>1 DEF StartCall
  <2>2. CASE ~StartCall(c)
    <3>1. \A d \in Calls : pc'[d] = "queued" => pc[d] = "queued"
      BY <1>1, <2>2 DEF CallStep, AcquireSession, GiveUpQueued, CheckExtension, Wake,
         GiveUpParked, Register, Write, Expire, Receive, DropPending, ReleaseSession, Return
    <3>. QED
      BY <3>1
  <2>. QED
    BY <2>1, <2>2
<1>2. ASSUME NEW k \in Conns, ConnStep(k) PROVE pc' = pc
  BY <1>2 DEF ConnStep, Reject, Attach, CloseOld, Read, Pong, HandleHello,
     HandleResult, Deliver, Disconnect, callVars
<1>3. ASSUME NEW b \in Browsers, ExtStep(b) PROVE pc' = pc
  BY <1>3 DEF ExtStep, Dial, StartJob, LoseSocket, WorkerDies, callVars
<1>4. ASSUME NEW j \in jobs, FinishJob(j) PROVE pc' = pc
  BY <1>4 DEF FinishJob, callVars
<1>5. ASSUME GoStale \/ UNCHANGED vars PROVE pc' = pc
  BY <1>5 DEF GoStale, vars, callVars
<1>6. ASSUME RestartDaemon PROVE OnlyPageCallsQueue'
  BY <1>6 DEF RestartDaemon
<1>. QED
  BY <1>1, <1>2, <1>3, <1>4, <1>5, <1>6 DEF Next

LEMMA SessionStep == TypeInv /\ SessionInv /\ [Next]_vars => SessionInv'
<1> SUFFICES ASSUME TypeInv, SessionInv, [Next]_vars PROVE SessionInv'
  OBVIOUS
<1> USE HubAssumption
<1>0. OnlyPageCallsQueue'
  BY OnlyPageCallsStep DEF SessionInv
<1>1. \A c \in Calls : Key(c) \in Names
  BY DEF Key, SessionKey, Names
<1> USE DEF TypeInv, TypeOK, CallsTyped, SessionInv
<1>2. ASSUME NEW c \in Calls, AcquireSession(c) PROVE SessionInv'
  <2>1. pc[c] = "queued" /\ c \notin Independent /\ ~Holding(c)
    BY <1>2 DEF AcquireSession, OnlyPageCallsQueue, Holding
  <2>2. Holding(c)' /\ \A d \in Calls \ {c} : Holding(d)' <=> Holding(d)
    BY <1>2 DEF AcquireSession, Holding
  <2>3. \A d \in Calls \ Independent : Key(d) = Key(c) => ~Holding(d)
    BY <1>1, <1>2 DEF AcquireSession, NoStrandedSession
  <2>4. Exclusive'
    BY <2>2, <2>3 DEF Exclusive, Key
  <2>5. NoStrandedSession'
    BY <1>1, <1>2, <2>1, <2>2 DEF AcquireSession, NoStrandedSession, Key
  <2>. QED
    BY <1>0, <2>4, <2>5
<1>3. ASSUME NEW c \in Calls, ReleaseSession(c) PROVE SessionInv'
  <2>1. Holding(c) /\ ~Holding(c)'
    BY <1>3 DEF ReleaseSession, Holding
  <2>2. \A d \in Calls \ {c} : Holding(d)' <=> Holding(d)
    BY <1>3 DEF ReleaseSession, Holding
  <2>3. Exclusive'
    BY <2>1, <2>2 DEF Exclusive, Key
  <2>4. CASE c \in Independent
    <3>1. sem' = sem
      BY <1>3, <2>4 DEF ReleaseSession, Deferred
    <3>2. NoStrandedSession'
      BY <2>2, <2>4, <3>1 DEF NoStrandedSession, Key
    <3>. QED
      BY <1>0, <2>3, <3>2
  <2>5. CASE c \notin Independent
    <3>1. sem' = [sem EXCEPT ![Key(c)] = FALSE]
      BY <1>3, <2>5 DEF ReleaseSession, Deferred
    <3>2. \A d \in Calls \ Independent : Key(d) = Key(c) => ~Holding(d)'
      BY <2>1, <2>2, <2>5 DEF Exclusive
    <3>3. NoStrandedSession'
      BY <1>1, <2>1, <2>2, <3>1, <3>2 DEF NoStrandedSession, Key
    <3>. QED
      BY <1>0, <2>3, <3>3
  <2>. QED
    BY <2>4, <2>5
<1>4. ASSUME RestartDaemon PROVE SessionInv'
  <2>1. \A d \in Calls : ~Holding(d)'
    BY <1>4 DEF RestartDaemon, Holding
  <2>. QED
    BY <1>0, <1>4, <2>1 DEF RestartDaemon, Exclusive, NoStrandedSession
<1>5. CASE /\ ~RestartDaemon
           /\ \A c \in Calls : ~AcquireSession(c) /\ ~ReleaseSession(c)
  <2>1. /\ sem' = sem
        /\ \A d \in Calls \ Independent : Holding(d)' <=> Holding(d)
    BY <1>5, SessionFrame
  <2>. QED
    BY <1>0, <2>1 DEF Exclusive, NoStrandedSession, Key
<1>. QED
  BY <1>2, <1>3, <1>4, <1>5

LEMMA SessionInit == Init => SessionInv
BY HubAssumption DEF Init, SessionInv, Exclusive, NoStrandedSession, OnlyPageCallsQueue, Holding

\* Page calls that drive one tab exclude each other, and no way out of Call
\* leaves a session locked (hub.go acquireSession, releaseSession, Call).
THEOREM SessionsExclusive == Spec => [](SessionMutex /\ NoStrandedSession)
<1>1. SessionInv => SessionMutex /\ NoStrandedSession
  BY DEF SessionInv, Exclusive, SessionMutex, TabKey, Key, SessionKey
<1>. QED
  BY TypeInit, TypeStep, SessionInit, SessionStep, <1>1, PTL DEF Spec

\* The second half on its own: a semaphore is full exactly while a page call
\* of its session is between acquireSession and releaseSession (hub.go).
THEOREM SessionsReturned == Spec => []NoStrandedSession
<1>1. SessionInv => NoStrandedSession
  BY DEF SessionInv
<1>. QED
  BY TypeInit, TypeStep, SessionInit, SessionStep, <1>1, PTL DEF Spec

----------------------------------------------------------------------------
(* The table of pending calls and the reply channels.                      *)

Early == {"idle", "queued", "waiting", "parked", "register"}
Active == {"write", "await", "drop"}
InFlight(c, k) == phase[k] = "delivering" /\ target[k] = c

\* Ids of calls in progress are distinct and were handed out.
ActiveIds ==
    /\ \A c \in Calls : pc[c] \in Active => callId[c] <= seq
    /\ \A c, d \in Calls : pc[c] \in Active /\ pc[d] \in Active /\ callId[c] = callId[d]
                           => c = d

\* A call is registered, about to be sent a reply, or has one: never two.
OneReply ==
    /\ RepliesNeverBlock
    /\ \A i \in Ids, k \in Conns : pending[i] # NoCall => ~InFlight(pending[i], k)
    /\ \A k, l \in Conns : \A c \in Calls : InFlight(c, k) /\ InFlight(c, l) => k = l

\* Nothing is sent to a call before it registers.
NothingEarly ==
    \A c \in Calls : pc[c] \in Early =>
        chan[c] = <<>> /\ \A k \in Conns : ~InFlight(c, k)

\* ReplyOnItsWay already holds while the tool_call is being written.
ReplyExpected ==
    \A c \in Calls : pc[c] \in {"write", "await"} =>
        \/ pending[callId[c]] = c
        \/ \E k \in Conns : InFlight(c, k)
        \/ chan[c] # <<>>

TableInv == PendingHasCaller /\ ActiveIds /\ OneReply /\ NothingEarly /\ ReplyExpected

LEMMA TableInit == Init => TableInv
<1> SUFFICES ASSUME Init PROVE TableInv
  OBVIOUS
<1>1. Len(<<>>) = 0
  OBVIOUS
<1>. QED
  BY <1>1 DEF Init, TableInv, PendingHasCaller, ActiveIds, OneReply, RepliesNeverBlock,
     NothingEarly, ReplyExpected, InFlight, Ids, Active, Early

\* Steps that touch neither the table nor a channel.
LEMMA TableQuiet ==
    ASSUME TypeInv, TableInv,
           UNCHANGED <<seq, pending, chan, callId, target>>,
           \A k \in Conns : phase'[k] = "delivering" <=> phase[k] = "delivering",
           \A c \in Calls : /\ pc'[c] \in Early => pc[c] \in Early
                            /\ pc'[c] \in Active <=> pc[c] \in Active
                            /\ pc'[c] \in {"write", "await"} => pc[c] \in {"write", "await"}
    PROVE  TableInv'
<1> USE DEF TypeInv, TypeOK, TableTyped
<1> USE DEF TableInv, InFlight
<1>1. PendingHasCaller'
  BY DEF PendingHasCaller, Active
<1>2. ActiveIds'
  BY DEF ActiveIds
<1>3. OneReply'
  BY DEF OneReply, RepliesNeverBlock
<1>4. NothingEarly'
  BY DEF NothingEarly
<1>5. ReplyExpected'
  BY DEF ReplyExpected
<1>. QED
  BY <1>1, <1>2, <1>3, <1>4, <1>5

LEMMA TableRegister ==
    ASSUME TypeInv, TableInv, NEW c \in Calls, pc[c] = "register",
           seq < MaxSeq,
           seq' = seq + 1,
           pending' = [pending EXCEPT ![FreshId] = c],
           chan' = [chan EXCEPT ![c] = <<>>],
           callId' = [callId EXCEPT ![c] = FreshId],
           pc' = [pc EXCEPT ![c] = "write"],
           UNCHANGED <<phase, target>>
    PROVE  TableInv'
<1> USE HubAssumption
<1> USE DEF TypeInv, TypeOK, CallsTyped, TableTyped, TableInv, InFlight
<1>1. FreshId \in Ids /\ FreshId = seq + 1 /\ seq \in Nat
  BY DEF FreshId, Ids
<1>2. chan[c] = <<>> /\ (\A k \in Conns : ~InFlight(c, k)) /\ Len(<<>>) = 0
  BY DEF NothingEarly, Early
<1>3. chan' = chan
  BY <1>2
<1>4. \A i \in Ids : pending[i] # c
  BY DEF PendingHasCaller
<1>5. PendingHasCaller'
  BY <1>1, <1>4 DEF PendingHasCaller, Ids
<1>6. ActiveIds'
  BY <1>1 DEF ActiveIds, Active
<1>7. OneReply'
  BY <1>1, <1>2, <1>3 DEF OneReply, RepliesNeverBlock
<1>8. NothingEarly'
  BY <1>3 DEF NothingEarly, Early
<1>9. ReplyExpected'
  BY <1>1, <1>3 DEF ReplyExpected, ActiveIds, Active
<1>. QED
  BY <1>5, <1>6, <1>7, <1>8, <1>9

LEMMA TableHandleResult ==
    ASSUME TypeInv, TableInv, NEW k \in Conns, HandleResult(k)
    PROVE  TableInv'
<1> DEFINE i == inHand[k].id
<1> USE DEF TypeInv, TypeOK, CallsTyped, TableTyped, ServeTyped, TableInv, InFlight
<1>1. i \in Ids
  BY DEF HandleResult, Message, Result, HelloMsg
<1>2. /\ target' = [target EXCEPT ![k] = pending[i]]
      /\ pending' = [pending EXCEPT ![i] = NoCall]
      /\ phase' = [phase EXCEPT ![k] = IF pending[i] = NoCall THEN "reading"
                                       ELSE "delivering"]
      /\ UNCHANGED <<seq, chan, pc, callId>>
      /\ phase[k] = "handling"
  BY DEF HandleResult, Unregister, callVars
<1> HIDE DEF i
<1>3. PendingHasCaller'
  BY <1>1, <1>2 DEF PendingHasCaller
<1>4. ActiveIds'
  BY <1>2 DEF ActiveIds
<1>5. \A c \in Calls, l \in Conns \ {k} : InFlight(c, l)' <=> InFlight(c, l)
  BY <1>2
<1>6. \A c \in Calls : InFlight(c, k)' <=> pending[i] = c /\ c # NoCall
  BY <1>1, <1>2
<1>7. \A j \in Ids : pending'[j] # NoCall => pending'[j] = pending[j] /\ pending[j] # pending[i]
  BY <1>1, <1>2 DEF PendingHasCaller
<1>8. OneReply'
  <2>1. \A j \in Ids, l \in Conns : pending'[j] # NoCall => ~InFlight(pending[j], l)'
    BY <1>1, <1>2, <1>5, <1>6, <1>7 DEF OneReply
  <2>2. \A l, m \in Conns : \A c \in Calls : InFlight(c, l)' /\ InFlight(c, m)' => l = m
    <3>1. \A c \in Calls, l \in Conns : pending[i] = c => ~InFlight(c, l) \/ c = NoCall
      BY <1>1 DEF OneReply
    <3>2. \A c \in Calls, l \in Conns \ {k} : ~(InFlight(c, l)' /\ InFlight(c, k)')
      BY <1>5, <1>6, <3>1
    <3>3. \A l, m \in Conns \ {k} : \A c \in Calls :
             InFlight(c, l)' /\ InFlight(c, m)' => l = m
      BY <1>5 DEF OneReply
    <3>. QED
      BY <3>2, <3>3
  <2>3. RepliesNeverBlock'
    BY <1>1, <1>2, <1>7 DEF OneReply, RepliesNeverBlock
  <2>. QED
    BY <1>2, <1>7, <2>1, <2>2, <2>3 DEF OneReply
<1>9. NothingEarly'
  <2>1. \A c \in Calls : c = pending[i] /\ c # NoCall => pc[c] \notin Early
    BY <1>1 DEF PendingHasCaller, Early
  <2>2. \A c \in Calls : pc[c] \in Early => ~InFlight(c, k)'
    BY <1>6, <2>1
  <2>. QED
    BY <1>2, <1>5, <2>2 DEF NothingEarly
<1>10. ReplyExpected'
  BY <1>1, <1>2, <1>5, <1>6 DEF ReplyExpected, HasId
<1>. QED
  BY <1>3, <1>4, <1>8, <1>9, <1>10

LEMMA TableDeliver ==
    ASSUME TypeInv, TableInv, NEW k \in Conns, Deliver(k)
    PROVE  TableInv'
<1> DEFINE c == target[k]
<1> USE DEF TypeInv, TypeOK, CallsTyped, TableTyped, ServeTyped, TableInv, InFlight
<1>1. c \in Calls /\ InFlight(c, k) /\ inHand[k].of \in Reply
  BY DEF Deliver, DeliversResult, Result, Reply
<1>2. PICK r \in Reply :
         /\ chan' = [chan EXCEPT ![c] = Append(@, r)]
         /\ target' = [target EXCEPT ![k] = NoCall]
         /\ phase' = [phase EXCEPT ![k] = "reading"]
         /\ UNCHANGED <<seq, pending, pc, callId>>
  BY <1>1 DEF Deliver, callVars
<1>3. chan[c] = <<>>
  BY <1>1 DEF OneReply, RepliesNeverBlock
<1>4. Len(chan'[c]) <= 1 /\ chan'[c] # <<>>
  <2>1. chan'[c] = Append(<<>>, r)
    BY <1>1, <1>2, <1>3
  <2>. QED
    BY <2>1, EmptyQueues, AppendProperties
<1> HIDE DEF c
<1>5. \A d \in Calls \ {c} : chan'[d] = chan[d]
  BY <1>1, <1>2
<1>6. \A d \in Calls, l \in Conns : InFlight(d, l)' <=> InFlight(d, l) /\ l # k
  BY <1>2
<1>7. PendingHasCaller'
  BY <1>2 DEF PendingHasCaller
<1>8. ActiveIds'
  BY <1>2 DEF ActiveIds
<1>9. OneReply'
  <2>1. \A d \in Calls : Len(chan'[d]) <= 1
    <3> SUFFICES ASSUME NEW d \in Calls PROVE Len(chan'[d]) <= 1
      OBVIOUS
    <3>1. CASE d = c
      BY <1>4, <3>1
    <3>2. CASE d # c
      BY <1>5, <3>2 DEF OneReply, RepliesNeverBlock
    <3>. QED
      BY <3>1, <3>2
  <2>2. \A i \in Ids : pending'[i] # NoCall => chan'[pending'[i]] = <<>>
    BY <1>1, <1>2, <1>5 DEF OneReply, RepliesNeverBlock
  <2>3. \A l \in Conns : phase'[l] = "delivering" => chan'[target'[l]] = <<>>
    <3> SUFFICES ASSUME NEW l \in Conns, phase'[l] = "delivering"
                 PROVE  chan'[target'[l]] = <<>>
      OBVIOUS
    <3>1. l # k /\ phase[l] = "delivering" /\ target'[l] = target[l]
      BY <1>2
    <3>2. target[l] \in Calls /\ target[l] # c
      BY <1>1, <3>1 DEF DeliversResult, OneReply
    <3>. QED
      BY <1>5, <3>1, <3>2 DEF OneReply, RepliesNeverBlock
  <2>4. \A i \in Ids, l \in Conns : pending'[i] # NoCall => ~InFlight(pending[i], l)'
    BY <1>2, <1>6 DEF OneReply
  <2>5. \A l, m \in Conns : \A d \in Calls : InFlight(d, l)' /\ InFlight(d, m)' => l = m
    BY <1>6 DEF OneReply
  <2>. QED
    BY <1>2, <2>1, <2>2, <2>3, <2>4, <2>5 DEF OneReply, RepliesNeverBlock
<1>10. NothingEarly'
  BY <1>1, <1>2, <1>5, <1>6 DEF NothingEarly
<1>11. ReplyExpected'
  BY <1>2, <1>4, <1>5, <1>6, <1>1 DEF ReplyExpected
<1>. QED
  BY <1>7, <1>8, <1>9, <1>10, <1>11

LEMMA TableDisconnect ==
    ASSUME TypeInv, TableInv, NEW k \in Conns, Disconnect(k), Detaches(k)
    PROVE  TableInv'
<1> USE DEF TypeInv, TypeOK, CallsTyped, TableTyped, ServeTyped, TableInv, InFlight
<1>1. /\ pending' = [i \in Ids |-> NoCall]
      /\ chan' = [c \in Calls |-> IF c \in Registered THEN Append(chan[c], NoCall)
                                  ELSE chan[c]]
      /\ phase' = [phase EXCEPT ![k] = "gone"]
      /\ phase[k] = "reading"
      /\ UNCHANGED <<seq, pc, callId, target>>
  BY DEF Disconnect, FailPending
<1>2. \A c \in Calls, l \in Conns : InFlight(c, l)' <=> InFlight(c, l)
  BY <1>1
<1>3. \A c \in Registered : /\ chan[c] = <<>>
                            /\ pc[c] \notin Early
                            /\ \A l \in Conns : ~InFlight(c, l)
  <2> SUFFICES ASSUME NEW c \in Calls, NEW i \in Ids, pending[i] = c
               PROVE  /\ chan[c] = <<>>
                      /\ pc[c] \notin Early
                      /\ \A l \in Conns : ~InFlight(c, l)
    BY DEF Registered
  <2>1. c # NoCall
    BY HubAssumption
  <2>2. pc[c] \in Active
    BY <2>1 DEF PendingHasCaller, Active
  <2>. QED
    BY <2>1, <2>2 DEF OneReply, RepliesNeverBlock, Active, Early
<1>4. \A c \in Registered : Len(chan'[c]) <= 1 /\ chan'[c] # <<>>
  <2> SUFFICES ASSUME NEW c \in Registered PROVE Len(chan'[c]) <= 1 /\ chan'[c] # <<>>
    OBVIOUS
  <2>1. chan'[c] = Append(<<>>, NoCall)
    BY <1>1, <1>3 DEF Registered
  <2>. QED
    BY <2>1, EmptyQueues, AppendProperties DEF Reply
<1>5. \A c \in Calls : c \notin Registered => chan'[c] = chan[c]
  BY <1>1
<1>6. PendingHasCaller'
  BY <1>1 DEF PendingHasCaller
<1>7. ActiveIds'
  BY <1>1 DEF ActiveIds
<1>8. OneReply'
  <2>1. \A c \in Calls : Len(chan'[c]) <= 1
    <3> SUFFICES ASSUME NEW c \in Calls PROVE Len(chan'[c]) <= 1
      OBVIOUS
    <3>1. CASE c \in Registered
      BY <1>4, <3>1
    <3>2. CASE c \notin Registered
      BY <1>5, <3>2 DEF OneReply, RepliesNeverBlock
    <3>. QED
      BY <3>1, <3>2
  <2>2. \A l \in Conns : phase'[l] = "delivering" => chan'[target'[l]] = <<>>
    <3> SUFFICES ASSUME NEW l \in Conns, phase'[l] = "delivering"
                 PROVE  chan'[target'[l]] = <<>>
      OBVIOUS
    <3>1. phase[l] = "delivering" /\ target'[l] = target[l] /\ target[l] \in Calls
      BY <1>1 DEF DeliversResult
    <3>2. target[l] \notin Registered
      BY <1>3, <3>1
    <3>. QED
      BY <1>5, <3>1, <3>2 DEF OneReply, RepliesNeverBlock
  <2>3. \A l, m \in Conns : \A c \in Calls : InFlight(c, l)' /\ InFlight(c, m)' => l = m
    BY <1>2 DEF OneReply
  <2>. QED
    BY <1>1, <2>1, <2>2, <2>3 DEF OneReply, RepliesNeverBlock
<1>9. NothingEarly'
  BY <1>1, <1>2, <1>3, <1>5 DEF NothingEarly
<1>10. ReplyExpected'
  <2> SUFFICES ASSUME NEW c \in Calls, pc[c] \in {"write", "await"}
               PROVE  (\E l \in Conns : InFlight(c, l)') \/ chan'[c] # <<>>
    BY <1>1 DEF ReplyExpected
  <2>1. CASE pending[callId[c]] = c
    BY <1>4, <2>1 DEF Registered, HasId
  <2>2. CASE pending[callId[c]] # c
    BY <1>2, <1>4, <1>5, <2>2 DEF ReplyExpected
  <2>. QED
    BY <2>1, <2>2
<1>. QED
  BY <1>6, <1>7, <1>8, <1>9, <1>10

LEMMA TableReceive ==
    ASSUME TypeInv, TableInv, NEW c \in Calls, Receive(c)
    PROVE  TableInv'
<1> USE DEF TypeInv, TypeOK, CallsTyped, TableTyped, ServeTyped, TableInv, InFlight
<1>1. /\ pc[c] = "await" /\ chan[c] # <<>>
      /\ pc' = [pc EXCEPT ![c] = "release"]
      /\ chan' = [chan EXCEPT ![c] = Tail(chan[c])]
      /\ UNCHANGED <<seq, pending, callId, phase, target>>
  BY DEF Receive, Return, readerVars
<1>2. Len(chan'[c]) <= 1
  <2>1. Len(Tail(chan[c])) = Len(chan[c]) - 1 /\ Len(chan[c]) \in Nat /\ Len(chan[c]) <= 1
    BY <1>1, HeadTailProperties, LenProperties DEF OneReply, RepliesNeverBlock
  <2>. QED
    BY <1>1, <2>1
<1>3. \A i \in Ids : pending[i] # c
  BY <1>1, HubAssumption DEF OneReply, RepliesNeverBlock
<1>4. \A k \in Conns : ~InFlight(c, k)
  BY <1>1 DEF OneReply, RepliesNeverBlock
<1>5. \A d \in Calls \ {c} : chan'[d] = chan[d] /\ pc'[d] = pc[d]
  BY <1>1
<1>6. PendingHasCaller'
  BY <1>1, <1>3, <1>5 DEF PendingHasCaller
<1>7. ActiveIds'
  BY <1>1 DEF ActiveIds, Active
<1>8. OneReply'
  <2>1. \A d \in Calls : Len(chan'[d]) <= 1
    <3> SUFFICES ASSUME NEW d \in Calls PROVE Len(chan'[d]) <= 1
      OBVIOUS
    <3>1. CASE d = c
      BY <1>2, <3>1
    <3>2. CASE d # c
      BY <1>5, <3>2 DEF OneReply, RepliesNeverBlock
    <3>. QED
      BY <3>1, <3>2
  <2>2. \A i \in Ids : pending'[i] # NoCall => chan'[pending'[i]] = <<>>
    BY <1>1, <1>3, <1>5 DEF OneReply, RepliesNeverBlock
  <2>3. \A l \in Conns : phase'[l] = "delivering" => chan'[target'[l]] = <<>>
    BY <1>1, <1>4, <1>5 DEF OneReply, RepliesNeverBlock, DeliversResult
  <2>. QED
    BY <1>1, <2>1, <2>2, <2>3 DEF OneReply, RepliesNeverBlock
<1>9. NothingEarly'
  BY <1>1, <1>5 DEF NothingEarly, Early
<1>10. ReplyExpected'
  BY <1>1, <1>5 DEF ReplyExpected
<1>. QED
  BY <1>6, <1>7, <1>8, <1>9, <1>10

LEMMA TableDrop ==
    ASSUME TypeInv, TableInv, NEW c \in Calls, DropPending(c)
    PROVE  TableInv'
<1> USE DEF TypeInv, TypeOK, CallsTyped, TableTyped, ServeTyped, TableInv, InFlight
<1>1. /\ pc[c] = "drop" /\ callId[c] \in Ids
      /\ pending' = [pending EXCEPT ![callId[c]] = NoCall]
      /\ pc' = [pc EXCEPT ![c] = "release"]
      /\ UNCHANGED <<seq, chan, callId, phase, target>>
  BY DEF DropPending, readerVars, HasId
<1>2. PendingHasCaller'
  BY <1>1 DEF PendingHasCaller
<1>3. ActiveIds'
  BY <1>1 DEF ActiveIds, Active
<1>4. OneReply'
  BY <1>1 DEF OneReply, RepliesNeverBlock
<1>5. NothingEarly'
  BY <1>1 DEF NothingEarly, Early
<1>6. ReplyExpected'
  BY <1>1 DEF ReplyExpected, ActiveIds, Active
<1>. QED
  BY <1>2, <1>3, <1>4, <1>5, <1>6

LEMMA TableRestart == ASSUME TypeInv, TableInv, RestartDaemon PROVE TableInv'
<1> USE DEF TypeInv, TypeOK, CallsTyped, TableTyped, ServeTyped, TableInv, InFlight
<1>1. \A c \in Calls : pc'[c] \notin Active /\ pc'[c] \notin {"write", "await"}
  BY DEF RestartDaemon, Active
<1>2. \A k \in Conns : phase'[k] # "delivering"
  BY DEF RestartDaemon
<1>3. Len(<<>>) = 0
  OBVIOUS
<1>4. /\ pending' = [i \in Ids |-> NoCall]
      /\ chan' = [c \in Calls |-> <<>>]
  BY DEF RestartDaemon
<1>. QED
  BY <1>1, <1>2, <1>3, <1>4 DEF PendingHasCaller, ActiveIds, OneReply,
     RepliesNeverBlock, NothingEarly, ReplyExpected

LEMMA TableCall ==
    ASSUME TypeInv, TableInv, NEW c \in Calls, CallStep(c)
    PROVE  TableInv'
<1> USE DEF TypeInv, TypeOK, CallsTyped
<1>1. CASE Receive(c)
  BY <1>1, TableReceive
<1>2. CASE DropPending(c)
  BY <1>2, TableDrop
<1>3. CASE Register(c) /\ pc' = [pc EXCEPT ![c] = "write"]
  <2>1. /\ pc[c] = "register" /\ seq < MaxSeq
        /\ seq' = seq + 1
        /\ pending' = [pending EXCEPT ![FreshId] = c]
        /\ chan' = [chan EXCEPT ![c] = <<>>]
        /\ callId' = [callId EXCEPT ![c] = FreshId]
        /\ UNCHANGED <<phase, target>>
    BY <1>3 DEF Register, Return, readerVars
  <2>. QED
    BY <1>3, <2>1, TableRegister
<1>4. ASSUME NEW from, NEW to, pc[c] = from, pc' = [pc EXCEPT ![c] = to],
             UNCHANGED <<seq, pending, chan, callId, target, phase>>,
             to \in Early => from \in Early,
             to \in Active <=> from \in Active,
             to \in {"write", "await"} => from \in {"write", "await"}
      PROVE  TableInv'
  BY <1>4, TableQuiet
<1> USE DEF Early, Active, tableVars, readerVars
<1>5. CASE StartCall(c)
  <2>1. PICK to \in {"waiting", "queued"} : pc' = [pc EXCEPT ![c] = to]
    BY <1>5 DEF StartCall
  <2>. QED
    BY <1>5, <2>1, <1>4 DEF StartCall
<1>6. CASE AcquireSession(c)
  BY <1>6, <1>4 DEF AcquireSession
<1>7. CASE GiveUpQueued(c)
  BY <1>7, <1>4 DEF GiveUpQueued
<1>8. CASE CheckExtension(c)
  <2>1. PICK to \in {"register", "parked"} : pc' = [pc EXCEPT ![c] = to]
    BY <1>8 DEF CheckExtension
  <2>. QED
    BY <1>8, <2>1, <1>4 DEF CheckExtension
<1>9. CASE Wake(c)
  BY <1>9, <1>4 DEF Wake
<1>10. CASE GiveUpParked(c)
  BY <1>10, <1>4 DEF GiveUpParked, Return
<1>11. CASE Register(c) /\ pc' # [pc EXCEPT ![c] = "write"]
  <2>1. /\ pc[c] = "register" /\ pc' = [pc EXCEPT ![c] = "release"]
        /\ UNCHANGED <<seq, pending, chan, callId, target, phase>>
    BY <1>11 DEF Register, Return
  <2>. QED
    BY <2>1, <1>4
<1>12. CASE Write(c)
  <2>1. PICK to \in {"drop", "await"} : pc' = [pc EXCEPT ![c] = to]
    <3>1. \/ pc' = [pc EXCEPT ![c] = "drop"]
          \/ pc' = [pc EXCEPT ![c] = "await"]
      BY <1>12 DEF Write
    <3>. QED
      BY <3>1
  <2>2. pc[c] = "write" /\ UNCHANGED <<seq, pending, chan, callId, target, phase>>
    BY <1>12 DEF Write
  <2>. QED
    BY <2>1, <2>2, <1>4
<1>13. CASE Expire(c)
  BY <1>13, <1>4 DEF Expire
<1>14. CASE ReleaseSession(c)
  BY <1>14, <1>4 DEF ReleaseSession
<1>. QED
  BY <1>1, <1>2, <1>3, <1>5, <1>6, <1>7, <1>8, <1>9, <1>10, <1>11, <1>12, <1>13, <1>14
  DEF CallStep

LEMMA TableStep == TypeInv /\ TableInv /\ [Next]_vars => TableInv'
<1> SUFFICES ASSUME TypeInv, TableInv, [Next]_vars PROVE TableInv'
  OBVIOUS
<1> USE DEF TypeInv, TypeOK, ServeTyped
<1>1. ASSUME NEW c \in Calls, CallStep(c) PROVE TableInv'
  BY <1>1, TableCall
<1>2. ASSUME UNCHANGED <<seq, pending, chan, callId, pc, target>>,
             \A k \in Conns : phase'[k] = "delivering" <=> phase[k] = "delivering"
      PROVE  TableInv'
  BY <1>2, TableQuiet
<1>3. ASSUME NEW k \in Conns, ConnStep(k) PROVE TableInv'
  <2>1. CASE HandleResult(k)
    BY <2>1, TableHandleResult
  <2>2. CASE Deliver(k)
    BY <2>2, TableDeliver
  <2>3. CASE Disconnect(k) /\ Detaches(k)
    BY <2>3, TableDisconnect
  <2>4. CASE Disconnect(k) /\ ~Detaches(k)
    BY <2>4, <1>2 DEF Disconnect
  <2>5. CASE Reject(k) \/ Attach(k) \/ CloseOld(k)
    BY <2>5, <1>2 DEF Reject, Attach, CloseOld, tableVars, callVars
  <2>6. CASE Read(k) \/ Pong(k) \/ HandleHello(k)
    BY <2>6, <1>2 DEF Read, Pong, HandleHello, tableVars, callVars, readerVars
  <2>. QED
    BY <1>3, <2>1, <2>2, <2>3, <2>4, <2>5, <2>6 DEF ConnStep
<1>4. ASSUME NEW b \in Browsers, ExtStep(b) PROVE TableInv'
  BY <1>4, <1>2 DEF ExtStep, Dial, StartJob, LoseSocket, WorkerDies, tableVars,
     callVars, readerVars
<1>5. ASSUME NEW j \in jobs, FinishJob(j) PROVE TableInv'
  BY <1>5, <1>2 DEF FinishJob, tableVars, callVars, readerVars
<1>6. ASSUME GoStale \/ UNCHANGED vars PROVE TableInv'
  BY <1>6, <1>2 DEF GoStale, vars, tableVars, callVars, readerVars
<1>7. ASSUME RestartDaemon PROVE TableInv'
  BY <1>7, TableRestart
<1>. QED
  BY <1>1, <1>3, <1>4, <1>5, <1>6, <1>7 DEF Next

\* No send to a reply channel ever blocks, although the cleanup of Serve sends
\* while it holds h.mu; the table only holds calls that are still waiting; and
\* no reply of a waiting call is lost inside the daemon (hub.go Serve cleanup,
\* handleInbound, Call, dropPending).
THEOREM RepliesSafe == Spec => [](RepliesNeverBlock /\ PendingHasCaller /\ ReplyOnItsWay)
<1>1. TableInv => RepliesNeverBlock /\ PendingHasCaller /\ ReplyOnItsWay
  BY DEF TableInv, OneReply, ReplyExpected, ReplyOnItsWay, InFlight
<1>. QED
  BY TypeInit, TypeStep, TableInit, TableStep, <1>1, PTL DEF Spec

\* The table of pending calls holds no garbage: each id in it belongs to a call
\* that is still inside Call with that id (hub.go Call, dropPending).
THEOREM TableSound == Spec => []PendingHasCaller
<1>1. TableInv => PendingHasCaller
  BY DEF TableInv
<1>. QED
  BY TypeInit, TypeStep, TableInit, TableStep, <1>1, PTL DEF Spec

\* A waiting call is registered, or a reader is about to send its reply, or
\* the reply is in its channel (hub.go handleInbound, Serve cleanup, Call).
THEOREM RepliesKept == Spec => []ReplyOnItsWay
<1>1. TableInv => ReplyOnItsWay
  BY DEF TableInv, ReplyExpected, ReplyOnItsWay, InFlight
<1>. QED
  BY TypeInit, TypeStep, TableInit, TableStep, <1>1, PTL DEF Spec

----------------------------------------------------------------------------
(* Attachment.                                                             *)

\* A connection that Serve has not decided about is open.
UndecidedOpen == \A k \in Conns : phase[k] \in {"unused", "dialing"} => life[k] = "open"

AttachInv == AttachedHasReader /\ UndecidedOpen

LEMMA AttachStep == TypeInv /\ AttachInv /\ [Next]_vars => AttachInv'
<1> SUFFICES ASSUME TypeInv, AttachInv, [Next]_vars PROVE AttachInv'
  OBVIOUS
<1> USE HubAssumption
<1> USE DEF TypeInv, TypeOK, ServeTyped, AttachInv, AttachedHasReader, UndecidedOpen
<1>1. ASSUME UNCHANGED <<conn, phase, life>> PROVE AttachInv'
  BY <1>1
<1>2. ASSUME NEW c \in Calls, CallStep(c) PROVE UNCHANGED <<conn, phase, life>>
  BY <1>2 DEF CallStep, StartCall, AcquireSession, GiveUpQueued, CheckExtension, Wake,
     GiveUpParked, Register, Write, Expire, Receive, DropPending, ReleaseSession,
     attachVars, readerVars
<1>3. ASSUME NEW k \in Conns, ConnStep(k) PROVE AttachInv'
  <2>1. CASE Reject(k)
    BY <2>1 DEF Reject, attachVars
  <2>2. CASE Attach(k)
    BY <2>2 DEF Attach, ClosedByTakeover
  <2>3. CASE CloseOld(k)
    BY <2>3 DEF CloseOld, attachVars
  <2>4. CASE Read(k) \/ Pong(k) \/ HandleHello(k) \/ HandleResult(k) \/ Deliver(k)
    BY <2>4 DEF Read, Pong, HandleHello, HandleResult, Deliver, attachVars, readerVars
  <2>5. CASE Disconnect(k)
    BY <2>5 DEF Disconnect, Detaches
  <2>. QED
    BY <1>3, <2>1, <2>2, <2>3, <2>4, <2>5 DEF ConnStep
<1>4. ASSUME NEW b \in Browsers, ExtStep(b) PROVE AttachInv'
  BY <1>4 DEF ExtStep, Dial, StartJob, LoseSocket, WorkerDies, attachVars, readerVars
<1>5. ASSUME NEW j \in jobs, FinishJob(j) PROVE AttachInv'
  BY <1>5 DEF FinishJob, attachVars, readerVars
<1>6. ASSUME GoStale \/ UNCHANGED vars PROVE AttachInv'
  BY <1>6 DEF GoStale, vars, attachVars, readerVars
<1>7. ASSUME RestartDaemon PROVE AttachInv'
  BY <1>7 DEF RestartDaemon
<1>. QED
  BY <1>1, <1>2, <1>3, <1>4, <1>5, <1>6, <1>7 DEF Next

\* The attached connection is open and has a reader that will detach it when
\* it ends (hub.go Serve).
THEOREM AttachmentSafe == Spec => []AttachedHasReader
<1>1. Init => AttachInv
  BY DEF Init, AttachInv, AttachedHasReader, UndecidedOpen
<1>2. AttachInv => AttachedHasReader
  BY DEF AttachInv
<1>. QED
  BY TypeInit, TypeStep, <1>1, AttachStep, <1>2, PTL DEF Spec
=============================================================================
