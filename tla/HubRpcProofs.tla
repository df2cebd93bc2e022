---------------------------- MODULE HubRpcProofs ----------------------------
(***************************************************************************)
(* What the hub promises its callers: the answer of a call is its own, a   *)
(* loss of the connection strands no call, and Call implements the remote  *)
(* procedure call of SessionRpc.                                           *)
(***************************************************************************)
EXTENDS HubProofs

----------------------------------------------------------------------------
(* Connections and their calls.                                            *)

\* A registered call was written to the attached connection, or to one that a
\* takeover replaced; it was written to a connection in any case.
OrphansInv ==
    \A i \in Ids : LET c == pending[i] IN
        c # NoCall => /\ callConn[c] \in Conns
                      /\ callConn[c] = conn \/ callConn[c] \in superseded

\* Steps that register nobody and detach nobody.
LEMMA OrphansQuiet ==
    ASSUME OrphansInv,
           \A i \in Ids : pending'[i] \in {NoCall, pending[i]},
           UNCHANGED <<callConn, conn, superseded>>
    PROVE  OrphansInv'
BY DEF OrphansInv

\* A call that is about to register is not registered.
LEMMA NotYetRegistered ==
    ASSUME PendingHasCaller, NEW c \in Calls, pc[c] = "register"
    PROVE  \A i \in Ids : pending[i] # c
<1>1. c # NoCall
  BY HubAssumption
<1>. QED
  BY <1>1 DEF PendingHasCaller

LEMMA OrphansStep == TypeInv /\ TableInv /\ OrphansInv /\ [Next]_vars => OrphansInv'
<1> SUFFICES ASSUME TypeInv, TableInv, OrphansInv, [Next]_vars PROVE OrphansInv'
  OBVIOUS
<1> USE HubAssumption
<1> USE DEF TypeInv, TypeOK, CallsTyped, TableTyped, ServeTyped
<1>1. ASSUME UNCHANGED <<pending, callConn, conn, superseded>> PROVE OrphansInv'
  BY <1>1, OrphansQuiet
<1>2. ASSUME NEW c \in Calls, CallStep(c) PROVE OrphansInv'
  <2>1. CASE Register(c)
    <3>1. CASE UNCHANGED <<callId, callConn, tableVars>>
      BY <1>1, <2>1, <3>1 DEF Register, tableVars, attachVars, readerVars
    <3>2. CASE /\ conn # NoConn
               /\ pending' = [pending EXCEPT ![FreshId] = c]
               /\ callConn' = [callConn EXCEPT ![c] = conn]
      <4>1. \A i \in Ids : pending[i] # c
        BY <2>1, NotYetRegistered DEF Register, TableInv
      <4>2. UNCHANGED <<conn, superseded>>
        BY <2>1 DEF Register, attachVars, readerVars
      <4>. QED
        BY <3>2, <4>1, <4>2 DEF OrphansInv
    <3>. QED
      BY <2>1, <3>1, <3>2 DEF Register
  <2>2. CASE DropPending(c)
    BY <2>2, OrphansQuiet DEF DropPending, attachVars, readerVars, TypeInv, HasId
  <2>3. CASE ~Register(c) /\ ~DropPending(c)
    BY <1>1, <1>2, <2>3 DEF CallStep, StartCall, AcquireSession, GiveUpQueued,
       CheckExtension, Wake, GiveUpParked, Write, Expire, Receive, ReleaseSession,
       tableVars, attachVars, readerVars
  <2>. QED
    BY <2>1, <2>2, <2>3
<1>3. ASSUME NEW k \in Conns, ConnStep(k) PROVE OrphansInv'
  <2>1. CASE Attach(k)
    BY <2>1 DEF Attach, OrphansInv, tableVars
  <2>2. CASE HandleResult(k)
    BY <2>2, OrphansQuiet DEF HandleResult, Unregister, callVars, attachVars
  <2>3. CASE Disconnect(k) /\ Detaches(k)
    BY <2>3 DEF Disconnect, FailPending, OrphansInv
  <2>4. CASE ~Attach(k) /\ ~HandleResult(k) /\ ~(Disconnect(k) /\ Detaches(k))
    BY <1>1, <1>3, <2>4 DEF ConnStep, Reject, CloseOld, Read, Pong, HandleHello, Deliver,
       Disconnect, callVars, tableVars, attachVars, readerVars
  <2>. QED
    BY <2>1, <2>2, <2>3, <2>4
<1>4. ASSUME NEW b \in Browsers, ExtStep(b) PROVE OrphansInv'
  BY <1>1, <1>4 DEF ExtStep, Dial, StartJob, LoseSocket, WorkerDies, callVars, tableVars,
     attachVars, readerVars
<1>5. ASSUME NEW j \in jobs, FinishJob(j) PROVE OrphansInv'
  BY <1>1, <1>5 DEF FinishJob, callVars, tableVars, attachVars, readerVars
<1>6. ASSUME GoStale \/ UNCHANGED vars PROVE OrphansInv'
  BY <1>1, <1>6 DEF GoStale, vars, callVars, tableVars, attachVars, readerVars
<1>7. ASSUME RestartDaemon PROVE OrphansInv'
  BY <1>7 DEF RestartDaemon, OrphansInv
<1>. QED
  BY <1>2, <1>3, <1>4, <1>5, <1>6, <1>7 DEF Next

\* After an ordinary loss of the connection no call waits on it any more: only
\* a takeover leaves a call registered on another connection than the attached
\* one (hub.go Serve arbitration and cleanup).
THEOREM OrphansOnlyByTakeover == Spec => []OnlyTakeoverOrphans
<1>1. Init => OrphansInv
  BY DEF Init, OrphansInv
<1>2. OrphansInv => OnlyTakeoverOrphans
  BY DEF OrphansInv, OnlyTakeoverOrphans
<1>. QED
  BY TypeInit, TypeStep, TableInit, TableStep, <1>1, OrphansStep, <1>2, PTL DEF Spec

\* A connection is detached by its own reader, by a takeover after silence, or
\* by the end of the process; never by the late cleanup of another connection
\* (hub.go Serve).
THEOREM DetachmentSafe == Spec => DetachedByItself
<1> DEFINE A == \A k \in Conns : conn = k /\ conn' # k =>
                    \/ phase[k] = "reading" /\ phase'[k] = "gone"
                    \/ conn' # NoConn /\ ~fresh
                    \/ restarts' # restarts
<1>1. TypeInv /\ [Next]_vars => [A]_vars
  <2> SUFFICES ASSUME TypeInv, [Next]_vars, NEW k \in Conns, conn = k, conn' # k
               PROVE  \/ phase[k] = "reading" /\ phase'[k] = "gone"
                      \/ conn' # NoConn /\ ~fresh
                      \/ restarts' # restarts
    BY DEF A
  <2> USE HubAssumption
  <2>1. ASSUME NEW c \in Calls, CallStep(c) PROVE FALSE
    BY <2>1 DEF CallStep, StartCall, AcquireSession, GiveUpQueued, CheckExtension, Wake,
       GiveUpParked, Register, Write, Expire, Receive, DropPending, ReleaseSession, attachVars
  <2>2. ASSUME NEW l \in Conns, ConnStep(l)
        PROVE  \/ phase[k] = "reading" /\ phase'[k] = "gone"
               \/ conn' # NoConn /\ ~fresh
    <3>1. CASE Attach(l)
      BY <3>1 DEF Attach
    <3>2. CASE Disconnect(l)
      BY <3>2 DEF Disconnect, Detaches, TypeInv, TypeOK, ServeTyped
    <3>3. CASE ~Attach(l) /\ ~Disconnect(l)
      BY <2>2, <3>3 DEF ConnStep, Reject, CloseOld, Read, Pong, HandleHello, HandleResult,
         Deliver, attachVars
    <3>. QED
      BY <3>1, <3>2, <3>3
  <2>3. ASSUME NEW b \in Browsers, ExtStep(b) PROVE FALSE
    BY <2>3 DEF ExtStep, Dial, StartJob, LoseSocket, WorkerDies, attachVars
  <2>4. ASSUME NEW j \in jobs, FinishJob(j) PROVE FALSE
    BY <2>4 DEF FinishJob, attachVars
  <2>5. ASSUME GoStale \/ UNCHANGED vars PROVE FALSE
    BY <2>5 DEF GoStale, vars, attachVars
  <2>6. ASSUME RestartDaemon PROVE restarts' # restarts
    BY <2>6 DEF RestartDaemon, TypeInv, TypeOK, TableTyped
  <2>. QED
    BY <2>1, <2>2, <2>3, <2>4, <2>5, <2>6 DEF Next
<1>2. DetachedByItself <=> [][A]_vars
  BY DEF DetachedByItself
<1>. QED
  BY TypeInit, TypeStep, <1>1, <1>2, PTL DEF Spec

----------------------------------------------------------------------------
(* Ids and answers, in one life of the daemon.                             *)

\* A message or a job that carries the id of the call it belongs to.
OwnToolCall == {m \in ToolCall : callId[m.of] = m.id}
OwnJob == {j \in Job : callId[j.of] = j.id}
OwnMessage == {m \in Message : m.type = "tool_result" => callId[m.of] = m.id}

\* An id was handed out once, and a call has none before it registers.
IdsDistinct ==
    /\ \A c \in Calls : callId[c] <= seq
    /\ \A c, d \in Calls : callId[c] = callId[d] /\ callId[c] # 0 => c = d
    /\ \A c \in Calls : pc[c] \in Early => callId[c] = 0

\* Everything on the wire, in a browser or in the hand of a reader is about
\* the call that its id names.
WireOwn ==
    /\ \A k \in Conns : /\ outq[k] \in Seq(OwnToolCall)
                         /\ inq[k] \in Seq(OwnMessage)
                         /\ inHand[k] \in OwnMessage
    /\ jobs \subseteq OwnJob

\* What is about to be sent to a call, is in its channel or was returned by it
\* is its own result or the news of a disconnection.
RepliesOwn ==
    /\ \A k \in Conns : phase[k] = "delivering" => inHand[k].of = target[k]
    /\ \A c \in Calls : chan[c] \in Seq({c, NoCall})
    /\ AnswerIsOwn

OwnInv == IdsDistinct /\ WireOwn /\ RepliesOwn

LEMMA OwnInit == Init => OwnInv
<1> SUFFICES ASSUME Init PROVE OwnInv
  OBVIOUS
<1>1. IdsDistinct
  BY DEF Init, IdsDistinct
<1>2. WireOwn
  <2>1. HelloMsg \in OwnMessage
    BY DEF OwnMessage, Message, HelloMsg
  <2>. QED
    BY <2>1, EmptySeq DEF Init, WireOwn
<1>3. RepliesOwn
  BY EmptySeq DEF Init, RepliesOwn, AnswerIsOwn
<1>. QED
  BY <1>1, <1>2, <1>3 DEF OwnInv

\* Only Register hands out an id, and to a call that had none.
LEMMA IdsFrame ==
    ASSUME TypeInv, [Next]_vars, ~RestartDaemon,
           \A c \in Calls : ~(Register(c) /\ seq' # seq)
    PROVE  UNCHANGED <<seq, callId>> /\ \A c \in Calls : pc'[c] \in Early => pc[c] \in Early
<1> USE DEF TypeInv, TypeOK, CallsTyped
<1>1. ASSUME NEW c \in Calls, CallStep(c)
      PROVE  UNCHANGED <<seq, callId>> /\ \A d \in Calls : pc'[d] \in Early => pc[d] \in Early
  <2>1. CASE StartCall(c) \/ AcquireSession(c) \/ CheckExtension(c) \/ Wake(c)
    BY <2>1 DEF StartCall, AcquireSession, CheckExtension, Wake, tableVars, Early
  <2>2. CASE GiveUpQueued(c) \/ GiveUpParked(c) \/ Expire(c)
    BY <2>2 DEF GiveUpQueued, GiveUpParked, Expire, Return, tableVars, Early
  <2>3. CASE Receive(c) \/ DropPending(c) \/ ReleaseSession(c)
    BY <2>3 DEF Receive, DropPending, ReleaseSession, Return, tableVars, Early
  <2>4. CASE Write(c)
    <3>1. \/ pc' = [pc EXCEPT ![c] = "drop"]
          \/ pc' = [pc EXCEPT ![c] = "await"]
      BY <2>4 DEF Write
    <3>. QED
      BY <2>4, <3>1 DEF Write, tableVars, Early
  <2>5. CASE Register(c)
    <3>1. seq' = seq
      BY <2>5
    <3>2. CASE UNCHANGED <<callId, callConn, tableVars>> /\ \E o \in {"noExtension", "mismatch"} : Return(c, o)
      BY <3>1, <3>2 DEF Return, Early
    <3>3. CASE seq < MaxSeq /\ seq' = seq + 1
      BY <3>1, <3>3 DEF TableTyped
    <3>. QED
      BY <2>5, <3>2, <3>3 DEF Register
  <2>. QED
    BY <1>1, <2>1, <2>2, <2>3, <2>4, <2>5 DEF CallStep
<1>2. ASSUME NEW k \in Conns, ConnStep(k) PROVE UNCHANGED <<seq, callId, pc>>
  BY <1>2 DEF ConnStep, Reject, Attach, CloseOld, Read, Pong, HandleHello, HandleResult,
     Deliver, Disconnect, callVars, tableVars
<1>3. ASSUME NEW b \in Browsers, ExtStep(b) PROVE UNCHANGED <<seq, callId, pc>>
  BY <1>3 DEF ExtStep, Dial, StartJob, LoseSocket, WorkerDies, callVars, tableVars
<1>4. ASSUME NEW j \in jobs, FinishJob(j) PROVE UNCHANGED <<seq, callId, pc>>
  BY <1>4 DEF FinishJob, callVars, tableVars
<1>5. ASSUME GoStale \/ UNCHANGED vars PROVE UNCHANGED <<seq, callId, pc>>
  BY <1>5 DEF GoStale, vars, callVars, tableVars
<1>. QED
  BY <1>1, <1>2, <1>3, <1>4, <1>5 DEF Next

LEMMA WireKept ==
    ASSUME WireOwn,
           OwnToolCall \subseteq OwnToolCall', OwnJob \subseteq OwnJob',
           OwnMessage \subseteq OwnMessage',
           UNCHANGED <<outq, inq, inHand, jobs>>
    PROVE  WireOwn'
<1>1. \A q \in Seq(OwnToolCall) : q \in Seq(OwnToolCall')
  BY SeqMonotonic
<1>2. \A q \in Seq(OwnMessage) : q \in Seq(OwnMessage')
  BY SeqMonotonic
<1>. QED
  BY <1>1, <1>2 DEF WireOwn

\* Whose message it is depends on the ids alone.
LEMMA OwnSets ==
    ASSUME callId' = callId
    PROVE  OwnToolCall' = OwnToolCall /\ OwnJob' = OwnJob /\ OwnMessage' = OwnMessage
BY DEF OwnToolCall, OwnJob, OwnMessage

\* No message is about a call that has no id yet.
LEMMA OwnGrows ==
    ASSUME TypeInv, NEW c \in Calls, NEW i, callId[c] = 0,
           callId' = [callId EXCEPT ![c] = i]
    PROVE  /\ OwnToolCall \subseteq OwnToolCall'
           /\ OwnJob \subseteq OwnJob'
           /\ OwnMessage \subseteq OwnMessage'
<1>1. \A d \in Calls : callId[d] \in Ids => callId'[d] = callId[d]
  BY DEF TypeInv, TypeOK, CallsTyped, Ids
<1>2. OwnToolCall \subseteq OwnToolCall'
  BY <1>1 DEF OwnToolCall, ToolCall
<1>3. OwnJob \subseteq OwnJob'
  BY <1>1 DEF OwnJob, Job
<1>4. OwnMessage \subseteq OwnMessage'
  BY <1>1 DEF OwnMessage, Message, Result, HelloMsg
<1>. QED
  BY <1>2, <1>3, <1>4

LEMMA OwnRegister ==
    ASSUME TypeInv, OwnInv, NEW c \in Calls, Register(c), seq' # seq
    PROVE  OwnInv'
<1> USE DEF TypeInv, TypeOK, CallsTyped, TableTyped, OwnInv
<1>1. /\ pc[c] = "register"
      /\ seq' = seq + 1
      /\ chan' = [chan EXCEPT ![c] = <<>>]
      /\ callId' = [callId EXCEPT ![c] = seq + 1]
      /\ pc' = [pc EXCEPT ![c] = "write"]
      /\ UNCHANGED <<outcome, answer, phase, inHand, target, inq, outq, jobs>>
  BY DEF Register, FreshId, tableVars, readerVars, extVars
<1>2. callId[c] = 0
  BY <1>1 DEF IdsDistinct, Early
<1>3. IdsDistinct'
  BY <1>1 DEF IdsDistinct, Early
<1>4. WireOwn'
  BY <1>1, <1>2, OwnGrows, WireKept
<1>5. RepliesOwn'
  BY <1>1, EmptySeq DEF RepliesOwn, AnswerIsOwn
<1>. QED
  BY <1>3, <1>4, <1>5

\* The other steps: what they put on the wire is about the call its id names.
LEMMA WireStep ==
    ASSUME TypeInv, OwnInv, [Next]_vars, callId' = callId
    PROVE  WireOwn'
<1> USE DEF TypeInv, TypeOK, CallsTyped, ServeTyped, ExtTyped, OwnInv
<1>0. OwnToolCall' = OwnToolCall /\ OwnJob' = OwnJob /\ OwnMessage' = OwnMessage
  BY OwnSets
<1>1. ASSUME UNCHANGED <<outq, inq, inHand, jobs>> PROVE WireOwn'
  BY <1>0, <1>1 DEF WireOwn
<1>2. ASSUME NEW c \in Calls, CallStep(c) PROVE WireOwn'
  <2>1. CASE Write(c)
    <3>1. CASE UNCHANGED outq
      BY <1>1, <2>1, <3>1 DEF Write, readerVars
    <3>2. CASE outq' = [outq EXCEPT ![callConn[c]] = Append(@, [id |-> callId[c], of |-> c])]
      <4>1. callId[c] \in Ids
        BY <2>1 DEF Write, HasId
      <4>2. [id |-> callId[c], of |-> c] \in OwnToolCall
        BY <4>1 DEF OwnToolCall, ToolCall
      <4>3. \A k \in Conns : outq'[k] \in Seq(OwnToolCall)
        BY <3>2, <4>2, AppendProperties DEF WireOwn
      <4>4. UNCHANGED <<inq, inHand, jobs>>
        BY <2>1 DEF Write, readerVars
      <4>. QED
        BY <1>0, <4>3, <4>4 DEF WireOwn
    <3>. QED
      BY <2>1, <3>1, <3>2 DEF Write
  <2>2. CASE ~Write(c)
    BY <1>1, <1>2, <2>2 DEF CallStep, StartCall, AcquireSession, GiveUpQueued,
       CheckExtension, Wake, GiveUpParked, Register, Expire, Receive, DropPending,
       ReleaseSession, readerVars, extVars
  <2>. QED
    BY <2>1, <2>2
<1>3. ASSUME NEW k \in Conns, ConnStep(k) PROVE WireOwn'
  <2>1. CASE Read(k)
    <3>1. Head(inq[k]) \in OwnMessage /\ Tail(inq[k]) \in Seq(OwnMessage)
      BY <2>1, HeadTailProperties DEF Read, WireOwn
    <3>2. /\ inHand' = [inHand EXCEPT ![k] = Head(inq[k])]
          /\ inq' = [inq EXCEPT ![k] = Tail(inq[k])]
          /\ UNCHANGED <<outq, jobs>>
      BY <2>1 DEF Read
    <3>. QED
      BY <1>0, <3>1, <3>2 DEF WireOwn
  <2>2. CASE ~Read(k)
    BY <1>1, <1>3, <2>2 DEF ConnStep, Reject, Attach, CloseOld, Pong, HandleHello,
       HandleResult, Deliver, Disconnect, readerVars, extVars
  <2>. QED
    BY <2>1, <2>2
<1>4. ASSUME NEW b \in Browsers, NEW k \in Conns, Dial(b, k) PROVE WireOwn'
  <2>1. HelloMsg \in OwnMessage
    BY DEF OwnMessage, Message, HelloMsg
  <2>2. <<HelloMsg>> \in Seq(OwnMessage)
    BY <2>1, EmptySeq, AppendProperties
  <2>3. inq' = [inq EXCEPT ![k] = <<HelloMsg>>] /\ UNCHANGED <<outq, inHand, jobs>>
    BY <1>4 DEF Dial
  <2>. QED
    BY <1>0, <2>2, <2>3 DEF WireOwn
<1>5. ASSUME NEW b \in Browsers, StartJob(b) PROVE WireOwn'
  <2> DEFINE m == Head(outq[sock[b]])
  <2>1. sock[b] \in Conns /\ outq[sock[b]] # <<>>
    BY <1>5 DEF StartJob
  <2>2. m \in OwnToolCall /\ Tail(outq[sock[b]]) \in Seq(OwnToolCall)
    BY <2>1, HeadTailProperties DEF WireOwn
  <2>3. /\ jobs' = jobs \union {[id |-> m.id, of |-> m.of, at |-> b]}
        /\ outq' = [outq EXCEPT ![sock[b]] = Tail(outq[sock[b]])]
        /\ UNCHANGED <<inq, inHand>>
    BY <1>5 DEF StartJob, readerVars
  <2> HIDE DEF m
  <2>4. [id |-> m.id, of |-> m.of, at |-> b] \in OwnJob
    BY <2>2 DEF OwnToolCall, ToolCall, OwnJob, Job
  <2>. QED
    BY <1>0, <2>2, <2>3, <2>4 DEF WireOwn
<1>6. ASSUME NEW b \in Browsers, LoseSocket(b) \/ WorkerDies(b) PROVE WireOwn'
  <2>1. /\ outq' = [outq EXCEPT ![sock[b]] = <<>>]
        /\ jobs' \subseteq jobs
        /\ UNCHANGED <<inq, inHand>>
    BY <1>6 DEF LoseSocket, WorkerDies, readerVars
  <2>. QED
    BY <1>0, <2>1, EmptySeq DEF WireOwn
<1>7. ASSUME NEW j \in jobs, FinishJob(j) PROVE WireOwn'
  <2> DEFINE m == [type |-> "tool_result", id |-> j.id, of |-> j.of]
  <2>1. m \in OwnMessage
    BY DEF WireOwn, OwnJob, Job, OwnMessage, Message, Result
  <2>2. /\ \/ inq' = inq
           \/ inq' = [inq EXCEPT ![sock[j.at]] = Append(@, m)]
        /\ jobs' \subseteq jobs
        /\ UNCHANGED <<outq, inHand>>
    BY <1>7 DEF FinishJob, readerVars
  <2> HIDE DEF m
  <2>3. \A k \in Conns : inq'[k] \in {inq[k], Append(inq[k], m)}
    BY <2>2
  <2>4. \A k \in Conns : Append(inq[k], m) \in Seq(OwnMessage)
    BY <2>1, AppendProperties DEF WireOwn
  <2>5. \A k \in Conns : inq'[k] \in Seq(OwnMessage)
    BY <2>3, <2>4 DEF WireOwn
  <2>. QED
    BY <1>0, <2>2, <2>5 DEF WireOwn
<1>8. ASSUME GoStale \/ RestartDaemon \/ UNCHANGED vars PROVE WireOwn'
  BY <1>1, <1>8 DEF GoStale, RestartDaemon, vars, readerVars, extVars
<1>. QED
  BY <1>2, <1>3, <1>4, <1>5, <1>6, <1>7, <1>8 DEF Next, ExtStep

\* A reader looks up the call its result belongs to, and a
\* channel and an answer hold nothing else.
LEMMA RepliesStep ==
    ASSUME TypeInv, TableInv, OwnInv, [Next]_vars
    PROVE  RepliesOwn'
<1> USE HubAssumption
<1> USE DEF TypeInv, TypeOK, CallsTyped, TableTyped, ServeTyped, OwnInv
<1>1. ASSUME \A k \in Conns : phase'[k] = "delivering" =>
                 phase[k] = "delivering" /\ inHand'[k] = inHand[k] /\ target'[k] = target[k],
             chan' = chan, answer' = answer,
             \A c \in Calls : outcome'[c] = "answered" => outcome[c] = "answered"
      PROVE  RepliesOwn'
  BY <1>1 DEF RepliesOwn, AnswerIsOwn
<1>2. ASSUME NEW c \in Calls, CallStep(c) PROVE RepliesOwn'
  <2>1. CASE Receive(c)
    <3> DEFINE r == Head(chan[c])
    <3>1. /\ chan[c] # <<>>
          /\ answer' = [answer EXCEPT ![c] = r]
          /\ outcome' = [outcome EXCEPT ![c] = IF r = NoCall THEN "disconnected"
                                                ELSE "answered"]
          /\ chan' = [chan EXCEPT ![c] = Tail(chan[c])]
          /\ UNCHANGED <<phase, inHand, target>>
      BY <2>1 DEF Receive, Return, readerVars
    <3>2. r \in {c, NoCall} /\ Tail(chan[c]) \in Seq({c, NoCall})
      BY <3>1, HeadTailProperties DEF RepliesOwn
    <3> HIDE DEF r
    <3>3. AnswerIsOwn'
      BY <3>1, <3>2 DEF RepliesOwn, AnswerIsOwn
    <3>. QED
      BY <3>1, <3>2, <3>3 DEF RepliesOwn
  <2>2. CASE Register(c)
    <3>1. UNCHANGED <<phase, inHand, target, answer>>
      BY <2>2 DEF Register, readerVars
    <3>2. \A d \in Calls : outcome'[d] = "answered" => outcome[d] = "answered"
      BY <2>2 DEF Register, Return
    <3>3. chan' = chan \/ chan' = [chan EXCEPT ![c] = <<>>]
      BY <2>2 DEF Register, tableVars
    <3>4. \A d \in Calls : chan'[d] = chan[d] \/ chan'[d] = <<>>
      BY <3>3
    <3>5. \A d \in Calls : chan'[d] \in Seq({d, NoCall})
      <4> SUFFICES ASSUME NEW d \in Calls PROVE chan'[d] \in Seq({d, NoCall})
        OBVIOUS
      <4>1. chan[d] \in Seq({d, NoCall})
        BY DEF RepliesOwn
      <4>2. <<>> \in Seq({d, NoCall})
        BY EmptySeq
      <4>. QED
        BY <3>4, <4>1, <4>2
    <3>. QED
      BY <3>1, <3>2, <3>5 DEF RepliesOwn, AnswerIsOwn
  <2>3. CASE ~Receive(c) /\ ~Register(c)
    <3>1. UNCHANGED <<phase, inHand, target, chan, answer>>
      BY <1>2, <2>3 DEF CallStep, StartCall, AcquireSession, GiveUpQueued, CheckExtension,
         Wake, GiveUpParked, Write, Expire, DropPending, ReleaseSession, readerVars, tableVars
    <3>2. \A d \in Calls : outcome'[d] = "answered" => outcome[d] = "answered"
      BY <1>2, <2>3 DEF CallStep, StartCall, AcquireSession, GiveUpQueued, CheckExtension,
         Wake, GiveUpParked, Write, Expire, DropPending, ReleaseSession, Return
    <3>. QED
      BY <1>1, <3>1, <3>2
  <2>. QED
    BY <2>1, <2>2, <2>3
<1>3. ASSUME NEW k \in Conns, ConnStep(k) PROVE RepliesOwn'
  <2>1. CASE HandleResult(k)
    <3> DEFINE m == inHand[k]
    <3>1. m \in Result /\ callId[m.of] = m.id
      <4>1. m \in OwnMessage /\ m.type = "tool_result"
        BY <2>1 DEF HandleResult, WireOwn
      <4>. QED
        BY <4>1 DEF OwnMessage, Message, Result, HelloMsg
    <3>2. /\ target' = [target EXCEPT ![k] = pending[m.id]]
          /\ phase' = [phase EXCEPT ![k] = IF pending[m.id] = NoCall THEN "reading"
                                           ELSE "delivering"]
          /\ UNCHANGED <<inHand, chan, outcome, answer>>
      BY <2>1 DEF HandleResult, callVars
    <3>3. pending[m.id] # NoCall => pending[m.id] = m.of
      <4> SUFFICES ASSUME pending[m.id] # NoCall PROVE pending[m.id] = m.of
        OBVIOUS
      <4>1. m.id \in Ids /\ m.of \in Calls /\ pending[m.id] \in Calls
        BY <3>1 DEF Result
      <4>2. callId[pending[m.id]] = m.id /\ m.id # 0
        BY <4>1 DEF TableInv, PendingHasCaller, Ids
      <4>. QED
        BY <3>1, <4>1, <4>2 DEF IdsDistinct
    <3> HIDE DEF m
    <3>4. \A l \in Conns : phase'[l] = "delivering" => inHand'[l].of = target'[l]
      <4> SUFFICES ASSUME NEW l \in Conns, phase'[l] = "delivering"
                   PROVE  inHand'[l].of = target'[l]
        OBVIOUS
      <4>1. CASE l = k
        BY <3>2, <3>3, <4>1 DEF m
      <4>2. CASE l # k
        BY <3>2, <4>2 DEF RepliesOwn
      <4>. QED
        BY <4>1, <4>2
    <3>. QED
      BY <3>2, <3>4 DEF RepliesOwn, AnswerIsOwn
  <2>2. CASE Deliver(k)
    <3>1. /\ inHand[k].of = target[k] /\ target[k] \in Calls
          /\ chan' = [chan EXCEPT ![target[k]] = Append(@, target[k])]
          /\ target' = [target EXCEPT ![k] = NoCall]
          /\ phase' = [phase EXCEPT ![k] = "reading"]
          /\ UNCHANGED <<inHand, outcome, answer>>
      BY <2>2 DEF Deliver, RepliesOwn, DeliversResult, callVars
    <3>2. Append(chan[target[k]], target[k]) \in Seq({target[k], NoCall})
      BY <3>1, AppendProperties DEF RepliesOwn
    <3>. QED
      BY <3>1, <3>2 DEF RepliesOwn, AnswerIsOwn
  <2>3. CASE Disconnect(k) /\ Detaches(k)
    <3>1. /\ chan' = [c \in Calls |-> IF c \in Registered THEN Append(chan[c], NoCall)
                                      ELSE chan[c]]
          /\ phase' = [phase EXCEPT ![k] = "gone"]
          /\ UNCHANGED <<inHand, target, outcome, answer>>
      BY <2>3 DEF Disconnect, FailPending
    <3>2. \A c \in Calls : Append(chan[c], NoCall) \in Seq({c, NoCall})
      BY AppendProperties DEF RepliesOwn
    <3>. QED
      BY <3>1, <3>2 DEF RepliesOwn, AnswerIsOwn
  <2>4. CASE ~HandleResult(k) /\ ~Deliver(k) /\ ~(Disconnect(k) /\ Detaches(k))
    <3>1. UNCHANGED <<chan, outcome, answer, target>>
      BY <1>3, <2>4 DEF ConnStep, Reject, Attach, CloseOld, Read, Pong, HandleHello,
         Disconnect, callVars, tableVars, readerVars
    <3>2. \A l \in Conns : phase'[l] = "delivering" =>
              phase[l] = "delivering" /\ inHand'[l] = inHand[l]
      BY <1>3, <2>4 DEF ConnStep, Reject, Attach, CloseOld, Read, Pong, HandleHello,
         Disconnect, readerVars
    <3>. QED
      BY <1>1, <3>1, <3>2
  <2>. QED
    BY <2>1, <2>2, <2>3, <2>4
<1>4. ASSUME NEW b \in Browsers, ExtStep(b) PROVE RepliesOwn'
  <2>1. UNCHANGED <<inHand, target, chan, outcome, answer>>
    BY <1>4 DEF ExtStep, Dial, StartJob, LoseSocket, WorkerDies, callVars, tableVars, readerVars
  <2>2. \A l \in Conns : phase'[l] = "delivering" => phase[l] = "delivering"
    BY <1>4 DEF ExtStep, Dial, StartJob, LoseSocket, WorkerDies, readerVars
  <2>. QED
    BY <1>1, <2>1, <2>2
<1>5. ASSUME NEW j \in jobs, FinishJob(j) PROVE RepliesOwn'
  BY <1>1, <1>5 DEF FinishJob, callVars, tableVars, readerVars
<1>6. ASSUME GoStale \/ UNCHANGED vars PROVE RepliesOwn'
  BY <1>1, <1>6 DEF GoStale, vars, callVars, tableVars, readerVars
<1>7. ASSUME RestartDaemon PROVE RepliesOwn'
  <2>1. \A c \in Calls : outcome'[c] = "answered" => outcome[c] = "answered"
    BY <1>7 DEF RestartDaemon
  <2>2. \A k \in Conns : phase'[k] # "delivering"
    BY <1>7 DEF RestartDaemon
  <2>3. chan' = [c \in Calls |-> <<>>] /\ answer' = answer
    BY <1>7 DEF RestartDaemon
  <2>. QED
    BY <2>1, <2>2, <2>3, EmptySeq DEF RepliesOwn, AnswerIsOwn
<1>. QED
  BY <1>2, <1>3, <1>4, <1>5, <1>6, <1>7 DEF Next

\* Only RestartDaemon counts a restart.
LEMMA RestartsFrame == [Next]_vars /\ ~RestartDaemon => restarts' = restarts
<1> SUFFICES ASSUME [Next]_vars, ~RestartDaemon PROVE restarts' = restarts
  OBVIOUS
<1>1. ASSUME NEW c \in Calls, CallStep(c) PROVE restarts' = restarts
  BY <1>1 DEF CallStep, StartCall, AcquireSession, GiveUpQueued, CheckExtension, Wake,
     GiveUpParked, Register, Write, Expire, Receive, DropPending, ReleaseSession
<1>2. ASSUME NEW k \in Conns, ConnStep(k) PROVE restarts' = restarts
  BY <1>2 DEF ConnStep, Reject, Attach, CloseOld, Read, Pong, HandleHello, HandleResult,
     Deliver, Disconnect
<1>3. ASSUME NEW b \in Browsers, ExtStep(b) PROVE restarts' = restarts
  BY <1>3 DEF ExtStep, Dial, StartJob, LoseSocket, WorkerDies
<1>4. ASSUME NEW j \in jobs, FinishJob(j) PROVE restarts' = restarts
  BY <1>4 DEF FinishJob
<1>5. ASSUME GoStale \/ UNCHANGED vars PROVE restarts' = restarts
  BY <1>5 DEF GoStale, vars
<1>. QED
  BY <1>1, <1>2, <1>3, <1>4, <1>5 DEF Next

\* OwnInv is inductive while the daemon lives.
FirstLifeInv == restarts = 0 => OwnInv

LEMMA OwnStep == TypeInv /\ TableInv /\ FirstLifeInv /\ [Next]_vars => FirstLifeInv'
<1> SUFFICES ASSUME TypeInv, TableInv, FirstLifeInv, [Next]_vars, restarts' = 0
             PROVE  OwnInv'
  BY DEF FirstLifeInv
<1>1. ~RestartDaemon
  BY DEF RestartDaemon, TypeInv, TypeOK, TableTyped
<1>2. OwnInv
  BY <1>1, RestartsFrame DEF FirstLifeInv
<1>3. CASE \E c \in Calls : Register(c) /\ seq' # seq
  BY <1>2, <1>3, OwnRegister
<1>4. CASE \A c \in Calls : ~(Register(c) /\ seq' # seq)
  <2>1. UNCHANGED <<seq, callId>> /\ \A c \in Calls : pc'[c] \in Early => pc[c] \in Early
    BY <1>1, <1>4, IdsFrame
  <2>2. IdsDistinct'
    BY <1>2, <2>1 DEF OwnInv, IdsDistinct
  <2>3. WireOwn'
    BY <1>2, <2>1, WireStep
  <2>4. RepliesOwn'
    BY <1>2, RepliesStep
  <2>. QED
    BY <2>2, <2>3, <2>4 DEF OwnInv
<1>. QED
  BY <1>3, <1>4

\* Until the daemon is restarted, the result a call returns comes from the job
\* of that very call, although jobs outlive calls and connections and results
\* arrive on whatever socket the extension then holds (hub.go Call,
\* handleInbound; ws-client.js send).  A restart breaks it: ids start again at
\* r1 while jobs of the old life still run.
THEOREM AnswersOwnInOneLife == Spec => [](restarts = 0 => AnswerIsOwn)
<1>1. Init => FirstLifeInv
  BY OwnInit DEF FirstLifeInv
<1>2. FirstLifeInv => (restarts = 0 => AnswerIsOwn)
  BY DEF FirstLifeInv, OwnInv, RepliesOwn
<1>. QED
  BY TypeInit, TypeStep, TableInit, TableStep, <1>1, OwnStep, <1>2, PTL DEF Spec

\* The same for a daemon that is never restarted, the way the runs check it.
THEOREM AnswersOwn == ASSUME MaxRestarts = 0 PROVE Spec => []AnswerIsOwn
<1>1. TypeInv /\ (restarts = 0 => AnswerIsOwn) => AnswerIsOwn
  BY DEF TypeInv, TypeOK, TableTyped
<1>. QED
  BY TypeInit, TypeStep, AnswersOwnInOneLife, <1>1, PTL DEF Spec

----------------------------------------------------------------------------
(* Refinement: Call is an exclusive remote procedure call.                 *)

\* The state functions that Hub!Rpc substitutes for status and result.
Status == [c \in Calls |-> IF pc[c] = "idle" THEN "idle"
                           ELSE IF pc[c] = "queued" THEN "submitted"
                           ELSE IF pc[c] = "done" THEN "done"
                           ELSE "running"]
Returned == [c \in Calls |-> IF pc[c] # "done" THEN "none"
                             ELSE IF outcome[c] # "answered" THEN "failed"
                             ELSE IF answer[c] = c THEN "own"
                             ELSE "foreign"]

LEMMA RpcInitial == Init => Rpc!RpcInit
BY DEF Init, Rpc!RpcInit

\* Steps inside a call, or of the connections and the extension, stutter.
LEMMA RpcQuiet ==
    ASSUME TypeInv, NEW c \in Calls, NEW to \in PCs,
           pc[c] \notin {"idle", "queued", "done"}, to \notin {"idle", "queued", "done"},
           pc' = [pc EXCEPT ![c] = to],
           \A d \in Calls \ {c} : outcome'[d] = outcome[d] /\ answer'[d] = answer[d]
    PROVE  Status' = Status /\ Returned' = Returned
<1> USE DEF TypeInv, TypeOK, CallsTyped
<1>1. \A d \in Calls : pc'[d] = IF d = c THEN to ELSE pc[d]
  OBVIOUS
<1>. QED
  BY <1>1 DEF Status, Returned

LEMMA RpcStutter ==
    ASSUME Status' = Status, Returned' = Returned
    PROVE  [Rpc!RpcNext]_(Rpc!rpcVars)
BY DEF Status, Returned, Rpc!rpcVars

\* A page call begins only when no other call drives its tab.
LEMMA RpcAcquire ==
    ASSUME TypeInv, SessionInv, NEW c \in Calls, AcquireSession(c)
    PROVE  Rpc!Begin(c)
<1> USE DEF TypeInv, TypeOK, CallsTyped
<1>1. pc[c] = "queued" /\ ~sem[Key(c)] /\ pc' = [pc EXCEPT ![c] = "waiting"]
      /\ UNCHANGED <<outcome, answer>>
  BY DEF AcquireSession
<1>2. Key(c) \in Names /\ \A d \in Calls : TabKey(d) = Key(d)
  BY HubAssumption DEF Key, TabKey, SessionKey, Names
<1>3. \A d \in Calls \ Independent : TabKey(d) = TabKey(c) => Status[d] # "running"
  BY <1>1, <1>2 DEF SessionInv, NoStrandedSession, Holding, Status, PCs
<1>4. Status[c] = "submitted" /\ Status' = [Status EXCEPT ![c] = "running"]
      /\ Returned' = Returned
  BY <1>1 DEF Status, Returned
<1>. QED
  BY <1>3, <1>4 DEF Rpc!Begin, Rpc!Free, Status, Returned

\* Every step of a call is a step of the remote procedure call, or none.
LEMMA RpcCall ==
    ASSUME TypeInv, SessionInv, AnswerIsOwn, NEW c \in Calls, CallStep(c)
    PROVE  [Rpc!RpcNext]_(Rpc!rpcVars)
<1> USE DEF TypeInv, TypeOK, CallsTyped
<1>1. CASE StartCall(c)
  <2>1. pc[c] = "idle" /\ UNCHANGED <<outcome, answer>>
    BY <1>1 DEF StartCall
  <2>2. CASE c \in Independent
    <3>1. pc' = [pc EXCEPT ![c] = "waiting"]
      BY <1>1, <2>2 DEF StartCall
    <3>2. /\ Status[c] = "idle"
          /\ Status' = [Status EXCEPT ![c] = "running"]
          /\ Returned' = Returned
      BY <2>1, <3>1 DEF Status, Returned
    <3>3. Rpc!Begin(c)
      BY <2>2, <3>2 DEF Rpc!Begin, Status, Returned
    <3>. QED
      BY <3>3 DEF Rpc!RpcNext
  <2>3. CASE c \notin Independent
    <3>1. pc' = [pc EXCEPT ![c] = "queued"]
      BY <1>1, <2>3 DEF StartCall
    <3>2. /\ Status[c] = "idle"
          /\ Status' = [Status EXCEPT ![c] = "submitted"]
          /\ Returned' = Returned
      BY <2>1, <3>1 DEF Status, Returned
    <3>3. Rpc!Submit(c)
      BY <3>2 DEF Rpc!Submit, Status, Returned
    <3>. QED
      BY <3>3 DEF Rpc!RpcNext
  <2>. QED
    BY <2>2, <2>3
<1>2. CASE AcquireSession(c)
  BY <1>2, RpcAcquire DEF Rpc!RpcNext
<1>3. CASE GiveUpQueued(c)
  <2>1. /\ pc[c] = "queued" /\ pc' = [pc EXCEPT ![c] = "done"]
        /\ outcome' = [outcome EXCEPT ![c] = "timeout"] /\ answer' = answer
    BY <1>3 DEF GiveUpQueued
  <2>2. /\ Status[c] = "submitted"
        /\ Status' = [Status EXCEPT ![c] = "done"]
        /\ Returned' = [Returned EXCEPT ![c] = "failed"]
    BY <2>1 DEF Status, Returned
  <2>3. Rpc!End(c)
    BY <2>2 DEF Rpc!End, Status, Returned
  <2>. QED
    BY <2>3 DEF Rpc!RpcNext
<1>4. CASE ReleaseSession(c)
  <2>1. /\ pc[c] = "release" /\ pc' = [pc EXCEPT ![c] = "done"]
        /\ UNCHANGED <<outcome, answer>>
    BY <1>4 DEF ReleaseSession
  <2>2. PICK r \in {"own", "failed"} : Returned' = [Returned EXCEPT ![c] = r]
    <3>1. CASE outcome[c] = "answered"
      <4>1. answer[c] = c
        BY <3>1 DEF AnswerIsOwn
      <4>2. Returned' = [Returned EXCEPT ![c] = "own"]
        BY <2>1, <3>1, <4>1 DEF Returned
      <4>. QED
        BY <4>2
    <3>2. CASE outcome[c] # "answered"
      <4>1. Returned' = [Returned EXCEPT ![c] = "failed"]
        BY <2>1, <3>2 DEF Returned
      <4>. QED
        BY <4>1
    <3>. QED
      BY <3>1, <3>2
  <2>3. Status[c] = "running" /\ Status' = [Status EXCEPT ![c] = "done"]
    BY <2>1 DEF Status
  <2>4. Rpc!End(c)
    BY <2>2, <2>3 DEF Rpc!End, Status, Returned
  <2>. QED
    BY <2>4 DEF Rpc!RpcNext
<1> DEFINE Inside == {"waiting", "parked", "register", "write", "await", "drop", "release"}
<1>5. ASSUME NEW to \in Inside, pc[c] \in Inside, pc' = [pc EXCEPT ![c] = to],
             \A d \in Calls \ {c} : outcome'[d] = outcome[d] /\ answer'[d] = answer[d]
      PROVE  [Rpc!RpcNext]_(Rpc!rpcVars)
  BY <1>5, RpcQuiet, RpcStutter DEF PCs
<1>6. CASE CheckExtension(c)
  <2>1. PICK to \in {"register", "parked"} : pc' = [pc EXCEPT ![c] = to]
    BY <1>6 DEF CheckExtension
  <2>. QED
    BY <1>5, <1>6, <2>1 DEF CheckExtension
<1>7. CASE Wake(c)
  BY <1>5, <1>7 DEF Wake
<1>8. CASE GiveUpParked(c)
  BY <1>5, <1>8 DEF GiveUpParked, Return
<1>9. CASE Register(c)
  <2>1. PICK to \in {"write", "release"} : pc' = [pc EXCEPT ![c] = to]
    <3>1. \/ pc' = [pc EXCEPT ![c] = "release"]
          \/ pc' = [pc EXCEPT ![c] = "write"]
      BY <1>9 DEF Register, Return
    <3>. QED
      BY <3>1
  <2>2. pc[c] = "register" /\ answer' = answer
        /\ \A d \in Calls \ {c} : outcome'[d] = outcome[d]
    BY <1>9 DEF Register, Return
  <2>. QED
    BY <1>5, <2>1, <2>2
<1>10. CASE Write(c)
  <2>1. PICK to \in {"drop", "await"} : pc' = [pc EXCEPT ![c] = to]
    <3>1. \/ pc' = [pc EXCEPT ![c] = "drop"]
          \/ pc' = [pc EXCEPT ![c] = "await"]
      BY <1>10 DEF Write
    <3>. QED
      BY <3>1
  <2>2. pc[c] = "write" /\ answer' = answer
        /\ \A d \in Calls \ {c} : outcome'[d] = outcome[d]
    BY <1>10 DEF Write
  <2>. QED
    BY <1>5, <2>1, <2>2
<1>11. CASE Expire(c)
  BY <1>5, <1>11 DEF Expire
<1>12. CASE Receive(c)
  <2>1. /\ pc[c] = "await" /\ pc' = [pc EXCEPT ![c] = "release"]
        /\ \A d \in Calls \ {c} : outcome'[d] = outcome[d] /\ answer'[d] = answer[d]
    BY <1>12 DEF Receive, Return
  <2>. QED
    BY <1>5, <2>1
<1>13. CASE DropPending(c)
  BY <1>5, <1>13 DEF DropPending
<1>. QED
  BY <1>1, <1>2, <1>3, <1>4, <1>6, <1>7, <1>8, <1>9, <1>10, <1>11, <1>12, <1>13 DEF CallStep

\* The end of the daemon is the crash of the service.
LEMMA RpcRestart == ASSUME TypeInv, RestartDaemon PROVE Rpc!Crash
<1> USE DEF TypeInv, TypeOK, CallsTyped
<1>1. Status' = [c \in Calls |-> IF Status[c] = "idle" THEN "idle" ELSE "done"]
  BY DEF RestartDaemon, Status
<1>2. Returned' = [c \in Calls |-> IF Status[c] \in {"submitted", "running"}
                                   THEN "failed" ELSE Returned[c]]
  BY DEF RestartDaemon, Status, Returned
<1>. QED
  BY <1>1, <1>2 DEF Rpc!Crash, Status, Returned

\* Every step of the hub is a step of the remote procedure call, or none.
LEMMA RpcStep ==
    ASSUME TypeInv, SessionInv, AnswerIsOwn, [Next]_vars
    PROVE  [Rpc!RpcNext]_(Rpc!rpcVars)
<1>1. ASSUME UNCHANGED <<pc, outcome, answer>> PROVE [Rpc!RpcNext]_(Rpc!rpcVars)
  BY <1>1, RpcStutter DEF Status, Returned
<1>2. ASSUME NEW c \in Calls, CallStep(c) PROVE [Rpc!RpcNext]_(Rpc!rpcVars)
  BY <1>2, RpcCall
<1>3. ASSUME NEW k \in Conns, ConnStep(k) PROVE UNCHANGED <<pc, outcome, answer>>
  BY <1>3 DEF ConnStep, Reject, Attach, CloseOld, Read, Pong, HandleHello, HandleResult,
     Deliver, Disconnect, callVars
<1>4. ASSUME NEW b \in Browsers, ExtStep(b) PROVE UNCHANGED <<pc, outcome, answer>>
  BY <1>4 DEF ExtStep, Dial, StartJob, LoseSocket, WorkerDies, callVars
<1>5. ASSUME NEW j \in jobs, FinishJob(j) PROVE UNCHANGED <<pc, outcome, answer>>
  BY <1>5 DEF FinishJob, callVars
<1>6. ASSUME GoStale \/ UNCHANGED vars PROVE UNCHANGED <<pc, outcome, answer>>
  BY <1>6 DEF GoStale, vars, callVars
<1>7. ASSUME RestartDaemon PROVE [Rpc!RpcNext]_(Rpc!rpcVars)
  BY <1>7, RpcRestart DEF Rpc!RpcNext
<1>. QED
  BY <1>1, <1>2, <1>3, <1>4, <1>5, <1>6, <1>7 DEF Next

\* A behaviour of the hub in which no call returns the answer of another one is
\* a behaviour of SessionRpc, restarts of the daemon included: they are the
\* crashes of the service (hub.go Call, acquireSession, releaseSession).
THEOREM RpcUnlessForeign == Spec /\ []AnswerIsOwn => ImplementsRpc
<1>1. TypeInv /\ SessionInv /\ AnswerIsOwn /\ [Next]_vars => [Rpc!RpcNext]_(Rpc!rpcVars)
  BY RpcStep
<1>. QED
  BY TypeInit, TypeStep, SessionInit, SessionStep, RpcInitial, <1>1, PTL
  DEF Spec, ImplementsRpc, Rpc!RpcSpec

\* A daemon that is never restarted implements SessionRpc: each call begins
\* once, alone on its tab, and ends once, with its own answer or an error.
THEOREM HubImplementsRpc == ASSUME MaxRestarts = 0 PROVE Spec => ImplementsRpc
BY RpcUnlessForeign, AnswersOwn, PTL

=============================================================================
