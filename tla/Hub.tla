-------------------------------- MODULE Hub --------------------------------
(***************************************************************************)
(* The hub of the daemon (internal/hub/hub.go): concurrent tool calls are  *)
(* multiplexed over the one WebSocket an extension holds.  A call queues   *)
(* for its session, waits for an extension, registers a reply channel      *)
(* under a fresh id, writes a tool_call and waits for the reply, the loss  *)
(* of the connection or its deadline.  One goroutine per connection        *)
(* (Serve) arbitrates attachment, reads messages and cleans up.            *)
(*                                                                         *)
(* Each step is one critical section of h.mu or one blocking operation of  *)
(* the goroutine that takes it.  Time is abstract: a deadline may fire     *)
(* whenever its select statement waits, and lastActivity is reduced to     *)
(* "younger than staleAfter" (fresh).                                      *)
(*                                                                         *)
(* The far end of a connection is the extension's ws-client.js: it starts  *)
(* a job per tool_call, runs jobs concurrently, and sends each result on   *)
(* the socket it holds when the job ends.                                  *)
(***************************************************************************)
EXTENDS Naturals, Sequences, FiniteSets

CONSTANTS
    Calls,         \* invocations of Hub.Call, each used once
    NoCall,
    Conns,         \* connections, each dialled at most once
    NoConn,
    Browsers,
    BrowserOf,     \* [Conns -> Browsers]: who dials the connection
    Speaks,        \* browsers whose extension speaks the daemon's protocol
    Sessions,      \* session names
    Default,       \* the session named "default"
    Unnamed,       \* an absent or empty session field
    SessionName,   \* [Calls -> Sessions \union {Unnamed}]: what each asks for
    Independent,   \* calls whose action is in sessionIndependentActions
    MaxSeq,        \* bound on the ids one daemon process hands out
    MaxRestarts    \* bound on daemon restarts

Names == Sessions \union {Unnamed}

ASSUME HubAssumption ==
    /\ NoCall \notin Calls
    /\ NoConn \notin Conns
    /\ BrowserOf \in [Conns -> Browsers]
    /\ Speaks \subseteq Browsers
    /\ Default \in Sessions
    /\ SessionName \in [Calls -> Names]
    /\ Independent \subseteq Calls
    /\ MaxSeq \in Nat
    /\ MaxRestarts \in Nat

VARIABLES
    conn,        \* h.conn; h.connected always equals (conn # NoConn)
    compatible,  \* h.compatible
    fresh,       \* time.Since(h.lastActivity) < staleAfter
    seq,         \* h.seq
    pending,     \* h.pending: id -> the call whose channel is registered
    sem,         \* h.sessLocks: is the capacity-1 channel of the key full?
    pc,          \* where each call is in Hub.Call
    callId,      \* local variable id of each call
    callConn,    \* local variable conn of each call
    changed,     \* has the stateChanged channel a parked call holds closed?
    chan,        \* the reply channel of each call, capacity 1
    outcome,     \* how each call returned
    answer,      \* ghost: the call whose job produced the returned result
    phase,       \* where the Serve goroutine of each connection is
    life,        \* the daemon's end of a connection: open, closing, closed
    inHand,      \* the envelope the reader of a connection is handling
    target,      \* the call whose channel that reader is about to send to
    greeted,     \* ghost: connections whose hello has been evaluated
    sock,        \* ws-client.js: the socket each browser holds
    up,          \* the extension's end of a connection is open
    inq,         \* messages on their way to the daemon
    outq,        \* tool_calls on their way to the extension
    jobs,        \* tool_calls executing in a browser
    superseded,  \* ghost: connections another one has taken over from
    restarts

callVars == <<sem, pc, callId, callConn, changed, outcome, answer>>
tableVars == <<seq, pending, chan>>
attachVars == <<conn, compatible, fresh>>
readerVars == <<phase, life, inHand, target, greeted, superseded>>
extVars == <<sock, up, inq, outq, jobs>>
vars == <<callVars, tableVars, attachVars, readerVars, extVars, restarts>>

----------------------------------------------------------------------------
Ids == 1..MaxSeq

\* `of` is a ghost: the call whose tool_call caused the message.
ToolCall == [id : Ids, of : Calls]
Job == [id : Ids, of : Calls, at : Browsers]
Result == [type : {"tool_result"}, id : Ids, of : Calls]
HelloMsg == [type |-> "hello"]
Message == Result \union {HelloMsg}

\* What is sent to a reply channel: the call a result answers, or NoCall for
\* the synthetic "extension disconnected" envelope of the cleanup.
Reply == Calls \union {NoCall}

PCs == {"idle", "queued", "waiting", "parked", "register", "write", "await",
        "drop", "release", "done"}
Outcomes == {"none", "timeout", "noExtension", "mismatch", "writeError",
             "disconnected", "answered", "killed"}
Phases == {"unused", "dialing", "reading", "handling", "delivering", "gone"}

CallsTyped ==
    /\ sem \in [Names -> BOOLEAN]
    /\ pc \in [Calls -> PCs]
    /\ callId \in [Calls -> 0..MaxSeq]
    /\ callConn \in [Calls -> Conns \union {NoConn}]
    /\ changed \in [Calls -> BOOLEAN]
    /\ outcome \in [Calls -> Outcomes]
    /\ answer \in [Calls -> Reply]

TableTyped ==
    /\ seq \in 0..MaxSeq
    /\ pending \in [Ids -> Calls \union {NoCall}]
    /\ chan \in [Calls -> Seq(Reply)]
    /\ restarts \in 0..MaxRestarts

ServeTyped ==
    /\ conn \in Conns \union {NoConn}
    /\ compatible \in BOOLEAN
    /\ fresh \in BOOLEAN
    /\ phase \in [Conns -> Phases]
    /\ life \in [Conns -> {"open", "closing", "closed"}]
    /\ inHand \in [Conns -> Message]
    /\ target \in [Conns -> Calls \union {NoCall}]
    /\ greeted \subseteq Conns
    /\ superseded \subseteq Conns

ExtTyped ==
    /\ sock \in [Browsers -> Conns \union {NoConn}]
    /\ up \in [Conns -> BOOLEAN]
    /\ inq \in [Conns -> Seq(Message)]
    /\ outq \in [Conns -> Seq(ToolCall)]
    /\ jobs \subseteq Job

TypeOK == CallsTyped /\ TableTyped /\ ServeTyped /\ ExtTyped

----------------------------------------------------------------------------
\* Slip: the key is the session field as sent.
SessionKeyVerbatim(s) == s

\* hub.go sessionKey: "" and "default" are one session, as in the extension.
SessionKey(s) == IF s = Unnamed THEN Default ELSE s

Key(c) == SessionKey(SessionName[c])

\* dispatcher.js: the session whose tab the extension drives for the call.
TabKey(c) == IF SessionName[c] = Unnamed THEN Default ELSE SessionName[c]

\* Slip: every call releases the session, also the one that never took it.
DeferredAlways(c) == TRUE

\* `defer h.releaseSession(key)` is armed only for calls that queue.
Deferred(c) == c \notin Independent

Return(c, o) ==
    /\ outcome' = [outcome EXCEPT ![c] = o]
    /\ pc' = [pc EXCEPT ![c] = "release"]

Init ==
    /\ conn = NoConn
    /\ compatible = FALSE
    /\ fresh = FALSE
    /\ seq = 0
    /\ pending = [i \in Ids |-> NoCall]
    /\ sem = [n \in Names |-> FALSE]
    /\ pc = [c \in Calls |-> "idle"]
    /\ callId = [c \in Calls |-> 0]
    /\ callConn = [c \in Calls |-> NoConn]
    /\ changed = [c \in Calls |-> FALSE]
    /\ chan = [c \in Calls |-> <<>>]
    /\ outcome = [c \in Calls |-> "none"]
    /\ answer = [c \in Calls |-> NoCall]
    /\ phase = [k \in Conns |-> "unused"]
    /\ life = [k \in Conns |-> "open"]
    /\ inHand = [k \in Conns |-> HelloMsg]
    /\ target = [k \in Conns |-> NoCall]
    /\ greeted = {}
    /\ superseded = {}
    /\ sock = [b \in Browsers |-> NoConn]
    /\ up = [k \in Conns |-> FALSE]
    /\ inq = [k \in Conns |-> <<>>]
    /\ outq = [k \in Conns |-> <<>>]
    /\ jobs = {}
    /\ restarts = 0

----------------------------------------------------------------------------
(* Hub.Call, one goroutine per call.                                       *)

StartCall(c) ==
    /\ pc[c] = "idle"
    /\ pc' = [pc EXCEPT ![c] = IF c \in Independent THEN "waiting" ELSE "queued"]
    /\ UNCHANGED <<sem, callId, callConn, changed, outcome, answer, tableVars,
                   attachVars, readerVars, extVars, restarts>>

\* acquireSession: the send on the semaphore succeeds.
AcquireSession(c) ==
    /\ pc[c] = "queued"
    /\ ~sem[Key(c)]
    /\ sem' = [sem EXCEPT ![Key(c)] = TRUE]
    /\ pc' = [pc EXCEPT ![c] = "waiting"]
    /\ UNCHANGED <<callId, callConn, changed, outcome, answer, tableVars,
                   attachVars, readerVars, extVars, restarts>>

\* acquireSession: ctx is done first; nothing to release.
GiveUpQueued(c) ==
    /\ pc[c] = "queued"
    /\ pc' = [pc EXCEPT ![c] = "done"]
    /\ outcome' = [outcome EXCEPT ![c] = "timeout"]
    /\ UNCHANGED <<sem, callId, callConn, changed, answer, tableVars,
                   attachVars, readerVars, extVars, restarts>>

\* waitForExtension, top of the loop: under mu, either an extension is
\* attached or the current stateChanged channel is captured.
CheckExtension(c) ==
    /\ pc[c] = "waiting"
    /\ IF conn # NoConn
       THEN /\ pc' = [pc EXCEPT ![c] = "register"]
            /\ UNCHANGED changed
       ELSE /\ pc' = [pc EXCEPT ![c] = "parked"]
            /\ changed' = [changed EXCEPT ![c] = FALSE]
    /\ UNCHANGED <<sem, callId, callConn, outcome, answer, tableVars,
                   attachVars, readerVars, extVars, restarts>>

Wake(c) ==
    /\ pc[c] = "parked"
    /\ changed[c]
    /\ pc' = [pc EXCEPT ![c] = "waiting"]
    /\ UNCHANGED <<sem, callId, callConn, changed, outcome, answer, tableVars,
                   attachVars, readerVars, extVars, restarts>>

\* Slip: the error return of waitForExtension bypasses the deferred release.
GiveUpParkedHolding(c) ==
    /\ pc[c] = "parked"
    /\ pc' = [pc EXCEPT ![c] = "done"]
    /\ outcome' = [outcome EXCEPT ![c] = "noExtension"]
    /\ UNCHANGED <<sem, callId, callConn, changed, answer, tableVars,
                   attachVars, readerVars, extVars, restarts>>

\* The reconnect timer or ctx fires in the select of waitForExtension.
GiveUpParked(c) ==
    /\ pc[c] = "parked"
    /\ \E o \in {"timeout", "noExtension"} : Return(c, o)
    /\ UNCHANGED <<sem, callId, callConn, changed, answer, tableVars,
                   attachVars, readerVars, extVars, restarts>>

\* Slip: the id is read before h.seq is incremented.
IdBeforeIncrement == seq

\* Slip: the id is the size of h.pending, so a dropped id is handed out again.
IdFromTableSize == 1 + Cardinality({i \in Ids : pending[i] # NoCall})

\* h.seq++; id := "r" + h.seq
FreshId == seq + 1

\* Call, second critical section: h.conn may have changed since the wait.
Register(c) ==
    /\ pc[c] = "register"
    /\ \/ /\ conn = NoConn
          /\ Return(c, "noExtension")
          /\ UNCHANGED <<callId, callConn, tableVars>>
       \/ /\ conn # NoConn
          /\ ~compatible
          /\ Return(c, "mismatch")
          /\ UNCHANGED <<callId, callConn, tableVars>>
       \/ /\ conn # NoConn
          /\ compatible
          /\ seq < MaxSeq
          /\ seq' = seq + 1
          /\ pending' = [pending EXCEPT ![FreshId] = c]
          /\ chan' = [chan EXCEPT ![c] = <<>>]
          /\ callId' = [callId EXCEPT ![c] = FreshId]
          /\ callConn' = [callConn EXCEPT ![c] = conn]
          /\ pc' = [pc EXCEPT ![c] = "write"]
          /\ UNCHANGED outcome
    /\ UNCHANGED <<sem, changed, answer, attachVars, readerVars, extVars, restarts>>

\* writeJSON outside mu.  A connection the daemon closed refuses the frame; a
\* connection whose far end is gone may refuse it or swallow it.
Write(c) ==
    /\ pc[c] = "write"
    /\ LET k == callConn[c] IN
       \/ /\ life[k] = "closed" \/ ~up[k]
          /\ pc' = [pc EXCEPT ![c] = "drop"]
          /\ outcome' = [outcome EXCEPT ![c] = "writeError"]
          /\ UNCHANGED outq
       \/ /\ life[k] # "closed"
          /\ pc' = [pc EXCEPT ![c] = "await"]
          /\ outq' = IF up[k]
                     THEN [outq EXCEPT ![k] = Append(@, [id |-> callId[c], of |-> c])]
                     ELSE outq
          /\ UNCHANGED outcome
    /\ UNCHANGED <<sem, callId, callConn, changed, answer, tableVars,
                   attachVars, readerVars, sock, up, inq, jobs, restarts>>

\* Slip: the deadline returns at once and leaves the id registered.
ExpireRegistered(c) ==
    /\ pc[c] = "await"
    /\ Return(c, "timeout")
    /\ UNCHANGED <<sem, callId, callConn, changed, answer, tableVars,
                   attachVars, readerVars, extVars, restarts>>

\* The final select: ctx is done.
Expire(c) ==
    /\ pc[c] = "await"
    /\ pc' = [pc EXCEPT ![c] = "drop"]
    /\ outcome' = [outcome EXCEPT ![c] = "timeout"]
    /\ UNCHANGED <<sem, callId, callConn, changed, answer, tableVars,
                   attachVars, readerVars, extVars, restarts>>

\* The final select: the reply channel holds an envelope.
Receive(c) ==
    /\ pc[c] = "await"
    /\ chan[c] # <<>>
    /\ answer' = [answer EXCEPT ![c] = Head(chan[c])]
    /\ Return(c, IF Head(chan[c]) = NoCall THEN "disconnected" ELSE "answered")
    /\ chan' = [chan EXCEPT ![c] = Tail(@)]
    /\ UNCHANGED <<sem, callId, callConn, changed, seq, pending,
                   attachVars, readerVars, extVars, restarts>>

DropPending(c) ==
    /\ pc[c] = "drop"
    /\ pending' = [pending EXCEPT ![callId[c]] = NoCall]
    /\ pc' = [pc EXCEPT ![c] = "release"]
    /\ UNCHANGED <<sem, callId, callConn, changed, outcome, answer, seq, chan,
                   attachVars, readerVars, extVars, restarts>>

\* Call returns; the deferred releaseSession empties the semaphore.
ReleaseSession(c) ==
    /\ pc[c] = "release"
    /\ pc' = [pc EXCEPT ![c] = "done"]
    /\ sem' = IF Deferred(c) THEN [sem EXCEPT ![Key(c)] = FALSE] ELSE sem
    /\ UNCHANGED <<callId, callConn, changed, outcome, answer, tableVars,
                   attachVars, readerVars, extVars, restarts>>

----------------------------------------------------------------------------
(* Hub.Serve, one goroutine per accepted connection.                       *)

\* Slip: a waiter that selected earlier is not woken.
NotifyNobody == UNCHANGED changed

\* notifyStateChangedLocked closes the channel every parked call selects on.
NotifyStateChanged == changed' = [c \in Calls |-> TRUE]

\* Arbitration: a fresh attached connection makes the newcomer go away.
Reject(k) ==
    /\ phase[k] = "dialing"
    /\ conn # NoConn /\ fresh
    /\ phase' = [phase EXCEPT ![k] = "gone"]
    /\ life' = [life EXCEPT ![k] = "closed"]
    /\ UNCHANGED <<callVars, tableVars, attachVars, inHand, target, greeted,
                   extVars, restarts, superseded>>

\* Slip: h.conn is overwritten before the old connection is picked.
ClosesNewcomer(k) == {k}

\* The connection a takeover closes, if any.
ClosedByTakeover(k) == {conn} \ {NoConn}

\* Arbitration: nobody is attached, or the attached connection looks dead and
\* is closed by a goroutine of its own (`go old.Close()`).
Attach(k) ==
    /\ phase[k] = "dialing"
    /\ ~(conn # NoConn /\ fresh)
    /\ phase' = [phase EXCEPT ![k] = "reading"]
    /\ life' = [l \in Conns |-> IF l \in ClosedByTakeover(k) THEN "closing" ELSE life[l]]
    /\ superseded' = superseded \union ({conn} \ {NoConn})
    /\ conn' = k
    /\ compatible' = TRUE
    /\ fresh' = TRUE
    /\ NotifyStateChanged
    /\ UNCHANGED <<sem, pc, callId, callConn, outcome, answer, tableVars,
                   inHand, target, greeted, extVars, restarts>>

CloseOld(k) ==
    /\ life[k] = "closing"
    /\ life' = [life EXCEPT ![k] = "closed"]
    /\ UNCHANGED <<callVars, tableVars, attachVars, phase, inHand, target,
                   greeted, extVars, restarts, superseded>>

\* ReadMessage returns a message; touch.  A superseded connection is still
\* read until its close is noticed, and its messages count as activity.
Read(k) ==
    /\ phase[k] = "reading"
    /\ inq[k] # <<>>
    /\ inHand' = [inHand EXCEPT ![k] = Head(inq[k])]
    /\ inq' = [inq EXCEPT ![k] = Tail(@)]
    /\ phase' = [phase EXCEPT ![k] = "handling"]
    /\ fresh' = TRUE
    /\ UNCHANGED <<callVars, tableVars, conn, compatible, life, target, greeted,
                   sock, up, outq, jobs, restarts, superseded>>

\* handleInbound "pong": a live far end answers the pings of keepalive.
Pong(k) ==
    /\ phase[k] = "reading"
    /\ up[k] /\ life[k] # "closed"
    /\ fresh' = TRUE
    /\ UNCHANGED <<callVars, tableVars, conn, compatible, readerVars, extVars, restarts>>

\* handleInbound "hello": whichever connection it came from.
HandleHello(k) ==
    /\ phase[k] = "handling"
    /\ inHand[k].type = "hello"
    /\ compatible' = (BrowserOf[k] \in Speaks)
    /\ greeted' = greeted \union {k}
    /\ phase' = [phase EXCEPT ![k] = "reading"]
    /\ UNCHANGED <<callVars, tableVars, conn, fresh, life, inHand, target,
                   extVars, restarts, superseded>>

\* Slip: the id stays registered until the reply has been sent.
UnregisterLate(i) == pending

\* delete(h.pending, id)
Unregister(i) == [pending EXCEPT ![i] = NoCall]

\* handleInbound "tool_result", under mu: look the id up and delete it.  An
\* unknown id is dropped.
HandleResult(k) ==
    /\ phase[k] = "handling"
    /\ inHand[k].type = "tool_result"
    /\ LET i == inHand[k].id IN
       /\ target' = [target EXCEPT ![k] = pending[i]]
       /\ pending' = Unregister(i)
       /\ phase' = [phase EXCEPT ![k] = IF pending[i] = NoCall THEN "reading"
                                        ELSE "delivering"]
    /\ UNCHANGED <<callVars, seq, chan, attachVars, life, inHand, greeted,
                   extVars, restarts, superseded>>

\* handleInbound "tool_result", after unlocking: the channel send.
Deliver(k) ==
    /\ phase[k] = "delivering"
    /\ chan' = [chan EXCEPT ![target[k]] = Append(@, inHand[k].of)]
    /\ target' = [target EXCEPT ![k] = NoCall]
    /\ phase' = [phase EXCEPT ![k] = "reading"]
    /\ UNCHANGED <<callVars, seq, pending, attachVars, life, inHand, greeted,
                   extVars, restarts, superseded>>

\* The calls the cleanup fails: all that are registered.
Registered == {c \in Calls : \E i \in Ids : pending[i] = c}

\* Slip: the table is emptied without telling the callers.
FailPendingSilently ==
    /\ pending' = [i \in Ids |-> NoCall]
    /\ UNCHANGED chan

\* Slip: the cleanup leaves the calls to their deadlines.
LeavePending == UNCHANGED <<pending, chan>>

\* Every registered call gets "extension disconnected" and is unregistered.
FailPending ==
    /\ pending' = [i \in Ids |-> NoCall]
    /\ chan' = [c \in Calls |-> IF c \in Registered THEN Append(chan[c], NoCall)
                                ELSE chan[c]]

\* Slip: any reader that ends detaches whatever is attached.
DetachesAnyone(k) == conn # NoConn

\* The cleanup only detaches its own connection.
Detaches(k) == conn = k

\* ReadMessage fails; the deferred cleanup.  Only the attached connection
\* detaches, and then every registered call gets the disconnect error.
Disconnect(k) ==
    /\ phase[k] = "reading"
    /\ ~up[k] \/ life[k] = "closed"
    /\ phase' = [phase EXCEPT ![k] = "gone"]
    /\ life' = [life EXCEPT ![k] = "closed"]
    /\ IF Detaches(k)
       THEN /\ conn' = NoConn
            /\ NotifyStateChanged
            /\ FailPending
       ELSE UNCHANGED <<conn, changed, chan, pending>>
    /\ UNCHANGED <<sem, pc, callId, callConn, outcome, answer, seq, compatible,
                   fresh, inHand, target, greeted, extVars, restarts, superseded>>

\* staleAfter passes without an inbound message.
GoStale ==
    /\ conn # NoConn /\ fresh
    /\ fresh' = FALSE
    /\ UNCHANGED <<callVars, tableVars, conn, compatible, readerVars, extVars, restarts>>

----------------------------------------------------------------------------
(* The extension's end (ws-client.js, dispatcher.js).                      *)

\* connect: a new WebSocket; its open listener sends hello.
Dial(b, k) ==
    /\ sock[b] = NoConn
    /\ phase[k] = "unused" /\ BrowserOf[k] = b
    /\ phase' = [phase EXCEPT ![k] = "dialing"]
    /\ sock' = [sock EXCEPT ![b] = k]
    /\ up' = [up EXCEPT ![k] = TRUE]
    /\ inq' = [inq EXCEPT ![k] = <<HelloMsg>>]
    /\ UNCHANGED <<callVars, tableVars, attachVars, life, inHand, target,
                   greeted, outq, jobs, restarts, superseded>>

\* handleToolCall starts; other messages go on being handled meanwhile.
StartJob(b) ==
    /\ sock[b] # NoConn
    /\ LET k == sock[b] IN
       /\ outq[k] # <<>>
       /\ jobs' = jobs \union {[id |-> Head(outq[k]).id, of |-> Head(outq[k]).of, at |-> b]}
       /\ outq' = [outq EXCEPT ![k] = Tail(@)]
    /\ UNCHANGED <<callVars, tableVars, attachVars, readerVars, sock, up, inq, restarts>>

\* handleToolCall ends: send() uses the socket of now, or drops the result.
FinishJob(j) ==
    /\ j \in jobs
    /\ jobs' = jobs \ {j}
    /\ inq' = IF sock[j.at] = NoConn THEN inq
              ELSE [inq EXCEPT ![sock[j.at]] =
                        Append(@, [type |-> "tool_result", id |-> j.id, of |-> j.of])]
    /\ UNCHANGED <<callVars, tableVars, attachVars, readerVars, sock, up, outq, restarts>>

\* The socket closes: disconnect(), a network failure, or the daemon's close.
\* Running jobs survive it; unread tool_calls do not.
LoseSocket(b) ==
    /\ sock[b] # NoConn
    /\ up' = [up EXCEPT ![sock[b]] = FALSE]
    /\ outq' = [outq EXCEPT ![sock[b]] = <<>>]
    /\ sock' = [sock EXCEPT ![b] = NoConn]
    /\ UNCHANGED <<callVars, tableVars, attachVars, readerVars, inq, jobs, restarts>>

\* The browser suspends or kills the service worker: jobs and socket die.
WorkerDies(b) ==
    /\ sock[b] # NoConn
    /\ up' = [up EXCEPT ![sock[b]] = FALSE]
    /\ outq' = [outq EXCEPT ![sock[b]] = <<>>]
    /\ sock' = [sock EXCEPT ![b] = NoConn]
    /\ jobs' = {j \in jobs : j.at # b}
    /\ UNCHANGED <<callVars, tableVars, attachVars, readerVars, inq, restarts>>

\* The daemon process ends and a new one starts: every call in progress is
\* lost with its HTTP request, ids start again at r1, and the extensions keep
\* their jobs.
RestartDaemon ==
    /\ restarts < MaxRestarts
    /\ restarts' = restarts + 1
    /\ conn' = NoConn /\ compatible' = FALSE /\ fresh' = FALSE
    /\ seq' = 0
    /\ pending' = [i \in Ids |-> NoCall]
    /\ sem' = [n \in Names |-> FALSE]
    /\ outcome' = [c \in Calls |-> IF pc[c] \in {"idle", "done"} THEN outcome[c]
                                   ELSE "killed"]
    /\ pc' = [c \in Calls |-> IF pc[c] = "idle" THEN "idle" ELSE "done"]
    /\ chan' = [c \in Calls |-> <<>>]
    /\ phase' = [k \in Conns |-> IF phase[k] = "unused" THEN "unused" ELSE "gone"]
    /\ life' = [k \in Conns |-> IF phase[k] = "unused" THEN life[k] ELSE "closed"]
    /\ target' = [k \in Conns |-> NoCall]
    /\ UNCHANGED <<callId, callConn, changed, answer, inHand, greeted, extVars, superseded>>

----------------------------------------------------------------------------
CallStep(c) ==
    \/ StartCall(c) \/ AcquireSession(c) \/ GiveUpQueued(c)
    \/ CheckExtension(c) \/ Wake(c) \/ GiveUpParked(c)
    \/ Register(c) \/ Write(c) \/ Expire(c) \/ Receive(c)
    \/ DropPending(c) \/ ReleaseSession(c)

ConnStep(k) ==
    \/ Reject(k) \/ Attach(k) \/ CloseOld(k) \/ Read(k) \/ Pong(k)
    \/ HandleHello(k) \/ HandleResult(k) \/ Deliver(k) \/ Disconnect(k)

ExtStep(b) ==
    \/ \E k \in Conns : Dial(b, k)
    \/ StartJob(b) \/ LoseSocket(b) \/ WorkerDies(b)

Next ==
    \/ \E c \in Calls : CallStep(c)
    \/ \E k \in Conns : ConnStep(k)
    \/ \E b \in Browsers : ExtStep(b)
    \/ \E j \in jobs : FinishJob(j)
    \/ GoStale
    \/ RestartDaemon

Spec == Init /\ [][Next]_vars

\* Goroutines that can run do.  A full semaphore hands its slot to the senders
\* blocked on it in order, hence strong fairness there.
GoroutinesRun ==
    /\ \A c \in Calls :
        /\ SF_vars(AcquireSession(c))
        /\ WF_vars(CheckExtension(c) \/ Wake(c) \/ Register(c) \/ Write(c)
                   \/ Receive(c) \/ DropPending(c) \/ ReleaseSession(c))
    /\ \A k \in Conns :
        WF_vars(Reject(k) \/ Attach(k) \/ Read(k) \/ HandleHello(k)
                \/ HandleResult(k) \/ Deliver(k) \/ Disconnect(k))
    /\ \A k \in Conns : WF_vars(CloseOld(k))

\* The service worker handles what it receives and every tool handler ends.
ExtensionRuns ==
    /\ \A b \in Browsers : WF_vars(StartJob(b))
    /\ \A j \in Job : WF_vars(FinishJob(j))

\* No deadline is fair here: what is promised holds before any timeout.
FairSpec == Spec /\ GoroutinesRun /\ ExtensionRuns

----------------------------------------------------------------------------
(* Safety.                                                                 *)

Holding(c) == pc[c] \in {"waiting", "parked", "register", "write", "await",
                         "drop", "release"}

\* Two page calls that would drive the same tab, whatever name each gives the
\* session, are never between acquireSession and releaseSession together.
SessionMutex ==
    \A c, d \in Calls \ Independent :
        c # d /\ TabKey(c) = TabKey(d) => ~(Holding(c) /\ Holding(d))

\* Every way out of Call gives the session back: a semaphore is full exactly
\* while a page call of that session is inside, so no failed, timed out or
\* disconnected call strands its session, and releaseSession never blocks.
NoStrandedSession ==
    \A n \in Names :
        sem[n] <=> \E c \in Calls \ Independent : Key(c) = n /\ Holding(c)

\* The cleanup of Serve sends to reply channels while it holds mu: nothing it
\* or a reader sends may ever find a channel full, or the hub freezes.
RepliesNeverBlock ==
    /\ \A c \in Calls : Len(chan[c]) <= 1
    /\ \A i \in Ids : pending[i] # NoCall => chan[pending[i]] = <<>>
    /\ \A k \in Conns : phase[k] = "delivering" => chan[target[k]] = <<>>

\* h.pending holds no garbage: an id in it belongs to a call that is still
\* inside Call with that id and that will delete it or be answered through it.
PendingHasCaller ==
    \A i \in Ids : LET c == pending[i] IN
        c # NoCall => i <= seq /\ callId[c] = i /\ pc[c] \in {"write", "await", "drop"}

\* No reply is lost inside the daemon: a waiting call is registered, or some
\* reader is about to send its reply, or the reply is in its channel.
ReplyOnItsWay ==
    \A c \in Calls : pc[c] = "await" =>
        \/ pending[callId[c]] = c
        \/ \E k \in Conns : phase[k] = "delivering" /\ target[k] = c
        \/ chan[c] # <<>>

\* The result a call returns was produced by the job of that very call, even
\* when jobs outlive their call, their connection and their successor.
AnswerIsOwn == \A c \in Calls : outcome[c] = "answered" => answer[c] = c

\* The attached connection always has a reader that will clean up after it.
AttachedHasReader ==
    conn # NoConn => /\ phase[conn] \in {"reading", "handling", "delivering"}
                     /\ life[conn] = "open"

\* After an ordinary loss no call keeps waiting on the dead connection: a
\* registered call that was written to another connection than the attached
\* one was orphaned by a takeover, and by nothing else.
OnlyTakeoverOrphans ==
    \A i \in Ids : LET c == pending[i] IN
        c # NoCall => callConn[c] = conn \/ callConn[c] \in superseded

\* A connection is detached by its own reader, by a takeover after silence, or
\* with the whole process: the late cleanup of a superseded connection leaves
\* its successor attached.
DetachedByItself ==
    [][\A k \in Conns : conn = k /\ conn' # k =>
          \/ phase[k] = "reading" /\ phase'[k] = "gone"
          \/ conn' # NoConn /\ ~fresh
          \/ restarts' # restarts]_vars

\* Refinement: Call is an exclusive remote procedure call per tab.
Rpc == INSTANCE SessionRpc WITH
    Keys <- Names,
    KeyOf <- [c \in Calls |-> TabKey(c)],
    Shared <- Independent,
    status <- [c \in Calls |-> IF pc[c] = "idle" THEN "idle"
                               ELSE IF pc[c] = "queued" THEN "submitted"
                               ELSE IF pc[c] = "done" THEN "done"
                               ELSE "running"],
    result <- [c \in Calls |-> IF pc[c] # "done" THEN "none"
                               ELSE IF outcome[c] # "answered" THEN "failed"
                               ELSE IF answer[c] = c THEN "own"
                               ELSE "foreign"]

\* Every behaviour of the hub is a behaviour of SessionRpc.
ImplementsRpc == Rpc!RpcSpec

----------------------------------------------------------------------------
(* Liveness.                                                               *)

\* No wakeup is lost between reading h.conn and selecting on stateChanged: if
\* an extension stays attached, no call stays parked.
ParkedCallsWake ==
    <>[](conn # NoConn) => \A c \in Calls : []<>(pc[c] # "parked")

\* Without a takeover every written call returns before any deadline: it is
\* answered, or its connection is lost and the cleanup fails it.
WrittenCallsReturn ==
    [](superseded = {}) => \A c \in Calls : pc[c] = "await" ~> pc[c] # "await"

----------------------------------------------------------------------------
(* Statements of the source that the code does not keep (see findings).    *)

\* hub.go, comment of Call: two agents driving the same tab queue instead of
\* racing on CDP, i.e. no browser runs two page jobs of one session at once.
NoRacingJobs ==
    \A i, j \in jobs :
        /\ i.of \notin Independent /\ j.of \notin Independent
        /\ i.at = j.at /\ TabKey(i.of) = TabKey(j.of)
        => i = j
=============================================================================
