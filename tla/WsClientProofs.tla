--------------------------- MODULE WsClientProofs ---------------------------
(***************************************************************************)
(* Theorems about the extension's link, for every set of addresses and     *)
(* sockets and any number of storage requests under way.                   *)
(***************************************************************************)
EXTENDS WsClient, SequenceTheorems, TLAPS

----------------------------------------------------------------------------
(* Queues of continuations, by what they contain and in what order.        *)

\* A continuation that drops the link, and one that will do nothing.
Ender(e) == e.do \in {"switch", "disconnect"}
Quiet(e) == e.do = "restore" => ~e.saw.reconnect

\* Behind a dial only a request to drop it can wait, and behind that only
\* restores that came for nothing.
Ordered(q) ==
    \A i, j \in DOMAIN q : i < j =>
        /\ q[i].do = "open" => Ender(q[j])
        /\ Ender(q[i]) => q[j].do = "restore"

LEMMA RangeAppend ==
    ASSUME NEW S, NEW q \in Seq(S), NEW e \in S
    PROVE  Range(Append(q, e)) = Range(q) \union {e}
<1>1. /\ DOMAIN q = 1..Len(q) /\ Len(q) \in Nat
      /\ DOMAIN Append(q, e) = 1..Len(q) + 1
      /\ \A i \in 1..Len(q) : Append(q, e)[i] = q[i]
      /\ Append(q, e)[Len(q) + 1] = e
  BY AppendProperties, LenProperties
<1>. QED
  BY <1>1 DEF Range

LEMMA RangeTail ==
    ASSUME NEW S, NEW q \in Seq(S), q # <<>>
    PROVE  /\ Head(q) \in S /\ Tail(q) \in Seq(S)
           /\ Len(Tail(q)) = Len(q) - 1
           /\ Range(q) = {Head(q)} \union Range(Tail(q))
<1>1. /\ DOMAIN q = 1..Len(q) /\ Len(q) \in Nat \ {0}
      /\ DOMAIN Tail(q) = 1..Len(q) - 1
      /\ \A i \in 1..Len(q) - 1 : Tail(q)[i] = q[i + 1]
      /\ Head(q) = q[1]
      /\ Head(q) \in S /\ Tail(q) \in Seq(S) /\ Len(Tail(q)) = Len(q) - 1
  BY HeadTailProperties, LenProperties, EmptySeq
<1>2. \A i \in 1..Len(q) : i = 1 \/ (i - 1 \in 1..Len(q) - 1 /\ q[i] = Tail(q)[i - 1])
  BY <1>1
<1>3. Range(q) \subseteq {Head(q)} \union Range(Tail(q))
  <2> SUFFICES ASSUME NEW i \in 1..Len(q) PROVE q[i] \in {Head(q)} \union Range(Tail(q))
    BY <1>1 DEF Range
  <2>1. CASE i = 1
    BY <1>1, <2>1
  <2>2. CASE i # 1
    BY <1>1, <1>2, <2>2 DEF Range
  <2>. QED
    BY <2>1, <2>2
<1>4. {Head(q)} \union Range(Tail(q)) \subseteq Range(q)
  BY <1>1 DEF Range
<1>. QED
  BY <1>1, <1>3, <1>4

LEMMA OneElement == ASSUME NEW S, NEW e \in S
                  PROVE  /\ <<e>> \in Seq(S) /\ Len(<<e>>) = 1
                         /\ Range(<<e>>) = {e} /\ Ordered(<<e>>)
<1>1. <<e>> \in Seq(S) /\ Len(<<e>>) = 1 /\ DOMAIN <<e>> = {1} /\ <<e>>[1] = e
  OBVIOUS
<1>2. Range(<<e>>) = {e}
  BY <1>1 DEF Range
<1>3. Ordered(<<e>>)
  BY <1>1 DEF Ordered
<1>. QED
  BY <1>1, <1>2, <1>3

\* A continuation keeps the order behind those that allow it.
LEMMA AppendOrdered ==
    ASSUME NEW S, NEW q \in Seq(S), NEW e \in S, Ordered(q),
           \A f \in Range(q) : /\ f.do = "open" => Ender(e)
                               /\ Ender(f) => e.do = "restore"
    PROVE  Ordered(Append(q, e))
<1>1. /\ DOMAIN q = 1..Len(q) /\ Len(q) \in Nat
      /\ DOMAIN Append(q, e) = 1..Len(q) + 1
      /\ \A i \in 1..Len(q) : Append(q, e)[i] = q[i]
      /\ Append(q, e)[Len(q) + 1] = e
  BY AppendProperties, LenProperties
<1> SUFFICES ASSUME NEW i \in 1..Len(q) + 1, NEW j \in 1..Len(q) + 1, i < j
             PROVE  /\ Append(q, e)[i].do = "open" => Ender(Append(q, e)[j])
                    /\ Ender(Append(q, e)[i]) => Append(q, e)[j].do = "restore"
  BY <1>1 DEF Ordered
<1>2. CASE j = Len(q) + 1
  <2>1. i \in 1..Len(q)
    BY <1>1, <1>2
  <2>2. q[i] \in Range(q) /\ Append(q, e)[i] = q[i] /\ Append(q, e)[j] = e
    BY <1>1, <1>2, <2>1 DEF Range
  <2>. QED
    BY <2>2
<1>3. CASE j # Len(q) + 1
  <2>1. i \in 1..Len(q) /\ j \in 1..Len(q)
    BY <1>1, <1>3
  <2>. QED
    BY <1>1, <2>1 DEF Ordered
<1>. QED
  BY <1>2, <1>3

LEMMA TailOrdered ==
    ASSUME NEW S, NEW q \in Seq(S), q # <<>>, Ordered(q)
    PROVE  /\ Ordered(Tail(q))
           /\ \A f \in Range(Tail(q)) : /\ Head(q).do = "open" => Ender(f)
                                        /\ Ender(Head(q)) => f.do = "restore"
<1>1. /\ DOMAIN q = 1..Len(q) /\ Len(q) \in Nat \ {0}
      /\ DOMAIN Tail(q) = 1..Len(q) - 1
      /\ \A i \in 1..Len(q) - 1 : Tail(q)[i] = q[i + 1] /\ i + 1 \in 1..Len(q)
      /\ Head(q) = q[1]
  BY HeadTailProperties, LenProperties, EmptySeq
<1>2. Ordered(Tail(q))
  BY <1>1 DEF Ordered
<1>3. ASSUME NEW f \in Range(Tail(q))
      PROVE  /\ Head(q).do = "open" => Ender(f)
             /\ Ender(Head(q)) => f.do = "restore"
  <2>1. PICK i \in 1..Len(q) - 1 : f = q[i + 1]
    BY <1>1, <1>3 DEF Range
  <2>2. 1 < i + 1 /\ 1 \in 1..Len(q) /\ i + 1 \in 1..Len(q)
    BY <1>1
  <2>. QED
    BY <1>1, <2>1, <2>2 DEF Ordered
<1>. QED
  BY <1>2, <1>3

----------------------------------------------------------------------------
(* Types.                                                                  *)

\* Each request that is made for a click, a timer or an alarm.
LEMMA Continuations ==
    /\ [do |-> "open"] \in Continuation
    /\ [do |-> "disconnect"] \in Continuation
    /\ \A u \in Urls : [do |-> "switch", url |-> u] \in Continuation
    /\ \A saw \in Setting : [do |-> "restore", saw |-> saw] \in Continuation
BY DEF Continuation

LEMMA ConnectTypes ==
    ASSUME TypeOK, NEW u \in Urls, NEW should \in BOOLEAN,
           NEW q \in Seq(Continuation), Len(q) < MaxPending,
           Connect(u, should, q)
    PROVE  /\ state' \in {"disconnected", "connecting", "connected"}
           /\ currentUrl' \in Address
           /\ shouldReconnect' \in BOOLEAN
           /\ timer' \in {"none", "short", "long"}
           /\ stored' \in Setting
           /\ io' \in Seq(Continuation) /\ Len(io') <= MaxPending
           /\ UNCHANGED <<socket, nextDelay>>
<1> USE WsClientAssumption
<1>1. \A e \in Continuation : /\ Append(q, e) \in Seq(Continuation)
                              /\ Len(Append(q, e)) <= MaxPending
  BY AppendProperties, LenProperties
<1>2. CASE state = "disconnected" /\ StartConnect(u, q) /\ UNCHANGED <<socket, timerVars>>
  BY <1>1, <1>2, Continuations DEF StartConnect, TypeOK, timerVars, Setting, Address
<1>3. CASE /\ StartDisconnect([do |-> "switch", url |-> u], q)
           /\ UNCHANGED <<socket, state, currentUrl, nextDelay>>
  BY <1>1, <1>3, Continuations DEF StartDisconnect, ForgetReconnect, TypeOK, Setting, Address
<1>4. CASE /\ shouldReconnect' = should /\ io' = q
           /\ UNCHANGED <<socket, state, currentUrl, timerVars, stored>>
  BY <1>4, LenProperties DEF TypeOK, timerVars
<1>. QED
  BY <1>2, <1>3, <1>4 DEF Connect

LEMMA TypeInit == Init => TypeOK
<1> SUFFICES ASSUME Init PROVE TypeOK
  OBVIOUS
<1> USE WsClientAssumption
<1>1. stored \in Setting /\ Len(io) = 1 /\ io \in Seq(Continuation)
  <2>1. stored \in Setting
    BY DEF Init, Setting, Address
  <2>. QED
    BY <2>1, OneElement, Continuations DEF Init
<1>2. Len(io) <= MaxPending
  BY <1>1
<1>3. /\ ready \in [Sockets -> Live \union {"closing", "closed"}]
      /\ at \in [Sockets -> Address]
      /\ peer \in [Sockets -> {"none", "held", "refused", "crossed"}]
  BY DEF Init, Address
<1>. QED
  BY <1>1, <1>2, <1>3 DEF Init, TypeOK, Address

\* The popup's clicks keep the types.
LEMMA TypePopup ==
    ASSUME TypeOK, \/ \E u \in Urls : ClickConnect(u)
                   \/ TestTimesOut \/ ProbeOpens \/ ProbeFails
                   \/ ReceiveConnect \/ ReceiveDisconnect
    PROVE  TypeOK'
<1> USE WsClientAssumption
<1> USE DEF workerVars, linkVars, timerVars, storeVars, popupVars, netVars, ghostVars, Live
<1>1. ASSUME NEW u \in Urls, ClickConnect(u) PROVE TypeOK'
  BY <1>1 DEF ClickConnect, Dial, TypeOK, Address
<1>2. CASE TestTimesOut
  BY <1>2 DEF TestTimesOut, CloseOwn, TypeOK, Address
<1>3. CASE ProbeOpens
  BY <1>3 DEF ProbeOpens, CloseOwn, TypeOK, Address
<1>4. CASE ProbeFails
  BY <1>4 DEF ProbeFails, Recycle, TypeOK, Address
<1>5. CASE ReceiveConnect
  <2>1. asked \in Urls /\ shouldReconnect \in BOOLEAN
    BY <1>5 DEF ReceiveConnect, TypeOK, Address
  <2>2. /\ state' \in {"disconnected", "connecting", "connected"}
        /\ currentUrl' \in Address /\ shouldReconnect' \in BOOLEAN
        /\ timer' \in {"none", "short", "long"} /\ stored' \in Setting
        /\ io' \in Seq(Continuation) /\ Len(io') <= MaxPending
        /\ UNCHANGED <<socket, nextDelay>>
    BY <1>5, <2>1, ConnectTypes DEF ReceiveConnect, TypeOK
  <2>3. asked' \in Address /\ wish' \in Address /\ disturbed' \in BOOLEAN
    BY <1>5, <2>1 DEF ReceiveConnect, TypeOK, Address
  <2>4. UNCHANGED <<testing, netVars>>
    BY <1>5 DEF ReceiveConnect
  <2>. QED
    BY <2>2, <2>3, <2>4 DEF TypeOK
<1>6. CASE ReceiveDisconnect
  <2>1. io' \in Seq(Continuation) /\ Len(io') <= MaxPending
    BY <1>6, Continuations, AppendProperties, LenProperties
    DEF ReceiveDisconnect, StartDisconnect, TypeOK
  <2>2. stored' \in Setting
    BY <1>6 DEF ReceiveDisconnect, StartDisconnect, ForgetReconnect, TypeOK, Setting
  <2>3. disturbed' \in BOOLEAN /\ wish' \in Address
    BY <1>6 DEF ReceiveDisconnect, TypeOK, Address
  <2>. QED
    BY <1>6, <2>1, <2>2, <2>3 DEF ReceiveDisconnect, StartDisconnect, TypeOK
<1>. QED
  BY <1>1, <1>2, <1>3, <1>4, <1>5, <1>6

\* The continuations of chrome.storage keep the types.
LEMMA TypeResume == ASSUME TypeOK, Resume PROVE TypeOK'
<1> USE WsClientAssumption
<1> USE DEF workerVars, linkVars, timerVars, storeVars, popupVars, netVars, ghostVars, Live
<1>0. /\ io # <<>>
      /\ Head(io) \in Continuation /\ Tail(io) \in Seq(Continuation)
      /\ Len(Tail(io)) = Len(io) - 1 /\ Len(Tail(io)) < MaxPending /\ Len(Tail(io)) \in Nat
  <2>1. io # <<>>
    BY DEF Resume, ResumeOpen, ResumeDisconnect, ResumeSwitch, ResumeRestore
  <2>. QED
    BY <2>1, HeadTailProperties, LenProperties DEF TypeOK
<1>1. CASE ResumeOpen
  <2>1. PICK s \in Links : Dial(s, currentUrl) /\ socket' = s
    BY <1>1 DEF ResumeOpen
  <2>. QED
    BY <1>0, <1>1, <2>1 DEF ResumeOpen, Dial, TypeOK, Links
<1>2. CASE ResumeDisconnect
  BY <1>0, <1>2 DEF ResumeDisconnect, CloseOwn, TypeOK
<1>3. CASE ResumeSwitch
  <2>1. Head(io).url \in Urls
    BY <1>0, <1>3 DEF ResumeSwitch, Continuation
  <2>2. io' \in Seq(Continuation) /\ Len(io') <= MaxPending
    BY <1>0, <1>3, Continuations, AppendProperties DEF ResumeSwitch, StartConnect, TypeOK
  <2>3. stored' \in Setting /\ currentUrl' \in Address
    BY <1>3, <2>1 DEF ResumeSwitch, StartConnect, Setting, Address
  <2>. QED
    BY <1>3, <2>2, <2>3 DEF ResumeSwitch, StartConnect, CloseOwn, TypeOK
<1>4. CASE ResumeRestore
  <2>1. CASE /\ WantsLink(Head(io).saw)
             /\ Connect(Head(io).saw.url, TRUE, Tail(io))
    <3>1. Head(io).saw.url \in Urls
      BY <1>0, <1>4, <2>1 DEF ResumeRestore, Continuation, WantsLink, Setting, Address
    <3>2. /\ state' \in {"disconnected", "connecting", "connected"}
          /\ currentUrl' \in Address /\ shouldReconnect' \in BOOLEAN
          /\ timer' \in {"none", "short", "long"} /\ stored' \in Setting
          /\ io' \in Seq(Continuation) /\ Len(io') <= MaxPending
          /\ UNCHANGED <<socket, nextDelay>>
      BY <1>0, <2>1, <3>1, ConnectTypes
    <3>3. UNCHANGED <<popupVars, netVars, ghostVars>>
      BY <1>4 DEF ResumeRestore
    <3>. QED
      BY <3>2, <3>3 DEF TypeOK
  <2>2. CASE io' = Tail(io) /\ UNCHANGED <<linkVars, timerVars, stored>>
    BY <1>0, <1>4, <2>2 DEF ResumeRestore, TypeOK
  <2>. QED
    BY <1>4, <2>1, <2>2 DEF ResumeRestore
<1>. QED
  BY <1>1, <1>2, <1>3, <1>4 DEF Resume

\* Timers, alarms, restarts of the worker and the events of sockets keep the
\* types.
LEMMA TypeEvents ==
    ASSUME TypeOK, \/ TimerFires \/ Alarm \/ WorkerRestarts
                   \/ \E s \in Sockets : \/ Opens(s) \/ ReceiveRejected(s) \/ Closes(s)
                                         \/ Serve(s) \/ LetGo(s)
    PROVE  TypeOK'
<1> USE WsClientAssumption
<1> USE DEF workerVars, linkVars, timerVars, storeVars, popupVars, netVars, ghostVars, Live
<1>0. \A e \in Continuation : Len(io) < MaxPending =>
         Append(io, e) \in Seq(Continuation) /\ Len(Append(io, e)) <= MaxPending
  BY AppendProperties, LenProperties DEF TypeOK
<1>1. CASE TimerFires
  <2>1. CASE Len(io) < MaxPending /\ StartConnect(currentUrl, io)
    <3>1. io' \in Seq(Continuation) /\ Len(io') <= MaxPending
      BY <1>0, <2>1, Continuations DEF StartConnect
    <3>2. stored' \in Setting /\ currentUrl' \in Address
      BY <2>1 DEF StartConnect, Setting, TypeOK
    <3>. QED
      BY <1>1, <2>1, <3>1, <3>2 DEF TimerFires, StartConnect, TypeOK
  <2>2. CASE UNCHANGED <<state, currentUrl, shouldReconnect, storeVars>>
    BY <1>1, <2>2 DEF TimerFires, TypeOK
  <2>. QED
    BY <1>1, <2>1, <2>2 DEF TimerFires
<1>2. CASE Alarm
  <2>1. io' \in Seq(Continuation) /\ Len(io') <= MaxPending
    BY <1>0, <1>2, Continuations DEF Alarm, TypeOK
  <2>. QED
    BY <1>2, <2>1 DEF Alarm, TypeOK
<1>3. CASE WorkerRestarts
  <2>1. io' \in Seq(Continuation) /\ Len(io') = 1
    BY <1>3, Continuations, OneElement DEF WorkerRestarts, TypeOK
  <2>2. at' \in [Sockets -> Address]
    BY <1>3 DEF WorkerRestarts, Recycle, TypeOK, Address
  <2>3. disturbed' \in BOOLEAN
    BY <1>3 DEF WorkerRestarts, TypeOK
  <2>4. Len(io') <= MaxPending
    BY <2>1
  <2>5. ready' \in [Sockets -> Live \union {"closing", "closed"}]
    BY <1>3 DEF WorkerRestarts
  <2>. QED
    BY <1>3, <2>1, <2>2, <2>3, <2>4, <2>5 DEF WorkerRestarts, TypeOK, Address
<1>4. ASSUME NEW s \in Sockets, Opens(s) PROVE TypeOK'
  BY <1>4 DEF Opens, TypeOK
<1>5. ASSUME NEW s \in Sockets, ReceiveRejected(s) PROVE TypeOK'
  BY <1>5 DEF ReceiveRejected, TypeOK
<1>6. ASSUME NEW s \in Sockets, Closes(s) PROVE TypeOK'
  <2>1. at' \in [Sockets -> Address]
    BY <1>6 DEF Closes, Recycle, TypeOK, Address
  <2>2. timer' \in {"none", "short", "long"} /\ nextDelay' \in {"short", "long"}
    BY <1>6 DEF Closes, Schedule, TypeOK
  <2>3. /\ socket' \in Links \union {NoSocket}
        /\ state' \in {"disconnected", "connecting", "connected"}
    BY <1>6 DEF Closes, TypeOK
  <2>. QED
    BY <1>6, <2>1, <2>2, <2>3 DEF Closes, TypeOK
<1>7. ASSUME NEW s \in Sockets, Serve(s) PROVE TypeOK'
  <2>1. PICK answer \in {"crossed", "held", "refused"} : peer' = [peer EXCEPT ![s] = answer]
    BY <1>7 DEF Serve
  <2>. QED
    BY <1>7, <2>1 DEF Serve, TypeOK
<1>8. ASSUME NEW s \in Sockets, LetGo(s) PROVE TypeOK'
  BY <1>8 DEF LetGo, Recycle, TypeOK, Address
<1>. QED
  BY <1>1, <1>2, <1>3, <1>4, <1>5, <1>6, <1>7, <1>8

LEMMA TypeStep == TypeOK /\ [Next]_vars => TypeOK'
<1> SUFFICES ASSUME TypeOK, [Next]_vars PROVE TypeOK'
  OBVIOUS
<1>1. CASE Next
  BY <1>1, TypePopup, TypeResume, TypeEvents DEF Next
<1>2. CASE UNCHANGED vars
  BY <1>2 DEF vars, workerVars, linkVars, timerVars, storeVars, popupVars, netVars,
     ghostVars, TypeOK
<1>. QED
  BY <1>1, <1>2

\* Every state of the link is well typed: what a continuation dials is an
\* address, and `socket` is never the probe of the popup (ws-client.js).
THEOREM TypeCorrect == Spec => []TypeOK
BY TypeInit, TypeStep, PTL DEF Spec

----------------------------------------------------------------------------
(* The invariant, while nothing has come at a bad moment.                  *)

Opening == \E e \in Range(io) : e.do = "open"
Ending == \E e \in Range(io) : Ender(e)

LinkInv ==
    /\ \A s \in Links : ready[s] \in Live => s = socket
    /\ socket # NoSocket =>
         /\ ready[socket] \in Live
         /\ ~Opening
         /\ ready[socket] = "connecting" => state = "connecting"
         /\ ready[socket] # "connecting" => state = "connected"
    /\ socket = NoSocket => state = IF Opening THEN "connecting" ELSE "disconnected"

\* The link is being dropped, and the last click decides what follows.
EndingInv ==
    Ending =>
        /\ ~shouldReconnect /\ ~stored.reconnect /\ timer = "none"
        /\ \A e \in Range(io) : /\ Quiet(e)
                                /\ e.do = "switch" => wish = e.url
                                /\ e.do = "disconnect" => wish = NoUrl

\* No link is wanted, and there is none.
IdleInv ==
    ~Ending /\ wish = NoUrl =>
        /\ ~shouldReconnect /\ ~stored.reconnect /\ timer = "none"
        /\ socket = NoSocket /\ ~Opening
        /\ \A e \in Range(io) : Quiet(e)

\* A link is wanted: storage says so, and so does the worker, or it has just
\* started and is about to read it.
WantedInv ==
    ~Ending /\ wish # NoUrl =>
        /\ stored = [url |-> wish, reconnect |-> TRUE]
        /\ \A e \in Range(io) : Quiet(e) \/ e.saw = stored
        /\ \/ shouldReconnect /\ currentUrl = wish
           \/ /\ ~shouldReconnect /\ timer = "none"
              /\ socket = NoSocket /\ ~Opening
              /\ \E e \in Range(io) : ~Quiet(e)

\* A link that was rejected leaves the long delay behind.
DelayInv == \A s \in Links : ready[s] = "rejected" => nextDelay = "long"

LinkWishInv == Ordered(io) /\ LinkInv /\ EndingInv /\ IdleInv /\ WantedInv /\ DelayInv

WsInv == ~disturbed => LinkWishInv

LEMMA WsInit == Init => WsInv
<1> SUFFICES ASSUME Init PROVE LinkWishInv
  BY DEF WsInv
<1> DEFINE e == [do |-> "restore", saw |-> stored]
<1>1. Range(io) = {e} /\ Ordered(io)
  BY OneElement DEF Init
<1>0. e.do = "restore" /\ e.saw = stored /\ ~stored.reconnect
  BY DEF Init
<1> HIDE DEF e
<1>2. ~Opening /\ ~Ending /\ Quiet(e)
  BY <1>0, <1>1 DEF Opening, Ending, Ender, Quiet
<1>3. LinkInv /\ DelayInv
  BY <1>2 DEF Init, LinkInv, DelayInv, Links, Live
<1>4. EndingInv /\ IdleInv /\ WantedInv
  BY <1>1, <1>2 DEF Init, EndingInv, IdleInv, WantedInv
<1>. QED
  BY <1>1, <1>3, <1>4 DEF LinkWishInv

\* Steps of the probe and of the daemons.
LEMMA WsSame ==
    ASSUME LinkWishInv,
           UNCHANGED <<socket, state, currentUrl, shouldReconnect, timer, nextDelay,
                       stored, io, wish>>,
           \A s \in Links : ready'[s] = ready[s],
           socket \in Links \union {NoSocket}
    PROVE  LinkWishInv'
<1>1. (Opening' <=> Opening) /\ (Ending' <=> Ending)
  BY DEF Opening, Ending
<1>2. LinkInv' /\ DelayInv'
  BY <1>1 DEF LinkWishInv, LinkInv, DelayInv
<1>3. EndingInv' /\ IdleInv' /\ WantedInv'
  BY <1>1 DEF LinkWishInv, EndingInv, IdleInv, WantedInv
<1>. QED
  BY <1>2, <1>3 DEF LinkWishInv

\* A dial is requested when there is no link, none is being dialled or dropped,
\* and the worker has only heard that this address is wanted.
LEMMA WsDials ==
    ASSUME TypeOK, NEW u \in Urls, NEW q \in Seq(Continuation), Ordered(q),
           StartConnect(u, q),
           wish' = u, socket' = NoSocket, nextDelay' = nextDelay,
           \A s \in Links : ready'[s] \notin Live,
           \A f \in Range(q) : /\ ~Ender(f) /\ f.do # "open"
                               /\ Quiet(f) \/ f.saw = [url |-> u, reconnect |-> TRUE]
    PROVE  LinkWishInv'
<1> DEFINE e == [do |-> "open"]
<1> USE WsClientAssumption
<1>1. io' = Append(q, e) /\ e \in Continuation
  BY Continuations DEF StartConnect
<1>2. Range(io') = Range(q) \union {e}
  BY <1>1, RangeAppend
<1>3. Ordered(io')
  BY <1>1, AppendOrdered DEF Ender
<1>4. e.do = "open" /\ ~Ender(e) /\ Quiet(e)
  BY DEF Ender, Quiet
<1> HIDE DEF e
<1>5. Opening' /\ ~Ending'
  BY <1>2, <1>4 DEF Opening, Ending
<1>6. LinkInv' /\ DelayInv'
  BY <1>5 DEF LinkInv, DelayInv, StartConnect, Live
<1>7. EndingInv' /\ IdleInv'
  BY <1>5 DEF EndingInv, IdleInv
<1>8. WantedInv'
  BY <1>2, <1>4 DEF WantedInv, StartConnect
<1>. QED
  BY <1>3, <1>6, <1>7, <1>8 DEF LinkWishInv

LEMMA SettledRange ==
    ASSUME Settled
    PROVE  \A f \in Range(io) : f.do = "open" \/ (f.do = "restore" /\ ~f.saw.reconnect)
<1> SUFFICES ASSUME NEW f \in Range(io)
             PROVE  f.do = "open" \/ (f.do = "restore" /\ ~f.saw.reconnect)
  OBVIOUS
<1>1. PICK i \in DOMAIN io : f = io[i]
  BY DEF Range
<1>2. io[i].do = "open" \/ (io[i].do = "restore" /\ ~io[i].saw.reconnect)
  BY DEF Settled
<1>. QED
  BY <1>1, <1>2

\* The link is dropped by a click that comes at a good moment.
LEMMA WsDrops ==
    ASSUME TypeOK, LinkWishInv, Settled,
           NEW e \in Continuation,
           \/ e.do = "switch" /\ wish' = e.url
           \/ e.do = "disconnect" /\ wish' = NoUrl,
           StartDisconnect(e, io),
           UNCHANGED <<socket, state, nextDelay, ready>>
    PROVE  LinkWishInv'
<1> USE DEF LinkWishInv
<1>1. \A f \in Range(io) : f.do = "open" \/ (f.do = "restore" /\ ~f.saw.reconnect)
  BY SettledRange
<1>2. Ender(e) /\ Quiet(e) /\ e.do # "open"
  BY DEF Ender, Quiet
<1>3. /\ io' = Append(io, e) /\ io \in Seq(Continuation)
      /\ ~shouldReconnect' /\ ~stored'.reconnect /\ timer' = "none"
  BY DEF StartDisconnect, ForgetReconnect, TypeOK, Setting
<1>4. Range(io') = Range(io) \union {e}
  BY <1>3, RangeAppend
<1>5. Ordered(io')
  BY <1>1, <1>2, <1>3, AppendOrdered DEF Ender
<1>6. Opening' <=> Opening
  BY <1>2, <1>4 DEF Opening
<1>7. Ending'
  BY <1>2, <1>4 DEF Ending
<1>8. LinkInv' /\ DelayInv'
  BY <1>6 DEF LinkInv, DelayInv
<1>9. EndingInv'
  BY <1>1, <1>2, <1>3, <1>4 DEF EndingInv, Quiet
<1>10. IdleInv' /\ WantedInv'
  BY <1>7 DEF IdleInv, WantedInv
<1>. QED
  BY <1>5, <1>8, <1>9, <1>10

\* When nothing is linked or dialled, no socket is live; and the other way
\* round, a state that is not "disconnected" means a link or a dial.
LEMMA WsStates ==
    ASSUME LinkInv
    PROVE  /\ state = "disconnected" <=> socket = NoSocket /\ ~Opening
           /\ socket = NoSocket /\ NoSocket \notin Links => \A s \in Links : ready[s] \notin Live
BY DEF LinkInv

\* The clicks of the user.
LEMMA WsClicks ==
    ASSUME TypeOK, WsInv, ReceiveConnect \/ ReceiveDisconnect, ~disturbed'
    PROVE  LinkWishInv'
<1> USE WsClientAssumption
<1>1. LinkWishInv /\ Settled
  BY DEF ReceiveConnect, ReceiveDisconnect, WsInv
<1>2. \A f \in Range(io) : f.do = "open" \/ (f.do = "restore" /\ ~f.saw.reconnect)
  BY <1>1, SettledRange
<1>3. ~Ending /\ \A f \in Range(io) : Quiet(f)
  BY <1>2 DEF Ending, Ender, Quiet
<1>4. io \in Seq(Continuation) /\ NoSocket \notin Links /\ Ordered(io)
  BY <1>1 DEF TypeOK, Links, LinkWishInv
<1>5. CASE ReceiveConnect
  <2>1. asked \in Urls /\ wish' = asked /\ UNCHANGED ready /\ Connect(asked, shouldReconnect, io)
    BY <1>5 DEF ReceiveConnect, TypeOK, Address, netVars
  <2>2. CASE state = "disconnected" /\ StartConnect(asked, io) /\ UNCHANGED <<socket, timerVars>>
    <3>1. socket = NoSocket /\ ~Opening /\ \A s \in Links : ready[s] \notin Live
      BY <1>1, <1>4, <2>2, WsStates DEF LinkWishInv
    <3>2. \A f \in Range(io) : ~Ender(f) /\ f.do # "open" /\ Quiet(f)
      BY <1>3, <3>1 DEF Ending, Opening
    <3>. QED
      BY <1>4, <2>1, <2>2, <3>1, <3>2, WsDials DEF timerVars
  <2>3. CASE /\ StartDisconnect([do |-> "switch", url |-> asked], io)
             /\ UNCHANGED <<socket, state, currentUrl, nextDelay>>
    <3> DEFINE e == [do |-> "switch", url |-> asked]
    <3>1. e \in Continuation /\ e.do = "switch" /\ e.url = asked
      BY <2>1, Continuations
    <3>2. StartDisconnect(e, io)
      BY <2>3
    <3> HIDE DEF e
    <3>. QED
      BY <1>1, <2>1, <2>3, <3>1, <3>2, WsDrops
  <2>4. CASE /\ state # "disconnected" /\ asked = currentUrl
             /\ shouldReconnect' = shouldReconnect /\ io' = io
             /\ UNCHANGED <<socket, state, currentUrl, timerVars, stored>>
    <3>1. socket # NoSocket \/ Opening
      BY <1>1, <2>4, WsStates DEF LinkWishInv
    <3>2. wish # NoUrl
      BY <1>1, <1>3, <3>1 DEF LinkWishInv, IdleInv
    <3>3. currentUrl = wish
      BY <1>1, <1>3, <3>1, <3>2 DEF LinkWishInv, WantedInv
    <3>. QED
      BY <1>1, <2>1, <2>4, <3>3, WsSame DEF timerVars, TypeOK
  <2>. QED
    BY <2>1, <2>2, <2>3, <2>4 DEF Connect
<1>6. CASE ReceiveDisconnect
  <2> DEFINE e == [do |-> "disconnect"]
  <2>1. e \in Continuation /\ e.do = "disconnect"
    BY Continuations
  <2>2. /\ StartDisconnect(e, io) /\ wish' = NoUrl
        /\ UNCHANGED <<socket, state, nextDelay, ready>>
    BY <1>6 DEF ReceiveDisconnect, netVars
  <2> HIDE DEF e
  <2>. QED
    BY <1>1, <2>1, <2>2, WsDrops
<1>. QED
  BY <1>5, <1>6

\* The continuations of chrome.storage.
LEMMA WsResume ==
    ASSUME TypeOK, WsInv, Resume, ~disturbed'
    PROVE  LinkWishInv'
<1> USE WsClientAssumption
<1> DEFINE h == Head(io)
           q == Tail(io)
<1>0. LinkWishInv /\ wish' = wish /\ io # <<>>
  BY DEF Resume, ResumeOpen, ResumeDisconnect, ResumeSwitch, ResumeRestore, WsInv, ghostVars
<1>1. /\ h \in Continuation /\ q \in Seq(Continuation)
      /\ Range(io) = {h} \union Range(q)
  BY <1>0, RangeTail DEF TypeOK
<1>2. /\ Ordered(q)
      /\ h.do = "open" => \A f \in Range(q) : Ender(f)
      /\ Ender(h) => \A f \in Range(q) : f.do = "restore"
  BY <1>0, TailOrdered DEF TypeOK, LinkWishInv
<1>3. NoSocket \notin Links
  BY DEF Links
<1>4. CASE ResumeOpen
  <2>1. h.do = "open" /\ io' = q
        /\ UNCHANGED <<state, currentUrl, shouldReconnect, timer, nextDelay, stored>>
    BY <1>4 DEF ResumeOpen, timerVars
  <2>2. PICK s \in Links : ready' = [ready EXCEPT ![s] = "connecting"] /\ socket' = s
    BY <1>4 DEF ResumeOpen, Dial
  <2> HIDE DEF h, q
  <2>3. Opening /\ ~Opening'
    BY <1>1, <1>2, <2>1 DEF Opening, Ender
  <2>4. Ending' <=> Ending
    BY <1>1, <2>1 DEF Ending, Ender
  <2>5. state = "connecting" /\ \A t \in Links : ready[t] \notin Live
    BY <1>0, <1>3, <2>3 DEF LinkWishInv, LinkInv
  <2>6. LinkInv'
    BY <2>1, <2>2, <2>3, <2>5, <1>3 DEF LinkInv, TypeOK, Links, Live
  <2>7. DelayInv'
    BY <1>0, <2>1, <2>2 DEF LinkWishInv, DelayInv, TypeOK, Links
  <2>8. EndingInv' /\ IdleInv' /\ WantedInv'
    BY <1>0, <1>1, <2>1, <2>3, <2>4 DEF LinkWishInv, EndingInv, IdleInv, WantedInv
  <2>. QED
    BY <1>2, <2>1, <2>6, <2>7, <2>8 DEF LinkWishInv
<1>5. CASE ResumeDisconnect
  <2>1. /\ h.do = "disconnect" /\ io' = q
        /\ socket' = NoSocket /\ state' = "disconnected"
        /\ ready' = [t \in Sockets |-> IF t = socket /\ ready[t] \in Live
                                      THEN "closing" ELSE ready[t]]
        /\ UNCHANGED <<currentUrl, shouldReconnect, timer, nextDelay, stored>>
    BY <1>5 DEF ResumeDisconnect, CloseOwn, timerVars
  <2> HIDE DEF h, q
  <2>2. Ender(h) /\ Ending
    BY <1>1, <2>1 DEF Ender, Ending
  <2>3. ~Opening' /\ ~Ending' /\ wish = NoUrl
    BY <1>0, <1>1, <1>2, <2>1, <2>2 DEF Opening, Ending, Ender, LinkWishInv, EndingInv
  <2>4. LinkInv'
    BY <1>0, <2>1, <2>3 DEF LinkWishInv, LinkInv, Links, Live
  <2>5. DelayInv'
    BY <1>0, <2>1 DEF LinkWishInv, DelayInv, Links
  <2>6. EndingInv' /\ IdleInv' /\ WantedInv'
    BY <1>0, <1>1, <2>1, <2>2, <2>3 DEF LinkWishInv, EndingInv, IdleInv, WantedInv
  <2>. QED
    BY <1>2, <2>1, <2>4, <2>5, <2>6 DEF LinkWishInv
<1>6. CASE ResumeSwitch
  <2>1. /\ h.do = "switch" /\ StartConnect(h.url, q)
        /\ socket' = NoSocket /\ UNCHANGED nextDelay
        /\ ready' = [t \in Sockets |-> IF t = socket /\ ready[t] \in Live
                                      THEN "closing" ELSE ready[t]]
    BY <1>6 DEF ResumeSwitch, CloseOwn, timerVars
  <2> HIDE DEF h, q
  <2>2. h.url \in Urls
    BY <1>1, <2>1 DEF Continuation
  <2>3. Ender(h) /\ Ending
    BY <1>1, <2>1 DEF Ender, Ending
  <2>4. wish = h.url /\ \A f \in Range(q) : ~Ender(f) /\ f.do # "open" /\ Quiet(f)
    BY <1>0, <1>1, <1>2, <2>1, <2>3 DEF LinkWishInv, EndingInv, Ender
  <2>5. \A s \in Links : ready'[s] \notin Live
    BY <1>0, <2>1 DEF LinkWishInv, LinkInv, Links, Live
  <2>. QED
    BY <1>0, <1>1, <1>2, <2>1, <2>2, <2>4, <2>5, WsDials
<1>7. CASE ResumeRestore
  <2>1. h.do = "restore" /\ h.saw \in Setting /\ UNCHANGED ready
    BY <1>1, <1>7 DEF ResumeRestore, Continuation, netVars
  <2>2. ~Quiet(h) => /\ ~Ending /\ wish # NoUrl
                     /\ h.saw = stored /\ stored = [url |-> wish, reconnect |-> TRUE]
    BY <1>0, <1>1 DEF LinkWishInv, EndingInv, IdleInv, WantedInv
  <2>3. Quiet(h) <=> ~h.saw.reconnect
    BY <2>1 DEF Quiet
  <2>4. CASE WantsLink(h.saw) /\ Connect(h.saw.url, TRUE, q)
    <3>0. ~Quiet(h)
      BY <2>3, <2>4 DEF WantsLink
    <3>1. /\ ~Quiet(h) /\ ~Ending /\ wish # NoUrl /\ wish \in Urls /\ h.saw.url = wish
          /\ h.saw = [url |-> wish, reconnect |-> TRUE] /\ h.saw = stored
      <4>1. /\ ~Ending /\ wish # NoUrl /\ h.saw = stored
            /\ stored = [url |-> wish, reconnect |-> TRUE]
        BY <2>2, <3>0
      <4>2. wish \in Urls
        BY <4>1 DEF TypeOK, Address
      <4>3. h.saw = [url |-> wish, reconnect |-> TRUE]
        BY <4>1
      <4>4. h.saw.url = wish
        BY <4>3
      <4>. QED
        BY <3>0, <4>1, <4>2, <4>3, <4>4
    <3> HIDE DEF h, q
    <3>2. \A f \in Range(q) : ~Ender(f) /\ (Quiet(f) \/ f.saw = h.saw)
      BY <1>0, <1>1, <3>1 DEF LinkWishInv, WantedInv, Ending
    <3>3. CASE state = "disconnected"
      <4>1. StartConnect(wish, q) /\ UNCHANGED <<socket, timerVars>>
        BY <2>4, <3>1, <3>3 DEF Connect
      <4>2. socket = NoSocket /\ ~Opening /\ \A s \in Links : ready[s] \notin Live
        BY <1>0, <1>3, <3>3, WsStates DEF LinkWishInv
      <4>3. \A f \in Range(q) : f.do # "open"
        BY <1>1, <4>2 DEF Opening
      <4>. QED
        BY <1>0, <1>1, <1>2, <2>1, <3>1, <3>2, <4>1, <4>2, <4>3, WsDials DEF timerVars
    <3>4. CASE state # "disconnected"
      <4>1. socket # NoSocket \/ Opening
        BY <1>0, <3>4, WsStates DEF LinkWishInv
      <4>2. currentUrl = wish
        BY <1>0, <3>1, <4>1 DEF LinkWishInv, WantedInv
      <4>3. /\ shouldReconnect' = TRUE /\ io' = q
            /\ UNCHANGED <<socket, state, currentUrl, timer, nextDelay, stored>>
        BY <2>4, <3>1, <3>4, <4>2 DEF Connect, timerVars
      <4>4. (Opening' <=> Opening) /\ ~Ending'
        BY <1>1, <2>1, <3>2, <4>3 DEF Opening, Ending
      <4>5. LinkInv' /\ DelayInv'
        BY <1>0, <2>1, <4>3, <4>4 DEF LinkWishInv, LinkInv, DelayInv
      <4>6. EndingInv' /\ IdleInv' /\ WantedInv'
        BY <1>0, <3>1, <3>2, <4>2, <4>3, <4>4 DEF EndingInv, IdleInv, WantedInv
      <4>. QED
        BY <1>2, <4>3, <4>5, <4>6 DEF LinkWishInv
    <3>. QED
      BY <3>3, <3>4
  <2>5. CASE ~WantsLink(h.saw) /\ io' = q /\ UNCHANGED <<linkVars, timerVars, stored>>
    <3>1. Quiet(h)
      BY <2>2, <2>3, <2>5 DEF WantsLink
    <3>2. UNCHANGED <<socket, state, currentUrl, shouldReconnect, timer, nextDelay, stored>>
      BY <2>5 DEF linkVars, timerVars
    <3> HIDE DEF h, q
    <3>3. (Opening' <=> Opening) /\ (Ending' <=> Ending)
      BY <1>1, <2>1, <2>5 DEF Opening, Ending, Ender
    <3>4. LinkInv' /\ DelayInv'
      BY <1>0, <2>1, <3>2, <3>3 DEF LinkWishInv, LinkInv, DelayInv
    <3>5. EndingInv' /\ IdleInv' /\ WantedInv'
      BY <1>0, <1>1, <2>5, <3>1, <3>2, <3>3 DEF LinkWishInv, EndingInv, IdleInv, WantedInv
    <3>. QED
      BY <1>2, <2>5, <3>4, <3>5 DEF LinkWishInv
  <2>. QED
    BY <1>7, <2>4, <2>5 DEF ResumeRestore
<1>. QED
  BY <1>4, <1>5, <1>6, <1>7 DEF Resume

\* The reconnect timer, the keepalive alarm and a new worker.
LEMMA WsTimers ==
    ASSUME TypeOK, WsInv, TimerFires \/ Alarm \/ WorkerRestarts, ~disturbed'
    PROVE  LinkWishInv'
<1> USE WsClientAssumption
<1>0. LinkWishInv /\ wish' = wish
  BY DEF TimerFires, Alarm, WorkerRestarts, WsInv, ghostVars
<1>1. io \in Seq(Continuation) /\ Ordered(io) /\ NoSocket \notin Links /\ stored \in Setting
  BY <1>0 DEF TypeOK, Links, LinkWishInv
<1>2. CASE TimerFires
  <2>1. timer # "none" /\ timer' = "none" /\ UNCHANGED <<socket, nextDelay, ready>>
    BY <1>2 DEF TimerFires, netVars
  <2>2. CASE shouldReconnect /\ state = "disconnected" /\ StartConnect(currentUrl, io)
    <3>1. socket = NoSocket /\ ~Opening /\ \A s \in Links : ready[s] \notin Live
      BY <1>0, <1>1, <2>2, WsStates DEF LinkWishInv
    <3>2. ~Ending /\ wish # NoUrl
      BY <1>0, <2>1 DEF LinkWishInv, EndingInv, IdleInv
    <3>3. currentUrl = wish /\ wish \in Urls
      BY <1>0, <2>2, <3>2 DEF LinkWishInv, WantedInv, TypeOK, Address
    <3>4. \A f \in Range(io) : f.do # "open" /\ ~Ender(f)
      BY <3>1, <3>2 DEF Opening, Ending
    <3>5. \A f \in Range(io) : Quiet(f) \/ f.saw = [url |-> wish, reconnect |-> TRUE]
      BY <1>0, <3>2 DEF LinkWishInv, WantedInv
    <3>. QED
      BY <1>0, <1>1, <2>1, <2>2, <3>1, <3>3, <3>4, <3>5, WsDials
  <2>3. CASE UNCHANGED <<state, currentUrl, shouldReconnect, storeVars>>
    <3>1. UNCHANGED <<state, currentUrl, shouldReconnect, stored, io>>
      BY <2>3 DEF storeVars
    <3>2. (Opening' <=> Opening) /\ (Ending' <=> Ending)
      BY <3>1 DEF Opening, Ending
    <3>3. LinkInv' /\ DelayInv'
      BY <1>0, <2>1, <3>1, <3>2 DEF LinkWishInv, LinkInv, DelayInv
    <3>4. EndingInv' /\ IdleInv' /\ WantedInv'
      BY <1>0, <2>1, <3>1, <3>2 DEF LinkWishInv, EndingInv, IdleInv, WantedInv
    <3>. QED
      BY <1>1, <3>1, <3>3, <3>4 DEF LinkWishInv
  <2>. QED
    BY <1>2, <2>2, <2>3 DEF TimerFires
<1>3. CASE Alarm
  <2> DEFINE e == [do |-> "restore", saw |-> stored]
  <2>1. /\ state = "disconnected" /\ io' = Append(io, e)
        /\ UNCHANGED <<socket, state, currentUrl, shouldReconnect, timer, nextDelay, stored,
                       ready>>
    BY <1>3 DEF Alarm, linkVars, timerVars, netVars
  <2>2. e \in Continuation /\ e.do = "restore" /\ e.saw = stored
    BY <1>1, Continuations
  <2> HIDE DEF e
  <2>3. Range(io') = Range(io) \union {e}
    BY <1>1, <2>1, <2>2, RangeAppend
  <2>4. ~Opening
    BY <1>0, <2>1, WsStates DEF LinkWishInv
  <2>5. Ordered(io')
    BY <1>1, <2>1, <2>2, <2>4, AppendOrdered DEF Opening
  <2>6. ~Opening' /\ (Ending' <=> Ending)
    BY <2>2, <2>3, <2>4 DEF Opening, Ending, Ender
  <2>7. LinkInv' /\ DelayInv'
    BY <1>0, <2>1, <2>4, <2>6 DEF LinkWishInv, LinkInv, DelayInv
  <2>8. EndingInv'
    BY <1>0, <2>1, <2>2, <2>3, <2>6 DEF LinkWishInv, EndingInv, Quiet
  <2>9. IdleInv'
    BY <1>0, <2>1, <2>2, <2>3, <2>6 DEF LinkWishInv, IdleInv, Quiet
  <2>10. WantedInv'
    BY <1>0, <2>1, <2>2, <2>3, <2>6 DEF LinkWishInv, WantedInv, Quiet
  <2>. QED
    BY <2>5, <2>7, <2>8, <2>9, <2>10 DEF LinkWishInv
<1>4. CASE WorkerRestarts
  <2> DEFINE e == [do |-> "restore", saw |-> stored]
  <2>1. /\ socket' = NoSocket /\ state' = "disconnected" /\ ~shouldReconnect' /\ timer' = "none"
        /\ io' = <<e>> /\ stored' = stored
        /\ \A s \in Links : ready'[s] = "closed"
        /\ \A i \in DOMAIN io : io[i].do # "switch"
    BY <1>4 DEF WorkerRestarts, Links
  <2>2. \A f \in Range(io) : f.do # "switch"
    BY <2>1 DEF Range
  <2>3. Range(io') = {e} /\ Ordered(io')
    BY <2>1, OneElement
  <2>4. e.do = "restore" /\ e.saw = stored
    OBVIOUS
  <2> HIDE DEF e
  <2>5. ~Opening' /\ ~Ending'
    BY <2>3, <2>4 DEF Opening, Ending, Ender
  <2>6. LinkInv' /\ DelayInv'
    BY <2>1, <2>5 DEF LinkInv, DelayInv, Live
  <2>7. Ending => wish = NoUrl /\ ~stored.reconnect
    BY <1>0, <2>2 DEF LinkWishInv, EndingInv, Ending, Ender
  <2>8. EndingInv' /\ IdleInv'
    BY <1>0, <2>1, <2>3, <2>4, <2>5, <2>7 DEF LinkWishInv, EndingInv, IdleInv, Quiet
  <2>9. WantedInv'
    <3> SUFFICES ASSUME wish # NoUrl PROVE WantedInv'
      BY <1>0 DEF WantedInv
    <3>1. stored = [url |-> wish, reconnect |-> TRUE]
      BY <1>0, <2>7 DEF LinkWishInv, WantedInv
    <3>2. ~Quiet(e)
      BY <2>4, <3>1 DEF Quiet
    <3>. QED
      BY <1>0, <2>1, <2>3, <2>4, <2>5, <3>1, <3>2 DEF WantedInv
  <2>. QED
    BY <2>3, <2>6, <2>8, <2>9 DEF LinkWishInv
<1>. QED
  BY <1>2, <1>3, <1>4

\* The events of a link.
LEMMA WsEvents ==
    ASSUME TypeOK, WsInv, NEW s \in Sockets,
           Opens(s) \/ ReceiveRejected(s) \/ Closes(s), ~disturbed'
    PROVE  LinkWishInv'
<1> USE WsClientAssumption
<1>0. LinkWishInv /\ wish' = wish /\ UNCHANGED <<currentUrl, shouldReconnect, stored, io>>
  BY DEF Opens, ReceiveRejected, Closes, WsInv, ghostVars, linkVars, storeVars
<1>1. (Opening' <=> Opening) /\ (Ending' <=> Ending) /\ Ordered(io') /\ NoSocket \notin Links
  BY <1>0 DEF Opening, Ending, LinkWishInv, Links
<1>2. CASE Opens(s)
  <2>1. /\ s \in Links /\ ready[s] = "connecting" /\ s = socket
        /\ ready' = [ready EXCEPT ![s] = "open"]
        /\ state' = "connected" /\ timer' = "none" /\ socket' = socket
    BY <1>0, <1>2 DEF Opens, LinkWishInv, LinkInv, Live
  <2>2. LinkInv'
    BY <1>0, <1>1, <2>1 DEF LinkWishInv, LinkInv, TypeOK, Links, Live
  <2>3. DelayInv'
    BY <1>0, <2>1 DEF LinkWishInv, LinkInv, DelayInv, TypeOK, Links, Live
  <2>4. EndingInv' /\ IdleInv' /\ WantedInv'
    BY <1>0, <1>1, <2>1 DEF LinkWishInv, EndingInv, IdleInv, WantedInv
  <2>. QED
    BY <1>1, <2>2, <2>3, <2>4 DEF LinkWishInv
<1>3. CASE ReceiveRejected(s)
  <2>1. /\ s \in Links /\ ready[s] = "open"
        /\ ready' = [ready EXCEPT ![s] = "rejected"]
        /\ nextDelay' = "long" /\ UNCHANGED <<socket, state, timer>>
    BY <1>3 DEF ReceiveRejected, linkVars
  <2>2. LinkInv'
    BY <1>0, <1>1, <2>1 DEF LinkWishInv, LinkInv, TypeOK, Links, Live
  <2>3. DelayInv'
    BY <2>1 DEF DelayInv
  <2>4. EndingInv' /\ IdleInv' /\ WantedInv'
    BY <1>0, <1>1, <2>1 DEF LinkWishInv, EndingInv, IdleInv, WantedInv
  <2>. QED
    BY <1>1, <2>2, <2>3, <2>4 DEF LinkWishInv
<1>4. CASE Closes(s)
  <2>1. ready' = [ready EXCEPT ![s] = "closed"]
    BY <1>4 DEF Closes
  <2>2. CASE IsCurrent(s)
    <3>1. /\ s = socket /\ s \in Links /\ socket' = NoSocket /\ state' = "disconnected"
          /\ timer' = timer \/ shouldReconnect
      BY <1>1, <1>4, <2>2 DEF Closes, IsCurrent, Retries, timerVars, TypeOK
    <3>2. ~Opening /\ socket # NoSocket
      BY <1>0, <1>1, <3>1 DEF LinkWishInv, LinkInv
    <3>3. LinkInv'
      BY <1>0, <1>1, <2>1, <3>1, <3>2 DEF LinkWishInv, LinkInv, TypeOK, Links, Live
    <3>4. DelayInv'
      BY <1>0, <2>1, <3>1 DEF LinkWishInv, LinkInv, DelayInv, TypeOK, Links, Live
    <3>5. EndingInv' /\ IdleInv' /\ WantedInv'
      BY <1>0, <1>1, <3>1, <3>2 DEF LinkWishInv, EndingInv, IdleInv, WantedInv
    <3>. QED
      BY <1>1, <3>3, <3>4, <3>5 DEF LinkWishInv
  <2>3. CASE ~IsCurrent(s)
    <3>1. s # socket /\ UNCHANGED <<socket, state, timer, nextDelay>>
      BY <1>4, <2>3 DEF Closes, IsCurrent, timerVars
    <3>2. LinkInv'
      BY <1>0, <1>1, <2>1, <3>1 DEF LinkWishInv, LinkInv, TypeOK, Links, Live
    <3>3. DelayInv'
      BY <1>0, <2>1, <3>1 DEF LinkWishInv, DelayInv, TypeOK, Links
    <3>4. EndingInv' /\ IdleInv' /\ WantedInv'
      BY <1>0, <1>1, <3>1 DEF LinkWishInv, EndingInv, IdleInv, WantedInv
    <3>. QED
      BY <1>1, <3>2, <3>3, <3>4 DEF LinkWishInv
  <2>. QED
    BY <2>2, <2>3
<1>. QED
  BY <1>2, <1>3, <1>4

LEMMA WsStep == TypeOK /\ WsInv /\ [Next]_vars => WsInv'
<1> SUFFICES ASSUME TypeOK, WsInv, [Next]_vars, ~disturbed' PROVE LinkWishInv'
  BY DEF WsInv
<1> USE WsClientAssumption
<1> DEFINE Still == UNCHANGED <<socket, state, currentUrl, shouldReconnect, timer, nextDelay,
                                stored, io, wish, disturbed>>
<1>1. ASSUME Still, \A t \in Links : ready'[t] = ready[t] PROVE LinkWishInv'
  BY <1>1, WsSame DEF WsInv, TypeOK
<1> USE DEF workerVars, linkVars, timerVars, storeVars, ghostVars, netVars
<1>2. ASSUME NEW u \in Urls, ClickConnect(u) PROVE LinkWishInv'
  BY <1>1, <1>2 DEF ClickConnect, Dial, Links, TypeOK
<1>3. CASE TestTimesOut \/ ProbeOpens
  BY <1>1, <1>3 DEF TestTimesOut, ProbeOpens, CloseOwn, Links, TypeOK
<1>4. CASE ProbeFails
  BY <1>1, <1>4 DEF ProbeFails, Links, TypeOK
<1>5. ASSUME NEW t \in Sockets, Serve(t) \/ LetGo(t) PROVE LinkWishInv'
  BY <1>1, <1>5 DEF Serve, LetGo
<1>6. CASE UNCHANGED vars
  BY <1>1, <1>6 DEF vars
<1>7. CASE ReceiveConnect \/ ReceiveDisconnect
  BY <1>7, WsClicks
<1>8. CASE Resume
  BY <1>8, WsResume
<1>9. CASE TimerFires \/ Alarm \/ WorkerRestarts
  BY <1>9, WsTimers
<1>10. ASSUME NEW t \in Sockets, Opens(t) \/ ReceiveRejected(t) \/ Closes(t)
       PROVE  LinkWishInv'
  BY <1>10, WsEvents
<1>. QED
  BY <1>2, <1>3, <1>4, <1>5, <1>6, <1>7, <1>8, <1>9, <1>10 DEF Next

----------------------------------------------------------------------------
(* Theorems.                                                               *)

\* One link: no socket but `socket` is live, and the state the popup shows is
\* the state of that socket, through dials, drops, rejections, deaths of the
\* worker and late storage answers, as long as no click or death comes while a
\* storage request is under way that undoes it (ws-client.js connect,
\* disconnect, the listeners).
THEOREM LinkIsOne == Spec => []OneLink
<1>1. TypeOK /\ WsInv => OneLink
  <2> SUFFICES ASSUME TypeOK, LinkInv, ~disturbed PROVE OneLink
    BY DEF OneLink, WsInv, LinkWishInv
  <2>1. Opening <=> \E i \in DOMAIN io : io[i].do = "open"
    BY DEF Opening, Range
  <2>. QED
    BY <2>1 DEF OneLink, LinkInv
<1>. QED
  BY TypeInit, TypeStep, WsInit, WsStep, <1>1, PTL DEF Spec

\* The user's last word stands once storage is quiet: nothing is live, planned
\* or stored after Disconnect, and worker and storage agree on the address after
\* Connect, across retries, alarms and restarts (ws-client.js connect,
\* disconnect, reconnectIfNeeded).
THEOREM LastWordKept == Spec => []LastWordStands
<1>1. TypeOK /\ WsInv => LastWordStands
  <2> SUFFICES ASSUME TypeOK, LinkWishInv, io = <<>>
               PROVE  /\ wish = stored.url \/ wish = NoUrl
                      /\ stored.reconnect = (wish # NoUrl)
                      /\ shouldReconnect = (wish # NoUrl)
                      /\ wish # NoUrl => currentUrl = wish
                      /\ wish = NoUrl => socket = NoSocket /\ timer = "none"
    BY DEF LastWordStands, WsInv
  <2>1. Range(io) = {}
    BY DEF Range
  <2>2. ~Ending /\ stored.reconnect \in BOOLEAN /\ shouldReconnect \in BOOLEAN
    BY <2>1 DEF Ending, TypeOK, Setting
  <2>3. CASE wish = NoUrl
    BY <2>2, <2>3 DEF LinkWishInv, IdleInv
  <2>4. CASE wish # NoUrl
    BY <2>1, <2>2, <2>4 DEF LinkWishInv, WantedInv
  <2>. QED
    BY <2>3, <2>4
<1>. QED
  BY TypeInit, TypeStep, WsInit, WsStep, <1>1, PTL DEF Spec

\* The end of a rejected link leaves the timer at the long delay or unset, so two
\* browsers do not fight over a daemon (ws-client.js onMessage, the close
\* listener, scheduleReconnect); the alarm is not bound by it.
THEOREM RejectionBacksOff == Spec => RejectedBacksOff
<1> DEFINE A == \A s \in Links : ready[s] = "rejected" /\ Closes(s) /\ ~disturbed
                                     => timer' # "short"
<1>1. TypeOK /\ WsInv /\ [Next]_vars => [A]_vars
  <2> SUFFICES ASSUME TypeOK, LinkWishInv, NEW s \in Links, ready[s] = "rejected", Closes(s)
               PROVE  timer' # "short"
    BY DEF A, WsInv
  <2>1. s = socket /\ nextDelay = "long" /\ socket # NoSocket
    BY WsClientAssumption DEF LinkWishInv, LinkInv, DelayInv, Live, Links
  <2>2. CASE shouldReconnect
    BY <2>1, <2>2 DEF Closes, IsCurrent, Retries, Schedule
  <2>3. CASE ~shouldReconnect
    <3>1. timer' = timer
      BY <2>1, <2>3 DEF Closes, IsCurrent, Retries, timerVars
    <3>2. timer = "none"
      BY <2>3 DEF LinkWishInv, EndingInv, IdleInv, WantedInv
    <3>. QED
      BY <3>1, <3>2
  <2>. QED
    BY <2>2, <2>3
<1>2. RejectedBacksOff <=> [][A]_vars
  BY DEF RejectedBacksOff
<1>. QED
  BY TypeInit, TypeStep, WsInit, WsStep, <1>1, <1>2, PTL DEF Spec

=============================================================================
