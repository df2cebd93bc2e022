------------------------------ MODULE WsClient ------------------------------
(***************************************************************************)
(* The extension's link to the daemon (extension src/ws-client.js), as the *)
(* service worker drives it (background.js): the user's clicks in the      *)
(* popup, the reconnect timer, the keepalive alarm, the events of its      *)
(* sockets and the death of the worker.                                    *)
(*                                                                         *)
(* JavaScript runs to completion: a step is one callback, up to its next   *)
(* await.  The only awaits of the module are on chrome.storage, which      *)
(* applies and answers requests in the order they were made: what is left  *)
(* to do after each is a continuation in the queue `io`, and a read holds  *)
(* what was stored when it was issued.                                     *)
(*                                                                         *)
(* The daemon is reduced to its arbitration (hub.go, Serve; module Hub has *)
(* all of it): it holds one connection and refuses another meanwhile.  An  *)
(* address stands for a daemon.  Every address is well formed: the popup   *)
(* tests it before it asks to connect, and a malformed one fails the test, *)
(* so that `new WebSocket` does not throw in connect.                      *)
(***************************************************************************)
EXTENDS Naturals, Sequences, FiniteSets

CONSTANTS
    Urls,
    NoUrl,         \* no address: "", or nothing stored
    Sockets,       \* WebSocket objects, used again once both ends are closed
    NoSocket,
    Probe,         \* the one testConnection uses
    MaxPending     \* bound on storage requests under way

ASSUME WsClientAssumption ==
    /\ NoUrl \notin Urls
    /\ NoSocket \notin Sockets
    /\ Probe \in Sockets
    /\ MaxPending \in Nat \ {0}

VARIABLES
    socket, state, currentUrl, shouldReconnect,
    timer,         \* reconnectTimer: none, or the delay it was set with
    nextDelay,     \* nextReconnectMs: short (5 s) or long (30 s)
    stored,        \* chrome.storage.local: address and should-reconnect
    io,            \* continuations that wait for chrome.storage, in order
    testing,       \* the address testConnection is trying
    asked,         \* the address of the CONNECT message the popup has sent
    ready,         \* the worker's end of each socket
    at,            \* the address of each socket
    peer,          \* the daemon's end of each socket
    wish,          \* ghost: what the user asked for last, NoUrl: no link
    disturbed      \* ghost: did a click or a death come while a storage
                   \* request was under way that would undo it?

linkVars == <<socket, state, currentUrl, shouldReconnect>>
timerVars == <<timer, nextDelay>>
storeVars == <<stored, io>>
workerVars == <<linkVars, timerVars, storeVars>>
popupVars == <<testing, asked>>
netVars == <<ready, at, peer>>
ghostVars == <<wish, disturbed>>
vars == <<workerVars, popupVars, netVars, ghostVars>>

----------------------------------------------------------------------------
Address == Urls \union {NoUrl}
Links == Sockets \ {Probe}
Setting == [url : Address, reconnect : BOOLEAN]

Continuation ==
    [do : {"open", "disconnect"}]
      \union [do : {"switch"}, url : Urls]
      \union [do : {"restore"}, saw : Setting]

\* Rejected: open, and told that another browser owns the daemon.
Live == {"connecting", "open", "rejected"}

TypeOK ==
    /\ socket \in Links \union {NoSocket}
    /\ state \in {"disconnected", "connecting", "connected"}
    /\ currentUrl \in Address
    /\ shouldReconnect \in BOOLEAN
    /\ timer \in {"none", "short", "long"}
    /\ nextDelay \in {"short", "long"}
    /\ stored \in Setting
    /\ io \in Seq(Continuation) /\ Len(io) <= MaxPending
    /\ testing \in Address
    /\ asked \in Address
    /\ ready \in [Sockets -> Live \union {"closing", "closed"}]
    /\ at \in [Sockets -> Address]
    /\ peer \in [Sockets -> {"none", "held", "refused", "crossed"}]
    /\ wish \in Address
    /\ disturbed \in BOOLEAN

\* A worker starts with reconnectIfNeeded (background.js:115).
Init ==
    /\ socket = NoSocket
    /\ state = "disconnected"
    /\ currentUrl = NoUrl
    /\ shouldReconnect = FALSE
    /\ timer = "none"
    /\ nextDelay = "short"
    /\ stored = [url |-> NoUrl, reconnect |-> FALSE]
    /\ io = <<[do |-> "restore", saw |-> stored]>>
    /\ testing = NoUrl
    /\ asked = NoUrl
    /\ ready = [s \in Sockets |-> "closed"]
    /\ at = [s \in Sockets |-> NoUrl]
    /\ peer = [s \in Sockets |-> "none"]
    /\ wish = NoUrl
    /\ disturbed = FALSE

----------------------------------------------------------------------------
(* connect and disconnect, up to their first await.  Each handler passes   *)
(* the queue it leaves behind.                                             *)

\* connect, from line 52 to its await: the settings are saved before the
\* socket is made.
StartConnect(u, queue) ==
    /\ shouldReconnect' = TRUE
    /\ state' = "connecting"
    /\ currentUrl' = u
    /\ stored' = [url |-> u, reconnect |-> TRUE]
    /\ io' = Append(queue, [do |-> "open"])

\* Slip: the user's wish is not saved.
KeepSettings == stored

ForgetReconnect == [stored EXCEPT !.reconnect = FALSE]

StartDisconnect(then, queue) ==
    /\ shouldReconnect' = FALSE
    /\ timer' = "none"
    /\ stored' = ForgetReconnect
    /\ io' = Append(queue, then)

\* connect(u), with the value shouldReconnect has when it is called.  It drops
\* a link to another address first, and does nothing if u is linked already.
Connect(u, should, queue) ==
    \/ /\ state = "disconnected"
       /\ StartConnect(u, queue)
       /\ UNCHANGED <<socket, timerVars>>
    \/ /\ state # "disconnected" /\ u # currentUrl
       /\ StartDisconnect([do |-> "switch", url |-> u], queue)
       /\ UNCHANGED <<socket, state, currentUrl, nextDelay>>
    \/ /\ state # "disconnected" /\ u = currentUrl
       /\ shouldReconnect' = should
       /\ io' = queue
       /\ UNCHANGED <<socket, state, currentUrl, timerVars, stored>>

\* No storage request is under way whose continuation would undo a click.
Settled ==
    \A i \in DOMAIN io :
        \/ io[i].do = "open"
        \/ io[i].do = "restore" /\ ~io[i].saw.reconnect

\* A socket can be used again when neither end is in use.
Unused(s) == ready[s] = "closed" /\ peer[s] = "none"

\* An unused socket has no address.
Recycle ==
    at' = [s \in Sockets |->
             IF ready'[s] = "closed" /\ peer'[s] = "none" THEN NoUrl ELSE at[s]]

\* new WebSocket(u)
Dial(s, u) ==
    /\ Unused(s)
    /\ ready' = [ready EXCEPT ![s] = "connecting"]
    /\ at' = [at EXCEPT ![s] = u]
    /\ UNCHANGED peer

\* socket.close(), a no-op on a socket that is closed.
CloseOwn(s) ==
    ready' = [t \in Sockets |->
                IF t = s /\ ready[t] \in Live THEN "closing" ELSE ready[t]]

----------------------------------------------------------------------------
(* The popup.  Its Connect button tests the address first (doConnect).     *)

ClickConnect(u) ==
    /\ testing = NoUrl /\ asked = NoUrl
    /\ Dial(Probe, u)
    /\ testing' = u
    /\ UNCHANGED <<workerVars, asked, ghostVars>>

TestTimesOut ==
    /\ testing # NoUrl
    /\ CloseOwn(Probe)
    /\ testing' = NoUrl
    /\ UNCHANGED <<workerVars, asked, at, peer, ghostVars>>

\* The CONNECT message reaches the worker.
ReceiveConnect ==
    /\ asked # NoUrl
    /\ Len(io) < MaxPending
    /\ Connect(asked, shouldReconnect, io)
    /\ asked' = NoUrl
    /\ wish' = asked
    /\ disturbed' = (disturbed \/ ~Settled)
    /\ UNCHANGED <<testing, netVars>>

ReceiveDisconnect ==
    /\ Len(io) < MaxPending
    /\ StartDisconnect([do |-> "disconnect"], io)
    /\ wish' = NoUrl
    /\ disturbed' = (disturbed \/ ~Settled)
    /\ UNCHANGED <<socket, state, currentUrl, nextDelay, popupVars, netVars>>

----------------------------------------------------------------------------
(* chrome.storage answers the oldest request and its continuation runs.    *)

ResumeOpen ==
    /\ io # <<>> /\ Head(io).do = "open"
    /\ \E s \in Links :
         /\ Dial(s, currentUrl)
         /\ socket' = s
    /\ io' = Tail(io)
    /\ UNCHANGED <<state, currentUrl, shouldReconnect, timerVars, stored,
                   popupVars, ghostVars>>

ResumeDisconnect ==
    /\ io # <<>> /\ Head(io).do = "disconnect"
    /\ CloseOwn(socket)
    /\ socket' = NoSocket
    /\ state' = "disconnected"
    /\ io' = Tail(io)
    /\ UNCHANGED <<currentUrl, shouldReconnect, timerVars, stored, popupVars,
                   at, peer, ghostVars>>

\* The disconnect inside connect ends, and connect goes on.
ResumeSwitch ==
    /\ io # <<>> /\ Head(io).do = "switch"
    /\ CloseOwn(socket)
    /\ socket' = NoSocket
    /\ StartConnect(Head(io).url, Tail(io))
    /\ UNCHANGED <<timerVars, popupVars, at, peer, ghostVars>>

\* Slip: the settings are taken as they come.
AlwaysWanted(saw) == TRUE

WantsLink(saw) == saw.reconnect /\ saw.url # NoUrl

\* reconnectIfNeeded has its settings.
ResumeRestore ==
    /\ io # <<>> /\ Head(io).do = "restore"
    /\ LET saw == Head(io).saw IN
         \/ /\ WantsLink(saw)
            /\ Connect(saw.url, TRUE, Tail(io))
         \/ /\ ~WantsLink(saw)
            /\ io' = Tail(io)
            /\ UNCHANGED <<linkVars, timerVars, stored>>
    /\ UNCHANGED <<popupVars, netVars, ghostVars>>

Resume == ResumeOpen \/ ResumeDisconnect \/ ResumeSwitch \/ ResumeRestore

----------------------------------------------------------------------------
(* Timers and the worker's life                                            *)

\* Slip: the delay is reset before it is used.
ScheduleShort ==
    /\ nextDelay' = "short"
    /\ timer' = nextDelay'

\* The delay is used once.
Schedule ==
    /\ timer' = nextDelay
    /\ nextDelay' = "short"

TimerFires ==
    /\ timer # "none"
    /\ \/ /\ shouldReconnect
          /\ state = "disconnected"
          /\ Len(io) < MaxPending
          /\ StartConnect(currentUrl, io)
       \/ /\ ~(shouldReconnect /\ state = "disconnected")
          /\ UNCHANGED <<state, currentUrl, shouldReconnect, storeVars>>
    /\ timer' = "none"
    /\ UNCHANGED <<socket, nextDelay, popupVars, netVars, ghostVars>>

\* The keepalive alarm, every half minute: reconnectIfNeeded up to its await.
Alarm ==
    /\ state = "disconnected"
    /\ Len(io) < MaxPending
    /\ io' = Append(io, [do |-> "restore", saw |-> stored])
    /\ UNCHANGED <<linkVars, timerVars, stored, popupVars, netVars, ghostVars>>

\* The browser suspends or loses the worker, and starts it again.  Its sockets
\* and continuations are gone; what chrome.storage was sent has been applied.
WorkerRestarts ==
    /\ socket' = NoSocket
    /\ state' = "disconnected"
    /\ currentUrl' = NoUrl
    /\ shouldReconnect' = FALSE
    /\ timer' = "none"
    /\ nextDelay' = "short"
    /\ io' = <<[do |-> "restore", saw |-> stored]>>
    /\ testing' = NoUrl
    /\ ready' = [s \in Sockets |-> "closed"]
    /\ disturbed' = (disturbed \/ \E i \in DOMAIN io : io[i].do = "switch")
    /\ UNCHANGED <<stored, asked, peer, wish>>
    /\ Recycle

----------------------------------------------------------------------------
(* Events of the sockets                                                   *)

Refused(s) == peer[s] \in {"refused", "crossed"}

\* The open listener of a link.  It does not ask whether s is still `socket`.
Opens(s) ==
    /\ s \in Links
    /\ ready[s] = "connecting" /\ peer[s] # "none"
    /\ ready' = [ready EXCEPT ![s] = "open"]
    /\ state' = "connected"
    /\ nextDelay' = "short"
    /\ timer' = "none"
    /\ UNCHANGED <<socket, currentUrl, shouldReconnect, storeVars, popupVars,
                   at, peer, ghostVars>>

\* The test succeeds, whatever the daemon is about to say; it closes its socket
\* and the popup sends CONNECT.
ProbeOpens ==
    /\ testing # NoUrl
    /\ ready[Probe] = "connecting" /\ peer[Probe] # "none"
    /\ CloseOwn(Probe)
    /\ testing' = NoUrl
    /\ asked' = testing
    /\ UNCHANGED <<workerVars, at, peer, ghostVars>>

\* connection_rejected, which the daemon sends before it closes.
ReceiveRejected(s) ==
    /\ s \in Links
    /\ ready[s] = "open" /\ Refused(s)
    /\ ready' = [ready EXCEPT ![s] = "rejected"]
    /\ nextDelay' = "long"
    /\ UNCHANGED <<linkVars, timer, storeVars, popupVars, at, peer,
                   ghostVars>>

\* Slip: the listener does not ask whose event it is.
AnySocket(s) == s \in Links /\ socket # NoSocket

IsCurrent(s) == s = socket

\* Slip: only an established link is retried.
RetriesEstablished == shouldReconnect /\ state = "connected"

Retries == shouldReconnect

\* The close event, whatever the reason: the daemon closed, the network failed,
\* the dial failed, or our close is complete.
Closes(s) ==
    /\ ready[s] \in Live \union {"closing"}
    /\ s # Probe \/ ready[s] = "closing"
    /\ ready' = [ready EXCEPT ![s] = "closed"]
    /\ \/ /\ IsCurrent(s)
          /\ state' = "disconnected"
          /\ socket' = NoSocket
          /\ \/ Retries /\ Schedule
             \/ ~Retries /\ UNCHANGED timerVars
       \/ /\ ~IsCurrent(s)
          /\ UNCHANGED <<socket, state, timerVars>>
    /\ UNCHANGED <<currentUrl, shouldReconnect, storeVars, popupVars, peer,
                   ghostVars>>
    /\ Recycle

ProbeFails ==
    /\ testing # NoUrl
    /\ ready[Probe] = "connecting"
    /\ ready' = [ready EXCEPT ![Probe] = "closed"]
    /\ testing' = NoUrl
    /\ UNCHANGED <<workerVars, asked, peer, ghostVars>>
    /\ Recycle

----------------------------------------------------------------------------
(* The daemons                                                             *)

\* The worker has, or just had, a connection that the daemon at u still holds.
OwnHeld(u) == \E s \in Sockets : peer[s] = "held" /\ at[s] = u

\* The upgrade, and the arbitration of Serve.  Another browser may own the daemon
\* at any time; refused for the worker's own connection is marked as crossed.
Serve(s) ==
    /\ ready[s] = "connecting" /\ peer[s] = "none"
    /\ \E answer \in IF OwnHeld(at[s]) THEN {"crossed"} ELSE {"held", "refused"} :
         peer' = [peer EXCEPT ![s] = answer]
    /\ UNCHANGED <<workerVars, popupVars, ready, at, ghostVars>>

\* Serve ends: it reads that the connection is closed, or the daemon stops.  A
\* refused one stays until its rejection has been read or lost: only the
\* message matters, as it holds nothing.
LetGo(s) ==
    /\ peer[s] # "none"
    /\ ready[s] # "connecting"
    /\ ~(Refused(s) /\ ready[s] = "open")
    /\ peer' = [peer EXCEPT ![s] = "none"]
    /\ UNCHANGED <<workerVars, popupVars, ready, ghostVars>>
    /\ Recycle

----------------------------------------------------------------------------
Next ==
    \/ \E u \in Urls : ClickConnect(u)
    \/ TestTimesOut \/ ProbeOpens \/ ProbeFails
    \/ ReceiveConnect \/ ReceiveDisconnect
    \/ Resume
    \/ TimerFires \/ Alarm \/ WorkerRestarts
    \/ \E s \in Sockets :
         Opens(s) \/ ReceiveRejected(s) \/ Closes(s) \/ Serve(s) \/ LetGo(s)

Spec == Init /\ [][Next]_vars

\* A connection that is over ends at both its ends.
Finishes(s) ==
    \/ ready[s] = "closing" /\ Closes(s)
    \/ ready[s] = "closed" /\ LetGo(s)

\* chrome.storage answers, a timer fires, and the two ends of a connection learn
\* that it is over.  Nothing is assumed of the user, the alarm, or whether a dial
\* succeeds.
Fairness ==
    /\ WF_vars(Resume)
    /\ WF_vars(TimerFires)
    /\ \A s \in Links : WF_vars(Finishes(s))

LiveSpec == Spec /\ Fairness

----------------------------------------------------------------------------
(* Properties                                                              *)

\* The header promises one link: the worker has no other live socket than
\* `socket`, and what the popup shows (state) is what that socket is.  It holds
\* while no click or death has come at a bad moment (see disturbed).
OneLink ==
    ~disturbed =>
        /\ \A s \in Links : ready[s] \in Live => s = socket
        /\ socket # NoSocket =>
             /\ ready[socket] \in Live
             /\ (state = "connected") = (ready[socket] # "connecting")
        /\ socket = NoSocket =>
             state = IF \E i \in DOMAIN io : io[i].do = "open"
                       THEN "connecting" ELSE "disconnected"

\* The user's last word stands, across retries, alarms and restarts: after
\* Disconnect no link is live, dialled or planned; after Connect the worker and
\* its storage keep that address and the wish to reconnect.  Read when no
\* storage request is under way.
LastWordStands ==
    ~disturbed /\ io = <<>> =>
        /\ wish = stored.url \/ wish = NoUrl
        /\ stored.reconnect = (wish # NoUrl)
        /\ shouldReconnect = (wish # NoUrl)
        /\ wish # NoUrl => currentUrl = wish
        /\ wish = NoUrl => socket = NoSocket /\ timer = "none"

\* "Back off longer so two browsers don't fight": the end of a link that was
\* rejected leaves the timer at the long delay or unset; the alarm may dial earlier.
RejectedBacksOff ==
    [][ \A s \in Links :
          ready[s] = "rejected" /\ Closes(s) /\ ~disturbed
              => timer' # "short" ]_vars

\* While the user wants a link, the loss of it is followed by another dial,
\* without the help of the alarm, unless the worker keeps dying.
KeepsTrying ==
    <>[][~WorkerRestarts]_vars =>
        ((wish # NoUrl /\ socket = NoSocket)
            ~> (socket # NoSocket \/ wish = NoUrl \/ disturbed))

\* "On a rejected connection (another browser already owns the daemon)": a link
\* is rejected for no other reason, so that backing off helps.
OnlyRivalsReject ==
    \A s \in Links : ready[s] = "rejected" => peer[s] # "crossed"
=============================================================================
