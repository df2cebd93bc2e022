# Open WebBridge: a formal model

Open WebBridge lets command-line agents drive a browser. A daemon (Go) accepts
HTTP commands and forwards each as a `tool_call` over one WebSocket to a browser
extension (JavaScript, a Manifest V3 service worker), which executes it and sends
a `tool_result` back. This directory holds TLA+ modules of the parts of that
system where concurrency, failure and time make it hard to get right, the TLC
configurations that check them and TLAPS proofs about them.

Paths below are relative to the repository; `daemon/` stands for
`open-webbridge-daemon/`, `ext/` for `open-webbridge-extension/src/`.

## Inventory

| Part | State | Operations | Talks to |
|---|---|---|---|
| Hub (`daemon/internal/hub`) | attached connection, compatibility, activity time, id counter, table of pending replies, semaphore per session | `Call`, `Serve` (attach, reject, take over, read, clean up) | server (calls), extension (socket) |
| Rate limiter (`daemon/internal/ratelimit`) | rules, recorded grants per domain | `Reserve`, `Commit`, `Rollback`, `SetRules`, `Status` | server |
| HTTP server (`daemon/internal/server`) | live configuration, its modification time | `/command`, `/status`, `/ws`, hot reload | limiter, hub, configuration file |
| WebSocket framing (`daemon/internal/wsserver`) | fragment buffer, closed flag | read, write, close | hub |
| Configuration (`daemon/internal/config`) | `config.json` | load, modify, save | command line, server |
| Process (`daemon/internal/process`) | pidfile | start, stop, is-running | operating system |
| Updater, files, protocol, command line | none that outlives an operation | download and re-exec; blobs to files; JSON | |
| Link (`ext/ws-client.js`) | socket, state, reconnect timer and back-off, settings in storage | connect, disconnect, reconnect, test, handle messages | hub, dispatcher |
| Tab sessions (`ext/sessions.js`, `ext/tools/tabs.js`) | session map, owned groups in storage, mutation lock | navigate, find, close, reconcile | browser tabs, storage |
| Debugger (`ext/cdp.js`) | attached targets, enabled domains | attach, enable, send, detach | browser debugger |
| References (`ext/refs.js`) | element table per tab | set, look up, clear | snapshot and interaction tools |
| Annotation store (`ext/annotations/store.js`) | notes, counter, screenshots, all mirrored in storage | add, patch, remove, list, wait | annotator, annotation tools |
| Annotation mode (`ext/annotations/mode.js`) | tabs in the mode, frames | start, stop, restore, sync | annotator, storage |
| In-page annotator (`ext/../annotator.js`) | overlay, open card, list of notes shown | announce, set mode, sync, compose, view, submit | annotation mode |
| Popup, page tools | DOM | | annotation mode, link |

What is hard, and what makes each part correct:

* **Hub.** Many HTTP goroutines, one reader per connection, a keepalive, deadlines
  that fire at any point, connections that are lost, rejected or taken over, a
  service worker that keeps running jobs after its socket is gone, and daemon
  restarts. Calls that drive one tab must exclude each other; no way out of a call
  may leave the session taken; a reply must reach the call it belongs to, and
  nothing may block while holding the hub's mutex; a dead connection must not leave
  callers waiting; the late end of an old connection must not disturb a new one.
* **Rate limiter.** Slots in the future, cancelled waits, rolled-back slots and rule
  changes all touch one list. At most `Max` navigations in every sliding window;
  a slot given back is exactly one's own; nobody goes before its slot.
* **Server.** Throttle, then hub: a slot is reserved before the call queues and is
  returned on any error, also when the browser did navigate.
* **Link.** `connect`, `disconnect`, timers, alarms and socket events interleave at
  every `await`. At most one live socket; the state agrees with it; it ends up
  connected if and only if the user last asked for it.
* **Tab sessions.** Read-modify-write of storage over `await`; limits that are
  checked before the tab is created. No owned group is forgotten, no limit exceeded.
* **Annotation store.** The worker dies at any time and reads the store again when it
  is next asked; two keys share one quota. No number is given twice, no comment is
  lost, a reader's cursor skips no note, a note claims no screenshot that nobody has.
* **Annotation mode.** Worker, storage and pages each have a part of the state, and
  starts, stops, navigations, announcements and deaths of the worker interleave. Once
  all is quiet the overlay is up in just the tabs that are in the mode, the pins show
  the notes; while the mode stays on, a draft is lost
  to nothing the worker does, but to the end of an edit in a viewer of its page.
* **Configuration and process.** Several processes write one file, and a pidfile
  stands for a process that may be gone.

`PROJECT.json` lists every component with its status and every hazard at its line.

## Modules

| Module | Models |
|---|---|
| `SessionRpc` | the abstract service the hub implements: submit, begin, end once, with exclusion per tab |
| `Hub` | `hub.go` in full, with the extension's end of the socket |
| `MCHub` | instances of `Hub` for TLC |
| `HubProofs` | theorems about `Hub`: types, exclusion, replies, attachment |
| `HubRpcProofs` | theorems about `Hub`: lost connections, own answers, and that it implements `SessionRpc` |
| `RateLimit` | `ratelimit.go` in full, with the server's commit or rollback |
| `MCRateLimit` | instances of `RateLimit` for TLC |
| `RateLimitProofs` | theorems about `RateLimit`: the cap, the ledger, the waits |
| `WsClient` | `ws-client.js` with the events of `background.js`, the popup's Connect button, and the arbitration of `hub.go` |
| `MCWsClient` | instances of `WsClient` for TLC |
| `WsClientProofs` | theorems about `WsClient`: one link, the last word, back-off |
| `TabSessions` | `sessions.js`, `tablimit.js` and the tools of `tools/tabs.js`, with Chrome's tabs and groups, the user who closes them, and whatever takes a tab to another address |
| `MCTabSessions` | an instance of `TabSessions` for TLC |
| `TabSessionsProofs` | theorems about `TabSessions`: active tabs, groups, closed sessions, limits |
| `AnnotationStore` | `annotations/store.js`, the filters and caps of `model.js`, the page's and the agent's edits, and an agent that follows the cursor of `tools/annotate.js` |
| `MCAnnotationStore` | an instance of `AnnotationStore` for TLC |
| `AnnotationStoreProofs` | theorems about `AnnotationStore`: numbers, lost notes, the cursor |
| `AnnotationCapsProofs` | theorems about `AnnotationStore`: caps, screenshots, what is saved |
| `AnnotationMode` | `annotations/mode.js`, the part of `tools/annotate.js` about tabs, the listeners of `background.js`, and the life of the overlay in `annotator.js` |
| `MCAnnotationMode` | an instance of `AnnotationMode` for TLC |
| `AnnotationModeProofs` | theorems about `AnnotationMode`: modes, overlays, pins, drafts |

In each module a definition whose comment starts with `Slip:` is a plausible
mistake placed before the definition it would replace; it is used by no
specification. It serves to confirm that a property notices the mistake.

### Hub

One variable per field of the Go struct (`conn`, `compatible`, `seq`, `pending`,
`sem` for `sessLocks`) and per local of `Call` that survives an unlock (`callId`,
`callConn`, `changed` for the captured `stateChanged` channel, `chan` for the reply
channel). `pc` is the position of a call in `Call`, `phase` that of a connection's
reader in `Serve`. A step is one critical section of `h.mu` or one blocking
operation, so every interleaving the mutex allows is explored:

| Code | Actions |
|---|---|
| `Call`, `acquireSession`, `releaseSession` | `StartCall`, `AcquireSession`, `GiveUpQueued`, `ReleaseSession` |
| `waitForExtension` | `CheckExtension`, `Wake`, `GiveUpParked` |
| `Call` after the wait | `Register`, `Write`, `Receive`, `Expire`, `DropPending` |
| `Serve` | `Reject`, `Attach`, `CloseOld`, `Read`, `Disconnect` |
| `handleInbound` | `HandleHello`, `HandleResult`, `Deliver`, `Pong` |
| `staleAfter` | `GoStale` |
| `ws-client.js` | `Dial`, `StartJob`, `FinishJob`, `LoseSocket`, `WorkerDies` |
| re-exec, restart | `RestartDaemon` |

Abstracted: payloads (a result carries, as a ghost, the call whose job produced it),
time (a deadline may fire whenever its `select` waits; activity is fresh or stale),
frames (a write is accepted or refused), and whether a lost far end is noticed by
the writer (either). `reconnectWait <= 0`, which only tests set, is left out.
A call waiting at the head of a full semaphore is as Go has it: any waiter may win,
waiters are served eventually.

### RateLimit

`grants` is the map of recorded slots, `clock` and `slot` are the locals of
`Reserve`, `pc` its position. The clock is read in one step (`ReadClock`) and used
in another (`Grant`, `Refuse`, `PassUnthrottled`), because the code reads it before
locking; `Tick` may happen in between, up to `MaxLag`. `Cancel` and `Rollback` remove
an entry as `removeGrant` does, the last one of that time. `SetRules` replaces rules
and keeps grants. Hosts and domains are related by a given function instead of by
suffix comparison of strings.

### WsClient

The module variables of `ws-client.js` keep their names (`timer` is
`reconnectTimer`, `nextDelay` is `nextReconnectMs`, short or long). JavaScript runs a
callback to the end, so a step is one callback up to its next `await`; the only awaits
are on `chrome.storage`, whose requests are answered in the order they were made.
`io` is the queue of what is left to do after each answer:

| Code | Actions |
|---|---|
| `connect` | up to its await `Connect` (with `StartConnect`, or `StartDisconnect` for another address), then `ResumeOpen` or `ResumeSwitch` |
| `disconnect` | `StartDisconnect` (in `ReceiveDisconnect`), then `ResumeDisconnect` |
| `reconnectIfNeeded` | `Alarm`, or the start of a worker; then `ResumeRestore` |
| listeners | `Opens`, `ReceiveRejected`, `Closes` |
| `scheduleReconnect` | `Schedule`, `TimerFires` |
| `testConnection`, `doConnect` | `ClickConnect`, `ProbeOpens`, `ProbeFails`, `TestTimesOut`, `ReceiveConnect` |
| suspension or loss of the worker | `WorkerRestarts` |
| `Hub.Serve` | `Serve`, `LetGo` |

The daemon only arbitrates here: it holds one connection for each address (`OwnHeld`)
and refuses another meanwhile. Another browser may own it at any time, so a dial may be
refused whenever the worker has no connection there. Its takeover of a stale connection, and everything about calls, is
in `Hub`. The notice for the popup is left out, as are malformed addresses, which
fail the test before `connect` sees them.

`disturbed` is a ghost. It becomes true when a click arrives while a storage request
is under way whose continuation will undo it (a read that saw a link wanted, a
disconnect, a change of address), or when the worker dies during a change of address.
After that the code does override the user, and may leave a socket no variable
refers to. `OneLink`, `LastWordStands`, `RejectedBacksOff` and `KeepsTrying` are
stated up to that point, so the run shows that these are the only bad moments: a click
while a socket is about to be made, while a timer runs, or while an unneeded read is
under way is harmless.

### TabSessions

`sessions` is the Map, `ownedGroups` its record in storage; `url`, `groupOf` and `title`
are Chrome's. A call is a program counter with the locals that survive an await. Reads
of Chrome and storage are made together with what the code decides on them; a call may be
overtaken before each request that changes something, which is where it suspends:

| Code | Actions |
|---|---|
| `reconcile` | `reconcile` (begins `navigate`, `list_tabs`, `close_session`), then `Adopt` for each group |
| `navigate`, `acquireTabForNavigation` | `navigate`, `Acquire`, `Replace`, `Create`, `Update`, `Retitle` |
| `groupTab`, `rememberOwnedGroup`, `setGroupTitle` | `Group`, `Entitle`, `Record` |
| `find_tab`, `activate_tab`, `close_tab` | `find_tab`, `Bind`, `activate_tab`, `close_tab` |
| `closeSession`, `closeGroup` | `CloseNext`, `Closed`, `ForgetSession`; `CloseGroupNext`, `GroupClosed`, `ForgetGroup` |
| `handleTabRemoved` | in `CloseTab`, with whatever closes the tab (`UserCloses` too) |
| a click, a script, a redirect or the user takes a tab elsewhere | `Wanders` |
| `withTabMutationLock` | `MayEnter` |
| suspension or loss of the worker | `WorkerRestarts` |

A host is the sequence of its labels, a domain matches its suffixes. What `owned[n]`
holds between a read and a save is the ghost of a lost update: `disturbed` becomes true
when the save overwrites what another call recorded meanwhile, when the worker dies
between the making of a group and its record, when `close_session` of a group by its
id forgets a group that a tab joined meanwhile, or when a request to the storage fails: a
failed read has nobody own a group, and what is made of it is saved over the record; a failed save
is ignored. After any of these the code may lose a group, and nothing is claimed.

*The limits.* The code looks at a limit when a tool takes a tab: `acquireTabForNavigation`
(`ext/sessions.js:148` and 153), `find_tab` and `activate_tab`. A click, an `evaluate`, a redirect
or the user can take any tab to a limited domain at any time and nobody looks, also between
`find_tab`'s query and its bind, which checks the address the tab had (`tools/tabs.js:81`). Tabs on
a domain can therefore exceed its limit, and `TabLimit` does not say otherwise: it is what the
tools promise. A tab that `Wanders` is `strayed` (a ghost) and is not counted until a tool
finds room where it is, for then the code did count it; the other tabs of the sessions on a domain are
within the limit, also while the code counts fewer or more tabs than these. The limits count only
tabs the bookkeeping knows, so this too holds up to a disturbance. An adoption that goes on after a disturbance may hold tabs of a session
without an active one until it ends, and `ActiveIsTracked` exempts just that.

### AnnotationStore

`cache`, `shots` and `loading` are the module variables; `saved` and `savedShots` the two
keys in storage. JavaScript resumes every call that waits for a promise before it takes
the next event: `NextEvent` holds back every other step while a call is `Resumed`.

| Code | Actions |
|---|---|
| `load` | `Start` (in `StartAdd`, `StartEdit`, `StartList`), `LoadAnswered`, for all that share the read |
| `add`, `addFromPage`, `setShot` | `add`, then `NoCapture`, or `setShot` and `SaveItems` |
| `persistItems`, `persistShots` | part of these; the retry without half of the screenshots is `RetryShots` |
| `patch`, `remove` | `patch`; `remove`, `SaveShots` |
| `listOp`, `waitForNew` | `ListNew`, `PollAgain`, `ReadCursor` |
| suspension or loss of the worker | `WorkerDies` |

A note is its number, status and claim of a screenshot, with the submission it came from
as a ghost. Storage refuses a save that exceeds `Quota`, which notes and screenshots
share. Ghosts say when the code makes no promise: `disturbed` (a read failed, the worker
died after a refused save, or a listing and a submission waited for the same read),
`misled` (the quota evicted screenshots, or the worker died between the two saves). The
properties exempt these moments, they do not catch them. See "Further divergences".

### AnnotationMode

`active`, `frames` and `restored` are the worker's, `modes` the saved set, `doc` the
document of each tab with what the annotator keeps in it, `mail` what a page has sent and
the worker has not taken. `call` is what the worker is doing; a step runs up to the next
request. Messages and injections take effect in the page when they are made, since they
arrive in order and nothing of the worker depends on the time between.

| Code | Actions |
|---|---|
| `restore` | `Begin` (of every call that asks for it), `Restore`; `Run` is what the call does next |
| `start`, `inject` | `toggleAnnotate` or `annotate`, then `Get`, `inject`, `SetModeOn`, `Sync` |
| `stop`, `stopAll` | `stop` in `Run`, `SetModeOff`, `StopNext` |
| `handleTabUpdated`, `handleTabRemoved` | the actions of these names |
| `handlePageMessage` | `handlePageMessage` (READY, STOP), `AnswerReady`, `submit`, `ViewerEdit` |
| `syncAll` | `AgentEdit`, `syncAll`, `SyncNext` |
| `annotator.js` | `onClick`, `openViewer`, `onEscape`, `Done`, `Navigate`, `locate`; `SetMode`, `destroy` |
| suspension or loss of the worker | `WorkerDies` |

The properties are about quiet moments (`Quiet`): no call, no message and no loading
document is under way. `torn` are tabs whose start, stop or announcement died with the
worker, until their next navigation or start; `stale` are tabs nobody tells of an edit;
`disturbed` records the overlaps after which the code leaves page and worker in
disagreement (a start and a stop of one tab, a stop and an announcement, a use or save of the
set before it has been read) and failing requests to the storage: a failed read finds no tab in
the mode, a failed save is ignored. The properties about quiet moments exempt what follows;
they do not catch it. `DraftKept` exempts nothing. See "Further divergences".

When the worker dies, what a page waits for fails: `send` resolves to null, a viewer that
waited for its edit closes the card that is open then (`WorkerDies`), and an announcement
leaves the page as it is.

## Runs

| Run | Instance | Shows |
|---|---|---|
| `hub_sessions` | two page calls naming one session as "" and "default", one long poll, one connection | session exclusion, no session left taken on any way out, and that the hub implements `SessionRpc` |
| `hub_connections` | two calls, two connections of one browser | replies never block, never go astray, are never lost in the daemon; attachment survives late clean-ups |
| `hub_live` | one call, two rival browsers of which one speaks another protocol, one daemon restart | no lost wakeup; a written call returns without its deadline unless a takeover happened |
| `hub_racing` | as `hub_connections` | finding: two jobs of one session run at once |
| `hub_restart` | as `hub_connections`, one restart | finding: the answer of another call is returned |
| `rate_limit` | four navigations to a host and a sub-domain, two rule sets, one swap, clocks up to one unit old | the cap while nothing is given back, the ledger, the waits |
| `ws_client` | two addresses, two link sockets and the test's, refusals and worker restarts at any time | one link, agreeing with the state; the user's last word stands; back-off; a lost link is dialled again |
| `ws_self_rejection` | one address, no restart | finding: the test of an address gets the link rejected |
| `tab_sessions` | two sessions, two tabs, two groups, a limit of one tab on a domain and on its sub-domain | the tools keep to the limits under every interleaving and wherever tabs go by themselves, every group is found again by its session, a session that is closed leaves none, and an active tab is one of the session's |
| `annotation_store` | two edits at a time, an agent that polls, three submissions, room for two notes and one screenshot, a quota for two of them | numbers are unique, no note is lost or passed by the cursor, claims of screenshots are true, storage follows memory |
| `annotation_mode` | two tabs, two calls at a time, one note, five things that the user, the agent or the browser does | worker, storage and pages agree when quiet, nothing is left behind, pins are fresh, drafts survive all but the end of an edit in a viewer of their page |
| `rate_limit_cap` | seven navigations, one rule, all at one time | finding: three slots in a window of a rule that allows two |

*Bounds.* Two calls and two connections are the least with which one can overtake
another, a successor exists, and a late result can meet a re-used name; the long poll
is the third call because it alone skips the semaphore. `MaxSeq` equals the number of
calls, so the id bound never disables a call except after a restart. One restart is
enough for ids to repeat. In `rate_limit`, three interchangeable calls exceed a rule
of two, the clock covers more than one window, and slots beyond the clock reach the
deadline so that refusals happen. Calls that are interchangeable are declared
symmetric, or (in `rate_limit_cap`) start in the order of their numbers; the properties
checked there are invariants.

In `ws_client`, two link sockets are a link and its predecessor, which is
what an orphan needs; two addresses are a change of address; two storage requests
under way (`MaxPending`) are a race, and the worker issues more only if alarms and
clicks crowd into the time of one. The run stops exploring once `disturbed` is true,
which is final and makes its properties hold.

In `tab_sessions`, two sessions are what a lost update or a broken limit needs, and two
tabs exceed a limit of one; the first six million states with three tabs showed no
violation either.
Ids are used again when nothing refers to them, so restarts, calls and closings are
unbounded. The run stops exploring when both tabs are `strayed` (`OneStrays`), for then `TabLimit`
counts none; one that is and one that is not are what a wrong count or a bind by an old
address needs. In `annotation_store`, three submissions are a note, one that pushes it out of
a cap of two, and one that could be given the number of either; two concurrent edits and
the agent are a load shared by three. Only submissions are bounded; deaths of the worker
are not. In `annotation_mode`, `MaxEvents` bounds what comes from outside, and everything
that follows is explored to its end: five events are, for instance, a start, a navigation, a death,
an edit and a stop, while one call overtakes another. There is one page that can be annotated and one note on it: a second page has no notes
and no part in any property. The runs stop exploring once `disturbed` is true; what
`ActiveIsTracked` and `DraftKept` say after that is only proved. Tabs,
groups, names and calls are interchangeable and declared symmetric: the properties of
those runs are invariants and step properties, none is a liveness property.

*Deadlock checking* is off in the runs of `Hub`, `RateLimit` and `AnnotationMode`: all
calls may have returned, every connection may have been used, all events may have
happened. The others never stop, and their runs check for deadlock.

*Fairness* (`ws_client`). Weak fairness of `Resume` (storage answers), of `TimerFires`,
and for each link of `Finishes`: a socket being closed closes, and the daemon notices a
connection that has ended. Nothing is assumed of the user, the alarm or the success of a
dial.

*Fairness* (`hub_live`). Goroutines that can step do (weak fairness of each
call's and each reader's steps); a semaphore goes to each sender blocked on it
eventually (strong fairness of `AcquireSession`), since Go queues blocked senders in
order; the service worker handles each message it has received and every handler
ends. Deadlines, losses of connection, pongs and restarts are not fair, so nothing
proved live depends on a timeout or on a failure.

## Findings

1. **A timed-out call does not keep its session** (`hub_racing`, `hub.go:353`). The
   comment of `Call` promises that two agents driving one tab never race. The
   deadline releases the session while the job goes on in the browser, which cannot
   be told to stop.
2. **Correlation ids repeat after a restart** (`hub_restart`, `hub.go:339`). A job of
   the previous daemon may answer a call of the new one.
3. **Returned slots break the rate limit** (`rate_limit_cap`, `ratelimit.go:103`). The
   limiter relies on its list being ordered, as its comment claims; after roll-backs
   it is not, and a window receives more navigations than the rule allows.

4. **Testing an address gets the link rejected** (`ws_self_rejection`,
   `ws-client.js:139`). The popup tests with a throwaway socket and asks for the link
   right after closing it. If the daemon has not read that close yet, it rejects the
   link as if another browser owned it, and the extension waits for the long delay.

### Further divergences

Met while modelling, and excluded from the properties by a ghost or an exception that
names the moment: the models have these steps, no property catches them. The runs show
that the properties hold otherwise.

* *Tabs.* `navigate` with `new_tab` on a session whose only tab is replaced lets the group
  go with the tab, joins the dead group and leaves the new tab ungrouped
  (`sessions.js:228`, against `README.md:174`). Two sessions that record groups at once
  lose a record (`sessions.js:42`), and so does a request to the storage that fails
  (`sessions.js:27-37`). A tab that goes to a limited domain by itself is never checked, nor is
  one that has moved since `find_tab` found it (`tools/tabs.js:81`).
* *Store.* The saved notes share the quota with the screenshots, and a refused save of
  notes is neither retried nor makes room: the comment is lost when the worker dies
  (`store.js:55`; line 66 says losing comments is not acceptable). A failed read starts
  empty, and the next save overwrites what was stored (`store.js:39`). An eviction by the
  quota leaves notes claiming a screenshot (`store.js:68`, against 177), and so does a death
  between the two saves. A cursor read after a listing that waited for the same first
  read as a submission skips that note (`annotate.js:209`).
* *Mode.* A tab closed right after a restart erases the saved set (`mode.js:107`), and
  who asks while the set is being read sees an empty one (`mode.js:27`). A start, a
  re-injection or an announcement that overlaps a stop of the same tab may leave the
  overlay up while the worker says the mode is off (`mode.js:117`, 79-82, 254), and an
  answer to an announcement revives an annotator that was destroyed
  (`annotator.js:1014-1020`, against 3-6). After a restart the worker does not know which
  page a tab shows, so edits are not shown until it announces itself (`mode.js:181`,
  against 177-178); an edit on a page reaches only its own tab (`mode.js:260`). A storage
  that fails once leaves the saved set behind the memory or the memory empty
  (`mode.js:30-35`, 47-51). The end of an edit in the viewer, its answer or its failure with a
  dying worker, closes a composer opened meanwhile (`annotator.js:773-774`, 782-787); a submission that fails loses its comment
  (`annotator.js:814-816`).

## Proofs

Every invariant and step property of the passing runs is also a theorem, for any
sets of calls, connections, sockets, tabs, groups, names, notes and navigations and any
bounds. Each rests on the assumption its module states about its constants, and on
nothing else; the two theorems that assume more say so in their statement. A theorem
follows from an inductive invariant, with one lemma per part of it, one step per action
and a temporal step at the end. TLC checked the invariants on the instances of the runs
before they were proved.

### Hub

`HubProofs`, from `HubAssumption`:

* `TypeCorrect`: the type invariant. It is inductive only together with two facts
  the types hide: a call beyond `Register` has a real id (`HasId`), and a reader about
  to deliver has a target (`DeliversResult`).
* `SessionsExclusive`, `SessionsReturned`: `SessionMutex` and `NoStrandedSession`. Mutual
  exclusion is not inductive; it follows from the equivalence "a semaphore is full exactly
  while a page call of its key is inside", and from the fact that the daemon's key and the
  extension's tab are the same for every spelling of the session.
* `RepliesSafe`, `TableSound`, `RepliesKept`: `RepliesNeverBlock`, `PendingHasCaller` and
  `ReplyOnItsWay`. An id is registered to one call that still waits with it, so when a
  reader has taken it out of the table, neither the clean-up nor another reader can find
  it, and the channel is empty when the send happens.
* `AttachmentSafe`: `AttachedHasReader`. A connection is only closed by a takeover,
  which detaches it in the same critical section, or by its own reader.

`HubRpcProofs`, from the same assumption:

* `OrphansOnlyByTakeover`, `DetachmentSafe`: `OrphansInv` says of each registered call that
  its connection is attached or was superseded.
* `AnswersOwnInOneLife`: until the first restart an answer is the call's own. `OwnInv` says
  that ids are distinct, and that every message, job, delivery, channel and answer that
  names an id is about the call that has it. `AnswersOwn` is the same for `MaxRestarts = 0`;
  with a restart the property is false, which run `hub_restart` shows.
* `RpcUnlessForeign`: a behaviour in which no call returns another one's answer implements
  `SessionRpc`. Under the refinement mapping of `Hub` a call's entry, its semaphore and its
  return are `Submit`, `Begin` and the ends of the abstract call, `RestartDaemon` is its
  `Crash`, and everything else is a stutter; that `Begin` is exclusive is `SessionMutex`.
  `HubImplementsRpc` concludes for `MaxRestarts = 0`.

### Rate limiter

`RateLimitProofs`, from `RateLimitAssumption` (navigations are finitely many, and so are
the domains above a host):

* `TypeCorrect`, `NobodyIsEarly`: `CallInv` follows a call through `Reserve`: its clock is
  not ahead of the time, nor behind it by more than `MaxLag` while it waits for the lock, and its
  timer is no earlier than its slot.
* `StatusIsRight`: what `Status` computes is the slot of `Reserve` less the time, for each list.
* `LedgerIsExact`: counting entries of one time. The prune maps the entries that can still
  constrain one to one to those left, a grant adds one entry and one holder, `removeGrant`
  takes one of each; the entry it looks for is there because the counts were equal.
* `RulesCap`: the cap is not inductive, for the list forgets. `SpanInv` compares the slots
  of a span with the `Heads`, the `Max` last entries of the list, from its start on:
  until the span is `Over` (no caller has a clock in it) the slots are no more than the heads, which
  are `Max` at most. A slot within the span goes by an entry at least a window earlier,
  which is before the span, so it pushes no counted head out. A prune that takes a
  counted head happens a window after the start, and then, as no clock is older than `MaxLag`,
  the span is over: this is why the cap holds of the window less `MaxLag`. New rules start a
  new count. A slot given back breaks the order of the list, and the cap with it: run
  `rate_limit_cap`.

The loop of the prune is a recursive function on the list; what it leaves (`Left`) is shown by
the least entry at which it would leave anything else, and so is the greatest element of a finite set.

### Link

`WsClientProofs`, from `WsClientAssumption`:

* `TypeCorrect`, `LinkIsOne`, `LastWordKept`, `RejectionBacksOff`: `LinkWishInv`, up to a
  disturbance. The back-off is about the timer: the end of a rejected link leaves it at the long
  delay or unset; the keepalive alarm may dial earlier. The key is the order of the queue of storage answers (`Ordered`): behind a
  dial only a request to drop the link can wait, and behind that only restores that came for
  nothing. Then either the link is being dropped and the last click decides what follows
  (`EndingInv`), or none is wanted and there is none (`IdleInv`), or one is wanted and
  storage and worker agree on it (`WantedInv`).

### Tab sessions

`TabSessionsProofs`, from `TabSessionsAssumption` (tabs are finitely many; limits and the
domains they are about are not empty):

* `TypeCorrect`: with what a call has when it goes on (`Ready`), and that only a call about to
  save holds a read of the ownership.
* `ActiveTabTracked`: `ActiveInv`. While a session is being closed, or an adoption that a
  disturbance cut short goes on, it is enough that an active tab that is still open is
  one of the session's.
* `GroupsAreFound`, `ClosedSessionIsGone`: `GroupInv`, up to a disturbance: a group is owned
  in the storage by its maker or its maker is about to say so (`OwnedBy`), nobody has two, and
  what a call knows of its session's groups is still so (`Knows`).
* `TabsWithinLimit`: `LimitInv` says of the tabs that count (managed and not `strayed`) that they
  are within each limit and that the room a navigate has seen is still there when it uses it,
  with `LockInv` (one navigate at a time where there are limits) and `AddressInv` (what `find_tab`
  binds was counted, stays where it was, or strayed). A tab stops being strayed when it
  closes, when a tool finds room with the tab counted or about to be, and when a navigate sends
  it to the address it found room for.

### Annotation store

From `StoreAssumption` and `NoneAssumption` (an unloaded cache is none of the
values a loaded one can have), `AnnotationStoreProofs`:

* `NoNumberTwice`, `NoNoteLost` and `CursorPassesNothing`: `NumbersUnique`, `NothingLost`
  and `NoneSkipped`. None is inductive, because the store may be in three places. The
  invariant `IInv` says that up to a disturbance the one that counts is `Sound`, that is, owes
  nothing to the submissions and to the reader: the cache, or without one what is saved,
  which a read under way returns, too. While no save was refused, what is saved is the
  cache but for screenshots. Reading, adding, editing and
  deleting each preserve `Sound` (one lemma each); changing which screenshots are claimed
  gives the `Same` store, which is as sound. `CursorFits` says that between a listing and its
  cursor nothing is awaited, so the number read is that of the listing.

and `AnnotationCapsProofs`:

* `TypeCorrect`: the caps, in each of the places a store can be in (`StoresWithin`). That the
  newest `n` of a set are `n` at most needs that numbers differ (`Distinct`).
* `SavesComplete`, `NoFalseClaim`: up to a disturbance a copy differs from the memory only
  while a call is about to save it or after a refusal (`CopiesFit`), and the notes that count
  claim only screenshots there are (`ClaimsFit`).

### Annotation mode

`AnnotationModeProofs`, from `ModeAssumption`:

* `TypeCorrect`, with where each call may wait (`OpAt`).
* `ModesAreKept`: `KeptInv`. `restore` is waited for once (`OneRestores`), and until it is over the
  other calls do nothing that looks at the tabs in the mode (`Bystander`).
* `ModeAgreed`, `NothingLeft`: `OverlayInv`. An overlay that is not as the mode wants it has
  somebody on the way to it: a document still loading or a call to switch it on
  (`Coming`), a click that leaves the mode (`Leaving`), a call to take it down (`Dropping`).
  What a call is about to do is still wanted (`Timely`).
* `PinsAreFresh`: `PinsInv`, in the same manner: pins that differ from the notes have
  somebody who is about to tell the page (`Telling`), and the worker knows the page of a tab
  or will hear of it (`Located`), because a mailbox keeps its order (`InOrder`).
* `DraftsAreKept`: a property of steps, from the types alone; each step of the worker that
  redraws a page leaves its composer, but for `Sync` and `WorkerDies` where a viewer of that page
  waits (`Awaited`).

### Model-checked only

Liveness, which is out of the prover's reach: `ParkedCallsWake` and `WrittenCallsReturn`
(`hub_live`), `KeepsTrying` (`ws_client`). `AnswerIsOwn` and the refinement hold for a daemon
that is not restarted; across restarts there is only the counterexample.

## Plan

Done: the modules above, and theorems of all their safety properties. Next:

1. `Daemon`, composing `RateLimit` with the promise of the hub: navigations that really
   reach the site, with slots reserved before queueing and given back after a deadline.
2. `Cdp` (attach and enable against detach: a detach during `Page.enable` leaves
   a domain recorded as enabled, `cdp.js:73-86`), `Lifecycle` (pidfile), `ConfigReload`
   (modification time against contents), `WsFrame` (reassembly of fragments against a
   reference).

## Not modelled

* Sequential input and output with no protocol of their own: the updater's download,
  result files, JSON and argument handling, the popup's display, page scripting by the
  tools (`snapshot`, `interact`, `capture`, ...), and in `annotator.js` how an element is
  described, found again and drawn.
* In the annotation modules: several frames of one tab (each frame announces itself and is
  told like a tab), a change of a page's address within its document (`pushState`; the notes
  go by an address that the page does not announce anew), a failing request to Chrome in the
  middle of `start` other than the page being closed to extensions, and comments, contexts and screenshots as data.
* In `TabSessions`: tabs that the user opens, and tabs and groups that the user drags together.
* The components the plan lists.
