--------------------------- MODULE AnnotationMode ---------------------------
(***************************************************************************)
(* Annotation mode (annotations/mode.js, the annotate tool, the listeners  *)
(* of background.js) and the annotator in the page (annotator.js).  The    *)
(* worker knows which tabs are in the mode and which page each shows; the  *)
(* set of tabs is mirrored in chrome.storage.  The overlay in a page       *)
(* swallows clicks, shows the notes of the page as pins, and goes with its *)
(* document.                                                               *)
(*                                                                         *)
(* A step of the worker runs up to its next request.  A message to a page, *)
(* an injection and an answer to a page take effect when they are made:    *)
(* they reach a page in order, and only a step of the page itself could    *)
(* come between.  A message of a page waits in mail.                       *)
(*                                                                         *)
(* One frame stands for a tab, what AnnotationStore says of the notes for  *)
(* the store, and for each note what the pin shows of it.  Tabs are opened *)
(* before the worker starts.                                               *)
(***************************************************************************)
EXTENDS Naturals, Sequences, FiniteSets

CONSTANTS
    Tabs,
    Calls,         \* what the worker does at once
    Pages,         \* pages that can be annotated; the user has notes on Home
    Home,
    Internal,      \* a page that extensions may not run in
    Notes,
    Statuses,      \* of a note: none, open, resolved
    MaxEvents,     \* bound: what the user, the agent and the browser do
    None

NoPins == [n \in Notes |-> "none"]

\* What a document has of the annotator.
Docs == [page : Pages \union {Internal}, loaded : BOOLEAN, located : BOOLEAN,
         mode : BOOLEAN, pins : [Notes -> Statuses],
         card : {"none", "composer", "viewer"}]

ASSUME ModeAssumption ==
    /\ {"none", "open"} \subseteq Statuses
    /\ Home \in Pages /\ Internal \notin Pages
    /\ None \notin Pages \union Tabs \union Docs

VARIABLES
    active,    \* the tabs in annotation mode
    frames,    \* the page each tab has announced, None: none
    restored,  \* has restore been called since the worker started?
    modes,     \* in chrome.storage: the tabs in annotation mode
    notes,     \* the notes on Home
    doc,       \* the document of each tab, None: the tab is closed
    pending,   \* the tabs whose document is not complete yet
    mail,      \* what the page of each tab has sent to the worker
    call,      \* what the worker is doing
    wanted,    \* ghost: the tabs that were put in the mode and not taken out
    torn,      \* ghost: tabs whose start, stop or announcement died with the worker
    stale,     \* ghost: tabs nobody tells of the last change of the notes
    events,    \* how many of the MaxEvents have happened
    disturbed  \* ghost: a start and a stop of one tab overlapped, a stop came between
               \* an announcement and its answer, the set of tabs was used or saved
               \* before it had been read, or a request to the storage failed

worker == <<active, frames, restored>>
chrome == <<doc, pending, mail>>
ghosts == <<wanted, torn, stale, disturbed>>
vars == <<worker, modes, notes, chrome, call, ghosts, events>>

Blank(page) == [page |-> page, loaded |-> FALSE, located |-> FALSE,
                mode |-> FALSE, pins |-> NoPins, card |-> "none"]
Idle == [op |-> "none", tab |-> None, pc |-> "idle", page |-> None, fresh |-> FALSE,
         on |-> FALSE, todo |-> {}]

Open(t) == doc[t] # None
Loaded(t) == Open(t) /\ doc[t].loaded
Annotatable(t) == IF Open(t) THEN doc[t].page # Internal ELSE FALSE
NotesOn(page) == IF page = Home THEN notes ELSE NoPins

TypeOK ==
    /\ active \in SUBSET Tabs /\ modes \in SUBSET Tabs
    /\ frames \in [Tabs -> Pages \union {None}]
    /\ restored \in BOOLEAN
    /\ notes \in [Notes -> Statuses]
    /\ \A t \in Tabs : Open(t) =>
         /\ doc[t] \in Docs
         /\ ~doc[t].mode => doc[t].card = "none"
    /\ pending \in SUBSET Tabs
    /\ \A c \in Calls : call[c].pc = "idle" <=> call[c] = Idle
    /\ wanted \in SUBSET Tabs /\ torn \in SUBSET Tabs /\ stale \in SUBSET Tabs

\* No tab is in the mode yet; the user has left notes before.
Init ==
    /\ active = {} /\ frames = [t \in Tabs |-> None]
    /\ restored = FALSE
    /\ modes = {} /\ notes = [n \in Notes |-> "open"]
    /\ doc = [t \in Tabs |-> Blank(Home)]
    /\ pending = {}
    /\ mail = [t \in Tabs |-> <<>>]
    /\ call = [c \in Calls |-> Idle]
    /\ wanted = {} /\ torn = {} /\ stale = {} /\ disturbed = FALSE
    /\ events = 0

----------------------------------------------------------------------------
(* The page (annotator.js)                                                 *)

\* Slip: the card stays.
SetModeKeepingCard(d, on) == [d EXCEPT !.mode = on]

\* Slip: what is on is built anew.
SetModeAnew(d, on) == [d EXCEPT !.mode = on, !.card = "none"]

SetMode(d, on) ==
    IF on THEN [d EXCEPT !.mode = TRUE]
    ELSE [d EXCEPT !.mode = FALSE, !.card = "none"]

closeCard(d) == [d EXCEPT !.card = "none"]
openComposer(d) == [d EXCEPT !.card = "composer"]

\* Slip: SET_MODE off takes the overlay down and leaves the listener.
DestroyOverlay(d) == SetMode(d, FALSE)

destroy(d) == [SetMode(d, FALSE) EXCEPT !.loaded = FALSE, !.located = FALSE]

Page(t, d) == doc' = [doc EXCEPT ![t] = d]
Send(t, type) == mail' = [mail EXCEPT ![t] = Append(@, [type |-> type, page |-> doc[t].page,
                                                        fresh |-> TRUE])]
\* The overlay is up; the page cannot drop it for good.
Annotating(t) == Open(t) /\ doc[t].mode
OnlyPage == UNCHANGED <<worker, pending, modes, notes, call, wanted, torn, stale, disturbed>>

\* A click on the page: an open composer closes, or one opens for the element.  A
\* viewer that took the place of a composer closes, another is replaced.
onClick(t) ==
    /\ Annotating(t)
    /\ \/ doc[t].card # "none" /\ Page(t, closeCard(doc[t]))
       \/ doc[t].card # "composer" /\ Page(t, openComposer(doc[t]))
    /\ OnlyPage /\ UNCHANGED mail

\* A click on a pin.
openViewer(t) ==
    /\ Annotating(t) /\ doc[t].pins # NoPins
    /\ Page(t, [doc[t] EXCEPT !.card = "viewer"])
    /\ OnlyPage /\ UNCHANGED mail

\* Escape closes a card (as Cancel and Close do), or ends the mode as Done does.
onEscape(t) ==
    /\ Annotating(t) /\ doc[t].card # "none"
    /\ Page(t, closeCard(doc[t]))
    /\ OnlyPage /\ UNCHANGED mail

Done(t) ==
    /\ Annotating(t)
    /\ Page(t, SetMode(doc[t], FALSE))
    /\ Send(t, "STOP")
    /\ OnlyPage

\* A navigation or a reload: another document, without annotator.  No tab is
\* navigated while its document is not complete.
Outdated(m) == [m EXCEPT !.fresh = FALSE]
Navigate(t) ==
    /\ Open(t) /\ t \notin pending
    /\ pending' = pending \union {t}
    /\ \E page \in Pages \union {Internal} : Page(t, Blank(page))
    /\ mail' = [mail EXCEPT ![t] = [i \in DOMAIN @ |-> Outdated(@[i])]]
    /\ call' = [c \in Calls |-> IF call[c].tab = t THEN Outdated(call[c]) ELSE call[c]]
    /\ torn' = torn \ {t}
    /\ UNCHANGED <<worker, modes, notes, wanted, stale, disturbed>>

----------------------------------------------------------------------------
(* The worker's calls                                                      *)

At(c, pc) == call[c].pc = pc
Go(c, k) == call' = [call EXCEPT ![c] = k]
Ends(c) == Go(c, Idle)
InFlight(c) == call[c].pc \notin {"idle", "restore"}

\* A stop while the same tab is being put in the mode, or the reverse.
Overlaps(c, op, t) ==
    \E d \in Calls \ {c} :
        /\ InFlight(d) /\ call[d].tab = t
        /\ \/ op = "stop" /\ call[d].op \in {"start", "updated", "ready"}
           \/ op \in {"start", "updated", "ready"} /\ call[d].op = "stop"

\* A save that fails is ignored.
persistModes(set, wrong) ==
    /\ modes' \in {set, modes}
    /\ disturbed' = (disturbed \/ wrong \/ modes' # set)

\* sync: what the page that the tab announced should show.
Synced(d, t) ==
    IF d[t] # None /\ d[t].loaded /\ frames[t] # None
      THEN [d EXCEPT ![t].pins = NotesOn(frames[t])]
      ELSE d

\* The answer to READY.
Answer(c, k, on) ==
    /\ Ends(c)
    /\ IF k.fresh
         THEN /\ Page(k.tab, SetMode([doc[k.tab] EXCEPT
                                        !.pins = IF on THEN NotesOn(k.page) ELSE NoPins], on))
              /\ stale' = IF on THEN stale \ {k.tab} ELSE stale
         ELSE UNCHANGED <<doc, stale>>

\* stop: the tab leaves the mode, then its page is told.
stop(c, k, set, wrong) ==
    /\ active' = set \ {k.tab}
    /\ frames' = [frames EXCEPT ![k.tab] = None]
    /\ persistModes(set \ {k.tab}, wrong)
    /\ wanted' = wanted \ {k.tab}
    /\ Go(c, [k EXCEPT !.op = "stop", !.pc = "off"])
    /\ UNCHANGED <<notes, doc, torn, stale>>

\* What a call does after restore, when set is active and fs is frames.
Run(c, k, set, fs) ==
    LET t == k.tab
        on == t \in set
        op == IF k.op # "toggle" THEN k.op ELSE IF on THEN "stop" ELSE "start"
        wrong == Overlaps(c, op, t) \/ \E d \in Calls \ {c} : At(d, "restore")
        ask(pc, todo) ==
            /\ Go(c, [k EXCEPT !.op = op, !.pc = pc, !.todo = todo])
            /\ UNCHANGED <<doc, stale>>
        all(pc) == IF set = {} THEN Ends(c) /\ UNCHANGED <<doc, stale>> ELSE ask(pc, set) IN
      \/ op = "stop" /\ stop(c, k, set, wrong)
      \/ /\ op # "stop"
         /\ active' = set
         /\ frames' = IF op = "updated" /\ on THEN [fs EXCEPT ![t] = None] ELSE fs
         /\ disturbed' = (disturbed \/ wrong)
         /\ UNCHANGED <<modes, notes, wanted, torn>>
         /\ \/ op = "start" /\ ask("get", {})
            \/ op = "updated" /\ on /\ ask("inject", {})
            \/ op = "updated" /\ ~on /\ Ends(c) /\ UNCHANGED <<doc, stale>>
            \/ op = "ready" /\ on /\ ask("answer", {})
            \/ op = "ready" /\ ~on /\ Answer(c, k, on)
            \/ op = "status" /\ Ends(c) /\ UNCHANGED <<doc, stale>>
            \/ op = "stop all" /\ all("stop next")
            \/ op = "sync all" /\ all("sync next")

\* A call comes to restore, which only the first one waits for.  A read that fails
\* finds no tab.
Begin(c, k, fs) ==
    \/ restored /\ Run(c, k, active, fs) /\ UNCHANGED restored
    \/ /\ ~restored
       /\ restored' = TRUE
       /\ frames' = fs
       /\ \E read \in {modes, {}} :
            /\ Go(c, [k EXCEPT !.pc = "restore", !.todo = read])
            /\ disturbed' = (disturbed \/ read # modes)
       /\ UNCHANGED <<active, modes, notes, doc, wanted, torn, stale>>

NewCall(op, t) == [Idle EXCEPT !.op = op, !.tab = t]

\* Slip: what is in the storage is left there.
RestoredNothing(c) == active

\* The tabs that the storage has, if they are still open.
Restored(c) == active \union {t \in call[c].todo : Open(t)}

Restore(c) ==
    /\ At(c, "restore")
    /\ Run(c, [call[c] EXCEPT !.todo = {}], Restored(c), frames)
    /\ UNCHANGED <<restored, pending, mail>>

----------------------------------------------------------------------------
(* What starts a call                                                      *)

\* The shortcut and the button of the popup.
toggleAnnotate(c) ==
    /\ At(c, "idle")
    /\ \E t \in Tabs : Open(t) /\ Begin(c, NewCall("toggle", t), frames)
    /\ UNCHANGED <<pending, mail>>

\* The agent's annotate; its toggle is the one above.
annotate(c) ==
    /\ At(c, "idle")
    /\ \/ \E op \in {"start", "stop"}, t \in Tabs : Open(t) /\ Begin(c, NewCall(op, t), frames)
       \/ \E op \in {"stop all", "status"} : Begin(c, NewCall(op, None), frames)
    /\ UNCHANGED <<pending, mail>>

\* Slip: a worker that has just started takes no tab to be in the mode.
handleTabUpdatedUnrestored(c) ==
    /\ At(c, "idle")
    /\ \E t \in pending :
         /\ pending' = pending \ {t}
         /\ IF t \in active THEN Begin(c, NewCall("updated", t), frames)
            ELSE UNCHANGED <<worker, modes, notes, doc, call, ghosts>>
    /\ UNCHANGED mail

\* The document of a tab is complete.
handleTabUpdated(c) ==
    /\ At(c, "idle")
    /\ \E t \in pending :
         /\ pending' = pending \ {t}
         /\ Begin(c, NewCall("updated", t), frames)
    /\ UNCHANGED mail

\* Slip: the page is not noted.
handlePageMessageForgetting(c) ==
    /\ At(c, "idle")
    /\ \E t \in Tabs :
         /\ mail[t] # <<>>
         /\ mail' = [mail EXCEPT ![t] = Tail(@)]
         /\ LET msg == Head(mail[t]) IN
              \/ /\ msg.type = "READY"
                 /\ Begin(c, [NewCall("ready", t) EXCEPT !.page = msg.page, !.fresh = msg.fresh], frames)
              \/ msg.type = "STOP" /\ Begin(c, NewCall("stop", t), frames)
    /\ UNCHANGED pending

\* A page announces itself, or the user ended the mode there.
handlePageMessage(c) ==
    /\ At(c, "idle")
    /\ \E t \in Tabs :
         /\ mail[t] # <<>>
         /\ mail' = [mail EXCEPT ![t] = Tail(@)]
         /\ LET msg == Head(mail[t]) IN
              \/ /\ msg.type = "READY"
                 /\ Begin(c, [NewCall("ready", t) EXCEPT !.page = msg.page, !.fresh = msg.fresh],
                          [frames EXCEPT ![t] = msg.page])
              \/ msg.type = "STOP" /\ Begin(c, NewCall("stop", t), frames)
    /\ UNCHANGED pending

\* The worker has an edit of a page stored, and goes on to tell that tab.
Edited(c, t, viewer) ==
    /\ Go(c, [NewCall("edit", t) EXCEPT !.pc = "sync", !.fresh = TRUE, !.on = viewer])
    /\ stale' = IF notes' = notes THEN stale ELSE stale \union (Tabs \ {t})
    /\ UNCHANGED <<active, frames, restored, modes, pending, mail, wanted, torn, disturbed>>

\* The user saves the note in the composer, which closes first.
submit(c, t) ==
    /\ At(c, "idle")
    /\ Annotating(t) /\ doc[t].card = "composer"
    /\ Page(t, closeCard(doc[t]))
    /\ \E n \in Notes :
         notes' = IF doc[t].page = Home /\ notes[n] = "none" THEN [notes EXCEPT ![n] = "open"] ELSE notes
    /\ Edited(c, t, FALSE)

\* The user resolves, reopens or deletes the note in the viewer, which closes when
\* the worker has answered.
ViewerEdit(c, t) ==
    /\ At(c, "idle")
    /\ Annotating(t) /\ doc[t].card = "viewer"
    /\ \E n \in Notes, s \in Statuses :
         /\ doc[t].pins[n] \notin {"none", s}
         /\ notes' = IF notes[n] # "none" THEN [notes EXCEPT ![n] = s] ELSE notes
    /\ Edited(c, t, TRUE)
    /\ UNCHANGED doc

\* The agent resolves, reopens or clears; then every tab in the mode is told.
AgentEdit(c) ==
    /\ At(c, "idle")
    /\ \E n \in Notes, s \in Statuses :
         notes[n] \notin {"none", s} /\ notes' = [notes EXCEPT ![n] = s]
    /\ Go(c, [NewCall("sync all", None) EXCEPT !.pc = "saved"])
    /\ UNCHANGED <<active, frames, restored, modes, chrome, ghosts>>

syncAll(c) ==
    /\ At(c, "saved")
    /\ Begin(c, call[c], frames)
    /\ UNCHANGED <<pending, mail>>

----------------------------------------------------------------------------
(* How calls go on                                                         *)

\* start: the tab may be gone or show a page that cannot be annotated.
Get(c) ==
    /\ At(c, "get")
    /\ LET t == call[c].tab IN
         IF Annotatable(t)
           THEN /\ active' = active \union {t}
                /\ persistModes(active \union {t}, FALSE)
                /\ wanted' = wanted \union {t}
                /\ Go(c, [call[c] EXCEPT !.pc = "inject"])
           ELSE Ends(c) /\ UNCHANGED <<active, modes, wanted, disturbed>>
    /\ UNCHANGED <<frames, restored, notes, chrome, torn, stale>>

\* The annotator is loaded, or re-armed if it is there; it announces itself.
inject(c) ==
    /\ At(c, "inject")
    /\ LET t == call[c].tab
           d == doc[t]
           located == call[c].op = "locate" IN
         \/ /\ Annotatable(t)
            /\ Page(t, [d EXCEPT !.loaded = TRUE,
                                 !.located = @ \/ (located /\ ~d.loaded)])
            /\ Send(t, "READY")
            /\ IF located THEN Ends(c) ELSE Go(c, [call[c] EXCEPT !.pc = "on"])
         \/ /\ ~Annotatable(t)
            /\ Ends(c)
            /\ UNCHANGED <<doc, mail>>
    /\ UNCHANGED <<worker, modes, notes, pending, ghosts>>

\* locate injects, whether or not the tab is in the mode.
locate(c) ==
    /\ At(c, "idle")
    /\ \E t \in Tabs : Open(t) /\ Go(c, [NewCall("locate", t) EXCEPT !.pc = "inject"])
    /\ UNCHANGED <<worker, modes, notes, chrome, ghosts>>

\* SET_MODE on; nobody may be there to hear it.
SetModeOn(c) ==
    /\ At(c, "on")
    /\ LET t == call[c].tab IN
         /\ doc' = IF Loaded(t) THEN [doc EXCEPT ![t] = SetMode(@, TRUE)] ELSE doc
         /\ torn' = torn \ {t}
    /\ Go(c, [call[c] EXCEPT !.pc = "sync"])
    /\ UNCHANGED <<worker, modes, notes, pending, mail, wanted, stale, disturbed>>

\* SET_MODE off.  An annotator that has announced itself comes back, without its
\* listener, if the answer says so.
SetModeOff(c) ==
    /\ At(c, "off")
    /\ LET t == call[c].tab IN
         /\ doc' = IF Loaded(t) THEN [doc EXCEPT ![t] = destroy(@)] ELSE doc
         /\ torn' = torn \ {t}
         /\ disturbed' = (disturbed \/ \E i \in DOMAIN mail[t] : mail[t][i].fresh /\ mail[t][i].type = "READY")
    /\ IF call[c].todo = {} THEN Ends(c) ELSE Go(c, [call[c] EXCEPT !.pc = "stop next"])
    /\ UNCHANGED <<worker, modes, notes, pending, mail, wanted, stale>>

\* stopAll
StopNext(c) ==
    /\ At(c, "stop next")
    /\ \E t \in call[c].todo :
         /\ stop(c, [call[c] EXCEPT !.tab = t, !.todo = @ \ {t}], active, Overlaps(c, "stop", t))
    /\ UNCHANGED <<restored, pending, mail>>

\* A viewer of this page waits for the call, and closes whatever card is open then.
Awaited(c, t) == call[c].on /\ call[c].fresh /\ call[c].tab = t

\* The end of start, handleTabUpdated and a page's edit.
Sync(c) ==
    /\ At(c, "sync")
    /\ LET t == call[c].tab
           d == Synced(doc, t) IN
         /\ doc' = IF Awaited(c, t) /\ Open(t) THEN [d EXCEPT ![t] = closeCard(@)] ELSE d
         /\ stale' = IF frames[t] # None THEN stale \ {t} ELSE stale
    /\ Ends(c)
    /\ UNCHANGED <<active, frames, restored, modes, notes, pending, mail, wanted, torn, disturbed>>

SyncNext(c) ==
    /\ At(c, "sync next")
    /\ \E t \in call[c].todo :
         /\ doc' = Synced(doc, t)
         /\ stale' = IF frames[t] # None THEN stale \ {t} ELSE stale
         /\ IF call[c].todo = {t} THEN Ends(c) ELSE Go(c, [call[c] EXCEPT !.todo = @ \ {t}])
    /\ UNCHANGED <<worker, modes, notes, pending, mail, wanted, torn, disturbed>>

\* A page gets the answer decided before, with the notes of now; the store may have
\* been loaded in between.
AnswerReady(c) ==
    /\ At(c, "answer")
    /\ Answer(c, call[c], TRUE)
    /\ UNCHANGED <<active, frames, restored, modes, notes, pending, mail, wanted, torn, disturbed>>

----------------------------------------------------------------------------
(* What happens to the worker                                              *)

\* A tab is closed.
handleTabRemoved(t) ==
    /\ Open(t)
    /\ doc' = [doc EXCEPT ![t] = None]
    /\ mail' = [mail EXCEPT ![t] = <<>>]
    /\ pending' = pending \ {t}
    /\ call' = [c \in Calls |-> IF call[c].tab = t THEN Outdated(call[c]) ELSE call[c]]
    /\ active' = active \ {t}
    /\ frames' = [frames EXCEPT ![t] = None]
    /\ persistModes(active \ {t}, /\ modes \ {t} # active \ {t}
                                  /\ ~restored \/ \E c \in Calls : At(c, "restore"))
    /\ wanted' = wanted \ {t} /\ torn' = torn \ {t} /\ stale' = stale \ {t}
    /\ UNCHANGED <<restored, notes>>

\* The browser suspends or loses the worker.  What a page waits for fails: a viewer
\* closes the card as if it had been answered, an announcement goes unanswered.
WorkerDies ==
    /\ active' = {} /\ frames' = [t \in Tabs |-> None]
    /\ restored' = FALSE
    /\ call' = [c \in Calls |-> Idle]
    /\ torn' = torn \union {t \in Tabs : \E c \in Calls :
                              /\ call[c].op \in {"toggle", "start", "stop", "stop all", "updated", "ready"}
                              /\ t = call[c].tab \/ t \in call[c].todo}
    /\ stale' = Tabs
    /\ doc' = [t \in Tabs |-> IF Open(t) /\ \E c \in Calls : Awaited(c, t)
                               THEN closeCard(doc[t]) ELSE doc[t]]
    /\ UNCHANGED <<modes, notes, pending, mail, wanted, disturbed>>

Events(c) == toggleAnnotate(c) \/ annotate(c) \/ AgentEdit(c) \/ locate(c)

PageEvents(t) ==
    \/ onClick(t) \/ openViewer(t) \/ Done(t) \/ Navigate(t) \/ handleTabRemoved(t)
    \/ \E c \in Calls : submit(c, t) \/ ViewerEdit(c, t)

Proceeds(c) ==
    \/ handleTabUpdated(c) \/ handlePageMessage(c)
    \/ Restore(c) \/ syncAll(c)
    \/ Get(c) \/ inject(c) \/ SetModeOn(c) \/ SetModeOff(c) \/ StopNext(c)
    \/ Sync(c) \/ SyncNext(c) \/ AnswerReady(c)

Next ==
    \/ /\ events < MaxEvents /\ events' = events + 1
       /\ (\E c \in Calls : Events(c)) \/ (\E t \in Tabs : PageEvents(t)) \/ WorkerDies
    \/ /\ UNCHANGED events
       /\ (\E c \in Calls : Proceeds(c)) \/ (\E t \in Tabs : onEscape(t))

Spec == Init /\ [][Next]_vars

----------------------------------------------------------------------------
(* Properties                                                              *)

Quiet == (\A c \in Calls : At(c, "idle")) /\ pending = {} /\ \A t \in Tabs : mail[t] = <<>>
InMode == IF restored THEN active ELSE modes
Shown == {t \in Tabs : Open(t) /\ doc[t].page # Internal}

\* When nothing is under way, the tabs in the mode are those that were put in it
\* and not taken out, however often the worker died and whatever was navigated, and
\* a worker that dies now will know.
ModesKept ==
    disturbed \/ ~Quiet \/ (InMode = wanted /\ modes = wanted)

\* Then the overlay is up in just these tabs, on every page that can have it.
ModeAgrees ==
    disturbed \/ ~Quiet \/ \A t \in Shown \ torn : doc[t].mode <=> t \in InMode

\* "Stopping the mode tears the overlay down so the page is left exactly as it was
\* found": nothing is left in the other pages, but by locate.
NothingLeftBehind ==
    disturbed \/ ~Quiet
        \/ \A t \in Shown \ (torn \union InMode) : doc[t].loaded => doc[t].located

\* The pins show the notes of the page: an edit of the agent lands in every tab of
\* the mode, an edit on a page in that tab, and a page that announces itself gets
\* what there is.
PinsFresh ==
    disturbed \/ ~Quiet
        \/ \A t \in Shown \ (torn \union stale) : doc[t].mode => doc[t].pins = NotesOn(doc[t].page)

\* The comment a user is typing is lost to nothing the worker does or suffers, as long
\* as the mode stays on, but when an edit made in a viewer of that page is over,
\* answered or not: the viewer then closes whatever card is open.
DraftKept ==
    [][ \A t \in Tabs :
          (Annotating(t) /\ doc[t].card = "composer") /\ (Annotating(t) /\ doc[t].card # "composer")'
          => \/ onClick(t) \/ onEscape(t) \/ openViewer(t)
             \/ \E c \in Calls : submit(c, t) \/ (Awaited(c, t) /\ call'[c] = Idle) ]_vars
=============================================================================
