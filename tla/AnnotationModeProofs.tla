------------------------ MODULE AnnotationModeProofs ------------------------
(***************************************************************************)
(* Theorems about annotation mode, for every set of tabs, pages and notes  *)
(* and every number of calls at once.                                      *)
(***************************************************************************)
EXTENDS AnnotationMode, TLAPS

----------------------------------------------------------------------------
(* The types, with what a call has at each place                           *)

Ops == {"none", "toggle", "start", "stop", "stop all", "status", "updated", "ready", "edit",
        "sync all", "locate"}
Pcs == {"idle", "restore", "saved", "get", "inject", "on", "off", "stop next", "sync",
        "sync next", "answer"}
CallStates == [op : Ops, tab : Tabs \union {None}, pc : Pcs, page : Pages \union {None, Internal},
               fresh : BOOLEAN, on : BOOLEAN, todo : SUBSET Tabs]
Messages == [type : {"READY", "STOP"}, page : Pages \union {Internal}, fresh : BOOLEAN]

\* What restore is waited for with.
RunOps == {"toggle", "start", "stop", "stop all", "status", "updated", "ready", "sync all"}

\* A call knows its tab, and that of a page is from a document that is still there.
Sound(k) ==
    /\ k \in CallStates
    /\ k.op \in {"toggle", "start", "stop", "updated", "ready", "edit", "locate"} => k.tab \in Tabs
    /\ k.op = "ready" => k.page \in Pages
    /\ k.fresh => k.tab \in Tabs /\ k.op \in {"ready", "edit"}

OpAt(k) ==
    /\ k.pc = "idle" => k = Idle
    /\ k.pc \in {"restore", "saved"} => k.op \in RunOps
    /\ k.pc = "saved" => k.op = "sync all" /\ k.todo = {} /\ ~k.fresh
    /\ k.pc = "get" => k.op = "start"
    /\ k.pc = "inject" => k.op \in {"start", "updated", "locate"}
    /\ k.pc = "on" => k.op \in {"start", "updated"}
    /\ k.pc = "off" => k.op = "stop"
    /\ k.pc = "stop next" => k.op \in {"stop all", "stop"}
    /\ k.pc = "sync" => k.op \in {"start", "updated", "edit"}
    /\ k.pc = "sync next" => k.op = "sync all"
    /\ k.pc = "answer" => k.op = "ready"

ModesTyped ==
    /\ active \in SUBSET Tabs /\ modes \in SUBSET Tabs /\ wanted \in SUBSET Tabs
    /\ torn \in SUBSET Tabs /\ stale \in SUBSET Tabs /\ pending \in SUBSET Tabs
    /\ frames \in [Tabs -> Pages \union {None}]
    /\ notes \in [Notes -> Statuses]
    /\ restored \in BOOLEAN /\ disturbed \in BOOLEAN

DocsTyped ==
    /\ doc \in [Tabs -> Docs \union {None}]
    /\ \A t \in Tabs : Open(t) /\ ~doc[t].mode => doc[t].card = "none"

MailTyped ==
    /\ mail \in [Tabs -> Seq(Messages)]
    /\ \A t \in Tabs : \A i \in DOMAIN mail[t] :
         Open(t) /\ (mail[t][i].type = "READY" => mail[t][i].page \in Pages)

CallsTyped ==
    /\ call \in [Calls -> CallStates]
    /\ \A c \in Calls : /\ Sound(call[c]) /\ OpAt(call[c])
                        /\ call[c].fresh /\ call[c].tab \in Tabs => Open(call[c].tab)

TypeInv == ModesTyped /\ DocsTyped /\ MailTyped /\ CallsTyped

----------------------------------------------------------------------------
(* The tabs in the mode                                                    *)

\* Restore is waited for once.
Restoring == \E c \in Calls : At(c, "restore")
OneRestores ==
    /\ \A c, d \in Calls : At(c, "restore") /\ At(d, "restore") => c = d
    /\ Restoring => restored

\* Until it is over, nothing else goes on that looks at the tabs in the mode.
Bystander(c) ==
    \/ call[c].pc \in {"idle", "saved", "restore"}
    \/ call[c].pc = "inject" /\ call[c].op = "locate"
    \/ call[c].pc = "sync" /\ call[c].op = "edit"

\* What the storage says is right, and what the worker says from then on.
Kept ==
    /\ modes = wanted
    /\ \A t \in wanted : Open(t)
    /\ restored /\ ~Restoring => active = wanted
    /\ ~restored \/ Restoring => active = {} /\ \A c \in Calls : Bystander(c)
    /\ \A c \in Calls : At(c, "restore") => wanted = {t \in call[c].todo : Open(t)}

KeptInv == disturbed \/ Kept

----------------------------------------------------------------------------
(* The overlays                                                            *)

OfTab(c, t) == call[c].tab = t

\* The annotator is about to be put in the document of a tab.
Reloading(t) ==
    \/ t \in pending
    \/ \E c \in Calls : OfTab(c, t) /\ (At(c, "inject") \/ (At(c, "restore") /\ call[c].op = "updated"))

\* It is about to be switched on.
Coming(t) ==
    \/ t \in pending
    \/ \E c \in Calls : /\ OfTab(c, t) /\ call[c].op \in {"start", "updated"}
                        /\ \/ At(c, "inject")
                           \/ At(c, "restore") /\ call[c].op = "updated"
                           \/ At(c, "on") /\ doc[t].loaded

\* The user has ended the mode in the page.
Leaving(t) ==
    \/ \E i \in DOMAIN mail[t] : mail[t][i].type = "STOP"
    \/ \E c \in Calls : OfTab(c, t) /\ At(c, "restore") /\ call[c].op = "stop"

\* The annotator is about to be taken down.
Dropping(t) == \E c \in Calls : OfTab(c, t) /\ At(c, "off")

Overlay(t) ==
    /\ doc[t].mode => doc[t].loaded
    /\ t \in wanted \ torn /\ ~doc[t].mode => Coming(t) \/ Leaving(t)
    /\ t \notin wanted \union torn /\ (doc[t].mode \/ (doc[t].loaded /\ ~doc[t].located)) => Dropping(t)

\* What a call is about to do is still wanted, and what a page has said is still so.
Timely(c) ==
    LET t == call[c].tab IN
      /\ call[c].pc \in {"inject", "on"} /\ call[c].op # "locate" /\ Open(t) => t \in wanted
      /\ At(c, "on") /\ Annotatable(t) => doc[t].loaded \/ Coming(t)
      /\ At(c, "off") => t \notin wanted
      /\ At(c, "answer") /\ call[c].fresh => t \in wanted
      /\ call[c].pc \in {"restore", "answer"} /\ call[c].op = "ready" /\ call[c].fresh
           => doc[t].loaded /\ doc[t].page = call[c].page

Announced(t) ==
    \A i \in DOMAIN mail[t] :
        mail[t][i].type = "READY" /\ mail[t][i].fresh
          => doc[t].loaded /\ doc[t].page = mail[t][i].page

NoOverlap ==
    \A c, d \in Calls :
        c # d /\ InFlight(c) /\ InFlight(d) /\ call[c].op = "stop" /\ OfTab(d, call[c].tab)
          => call[d].op \notin {"start", "updated", "ready"}

OverlaysFit ==
    /\ \A t \in Tabs : (Annotatable(t) => Overlay(t)) /\ Announced(t)
    /\ \A c \in Calls : Timely(c)
    /\ NoOverlap

OverlayInv == disturbed \/ OverlaysFit

----------------------------------------------------------------------------
(* The pins                                                                *)

\* The document has announced itself, and the worker does not know yet.
Heard(t) == \E i \in DOMAIN mail[t] : mail[t][i].type = "READY" /\ mail[t][i].fresh

\* What the page of before has sent comes before that.
InOrder(t) ==
    doc[t].loaded =>
      \A i \in DOMAIN mail[t] : ~mail[t][i].fresh =>
        \E j \in DOMAIN mail[t] : i < j /\ mail[t][j].type = "READY" /\ mail[t][j].fresh

\* The worker knows which page a tab shows, or will hear of it.
Located(t) == frames[t] = doc[t].page \/ Heard(t) \/ Reloading(t)

\* The pins of a tab are about to be set.
Telling(t) ==
    \/ Heard(t) \/ Reloading(t)
    \/ \E c \in Calls :
         \/ OfTab(c, t) /\ call[c].op = "ready" /\ call[c].fresh /\ call[c].pc \in {"restore", "answer"}
         \/ OfTab(c, t) /\ call[c].pc \in {"on", "sync"}
         \/ At(c, "saved")
         \/ At(c, "restore") /\ call[c].op = "sync all"
         \/ At(c, "sync next") /\ t \in call[c].todo

Pins(t) ==
    /\ InOrder(t)
    /\ t \in wanted /\ doc[t].loaded => Located(t) \/ (frames[t] = None /\ t \in stale)
    /\ t \in wanted \ stale /\ doc[t].mode => doc[t].pins = NotesOn(doc[t].page) \/ Telling(t)

Answerable(c) ==
    call[c].op = "ready" /\ call[c].fresh /\ call[c].pc \in {"restore", "answer"}
      => Located(call[c].tab)

PinsFit ==
    /\ \A t \in Tabs : Annotatable(t) => Pins(t)
    /\ \A c \in Calls : Answerable(c)

PinsInv == disturbed \/ PinsFit

----------------------------------------------------------------------------
(* What the steps are made of                                              *)

LEMMA DocIs ==
    ASSUME NEW d \in Docs, NEW on \in BOOLEAN
    PROVE  /\ d # None
           /\ LET e == SetMode(d, on) IN
                /\ e \in Docs /\ e.mode = on /\ e.card = IF on THEN d.card ELSE "none"
                /\ e.page = d.page /\ e.loaded = d.loaded /\ e.located = d.located /\ e.pins = d.pins
           /\ LET e == closeCard(d) IN
                /\ e \in Docs /\ e.mode = d.mode /\ e.card = "none"
                /\ e.page = d.page /\ e.loaded = d.loaded /\ e.located = d.located /\ e.pins = d.pins
           /\ LET e == openComposer(d) IN
                /\ e \in Docs /\ e.mode = d.mode /\ e.card = "composer"
                /\ e.page = d.page /\ e.loaded = d.loaded /\ e.located = d.located /\ e.pins = d.pins
           /\ LET e == destroy(d) IN
                /\ e \in Docs /\ ~e.mode /\ e.card = "none" /\ e.page = d.page
                /\ ~e.loaded /\ ~e.located /\ e.pins = d.pins
BY ModeAssumption DEF SetMode, closeCard, openComposer, destroy, Docs

LEMMA PinsAre ==
    ASSUME NEW page, notes \in [Notes -> Statuses]
    PROVE  NotesOn(page) \in [Notes -> Statuses] /\ NoPins \in [Notes -> Statuses]
BY ModeAssumption DEF NotesOn, NoPins

LEMMA BlankIs ==
    ASSUME NEW page \in Pages \union {Internal}, notes \in [Notes -> Statuses]
    PROVE  /\ Blank(page) \in Docs /\ Blank(page).page = page /\ ~Blank(page).loaded
           /\ ~Blank(page).mode /\ Blank(page).card = "none"
BY PinsAre DEF Blank, Docs

LEMMA IdleIs ==
    /\ Idle \in CallStates /\ Idle.op = "none" /\ Idle.pc = "idle" /\ Idle.tab = None
    /\ ~Idle.fresh /\ ~Idle.on /\ Idle.todo = {}
    /\ Sound(Idle) /\ OpAt(Idle)
BY DEF Idle, CallStates, Ops, Pcs, Sound, OpAt

\* A tab whose document changes.
LEMMA PageIs ==
    ASSUME DocsTyped, NEW t \in Tabs, NEW d \in Docs, Page(t, d), d.mode \/ d.card = "none"
    PROVE  /\ DocsTyped'
           /\ doc'[t] = d /\ \A u \in Tabs \ {t} : doc'[u] = doc[u]
           /\ Open(t)' /\ \A u \in Tabs : Open(u) => Open(u)'
BY ModeAssumption DEF DocsTyped, Page, Open

LEMMA SendIs ==
    ASSUME MailTyped, DocsTyped, NEW t \in Tabs, Open(t), NEW type \in {"READY", "STOP"}, Send(t, type),
           type = "READY" => doc[t].page \in Pages
    PROVE  /\ mail' \in [Tabs -> Seq(Messages)]
           /\ \A u \in Tabs \ {t} : mail'[u] = mail[u]
           /\ DOMAIN mail[t] \subseteq DOMAIN mail'[t]
           /\ \A i \in DOMAIN mail[t] : mail'[t][i] = mail[t][i]
           /\ Len(mail'[t]) = Len(mail[t]) + 1
           /\ LET last == mail'[t][Len(mail[t]) + 1] IN
                last.type = type /\ last.page = doc[t].page /\ last.fresh
           /\ \A i \in DOMAIN mail'[t] : i \in DOMAIN mail[t] \/ i = Len(mail[t]) + 1
<1> DEFINE msg == [type |-> type, page |-> doc[t].page, fresh |-> TRUE]
<1>1. msg \in Messages /\ msg.type = type /\ msg.page = doc[t].page /\ msg.fresh
  BY DEF Messages, DocsTyped, Docs, Open
<1>2. mail[t] \in Seq(Messages) /\ mail' = [mail EXCEPT ![t] = Append(@, msg)]
  BY DEF Send, MailTyped
<1> HIDE DEF msg
<1>. QED
  BY <1>1, <1>2 DEF MailTyped

\* What a page has sent stays sound while it is open.
LEMMA SendTyped ==
    ASSUME MailTyped, DocsTyped, NEW t \in Tabs, Open(t), NEW type \in {"READY", "STOP"}, Send(t, type),
           type = "READY" => doc[t].page \in Pages, \A u \in Tabs : Open(u) => Open(u)'
    PROVE  MailTyped'
<1>1. ASSUME NEW u \in Tabs, NEW i \in DOMAIN mail'[u]
      PROVE  Open(u)' /\ (mail'[u][i].type = "READY" => mail'[u][i].page \in Pages)
  <2>1. CASE u # t
    BY <1>1, <2>1, SendIs DEF MailTyped
  <2>2. CASE u = t
    BY <1>1, <2>2, SendIs DEF MailTyped
  <2>. QED
    BY <2>1, <2>2
<1>. QED
  BY <1>1, SendIs DEF MailTyped

LEMMA MailStays ==
    ASSUME MailTyped, UNCHANGED mail, \A u \in Tabs : Open(u) => Open(u)' PROVE MailTyped'
BY DEF MailTyped

LEMMA CallStays ==
    ASSUME CallsTyped, \A u \in Tabs : Open(u) => Open(u)', NEW c \in Calls, NEW k,
           call' = [call EXCEPT ![c] = k], Sound(k), OpAt(k), k.fresh /\ k.tab \in Tabs => Open(k.tab)'
    PROVE  CallsTyped' /\ call'[c] = k /\ \A d \in Calls \ {c} : call'[d] = call[d]
<1>1. /\ call' \in [Calls -> CallStates]
      /\ call'[c] = k /\ \A d \in Calls \ {c} : call'[d] = call[d]
  BY DEF CallsTyped, Sound
<1>2. ASSUME NEW d \in Calls
      PROVE  /\ Sound(call'[d]) /\ OpAt(call'[d])
             /\ call'[d].fresh /\ call'[d].tab \in Tabs => Open(call[d].tab)'
  BY <1>1 DEF CallsTyped, Open
<1>3. CallsTyped'
  BY <1>1, <1>2 DEF CallsTyped
<1>. QED
  BY <1>1, <1>3

LEMMA CallsSame ==
    ASSUME CallsTyped, \A u \in Tabs : Open(u) => Open(u)', UNCHANGED call PROVE CallsTyped'
<1>1. ASSUME NEW d \in Calls
      PROVE  /\ Sound(call'[d]) /\ OpAt(call'[d])
             /\ call'[d].fresh /\ call'[d].tab \in Tabs => Open(call[d].tab)'
  BY DEF CallsTyped, Open
<1>. QED
  BY <1>1 DEF CallsTyped

\* A call that goes on.
Moved(k, op, pc, todo) == [k EXCEPT !.op = op, !.pc = pc, !.todo = todo]

LEMMA MovedIs ==
    ASSUME NEW k \in CallStates, NEW op \in Ops, NEW pc \in Pcs, NEW todo \in SUBSET Tabs
    PROVE  LET e == Moved(k, op, pc, todo) IN
           /\ e \in CallStates /\ e.op = op /\ e.pc = pc /\ e.todo = todo
           /\ e.tab = k.tab /\ e.page = k.page /\ e.fresh = k.fresh /\ e.on = k.on
BY DEF Moved, CallStates

LEMMA MovedSame ==
    ASSUME NEW k \in CallStates, NEW op \in Ops, NEW pc \in Pcs, NEW todo \in SUBSET Tabs
    PROVE  /\ [k EXCEPT !.pc = pc] = Moved(k, k.op, pc, k.todo)
           /\ [k EXCEPT !.pc = pc, !.todo = todo] = Moved(k, k.op, pc, todo)
           /\ [k EXCEPT !.todo = todo] = Moved(k, k.op, k.pc, todo)
           /\ [k EXCEPT !.op = op, !.pc = pc] = Moved(k, op, pc, k.todo)
BY DEF Moved, CallStates

\* What the worker answers to a page that announces itself.
LEMMA AnswerDoes ==
    ASSUME ModesTyped, DocsTyped, NEW c \in Calls, NEW k, k.fresh => k.tab \in Tabs /\ Open(k.tab),
           k.fresh \in BOOLEAN, NEW on \in BOOLEAN, Answer(c, k, on)
    PROVE  /\ Ends(c) /\ DocsTyped' /\ \A u \in Tabs : Open(u) => Open(u)'
           /\ stale' \in SUBSET Tabs
           /\ ~k.fresh => UNCHANGED <<doc, stale>>
           /\ k.fresh =>
                /\ \A u \in Tabs \ {k.tab} : doc'[u] = doc[u]
                /\ LET e == doc'[k.tab]
                       d == doc[k.tab] IN
                     /\ e.mode = on /\ e.pins = (IF on THEN NotesOn(k.page) ELSE NoPins)
                     /\ e.card = (IF on THEN d.card ELSE "none")
                     /\ e.page = d.page /\ e.loaded = d.loaded /\ e.located = d.located
                /\ stale' = IF on THEN stale \ {k.tab} ELSE stale
<1>1. CASE ~k.fresh
  BY <1>1 DEF Answer, DocsTyped, Open, ModesTyped
<1>2. CASE k.fresh
  <2> DEFINE t == k.tab
             d == [doc[t] EXCEPT !.pins = IF on THEN NotesOn(k.page) ELSE NoPins]
             e == SetMode(d, on)
  <2>1. /\ d \in Docs /\ d.pins = (IF on THEN NotesOn(k.page) ELSE NoPins)
        /\ d.card = doc[t].card /\ d.page = doc[t].page /\ d.loaded = doc[t].loaded
        /\ d.located = doc[t].located
    BY <1>2, PinsAre DEF DocsTyped, Docs, Open, ModesTyped
  <2>2. Page(t, e) /\ Ends(c) /\ stale' = IF on THEN stale \ {t} ELSE stale
    BY <1>2 DEF Answer
  <2> HIDE DEF d
  <2>3. /\ e \in Docs /\ e.mode = on /\ e.card = (IF on THEN d.card ELSE "none")
        /\ e.page = d.page /\ e.loaded = d.loaded /\ e.located = d.located /\ e.pins = d.pins
    BY <2>1, DocIs
  <2> HIDE DEF e
  <2>4. DocsTyped' /\ doc'[t] = e /\ (\A u \in Tabs \ {t} : doc'[u] = doc[u])
        /\ \A u \in Tabs : Open(u) => Open(u)'
    BY <1>2, <2>2, <2>3, PageIs
  <2>5. stale' \in SUBSET Tabs
    BY <2>2 DEF ModesTyped
  <2>. QED
    BY <1>2, <2>1, <2>2, <2>3, <2>4, <2>5
<1>. QED
  BY <1>1, <1>2

\* What a call is now, that of k before.
Is(c, k, op, pc, todo) ==
    LET j == call'[c] IN
      j.op = op /\ j.pc = pc /\ j.todo = todo /\ j.tab = k.tab /\ j.page = k.page /\ j.fresh = k.fresh

\* The set is saved, unless the storage fails.
Persists(set) ==
    /\ modes' \in {set, modes} /\ disturbed' \in BOOLEAN
    /\ ~disturbed' => ~disturbed /\ modes' = set

\* The tab that a call is for leaves the mode.
Stops(c, k, set) ==
    /\ active' = set \ {k.tab} /\ Persists(set \ {k.tab}) /\ wanted' = wanted \ {k.tab}
    /\ frames' = [frames EXCEPT ![k.tab] = None]
    /\ call'[c] = Moved(k, "stop", "off", k.todo) /\ Is(c, k, "stop", "off", k.todo)
    /\ UNCHANGED <<doc, stale>>

\* A call asks something of Chrome, or the store.
Asks(c, k, op, pc, todo) ==
    call'[c] = Moved(k, op, pc, todo) /\ Is(c, k, op, pc, todo) /\ UNCHANGED <<doc, stale>>

\* What a call does once the tabs are known.
Runs(c, k, set, fs) ==
    \/ /\ Stops(c, k, set) /\ k.op \in {"stop", "toggle"}
       /\ ~disturbed' => ~Overlaps(c, "stop", k.tab)
    \/ /\ active' = set /\ UNCHANGED <<modes, wanted>>
       /\ \/ /\ Asks(c, k, "start", "get", {}) /\ frames' = fs /\ k.op \in {"start", "toggle"}
             /\ ~disturbed' => ~Overlaps(c, "start", k.tab)
          \/ /\ Asks(c, k, "updated", "inject", {}) /\ frames' = [fs EXCEPT ![k.tab] = None]
             /\ k.op = "updated" /\ k.tab \in set
             /\ ~disturbed' => ~Overlaps(c, "updated", k.tab)
          \/ /\ Asks(c, k, "ready", "answer", {}) /\ frames' = fs
             /\ k.op = "ready" /\ k.tab \in set
             /\ ~disturbed' => ~Overlaps(c, "ready", k.tab)
          \/ Asks(c, k, "stop all", "stop next", set) /\ frames' = fs /\ k.op = "stop all"
          \/ Asks(c, k, "sync all", "sync next", set) /\ frames' = fs /\ k.op = "sync all"
          \/ /\ call'[c] = Idle /\ UNCHANGED <<doc, stale>> /\ frames' = fs
             /\ k.op \in {"updated", "sync all"} => k.tab \notin set
             /\ k.op \in {"stop all", "sync all"} => set = {}
             /\ k.op \in {"updated", "status", "stop all", "sync all"}
          \/ /\ k.op = "ready" /\ k.tab \notin set /\ Answer(c, k, FALSE) /\ frames' = fs
             /\ call'[c] = Idle

LEMMA RunDoes ==
    ASSUME TypeInv, NEW c \in Calls, NEW k, Sound(k), k.op \in RunOps, k.todo = {},
           k.fresh => k.tab \in Tabs /\ Open(k.tab),
           NEW set \in SUBSET Tabs, NEW fs \in [Tabs -> Pages \union {None}], Run(c, k, set, fs)
    PROVE  /\ \A d \in Calls \ {c} : call'[d] = call[d]
           /\ UNCHANGED <<notes, torn>> /\ disturbed' \in BOOLEAN
           /\ ~disturbed' => ~disturbed /\ \A d \in Calls \ {c} : ~At(d, "restore")
           /\ Runs(c, k, set, fs)
<1> DEFINE t == k.tab
           op == IF k.op # "toggle" THEN k.op ELSE IF t \in set THEN "stop" ELSE "start"
           on == t \in set
<1>1. k \in CallStates /\ op \in RunOps \ {"toggle"} /\ RunOps \subseteq Ops
  BY DEF Sound, RunOps, Ops
<1>2. \A j : Go(c, j) => call'[c] = j /\ \A d \in Calls \ {c} : call'[d] = call[d]
  BY DEF Go, TypeInv, CallsTyped
<1> DEFINE asks(pc, todo) == Go(c, Moved(k, op, pc, todo)) /\ UNCHANGED <<doc, stale>>
<1> DEFINE wrong == Overlaps(c, op, t) \/ \E d \in Calls \ {c} : At(d, "restore")
<1>3. \/ op = "stop" /\ stop(c, k, set, wrong)
      \/ /\ op # "stop"
         /\ active' = set
         /\ frames' = IF op = "updated" /\ on THEN [fs EXCEPT ![t] = None] ELSE fs
         /\ disturbed' = (disturbed \/ wrong)
         /\ UNCHANGED <<modes, notes, wanted, torn>>
         /\ \/ op = "start" /\ asks("get", {})
            \/ op = "updated" /\ on /\ asks("inject", {})
            \/ op = "updated" /\ ~on /\ Ends(c) /\ UNCHANGED <<doc, stale>>
            \/ op = "ready" /\ on /\ asks("answer", {})
            \/ op = "ready" /\ ~on /\ Answer(c, k, on)
            \/ op = "status" /\ Ends(c) /\ UNCHANGED <<doc, stale>>
            \/ op = "stop all" /\ (IF set = {} THEN Ends(c) /\ UNCHANGED <<doc, stale>>
                                   ELSE asks("stop next", set))
            \/ op = "sync all" /\ (IF set = {} THEN Ends(c) /\ UNCHANGED <<doc, stale>>
                                   ELSE asks("sync next", set))
  BY DEF Run, Moved
<1>4. /\ UNCHANGED <<notes, torn>> /\ disturbed' \in BOOLEAN
      /\ ~disturbed' => ~disturbed /\ ~Overlaps(c, op, t) /\ \A d \in Calls \ {c} : ~At(d, "restore")
  <2>1. UNCHANGED <<notes, torn>>
    BY <1>3 DEF stop
  <2>2. \/ disturbed' = (disturbed \/ wrong)
        \/ \E set1 : disturbed' = (disturbed \/ wrong \/ modes' # set1)
    BY <1>3 DEF stop, persistModes
  <2>. QED
    BY <2>1, <2>2 DEF TypeInv, ModesTyped
<1>5. CASE op = "stop" /\ stop(c, k, set, wrong)
  <2>1. k.op \in {"stop", "toggle"}
    BY <1>5
  <2>2. Go(c, Moved(k, "stop", "off", k.todo))
    BY <1>1, <1>5, MovedSame DEF stop, RunOps, Ops, Pcs, CallStates
  <2>3. Stops(c, k, set)
    <3>1. call'[c] = Moved(k, "stop", "off", k.todo)
      BY <1>2, <2>2
    <3>2. k.todo \in SUBSET Tabs /\ "stop" \in Ops /\ "off" \in Pcs
      BY <1>1 DEF CallStates, Ops, Pcs
    <3>3. Is(c, k, "stop", "off", k.todo)
      BY <1>1, <3>1, <3>2, MovedIs DEF Is
    <3>4. Persists(set \ {k.tab})
      BY <1>4, <1>5 DEF stop, persistModes, Persists
    <3>. QED
      BY <1>5, <3>1, <3>3, <3>4 DEF stop, Stops
  <2>. QED
    BY <1>2, <1>4, <1>5, <2>1, <2>2, <2>3 DEF Runs
<1> HIDE DEF op
<1>7. /\ \A pc \in Pcs, todo \in SUBSET Tabs :
           asks(pc, todo) => Asks(c, k, op, pc, todo) /\ \A d \in Calls \ {c} : call'[d] = call[d]
      /\ {"get", "inject", "answer", "stop next", "sync next"} \subseteq Pcs /\ {} \in SUBSET Tabs
  <2>1. ASSUME NEW pc \in Pcs, NEW todo \in SUBSET Tabs, asks(pc, todo)
        PROVE  Asks(c, k, op, pc, todo) /\ \A d \in Calls \ {c} : call'[d] = call[d]
    <3>1. call'[c] = Moved(k, op, pc, todo) /\ \A d \in Calls \ {c} : call'[d] = call[d]
      BY <1>2, <2>1
    <3>2. op \in Ops
      BY <1>1
    <3>3. Is(c, k, op, pc, todo)
      BY <1>1, <3>1, <3>2, MovedIs DEF Is
    <3>. QED
      BY <2>1, <3>1, <3>3 DEF Asks
  <2>. QED
    BY <2>1 DEF Pcs
<1>8. Ends(c) => call'[c] = Idle /\ \A d \in Calls \ {c} : call'[d] = call[d]
  BY <1>2 DEF Ends
<1>9. Answer(c, k, on) => Ends(c) /\ (~on => Answer(c, k, FALSE))
  <2>1. CASE on
    BY <2>1 DEF Answer
  <2>2. CASE ~on
    <3>1. on = FALSE
      BY <2>2
    <3>. QED
      BY <3>1 DEF Answer
  <2>. QED
    BY <2>1, <2>2
<1> HIDE DEF asks
<1>6. CASE /\ op # "stop"
           /\ active' = set
           /\ UNCHANGED <<modes, wanted>>
  <2>1. op = k.op \/ (k.op = "toggle" /\ op \in {"stop", "start"})
    BY DEF op
  <2>2. \A d \in Calls \ {c} : call'[d] = call[d]
    BY <1>3, <1>6, <1>7, <1>8, <1>9
  <2>3. CASE op = "start"
    BY <1>3, <1>4, <1>6, <1>7, <2>1, <2>2, <2>3 DEF Runs
  <2>4. CASE op = "updated" /\ on
    BY <1>3, <1>4, <1>6, <1>7, <2>1, <2>2, <2>4 DEF Runs
  <2>5. CASE op = "ready" /\ on
    BY <1>3, <1>4, <1>6, <1>7, <2>1, <2>2, <2>5 DEF Runs
  <2>6. CASE op = "ready" /\ ~on
    BY <1>3, <1>4, <1>6, <1>7, <1>8, <1>9, <2>1, <2>2, <2>6 DEF Runs
  <2>7. CASE op = "stop all" /\ set # {}
    BY <1>3, <1>4, <1>6, <1>7, <2>1, <2>2, <2>7 DEF Runs
  <2>9. CASE op = "sync all" /\ set # {}
    BY <1>3, <1>4, <1>6, <1>7, <2>1, <2>2, <2>9 DEF Runs
  <2>8. CASE (op = "updated" /\ ~on) \/ op = "status" \/ (op \in {"stop all", "sync all"} /\ set = {})
    <3>1. call'[c] = Idle /\ UNCHANGED <<doc, stale>> /\ frames' = fs
      BY <1>2, <1>3, <1>6, <2>8 DEF Ends
    <3>. QED
      BY <1>4, <1>6, <2>1, <2>2, <2>8, <3>1 DEF Runs
  <2>. QED
    <3>1. op \in {"start", "stop all", "status", "updated", "ready", "sync all"}
      BY <1>1, <1>6 DEF RunOps
    <3>. QED
      BY <2>3, <2>4, <2>5, <2>6, <2>7, <2>8, <2>9, <3>1
<1>. QED
  BY <1>3, <1>5, <1>6

\* The worker takes a message.
Hears(t) == mail[t] # <<>> /\ mail' = [mail EXCEPT ![t] = Tail(@)]

LEMMA TailIs ==
    ASSUME MailTyped, NEW t \in Tabs, Hears(t)
    PROVE  /\ mail' \in [Tabs -> Seq(Messages)]
           /\ \A u \in Tabs \ {t} : mail'[u] = mail[u]
           /\ 1 \in DOMAIN mail[t] /\ Head(mail[t]) = mail[t][1] /\ mail[t][1] \in Messages
           /\ \A i \in DOMAIN mail'[t] :
                i \in Nat \ {0} /\ i + 1 \in DOMAIN mail[t] /\ mail'[t][i] = mail[t][i + 1]
           /\ \A i \in DOMAIN mail[t] :
                i = 1 \/ (i - 1 \in DOMAIN mail'[t] /\ mail'[t][i - 1] = mail[t][i] /\ i \in Nat \ {0})
<1>1. /\ mail[t] \in Seq(Messages) /\ mail[t] # <<>>
      /\ mail' \in [Tabs -> Seq(Messages)] /\ mail'[t] = Tail(mail[t])
      /\ \A u \in Tabs \ {t} : mail'[u] = mail[u]
  BY DEF Hears, MailTyped
<1> DEFINE s == mail[t]
<1>2. /\ 1 \in DOMAIN s /\ Head(s) = s[1] /\ s[1] \in Messages
      /\ \A i \in DOMAIN Tail(s) : i \in Nat \ {0} /\ i + 1 \in DOMAIN s /\ Tail(s)[i] = s[i + 1]
  BY <1>1
<1>3. \A i \in DOMAIN s : i = 1 \/ (i - 1 \in DOMAIN Tail(s) /\ Tail(s)[i - 1] = s[i] /\ i \in Nat \ {0})
  BY <1>1
<1>. QED
  BY <1>1, <1>2, <1>3

LEMMA TailTyped ==
    ASSUME MailTyped, NEW t \in Tabs, Hears(t), \A u \in Tabs : Open(u) => Open(u)'
    PROVE  MailTyped'
<1>1. ASSUME NEW u \in Tabs, NEW i \in DOMAIN mail'[u]
      PROVE  Open(u)' /\ (mail'[u][i].type = "READY" => mail'[u][i].page \in Pages)
  <2>1. CASE u # t
    BY <1>1, <2>1, TailIs DEF MailTyped
  <2>2. CASE u = t
    BY <1>1, <2>2, TailIs DEF MailTyped
  <2>. QED
    BY <2>1, <2>2
<1>. QED
  BY <1>1, TailIs DEF MailTyped

\* A call comes to restore.
Waits(c, k, fs) ==
    /\ ~restored /\ restored' = TRUE /\ frames' = fs
    /\ \E read \in SUBSET Tabs :
         /\ Go(c, Moved(k, k.op, "restore", read)) /\ Is(c, k, k.op, "restore", read)
         /\ ~disturbed' => ~disturbed /\ read = modes
    /\ \A d \in Calls \ {c} : call'[d] = call[d]
    /\ disturbed' \in BOOLEAN
    /\ UNCHANGED <<active, modes, notes, doc, wanted, torn, stale>>

LEMMA BeginDoes ==
    ASSUME TypeInv, NEW c \in Calls, NEW k, k \in CallStates, NEW fs, Begin(c, k, fs)
    PROVE  (restored /\ restored' = restored /\ Run(c, k, active, fs)) \/ Waits(c, k, fs)
<1>1. CASE ~restored
  <2>1. PICK read \in {modes, {}} :
          /\ Go(c, [k EXCEPT !.pc = "restore", !.todo = read])
          /\ disturbed' = (disturbed \/ read # modes)
    BY <1>1 DEF Begin
  <2>2. "restore" \in Pcs /\ read \in SUBSET Tabs /\ k.op \in Ops
    BY DEF Pcs, TypeInv, ModesTyped, CallStates
  <2>3. Go(c, Moved(k, k.op, "restore", read))
    <3>1. [k EXCEPT !.pc = "restore", !.todo = read] = Moved(k, k.op, "restore", read)
      BY DEF Moved, CallStates
    <3>. QED
      BY <2>1, <3>1
  <2>4. call'[c] = Moved(k, k.op, "restore", read) /\ \A d \in Calls \ {c} : call'[d] = call[d]
    BY <2>3 DEF Go, TypeInv, CallsTyped
  <2>5. Is(c, k, k.op, "restore", read)
    BY <2>2, <2>4, MovedIs DEF Is
  <2>6. disturbed' \in BOOLEAN /\ (~disturbed' => ~disturbed /\ read = modes)
    BY <2>1 DEF TypeInv, ModesTyped
  <2>. QED
    BY <1>1, <2>2, <2>3, <2>4, <2>5, <2>6 DEF Begin, Waits
<1>2. CASE restored
  BY <1>2 DEF Begin
<1>. QED
  BY <1>1, <1>2

----------------------------------------------------------------------------
(* The types are kept                                                      *)

LEMMA RunTyped ==
    ASSUME TypeInv, NEW c \in Calls, NEW k, Sound(k), k.op \in RunOps, k.todo = {},
           k.fresh => k.tab \in Tabs /\ Open(k.tab),
           NEW set \in SUBSET Tabs, NEW fs \in [Tabs -> Pages \union {None}], Run(c, k, set, fs),
           restored' \in BOOLEAN, pending' \in SUBSET Tabs,
           UNCHANGED mail \/ \E t \in Tabs : Hears(t)
    PROVE  TypeInv'
<1>0. /\ ModesTyped /\ DocsTyped /\ MailTyped /\ CallsTyped /\ k \in CallStates /\ k.fresh \in BOOLEAN
      /\ RunOps \subseteq Ops
  BY DEF TypeInv, Sound, CallStates, RunOps, Ops
<1>1. k.op = "ready" /\ Answer(c, k, FALSE) =>
        DocsTyped' /\ (\A u \in Tabs : Open(u) => Open(u)') /\ stale' \in SUBSET Tabs
  BY <1>0, AnswerDoes
<1>2. UNCHANGED <<doc, stale>> =>
        DocsTyped' /\ (\A u \in Tabs : Open(u) => Open(u)') /\ stale' \in SUBSET Tabs
  BY <1>0 DEF DocsTyped, Open, ModesTyped
<1>3. DocsTyped' /\ (\A u \in Tabs : Open(u) => Open(u)') /\ stale' \in SUBSET Tabs
  BY <1>1, <1>2, RunDoes DEF Runs, Asks, Stops
<1>4. MailTyped'
  BY <1>0, <1>3, MailStays, TailTyped
<1>5. ModesTyped'
  <2>1. frames' = fs \/ frames' = [fs EXCEPT ![k.tab] = None] \/ frames' = [frames EXCEPT ![k.tab] = None]
    BY RunDoes DEF Runs, Stops
  <2>2. frames' \in [Tabs -> Pages \union {None}]
    BY <1>0, <2>1 DEF ModesTyped
  <2>3. active' \in SUBSET Tabs /\ modes' \in SUBSET Tabs /\ wanted' \in SUBSET Tabs
    <3>1. \/ /\ active' = set \ {k.tab} /\ modes' \in {set \ {k.tab}, modes}
             /\ wanted' = wanted \ {k.tab}
          \/ active' = set /\ UNCHANGED <<modes, wanted>>
      <4>1. Stops(c, k, set) \/ (active' = set /\ UNCHANGED <<modes, wanted>>)
        BY RunDoes DEF Runs
      <4>. QED
        BY <4>1 DEF Stops, Persists
    <3>. QED
      BY <1>0, <3>1 DEF ModesTyped
  <2>. QED
    BY <1>0, <1>3, <2>2, <2>3, RunDoes DEF ModesTyped
<1>6. \/ call'[c] = Idle
      \/ \E op \in RunOps, pc \in Pcs, todo \in SUBSET Tabs :
           /\ call'[c] = Moved(k, op, pc, todo) /\ OpAt(Moved(k, op, pc, todo))
           /\ op = k.op \/ (k.op = "toggle" /\ op \in {"start", "stop"})
  <2>2. ASSUME NEW op \in RunOps, NEW pc \in Pcs, NEW todo \in SUBSET Tabs,
               \/ op = "stop" /\ pc = "off"
               \/ op = "start" /\ pc = "get"
               \/ op = "updated" /\ pc = "inject"
               \/ op = "ready" /\ pc = "answer"
               \/ op = "stop all" /\ pc = "stop next"
               \/ op = "sync all" /\ pc = "sync next"
        PROVE  OpAt(Moved(k, op, pc, todo))
    <3> DEFINE e == Moved(k, op, pc, todo)
    <3>1. e.op = op /\ e.pc = pc /\ e.todo = todo
      BY <1>0, MovedIs
    <3> HIDE DEF e
    <3>. QED
      BY <2>2, <3>1 DEF OpAt, e
  <2>3. /\ {"stop", "start", "updated", "ready", "stop all", "sync all"} \subseteq RunOps
        /\ {"off", "get", "inject", "answer", "stop next", "sync next"} \subseteq Pcs
        /\ {} \in SUBSET Tabs
    BY DEF RunOps, Pcs
  <2>4. CASE Stops(c, k, set) /\ k.op \in {"stop", "toggle"}
    BY <2>2, <2>3, <2>4 DEF Stops
  <2>5. CASE Asks(c, k, "start", "get", {}) /\ k.op \in {"start", "toggle"}
    BY <2>2, <2>3, <2>5 DEF Asks
  <2>6. CASE Asks(c, k, "updated", "inject", {}) /\ k.op = "updated"
    BY <2>2, <2>3, <2>6 DEF Asks
  <2>7. CASE Asks(c, k, "ready", "answer", {}) /\ k.op = "ready"
    BY <2>2, <2>3, <2>7 DEF Asks
  <2>8. CASE Asks(c, k, "stop all", "stop next", set) /\ k.op = "stop all"
    BY <2>2, <2>3, <2>8 DEF Asks
  <2>9. CASE Asks(c, k, "sync all", "sync next", set) /\ k.op = "sync all"
    BY <2>2, <2>3, <2>9 DEF Asks
  <2>10. CASE call'[c] = Idle
    BY <2>10
  <2>. QED
    BY <2>4, <2>5, <2>6, <2>7, <2>8, <2>9, <2>10, RunDoes DEF Runs
<1>7. /\ Sound(call'[c]) /\ OpAt(call'[c])
      /\ call'[c].fresh /\ call'[c].tab \in Tabs => Open(call[c].tab)'
  <2>1. CASE call'[c] = Idle
    BY <2>1, IdleIs
  <2>2. ASSUME NEW op \in RunOps, NEW pc \in Pcs, NEW todo \in SUBSET Tabs,
               call'[c] = Moved(k, op, pc, todo), OpAt(Moved(k, op, pc, todo)),
               op = k.op \/ (k.op = "toggle" /\ op \in {"start", "stop"})
        PROVE  /\ Sound(call'[c]) /\ OpAt(call'[c])
               /\ call'[c].fresh /\ call'[c].tab \in Tabs => Open(call[c].tab)'
    <3>1. /\ call'[c] \in CallStates /\ call'[c].op = op /\ call'[c].tab = k.tab
          /\ call'[c].page = k.page /\ call'[c].fresh = k.fresh
      BY <1>0, <2>2, MovedIs
    <3>2. Sound(call'[c])
      BY <2>2, <3>1 DEF Sound
    <3>3. call'[c].fresh /\ call'[c].tab \in Tabs => Open(call[c].tab)'
      <4>1. SUFFICES ASSUME k.fresh PROVE Open(k.tab)'
        BY <3>1 DEF Open
      <4>. QED
        BY <1>3, <4>1
    <3>. QED
      BY <2>2, <3>2, <3>3
  <2>. QED
    BY <1>6, <2>1, <2>2
<1>8. CallsTyped'
  <2> DEFINE k2 == call'[c]
  <2>1. \A d \in Calls \ {c} : call'[d] = call[d]
    BY RunDoes
  <2>2. call' \in [Calls -> CallStates]
    <3>1. \E x : call' = [call EXCEPT ![c] = x]
      BY DEF Run, Answer, Ends, Go, stop
    <3>. QED
      BY <1>0, <1>7, <3>1 DEF CallsTyped, Sound
  <2>3. ASSUME NEW d \in Calls \ {c}
        PROVE  /\ Sound(call'[d]) /\ OpAt(call'[d])
               /\ call'[d].fresh /\ call'[d].tab \in Tabs => Open(call[d].tab)'
    BY <1>0, <1>3, <2>1 DEF CallsTyped, Open
  <2>. QED
    BY <1>7, <2>2, <2>3 DEF CallsTyped
<1>. QED
  BY <1>3, <1>4, <1>5, <1>8 DEF TypeInv

LEMMA BeginTyped ==
    ASSUME TypeInv, NEW c \in Calls, NEW k, Sound(k), k.op \in RunOps, k.todo = {},
           k.fresh => k.tab \in Tabs /\ Open(k.tab),
           NEW fs \in [Tabs -> Pages \union {None}], Begin(c, k, fs),
           pending' \in SUBSET Tabs, UNCHANGED mail \/ \E t \in Tabs : Hears(t)
    PROVE  TypeInv'
<1>1. CASE restored /\ restored' = restored /\ Run(c, k, active, fs)
  <2>1. active \in SUBSET Tabs /\ restored' \in BOOLEAN
    BY <1>1 DEF TypeInv, ModesTyped
  <2>. QED
    BY <1>1, <2>1, RunTyped
<1>2. CASE Waits(c, k, fs)
  <2>0. PICK read \in SUBSET Tabs : Go(c, Moved(k, k.op, "restore", read))
    BY <1>2 DEF Waits
  <2>e. PICK e : e = Moved(k, k.op, "restore", read)
    OBVIOUS
  <2>1. /\ e \in CallStates /\ e.op = k.op /\ e.tab = k.tab /\ e.page = k.page /\ e.fresh = k.fresh
        /\ e.pc = "restore"
    <3>1. k \in CallStates /\ k.op \in Ops /\ "restore" \in Pcs
      BY DEF Sound, CallStates, Pcs
    <3>. QED
      BY <2>e, <3>1, MovedIs
  <2>2. Sound(e) /\ OpAt(e)
    BY <2>1 DEF Sound, OpAt, RunOps
  <2>3. ModesTyped' /\ DocsTyped' /\ \A u \in Tabs : Open(u) => Open(u)'
    BY <1>2 DEF Waits, TypeInv, ModesTyped, DocsTyped, Open
  <2>4. e.fresh /\ e.tab \in Tabs => Open(e.tab)'
    <3>1. SUFFICES ASSUME k.fresh PROVE Open(k.tab)'
      BY <2>1 DEF Open
    <3>. QED
      BY <2>3, <3>1
  <2>5. CallsTyped'
    <3>1. call' = [call EXCEPT ![c] = e]
      BY <2>0, <2>e DEF Go
    <3>. QED
      BY <2>2, <2>3, <2>4, <3>1, CallStays DEF TypeInv
  <2>6. MailTyped'
    BY <2>3, MailStays, TailTyped DEF TypeInv
  <2>. QED
    BY <2>3, <2>5, <2>6 DEF TypeInv
<1>3. k \in CallStates
  BY DEF Sound
<1>. QED
  BY <1>1, <1>2, <1>3, BeginDoes

LEMMA NewCallIs ==
    ASSUME NEW op \in Ops, NEW t \in Tabs \union {None}
    PROVE  LET k == NewCall(op, t) IN
           /\ k \in CallStates /\ k.op = op /\ k.tab = t /\ k.pc = "idle" /\ k.page = None
           /\ ~k.fresh /\ ~k.on /\ k.todo = {}
           /\ op \notin {"ready", "none"} /\ t \in Tabs => Sound(k)
           /\ op \in {"stop all", "status", "sync all"} => Sound(k)
BY DEF NewCall, Idle, CallStates, Ops, Pcs, Sound

\* The call of a page that announces itself.
Announcing(t, msg) == [NewCall("ready", t) EXCEPT !.page = msg.page, !.fresh = msg.fresh]

LEMMA AnnouncingIs ==
    ASSUME NEW t \in Tabs, NEW msg \in Messages, msg.page \in Pages
    PROVE  LET k == Announcing(t, msg) IN
           /\ k \in CallStates /\ k.op = "ready" /\ k.tab = t /\ k.pc = "idle" /\ k.page = msg.page
           /\ k.fresh = msg.fresh /\ k.todo = {} /\ Sound(k)
<1>1. LET k == NewCall("ready", t) IN
        k \in CallStates /\ k.op = "ready" /\ k.tab = t /\ k.pc = "idle" /\ k.todo = {}
  <2>1. "ready" \in Ops /\ t \in Tabs \union {None}
    BY DEF Ops
  <2>. QED
    BY <2>1, NewCallIs
<1>. QED
  BY <1>1 DEF Announcing, CallStates, Messages, Sound

\* How a call comes to restore.
Comes(c, k, fs) ==
    /\ Sound(k) /\ k.op \in RunOps /\ k.todo = {}
    /\ k.fresh => k.tab \in Tabs /\ Open(k.tab)
    /\ fs \in [Tabs -> Pages \union {None}]
    /\ k.op = "ready" \/ fs = frames
    /\ \/ /\ At(c, "idle") /\ k.op \in {"toggle", "start", "stop"}
          /\ k.tab \in Tabs /\ Open(k.tab) /\ ~k.fresh
          /\ UNCHANGED <<pending, mail>>
       \/ /\ At(c, "idle") /\ k.op \in {"stop all", "status"} /\ k.tab = None /\ ~k.fresh
          /\ UNCHANGED <<pending, mail>>
       \/ /\ At(c, "idle") /\ k.op = "updated"
          /\ k.tab \in pending /\ pending' = pending \ {k.tab} /\ ~k.fresh
          /\ UNCHANGED mail
       \/ /\ At(c, "idle") /\ k.op = "ready"
          /\ k.tab \in Tabs /\ Open(k.tab) /\ Hears(k.tab)
          /\ mail[k.tab][1].type = "READY"
          /\ k.page = mail[k.tab][1].page /\ k.page \in Pages /\ k.fresh = mail[k.tab][1].fresh
          /\ fs = [frames EXCEPT ![k.tab] = k.page]
          /\ UNCHANGED pending
       \/ /\ At(c, "idle") /\ k.op = "stop"
          /\ k.tab \in Tabs /\ Open(k.tab) /\ Hears(k.tab)
          /\ mail[k.tab][1].type = "STOP" /\ ~k.fresh
          /\ UNCHANGED pending
       \/ /\ At(c, "saved") /\ k.op = "sync all" /\ ~k.fresh
          /\ UNCHANGED <<pending, mail>>

\* The steps of a call that comes to restore.
Starts(c) ==
    toggleAnnotate(c) \/ annotate(c) \/ handleTabUpdated(c) \/ handlePageMessage(c) \/ syncAll(c)

LEMMA StartsDo ==
    ASSUME TypeInv, NEW c \in Calls, Starts(c)
    PROVE  \E k, fs : Comes(c, k, fs) /\ Begin(c, k, fs)
<1>1. frames \in [Tabs -> Pages \union {None}] /\ pending \in SUBSET Tabs
  BY DEF TypeInv, ModesTyped
<1>2. ASSUME toggleAnnotate(c) \/ annotate(c)
      PROVE  \E k, fs : Comes(c, k, fs) /\ Begin(c, k, fs)
  <2>1. At(c, "idle") /\ UNCHANGED <<pending, mail>>
    BY <1>2 DEF toggleAnnotate, annotate
  <2>2. ASSUME NEW op \in {"toggle", "start", "stop"}, NEW t \in Tabs, Open(t),
               Begin(c, NewCall(op, t), frames)
        PROVE  Comes(c, NewCall(op, t), frames)
    <3>1. op \in Ops /\ op \in RunOps
      BY DEF Ops, RunOps
    <3> DEFINE k == NewCall(op, t)
    <3>2. k.op = op /\ k.tab = t /\ ~k.fresh /\ k.todo = {} /\ Sound(k)
      BY <3>1, NewCallIs
    <3> HIDE DEF k
    <3>3. Comes(c, k, frames)
      BY <1>1, <2>1, <2>2, <3>1, <3>2 DEF Comes
    <3>. QED
      BY <3>3 DEF k
  <2>3. ASSUME NEW op \in {"stop all", "status"}, Begin(c, NewCall(op, None), frames)
        PROVE  Comes(c, NewCall(op, None), frames)
    <3>1. op \in Ops /\ op \in RunOps
      BY DEF Ops, RunOps
    <3> DEFINE k == NewCall(op, None)
    <3>2. k.op = op /\ k.tab = None /\ ~k.fresh /\ k.todo = {} /\ Sound(k)
      BY <3>1, NewCallIs
    <3> HIDE DEF k
    <3>3. Comes(c, k, frames)
      BY <1>1, <2>1, <2>3, <3>1, <3>2 DEF Comes
    <3>. QED
      BY <3>3 DEF k
  <2>4. \/ \E op \in {"toggle", "start", "stop"}, t \in Tabs : Open(t) /\ Begin(c, NewCall(op, t), frames)
        \/ \E op \in {"stop all", "status"} : Begin(c, NewCall(op, None), frames)
    BY <1>2 DEF toggleAnnotate, annotate
  <2>. QED
    BY <2>2, <2>3, <2>4
<1>3. ASSUME handleTabUpdated(c) PROVE \E k, fs : Comes(c, k, fs) /\ Begin(c, k, fs)
  <2>1. PICK t \in pending : pending' = pending \ {t} /\ Begin(c, NewCall("updated", t), frames)
    BY <1>3 DEF handleTabUpdated
  <2>2. At(c, "idle") /\ UNCHANGED mail /\ t \in Tabs
    BY <1>1, <1>3 DEF handleTabUpdated
  <2> DEFINE k == NewCall("updated", t)
  <2>3. k.op = "updated" /\ k.tab = t /\ ~k.fresh /\ k.todo = {} /\ Sound(k)
    <3>1. "updated" \in Ops
      BY DEF Ops
    <3>. QED
      BY <2>2, <3>1, NewCallIs
  <2> HIDE DEF k
  <2>4. Comes(c, k, frames)
    BY <1>1, <2>1, <2>2, <2>3 DEF Comes, RunOps
  <2>. QED
    BY <2>1, <2>4 DEF k
<1>4. ASSUME handlePageMessage(c) PROVE \E k, fs : Comes(c, k, fs) /\ Begin(c, k, fs)
  <2>1. PICK t \in Tabs :
          /\ mail[t] # <<>>
          /\ mail' = [mail EXCEPT ![t] = Tail(@)]
          /\ LET msg == Head(mail[t]) IN
               \/ /\ msg.type = "READY"
                  /\ Begin(c, Announcing(t, msg), [frames EXCEPT ![t] = msg.page])
               \/ msg.type = "STOP" /\ Begin(c, NewCall("stop", t), frames)
    BY <1>4 DEF handlePageMessage, Announcing
  <2>2. PICK msg : msg = mail[t][1]
    OBVIOUS
  <2>3. Hears(t) /\ Head(mail[t]) = msg /\ msg \in Messages /\ 1 \in DOMAIN mail[t]
    BY <2>1, <2>2, TailIs DEF Hears, TypeInv
  <2>4. Open(t) /\ (msg.type = "READY" => msg.page \in Pages)
    BY <2>2, <2>3 DEF TypeInv, MailTyped
  <2>5. At(c, "idle") /\ UNCHANGED pending
    BY <1>4 DEF handlePageMessage
  <2>6. CASE /\ msg.type = "READY"
             /\ Begin(c, Announcing(t, msg), [frames EXCEPT ![t] = msg.page])
    <3> DEFINE k == Announcing(t, msg)
    <3>1. /\ k.op = "ready" /\ k.tab = t /\ k.page = msg.page /\ k.fresh = msg.fresh
          /\ k.todo = {} /\ Sound(k)
      BY <2>3, <2>4, <2>6, AnnouncingIs
    <3> HIDE DEF k
    <3>2. [frames EXCEPT ![t] = msg.page] \in [Tabs -> Pages \union {None}]
      BY <1>1, <2>4, <2>6
    <3>3. Comes(c, k, [frames EXCEPT ![t] = msg.page])
      BY <2>2, <2>3, <2>4, <2>5, <2>6, <3>1, <3>2 DEF Comes, RunOps
    <3>. QED
      BY <2>6, <3>3 DEF k
  <2>7. CASE msg.type = "STOP" /\ Begin(c, NewCall("stop", t), frames)
    <3> DEFINE k == NewCall("stop", t)
    <3>1. k.op = "stop" /\ k.tab = t /\ ~k.fresh /\ k.todo = {} /\ Sound(k)
      <4>1. "stop" \in Ops
        BY DEF Ops
      <4>. QED
        BY <4>1, NewCallIs
    <3> HIDE DEF k
    <3>2. Comes(c, k, frames)
      BY <1>1, <2>2, <2>3, <2>4, <2>5, <2>7, <3>1 DEF Comes, RunOps
    <3>. QED
      BY <2>7, <3>2 DEF k
  <2>. QED
    BY <2>1, <2>3, <2>6, <2>7
<1>5. ASSUME syncAll(c) PROVE \E k, fs : Comes(c, k, fs) /\ Begin(c, k, fs)
  <2>1. At(c, "saved") /\ Begin(c, call[c], frames) /\ UNCHANGED <<pending, mail>>
    BY <1>5 DEF syncAll
  <2>2. PICK k : k = call[c]
    OBVIOUS
  <2>3. Sound(k) /\ OpAt(k) /\ k.pc = "saved" /\ (k.fresh /\ k.tab \in Tabs => Open(k.tab))
    BY <2>1, <2>2 DEF At, TypeInv, CallsTyped
  <2>4. k.op = "sync all" /\ k.todo = {} /\ ~k.fresh
    BY <2>3 DEF OpAt
  <2>5. Comes(c, k, frames)
    BY <1>1, <2>1, <2>3, <2>4 DEF Comes, RunOps
  <2>. QED
    BY <2>1, <2>2, <2>5
<1>. QED
  BY <1>2, <1>3, <1>4, <1>5 DEF Starts

\* The storage has been read.
LEMMA RestoreDoes ==
    ASSUME TypeInv, NEW c \in Calls, Restore(c)
    PROVE  LET k == [call[c] EXCEPT !.todo = {}] IN
           /\ Run(c, k, Restored(c), frames) /\ Restored(c) \in SUBSET Tabs
           /\ Sound(k) /\ k.op = call[c].op /\ k.op \in RunOps /\ k.todo = {} /\ k.tab = call[c].tab
           /\ k.fresh = call[c].fresh /\ k.page = call[c].page /\ k.pc = "restore"
           /\ k.fresh => k.tab \in Tabs /\ Open(k.tab)
           /\ At(c, "restore") /\ UNCHANGED <<restored, pending, mail>>
<1> DEFINE k == [call[c] EXCEPT !.todo = {}]
<1>1. /\ call[c] \in CallStates /\ Sound(call[c]) /\ OpAt(call[c]) /\ call[c].pc = "restore"
      /\ call[c].fresh /\ call[c].tab \in Tabs => Open(call[c].tab)
  BY DEF Restore, At, TypeInv, CallsTyped
<1>2. /\ k.op = call[c].op /\ k.todo = {} /\ k.tab = call[c].tab
      /\ k.fresh = call[c].fresh /\ k.page = call[c].page /\ k.pc = "restore" /\ k \in CallStates
  BY <1>1 DEF CallStates
<1>3. Run(c, k, Restored(c), frames) /\ At(c, "restore") /\ UNCHANGED <<restored, pending, mail>>
  BY DEF Restore
<1>4. Restored(c) \in SUBSET Tabs
  BY <1>1 DEF Restored, TypeInv, ModesTyped, CallStates
<1> HIDE DEF k
<1>5. Sound(k) /\ k.op \in RunOps
  BY <1>1, <1>2 DEF Sound, OpAt
<1>6. k.fresh => k.tab \in Tabs /\ Open(k.tab)
  BY <1>1, <1>2, <1>5 DEF Sound
<1>. QED
  BY <1>2, <1>3, <1>4, <1>5, <1>6 DEF k

LEMMA StartsTyped ==
    ASSUME TypeInv, NEW c \in Calls, Starts(c) \/ Restore(c) PROVE TypeInv'
<1>1. CASE Starts(c)
  <2>1. PICK k, fs : Comes(c, k, fs) /\ Begin(c, k, fs)
    BY <1>1, StartsDo
  <2>2. pending' \in SUBSET Tabs /\ (UNCHANGED mail \/ \E t \in Tabs : Hears(t))
    BY <2>1 DEF Comes, TypeInv, ModesTyped
  <2>3. /\ Sound(k) /\ k.op \in RunOps /\ k.todo = {}
        /\ k.fresh => k.tab \in Tabs /\ Open(k.tab)
        /\ fs \in [Tabs -> Pages \union {None}]
    BY <2>1 DEF Comes
  <2>. QED
    BY <2>1, <2>2, <2>3, BeginTyped
<1>2. CASE Restore(c)
  <2>1. PICK k : k = [call[c] EXCEPT !.todo = {}]
    OBVIOUS
  <2>2. /\ Run(c, k, Restored(c), frames) /\ Restored(c) \in SUBSET Tabs
        /\ Sound(k) /\ k.op \in RunOps /\ k.todo = {}
        /\ k.fresh => k.tab \in Tabs /\ Open(k.tab)
        /\ UNCHANGED <<restored, pending, mail>>
    BY <1>2, <2>1, RestoreDoes
  <2>3. /\ frames \in [Tabs -> Pages \union {None}]
        /\ pending' \in SUBSET Tabs /\ restored' \in BOOLEAN
    BY <2>2 DEF TypeInv, ModesTyped
  <2>. QED
    BY <2>2, <2>3, RunTyped
<1>. QED
  BY <1>1, <1>2

\* The document of a tab stays, with this overlay and these pins.
Redone(t, loaded, located, mode, pins) ==
    /\ doc[t] \in Docs /\ doc'[t] \in Docs
    /\ doc'[t].page = doc[t].page
    /\ doc'[t].loaded = loaded /\ doc'[t].located = located
    /\ doc'[t].mode = mode /\ doc'[t].pins = pins
    /\ \A u \in Tabs \ {t} : doc'[u] = doc[u]

Redrawn(t) == Redone(t, doc[t].loaded, doc[t].located, doc[t].mode, doc[t].pins)

LEMMA TypedStep ==
    ASSUME TypeInv, ModesTyped', DocsTyped', \A u \in Tabs : Open(u) => Open(u)',
           UNCHANGED <<mail, call>>
    PROVE  TypeInv'
BY MailStays, CallsSame DEF TypeInv

LEMMA CardDoes ==
    ASSUME TypeInv, NEW t \in Tabs, onClick(t) \/ openViewer(t) \/ onEscape(t)
    PROVE  /\ TypeInv' /\ Redrawn(t) /\ doc[t].mode
           /\ UNCHANGED <<worker, pending, modes, notes, call, wanted, torn, stale, disturbed, mail>>
<1> DEFINE d == doc[t]
<1>1. Open(t) /\ d.mode /\ d \in Docs
  BY DEF onClick, openViewer, onEscape, Annotating, TypeInv, DocsTyped, Open
<1>2. UNCHANGED <<worker, pending, modes, notes, call, wanted, torn, stale, disturbed, mail>>
  BY DEF onClick, openViewer, onEscape, OnlyPage
<1>3. ModesTyped'
  BY <1>2 DEF TypeInv, ModesTyped, worker
<1>4. PICK e \in Docs : /\ Page(t, e) /\ e.mode /\ e.page = d.page /\ e.loaded = d.loaded
                        /\ e.located = d.located /\ e.pins = d.pins
  <2>1. CASE Page(t, closeCard(d))
    <3> DEFINE e == closeCard(d)
    <3>1. /\ e \in Docs /\ e.mode = d.mode /\ e.page = d.page /\ e.loaded = d.loaded
          /\ e.located = d.located /\ e.pins = d.pins
      BY <1>1, DocIs
    <3> HIDE DEF e
    <3>. QED
      BY <1>1, <2>1, <3>1 DEF e
  <2>2. CASE Page(t, openComposer(d))
    <3> DEFINE e == openComposer(d)
    <3>1. /\ e \in Docs /\ e.mode = d.mode /\ e.page = d.page /\ e.loaded = d.loaded
          /\ e.located = d.located /\ e.pins = d.pins
      BY <1>1, DocIs
    <3> HIDE DEF e
    <3>. QED
      BY <1>1, <2>2, <3>1 DEF e
  <2>3. CASE Page(t, [d EXCEPT !.card = "viewer"])
    <3> DEFINE e == [d EXCEPT !.card = "viewer"]
    <3>1. /\ e \in Docs /\ e.mode = d.mode /\ e.page = d.page /\ e.loaded = d.loaded
          /\ e.located = d.located /\ e.pins = d.pins
      BY <1>1 DEF Docs
    <3> HIDE DEF e
    <3>. QED
      BY <1>1, <2>3, <3>1 DEF e
  <2>. QED
    BY <2>1, <2>2, <2>3 DEF onClick, openViewer, onEscape
<1>5. /\ DocsTyped' /\ doc'[t] = e /\ (\A u \in Tabs \ {t} : doc'[u] = doc[u])
      /\ \A u \in Tabs : Open(u) => Open(u)'
  BY <1>4, PageIs DEF TypeInv
<1>6. TypeInv'
  BY <1>2, <1>3, <1>5, TypedStep
<1>. QED
  BY <1>1, <1>2, <1>4, <1>5, <1>6 DEF Redrawn, Redone

LEMMA DoneDoes ==
    ASSUME TypeInv, NEW t \in Tabs, Done(t)
    PROVE  /\ TypeInv' /\ doc[t].mode
           /\ Redone(t, doc[t].loaded, doc[t].located, FALSE, doc[t].pins)
           /\ Send(t, "STOP") /\ Open(t)
           /\ UNCHANGED <<worker, pending, modes, notes, call, wanted, torn, stale, disturbed>>
<1> DEFINE d == doc[t]
           e == SetMode(d, FALSE)
<1>1. Open(t) /\ d.mode /\ d \in Docs /\ Page(t, e) /\ Send(t, "STOP")
  BY DEF Done, Annotating, TypeInv, DocsTyped, Open
<1>2. UNCHANGED <<worker, pending, modes, notes, call, wanted, torn, stale, disturbed>>
  BY DEF Done, OnlyPage
<1>3. ModesTyped'
  BY <1>2 DEF TypeInv, ModesTyped, worker
<1>4. /\ e \in Docs /\ ~e.mode /\ e.card = "none" /\ e.page = d.page /\ e.loaded = d.loaded
      /\ e.located = d.located /\ e.pins = d.pins
  BY <1>1, DocIs
<1> HIDE DEF e
<1>5. /\ DocsTyped' /\ doc'[t] = e /\ (\A u \in Tabs \ {t} : doc'[u] = doc[u])
      /\ \A u \in Tabs : Open(u) => Open(u)'
  BY <1>1, <1>4, PageIs DEF TypeInv
<1>6. MailTyped'
  BY <1>1, <1>5, SendTyped DEF TypeInv
<1>7. CallsTyped'
  BY <1>2, <1>5, CallsSame DEF TypeInv
<1>. QED
  BY <1>1, <1>2, <1>3, <1>4, <1>5, <1>6, <1>7 DEF Redone, TypeInv

\* The worker tells one tab after an edit there.
LEMMA EditDoes ==
    ASSUME TypeInv, NEW c \in Calls, NEW t \in Tabs, submit(c, t) \/ ViewerEdit(c, t)
    PROVE  /\ TypeInv' /\ Redrawn(t) /\ doc[t].mode /\ At(c, "idle")
           /\ LET k == call'[c] IN k.op = "edit" /\ k.tab = t /\ k.pc = "sync" /\ k.todo = {}
           /\ \A d \in Calls \ {c} : call'[d] = call[d]
           /\ stale' = (IF notes' = notes THEN stale ELSE stale \union (Tabs \ {t}))
           /\ UNCHANGED <<active, frames, restored, modes, pending, mail, wanted, torn, disturbed>>
<1> DEFINE d == doc[t]
<1>1. Open(t) /\ d.mode /\ d \in Docs /\ At(c, "idle") /\ \E viewer \in BOOLEAN : Edited(c, t, viewer)
  BY DEF submit, ViewerEdit, Annotating, TypeInv, DocsTyped, Open
<1>2. notes' \in [Notes -> Statuses]
  <2>1. notes' = notes \/ \E n \in Notes, st \in Statuses : notes' = [notes EXCEPT ![n] = st]
    BY ModeAssumption DEF submit, ViewerEdit
  <2>. QED
    BY <2>1 DEF TypeInv, ModesTyped
<1>3. /\ stale' = (IF notes' = notes THEN stale ELSE stale \union (Tabs \ {t}))
      /\ UNCHANGED <<active, frames, restored, modes, pending, mail, wanted, torn, disturbed>>
  BY <1>1 DEF Edited
<1>4. ModesTyped'
  BY <1>2, <1>3 DEF TypeInv, ModesTyped
<1>5. /\ DocsTyped' /\ Redrawn(t) /\ Open(t)' /\ \A u \in Tabs : Open(u) => Open(u)'
  <2>1. CASE Page(t, closeCard(d))
    <3> DEFINE e == closeCard(d)
    <3>1. /\ e \in Docs /\ e.mode = d.mode /\ e.page = d.page /\ e.loaded = d.loaded
          /\ e.located = d.located /\ e.pins = d.pins
      BY <1>1, DocIs
    <3> HIDE DEF e
    <3>2. /\ DocsTyped' /\ doc'[t] = e /\ (\A u \in Tabs \ {t} : doc'[u] = doc[u])
          /\ Open(t)' /\ \A u \in Tabs : Open(u) => Open(u)'
      BY <1>1, <2>1, <3>1, PageIs DEF TypeInv, e
    <3>. QED
      BY <1>1, <3>1, <3>2 DEF Redrawn, Redone
  <2>2. CASE UNCHANGED doc
    BY <1>1, <2>2 DEF DocsTyped, Open, Redrawn, Redone, TypeInv
  <2>. QED
    BY <2>1, <2>2 DEF submit, ViewerEdit
<1>6. PICK viewer \in BOOLEAN : Go(c, [NewCall("edit", t) EXCEPT !.pc = "sync", !.fresh = TRUE, !.on = viewer])
  BY <1>1 DEF Edited
<1> DEFINE k == [NewCall("edit", t) EXCEPT !.pc = "sync", !.fresh = TRUE, !.on = viewer]
<1>7. k.op = "edit" /\ k.tab = t /\ k.pc = "sync" /\ k.todo = {} /\ Sound(k) /\ OpAt(k)
  <2>1. "edit" \in Ops /\ "sync" \in Pcs /\ t \in Tabs \union {None}
    BY DEF Ops, Pcs
  <2>2. LET j == NewCall("edit", t) IN j \in CallStates /\ j.op = "edit" /\ j.tab = t /\ j.todo = {}
    BY <2>1, NewCallIs
  <2>3. k \in CallStates /\ k.op = "edit" /\ k.tab = t /\ k.pc = "sync" /\ k.todo = {}
    BY <1>6, <2>1, <2>2 DEF CallStates
  <2> HIDE DEF k
  <2>. QED
    BY <2>3 DEF Sound, OpAt
<1> HIDE DEF k
<1>8. call' = [call EXCEPT ![c] = k]
  BY <1>6 DEF Go, k
<1>9. CallsTyped' /\ call'[c] = k /\ \A b \in Calls \ {c} : call'[b] = call[b]
  <2>1. k.fresh /\ k.tab \in Tabs => Open(k.tab)'
    BY <1>5, <1>7
  <2>. QED
    BY <1>5, <1>7, <1>8, <2>1, CallStays DEF TypeInv
<1>10. MailTyped'
  BY <1>3, <1>5, MailStays DEF TypeInv
<1>. QED
  BY <1>1, <1>3, <1>4, <1>5, <1>7, <1>9, <1>10 DEF TypeInv

LEMMA AgentEditDoes ==
    ASSUME TypeInv, NEW c \in Calls, AgentEdit(c)
    PROVE  /\ TypeInv' /\ At(c, "idle")
           /\ LET k == call'[c] IN k.op = "sync all" /\ k.tab = None /\ k.pc = "saved" /\ k.todo = {}
           /\ \A d \in Calls \ {c} : call'[d] = call[d]
           /\ UNCHANGED <<active, frames, restored, modes, doc, pending, mail, wanted, torn, stale, disturbed>>
<1> DEFINE k == [NewCall("sync all", None) EXCEPT !.pc = "saved"]
<1>1. /\ At(c, "idle") /\ call' = [call EXCEPT ![c] = k]
      /\ \E n \in Notes, st \in Statuses : notes' = [notes EXCEPT ![n] = st]
      /\ UNCHANGED <<active, frames, restored, modes, doc, pending, mail, wanted, torn, stale, disturbed>>
  BY DEF AgentEdit, Go, chrome, ghosts
<1>2. k.op = "sync all" /\ k.tab = None /\ k.pc = "saved" /\ k.todo = {} /\ Sound(k) /\ OpAt(k) /\ ~k.fresh
  <2>1. "sync all" \in Ops /\ "saved" \in Pcs /\ None \in Tabs \union {None}
    BY DEF Ops, Pcs
  <2>2. LET j == NewCall("sync all", None) IN
          j \in CallStates /\ j.op = "sync all" /\ j.tab = None /\ j.todo = {} /\ ~j.fresh
    BY <2>1, NewCallIs
  <2>3. k \in CallStates /\ k.op = "sync all" /\ k.tab = None /\ k.pc = "saved" /\ k.todo = {} /\ ~k.fresh
    BY <2>1, <2>2 DEF CallStates
  <2> HIDE DEF k
  <2>. QED
    BY <2>3 DEF Sound, OpAt, RunOps
<1> HIDE DEF k
<1>3. ModesTyped' /\ DocsTyped' /\ \A u \in Tabs : Open(u) => Open(u)'
  BY <1>1 DEF TypeInv, ModesTyped, DocsTyped, Open
<1>4. CallsTyped' /\ call'[c] = k /\ \A b \in Calls \ {c} : call'[b] = call[b]
  BY <1>1, <1>2, <1>3, CallStays DEF TypeInv
<1>5. MailTyped'
  BY <1>1, <1>3, MailStays DEF TypeInv
<1>. QED
  BY <1>1, <1>2, <1>3, <1>4, <1>5 DEF TypeInv

LEMMA LocateDoes ==
    ASSUME TypeInv, NEW c \in Calls, locate(c)
    PROVE  /\ TypeInv' /\ At(c, "idle")
           /\ \E t \in Tabs : LET k == call'[c] IN
                Open(t) /\ k.op = "locate" /\ k.tab = t /\ k.pc = "inject" /\ k.todo = {} /\ ~k.fresh
           /\ \A d \in Calls \ {c} : call'[d] = call[d]
           /\ UNCHANGED <<worker, modes, notes, chrome, ghosts>>
<1>1. PICK t \in Tabs : Open(t) /\ Go(c, [NewCall("locate", t) EXCEPT !.pc = "inject"])
  BY DEF locate
<1> DEFINE k == [NewCall("locate", t) EXCEPT !.pc = "inject"]
<1>2. At(c, "idle") /\ call' = [call EXCEPT ![c] = k] /\ UNCHANGED <<worker, modes, notes, chrome, ghosts>>
  BY <1>1 DEF locate, Go
<1>3. k.op = "locate" /\ k.tab = t /\ k.pc = "inject" /\ k.todo = {} /\ Sound(k) /\ OpAt(k) /\ ~k.fresh
  <2>1. "locate" \in Ops /\ "inject" \in Pcs /\ t \in Tabs \union {None}
    BY DEF Ops, Pcs
  <2>2. LET j == NewCall("locate", t) IN
          j \in CallStates /\ j.op = "locate" /\ j.tab = t /\ j.todo = {} /\ ~j.fresh
    BY <2>1, NewCallIs
  <2>3. k \in CallStates /\ k.op = "locate" /\ k.tab = t /\ k.pc = "inject" /\ k.todo = {} /\ ~k.fresh
    BY <2>1, <2>2 DEF CallStates
  <2> HIDE DEF k
  <2>. QED
    BY <2>3 DEF Sound, OpAt
<1> HIDE DEF k
<1>4. ModesTyped' /\ DocsTyped' /\ MailTyped' /\ \A u \in Tabs : Open(u) => Open(u)'
  BY <1>2 DEF TypeInv, ModesTyped, DocsTyped, MailTyped, Open, worker, chrome, ghosts
<1>5. CallsTyped' /\ call'[c] = k /\ \A b \in Calls \ {c} : call'[b] = call[b]
  BY <1>2, <1>3, <1>4, CallStays DEF TypeInv
<1>. QED
  BY <1>1, <1>2, <1>3, <1>4, <1>5 DEF TypeInv

LEMMA EndsTyped ==
    ASSUME CallsTyped, \A u \in Tabs : Open(u) => Open(u)', NEW c \in Calls, Ends(c)
    PROVE  CallsTyped' /\ call'[c] = Idle /\ \A d \in Calls \ {c} : call'[d] = call[d]
BY IdleIs, CallStays DEF Ends, Go

\* A call that goes on from one place to another.
Goes(c, pc) ==
    LET j == call[c]
        k == call'[c] IN
      k.op = j.op /\ k.pc = pc /\ k.todo = j.todo /\ k.tab = j.tab /\ k.page = j.page /\ k.fresh = j.fresh

LEMMA GoesTyped ==
    ASSUME CallsTyped, \A u \in Tabs : Open(u) => Open(u)', NEW c \in Calls, NEW pc \in Pcs,
           Go(c, [call[c] EXCEPT !.pc = pc]),
           \/ pc = "inject" /\ call[c].op = "start"
           \/ pc \in {"on", "sync"} /\ call[c].op \in {"start", "updated"}
           \/ pc = "stop next" /\ call[c].op = "stop"
    PROVE  CallsTyped' /\ Goes(c, pc) /\ \A d \in Calls \ {c} : call'[d] = call[d]
<1>1. PICK j : j = call[c]
  OBVIOUS
<1>2. PICK k : k = [j EXCEPT !.pc = pc]
  OBVIOUS
<1>3. j \in CallStates /\ Sound(j) /\ OpAt(j) /\ (j.fresh /\ j.tab \in Tabs => Open(j.tab))
  BY <1>1 DEF CallsTyped
<1>4. /\ k \in CallStates /\ k.op = j.op /\ k.pc = pc /\ k.todo = j.todo /\ k.tab = j.tab
      /\ k.page = j.page /\ k.fresh = j.fresh
  BY <1>2, <1>3 DEF CallStates
<1>5. Sound(k) /\ OpAt(k)
  BY <1>1, <1>3, <1>4 DEF Sound, OpAt
<1>6. k.fresh /\ k.tab \in Tabs => Open(k.tab)'
  <2>1. SUFFICES ASSUME k.fresh, k.tab \in Tabs PROVE Open(k.tab)'
    OBVIOUS
  <2>2. Open(k.tab)
    BY <1>3, <1>4, <2>1
  <2>. QED
    BY <2>1, <2>2
<1>7. call' = [call EXCEPT ![c] = k]
  BY <1>1, <1>2 DEF Go
<1>8. CallsTyped' /\ call'[c] = k /\ \A d \in Calls \ {c} : call'[d] = call[d]
  BY <1>5, <1>6, <1>7, CallStays
<1>. QED
  BY <1>1, <1>4, <1>8 DEF Goes

LEMMA GetDoes ==
    ASSUME TypeInv, NEW c \in Calls, Get(c)
    PROVE  LET t == call[c].tab IN
           /\ TypeInv' /\ At(c, "get") /\ call[c].op = "start" /\ t \in Tabs
           /\ \A d \in Calls \ {c} : call'[d] = call[d]
           /\ \/ /\ Annotatable(t)
                 /\ active' = active \union {t} /\ Persists(active \union {t}) /\ wanted' = wanted \union {t}
                 /\ Goes(c, "inject")
              \/ ~Annotatable(t) /\ call'[c] = Idle /\ UNCHANGED <<active, modes, wanted, disturbed>>
           /\ UNCHANGED <<frames, restored, notes, doc, pending, mail, torn, stale>>
<1> DEFINE t == call[c].tab
<1>1. At(c, "get") /\ UNCHANGED <<frames, restored, notes, doc, pending, mail, torn, stale>>
  BY DEF Get, chrome
<1>2. call[c].op = "start" /\ t \in Tabs
  BY <1>1 DEF TypeInv, CallsTyped, OpAt, Sound, At
<1>3. DocsTyped' /\ MailTyped' /\ \A u \in Tabs : Open(u) => Open(u)'
  BY <1>1 DEF TypeInv, DocsTyped, MailTyped, Open
<1>4. CASE Annotatable(t)
  <2>1. /\ active' = active \union {t} /\ Persists(active \union {t}) /\ wanted' = wanted \union {t}
        /\ Go(c, [call[c] EXCEPT !.pc = "inject"])
    BY <1>4 DEF Get, persistModes, Persists, TypeInv, ModesTyped
  <2>2. ModesTyped'
    BY <1>1, <1>2, <2>1 DEF TypeInv, ModesTyped, Persists
  <2>3. CallsTyped' /\ Goes(c, "inject") /\ \A d \in Calls \ {c} : call'[d] = call[d]
    BY <1>2, <1>3, <2>1, GoesTyped DEF TypeInv, Pcs
  <2>. QED
    BY <1>1, <1>2, <1>3, <1>4, <2>1, <2>2, <2>3 DEF TypeInv
<1>5. CASE ~Annotatable(t)
  <2>1. Ends(c) /\ UNCHANGED <<active, modes, wanted, disturbed>>
    BY <1>5 DEF Get
  <2>2. ModesTyped'
    BY <1>1, <2>1 DEF TypeInv, ModesTyped
  <2>3. CallsTyped' /\ call'[c] = Idle /\ \A d \in Calls \ {c} : call'[d] = call[d]
    BY <1>3, <2>1, EndsTyped DEF TypeInv
  <2>. QED
    BY <1>1, <1>2, <1>3, <1>5, <2>1, <2>2, <2>3 DEF TypeInv
<1>. QED
  BY <1>4, <1>5

LEMMA InjectDoes ==
    ASSUME TypeInv, NEW c \in Calls, inject(c)
    PROVE  LET t == call[c].tab
               d == doc[t]
               located == call[c].op = "locate" IN
           /\ TypeInv' /\ At(c, "inject") /\ t \in Tabs /\ call[c].op \in {"start", "updated", "locate"}
           /\ \A b \in Calls \ {c} : call'[b] = call[b]
           /\ \/ /\ Annotatable(t) /\ Open(t)
                 /\ Redone(t, TRUE, d.located \/ (located /\ ~d.loaded), d.mode, d.pins)
                 /\ Send(t, "READY") /\ d.page \in Pages
                 /\ IF located THEN call'[c] = Idle ELSE Goes(c, "on")
              \/ ~Annotatable(t) /\ call'[c] = Idle /\ UNCHANGED <<doc, mail>>
           /\ UNCHANGED <<worker, modes, notes, pending, ghosts>>
<1> DEFINE t == call[c].tab
           d == doc[t]
           located == call[c].op = "locate"
<1>1. At(c, "inject") /\ UNCHANGED <<worker, modes, notes, pending, ghosts>>
  BY DEF inject
<1>2. call[c].op \in {"start", "updated", "locate"} /\ t \in Tabs
  BY <1>1 DEF TypeInv, CallsTyped, OpAt, Sound, At
<1>3. ModesTyped'
  BY <1>1 DEF TypeInv, ModesTyped, worker, ghosts
<1>4. CASE Annotatable(t)
  <2> DEFINE e == [d EXCEPT !.loaded = TRUE, !.located = @ \/ (located /\ ~d.loaded)]
  <2>1. Open(t) /\ d \in Docs /\ d.page \in Pages
    BY <1>2, <1>4 DEF Annotatable, TypeInv, DocsTyped, Open, Docs
  <2>2. /\ e \in Docs /\ e.page = d.page /\ e.loaded = TRUE /\ e.mode = d.mode /\ e.pins = d.pins
        /\ e.located = (d.located \/ (located /\ ~d.loaded)) /\ e.card = d.card
    BY <2>1 DEF Docs
  <2>3. Page(t, e) /\ Send(t, "READY") /\ (IF located THEN Ends(c) ELSE Go(c, [call[c] EXCEPT !.pc = "on"]))
    BY <1>4 DEF inject
  <2>4. d.mode \/ d.card = "none"
    BY <1>2, <2>1 DEF TypeInv, DocsTyped
  <2> HIDE DEF e
  <2>5. /\ DocsTyped' /\ doc'[t] = e /\ (\A u \in Tabs \ {t} : doc'[u] = doc[u])
        /\ \A u \in Tabs : Open(u) => Open(u)'
    BY <1>2, <2>1, <2>2, <2>3, <2>4, PageIs DEF TypeInv
  <2>6. MailTyped'
    BY <1>2, <2>1, <2>3, <2>5, SendTyped DEF TypeInv
  <2>7. /\ CallsTyped' /\ (IF located THEN call'[c] = Idle ELSE Goes(c, "on"))
        /\ \A b \in Calls \ {c} : call'[b] = call[b]
    BY <1>2, <2>3, <2>5, EndsTyped, GoesTyped DEF TypeInv, Pcs
  <2>8. Redone(t, TRUE, d.located \/ (located /\ ~d.loaded), d.mode, d.pins)
    BY <2>1, <2>2, <2>5 DEF Redone
  <2>. QED
    BY <1>1, <1>2, <1>3, <1>4, <2>1, <2>3, <2>5, <2>6, <2>7, <2>8 DEF TypeInv
<1>5. CASE ~Annotatable(t)
  <2>1. Ends(c) /\ UNCHANGED <<doc, mail>>
    BY <1>5 DEF inject
  <2>2. DocsTyped' /\ MailTyped' /\ \A u \in Tabs : Open(u) => Open(u)'
    BY <2>1 DEF TypeInv, DocsTyped, MailTyped, Open
  <2>3. CallsTyped' /\ call'[c] = Idle /\ \A b \in Calls \ {c} : call'[b] = call[b]
    BY <2>1, <2>2, EndsTyped DEF TypeInv
  <2>. QED
    BY <1>1, <1>2, <1>3, <1>5, <2>1, <2>2, <2>3 DEF TypeInv
<1>. QED
  BY <1>4, <1>5

LEMMA SetModeOnDoes ==
    ASSUME TypeInv, NEW c \in Calls, SetModeOn(c)
    PROVE  LET t == call[c].tab
               d == doc[t] IN
           /\ TypeInv' /\ At(c, "on") /\ t \in Tabs /\ call[c].op \in {"start", "updated"}
           /\ Goes(c, "sync") /\ \A b \in Calls \ {c} : call'[b] = call[b]
           /\ \/ Open(t) /\ d.loaded /\ Redone(t, TRUE, d.located, TRUE, d.pins)
              \/ (Open(t) => ~d.loaded) /\ UNCHANGED doc
           /\ torn' = torn \ {t}
           /\ UNCHANGED <<worker, modes, notes, pending, mail, wanted, stale, disturbed>>
<1> DEFINE t == call[c].tab
           d == doc[t]
<1>1. /\ At(c, "on") /\ torn' = torn \ {t} /\ Go(c, [call[c] EXCEPT !.pc = "sync"])
      /\ UNCHANGED <<worker, modes, notes, pending, mail, wanted, stale, disturbed>>
  BY DEF SetModeOn
<1>2. call[c].op \in {"start", "updated"} /\ t \in Tabs
  BY <1>1 DEF TypeInv, CallsTyped, OpAt, Sound, At
<1>3. ModesTyped'
  BY <1>1 DEF TypeInv, ModesTyped, worker
<1>4. /\ \/ Open(t) /\ d.loaded /\ Redone(t, TRUE, d.located, TRUE, d.pins)
         \/ (Open(t) => ~d.loaded) /\ UNCHANGED doc
      /\ DocsTyped' /\ \A u \in Tabs : Open(u) => Open(u)'
  <2>1. CASE Loaded(t)
    <3> DEFINE e == SetMode(d, TRUE)
    <3>1. Open(t) /\ d \in Docs /\ d.loaded
      BY <1>2, <2>1 DEF Loaded, Open, TypeInv, DocsTyped
    <3>2. /\ e \in Docs /\ e.mode = TRUE /\ e.card = d.card /\ e.page = d.page /\ e.loaded = d.loaded
          /\ e.located = d.located /\ e.pins = d.pins
      BY <3>1, DocIs
    <3>3. Page(t, e) /\ d.loaded = TRUE
      BY <2>1, <3>1 DEF SetModeOn, Page, Docs
    <3> HIDE DEF e
    <3>4. /\ DocsTyped' /\ doc'[t] = e /\ (\A u \in Tabs \ {t} : doc'[u] = doc[u])
          /\ \A u \in Tabs : Open(u) => Open(u)'
      BY <1>2, <3>2, <3>3, PageIs DEF TypeInv
    <3>. QED
      BY <3>1, <3>2, <3>3, <3>4 DEF Redone
  <2>2. CASE ~Loaded(t)
    BY <2>2 DEF SetModeOn, Loaded, Open, TypeInv, DocsTyped
  <2>. QED
    BY <2>1, <2>2
<1>5. CallsTyped' /\ Goes(c, "sync") /\ \A b \in Calls \ {c} : call'[b] = call[b]
  BY <1>1, <1>2, <1>4, GoesTyped DEF TypeInv, Pcs
<1>6. MailTyped'
  BY <1>1, <1>4, MailStays DEF TypeInv
<1>. QED
  BY <1>1, <1>2, <1>3, <1>4, <1>5, <1>6 DEF TypeInv

LEMMA SetModeOffDoes ==
    ASSUME TypeInv, NEW c \in Calls, SetModeOff(c)
    PROVE  LET t == call[c].tab
               d == doc[t] IN
           /\ TypeInv' /\ At(c, "off") /\ t \in Tabs /\ call[c].op = "stop"
           /\ IF call[c].todo = {} THEN call'[c] = Idle ELSE Goes(c, "stop next")
           /\ \A b \in Calls \ {c} : call'[b] = call[b]
           /\ \/ Open(t) /\ d.loaded /\ Redone(t, FALSE, FALSE, FALSE, d.pins)
              \/ (Open(t) => ~d.loaded) /\ UNCHANGED doc
           /\ torn' = torn \ {t}
           /\ disturbed' = (disturbed \/ Heard(t))
           /\ UNCHANGED <<worker, modes, notes, pending, mail, wanted, stale>>
<1> DEFINE t == call[c].tab
           d == doc[t]
<1>1. /\ At(c, "off") /\ torn' = torn \ {t}
      /\ IF call[c].todo = {} THEN Ends(c) ELSE Go(c, [call[c] EXCEPT !.pc = "stop next"])
      /\ UNCHANGED <<worker, modes, notes, pending, mail, wanted, stale>>
  BY DEF SetModeOff
<1>2. call[c].op = "stop" /\ t \in Tabs
  BY <1>1 DEF TypeInv, CallsTyped, OpAt, Sound, At
<1>3. disturbed' = (disturbed \/ Heard(t))
  <2>1. (\E i \in DOMAIN mail[t] : mail[t][i].fresh /\ mail[t][i].type = "READY") <=> Heard(t)
    BY DEF Heard
  <2>2. Heard(t) \in BOOLEAN
    BY DEF Heard
  <2>3. disturbed' = (disturbed \/ \E i \in DOMAIN mail[t] : mail[t][i].fresh /\ mail[t][i].type = "READY")
    BY DEF SetModeOff
  <2>. QED
    BY <2>1, <2>2, <2>3
<1>4. ModesTyped'
  BY <1>1, <1>3 DEF TypeInv, ModesTyped, worker, Heard
<1>5. /\ \/ Open(t) /\ d.loaded /\ Redone(t, FALSE, FALSE, FALSE, d.pins)
         \/ (Open(t) => ~d.loaded) /\ UNCHANGED doc
      /\ DocsTyped' /\ \A u \in Tabs : Open(u) => Open(u)'
  <2>1. CASE Loaded(t)
    <3> DEFINE e == destroy(d)
    <3>1. Open(t) /\ d \in Docs /\ d.loaded
      BY <1>2, <2>1 DEF Loaded, Open, TypeInv, DocsTyped
    <3>2. /\ e \in Docs /\ e.mode = FALSE /\ e.card = "none" /\ e.page = d.page /\ e.loaded = FALSE
          /\ e.located = FALSE /\ e.pins = d.pins
      <4>1. /\ e \in Docs /\ ~e.mode /\ e.card = "none" /\ e.page = d.page
            /\ ~e.loaded /\ ~e.located /\ e.pins = d.pins
        BY <3>1, DocIs
      <4> HIDE DEF e
      <4>. QED
        BY <4>1 DEF Docs
    <3>3. Page(t, e)
      BY <2>1, <3>1 DEF SetModeOff, Page
    <3> HIDE DEF e
    <3>4. /\ DocsTyped' /\ doc'[t] = e /\ (\A u \in Tabs \ {t} : doc'[u] = doc[u])
          /\ \A u \in Tabs : Open(u) => Open(u)'
      BY <1>2, <3>2, <3>3, PageIs DEF TypeInv
    <3>. QED
      BY <3>1, <3>2, <3>3, <3>4 DEF Redone
  <2>2. CASE ~Loaded(t)
    BY <2>2 DEF SetModeOff, Loaded, Open, TypeInv, DocsTyped
  <2>. QED
    BY <2>1, <2>2
<1>6. /\ CallsTyped' /\ (IF call[c].todo = {} THEN call'[c] = Idle ELSE Goes(c, "stop next"))
      /\ \A b \in Calls \ {c} : call'[b] = call[b]
  BY <1>1, <1>2, <1>5, EndsTyped, GoesTyped DEF TypeInv, Pcs
<1>7. MailTyped'
  BY <1>1, <1>5, MailStays DEF TypeInv
<1>. QED
  BY <1>1, <1>2, <1>3, <1>4, <1>5, <1>6, <1>7 DEF TypeInv

LEMMA StopNextDoes ==
    ASSUME TypeInv, NEW c \in Calls, StopNext(c)
    PROVE  /\ TypeInv' /\ At(c, "stop next") /\ call[c].op \in {"stop all", "stop"}
           /\ \A b \in Calls \ {c} : call'[b] = call[b]
           /\ \E t \in call[c].todo :
                /\ t \in Tabs
                /\ LET k == call'[c] IN k.op = "stop" /\ k.pc = "off" /\ k.tab = t /\ k.todo = call[c].todo \ {t}
                /\ active' = active \ {t} /\ Persists(active \ {t}) /\ wanted' = wanted \ {t}
                /\ frames' = [frames EXCEPT ![t] = None]
                /\ ~disturbed' => ~disturbed /\ ~Overlaps(c, "stop", t)
           /\ UNCHANGED <<restored, notes, doc, pending, mail, torn, stale>>
<1>1. PICK t \in call[c].todo :
        stop(c, [call[c] EXCEPT !.tab = t, !.todo = @ \ {t}], active, Overlaps(c, "stop", t))
  BY DEF StopNext
<1>2. At(c, "stop next") /\ UNCHANGED <<restored, pending, mail>>
  BY DEF StopNext
<1>3. PICK j : j = call[c]
  OBVIOUS
<1>4. /\ j \in CallStates /\ j.op \in {"stop all", "stop"} /\ ~j.fresh /\ j.todo \in SUBSET Tabs /\ t \in Tabs
  BY <1>2, <1>3 DEF TypeInv, CallsTyped, OpAt, Sound, At, CallStates
<1>5. PICK k : k = [[j EXCEPT !.tab = t, !.todo = @ \ {t}] EXCEPT !.op = "stop", !.pc = "off"]
  OBVIOUS
<1>6. /\ k \in CallStates /\ k.op = "stop" /\ k.pc = "off" /\ k.tab = t /\ k.todo = j.todo \ {t} /\ ~k.fresh
  <2>1. "stop" \in Ops /\ "off" \in Pcs
    BY DEF Ops, Pcs
  <2>2. PICK i : i = [j EXCEPT !.tab = t, !.todo = @ \ {t}]
    OBVIOUS
  <2>3. i \in CallStates /\ i.tab = t /\ i.todo = j.todo \ {t} /\ ~i.fresh
    BY <1>4, <2>2 DEF CallStates
  <2>. QED
    BY <1>5, <2>1, <2>2, <2>3 DEF CallStates
<1>7. [j EXCEPT !.tab = t, !.todo = @ \ {t}].tab = t
  BY <1>4 DEF CallStates
<1>8. /\ active' = active \ {t} /\ modes' \in {active \ {t}, modes} /\ wanted' = wanted \ {t}
      /\ disturbed' = (disturbed \/ Overlaps(c, "stop", t) \/ modes' # active \ {t})
      /\ frames' = [frames EXCEPT ![t] = None] /\ call' = [call EXCEPT ![c] = k]
      /\ UNCHANGED <<notes, doc, torn, stale>>
  BY <1>1, <1>3, <1>5, <1>7 DEF stop, persistModes, Go
<1>9. Sound(k) /\ OpAt(k)
  BY <1>4, <1>6 DEF Sound, OpAt
<1>10. /\ DocsTyped' /\ MailTyped' /\ \A u \in Tabs : Open(u) => Open(u)'
  BY <1>2, <1>8 DEF TypeInv, DocsTyped, MailTyped, Open
<1>11. disturbed' \in BOOLEAN /\ Persists(active \ {t})
  BY <1>8 DEF TypeInv, ModesTyped, Overlaps, Persists
<1>12. ModesTyped'
  BY <1>2, <1>4, <1>8, <1>11 DEF TypeInv, ModesTyped
<1>13. CallsTyped' /\ call'[c] = k /\ \A b \in Calls \ {c} : call'[b] = call[b]
  BY <1>6, <1>8, <1>9, <1>10, CallStays DEF TypeInv
<1>14. ~disturbed' => ~disturbed /\ ~Overlaps(c, "stop", t)
  BY <1>8
<1>. QED
  BY <1>2, <1>3, <1>4, <1>6, <1>8, <1>10, <1>11, <1>12, <1>13, <1>14 DEF TypeInv

\* The pins of a tab that is told.
Told(t) == IF doc[t].loaded /\ frames[t] # None THEN NotesOn(frames[t]) ELSE doc[t].pins

LEMMA SyncedIs ==
    ASSUME TypeInv, NEW t \in Tabs
    PROVE  LET s == Synced(doc, t) IN
           /\ \A u \in Tabs \ {t} : s[u] = doc[u]
           /\ s \in [Tabs -> Docs \union {None}]
           /\ ~Open(t) => s = doc
           /\ Open(t) => LET d == doc[t]
                             e == s[t] IN
                /\ d \in Docs /\ e \in Docs /\ e.page = d.page /\ e.loaded = d.loaded
                /\ e.located = d.located /\ e.mode = d.mode /\ e.card = d.card /\ e.pins = Told(t)
<1>1. doc \in [Tabs -> Docs \union {None}] /\ notes \in [Notes -> Statuses]
  BY DEF TypeInv, DocsTyped, ModesTyped
<1>2. CASE Open(t) /\ doc[t].loaded /\ frames[t] # None
  <2>1. doc[t] \in Docs /\ NotesOn(frames[t]) \in [Notes -> Statuses] /\ Told(t) = NotesOn(frames[t])
    BY <1>1, <1>2, PinsAre DEF Open, Told
  <2>2. PICK e : e = [doc[t] EXCEPT !.pins = NotesOn(frames[t])]
    OBVIOUS
  <2>3. /\ e \in Docs /\ e.page = doc[t].page /\ e.loaded = doc[t].loaded
        /\ e.located = doc[t].located /\ e.mode = doc[t].mode /\ e.card = doc[t].card /\ e.pins = Told(t)
    BY <2>1, <2>2 DEF Docs
  <2>4. Synced(doc, t) = [doc EXCEPT ![t] = e]
    BY <1>1, <1>2, <2>2 DEF Synced, Open
  <2>. QED
    BY <1>1, <1>2, <2>1, <2>3, <2>4
<1>3. CASE ~(Open(t) /\ doc[t].loaded /\ frames[t] # None)
  <2>1. Synced(doc, t) = doc
    BY <1>3 DEF Synced, Open
  <2>. QED
    BY <1>1, <1>3, <2>1 DEF Open, Told
<1>. QED
  BY <1>2, <1>3

LEMMA SyncDoes ==
    ASSUME TypeInv, NEW c \in Calls, Sync(c)
    PROVE  LET t == call[c].tab
               d == doc[t] IN
           /\ TypeInv' /\ At(c, "sync") /\ t \in Tabs /\ call[c].op \in {"start", "updated", "edit"}
           /\ call'[c] = Idle /\ \A b \in Calls \ {c} : call'[b] = call[b]
           /\ Open(t) => Redone(t, d.loaded, d.located, d.mode, Told(t))
           /\ ~Open(t) => UNCHANGED doc
           /\ stale' = IF frames[t] # None THEN stale \ {t} ELSE stale
           /\ UNCHANGED <<active, frames, restored, modes, notes, pending, mail, wanted, torn, disturbed>>
<1> DEFINE t == call[c].tab
           d == doc[t]
<1>1. /\ At(c, "sync") /\ Ends(c) /\ stale' = (IF frames[t] # None THEN stale \ {t} ELSE stale)
      /\ UNCHANGED <<active, frames, restored, modes, notes, pending, mail, wanted, torn, disturbed>>
  BY DEF Sync
<1>2. call[c].op \in {"start", "updated", "edit"} /\ t \in Tabs
  BY <1>1 DEF TypeInv, CallsTyped, OpAt, Sound, At
<1>3. PICK s : s = Synced(doc, t)
  OBVIOUS
<1>4. doc' = IF call[c].on /\ call[c].fresh /\ Open(t) THEN [s EXCEPT ![t] = closeCard(@)] ELSE s
  BY <1>3 DEF Sync, Awaited
<1>5. /\ \A u \in Tabs \ {t} : s[u] = doc[u]
      /\ s \in [Tabs -> Docs \union {None}]
      /\ ~Open(t) => s = doc
      /\ Open(t) => /\ d \in Docs /\ s[t] \in Docs /\ s[t].page = d.page /\ s[t].loaded = d.loaded
                    /\ s[t].located = d.located /\ s[t].mode = d.mode /\ s[t].card = d.card
                    /\ s[t].pins = Told(t)
  BY <1>2, <1>3, SyncedIs
<1>6. ModesTyped'
  BY <1>1 DEF TypeInv, ModesTyped
<1>7. CASE Open(t)
  <2>1. PICK e : e = doc'[t]
    OBVIOUS
  <2>2. /\ e \in Docs /\ e.page = d.page /\ e.loaded = d.loaded /\ e.located = d.located
        /\ e.mode = d.mode /\ e.pins = Told(t) /\ (e.card = d.card \/ e.card = "none")
        /\ doc' \in [Tabs -> Docs \union {None}] /\ \A u \in Tabs \ {t} : doc'[u] = doc[u]
    <3>1. CASE call[c].on /\ call[c].fresh /\ Open(t)
      <4>1. PICK x : x = closeCard(s[t])
        OBVIOUS
      <4>2. /\ x \in Docs /\ x.page = d.page /\ x.loaded = d.loaded /\ x.located = d.located
            /\ x.mode = d.mode /\ x.pins = Told(t) /\ x.card = "none"
        BY <1>5, <1>7, <4>1, DocIs
      <4>3. doc' = [s EXCEPT ![t] = x]
        BY <1>4, <3>1, <4>1
      <4>. QED
        BY <1>2, <1>5, <1>7, <2>1, <4>2, <4>3
    <3>2. CASE ~(call[c].on /\ call[c].fresh /\ Open(t))
      BY <1>2, <1>4, <1>5, <1>7, <2>1, <3>2
    <3>. QED
      BY <3>1, <3>2
  <2>3. Redone(t, d.loaded, d.located, d.mode, Told(t))
    BY <1>5, <1>7, <2>1, <2>2 DEF Redone
  <2>4. \A u \in Tabs : Open(u) => Open(u)'
    BY <1>7, <2>1, <2>2, ModeAssumption DEF Open
  <2>5. DocsTyped'
    <3>1. ASSUME NEW u \in Tabs, Open(u)', ~doc'[u].mode PROVE doc'[u].card = "none"
      BY <1>7, <2>1, <2>2, <3>1 DEF TypeInv, DocsTyped, Open
    <3>. QED
      BY <2>2, <3>1 DEF DocsTyped
  <2>6. CallsTyped' /\ call'[c] = Idle /\ \A b \in Calls \ {c} : call'[b] = call[b]
    BY <1>1, <2>4, EndsTyped DEF TypeInv
  <2>7. MailTyped'
    BY <1>1, <2>4, MailStays DEF TypeInv
  <2>. QED
    BY <1>1, <1>2, <1>6, <1>7, <2>3, <2>5, <2>6, <2>7 DEF TypeInv
<1>8. CASE ~Open(t)
  <2>1. UNCHANGED doc
    BY <1>4, <1>5, <1>8 DEF Open
  <2>2. DocsTyped' /\ MailTyped' /\ \A u \in Tabs : Open(u) => Open(u)'
    BY <1>1, <2>1 DEF TypeInv, DocsTyped, MailTyped, Open
  <2>3. CallsTyped' /\ call'[c] = Idle /\ \A b \in Calls \ {c} : call'[b] = call[b]
    BY <1>1, <2>2, EndsTyped DEF TypeInv
  <2>. QED
    BY <1>1, <1>2, <1>6, <1>8, <2>1, <2>2, <2>3 DEF TypeInv
<1>. QED
  BY <1>7, <1>8

LEMMA SyncNextDoes ==
    ASSUME TypeInv, NEW c \in Calls, SyncNext(c)
    PROVE  /\ TypeInv' /\ At(c, "sync next") /\ call[c].op = "sync all"
           /\ \A b \in Calls \ {c} : call'[b] = call[b]
           /\ \E t \in call[c].todo : LET d == doc[t] IN
                /\ t \in Tabs
                /\ Open(t) => Redone(t, d.loaded, d.located, d.mode, Told(t))
                /\ ~Open(t) => UNCHANGED doc
                /\ stale' = IF frames[t] # None THEN stale \ {t} ELSE stale
                /\ IF call[c].todo = {t} THEN call'[c] = Idle
                   ELSE LET k == call'[c] IN
                          /\ k.op = "sync all" /\ k.pc = "sync next" /\ k.todo = call[c].todo \ {t}
                          /\ k.tab = call[c].tab
           /\ UNCHANGED <<worker, modes, notes, pending, mail, wanted, torn, disturbed>>
<1>1. PICK t \in call[c].todo :
        /\ doc' = Synced(doc, t)
        /\ stale' = IF frames[t] # None THEN stale \ {t} ELSE stale
        /\ IF call[c].todo = {t} THEN Ends(c) ELSE Go(c, [call[c] EXCEPT !.todo = @ \ {t}])
  BY DEF SyncNext
<1>2. At(c, "sync next") /\ UNCHANGED <<worker, modes, notes, pending, mail, wanted, torn, disturbed>>
  BY DEF SyncNext
<1>3. PICK j : j = call[c]
  OBVIOUS
<1>4. /\ j \in CallStates /\ j.op = "sync all" /\ ~j.fresh /\ j.todo \in SUBSET Tabs /\ t \in Tabs
      /\ j.pc = "sync next"
  BY <1>2, <1>3 DEF TypeInv, CallsTyped, OpAt, Sound, At, CallStates
<1>5. /\ \A u \in Tabs \ {t} : doc'[u] = doc[u]
      /\ doc' \in [Tabs -> Docs \union {None}]
      /\ ~Open(t) => doc' = doc
      /\ Open(t) => LET d == doc[t]
                        e == doc'[t] IN
           /\ d \in Docs /\ e \in Docs /\ e.page = d.page /\ e.loaded = d.loaded
           /\ e.located = d.located /\ e.mode = d.mode /\ e.card = d.card /\ e.pins = Told(t)
  BY <1>1, <1>4, SyncedIs
<1>6. Open(t) => Redone(t, doc[t].loaded, doc[t].located, doc[t].mode, Told(t))
  BY <1>5 DEF Redone
<1>7. \A u \in Tabs : Open(u) => Open(u)'
  BY <1>5, ModeAssumption DEF Open
<1>8. DocsTyped'
  <2>1. ASSUME NEW u \in Tabs, Open(u)', ~doc'[u].mode PROVE doc'[u].card = "none"
    BY <1>5, <2>1 DEF TypeInv, DocsTyped, Open
  <2>. QED
    BY <1>5, <2>1 DEF DocsTyped
<1>9. /\ CallsTyped' /\ \A b \in Calls \ {c} : call'[b] = call[b]
      /\ IF j.todo = {t} THEN call'[c] = Idle
         ELSE LET k == call'[c] IN
                k.op = "sync all" /\ k.pc = "sync next" /\ k.todo = j.todo \ {t} /\ k.tab = j.tab
  <2>1. CASE j.todo = {t}
    BY <1>1, <1>3, <1>7, <2>1, EndsTyped DEF TypeInv
  <2>2. CASE j.todo # {t}
    <3>1. PICK k : k = [j EXCEPT !.todo = @ \ {t}]
      OBVIOUS
    <3>2. /\ k \in CallStates /\ k.op = "sync all" /\ k.pc = "sync next" /\ k.todo = j.todo \ {t} /\ ~k.fresh
          /\ k.tab = j.tab
      BY <1>4, <3>1 DEF CallStates
    <3>3. Sound(k) /\ OpAt(k)
      BY <3>2 DEF Sound, OpAt
    <3>4. call' = [call EXCEPT ![c] = k]
      BY <1>1, <1>3, <2>2, <3>1 DEF Go
    <3>5. CallsTyped' /\ call'[c] = k /\ \A d \in Calls \ {c} : call'[d] = call[d]
      BY <1>7, <3>2, <3>3, <3>4, CallStays DEF TypeInv
    <3>. QED
      BY <2>2, <3>2, <3>5
  <2>. QED
    BY <2>1, <2>2
<1>10. MailTyped'
  BY <1>2, <1>7, MailStays DEF TypeInv
<1>11. ModesTyped'
  BY <1>1, <1>2, <1>4 DEF TypeInv, ModesTyped, worker
<1>. QED
  BY <1>1, <1>2, <1>3, <1>4, <1>5, <1>6, <1>8, <1>9, <1>10, <1>11 DEF TypeInv

\* The answer to a page that announced itself, in the mode.
LEMMA AnswerReadyDoes ==
    ASSUME TypeInv, NEW c \in Calls, AnswerReady(c)
    PROVE  LET t == call[c].tab
               d == doc[t] IN
           /\ TypeInv' /\ At(c, "answer") /\ call[c].op = "ready" /\ t \in Tabs /\ call[c].page \in Pages
           /\ call'[c] = Idle /\ \A b \in Calls \ {c} : call'[b] = call[b]
           /\ ~call[c].fresh => UNCHANGED <<doc, stale>>
           /\ call[c].fresh =>
                /\ Open(t) /\ Redone(t, d.loaded, d.located, TRUE, NotesOn(call[c].page))
                /\ stale' = stale \ {t}
           /\ UNCHANGED <<active, frames, restored, modes, notes, pending, mail, wanted, torn, disturbed>>
<1>1. PICK k : k = call[c]
  OBVIOUS
<1>2. /\ At(c, "answer") /\ Answer(c, k, TRUE)
      /\ UNCHANGED <<active, frames, restored, modes, notes, pending, mail, wanted, torn, disturbed>>
  BY <1>1 DEF AnswerReady
<1>3. /\ k \in CallStates /\ k.op = "ready" /\ k.tab \in Tabs /\ k.page \in Pages /\ k.fresh \in BOOLEAN
      /\ k.fresh => Open(k.tab)
  BY <1>1, <1>2 DEF TypeInv, CallsTyped, OpAt, Sound, At, CallStates
<1>4. /\ Ends(c) /\ DocsTyped' /\ (\A u \in Tabs : Open(u) => Open(u)')
      /\ stale' \in SUBSET Tabs
      /\ ~k.fresh => UNCHANGED <<doc, stale>>
      /\ k.fresh =>
           /\ \A u \in Tabs \ {k.tab} : doc'[u] = doc[u]
           /\ LET e == doc'[k.tab]
                  d == doc[k.tab] IN
                /\ e.mode = TRUE /\ e.pins = NotesOn(k.page)
                /\ e.page = d.page /\ e.loaded = d.loaded /\ e.located = d.located
           /\ stale' = stale \ {k.tab}
  BY <1>2, <1>3, AnswerDoes DEF TypeInv
<1>5. ModesTyped'
  BY <1>2, <1>4 DEF TypeInv, ModesTyped
<1>6. MailTyped'
  BY <1>2, <1>4, MailStays DEF TypeInv
<1>7. CallsTyped' /\ call'[c] = Idle /\ \A b \in Calls \ {c} : call'[b] = call[b]
  BY <1>4, EndsTyped DEF TypeInv
<1>8. k.fresh => Redone(k.tab, doc[k.tab].loaded, doc[k.tab].located, TRUE, NotesOn(k.page))
  BY <1>3, <1>4 DEF Redone, TypeInv, DocsTyped, Open
<1>. QED
  BY <1>1, <1>2, <1>3, <1>4, <1>5, <1>6, <1>7, <1>8 DEF TypeInv

\* A document goes, and what its page has asked for or said is out of date.
LEMMA CallsAge ==
    ASSUME CallsTyped, NEW t \in Tabs, \A u \in Tabs \ {t} : Open(u) => Open(u)',
           call' = [c \in Calls |-> IF call[c].tab = t THEN Outdated(call[c]) ELSE call[c]]
    PROVE  /\ CallsTyped'
           /\ \A c \in Calls : LET k == call'[c]
                                   j == call[c] IN
                /\ k.op = j.op /\ k.tab = j.tab /\ k.pc = j.pc /\ k.page = j.page /\ k.todo = j.todo
                /\ k.fresh <=> (j.fresh /\ j.tab # t)
<1>1. ASSUME NEW c \in Calls
      PROVE  LET k == call'[c]
                 j == call[c] IN
             /\ k.op = j.op /\ k.tab = j.tab /\ k.pc = j.pc /\ k.page = j.page /\ k.todo = j.todo
             /\ k.fresh <=> (j.fresh /\ j.tab # t)
             /\ k \in CallStates /\ Sound(k) /\ OpAt(k)
             /\ k.fresh /\ k.tab \in Tabs => Open(call[c].tab)'
  <2>1. PICK j : j = call[c]
    OBVIOUS
  <2>2. PICK k : k = IF j.tab = t THEN Outdated(j) ELSE j
    OBVIOUS
  <2>3. call'[c] = k
    BY <2>1, <2>2
  <2>4. j \in CallStates /\ Sound(j) /\ OpAt(j) /\ (j.fresh /\ j.tab \in Tabs => Open(j.tab))
    BY <2>1 DEF CallsTyped
  <2>5. /\ k \in CallStates /\ k.op = j.op /\ k.tab = j.tab /\ k.pc = j.pc /\ k.page = j.page
        /\ k.todo = j.todo /\ (k.fresh <=> (j.fresh /\ j.tab # t))
    <3>1. CASE j.tab = t
      BY <2>2, <2>4, <3>1 DEF Outdated, CallStates
    <3>2. CASE j.tab # t
      BY <2>2, <2>4, <3>2 DEF CallStates
    <3>. QED
      BY <3>1, <3>2
  <2>6. OpAt(k)
    <3>1. CASE j.pc = "idle"
      <4>1. j = Idle
        BY <2>4, <3>1 DEF OpAt
      <4>2. j.tab # t
        BY <4>1, IdleIs, ModeAssumption
      <4>. QED
        BY <2>2, <2>4, <4>2
    <3>2. CASE j.pc # "idle"
      BY <2>4, <2>5, <3>2 DEF OpAt
    <3>. QED
      BY <3>1, <3>2
  <2>7. Sound(k)
    BY <2>4, <2>5 DEF Sound
  <2>8. k.fresh /\ k.tab \in Tabs => Open(j.tab)'
    <3>1. SUFFICES ASSUME k.fresh, k.tab \in Tabs PROVE Open(j.tab)'
      OBVIOUS
    <3>2. Open(j.tab) /\ j.tab \in Tabs \ {t}
      BY <2>4, <2>5, <3>1
    <3>. QED
      BY <3>2
  <2>9. k.fresh /\ k.tab \in Tabs => Open(call[c].tab)'
    <3>1. SUFFICES ASSUME k.fresh, k.tab \in Tabs PROVE Open(call[c].tab)'
      OBVIOUS
    <3>2. Open(j.tab)' /\ call'[c].tab = j.tab
      BY <2>3, <2>5, <2>8, <3>1
    <3>. QED
      BY <3>2 DEF Open
  <2>. QED
    BY <2>1, <2>3, <2>5, <2>6, <2>7, <2>9
<1>2. call' \in [Calls -> CallStates]
  BY <1>1
<1>. QED
  BY <1>1, <1>2 DEF CallsTyped

LEMMA NavigateDoes ==
    ASSUME TypeInv, NEW t \in Tabs, Navigate(t)
    PROVE  /\ TypeInv' /\ Open(t) /\ Open(t)' /\ t \notin pending /\ pending' = pending \union {t}
           /\ doc'[t] \in Docs /\ ~doc'[t].loaded /\ ~doc'[t].mode
           /\ \A u \in Tabs \ {t} : doc'[u] = doc[u]
           /\ \A u \in Tabs \ {t} : mail'[u] = mail[u]
           /\ DOMAIN mail'[t] = DOMAIN mail[t]
           /\ \A i \in DOMAIN mail[t] : mail'[t][i].type = mail[t][i].type /\ ~mail'[t][i].fresh
           /\ \A c \in Calls : LET k == call'[c]
                                   j == call[c] IN
                /\ k.op = j.op /\ k.tab = j.tab /\ k.pc = j.pc /\ k.page = j.page /\ k.todo = j.todo
                /\ k.fresh <=> (j.fresh /\ j.tab # t)
           /\ torn' = torn \ {t}
           /\ UNCHANGED <<worker, modes, notes, wanted, stale, disturbed>>
<1>1. /\ Open(t) /\ t \notin pending /\ pending' = pending \union {t}
      /\ call' = [c \in Calls |-> IF call[c].tab = t THEN Outdated(call[c]) ELSE call[c]]
      /\ torn' = torn \ {t}
      /\ UNCHANGED <<worker, modes, notes, wanted, stale, disturbed>>
      /\ mail' = [mail EXCEPT ![t] = [i \in DOMAIN @ |-> Outdated(@[i])]]
  BY DEF Navigate
<1>2. PICK page \in Pages \union {Internal} : Page(t, Blank(page))
  BY DEF Navigate
<1>3. /\ Blank(page) \in Docs /\ ~Blank(page).loaded /\ ~Blank(page).mode /\ Blank(page).card = "none"
  BY BlankIs DEF TypeInv, ModesTyped
<1>4. /\ DocsTyped' /\ doc'[t] = Blank(page) /\ (\A u \in Tabs \ {t} : doc'[u] = doc[u])
      /\ Open(t)' /\ \A u \in Tabs : Open(u) => Open(u)'
  <2>1. PICK d : d = Blank(page)
    OBVIOUS
  <2>. QED
    BY <1>2, <1>3, <2>1, PageIs DEF TypeInv
<1>5. ModesTyped'
  BY <1>1 DEF TypeInv, ModesTyped, worker
<1>6. /\ CallsTyped'
      /\ \A c \in Calls : LET k == call'[c]
                              j == call[c] IN
           /\ k.op = j.op /\ k.tab = j.tab /\ k.pc = j.pc /\ k.page = j.page /\ k.todo = j.todo
           /\ k.fresh <=> (j.fresh /\ j.tab # t)
  BY <1>1, <1>4, CallsAge DEF TypeInv
<1>7. PICK old : old = mail[t]
  OBVIOUS
<1>8. PICK new : new = [i \in DOMAIN old |-> Outdated(old[i])]
  OBVIOUS
<1>9. old \in Seq(Messages)
  BY <1>7 DEF TypeInv, MailTyped
<1>10. /\ DOMAIN new = DOMAIN old
       /\ \A i \in DOMAIN old : /\ new[i].type = old[i].type /\ new[i].page = old[i].page
                                /\ ~new[i].fresh /\ new[i] \in Messages
  <2>1. DOMAIN new = DOMAIN old /\ \A i \in DOMAIN old : new[i] = Outdated(old[i]) /\ old[i] \in Messages
    BY <1>8, <1>9
  <2>2. ASSUME NEW m \in Messages
        PROVE  /\ Outdated(m).type = m.type /\ Outdated(m).page = m.page
               /\ ~Outdated(m).fresh /\ Outdated(m) \in Messages
    BY DEF Outdated, Messages
  <2>. QED
    BY <2>1, <2>2
<1>11. new \in Seq(Messages)
  <2>1. DOMAIN old = 1..Len(old) /\ Len(old) \in Nat
    BY <1>9
  <2>2. new \in [1..Len(old) -> Messages]
    BY <1>8, <1>10, <2>1
  <2>. QED
    BY <2>1, <2>2
<1>12. mail' = [mail EXCEPT ![t] = new]
  BY <1>1, <1>7, <1>8
<1>13. mail' \in [Tabs -> Seq(Messages)] /\ mail'[t] = new /\ \A u \in Tabs \ {t} : mail'[u] = mail[u]
  BY <1>11, <1>12 DEF TypeInv, MailTyped
<1>14. ASSUME NEW u \in Tabs, NEW i \in DOMAIN mail'[u]
       PROVE  Open(u)' /\ (mail'[u][i].type = "READY" => mail'[u][i].page \in Pages)
  <2>1. CASE u = t
    BY <1>4, <1>7, <1>10, <1>13, <1>14, <2>1 DEF TypeInv, MailTyped
  <2>2. CASE u # t
    BY <1>4, <1>13, <1>14, <2>2 DEF TypeInv, MailTyped
  <2>. QED
    BY <2>1, <2>2
<1>15. MailTyped'
  BY <1>13, <1>14 DEF MailTyped
<1>. QED
  BY <1>1, <1>3, <1>4, <1>5, <1>6, <1>7, <1>10, <1>13, <1>15 DEF TypeInv

LEMMA RemovedDoes ==
    ASSUME TypeInv, NEW t \in Tabs, handleTabRemoved(t)
    PROVE  /\ TypeInv' /\ Open(t) /\ ~Open(t)' /\ pending' = pending \ {t}
           /\ \A u \in Tabs \ {t} : doc'[u] = doc[u] /\ mail'[u] = mail[u]
           /\ mail'[t] = <<>>
           /\ \A c \in Calls : LET k == call'[c]
                                   j == call[c] IN
                /\ k.op = j.op /\ k.tab = j.tab /\ k.pc = j.pc /\ k.page = j.page /\ k.todo = j.todo
                /\ k.fresh <=> (j.fresh /\ j.tab # t)
           /\ active' = active \ {t} /\ Persists(active \ {t}) /\ wanted' = wanted \ {t}
           /\ torn' = torn \ {t} /\ stale' = stale \ {t}
           /\ frames' = [frames EXCEPT ![t] = None]
           /\ ~disturbed' => ~disturbed /\ (modes \ {t} = active \ {t} \/ (restored /\ ~Restoring))
           /\ UNCHANGED <<restored, notes>>
<1>1. /\ Open(t) /\ pending' = pending \ {t}
      /\ call' = [c \in Calls |-> IF call[c].tab = t THEN Outdated(call[c]) ELSE call[c]]
      /\ doc' = [doc EXCEPT ![t] = None] /\ mail' = [mail EXCEPT ![t] = <<>>]
      /\ active' = active \ {t} /\ wanted' = wanted \ {t}
      /\ torn' = torn \ {t} /\ stale' = stale \ {t}
      /\ frames' = [frames EXCEPT ![t] = None]
      /\ modes' \in {active \ {t}, modes}
      /\ disturbed' = (disturbed \/ (modes \ {t} # active \ {t}
                                     /\ (~restored \/ \E c \in Calls : At(c, "restore")))
                                 \/ modes' # active \ {t})
      /\ UNCHANGED <<restored, notes>>
  BY DEF handleTabRemoved, persistModes
<1>2. DocsTyped' /\ ~Open(t)' /\ \A u \in Tabs \ {t} : doc'[u] = doc[u]
  BY <1>1 DEF TypeInv, DocsTyped, Open
<1>3. mail'[t] = <<>> /\ mail' \in [Tabs -> Seq(Messages)] /\ \A u \in Tabs \ {t} : mail'[u] = mail[u]
  BY <1>1 DEF TypeInv, MailTyped
<1>4. MailTyped'
  <2>1. ASSUME NEW u \in Tabs, NEW i \in DOMAIN mail'[u]
        PROVE  Open(u)' /\ (mail'[u][i].type = "READY" => mail'[u][i].page \in Pages)
    <3>1. u # t
      BY <1>3, <2>1
    <3>. QED
      BY <1>2, <1>3, <2>1, <3>1 DEF TypeInv, MailTyped, Open
  <2>. QED
    BY <1>3, <2>1 DEF MailTyped
<1>5. \A u \in Tabs \ {t} : Open(u) => Open(u)'
  BY <1>2 DEF Open
<1>6. /\ CallsTyped'
      /\ \A c \in Calls : LET k == call'[c]
                              j == call[c] IN
           /\ k.op = j.op /\ k.tab = j.tab /\ k.pc = j.pc /\ k.page = j.page /\ k.todo = j.todo
           /\ k.fresh <=> (j.fresh /\ j.tab # t)
  BY <1>1, <1>5, CallsAge DEF TypeInv
<1>7. ModesTyped'
  BY <1>1 DEF TypeInv, ModesTyped
<1>8. ~disturbed' => ~disturbed /\ (modes \ {t} = active \ {t} \/ (restored /\ ~Restoring))
  BY <1>1 DEF Restoring
<1>9. Persists(active \ {t})
  BY <1>1, <1>7 DEF Persists, ModesTyped
<1>. QED
  BY <1>1, <1>2, <1>3, <1>4, <1>6, <1>7, <1>8, <1>9 DEF TypeInv

\* What is open stays as it was, but a card closes for which a viewer waited.
Shuts(t) ==
    /\ Open(t)' <=> Open(t)
    /\ doc'[t].page = doc[t].page /\ doc'[t].loaded = doc[t].loaded /\ doc'[t].mode = doc[t].mode
    /\ doc'[t].located = doc[t].located /\ doc'[t].pins = doc[t].pins
    /\ doc'[t].card # doc[t].card => \E c \in Calls : Awaited(c, t)

LEMMA DiesDoes ==
    ASSUME TypeInv, WorkerDies
    PROVE  /\ TypeInv' /\ active' = {} /\ ~restored' /\ \A t \in Tabs : frames'[t] = None
           /\ \A c \in Calls : call'[c] = Idle
           /\ torn' = torn \union {t \in Tabs : \E c \in Calls :
                       /\ call[c].op \in {"toggle", "start", "stop", "stop all", "updated", "ready"}
                       /\ t = call[c].tab \/ t \in call[c].todo}
           /\ stale' = Tabs
           /\ \A t \in Tabs : Shuts(t)
           /\ UNCHANGED <<modes, notes, pending, mail, wanted, disturbed>>
<1>1. /\ active' = {} /\ frames' = [t \in Tabs |-> None] /\ restored' = FALSE
      /\ call' = [c \in Calls |-> Idle]
      /\ torn' = torn \union {t \in Tabs : \E c \in Calls :
                   /\ call[c].op \in {"toggle", "start", "stop", "stop all", "updated", "ready"}
                   /\ t = call[c].tab \/ t \in call[c].todo}
      /\ stale' = Tabs
      /\ UNCHANGED <<modes, notes, pending, mail, wanted, disturbed>>
  BY DEF WorkerDies
<1>2. ModesTyped'
  BY <1>1 DEF TypeInv, ModesTyped
<1>0. \A t \in Tabs : /\ doc'[t] \in Docs \union {None} /\ Shuts(t)
                      /\ Open(t)' /\ ~doc'[t].mode => doc'[t].card = "none"
  <2> SUFFICES ASSUME NEW t \in Tabs
               PROVE  /\ doc'[t] \in Docs \union {None} /\ Shuts(t)
                      /\ Open(t)' /\ ~doc'[t].mode => doc'[t].card = "none"
    OBVIOUS
  <2>1. CASE Open(t) /\ \E c \in Calls : Awaited(c, t)
    <3>1. doc'[t] = closeCard(doc[t]) /\ doc[t] \in Docs
      BY <2>1 DEF WorkerDies, TypeInv, DocsTyped, Open
    <3>2. PICK e : e = closeCard(doc[t])
      OBVIOUS
    <3>3. /\ e \in Docs /\ e.mode = doc[t].mode /\ e.card = "none" /\ e.page = doc[t].page
          /\ e.loaded = doc[t].loaded /\ e.located = doc[t].located /\ e.pins = doc[t].pins
      BY <3>1, <3>2, DocIs
    <3>4. e # None
      BY <3>3, DocIs
    <3>. QED
      BY <2>1, <3>1, <3>2, <3>3, <3>4 DEF Shuts, Open
  <2>2. CASE ~(Open(t) /\ \E c \in Calls : Awaited(c, t))
    <3>1. doc'[t] = doc[t]
      BY <2>2 DEF WorkerDies
    <3>. QED
      BY <3>1 DEF Shuts, Open, TypeInv, DocsTyped
  <2>. QED
    BY <2>1, <2>2
<1>3. DocsTyped' /\ MailTyped'
  <2>1. doc' \in [Tabs -> Docs \union {None}]
    <3>1. doc' = [t \in Tabs |-> doc'[t]]
      BY DEF WorkerDies
    <3>2. \A t \in Tabs : doc'[t] \in Docs \union {None}
      BY <1>0
    <3>. QED
      BY <3>1, <3>2
  <2>. QED
    BY <1>0, <1>1, <2>1 DEF TypeInv, DocsTyped, MailTyped, Shuts
<1>4. CallsTyped'
  <2>1. call' \in [Calls -> CallStates]
    BY <1>1, IdleIs
  <2>2. \A c \in Calls : Sound(call'[c]) /\ OpAt(call'[c]) /\ ~call'[c].fresh
    BY <1>1, IdleIs
  <2>. QED
    BY <2>1, <2>2 DEF CallsTyped
<1>. QED
  BY <1>0, <1>1, <1>2, <1>3, <1>4 DEF TypeInv

LEMMA NextTyped ==
    ASSUME TypeInv, [Next]_vars PROVE TypeInv'
<1>1. CASE UNCHANGED vars
  BY <1>1 DEF TypeInv, ModesTyped, DocsTyped, MailTyped, CallsTyped, Open, vars, worker, chrome, ghosts
<1>2. ASSUME NEW c \in Calls, Events(c) PROVE TypeInv'
  BY <1>2, StartsTyped, AgentEditDoes, LocateDoes DEF Events, Starts
<1>3. ASSUME NEW t \in Tabs, PageEvents(t) \/ onEscape(t) PROVE TypeInv'
  BY <1>3, CardDoes, DoneDoes, NavigateDoes, RemovedDoes, EditDoes DEF PageEvents
<1>4. ASSUME NEW c \in Calls, Proceeds(c) PROVE TypeInv'
  BY <1>4, StartsTyped, GetDoes, InjectDoes, SetModeOnDoes, SetModeOffDoes, StopNextDoes,
     SyncDoes, SyncNextDoes, AnswerReadyDoes DEF Proceeds, Starts
<1>. QED
  BY <1>1, <1>2, <1>3, <1>4, DiesDoes DEF Next

LEMMA InitTyped ==
    Init => TypeInv
<1> SUFFICES ASSUME Init PROVE TypeInv
  OBVIOUS
<1>1. ModesTyped
  BY ModeAssumption DEF Init, ModesTyped
<1>2. \A t \in Tabs : doc[t] \in Docs /\ doc[t].card = "none"
  BY <1>1, BlankIs, ModeAssumption DEF Init, ModesTyped
<1>3. DocsTyped
  BY <1>2 DEF Init, DocsTyped
<1>4. MailTyped
  BY DEF Init, MailTyped
<1>5. CallsTyped
  <2>1. call \in [Calls -> CallStates]
    BY IdleIs DEF Init
  <2>2. \A c \in Calls : Sound(call[c]) /\ OpAt(call[c]) /\ ~call[c].fresh
    BY IdleIs DEF Init
  <2>. QED
    BY <2>1, <2>2 DEF CallsTyped
<1>. QED
  BY <1>1, <1>3, <1>4, <1>5 DEF TypeInv

LEMMA TypeIsInvariant ==
    Spec => []TypeInv
<1>. QED
  BY InitTyped, NextTyped, PTL DEF Spec

\* What the worker, the pages and the calls hold has its type: a call that waits is
\* one of those that its place in background.js, mode.js or annotate.js can have, and
\* a page without overlay shows no card (annotator.js).
THEOREM TypeCorrect ==
    Spec => []TypeOK
<1>1. TypeInv => TypeOK
  <2> SUFFICES ASSUME TypeInv PROVE TypeOK
    OBVIOUS
  <2>1. \A c \in Calls : call[c].pc = "idle" <=> call[c] = Idle
    BY IdleIs DEF TypeInv, CallsTyped, OpAt
  <2>2. \A t \in Tabs : Open(t) => doc[t] \in Docs /\ (~doc[t].mode => doc[t].card = "none")
    BY DEF TypeInv, DocsTyped, Open
  <2>. QED
    BY <2>1, <2>2 DEF TypeOK, TypeInv, ModesTyped
<1>. QED
  BY <1>1, TypeIsInvariant, PTL

----------------------------------------------------------------------------
(* The tabs in the mode are kept                                           *)

LEMMA RedoneOpens ==
    ASSUME NEW t \in Tabs, NEW loaded, NEW located, NEW mode, NEW pins, Redone(t, loaded, located, mode, pins)
    PROVE  \A u \in Tabs : Open(u)' <=> Open(u)
BY ModeAssumption DEF Redone, Open

LEMMA RunOpens ==
    ASSUME TypeInv, NEW c \in Calls, NEW k, Sound(k), k.op \in RunOps, k.todo = {},
           k.fresh => k.tab \in Tabs /\ Open(k.tab),
           NEW set \in SUBSET Tabs, NEW fs \in [Tabs -> Pages \union {None}], Run(c, k, set, fs)
    PROVE  \A u \in Tabs : Open(u)' <=> Open(u)
<1>1. UNCHANGED doc \/ Answer(c, k, FALSE)
  BY RunDoes DEF Runs, Stops, Asks
<1>2. CASE Answer(c, k, FALSE)
  <2>1. k.fresh \in BOOLEAN
    BY DEF Sound, CallStates
  <2>2. CASE ~k.fresh
    BY <1>2, <2>2 DEF Answer, Open
  <2>3. CASE k.fresh
    <3>1. Open(k.tab) /\ k.tab \in Tabs /\ DocsTyped /\ ModesTyped
      BY <2>3 DEF TypeInv
    <3>2. (\A u \in Tabs : Open(u) => Open(u)') /\ \A u \in Tabs \ {k.tab} : doc'[u] = doc[u]
      BY <1>2, <2>1, <2>3, <3>1, AnswerDoes
    <3>. QED
      BY <3>1, <3>2 DEF Open
  <2>. QED
    BY <2>2, <2>3
<1>3. CASE UNCHANGED doc
  BY <1>3 DEF Open
<1>. QED
  BY <1>1, <1>2, <1>3

\* A call that is not at restore goes on and does not come to it.
LEMMA KeptSame ==
    ASSUME TypeInv, OneRestores, KeptInv, NEW c \in Calls, \A d \in Calls \ {c} : call'[d] = call[d],
           ~At(c, "restore"), call'[c].pc # "restore",
           UNCHANGED <<modes, wanted, active, restored>>, disturbed' => disturbed, disturbed => disturbed',
           \A u \in Tabs : Open(u)' <=> Open(u),
           Bystander(c) => Bystander(c)'
    PROVE  OneRestores' /\ KeptInv'
<1>1. \A d \in Calls : At(d, "restore")' <=> At(d, "restore")
  BY DEF At
<1>2. OneRestores' /\ (Restoring' <=> Restoring)
  BY <1>1 DEF OneRestores, Restoring
<1>3. ASSUME ~disturbed PROVE Kept'
  <2>1. Kept
    BY <1>3 DEF KeptInv
  <2>2. \A t \in wanted' : Open(t)'
    BY <2>1 DEF Kept, TypeInv, ModesTyped
  <2>3. ~restored' \/ Restoring' => active' = {} /\ \A d \in Calls : Bystander(d)'
    <3>1. \A d \in Calls \ {c} : Bystander(d)' <=> Bystander(d)
      BY DEF Bystander
    <3>. QED
      BY <1>2, <2>1, <3>1 DEF Kept
  <2>4. ASSUME NEW d \in Calls, At(d, "restore")'
        PROVE  wanted' = {t \in call'[d].todo : Open(t)'}
    <3>1. d # c /\ call'[d] = call[d] /\ At(d, "restore")
      BY <1>1, <2>4
    <3>2. wanted = {t \in call[d].todo : Open(t)} /\ call[d].todo \subseteq Tabs
      BY <2>1, <3>1 DEF Kept, TypeInv, CallsTyped, CallStates
    <3>. QED
      BY <3>1, <3>2
  <2>. QED
    BY <1>2, <2>1, <2>2, <2>3, <2>4 DEF Kept
<1>. QED
  BY <1>2, <1>3 DEF KeptInv

\* No call moves: what a page does.
LEMMA KeptPage ==
    ASSUME TypeInv, OneRestores, KeptInv,
           \A d \in Calls : LET k == call'[d]
                                j == call[d] IN k.op = j.op /\ k.pc = j.pc /\ k.todo = j.todo,
           UNCHANGED <<modes, wanted, active, restored, disturbed>>,
           \A u \in Tabs : Open(u)' <=> Open(u)
    PROVE  OneRestores' /\ KeptInv'
<1>1. \A d \in Calls : (At(d, "restore")' <=> At(d, "restore")) /\ (Bystander(d)' <=> Bystander(d))
  BY DEF At, Bystander
<1>2. OneRestores' /\ (Restoring' <=> Restoring)
  BY <1>1 DEF OneRestores, Restoring
<1>3. ASSUME ~disturbed PROVE Kept'
  <2>1. Kept
    BY <1>3 DEF KeptInv
  <2>2. \A t \in wanted' : Open(t)'
    BY <2>1 DEF Kept, TypeInv, ModesTyped
  <2>3. ASSUME NEW d \in Calls, At(d, "restore")'
        PROVE  wanted' = {t \in call'[d].todo : Open(t)'}
    <3>1. wanted = {t \in call[d].todo : Open(t)} /\ call[d].todo \subseteq Tabs /\ call'[d].todo = call[d].todo
      BY <1>1, <2>1, <2>3 DEF Kept, TypeInv, CallsTyped, CallStates
    <3>. QED
      BY <3>1
  <2>. QED
    BY <1>1, <1>2, <2>1, <2>2, <2>3 DEF Kept
<1>. QED
  BY <1>2, <1>3 DEF KeptInv

\* A call looks at the right tabs.
LEMMA KeptRun ==
    ASSUME TypeInv, OneRestores, KeptInv, NEW c \in Calls, NEW k, Sound(k), k.op \in RunOps, k.todo = {},
           k.fresh => k.tab \in Tabs /\ Open(k.tab),
           NEW set \in SUBSET Tabs, NEW fs \in [Tabs -> Pages \union {None}], Run(c, k, set, fs),
           restored, restored', ~disturbed' => set = wanted
    PROVE  OneRestores' /\ KeptInv'
<1>1. /\ \A d \in Calls \ {c} : call'[d] = call[d]
      /\ ~disturbed' => ~disturbed /\ \A d \in Calls \ {c} : ~At(d, "restore")
      /\ disturbed' \in BOOLEAN
  BY RunDoes
<1>2. call'[c].pc # "restore"
  <2>1. call'[c] = Idle \/ call'[c].pc \in {"get", "inject", "answer", "stop next", "sync next", "off"}
    BY RunDoes DEF Runs, Stops, Asks, Is
  <2>. QED
    BY <2>1, IdleIs
<1>3. OneRestores'
  BY <1>1, <1>2 DEF OneRestores, At, Restoring
<1>4. ASSUME ~disturbed' PROVE Kept'
  <2>1. Kept /\ set = wanted /\ ~Restoring'
    BY <1>1, <1>2, <1>4 DEF KeptInv, Restoring, At
  <2>2. active' = wanted' /\ modes' = wanted' /\ wanted' \subseteq wanted
    <3>1. Stops(c, k, set) \/ (active' = set /\ UNCHANGED <<modes, wanted>>)
      BY RunDoes DEF Runs
    <3>. QED
      BY <1>4, <2>1, <3>1 DEF Stops, Persists, Kept
  <2>3. \A t \in wanted' : Open(t)'
    <3>1. \A u \in Tabs : Open(u)' <=> Open(u)
      BY RunOpens
    <3>. QED
      BY <2>1, <2>2, <3>1 DEF Kept, TypeInv, ModesTyped
  <2>4. \A d \in Calls : ~At(d, "restore")'
    BY <2>1 DEF Restoring
  <2>. QED
    BY <2>1, <2>2, <2>3, <2>4 DEF Kept
<1>. QED
  BY <1>3, <1>4 DEF KeptInv

\* A call comes to restore, and waits.
LEMMA KeptWaits ==
    ASSUME TypeInv, OneRestores, KeptInv, NEW c \in Calls, NEW k, NEW fs, Waits(c, k, fs)
    PROVE  OneRestores' /\ KeptInv'
<1>1. /\ ~restored /\ restored' /\ call'[c].pc = "restore"
      /\ ~disturbed' => ~disturbed /\ call'[c].todo = modes
      /\ \A d \in Calls \ {c} : call'[d] = call[d]
      /\ UNCHANGED <<active, modes, doc, wanted>>
      /\ disturbed' \in BOOLEAN
  BY DEF Waits, Is
<1>2. \A d \in Calls : ~At(d, "restore")
  BY <1>1 DEF OneRestores, Restoring
<1>3. OneRestores'
  BY <1>1, <1>2 DEF OneRestores, Restoring, At
<1>4. ASSUME ~disturbed' PROVE Kept'
  <2>1. Kept
    BY <1>1, <1>4 DEF KeptInv
  <2>2. \A t \in wanted' : Open(t)'
    BY <1>1, <2>1 DEF Kept, Open
  <2>3. Restoring' /\ active' = {} /\ modes' = wanted'
    BY <1>1, <2>1 DEF Kept, Restoring, At
  <2>4. \A d \in Calls : Bystander(d)'
    BY <1>1, <2>1 DEF Kept, Bystander
  <2>5. ASSUME NEW d \in Calls, At(d, "restore")'
        PROVE  wanted' = {t \in call'[d].todo : Open(t)'}
    <3>1. d = c /\ call'[d].todo = modes
      BY <1>1, <1>2, <1>4, <2>5 DEF At
    <3>. QED
      BY <1>1, <2>1, <3>1 DEF Kept, Open
  <2>. QED
    BY <1>1, <2>2, <2>3, <2>4, <2>5 DEF Kept
<1>. QED
  BY <1>1, <1>3, <1>4 DEF KeptInv

LEMMA KeptStarts ==
    ASSUME TypeInv, OneRestores, KeptInv, NEW c \in Calls, Starts(c) \/ Restore(c)
    PROVE  OneRestores' /\ KeptInv'
<1>1. CASE Starts(c)
  <2>1. PICK k, fs : Comes(c, k, fs) /\ Begin(c, k, fs)
    BY <1>1, StartsDo
  <2>2. /\ Sound(k) /\ k \in CallStates /\ k.op \in RunOps /\ k.todo = {}
        /\ k.fresh => k.tab \in Tabs /\ Open(k.tab)
        /\ fs \in [Tabs -> Pages \union {None}] /\ (At(c, "idle") \/ At(c, "saved"))
        /\ active \in SUBSET Tabs
    BY <2>1 DEF Comes, Sound, TypeInv, ModesTyped
  <2>3. CASE restored /\ restored' = restored /\ Run(c, k, active, fs)
    <3>1. ASSUME ~disturbed' PROVE active = wanted
      <4>1. ~disturbed /\ \A d \in Calls \ {c} : ~At(d, "restore")
        BY <2>2, <2>3, <3>1, RunDoes
      <4>. QED
        BY <2>2, <2>3, <4>1 DEF KeptInv, Kept, Restoring, At
    <3>. QED
      BY <2>2, <2>3, <3>1, KeptRun
  <2>. QED
    BY <2>1, <2>2, <2>3, KeptWaits, BeginDoes
<1>2. CASE Restore(c)
  <2>1. PICK k : k = [call[c] EXCEPT !.todo = {}]
    OBVIOUS
  <2>2. /\ Run(c, k, Restored(c), frames) /\ Restored(c) \in SUBSET Tabs
        /\ Sound(k) /\ k.op \in RunOps /\ k.todo = {}
        /\ k.fresh => k.tab \in Tabs /\ Open(k.tab)
        /\ At(c, "restore") /\ UNCHANGED restored
    BY <1>2, <2>1, RestoreDoes
  <2>3. frames \in [Tabs -> Pages \union {None}]
    BY DEF TypeInv, ModesTyped
  <2>4. ASSUME ~disturbed' PROVE Restored(c) = wanted
    <3>1. ~disturbed
      BY <2>2, <2>3, <2>4, RunDoes
    <3>. QED
      BY <2>2, <3>1 DEF KeptInv, Kept, Restoring, Restored
  <2>5. restored /\ restored'
    BY <2>2 DEF OneRestores, Restoring
  <2>. QED
    BY <2>2, <2>3, <2>4, <2>5, KeptRun
<1>. QED
  BY <1>1, <1>2

\* What goes on once the tabs are known.
LEMMA KeptKnown ==
    ASSUME TypeInv, OneRestores, KeptInv, NEW c \in Calls, \A d \in Calls \ {c} : call'[d] = call[d],
           ~Bystander(c), call'[c].pc # "restore", disturbed \in BOOLEAN, disturbed => disturbed',
           \/ UNCHANGED <<active, modes, wanted>>
           \/ \E t \in Tabs : active' = active \ {t} /\ Persists(active \ {t}) /\ wanted' = wanted \ {t}
           \/ \E t \in Tabs : /\ active' = active \union {t} /\ Persists(active \union {t})
                              /\ wanted' = wanted \union {t} /\ Open(t),
           UNCHANGED restored, \A u \in Tabs : Open(u)' <=> Open(u)
    PROVE  OneRestores' /\ KeptInv'
<1>1. ~At(c, "restore")
  BY DEF Bystander, At
<1>2. \A d \in Calls : At(d, "restore")' <=> At(d, "restore")
  BY <1>1 DEF At
<1>3. OneRestores'
  BY <1>2 DEF OneRestores, Restoring
<1>4. ASSUME ~disturbed' PROVE Kept'
  <2>1. Kept
    BY <1>4 DEF KeptInv
  <2>2. restored /\ ~Restoring /\ active = wanted /\ modes = wanted /\ ~Restoring'
    BY <1>2, <2>1 DEF Kept, Restoring
  <2>3. active' = wanted' /\ modes' = wanted'
    BY <1>4, <2>2 DEF Persists
  <2>4. \A t \in wanted' : Open(t)'
    BY <2>1 DEF Kept, TypeInv, ModesTyped
  <2>. QED
    BY <2>2, <2>3, <2>4 DEF Kept, Restoring
<1>. QED
  BY <1>3, <1>4 DEF KeptInv

LEMMA KeptProceeds ==
    ASSUME TypeInv, OneRestores, KeptInv, NEW c \in Calls, Proceeds(c)
    PROVE  OneRestores' /\ KeptInv'
<1> DEFINE t == call[c].tab
<1>0. disturbed \in BOOLEAN /\ (UNCHANGED doc => \A u \in Tabs : Open(u)' <=> Open(u))
  BY DEF TypeInv, ModesTyped, Open
<1>1. CASE Get(c)
  <2>1. /\ At(c, "get") /\ t \in Tabs /\ \A d \in Calls \ {c} : call'[d] = call[d]
        /\ \/ /\ Annotatable(t)
              /\ active' = active \union {t} /\ Persists(active \union {t}) /\ wanted' = wanted \union {t}
              /\ Goes(c, "inject")
           \/ ~Annotatable(t) /\ call'[c] = Idle /\ UNCHANGED <<active, modes, wanted, disturbed>>
        /\ UNCHANGED <<frames, restored, doc>>
    BY <1>1, GetDoes
  <2>2. call'[c].pc # "restore" /\ ~Bystander(c)
    BY <2>1, IdleIs DEF Goes, Bystander, At
  <2>3. /\ \/ UNCHANGED <<active, modes, wanted>>
           \/ /\ active' = active \union {t} /\ Persists(active \union {t})
              /\ wanted' = wanted \union {t} /\ Open(t)
        /\ disturbed => disturbed'
    BY <1>0, <2>1 DEF Annotatable, Persists
  <2>. QED
    BY <1>0, <2>1, <2>2, <2>3, KeptKnown
<1>2. CASE inject(c)
  <2>1. /\ At(c, "inject") /\ t \in Tabs /\ \A b \in Calls \ {c} : call'[b] = call[b]
        /\ \/ /\ \A u \in Tabs : Open(u)' <=> Open(u)
              /\ IF call[c].op = "locate" THEN call'[c] = Idle ELSE Goes(c, "on")
           \/ call'[c] = Idle /\ UNCHANGED doc
        /\ UNCHANGED <<active, restored, modes, wanted, disturbed>>
    BY <1>2, InjectDoes, RedoneOpens DEF worker, ghosts
  <2>2. call'[c].pc # "restore" /\ ~At(c, "restore")
    BY <2>1, IdleIs DEF Goes, At
  <2>3. Bystander(c) => Bystander(c)'
    BY <2>1, IdleIs DEF Bystander, At
  <2>. QED
    BY <1>0, <2>1, <2>2, <2>3, KeptSame
<1>3. CASE SetModeOn(c)
  <2>1. /\ At(c, "on") /\ t \in Tabs /\ Goes(c, "sync") /\ \A b \in Calls \ {c} : call'[b] = call[b]
        /\ \A u \in Tabs : Open(u)' <=> Open(u)
        /\ UNCHANGED <<active, restored, modes, wanted, disturbed>>
    BY <1>0, <1>3, SetModeOnDoes, RedoneOpens DEF worker
  <2>2. call'[c].pc # "restore" /\ ~Bystander(c)
    BY <2>1 DEF Goes, Bystander, At
  <2>. QED
    BY <1>0, <2>1, <2>2, KeptKnown
<1>4. CASE SetModeOff(c)
  <2>1. /\ At(c, "off") /\ t \in Tabs /\ \A b \in Calls \ {c} : call'[b] = call[b]
        /\ IF call[c].todo = {} THEN call'[c] = Idle ELSE Goes(c, "stop next")
        /\ \A u \in Tabs : Open(u)' <=> Open(u)
        /\ disturbed' = (disturbed \/ Heard(t))
        /\ UNCHANGED <<active, restored, modes, wanted>>
    BY <1>0, <1>4, SetModeOffDoes, RedoneOpens DEF worker
  <2>2. call'[c].pc # "restore" /\ ~Bystander(c)
    BY <2>1, IdleIs DEF Goes, Bystander, At
  <2>. QED
    BY <1>0, <2>1, <2>2, KeptKnown
<1>5. CASE StopNext(c)
  <2>1. /\ At(c, "stop next") /\ \A b \in Calls \ {c} : call'[b] = call[b]
        /\ call'[c].pc = "off" /\ (~disturbed' => ~disturbed)
        /\ \E u \in Tabs : active' = active \ {u} /\ Persists(active \ {u}) /\ wanted' = wanted \ {u}
        /\ UNCHANGED <<restored, doc>>
    BY <1>5, StopNextDoes
  <2>2. ~Bystander(c)
    BY <2>1 DEF Bystander, At
  <2>. QED
    BY <1>0, <2>1, <2>2, KeptKnown
<1>6. CASE Sync(c)
  <2>1. /\ At(c, "sync") /\ call'[c] = Idle /\ \A b \in Calls \ {c} : call'[b] = call[b]
        /\ \A u \in Tabs : Open(u)' <=> Open(u)
        /\ UNCHANGED <<active, restored, modes, wanted, disturbed>>
    BY <1>0, <1>6, SyncDoes, RedoneOpens
  <2>2. call'[c].pc # "restore" /\ ~At(c, "restore") /\ Bystander(c)'
    BY <2>1, IdleIs DEF At, Bystander
  <2>. QED
    BY <1>0, <2>1, <2>2, KeptSame
<1>7. CASE SyncNext(c)
  <2>1. /\ At(c, "sync next") /\ \A b \in Calls \ {c} : call'[b] = call[b]
        /\ call'[c] = Idle \/ call'[c].pc = "sync next"
        /\ \A u \in Tabs : Open(u)' <=> Open(u)
        /\ UNCHANGED <<active, restored, modes, wanted, disturbed>>
    BY <1>0, <1>7, SyncNextDoes, RedoneOpens DEF worker
  <2>2. call'[c].pc # "restore" /\ ~Bystander(c)
    BY <2>1, IdleIs DEF At, Bystander
  <2>. QED
    BY <1>0, <2>1, <2>2, KeptKnown
<1>8. CASE AnswerReady(c)
  <2>1. /\ At(c, "answer") /\ t \in Tabs /\ call'[c] = Idle /\ \A b \in Calls \ {c} : call'[b] = call[b]
        /\ \A u \in Tabs : Open(u)' <=> Open(u)
        /\ UNCHANGED <<active, restored, modes, wanted, disturbed>>
    BY <1>0, <1>8, AnswerReadyDoes, RedoneOpens
  <2>2. call'[c].pc # "restore" /\ ~Bystander(c)
    BY <2>1, IdleIs DEF At, Bystander
  <2>. QED
    BY <1>0, <2>1, <2>2, KeptKnown
<1>. QED
  BY <1>1, <1>2, <1>3, <1>4, <1>5, <1>6, <1>7, <1>8, KeptStarts DEF Proceeds, Starts

LEMMA KeptNext ==
    ASSUME TypeInv, OneRestores, KeptInv, [Next]_vars PROVE OneRestores' /\ KeptInv'
<1>0. disturbed \in BOOLEAN /\ (UNCHANGED doc => \A u \in Tabs : Open(u)' <=> Open(u))
  BY DEF TypeInv, ModesTyped, Open
<1>1. CASE UNCHANGED vars
  <2>1. UNCHANGED <<doc, call, modes, wanted, active, restored, disturbed>>
    BY <1>1 DEF vars, worker, chrome, ghosts
  <2>. QED
    BY <1>0, <2>1, KeptPage
<1>2. ASSUME NEW c \in Calls, AgentEdit(c) \/ locate(c) PROVE OneRestores' /\ KeptInv'
  <2>1. /\ At(c, "idle") /\ \A b \in Calls \ {c} : call'[b] = call[b]
        /\ \/ call'[c].pc = "saved"
           \/ call'[c].pc = "inject" /\ call'[c].op = "locate"
        /\ UNCHANGED <<active, restored, modes, doc, wanted, disturbed>>
    BY <1>2, AgentEditDoes, LocateDoes DEF worker, chrome, ghosts
  <2>2. call'[c].pc # "restore" /\ ~At(c, "restore") /\ Bystander(c)'
    BY <2>1 DEF At, Bystander
  <2>. QED
    BY <1>0, <2>1, <2>2, KeptSame
<1>3. ASSUME NEW t \in Tabs, onClick(t) \/ openViewer(t) \/ onEscape(t) \/ Done(t)
      PROVE  OneRestores' /\ KeptInv'
  <2>1. /\ \A u \in Tabs : Open(u)' <=> Open(u)
        /\ UNCHANGED <<call, active, restored, modes, wanted, disturbed>>
    BY <1>3, CardDoes, DoneDoes, RedoneOpens DEF Redrawn, worker
  <2>. QED
    BY <2>1, KeptPage
<1>4. ASSUME NEW t \in Tabs, NEW c \in Calls, submit(c, t) \/ ViewerEdit(c, t) PROVE OneRestores' /\ KeptInv'
  <2>1. /\ At(c, "idle") /\ \A b \in Calls \ {c} : call'[b] = call[b]
        /\ call'[c].pc = "sync" /\ call'[c].op = "edit"
        /\ \A u \in Tabs : Open(u)' <=> Open(u)
        /\ UNCHANGED <<active, restored, modes, wanted, disturbed>>
    BY <1>4, EditDoes, RedoneOpens DEF Redrawn
  <2>2. call'[c].pc # "restore" /\ ~At(c, "restore") /\ Bystander(c)'
    BY <2>1 DEF At, Bystander
  <2>. QED
    BY <2>1, <2>2, KeptSame
<1>5. ASSUME NEW t \in Tabs, Navigate(t) PROVE OneRestores' /\ KeptInv'
  <2>1. /\ \A d \in Calls : LET k == call'[d]
                                j == call[d] IN k.op = j.op /\ k.pc = j.pc /\ k.todo = j.todo
        /\ Open(t) /\ Open(t)' /\ \A u \in Tabs \ {t} : doc'[u] = doc[u]
        /\ UNCHANGED <<active, restored, modes, wanted, disturbed>>
    BY <1>5, NavigateDoes DEF worker
  <2>2. \A u \in Tabs : Open(u)' <=> Open(u)
    BY <2>1 DEF Open
  <2>. QED
    BY <2>1, <2>2, KeptPage
<1>6. ASSUME NEW t \in Tabs, handleTabRemoved(t) PROVE OneRestores' /\ KeptInv'
  <2>1. /\ \A d \in Calls : LET k == call'[d]
                                j == call[d] IN k.op = j.op /\ k.pc = j.pc /\ k.todo = j.todo
        /\ ~Open(t)' /\ \A u \in Tabs \ {t} : doc'[u] = doc[u]
        /\ active' = active \ {t} /\ Persists(active \ {t}) /\ wanted' = wanted \ {t}
        /\ ~disturbed' => ~disturbed /\ (modes \ {t} = active \ {t} \/ (restored /\ ~Restoring))
        /\ UNCHANGED restored
    BY <1>6, RemovedDoes
  <2>2. \A d \in Calls : (At(d, "restore")' <=> At(d, "restore")) /\ (Bystander(d)' <=> Bystander(d))
    BY <2>1 DEF At, Bystander
  <2>3. OneRestores' /\ (Restoring' <=> Restoring)
    BY <2>1, <2>2 DEF OneRestores, Restoring
  <2>4. ASSUME ~disturbed' PROVE Kept'
    <3>1. Kept /\ (modes \ {t} = active \ {t} \/ (restored /\ ~Restoring))
      BY <2>1, <2>4 DEF KeptInv
    <3>2. modes' = wanted'
      BY <2>1, <2>4, <3>1 DEF Kept, Persists
    <3>3. \A u \in Tabs : Open(u)' <=> Open(u) /\ u # t
      BY <2>1 DEF Open
    <3>4. ASSUME NEW d \in Calls, At(d, "restore")'
          PROVE  wanted' = {u \in call'[d].todo : Open(u)'}
      <4>1. /\ wanted = {u \in call[d].todo : Open(u)} /\ call[d].todo \subseteq Tabs
            /\ call'[d].todo = call[d].todo
        BY <2>1, <2>2, <3>1, <3>4 DEF Kept, TypeInv, CallsTyped, CallStates
      <4>. QED
        BY <2>1, <3>3, <4>1
    <3>5. \A u \in wanted' : Open(u)'
      BY <2>1, <3>1, <3>3 DEF Kept, TypeInv, ModesTyped
    <3>6. restored' /\ ~Restoring' => active' = wanted'
      BY <2>1, <2>3, <3>1 DEF Kept
    <3>7. ~restored' \/ Restoring' => active' = {} /\ \A d \in Calls : Bystander(d)'
      BY <2>1, <2>2, <2>3, <3>1 DEF Kept
    <3>. QED
      BY <3>2, <3>4, <3>5, <3>6, <3>7 DEF Kept
  <2>. QED
    BY <2>3, <2>4 DEF KeptInv
<1>7. CASE WorkerDies
  <2>1. /\ active' = {} /\ ~restored' /\ (\A c \in Calls : call'[c] = Idle)
        /\ \A t \in Tabs : Open(t)' <=> Open(t)
        /\ UNCHANGED <<modes, wanted, disturbed>>
    BY <1>7, DiesDoes DEF Shuts
  <2>2. \A c \in Calls : ~At(c, "restore")' /\ Bystander(c)'
    BY <2>1, IdleIs DEF At, Bystander
  <2>3. OneRestores'
    BY <2>2 DEF OneRestores, Restoring
  <2>4. ASSUME ~disturbed PROVE Kept'
    BY <2>1, <2>2, <2>4 DEF KeptInv, Kept, Restoring, TypeInv, ModesTyped
  <2>. QED
    BY <2>1, <2>3, <2>4 DEF KeptInv
<1>8. ASSUME NEW c \in Calls, Events(c) PROVE OneRestores' /\ KeptInv'
  BY <1>2, <1>8, KeptStarts DEF Events, Starts
<1>9. ASSUME NEW t \in Tabs, PageEvents(t) PROVE OneRestores' /\ KeptInv'
  BY <1>3, <1>4, <1>5, <1>6, <1>9 DEF PageEvents
<1>. QED
  BY <1>1, <1>3, <1>7, <1>8, <1>9, KeptProceeds DEF Next

LEMMA KeptIsInvariant ==
    Spec => [](OneRestores /\ KeptInv)
<1>1. Init => OneRestores /\ KeptInv
  <2> SUFFICES ASSUME Init PROVE OneRestores /\ KeptInv
    OBVIOUS
  <2>1. \A c \in Calls : ~At(c, "restore") /\ Bystander(c)
    BY IdleIs DEF Init, At, Bystander
  <2>. QED
    BY <2>1 DEF Init, OneRestores, KeptInv, Kept, Restoring
<1>. QED
  BY <1>1, TypeIsInvariant, KeptNext, PTL DEF Spec

\* When nothing is under way, the tabs in the mode are those that were put in it and
\* not taken out: active of mode.js, and its copy in chrome.storage, which the worker
\* reads in restore() when it has died.
THEOREM ModesAreKept ==
    Spec => []ModesKept
<1>1. TypeInv /\ KeptInv => ModesKept
  <2> SUFFICES ASSUME TypeInv, KeptInv, ~disturbed, Quiet PROVE InMode = wanted /\ modes = wanted
    BY DEF ModesKept
  <2>1. ~Restoring
    BY DEF Quiet, Restoring, At
  <2>. QED
    BY <2>1 DEF KeptInv, Kept, InMode
<1>. QED
  BY <1>1, TypeIsInvariant, KeptIsInvariant, PTL

----------------------------------------------------------------------------
(* The composer                                                            *)

LEMMA CallsKeepCards ==
    ASSUME TypeInv, NEW c \in Calls, NEW t \in Tabs, Proceeds(c) \/ Starts(c), Open(t), doc'[t].mode
    PROVE  doc'[t].card = doc[t].card \/ (Awaited(c, t) /\ call'[c] = Idle)
<1> DEFINE u == call[c].tab
           d == doc[u]
<1>1. CASE Starts(c) \/ Restore(c)
  <2>1. \A k : Sound(k) /\ k.op \in RunOps /\ k.todo = {} /\ (k.fresh => k.tab \in Tabs /\ Open(k.tab))
          => \A set \in SUBSET Tabs, fs \in [Tabs -> Pages \union {None}] :
               Run(c, k, set, fs) => doc'[t] = doc[t]
    <3>1. SUFFICES ASSUME NEW k, Sound(k), k.op \in RunOps, k.todo = {},
                          k.fresh => k.tab \in Tabs /\ Open(k.tab),
                          NEW set \in SUBSET Tabs, NEW fs \in [Tabs -> Pages \union {None}],
                          Run(c, k, set, fs)
                   PROVE  doc'[t] = doc[t]
      OBVIOUS
    <3>2. UNCHANGED doc \/ Answer(c, k, FALSE)
      BY <3>1, RunDoes DEF Runs, Stops, Asks
    <3>3. k.fresh \in BOOLEAN /\ ModesTyped /\ DocsTyped
      BY <3>1 DEF Sound, CallStates, TypeInv
    <3>4. ASSUME Answer(c, k, FALSE) PROVE doc'[t] = doc[t]
      <4>1. /\ ~k.fresh => UNCHANGED doc
            /\ k.fresh => (\A v \in Tabs \ {k.tab} : doc'[v] = doc[v]) /\ doc'[k.tab].mode = FALSE
        BY <3>1, <3>3, <3>4, AnswerDoes
      <4>. QED
        BY <4>1
    <3>. QED
      BY <3>2, <3>4
  <2>2. active \in SUBSET Tabs /\ frames \in [Tabs -> Pages \union {None}]
    BY DEF TypeInv, ModesTyped
  <2>3. CASE Starts(c)
    <3>1. PICK k, fs : Comes(c, k, fs) /\ Begin(c, k, fs)
      BY <2>3, StartsDo
    <3>2. /\ Sound(k) /\ k \in CallStates /\ k.op \in RunOps /\ k.todo = {}
          /\ k.fresh => k.tab \in Tabs /\ Open(k.tab)
          /\ fs \in [Tabs -> Pages \union {None}]
      BY <3>1 DEF Comes, Sound
    <3>3. Run(c, k, active, fs) \/ UNCHANGED doc
      BY <3>1, <3>2, BeginDoes DEF Waits
    <3>. QED
      BY <2>1, <2>2, <3>2, <3>3
  <2>4. CASE Restore(c)
    <3>1. PICK k : k = [call[c] EXCEPT !.todo = {}]
      OBVIOUS
    <3>2. /\ Run(c, k, Restored(c), frames) /\ Restored(c) \in SUBSET Tabs
          /\ Sound(k) /\ k.op \in RunOps /\ k.todo = {}
          /\ k.fresh => k.tab \in Tabs /\ Open(k.tab)
      BY <2>4, <3>1, RestoreDoes
    <3>3. PICK set : set = Restored(c)
      OBVIOUS
    <3>. QED
      BY <2>1, <2>2, <3>2, <3>3
  <2>. QED
    BY <1>1, <2>3, <2>4
<1>2. CASE Get(c)
  BY <1>2, GetDoes
<1>3. CASE inject(c)
  <2>1. u \in Tabs
    BY <1>3, InjectDoes
  <2>2. CASE Annotatable(u)
    <3>1. PICK b : Page(u, [d EXCEPT !.loaded = TRUE, !.located = b])
      BY <1>3, <2>2 DEF inject
    <3>2. d \in Docs
      BY <2>1, <2>2 DEF Annotatable, Open, TypeInv, DocsTyped
    <3>3. [d EXCEPT !.loaded = TRUE, !.located = b].card = d.card
      BY <3>2 DEF Docs
    <3>. QED
      BY <2>1, <3>1, <3>3 DEF Page, TypeInv, DocsTyped
  <2>3. CASE ~Annotatable(u)
    BY <1>3, <2>3 DEF inject
  <2>. QED
    BY <2>2, <2>3
<1>4. CASE SetModeOn(c)
  <2>1. u \in Tabs
    BY <1>4, SetModeOnDoes
  <2>2. CASE Loaded(u)
    <3>1. d \in Docs
      BY <2>1, <2>2 DEF Loaded, Open, TypeInv, DocsTyped
    <3>2. PICK e : e = SetMode(d, TRUE)
      OBVIOUS
    <3>3. e.card = d.card
      BY <3>1, <3>2, DocIs
    <3>4. doc' = [doc EXCEPT ![u] = e]
      BY <1>4, <2>2, <3>2 DEF SetModeOn
    <3>. QED
      BY <2>1, <3>3, <3>4 DEF TypeInv, DocsTyped
  <2>3. CASE ~Loaded(u)
    BY <1>4, <2>3 DEF SetModeOn
  <2>. QED
    BY <2>2, <2>3
<1>5. CASE SetModeOff(c)
  <2>1. u \in Tabs /\ (UNCHANGED doc \/ Redone(u, FALSE, FALSE, FALSE, d.pins))
    BY <1>5, SetModeOffDoes
  <2>. QED
    BY <2>1 DEF Redone
<1>6. CASE StopNext(c)
  BY <1>6, StopNextDoes
<1>7. CASE Sync(c)
  <2>1. u \in Tabs /\ call'[c] = Idle
    BY <1>7, SyncDoes
  <2>2. PICK s : s = Synced(doc, u)
    OBVIOUS
  <2>3. s[t].card = doc[t].card /\ s \in [Tabs -> Docs \union {None}]
    BY <2>1, <2>2, SyncedIs
  <2>4. doc' = IF Awaited(c, u) /\ Open(u) THEN [s EXCEPT ![u] = closeCard(@)] ELSE s
    BY <1>7, <2>2 DEF Sync
  <2>. QED
    BY <2>1, <2>3, <2>4
<1>8. CASE SyncNext(c)
  <2>1. PICK v \in call[c].todo : doc' = Synced(doc, v)
    BY <1>8 DEF SyncNext
  <2>2. v \in Tabs
    BY <2>1 DEF TypeInv, CallsTyped, CallStates
  <2>. QED
    BY <2>1, <2>2, SyncedIs
<1>9. CASE AnswerReady(c)
  <2>1. PICK k : k = call[c]
    OBVIOUS
  <2>2. k.tab \in Tabs /\ k.fresh \in BOOLEAN /\ (k.fresh => Open(k.tab)) /\ Answer(c, k, TRUE)
    BY <1>9, <2>1, AnswerReadyDoes DEF AnswerReady, TypeInv, CallsTyped, CallStates
  <2>3. /\ ~k.fresh => UNCHANGED doc
        /\ k.fresh => (\A v \in Tabs \ {k.tab} : doc'[v] = doc[v]) /\ doc'[k.tab].card = doc[k.tab].card
    BY <2>2, AnswerDoes DEF TypeInv
  <2>. QED
    BY <2>3
<1>. QED
  BY <1>1, <1>2, <1>3, <1>4, <1>5, <1>6, <1>7, <1>8, <1>9 DEF Proceeds, Starts

\* A comment being typed.
Typing(t) == Annotating(t) /\ doc[t].card = "composer"
Typed(t) == Annotating(t) /\ doc[t].card # "composer"

\* What may end it.
Closes(t) ==
    \/ onClick(t) \/ onEscape(t) \/ openViewer(t)
    \/ \E c \in Calls : submit(c, t) \/ (Awaited(c, t) /\ call'[c] = Idle)

LEMMA CardsStay ==
    ASSUME TypeInv, [Next]_vars, NEW t \in Tabs, Typing(t), Typed(t)' PROVE Closes(t)
<1>0. Open(t) /\ doc[t].card = "composer" /\ doc'[t] # None /\ doc'[t].mode /\ doc'[t].card # "composer"
  BY DEF Typing, Typed, Annotating, Open
<1>1. ~UNCHANGED doc
  BY <1>0
<1>2. ASSUME NEW c \in Calls, Proceeds(c) \/ Events(c) PROVE Closes(t)
  BY <1>0, <1>1, <1>2, CallsKeepCards, AgentEditDoes, LocateDoes DEF Events, Starts, Closes, chrome
<1>3. ASSUME NEW u \in Tabs, PageEvents(u) \/ onEscape(u) PROVE Closes(t)
  <2>1. CASE u = t
    <3>1. ~Done(t)
      BY <1>0, DoneDoes DEF Redone
    <3>2. ~Navigate(t) /\ ~handleTabRemoved(t)
      BY <1>0, NavigateDoes, RemovedDoes DEF Open
    <3>3. \A c \in Calls : ~ViewerEdit(c, t)
      BY <1>1 DEF ViewerEdit
    <3>. QED
      BY <1>3, <2>1, <3>1, <3>2, <3>3 DEF PageEvents, Closes
  <2>2. CASE u # t
    <3>1. doc'[t] = doc[t]
      <4>1. CASE onClick(u) \/ openViewer(u) \/ onEscape(u)
        BY <2>2, <4>1, CardDoes DEF Redrawn, Redone
      <4>2. CASE Done(u)
        BY <2>2, <4>2, DoneDoes DEF Redone
      <4>3. CASE Navigate(u)
        BY <2>2, <4>3, NavigateDoes
      <4>4. CASE handleTabRemoved(u)
        BY <2>2, <4>4, RemovedDoes
      <4>5. ASSUME NEW c \in Calls, submit(c, u) \/ ViewerEdit(c, u) PROVE doc'[t] = doc[t]
        BY <2>2, <4>5, EditDoes DEF Redrawn, Redone
      <4>. QED
        BY <1>3, <4>1, <4>2, <4>3, <4>4, <4>5 DEF PageEvents
    <3>. QED
      BY <1>0, <3>1
  <2>. QED
    BY <2>1, <2>2
<1>4. CASE WorkerDies
  BY <1>0, <1>4, DiesDoes DEF Shuts, Closes
<1>. QED
  BY <1>1, <1>2, <1>3, <1>4 DEF Next, vars, chrome

\* What the worker does or suffers leaves the composer alone while the mode stays on, but
\* when an edit made in a viewer of the page is over: its buttons (openViewer in
\* annotator.js) close whatever card is open, answered or not.
THEOREM DraftsAreKept ==
    Spec => DraftKept
<1>1. ASSUME TypeInv, [Next]_vars
      PROVE  \A t \in Tabs :
               (Annotating(t) /\ doc[t].card = "composer") /\ (Annotating(t) /\ doc[t].card # "composer")'
               => \/ onClick(t) \/ onEscape(t) \/ openViewer(t)
                  \/ \E c \in Calls : submit(c, t) \/ (Awaited(c, t) /\ call'[c] = Idle)
  BY <1>1, CardsStay DEF Typing, Typed, Closes
<1>. QED
  BY <1>1, TypeIsInvariant, PTL DEF Spec, DraftKept

----------------------------------------------------------------------------
(* The overlays fit                                                        *)

\* The document of a tab stays, with the same overlay.
Alike(t) ==
    /\ Open(t)' <=> Open(t)
    /\ doc'[t].page = doc[t].page /\ doc'[t].mode = doc[t].mode
    /\ doc'[t].loaded = doc[t].loaded /\ doc'[t].located = doc[t].located

\* What a call says about an overlay.
Speaks(c, t) == OfTab(c, t) /\ call[c].pc \in {"inject", "restore", "on", "off"}

\* The calls that do not move.
StandBut(moving) ==
    \A d \in Calls \ moving : LET k == call'[d]
                                  j == call[d] IN
      k.op = j.op /\ k.tab = j.tab /\ k.pc = j.pc /\ k.page = j.page /\ (k.fresh => j.fresh)

\* A tab that nothing happens to.
Steady(moving, t) ==
    /\ Alike(t)
    /\ mail'[t] = mail[t]
    /\ t \in pending' <=> t \in pending
    /\ t \in wanted' <=> t \in wanted
    /\ t \in torn' <=> t \in torn
    /\ \A c \in moving : ~Speaks(c, t)

LEMMA AlikeIs ==
    ASSUME NEW t \in Tabs, Alike(t) PROVE Annotatable(t)' <=> Annotatable(t)
BY DEF Alike, Annotatable, Open

LEMMA ComingStays ==
    ASSUME NEW moving \in SUBSET Calls, NEW t \in Tabs, StandBut(moving), doc'[t].loaded = doc[t].loaded,
           t \in pending => t \in pending', \A c \in moving : ~Speaks(c, t), Coming(t)
    PROVE  Coming(t)'
<1>1. CASE t \in pending
  BY <1>1 DEF Coming
<1>2. ASSUME NEW c \in Calls, OfTab(c, t), call[c].op \in {"start", "updated"},
             \/ At(c, "inject")
             \/ At(c, "restore") /\ call[c].op = "updated"
             \/ At(c, "on") /\ doc[t].loaded
      PROVE  Coming(t)'
  <2>1. c \notin moving
    BY <1>2 DEF Speaks, At
  <2>2. call'[c].op = call[c].op /\ call'[c].tab = call[c].tab /\ call'[c].pc = call[c].pc
    BY <2>1 DEF StandBut
  <2>. QED
    BY <1>2, <2>2 DEF Coming, OfTab, At
<1>. QED
  BY <1>1, <1>2 DEF Coming

LEMMA DroppingStays ==
    ASSUME NEW moving \in SUBSET Calls, NEW t \in Tabs, StandBut(moving),
           \A c \in moving : ~Speaks(c, t), Dropping(t)
    PROVE  Dropping(t)'
<1>1. PICK c \in Calls : OfTab(c, t) /\ At(c, "off")
  BY DEF Dropping
<1>2. c \notin moving
  BY <1>1 DEF Speaks, At
<1>. QED
  BY <1>1, <1>2 DEF Dropping, StandBut, OfTab, At

LEMMA LeavingStays ==
    ASSUME NEW moving \in SUBSET Calls, NEW t \in Tabs, StandBut(moving), mail'[t] = mail[t],
           \A c \in moving : ~Speaks(c, t), Leaving(t)
    PROVE  Leaving(t)'
<1>1. CASE \E i \in DOMAIN mail[t] : mail[t][i].type = "STOP"
  BY <1>1 DEF Leaving
<1>2. ASSUME NEW c \in Calls, OfTab(c, t), At(c, "restore"), call[c].op = "stop" PROVE Leaving(t)'
  <2>1. c \notin moving
    BY <1>2 DEF Speaks, At
  <2>. QED
    BY <1>2, <2>1 DEF Leaving, StandBut, OfTab, At
<1>. QED
  BY <1>1, <1>2 DEF Leaving

\* The overlay of a tab that nothing happens to.
LEMMA OverlayStays ==
    ASSUME NEW moving \in SUBSET Calls, NEW t \in Tabs, StandBut(moving), Steady(moving, t),
           Annotatable(t) => Overlay(t), Announced(t)
    PROVE  (Annotatable(t)' => Overlay(t)') /\ Announced(t)' /\ (Coming(t) => Coming(t)')
<1>1. Alike(t) /\ mail'[t] = mail[t]
  BY DEF Steady
<1>2. Announced(t)'
  BY <1>1 DEF Announced, Alike
<1>3. Coming(t) => Coming(t)'
  BY <1>1, ComingStays DEF Steady, Alike
<1>4. Leaving(t) => Leaving(t)'
  BY <1>1, LeavingStays DEF Steady
<1>5. Dropping(t) => Dropping(t)'
  BY DroppingStays DEF Steady
<1>6. ASSUME Annotatable(t)' PROVE Overlay(t)'
  <2>1. Overlay(t)
    BY <1>1, <1>6, AlikeIs
  <2>. QED
    BY <1>1, <1>3, <1>4, <1>5, <2>1 DEF Overlay, Steady, Alike
<1>. QED
  BY <1>2, <1>3, <1>6

\* A call that does not move, and its tab is still in the mode if it was.
LEMMA TimelyStays ==
    ASSUME NEW moving \in SUBSET Calls, StandBut(moving), NEW d \in Calls \ moving, Timely(d),
           NEW t \in Tabs, OfTab(d, t), Open(t)' <=> Open(t), doc'[t].page = doc[t].page,
           doc'[t].loaded = doc[t].loaded, t \in wanted' <=> t \in wanted, Coming(t) => Coming(t)'
    PROVE  Timely(d)'
<1>1. /\ call'[d].op = call[d].op /\ call'[d].tab = t /\ call'[d].pc = call[d].pc
      /\ call'[d].page = call[d].page /\ (call'[d].fresh => call[d].fresh) /\ call[d].tab = t
  BY DEF StandBut, OfTab
<1>2. Annotatable(t)' <=> Annotatable(t)
  BY DEF Annotatable, Open
<1> DEFINE In == call[d].pc \in {"inject", "on"} /\ call[d].op # "locate" /\ Open(t) => t \in wanted
           On == At(d, "on") /\ Annotatable(t) => doc[t].loaded \/ Coming(t)
           Off == At(d, "off") => t \notin wanted
           Ans == At(d, "answer") /\ call[d].fresh => t \in wanted
           Rdy == call[d].pc \in {"restore", "answer"} /\ call[d].op = "ready" /\ call[d].fresh
                    => doc[t].loaded /\ doc[t].page = call[d].page
<1>3. In /\ On /\ Off /\ Ans /\ Rdy
  BY <1>1 DEF Timely
<1>4. In' /\ On' /\ Off' /\ Ans' /\ Rdy'
  BY <1>1, <1>2, <1>3 DEF At
<1>. QED
  BY <1>1, <1>4 DEF Timely, Annotatable, Open, Coming, OfTab, At

\* What is asked of a call that is not for a tab, or that is at another place.
LEMMA TimelyElse ==
    ASSUME TypeInv', NEW d \in Calls,
           \/ call'[d].tab \notin Tabs
           \/ call'[d].pc \notin {"inject", "on", "off", "restore", "answer"}
           \/ call'[d].pc = "restore" /\ call'[d].op # "ready"
           \/ call'[d].pc = "inject" /\ call'[d].op = "locate"
    PROVE  Timely(d)'
<1>1. call'[d].pc \in {"inject", "on", "off", "answer"} => call'[d].tab \in Tabs
  BY DEF TypeInv, CallsTyped, Sound, OpAt
<1>2. call'[d].op = "ready" => call'[d].tab \in Tabs
  BY DEF TypeInv, CallsTyped, Sound
<1>. QED
  BY <1>1, <1>2 DEF Timely, At

\* A call takes no part in an overlap, or it was seen to.
LEMMA OverlapStays ==
    ASSUME NoOverlap, NEW moving \in SUBSET Calls, StandBut(moving),
           \A c \in moving : \/ ~InFlight(c)' \/ call'[c].op \notin {"stop", "start", "updated", "ready"}
                             \/ InFlight(c) /\ call'[c].op = call[c].op /\ call'[c].tab = call[c].tab
    PROVE  NoOverlap'
<1>1. ASSUME NEW c \in Calls, InFlight(c)', call'[c].op \in {"stop", "start", "updated", "ready"}
      PROVE  InFlight(c) /\ call'[c].op = call[c].op /\ call'[c].tab = call[c].tab
  BY <1>1 DEF StandBut, InFlight
<1>. QED
  BY <1>1 DEF NoOverlap, OfTab

LEMMA OverlapSeen ==
    ASSUME NoOverlap, NEW c \in Calls, StandBut({c}), NEW op \in {"stop", "start", "updated", "ready"},
           NEW t, call'[c].op = op, call'[c].tab = t, ~Overlaps(c, op, t)
    PROVE  NoOverlap'
<1>1. ASSUME NEW d \in Calls \ {c} PROVE (InFlight(d)' <=> InFlight(d)) /\ call'[d].op = call[d].op /\ call'[d].tab = call[d].tab
  BY DEF StandBut, InFlight
<1>2. ASSUME NEW a \in Calls, NEW b \in Calls, a # b, InFlight(a)', InFlight(b)', call'[a].op = "stop",
             call'[b].tab = call'[a].tab, call'[b].op \in {"start", "updated", "ready"}
      PROVE  FALSE
  <2>1. CASE a = c
    BY <1>1, <1>2, <2>1 DEF Overlaps
  <2>2. CASE b = c
    BY <1>1, <1>2, <2>2 DEF Overlaps
  <2>3. CASE a # c /\ b # c
    BY <1>1, <1>2, <2>3 DEF NoOverlap, OfTab
  <2>. QED
    BY <2>1, <2>2, <2>3
<1>. QED
  BY <1>2 DEF NoOverlap, OfTab

LEMMA FitBut ==
    ASSUME TypeInv', OverlaysFit, NEW moving \in SUBSET Calls, StandBut(moving),
           NEW special \in SUBSET Tabs, \A u \in Tabs \ special : Steady(moving, u),
           \A t \in special : /\ (Annotatable(t)' => Overlay(t)') /\ Announced(t)'
                              /\ \A d \in Calls \ moving : OfTab(d, t) => Timely(d)',
           \A c \in moving : Timely(c)', NoOverlap'
    PROVE  OverlaysFit'
<1>1. ASSUME NEW t \in Tabs PROVE (Annotatable(t)' => Overlay(t)') /\ Announced(t)'
  BY OverlayStays DEF OverlaysFit
<1>2. ASSUME NEW d \in Calls PROVE Timely(d)'
  <2>0. PICK t : t = call[d].tab
    OBVIOUS
  <2>1. CASE d \in moving
    BY <2>1
  <2>2. CASE d \notin moving /\ t \in special
    BY <2>0, <2>2 DEF OfTab
  <2>3. CASE d \notin moving /\ t \in Tabs \ special
    <3>1. Steady(moving, t) /\ (Coming(t) => Coming(t)')
      BY <2>3, OverlayStays DEF OverlaysFit
    <3>. QED
      <4>1. Timely(d) /\ OfTab(d, t)
        BY <2>0 DEF OverlaysFit, OfTab
      <4>2. /\ Open(t)' <=> Open(t)
            /\ doc'[t].page = doc[t].page /\ doc'[t].loaded = doc[t].loaded
            /\ t \in wanted' <=> t \in wanted
        BY <3>1 DEF Steady, Alike
      <4>. QED
        BY <2>3, <3>1, <4>1, <4>2, TimelyStays
  <2>4. CASE d \notin moving /\ t \notin Tabs
    <3>1. call'[d].tab = t
      BY <2>0, <2>4 DEF StandBut
    <3>. QED
      BY <2>4, <3>1, TimelyElse
  <2>. QED
    BY <2>1, <2>2, <2>3, <2>4
<1>. QED
  BY <1>1, <1>2 DEF OverlaysFit

LEMMA FitAll ==
    ASSUME TypeInv', OverlaysFit, NEW moving \in SUBSET Calls, StandBut(moving),
           \A u \in Tabs : Steady(moving, u),
           \A c \in moving : Timely(c)', NoOverlap'
    PROVE  OverlaysFit'
<1>1. PICK special : special = {}
  OBVIOUS
<1>2. /\ special \in SUBSET Tabs /\ \A u \in Tabs \ special : Steady(moving, u)
      /\ \A u \in special : /\ (Annotatable(u)' => Overlay(u)') /\ Announced(u)'
                            /\ \A d \in Calls \ moving : OfTab(d, u) => Timely(d)'
  BY <1>1
<1>. QED
  BY <1>2, FitBut

LEMMA FitOne ==
    ASSUME TypeInv', OverlaysFit, NEW moving \in SUBSET Calls, StandBut(moving),
           NEW t \in Tabs, \A u \in Tabs \ {t} : Steady(moving, u),
           Annotatable(t)' => Overlay(t)', Announced(t)',
           \A d \in Calls \ moving : OfTab(d, t) => Timely(d)',
           \A c \in moving : Timely(c)', NoOverlap'
    PROVE  OverlaysFit'
<1>1. PICK special : special = {t}
  OBVIOUS
<1>2. /\ special \in SUBSET Tabs /\ \A u \in Tabs \ special : Steady(moving, u)
      /\ \A u \in special : /\ (Annotatable(u)' => Overlay(u)') /\ Announced(u)'
                            /\ \A d \in Calls \ moving : OfTab(d, u) => Timely(d)'
  BY <1>1
<1>. QED
  BY <1>2, FitBut

LEMMA RedoneAlike ==
    ASSUME NEW t \in Tabs, NEW loaded, NEW located, NEW mode, NEW pins, Redone(t, loaded, located, mode, pins)
    PROVE  /\ \A u \in Tabs \ {t} : Alike(u)
           /\ loaded = doc[t].loaded /\ located = doc[t].located /\ mode = doc[t].mode => Alike(t)
<1>1. \A u \in Tabs : Open(u)' <=> Open(u)
  BY RedoneOpens
<1>. QED
  BY <1>1 DEF Redone, Alike

LEMMA DocAlike ==
    ASSUME UNCHANGED doc PROVE \A u \in Tabs : Alike(u)
BY DEF Alike, Open

\* What a page does.
LEMMA FitPage ==
    ASSUME TypeInv, TypeInv', OverlaysFit, NEW t \in Tabs, onClick(t) \/ openViewer(t) \/ onEscape(t) \/ Done(t)
    PROVE  OverlaysFit'
<1>1. CASE onClick(t) \/ openViewer(t) \/ onEscape(t)
  <2>1. /\ \A u \in Tabs : Alike(u)
        /\ UNCHANGED <<pending, call, wanted, torn, mail>>
    BY <1>1, CardDoes, RedoneAlike DEF Redrawn
  <2>2. StandBut({}) /\ \A u \in Tabs : Steady({}, u)
    BY <2>1 DEF StandBut, Steady
  <2>3. NoOverlap'
    BY <2>2, OverlapStays DEF OverlaysFit
  <2>. QED
    BY <2>2, <2>3, FitAll
<1>2. CASE Done(t)
  <2>1. /\ doc[t].mode /\ Redone(t, doc[t].loaded, doc[t].located, FALSE, doc[t].pins)
        /\ Send(t, "STOP") /\ Open(t)
        /\ UNCHANGED <<pending, call, wanted, torn>>
    BY <1>2, DoneDoes
  <2>2. /\ \A u \in Tabs \ {t} : mail'[u] = mail[u]
        /\ DOMAIN mail[t] \subseteq DOMAIN mail'[t]
        /\ \A i \in DOMAIN mail[t] : mail'[t][i] = mail[t][i]
        /\ Len(mail'[t]) = Len(mail[t]) + 1
        /\ mail'[t][Len(mail[t]) + 1].type = "STOP"
        /\ \A i \in DOMAIN mail'[t] : i \in DOMAIN mail[t] \/ i = Len(mail[t]) + 1
    BY <2>1, SendIs DEF TypeInv
  <2>3. StandBut({}) /\ \A u \in Tabs \ {t} : Steady({}, u)
    BY <2>1, <2>2, RedoneAlike DEF StandBut, Steady
  <2>4. NoOverlap'
    BY <2>3, OverlapStays DEF OverlaysFit
  <2>5. /\ doc'[t].loaded = doc[t].loaded /\ doc'[t].located = doc[t].located /\ ~doc'[t].mode
        /\ doc'[t].page = doc[t].page
    BY <2>1 DEF Redone
  <2>6. Announced(t)'
    <3>1. Announced(t)
      BY DEF OverlaysFit
    <3>. QED
      BY <2>2, <2>5, <3>1 DEF Announced
  <2>7. Leaving(t)'
    <3>1. Len(mail[t]) + 1 \in DOMAIN mail'[t]
      <4>1. mail[t] \in Seq(Messages) /\ mail'[t] \in Seq(Messages)
        BY DEF TypeInv, MailTyped
      <4>. QED
        BY <2>2, <4>1
    <3>. QED
      BY <2>2, <3>1 DEF Leaving
  <2>8. Annotatable(t)' => Overlay(t)'
    <3>1. SUFFICES ASSUME Annotatable(t)' PROVE Overlay(t)'
      OBVIOUS
    <3>2. Overlay(t)
      <4>1. Annotatable(t)
        BY <2>1, <2>5, <3>1 DEF Annotatable, Open
      <4>. QED
        BY <4>1 DEF OverlaysFit
    <3>3. Dropping(t)' <=> Dropping(t)
      BY <2>1 DEF Dropping, OfTab, At
    <3>. QED
      BY <2>1, <2>5, <2>7, <3>2, <3>3 DEF Overlay
  <2>9. Coming(t) => Coming(t)'
    BY <2>1, <2>3, <2>5, ComingStays
  <2>10. ASSUME NEW d \in Calls, OfTab(d, t) PROVE Timely(d)'
    <3>1. Timely(d) /\ (Open(t)' <=> Open(t))
      BY <2>1, RedoneOpens DEF OverlaysFit
    <3>. QED
      BY <2>1, <2>3, <2>5, <2>9, <2>10, <3>1, TimelyStays
  <2>. QED
    BY <2>3, <2>4, <2>6, <2>8, <2>10, FitOne
<1>. QED
  BY <1>1, <1>2

LEMMA OneMoves ==
    ASSUME NEW c \in Calls, \A d \in Calls \ {c} : call'[d] = call[d]
    PROVE  {c} \in SUBSET Calls /\ StandBut({c})
BY DEF StandBut

\* A call that has no part in the overlays.
LEMMA FitCall ==
    ASSUME TypeInv', OverlaysFit, NEW c \in Calls, \A d \in Calls \ {c} : call'[d] = call[d],
           \A u \in Tabs : Alike(u), UNCHANGED <<pending, mail, wanted, torn>>,
           call[c].pc \notin {"inject", "restore", "on", "off"},
           \/ call'[c].tab \notin Tabs
           \/ call'[c].pc \notin {"inject", "on", "off", "restore", "answer"}
           \/ call'[c].pc = "inject" /\ call'[c].op = "locate",
           \/ ~InFlight(c)' \/ call'[c].op \notin {"stop", "start", "updated", "ready"}
    PROVE  OverlaysFit'
<1>1. PICK moving : moving = {c}
  OBVIOUS
<1>2. StandBut(moving) /\ moving \in SUBSET Calls
  BY <1>1, OneMoves
<1>3. \A u \in Tabs : Steady(moving, u)
  BY <1>1 DEF Steady, Speaks
<1>4. Timely(c)'
  BY TimelyElse
<1>5. NoOverlap'
  BY <1>1, <1>2, OverlapStays DEF OverlaysFit
<1>. QED
  BY <1>1, <1>2, <1>3, <1>4, <1>5, FitAll

LEMMA FitBystanders ==
    ASSUME TypeInv, TypeInv', OverlaysFit, NEW c \in Calls,
           \/ AgentEdit(c) \/ locate(c) \/ Sync(c) \/ SyncNext(c)
           \/ \E t \in Tabs : submit(c, t) \/ ViewerEdit(c, t)
    PROVE  OverlaysFit'
<1>1. CASE AgentEdit(c)
  <2>1. /\ At(c, "idle") /\ (\A d \in Calls \ {c} : call'[d] = call[d])
        /\ call'[c].pc = "saved" /\ call'[c].op = "sync all"
        /\ UNCHANGED <<doc, pending, mail, wanted, torn>>
    BY <1>1, AgentEditDoes
  <2>. QED
    BY <2>1, DocAlike, FitCall DEF At
<1>2. CASE locate(c)
  <2>1. /\ At(c, "idle") /\ (\A d \in Calls \ {c} : call'[d] = call[d])
        /\ call'[c].pc = "inject" /\ call'[c].op = "locate"
        /\ UNCHANGED <<doc, pending, mail, wanted, torn>>
    BY <1>2, LocateDoes DEF chrome, ghosts
  <2>. QED
    BY <2>1, DocAlike, FitCall DEF At
<1>3. CASE Sync(c)
  <2>1. /\ At(c, "sync") /\ (\A d \in Calls \ {c} : call'[d] = call[d])
        /\ call'[c] = Idle /\ (\A u \in Tabs : Alike(u))
        /\ UNCHANGED <<pending, mail, wanted, torn>>
    BY <1>3, SyncDoes, DocAlike, RedoneAlike
  <2>. QED
    BY <2>1, FitCall, IdleIs DEF At
<1>4. CASE SyncNext(c)
  <2>1. /\ At(c, "sync next") /\ (\A d \in Calls \ {c} : call'[d] = call[d])
        /\ call'[c] = Idle \/ (call'[c].pc = "sync next" /\ call'[c].op = "sync all")
        /\ \A u \in Tabs : Alike(u)
        /\ UNCHANGED <<pending, mail, wanted, torn>>
    BY <1>4, SyncNextDoes, DocAlike, RedoneAlike
  <2>. QED
    BY <2>1, FitCall, IdleIs DEF At
<1>5. ASSUME NEW t \in Tabs, submit(c, t) \/ ViewerEdit(c, t) PROVE OverlaysFit'
  <2>1. /\ At(c, "idle") /\ (\A d \in Calls \ {c} : call'[d] = call[d])
        /\ call'[c].pc = "sync" /\ call'[c].op = "edit"
        /\ \A u \in Tabs : Alike(u)
        /\ UNCHANGED <<pending, mail, wanted, torn>>
    BY <1>5, EditDoes, RedoneAlike DEF Redrawn
  <2>. QED
    BY <2>1, FitCall DEF At
<1>. QED
  BY <1>1, <1>2, <1>3, <1>4, <1>5

LEMMA FitAnswers ==
    ASSUME TypeInv, TypeInv', OverlaysFit, NEW c \in Calls, AnswerReady(c)
    PROVE  OverlaysFit'
<1>1. PICK t : t = call[c].tab
  OBVIOUS
<1>2. /\ At(c, "answer") /\ t \in Tabs /\ call[c].op = "ready"
      /\ call'[c] = Idle /\ \A b \in Calls \ {c} : call'[b] = call[b]
      /\ ~call[c].fresh => UNCHANGED doc
      /\ call[c].fresh => Open(t) /\ Redone(t, doc[t].loaded, doc[t].located, TRUE, NotesOn(call[c].page))
      /\ UNCHANGED <<pending, mail, wanted, torn>>
  BY <1>1, AnswerReadyDoes
<1>3. CASE ~call[c].fresh
  BY <1>2, <1>3, DocAlike, FitCall, IdleIs DEF At
<1>4. CASE call[c].fresh
  <2>1. PICK moving : moving = {c}
    OBVIOUS
  <2>2. StandBut(moving) /\ moving \in SUBSET Calls
    BY <1>2, <2>1, OneMoves
  <2>3. \A u \in Tabs \ {t} : Steady(moving, u)
    BY <1>2, <1>4, <2>1, RedoneAlike DEF Steady, Speaks, At
  <2>4. NoOverlap'
    BY <1>2, <2>1, <2>2, OverlapStays, IdleIs DEF OverlaysFit, InFlight
  <2>5. Timely(c)'
    BY <1>2, TimelyElse, IdleIs
  <2>6. t \in wanted /\ doc[t].loaded
    BY <1>1, <1>2, <1>4 DEF OverlaysFit, Timely, At
  <2>7. /\ doc'[t].loaded = doc[t].loaded /\ doc'[t].mode = TRUE /\ doc'[t].page = doc[t].page
    BY <1>2, <1>4 DEF Redone
  <2>8. Annotatable(t)' => Overlay(t)'
    BY <1>2, <2>6, <2>7 DEF Overlay
  <2>9. Announced(t)'
    BY <1>2, <2>7 DEF OverlaysFit, Announced
  <2>10. Coming(t) => Coming(t)'
    <3>1. ~Speaks(c, t)
      BY <1>2 DEF Speaks, At
    <3>. QED
      BY <1>2, <2>1, <2>2, <2>7, <3>1, ComingStays
  <2>11. ASSUME NEW d \in Calls \ moving, OfTab(d, t) PROVE Timely(d)'
    <3>1. Timely(d) /\ (Open(t)' <=> Open(t))
      BY <1>2, <1>4, RedoneOpens DEF OverlaysFit
    <3>. QED
      BY <1>2, <2>2, <2>7, <2>10, <2>11, <3>1, TimelyStays
  <2>12. \A d \in moving : Timely(d)'
    BY <2>1, <2>5
  <2>. QED
    BY <1>2, <2>2, <2>3, <2>4, <2>8, <2>9, <2>11, <2>12, FitOne
<1>. QED
  BY <1>3, <1>4

LEMMA FitGets ==
    ASSUME TypeInv, TypeInv', OverlaysFit, NEW c \in Calls, Get(c)
    PROVE  OverlaysFit'
<1>1. PICK t : t = call[c].tab
  OBVIOUS
<1>2. /\ At(c, "get") /\ call[c].op = "start" /\ t \in Tabs
      /\ \A d \in Calls \ {c} : call'[d] = call[d]
      /\ \/ Annotatable(t) /\ wanted' = wanted \union {t} /\ Goes(c, "inject")
         \/ ~Annotatable(t) /\ call'[c] = Idle /\ UNCHANGED wanted
      /\ UNCHANGED <<doc, pending, mail, torn>>
  BY <1>1, GetDoes
<1>3. CASE ~Annotatable(t) /\ call'[c] = Idle /\ UNCHANGED wanted
  BY <1>2, <1>3, DocAlike, FitCall, IdleIs DEF At, InFlight
<1>4. CASE Annotatable(t) /\ wanted' = wanted \union {t} /\ Goes(c, "inject")
  <2>1. PICK moving : moving = {c}
    OBVIOUS
  <2>2. StandBut(moving) /\ moving \in SUBSET Calls
    BY <1>2, <2>1, OneMoves
  <2>3. \A u \in Tabs \ {t} : Steady(moving, u)
    BY <1>1, <1>2, <1>4, <2>1, DocAlike DEF Steady, Speaks, At
  <2>4. call'[c].op = "start" /\ call'[c].tab = t /\ call'[c].pc = "inject" /\ call[c].pc = "get"
    BY <1>1, <1>2, <1>4 DEF Goes, At
  <2>5. NoOverlap'
    <3>1. \A d \in moving : InFlight(d) /\ call'[d].op = call[d].op /\ call'[d].tab = call[d].tab
      BY <1>1, <1>2, <2>1, <2>4 DEF InFlight
    <3>. QED
      BY <2>2, <3>1, OverlapStays DEF OverlaysFit
  <2>6. Timely(c)'
    BY <1>4, <2>4 DEF Timely, At
  <2>7. Announced(t)'
    BY <1>2 DEF OverlaysFit, Announced
  <2>8. Annotatable(t)' => Overlay(t)'
    <3>1. Coming(t)'
      BY <2>4 DEF Coming, OfTab, At
    <3>2. Overlay(t)
      BY <1>2, <1>4 DEF OverlaysFit
    <3>. QED
      BY <1>2, <1>4, <3>1, <3>2 DEF Overlay
  <2>9. ASSUME NEW d \in Calls \ moving, OfTab(d, t) PROVE Timely(d)'
    <3>1. Timely(d) /\ call'[d] = call[d] /\ call[d].tab = t
      BY <1>2, <2>1, <2>9 DEF OverlaysFit, OfTab
    <3>2. ~At(d, "off")
      <4>1. At(d, "off") => InFlight(d) /\ call[d].op = "stop"
        BY DEF At, InFlight, TypeInv, CallsTyped, OpAt
      <4>2. InFlight(c) /\ OfTab(c, call[d].tab) /\ d # c
        BY <1>1, <2>1, <2>4, <3>1 DEF InFlight, OfTab
      <4>. QED
        BY <1>2, <4>1, <4>2 DEF OverlaysFit, NoOverlap
    <3>3. Coming(t) => Coming(t)'
      <4>1. ~Speaks(c, t)
        BY <2>4 DEF Speaks
      <4>. QED
        BY <1>2, <2>1, <2>2, <4>1, ComingStays
    <3>. QED
      BY <1>2, <1>4, <3>1, <3>2, <3>3 DEF Timely, Annotatable, Open, At
  <2>10. \A d \in moving : Timely(d)'
    BY <2>1, <2>6
  <2>. QED
    BY <1>2, <2>2, <2>3, <2>5, <2>7, <2>8, <2>9, <2>10, FitOne
<1>. QED
  BY <1>2, <1>3, <1>4

\* A page announces itself: what is in its mail then.
LEMMA AnnouncedAgain ==
    ASSUME MailTyped, DocsTyped, NEW t \in Tabs, Open(t), doc[t].page \in Pages, Send(t, "READY"),
           Announced(t), doc'[t].loaded, doc'[t].page = doc[t].page
    PROVE  Announced(t)' /\ (\A u \in Tabs \ {t} : mail'[u] = mail[u])
           /\ (\E i \in DOMAIN mail'[t] : mail'[t][i].type = "READY" /\ mail'[t][i].fresh)
           /\ \A type : (\E i \in DOMAIN mail[t] : mail[t][i].type = type)
                          => \E i \in DOMAIN mail'[t] : mail'[t][i].type = type
<1>1. /\ \A u \in Tabs \ {t} : mail'[u] = mail[u]
      /\ DOMAIN mail[t] \subseteq DOMAIN mail'[t]
      /\ \A i \in DOMAIN mail[t] : mail'[t][i] = mail[t][i]
      /\ Len(mail'[t]) = Len(mail[t]) + 1
      /\ LET last == mail'[t][Len(mail[t]) + 1] IN
           last.type = "READY" /\ last.page = doc[t].page /\ last.fresh
      /\ \A i \in DOMAIN mail'[t] : i \in DOMAIN mail[t] \/ i = Len(mail[t]) + 1
      /\ mail' \in [Tabs -> Seq(Messages)]
  BY SendIs
<1>2. Len(mail[t]) + 1 \in DOMAIN mail'[t]
  BY <1>1 DEF MailTyped
<1>3. Announced(t)'
  BY <1>1 DEF Announced
<1>. QED
  BY <1>1, <1>2, <1>3

LEMMA FitInjects ==
    ASSUME TypeInv, TypeInv', OverlaysFit, NEW c \in Calls, inject(c)
    PROVE  OverlaysFit'
<1>1. PICK t : t = call[c].tab
  OBVIOUS
<1>2. PICK d : d = doc[t]
  OBVIOUS
<1>3. PICK located : located = (call[c].op = "locate")
  OBVIOUS
<1>4. /\ At(c, "inject") /\ t \in Tabs /\ call[c].op \in {"start", "updated", "locate"}
      /\ \A b \in Calls \ {c} : call'[b] = call[b]
      /\ \/ /\ Annotatable(t) /\ Open(t)
            /\ Redone(t, TRUE, d.located \/ (located /\ ~d.loaded), d.mode, d.pins)
            /\ Send(t, "READY") /\ d.page \in Pages
            /\ IF located THEN call'[c] = Idle ELSE Goes(c, "on")
         \/ ~Annotatable(t) /\ call'[c] = Idle /\ UNCHANGED <<doc, mail>>
      /\ UNCHANGED <<pending, wanted, torn>>
  BY <1>1, <1>2, <1>3, InjectDoes DEF ghosts
<1>5. PICK moving : moving = {c}
  OBVIOUS
<1>6. StandBut(moving) /\ moving \in SUBSET Calls
  BY <1>4, <1>5, OneMoves
<1>7. Timely(c) /\ call[c].tab = t /\ call[c].pc = "inject"
  BY <1>1, <1>4 DEF OverlaysFit, At
<1>8. NoOverlap'
  <2>1. \A b \in moving : \/ ~InFlight(b)'
                          \/ InFlight(b) /\ call'[b].op = call[b].op /\ call'[b].tab = call[b].tab
    <3>1. CASE call'[c] = Idle
      BY <1>5, <3>1, IdleIs DEF InFlight
    <3>2. CASE Goes(c, "on")
      BY <1>5, <1>7, <3>2 DEF InFlight, Goes
    <3>. QED
      BY <1>4, <3>1, <3>2
  <2>. QED
    BY <1>6, <2>1, OverlapStays DEF OverlaysFit
<1>9. CASE ~Annotatable(t)
  <2>1. call'[c] = Idle /\ UNCHANGED <<doc, mail>>
    BY <1>4, <1>9
  <2>2. \A u \in Tabs \ {t} : Steady(moving, u)
    BY <1>4, <1>5, <1>7, <2>1, DocAlike DEF Steady, Speaks, OfTab
  <2>3. ~Annotatable(t)' /\ Announced(t)'
    BY <1>4, <1>9, <2>1 DEF Annotatable, Open, OverlaysFit, Announced
  <2>4. ASSUME NEW b \in Calls \ moving, OfTab(b, t) PROVE Timely(b)'
    <3>1. Timely(b) /\ call'[b] = call[b] /\ call[b].tab = t
      BY <1>4, <1>5, <2>4 DEF OverlaysFit, OfTab
    <3>. QED
      BY <1>4, <1>9, <2>1, <2>3, <3>1 DEF Timely, Annotatable, Open, At
  <2>5. \A b \in moving : Timely(b)'
    BY <1>5, <2>1, IdleIs, TimelyElse
  <2>. QED
    BY <1>4, <1>6, <1>8, <2>2, <2>3, <2>4, <2>5, FitOne
<1>10. CASE Annotatable(t)
  <2>1. /\ Open(t) /\ Redone(t, TRUE, d.located \/ (located /\ ~d.loaded), d.mode, d.pins)
        /\ Send(t, "READY") /\ d.page \in Pages
        /\ IF located THEN call'[c] = Idle ELSE Goes(c, "on")
    BY <1>4, <1>10
  <2>2. /\ doc'[t].loaded = TRUE /\ doc'[t].mode = d.mode /\ doc'[t].page = d.page
        /\ doc'[t].located = (d.located \/ (located /\ ~d.loaded))
    BY <2>1, <1>2 DEF Redone
  <2>3. /\ Announced(t)' /\ (\A u \in Tabs \ {t} : mail'[u] = mail[u])
        /\ Leaving(t) => Leaving(t)'
    <3>1. Announced(t)
      BY <1>4 DEF OverlaysFit
    <3>2. /\ Announced(t)' /\ (\A u \in Tabs \ {t} : mail'[u] = mail[u])
          /\ \A type : (\E i \in DOMAIN mail[t] : mail[t][i].type = type)
                         => \E i \in DOMAIN mail'[t] : mail'[t][i].type = type
      BY <1>2, <1>4, <2>1, <2>2, <3>1, AnnouncedAgain DEF TypeInv
    <3>3. \A b \in Calls : OfTab(b, t) /\ At(b, "restore") /\ call[b].op = "stop" => call'[b] = call[b]
      BY <1>4, <1>7 DEF At
    <3>. QED
      BY <3>2, <3>3 DEF Leaving, OfTab, At
  <2>4. \A u \in Tabs \ {t} : Steady(moving, u)
    BY <1>4, <1>5, <1>7, <2>1, <2>3, RedoneAlike DEF Steady, Speaks, OfTab
  <2>5. ~located => t \in wanted
    BY <1>3, <1>7, <2>1 DEF Timely
  <2>6. \A b \in moving : Timely(b)'
    <3>1. CASE located
      BY <1>5, <2>1, <3>1, IdleIs, TimelyElse
    <3>2. CASE ~located
      <4>1. Goes(c, "on")
        BY <2>1, <3>2
      <4>2. call'[c].pc = "on" /\ call'[c].tab = t
        BY <1>7, <4>1 DEF Goes
      <4>3. Timely(c)'
        BY <1>4, <2>2, <2>5, <3>2, <4>2 DEF Timely, At
      <4>. QED
        BY <1>5, <4>3
    <3>. QED
      BY <3>1, <3>2
  <2>7. Overlay(t)'
    <3>1. Overlay(t)
      BY <1>4, <1>10 DEF OverlaysFit
    <3>2. Dropping(t) => Dropping(t)'
      BY <1>4, <1>7 DEF Dropping, OfTab, At
    <3>3. Coming(t) => Coming(t)'
      <4>1. CASE t \in pending
        BY <1>4, <4>1 DEF Coming
      <4>2. ASSUME NEW b \in Calls, OfTab(b, t), call[b].op \in {"start", "updated"},
                   \/ At(b, "inject")
                   \/ At(b, "restore") /\ call[b].op = "updated"
                   \/ At(b, "on") /\ doc[t].loaded
            PROVE  Coming(t)'
        <5>1. CASE b # c
          <6>1. call'[b] = call[b]
            BY <1>4, <5>1
          <6>. QED
            BY <2>2, <4>2, <6>1 DEF Coming, OfTab, At
        <5>2. CASE b = c
          <6>1. Goes(c, "on")
            BY <1>3, <2>1, <4>2, <5>2
          <6>2. call'[c].pc = "on" /\ call'[c].tab = t /\ call'[c].op \in {"start", "updated"}
            BY <1>7, <4>2, <5>2, <6>1 DEF Goes
          <6>. QED
            BY <2>2, <6>2 DEF Coming, OfTab, At
        <5>. QED
          BY <5>1, <5>2
      <4>. QED
        BY <4>1, <4>2 DEF Coming
    <3>4. CASE t \in wanted
      BY <1>2, <1>4, <2>2, <2>3, <3>1, <3>3, <3>4 DEF Overlay
    <3>5. CASE t \notin wanted
      BY <1>2, <1>4, <2>2, <2>5, <3>1, <3>2, <3>5 DEF Overlay
    <3>. QED
      BY <3>4, <3>5
  <2>8. ASSUME NEW b \in Calls \ moving, OfTab(b, t) PROVE Timely(b)'
    <3>1. Timely(b) /\ call'[b] = call[b] /\ call[b].tab = t /\ (Open(t)' <=> Open(t))
      BY <1>4, <1>5, <2>1, <2>8, RedoneOpens DEF OverlaysFit, OfTab
    <3>. QED
      BY <1>2, <1>4, <2>2, <3>1 DEF Timely, At
  <2>. QED
    BY <1>4, <1>6, <1>8, <2>3, <2>4, <2>6, <2>7, <2>8, FitOne
<1>. QED
  BY <1>9, <1>10

LEMMA FitSetsOn ==
    ASSUME TypeInv, TypeInv', OverlaysFit, NEW c \in Calls, SetModeOn(c)
    PROVE  OverlaysFit'
<1>1. PICK t : t = call[c].tab
  OBVIOUS
<1>2. PICK d : d = doc[t]
  OBVIOUS
<1>3. /\ At(c, "on") /\ t \in Tabs /\ call[c].op \in {"start", "updated"}
      /\ Goes(c, "sync") /\ \A b \in Calls \ {c} : call'[b] = call[b]
      /\ \/ Open(t) /\ d.loaded /\ Redone(t, TRUE, d.located, TRUE, d.pins)
         \/ (Open(t) => ~d.loaded) /\ UNCHANGED doc
      /\ torn' = torn \ {t}
      /\ UNCHANGED <<pending, mail, wanted>>
  BY <1>1, <1>2, SetModeOnDoes
<1>4. PICK moving : moving = {c}
  OBVIOUS
<1>5. StandBut(moving) /\ moving \in SUBSET Calls
  BY <1>3, <1>4, OneMoves
<1>6. /\ Timely(c) /\ call[c].tab = t /\ call[c].pc = "on"
      /\ call'[c].pc = "sync" /\ call'[c].op = call[c].op /\ call'[c].tab = t
  BY <1>1, <1>3 DEF OverlaysFit, At, Goes
<1>7. NoOverlap'
  <2>1. \A b \in moving : InFlight(b) /\ call'[b].op = call[b].op /\ call'[b].tab = call[b].tab
    BY <1>4, <1>6 DEF InFlight
  <2>. QED
    BY <1>5, <2>1, OverlapStays DEF OverlaysFit
<1>8. (\A u \in Tabs \ {t} : Alike(u)) /\ (Open(t)' <=> Open(t)) /\ doc'[t].page = d.page
      /\ doc'[t].loaded = d.loaded
  <2>1. CASE Open(t) /\ d.loaded /\ Redone(t, TRUE, d.located, TRUE, d.pins)
    <3>1. d.loaded = TRUE
      BY <1>2, <2>1 DEF Redone, Docs
    <3>. QED
      BY <1>2, <1>3, <2>1, <3>1, RedoneAlike, RedoneOpens DEF Redone
  <2>2. CASE UNCHANGED doc
    BY <1>2, <1>3, <2>2, DocAlike DEF Alike
  <2>. QED
    BY <1>3, <2>1, <2>2
<1>9. \A u \in Tabs \ {t} : Steady(moving, u)
  BY <1>3, <1>4, <1>6, <1>8 DEF Steady, Speaks, OfTab
<1>10. \A b \in moving : Timely(b)'
  BY <1>4, <1>6, TimelyElse
<1>11. Announced(t)'
  BY <1>2, <1>3, <1>8 DEF OverlaysFit, Announced
<1>12. ~d.loaded /\ Coming(t) => Coming(t)'
  BY <1>2, <1>3, <1>6 DEF Coming, OfTab, At
<1>13. Open(t) => t \in wanted
  BY <1>3, <1>6 DEF Timely
<1>14. ASSUME Annotatable(t)' PROVE Overlay(t)'
  <2>1. Open(t) /\ Annotatable(t)
    BY <1>2, <1>8, <1>14 DEF Annotatable, Open
  <2>2. Overlay(t) /\ (d.loaded \/ Coming(t))
    BY <1>2, <1>3, <1>6, <2>1 DEF OverlaysFit, Timely, At
  <2>3. CASE d.loaded
    BY <1>3, <1>8, <1>13, <2>1, <2>3 DEF Overlay, Redone
  <2>4. CASE ~d.loaded
    BY <1>2, <1>3, <1>8, <1>12, <1>13, <2>1, <2>2, <2>4 DEF Overlay
  <2>. QED
    BY <2>3, <2>4
<1>15. ASSUME NEW b \in Calls \ moving, OfTab(b, t) PROVE Timely(b)'
  <2>1. Timely(b) /\ call'[b] = call[b] /\ call[b].tab = t
    BY <1>3, <1>4, <1>15 DEF OverlaysFit, OfTab
  <2>2. Annotatable(t)' <=> Annotatable(t)
    BY <1>2, <1>8 DEF Annotatable, Open
  <2>. QED
    BY <1>2, <1>3, <1>8, <1>12, <2>1, <2>2 DEF Timely, At
<1>. QED
  BY <1>3, <1>5, <1>7, <1>9, <1>10, <1>11, <1>14, <1>15, FitOne

LEMMA FitSetsOff ==
    ASSUME TypeInv, TypeInv', Kept, OverlaysFit, NEW c \in Calls, SetModeOff(c), ~disturbed'
    PROVE  OverlaysFit'
<1>1. PICK t : t = call[c].tab
  OBVIOUS
<1>2. PICK d : d = doc[t]
  OBVIOUS
<1>3. /\ At(c, "off") /\ t \in Tabs /\ call[c].op = "stop"
      /\ IF call[c].todo = {} THEN call'[c] = Idle ELSE Goes(c, "stop next")
      /\ \A b \in Calls \ {c} : call'[b] = call[b]
      /\ \/ Open(t) /\ d.loaded /\ Redone(t, FALSE, FALSE, FALSE, d.pins)
         \/ (Open(t) => ~d.loaded) /\ UNCHANGED doc
      /\ torn' = torn \ {t} /\ ~Heard(t)
      /\ UNCHANGED <<pending, mail, wanted>>
  BY <1>1, <1>2, SetModeOffDoes
<1>4. PICK moving : moving = {c}
  OBVIOUS
<1>5. StandBut(moving) /\ moving \in SUBSET Calls
  BY <1>3, <1>4, OneMoves
<1>6. Timely(c) /\ call[c].tab = t /\ call[c].pc = "off" /\ t \notin wanted
  BY <1>1, <1>3 DEF OverlaysFit, At, Timely
<1>7. call'[c] = Idle \/ (call'[c].pc = "stop next" /\ call'[c].op = "stop" /\ call'[c].tab = t)
  BY <1>3, <1>6 DEF Goes
<1>8. NoOverlap'
  <2>1. \A b \in moving : \/ ~InFlight(b)'
                          \/ InFlight(b) /\ call'[b].op = call[b].op /\ call'[b].tab = call[b].tab
    BY <1>3, <1>4, <1>6, <1>7, IdleIs DEF InFlight
  <2>. QED
    BY <1>5, <2>1, OverlapStays DEF OverlaysFit
<1>9. (\A u \in Tabs \ {t} : Alike(u)) /\ (Open(t)' <=> Open(t)) /\ doc'[t].page = d.page
  <2>1. CASE Redone(t, FALSE, FALSE, FALSE, d.pins)
    BY <1>2, <1>3, <2>1, RedoneAlike, RedoneOpens DEF Redone
  <2>2. CASE UNCHANGED doc
    BY <1>2, <1>3, <2>2, DocAlike DEF Alike
  <2>. QED
    BY <1>3, <2>1, <2>2
<1>10. \A u \in Tabs \ {t} : Steady(moving, u)
  BY <1>3, <1>4, <1>6, <1>9 DEF Steady, Speaks, OfTab
<1>11. \A b \in moving : Timely(b)'
  BY <1>4, <1>7, IdleIs, TimelyElse
<1>12. Announced(t)'
  BY <1>3 DEF Announced, Heard
<1>13. ASSUME Annotatable(t)' PROVE Overlay(t)'
  <2>1. Open(t) /\ Annotatable(t)
    BY <1>2, <1>9, <1>13 DEF Annotatable, Open
  <2>2. Overlay(t)
    BY <1>3, <2>1 DEF OverlaysFit
  <2>3. ~doc'[t].loaded /\ ~doc'[t].mode
    BY <1>2, <1>3, <2>1, <2>2 DEF Redone, Overlay
  <2>. QED
    BY <1>3, <1>6, <2>3 DEF Overlay
<1>14. ASSUME NEW b \in Calls \ moving, OfTab(b, t) PROVE Timely(b)'
  <2>1. Timely(b) /\ call'[b] = call[b] /\ call[b].tab = t
    BY <1>3, <1>4, <1>14 DEF OverlaysFit, OfTab
  <2>2. Annotatable(t)' <=> Annotatable(t)
    BY <1>2, <1>9 DEF Annotatable, Open
  <2>3. call[b].pc # "restore"
    BY <1>6 DEF Kept, Restoring, At, Bystander
  <2>4. At(b, "on") => call[b].op # "locate"
    BY DEF At, TypeInv, CallsTyped, OpAt
  <2>5. Annotatable(t) => Open(t)
    BY DEF Annotatable
  <2>. QED
    BY <1>2, <1>3, <1>6, <1>9, <2>1, <2>2, <2>3, <2>4, <2>5 DEF Timely, At
<1>. QED
  BY <1>3, <1>5, <1>8, <1>10, <1>11, <1>12, <1>13, <1>14, FitOne

\* A tab leaves the mode.
LEMMA FitLeaves ==
    ASSUME TypeInv, TypeInv', OverlaysFit, NEW c \in Calls, NEW t \in Tabs,
           \A b \in Calls \ {c} : call'[b] = call[b],
           \A u \in Tabs \ {t} : ~Speaks(c, u), call[c].pc \notin {"inject", "on", "off"},
           call'[c].op = "stop", call'[c].pc = "off", call'[c].tab = t,
           wanted' = wanted \ {t}, ~Overlaps(c, "stop", t),
           UNCHANGED <<doc, torn>>, \A u \in Tabs \ {t} : mail'[u] = mail[u],
           Announced(t)', \A u \in Tabs \ {t} : u \in pending' <=> u \in pending
    PROVE  OverlaysFit'
<1>4. PICK moving : moving = {c}
  OBVIOUS
<1>5. StandBut(moving) /\ moving \in SUBSET Calls /\ StandBut({c})
  BY <1>4, OneMoves
<1>8. NoOverlap'
  BY <1>5, OverlapSeen DEF OverlaysFit
<1>10. \A u \in Tabs \ {t} : Steady(moving, u)
  BY <1>4, DocAlike DEF Steady
<1>11. \A b \in moving : Timely(b)'
  BY <1>4 DEF Timely, At
<1>13. ASSUME Annotatable(t)' PROVE Overlay(t)'
  <2>1. Annotatable(t)
    BY <1>13 DEF Annotatable, Open
  <2>2. Overlay(t)
    BY <2>1 DEF OverlaysFit
  <2>3. Dropping(t)'
    BY DEF Dropping, OfTab, At
  <2>. QED
    BY <2>2, <2>3 DEF Overlay
<1>14. ASSUME NEW b \in Calls \ moving, OfTab(b, t) PROVE Timely(b)'
  <2>1. Timely(b) /\ call'[b] = call[b] /\ call[b].tab = t
    BY <1>4, <1>14 DEF OverlaysFit, OfTab
  <2>2. (Annotatable(t)' <=> Annotatable(t)) /\ (Open(t)' <=> Open(t))
    BY DEF Annotatable, Open
  <2>3. ~(InFlight(b) /\ call[b].op \in {"start", "updated", "ready"})
    BY <1>4, <2>1 DEF Overlaps
  <2>4. /\ call[b].pc \in {"inject", "on"} => InFlight(b) /\ call[b].op \in {"start", "updated", "locate"}
        /\ call[b].pc = "answer" => InFlight(b) /\ call[b].op = "ready"
        /\ call[b].pc = "on" => call[b].op \in {"start", "updated"}
    BY DEF InFlight, TypeInv, CallsTyped, OpAt
  <2>. QED
    BY <2>1, <2>2, <2>3, <2>4 DEF Timely, At
<1>. QED
  BY <1>5, <1>8, <1>10, <1>11, <1>13, <1>14, FitOne

LEMMA FitStopsNext ==
    ASSUME TypeInv, TypeInv', OverlaysFit, NEW c \in Calls, StopNext(c), ~disturbed'
    PROVE  OverlaysFit'
<1>1. /\ At(c, "stop next") /\ \A b \in Calls \ {c} : call'[b] = call[b]
      /\ UNCHANGED <<doc, pending, mail, torn>>
  BY StopNextDoes
<1>2. PICK t \in Tabs : /\ call'[c].op = "stop" /\ call'[c].pc = "off" /\ call'[c].tab = t
                        /\ wanted' = wanted \ {t} /\ ~Overlaps(c, "stop", t)
  BY StopNextDoes
<1>3. Announced(t)'
  BY <1>1 DEF OverlaysFit, Announced
<1>4. \A u \in Tabs : ~Speaks(c, u)
  BY <1>1 DEF Speaks, At
<1>5. call[c].pc \notin {"inject", "on", "off"}
  BY <1>1 DEF At
<1>. QED
  BY <1>1, <1>2, <1>3, <1>4, <1>5, FitLeaves

HasStop(box) == \E i \in DOMAIN box : box[i].type = "STOP"

\* A call arrives at what it is for; so far it has only taken a message or an event.
Arrives(c, k) ==
    LET t == k.tab IN
      /\ call[c].pc \in {"idle", "saved", "restore"}
      /\ \A u \in Tabs \ {t} : ~Speaks(c, u) /\ mail'[u] = mail[u] /\ (u \in pending' <=> u \in pending)
      /\ t \in Tabs =>
           /\ \A i \in DOMAIN mail'[t] : \E j \in DOMAIN mail[t] : mail'[t][i] = mail[t][j]
           /\ Speaks(c, t) => call[c].op = k.op
           /\ k.op # "stop" => (HasStop(mail[t]) => HasStop(mail'[t]))
           /\ k.op # "updated" => (t \in pending => t \in pending')
           /\ k.op = "ready" /\ k.fresh => doc[t].loaded /\ doc[t].page = k.page

LEMMA StartsArrive ==
    ASSUME TypeInv, OverlaysFit, NEW c \in Calls, NEW k, NEW fs, Comes(c, k, fs)
    PROVE  Arrives(c, k)
<1>1. call[c].pc \in {"idle", "saved"} /\ \A u \in Tabs : ~Speaks(c, u)
  BY DEF Comes, At, Speaks
<1>2. CASE UNCHANGED mail
  <2>1. k.op # "ready"
    <3>1. k.op = "ready" => k.tab \in Tabs /\ Hears(k.tab)
      BY DEF Comes
    <3>2. \A t \in Tabs : Hears(t) => mail'[t] # mail[t]
      <4>1. ASSUME NEW t \in Tabs, Hears(t) PROVE mail'[t] # mail[t]
        <5>1. mail[t] \in Seq(Messages) /\ mail[t] # <<>> /\ mail'[t] = Tail(mail[t])
          BY <4>1 DEF Hears, TypeInv, MailTyped
        <5>2. Len(Tail(mail[t])) = Len(mail[t]) - 1 /\ Len(mail[t]) \in Nat
          BY <5>1
        <5>3. Len(Tail(mail[t])) # Len(mail[t])
          BY <5>2
        <5>4. Tail(mail[t]) # mail[t]
          BY <5>3
        <5>. QED
          BY <5>1, <5>4
      <4>. QED
        BY <4>1
    <3>. QED
      BY <1>2, <3>1, <3>2
  <2>2. \A u \in Tabs \ {k.tab} : u \in pending' <=> u \in pending
    BY DEF Comes
  <2>3. k.op # "updated" => pending' = pending
    BY DEF Comes
  <2>. QED
    BY <1>1, <1>2, <2>1, <2>2, <2>3 DEF Arrives
<1>3. ASSUME NEW t \in Tabs, t = k.tab, Hears(t), k.op \in {"ready", "stop"}, UNCHANGED pending,
             k.op = "ready" => mail[t][1].type = "READY" /\ k.page = mail[t][1].page
                               /\ k.fresh = mail[t][1].fresh
      PROVE  Arrives(c, k)
  <2>1. /\ \A u \in Tabs \ {t} : mail'[u] = mail[u]
        /\ 1 \in DOMAIN mail[t]
        /\ \A i \in DOMAIN mail'[t] : i + 1 \in DOMAIN mail[t] /\ mail'[t][i] = mail[t][i + 1]
        /\ \A i \in DOMAIN mail[t] : i = 1 \/ (i - 1 \in DOMAIN mail'[t] /\ mail'[t][i - 1] = mail[t][i])
    BY <1>3, TailIs DEF TypeInv
  <2>2. k.op # "stop" => (HasStop(mail[t]) => HasStop(mail'[t]))
    <3>1. SUFFICES ASSUME k.op # "stop", NEW i \in DOMAIN mail[t], mail[t][i].type = "STOP"
                   PROVE  \E j \in DOMAIN mail'[t] : mail'[t][j].type = "STOP"
      BY DEF HasStop
    <3>2. i # 1
      BY <1>3, <3>1
    <3>3. i - 1 \in DOMAIN mail'[t] /\ mail'[t][i - 1] = mail[t][i]
      BY <2>1, <3>2
    <3>. QED
      BY <3>1, <3>3
  <2>3. k.op = "ready" /\ k.fresh => doc[t].loaded /\ doc[t].page = k.page
    BY <1>3, <2>1 DEF OverlaysFit, Announced
  <2>. QED
    BY <1>1, <1>3, <2>1, <2>2, <2>3 DEF Arrives
<1>. QED
  BY <1>2, <1>3 DEF Comes

LEMMA RestoreArrives ==
    ASSUME TypeInv, OverlaysFit, NEW c \in Calls, NEW k, At(c, "restore"), k.op = call[c].op,
           k.tab = call[c].tab, k.page = call[c].page, k.fresh = call[c].fresh, UNCHANGED <<pending, mail>>
    PROVE  Arrives(c, k)
<1>1. Timely(c)
  BY DEF OverlaysFit
<1>2. k.op = "ready" /\ k.fresh => doc[k.tab].loaded /\ doc[k.tab].page = k.page
  BY <1>1 DEF Timely, At
<1>. QED
  BY <1>2 DEF Arrives, Speaks, OfTab, At

\* What a tab waits for, when one call arrives.
LEMMA ArrivesKeeps ==
    ASSUME TypeInv, NEW c \in Calls, NEW k, Arrives(c, k), \A d \in Calls \ {c} : call'[d] = call[d],
           NEW t \in Tabs, t = k.tab, doc'[t].loaded = doc[t].loaded
    PROVE  /\ k.op # "updated" => (Coming(t) => Coming(t)')
           /\ k.op # "stop" => (Leaving(t) => Leaving(t)')
           /\ Dropping(t) => Dropping(t)'
<1>1. call[c].pc \in {"idle", "saved", "restore"} /\ (Speaks(c, t) => call[c].op = k.op)
  BY DEF Arrives
<1>2. ASSUME k.op # "updated", Coming(t) PROVE Coming(t)'
  <2>1. CASE t \in pending
    BY <1>2, <2>1 DEF Arrives, Coming
  <2>2. ASSUME NEW b \in Calls, OfTab(b, t), call[b].op \in {"start", "updated"},
               \/ At(b, "inject")
               \/ At(b, "restore") /\ call[b].op = "updated"
               \/ At(b, "on") /\ doc[t].loaded
        PROVE  Coming(t)'
    <3>1. b # c
      BY <1>1, <1>2, <2>2 DEF At, Speaks
    <3>2. call'[b] = call[b]
      BY <3>1
    <3>. QED
      BY <2>2, <3>2 DEF Coming, OfTab, At
  <2>. QED
    BY <1>2, <2>1, <2>2 DEF Coming
<1>3. ASSUME k.op # "stop", Leaving(t) PROVE Leaving(t)'
  <2>1. CASE HasStop(mail[t])
    BY <1>3, <2>1 DEF Arrives, Leaving, HasStop
  <2>2. ASSUME NEW b \in Calls, OfTab(b, t), At(b, "restore"), call[b].op = "stop"
        PROVE  Leaving(t)'
    <3>1. b # c
      BY <1>1, <1>3, <2>2 DEF At, Speaks
    <3>2. call'[b] = call[b]
      BY <3>1
    <3>. QED
      BY <2>2, <3>2 DEF Leaving, OfTab, At
  <2>. QED
    BY <1>3, <2>1, <2>2 DEF Leaving, HasStop
<1>4. Dropping(t) => Dropping(t)'
  <2>1. \A b \in Calls : At(b, "off") => call'[b] = call[b]
    BY <1>1 DEF At
  <2>. QED
    BY <2>1 DEF Dropping, OfTab, At
<1>. QED
  BY <1>2, <1>3, <1>4

\* A call arrives and takes no tab out of the mode.
LEMMA FitArrives ==
    ASSUME TypeInv, TypeInv', OverlaysFit, NEW c \in Calls, NEW k, Arrives(c, k), k.tab \in Tabs \union {None},
           \A d \in Calls \ {c} : call'[d] = call[d], UNCHANGED <<wanted, torn>>,
           \A u \in Tabs \ {k.tab} : Alike(u),
           k.tab \in Tabs =>
             LET t == k.tab IN
             /\ Open(k.tab)' <=> Open(k.tab)
             /\ doc'[t].page = doc[t].page /\ doc'[t].loaded = doc[t].loaded /\ doc'[t].located = doc[t].located
             /\ doc'[t].mode = doc[t].mode \/ (~doc'[t].mode /\ t \notin wanted)
             /\ Coming(t) => Coming(k.tab)' \/ t \notin wanted
             /\ Leaving(t) => Leaving(k.tab)',
           Timely(c)', NoOverlap'
    PROVE  OverlaysFit'
<1>1. PICK moving : moving = {c}
  OBVIOUS
<1>2. /\ StandBut(moving) /\ moving \in SUBSET Calls /\ \A b \in moving : Timely(b)'
      /\ \A u \in Tabs \ {k.tab} : Steady(moving, u)
  BY <1>1, OneMoves DEF Steady, Arrives
<1>3. CASE k.tab \notin Tabs
  BY <1>2, <1>3, FitAll
<1>4. CASE k.tab \in Tabs
  <2>1. PICK t \in Tabs : t = k.tab
    BY <1>4
  <2>2. /\ Open(t)' <=> Open(t)
        /\ doc'[t].page = doc[t].page /\ doc'[t].loaded = doc[t].loaded /\ doc'[t].located = doc[t].located
        /\ doc'[t].mode = doc[t].mode \/ (~doc'[t].mode /\ t \notin wanted)
        /\ Coming(t) => Coming(t)' \/ t \notin wanted
        /\ Leaving(t) => Leaving(t)'
    BY <2>1
  <2>3. Dropping(t) => Dropping(t)'
    BY <2>1, <2>2, ArrivesKeeps
  <2>4. Announced(t)'
    <3>1. Announced(t) /\ \A i \in DOMAIN mail'[t] : \E j \in DOMAIN mail[t] : mail'[t][i] = mail[t][j]
      BY <2>1 DEF OverlaysFit, Arrives
    <3>. QED
      BY <2>2, <3>1 DEF Announced
  <2>5. Annotatable(t)' <=> Annotatable(t)
    BY <2>2 DEF Annotatable, Open
  <2>6. Annotatable(t)' => Overlay(t)'
    <3>1. SUFFICES ASSUME Annotatable(t)' PROVE Overlay(t)'
      OBVIOUS
    <3>2. Overlay(t)
      BY <2>5, <3>1 DEF OverlaysFit
    <3>. QED
      BY <2>2, <2>3, <3>2 DEF Overlay
  <2>7. ASSUME NEW b \in Calls \ moving, OfTab(b, t) PROVE Timely(b)'
    <3>1. Timely(b) /\ call'[b] = call[b] /\ call[b].tab = t
      BY <1>1, <2>7 DEF OverlaysFit, OfTab
    <3>2. At(b, "on") => call[b].op # "locate"
      BY DEF At, TypeInv, CallsTyped, OpAt
    <3>3. Annotatable(t) => Open(t)
      BY DEF Annotatable
    <3>. QED
      BY <2>2, <2>5, <3>1, <3>2, <3>3 DEF Timely, At
  <2>. QED
    BY <1>2, <2>1, <2>4, <2>6, <2>7, FitOne
<1>. QED
  BY <1>3, <1>4

\* A call looks at the right tabs, and goes on.
LEMMA FitRun ==
    ASSUME TypeInv, TypeInv', OverlaysFit, NEW c \in Calls, NEW k, Arrives(c, k), Sound(k), k.op \in RunOps,
           k.todo = {}, k.fresh => k.tab \in Tabs /\ Open(k.tab),
           NEW set \in SUBSET Tabs, NEW fs \in [Tabs -> Pages \union {None}], Run(c, k, set, fs),
           set = wanted, ~disturbed'
    PROVE  OverlaysFit'
<1>1. \A d \in Calls \ {c} : call'[d] = call[d]
  BY RunDoes
<1>2. UNCHANGED torn /\ k.tab \in Tabs \union {None} /\ k.fresh \in BOOLEAN
  BY RunDoes DEF Sound, CallStates
<1>3. StandBut({c}) /\ {c} \in SUBSET Calls
  BY <1>1, OneMoves
<1>4. CASE Stops(c, k, set) /\ k.op \in {"stop", "toggle"} /\ ~Overlaps(c, "stop", k.tab)
  <2>1. PICK t \in Tabs : t = k.tab
    BY <1>4 DEF Sound
  <2>2. /\ \A u \in Tabs \ {t} : ~Speaks(c, u) /\ mail'[u] = mail[u] /\ (u \in pending' <=> u \in pending)
        /\ call[c].pc \notin {"inject", "on", "off"}
    BY <2>1 DEF Arrives
  <2>3. /\ call'[c].op = "stop" /\ call'[c].pc = "off" /\ call'[c].tab = t
        /\ wanted' = wanted \ {t} /\ UNCHANGED doc
    BY <1>4, <2>1 DEF Stops, Is
  <2>4. Announced(t)'
    <3>1. Announced(t) /\ \A i \in DOMAIN mail'[t] : \E j \in DOMAIN mail[t] : mail'[t][i] = mail[t][j]
      BY <2>1 DEF OverlaysFit, Arrives
    <3>. QED
      BY <2>3, <3>1 DEF Announced
  <2>. QED
    BY <1>1, <1>2, <1>4, <2>1, <2>2, <2>3, <2>4, FitLeaves
<1>5. ASSUME UNCHANGED wanted, UNCHANGED doc,
             \/ /\ Asks(c, k, "start", "get", {}) /\ k.op \in {"start", "toggle"}
                /\ ~Overlaps(c, "start", k.tab)
             \/ /\ Asks(c, k, "updated", "inject", {}) /\ k.op = "updated" /\ k.tab \in set
                /\ ~Overlaps(c, "updated", k.tab)
             \/ /\ Asks(c, k, "ready", "answer", {}) /\ k.op = "ready" /\ k.tab \in set
                /\ ~Overlaps(c, "ready", k.tab)
             \/ Asks(c, k, "stop all", "stop next", set) /\ k.op = "stop all"
             \/ Asks(c, k, "sync all", "sync next", set) /\ k.op = "sync all"
             \/ /\ call'[c] = Idle /\ (k.op \in {"updated", "sync all"} => k.tab \notin set)
                /\ k.op \in {"updated", "status", "stop all", "sync all"}
      PROVE  OverlaysFit'
  <2>1. /\ call'[c].tab = k.tab \/ call'[c] = Idle
        /\ call'[c].pc = "inject" => call'[c].op = "updated" /\ k.tab \in wanted /\ call'[c].tab = k.tab
        /\ call'[c].pc = "answer" => /\ call'[c].op = "ready" /\ k.tab \in wanted /\ call'[c].tab = k.tab
                                     /\ k.op = "ready" /\ call'[c].page = k.page /\ call'[c].fresh = k.fresh
        /\ call'[c].pc \notin {"on", "off", "restore"}
        /\ k.op # "stop" /\ (k.op = "updated" => call'[c].pc = "inject" \/ k.tab \notin wanted)
    BY <1>5, IdleIs DEF Asks, Is
  <2>2. Timely(c)'
    <3>1. CASE call'[c].pc \notin {"inject", "answer"}
      BY <2>1, <3>1, TimelyElse
    <3>2. CASE call'[c].pc = "inject"
      BY <1>5, <2>1, <3>2 DEF Timely, At
    <3>3. CASE call'[c].pc = "answer"
      <4>1. k.tab \in Tabs /\ (k.fresh => doc[k.tab].loaded /\ doc[k.tab].page = k.page)
        BY <2>1, <3>3 DEF Arrives, Sound
      <4>. QED
        BY <1>5, <2>1, <3>3, <4>1 DEF Timely, At
    <3>. QED
      BY <3>1, <3>2, <3>3
  <2>3. NoOverlap'
    <3>1. CASE \E op \in {"start", "updated", "ready"} :
                 call'[c].op = op /\ call'[c].tab = k.tab /\ ~Overlaps(c, op, k.tab)
      BY <1>3, <3>1, OverlapSeen DEF OverlaysFit
    <3>2. CASE ~InFlight(c)' \/ call'[c].op \in {"stop all", "sync all"}
      <4>1. PICK moving : moving = {c}
        OBVIOUS
      <4>2. \A d \in moving : ~InFlight(d)' \/ call'[d].op \notin {"stop", "start", "updated", "ready"}
        BY <3>2, <4>1
      <4>. QED
        BY <1>3, <4>1, <4>2, OverlapStays DEF OverlaysFit
    <3>. QED
      BY <1>5, <3>1, <3>2, IdleIs DEF Asks, Is, InFlight
  <2>4. ASSUME k.tab \in Tabs
        PROVE  /\ Coming(k.tab) => Coming(k.tab)' \/ k.tab \notin wanted
               /\ Leaving(k.tab) => Leaving(k.tab)'
    <3>1. PICK t \in Tabs : t = k.tab
      BY <2>4
    <3>2. /\ k.op # "updated" => (Coming(t) => Coming(t)')
          /\ Leaving(t) => Leaving(t)'
      BY <1>1, <1>5, <2>1, <3>1, ArrivesKeeps
    <3>3. call'[c].pc = "inject" => Coming(t)'
      BY <2>1, <3>1 DEF Coming, OfTab, At
    <3>. QED
      BY <2>1, <3>1, <3>2, <3>3
  <2>5. k.tab \in Tabs =>
          LET t == k.tab IN
          /\ Open(k.tab)' <=> Open(k.tab)
          /\ doc'[t].page = doc[t].page /\ doc'[t].loaded = doc[t].loaded /\ doc'[t].located = doc[t].located
          /\ doc'[t].mode = doc[t].mode \/ (~doc'[t].mode /\ t \notin wanted)
    BY <1>5 DEF Open
  <2>6. \A u \in Tabs \ {k.tab} : Alike(u)
    BY <1>5, DocAlike
  <2>. QED
    BY <1>1, <1>2, <1>5, <2>2, <2>3, <2>4, <2>5, <2>6, FitArrives
<1>6. ASSUME UNCHANGED wanted, k.op = "ready", k.tab \notin set, Answer(c, k, FALSE), call'[c] = Idle
      PROVE  OverlaysFit'
  <2>1. /\ ~k.fresh => UNCHANGED doc
        /\ k.fresh =>
             /\ \A u \in Tabs \ {k.tab} : doc'[u] = doc[u]
             /\ LET e == doc'[k.tab]
                    d == doc[k.tab] IN
                  /\ e.mode = FALSE
                  /\ e.page = d.page /\ e.loaded = d.loaded /\ e.located = d.located
    BY <1>2, <1>6, AnswerDoes DEF TypeInv
  <2>2. \A u \in Tabs : Open(u)' <=> Open(u)
    BY RunOpens
  <2>3. \A u \in Tabs \ {k.tab} : Alike(u)
    BY <1>2, <2>1, <2>2 DEF Alike
  <2>4. PICK t \in Tabs : t = k.tab
    BY <1>6 DEF Sound
  <2>5. /\ doc'[t].page = doc[t].page /\ doc'[t].loaded = doc[t].loaded /\ doc'[t].located = doc[t].located
        /\ doc'[t].mode = doc[t].mode \/ (~doc'[t].mode /\ t \notin wanted)
    BY <1>2, <1>6, <2>1, <2>4
  <2>6. Leaving(t) => Leaving(t)'
    BY <1>1, <1>6, <2>4, <2>5, ArrivesKeeps
  <2>7. Timely(c)'
    BY <1>6, IdleIs, TimelyElse
  <2>8. NoOverlap'
    <3>1. PICK moving : moving = {c}
      OBVIOUS
    <3>2. \A d \in moving : ~InFlight(d)'
      BY <1>6, <3>1, IdleIs DEF InFlight
    <3>. QED
      BY <1>3, <3>1, <3>2, OverlapStays DEF OverlaysFit
  <2>9. k.tab \in Tabs =>
          LET u == k.tab IN
          /\ Open(k.tab)' <=> Open(k.tab)
          /\ doc'[u].page = doc[u].page /\ doc'[u].loaded = doc[u].loaded /\ doc'[u].located = doc[u].located
          /\ doc'[u].mode = doc[u].mode \/ (~doc'[u].mode /\ u \notin wanted)
          /\ Coming(u) => Coming(k.tab)' \/ u \notin wanted
          /\ Leaving(u) => Leaving(k.tab)'
    BY <1>6, <2>2, <2>4, <2>5, <2>6
  <2>. QED
    BY <1>1, <1>2, <1>6, <2>3, <2>7, <2>8, <2>9, FitArrives
<1>7. Answer(c, k, FALSE) \/ UNCHANGED doc
  BY RunDoes DEF Runs, Stops, Asks
<1>. QED
  <2>1. \/ Stops(c, k, set) /\ k.op \in {"stop", "toggle"} /\ ~Overlaps(c, "stop", k.tab)
        \/ /\ UNCHANGED wanted /\ UNCHANGED doc
           /\ \/ /\ Asks(c, k, "start", "get", {}) /\ k.op \in {"start", "toggle"}
                 /\ ~Overlaps(c, "start", k.tab)
              \/ /\ Asks(c, k, "updated", "inject", {}) /\ k.op = "updated" /\ k.tab \in set
                 /\ ~Overlaps(c, "updated", k.tab)
              \/ /\ Asks(c, k, "ready", "answer", {}) /\ k.op = "ready" /\ k.tab \in set
                 /\ ~Overlaps(c, "ready", k.tab)
              \/ Asks(c, k, "stop all", "stop next", set) /\ k.op = "stop all"
              \/ Asks(c, k, "sync all", "sync next", set) /\ k.op = "sync all"
              \/ /\ call'[c] = Idle /\ (k.op \in {"updated", "sync all"} => k.tab \notin set)
                 /\ k.op \in {"updated", "status", "stop all", "sync all"}
        \/ UNCHANGED wanted /\ k.op = "ready" /\ k.tab \notin set /\ Answer(c, k, FALSE) /\ call'[c] = Idle
    <3>1. \A op, pc, todo : Asks(c, k, op, pc, todo) => UNCHANGED doc
      BY DEF Asks
    <3>2. Runs(c, k, set, fs)
      BY RunDoes
    <3>. QED
      BY <3>1, <3>2 DEF Runs
  <2>. QED
    BY <1>4, <1>5, <1>6, <2>1

\* A call comes to restore, and waits.
LEMMA FitWaits ==
    ASSUME TypeInv, TypeInv', OverlaysFit, NEW c \in Calls, NEW k, Arrives(c, k), Sound(k),
           NEW fs, Waits(c, k, fs)
    PROVE  OverlaysFit'
<1>1. /\ call'[c].op = k.op /\ call'[c].pc = "restore" /\ call'[c].tab = k.tab
      /\ call'[c].page = k.page /\ call'[c].fresh = k.fresh
      /\ \A d \in Calls \ {c} : call'[d] = call[d]
      /\ UNCHANGED <<doc, wanted, torn>>
  BY DEF Waits, Is
<1>2. k.tab \in Tabs \union {None} /\ (k.op = "ready" => k.tab \in Tabs)
  BY DEF Sound, CallStates
<1>3. Timely(c)'
  <2>1. k.op = "ready" /\ k.fresh => doc[k.tab].loaded /\ doc[k.tab].page = k.page
    BY <1>2 DEF Arrives
  <2>. QED
    BY <1>1, <2>1 DEF Timely, At
<1>4. NoOverlap'
  <2>1. PICK moving : moving = {c}
    OBVIOUS
  <2>2. StandBut(moving) /\ moving \in SUBSET Calls /\ \A d \in moving : ~InFlight(d)'
    BY <1>1, <2>1, OneMoves DEF InFlight
  <2>. QED
    BY <2>2, OverlapStays DEF OverlaysFit
<1>5. ASSUME k.tab \in Tabs
      PROVE  /\ Coming(k.tab) => Coming(k.tab)' \/ k.tab \notin wanted
             /\ Leaving(k.tab) => Leaving(k.tab)'
  <2>1. PICK t \in Tabs : t = k.tab
    BY <1>5
  <2>2. /\ k.op # "updated" => (Coming(t) => Coming(t)')
        /\ k.op # "stop" => (Leaving(t) => Leaving(t)')
    BY <1>1, <2>1, ArrivesKeeps
  <2>3. k.op = "updated" => Coming(t)'
    BY <1>1, <2>1 DEF Coming, OfTab, At
  <2>4. k.op = "stop" => Leaving(t)'
    BY <1>1, <2>1 DEF Leaving, OfTab, At
  <2>. QED
    BY <2>1, <2>2, <2>3, <2>4
<1>6. k.tab \in Tabs =>
        LET t == k.tab IN
        /\ Open(k.tab)' <=> Open(k.tab)
        /\ doc'[t].page = doc[t].page /\ doc'[t].loaded = doc[t].loaded /\ doc'[t].located = doc[t].located
        /\ doc'[t].mode = doc[t].mode \/ (~doc'[t].mode /\ t \notin wanted)
  BY <1>1 DEF Open
<1>7. \A u \in Tabs \ {k.tab} : Alike(u)
  BY <1>1, DocAlike
<1>. QED
  BY <1>1, <1>2, <1>3, <1>4, <1>5, <1>6, <1>7, FitArrives

LEMMA FitStarts ==
    ASSUME TypeInv, TypeInv', KeptInv, OverlaysFit, NEW c \in Calls, Starts(c) \/ Restore(c), ~disturbed'
    PROVE  OverlaysFit'
<1>1. CASE Starts(c)
  <2>1. PICK k, fs : Comes(c, k, fs) /\ Begin(c, k, fs)
    BY <1>1, StartsDo
  <2>2. /\ Sound(k) /\ k \in CallStates /\ k.op \in RunOps /\ k.todo = {}
        /\ k.fresh => k.tab \in Tabs /\ Open(k.tab)
        /\ fs \in [Tabs -> Pages \union {None}] /\ (At(c, "idle") \/ At(c, "saved"))
        /\ active \in SUBSET Tabs
    BY <2>1 DEF Comes, Sound, TypeInv, ModesTyped
  <2>3. Arrives(c, k)
    BY <2>1, StartsArrive
  <2>4. CASE restored /\ restored' = restored /\ Run(c, k, active, fs)
    <3>1. ~disturbed /\ \A d \in Calls \ {c} : ~At(d, "restore")
      BY <2>2, <2>4, RunDoes
    <3>2. active = wanted
      BY <2>2, <2>4, <3>1 DEF KeptInv, Kept, Restoring, At
    <3>. QED
      BY <2>2, <2>3, <2>4, <3>2, FitRun
  <2>. QED
    BY <2>1, <2>2, <2>3, <2>4, FitWaits, BeginDoes
<1>2. CASE Restore(c)
  <2>1. PICK k : k = [call[c] EXCEPT !.todo = {}]
    OBVIOUS
  <2>2. /\ Run(c, k, Restored(c), frames) /\ Restored(c) \in SUBSET Tabs
        /\ Sound(k) /\ k.op \in RunOps /\ k.todo = {} /\ k.op = call[c].op /\ k.tab = call[c].tab
        /\ k.page = call[c].page /\ k.fresh = call[c].fresh
        /\ k.fresh => k.tab \in Tabs /\ Open(k.tab)
        /\ At(c, "restore") /\ UNCHANGED <<pending, mail>>
    BY <1>2, <2>1, RestoreDoes
  <2>3. frames \in [Tabs -> Pages \union {None}]
    BY DEF TypeInv, ModesTyped
  <2>4. ~disturbed
    BY <2>2, <2>3, RunDoes
  <2>5. Restored(c) = wanted
    BY <2>2, <2>4 DEF KeptInv, Kept, Restoring, Restored
  <2>6. Arrives(c, k)
    BY <2>2, RestoreArrives
  <2>. QED
    BY <2>2, <2>3, <2>5, <2>6, FitRun
<1>. QED
  BY <1>1, <1>2

\* A navigation: the annotator is to come to the new document.
LEMMA FitNavigates ==
    ASSUME TypeInv, TypeInv', OverlaysFit, NEW t \in Tabs, Navigate(t)
    PROVE  OverlaysFit'
<1>1. /\ Open(t) /\ Open(t)' /\ pending' = pending \union {t}
      /\ doc'[t] \in Docs /\ ~doc'[t].loaded /\ ~doc'[t].mode
      /\ \A u \in Tabs \ {t} : doc'[u] = doc[u]
      /\ \A u \in Tabs \ {t} : mail'[u] = mail[u]
      /\ DOMAIN mail'[t] = DOMAIN mail[t]
      /\ \A i \in DOMAIN mail[t] : ~mail'[t][i].fresh
      /\ torn' = torn \ {t}
      /\ UNCHANGED wanted
  BY NavigateDoes
<1>2. \A c \in Calls : LET k == call'[c]
                           j == call[c] IN
        /\ k.op = j.op /\ k.tab = j.tab /\ k.pc = j.pc /\ k.page = j.page
        /\ k.fresh <=> (j.fresh /\ j.tab # t)
  BY NavigateDoes
<1>3. PICK moving : moving = {}
  OBVIOUS
<1>4. StandBut(moving) /\ moving \in SUBSET Calls
  BY <1>2, <1>3 DEF StandBut
<1>5. \A u \in Tabs \ {t} : Steady(moving, u)
  BY <1>1, <1>3 DEF Steady, Alike, Open
<1>6. Coming(t)'
  BY <1>1 DEF Coming
<1>7. Announced(t)'
  BY <1>1 DEF Announced
<1>8. Annotatable(t)' => Overlay(t)'
  BY <1>1, <1>6 DEF Overlay
<1>9. NoOverlap'
  BY <1>3, <1>4, OverlapStays DEF OverlaysFit
<1>10. ASSUME NEW d \in Calls, OfTab(d, t) PROVE Timely(d)'
  <2>1. /\ call'[d].op = call[d].op /\ call'[d].tab = t /\ call'[d].pc = call[d].pc /\ ~call'[d].fresh
    BY <1>2, <1>10 DEF OfTab
  <2>2. Timely(d) /\ call[d].tab = t
    BY <1>10 DEF OverlaysFit, OfTab
  <2>. QED
    BY <1>1, <1>6, <2>1, <2>2 DEF Timely, At
<1>. QED
  BY <1>3, <1>4, <1>5, <1>7, <1>8, <1>9, <1>10, FitOne

LEMMA FitRemoved ==
    ASSUME TypeInv, TypeInv', OverlaysFit, NEW t \in Tabs, handleTabRemoved(t)
    PROVE  OverlaysFit'
<1>1. /\ Open(t) /\ ~Open(t)' /\ pending' = pending \ {t}
      /\ \A u \in Tabs \ {t} : doc'[u] = doc[u] /\ mail'[u] = mail[u]
      /\ mail'[t] = <<>>
      /\ torn' = torn \ {t} /\ wanted' = wanted \ {t}
  BY RemovedDoes
<1>2. \A c \in Calls : LET k == call'[c]
                           j == call[c] IN
        /\ k.op = j.op /\ k.tab = j.tab /\ k.pc = j.pc /\ k.page = j.page
        /\ k.fresh <=> (j.fresh /\ j.tab # t)
  BY RemovedDoes
<1>3. PICK moving : moving = {}
  OBVIOUS
<1>4. StandBut(moving) /\ moving \in SUBSET Calls
  BY <1>2, <1>3 DEF StandBut
<1>5. \A u \in Tabs \ {t} : Steady(moving, u)
  BY <1>1, <1>3 DEF Steady, Alike, Open
<1>7. Announced(t)'
  BY <1>1 DEF Announced
<1>8. ~Annotatable(t)'
  BY <1>1 DEF Annotatable
<1>9. NoOverlap'
  BY <1>3, <1>4, OverlapStays DEF OverlaysFit
<1>10. ASSUME NEW d \in Calls, OfTab(d, t) PROVE Timely(d)'
  <2>1. /\ call'[d].op = call[d].op /\ call'[d].tab = t /\ call'[d].pc = call[d].pc /\ ~call'[d].fresh
    BY <1>2, <1>10 DEF OfTab
  <2>. QED
    BY <1>1, <1>8, <2>1 DEF Timely, At
<1>. QED
  BY <1>3, <1>4, <1>5, <1>7, <1>8, <1>9, <1>10, FitOne

\* The worker dies, and what it was about to do to a page is torn off.
LEMMA FitDies ==
    ASSUME TypeInv, TypeInv', OverlaysFit, WorkerDies
    PROVE  OverlaysFit'
<1>1. /\ \A c \in Calls : call'[c] = Idle
      /\ torn' = torn \union {t \in Tabs : \E c \in Calls :
                  /\ call[c].op \in {"toggle", "start", "stop", "stop all", "updated", "ready"}
                  /\ t = call[c].tab \/ t \in call[c].todo}
      /\ \A t \in Tabs : Shuts(t)
      /\ UNCHANGED <<pending, mail, wanted>>
  BY DiesDoes
<1>2. \A t \in Tabs, c \in Calls :
        OfTab(c, t) /\ call[c].op \in {"start", "stop", "updated"} => t \in torn'
  BY <1>1 DEF OfTab
<1>3. \A c \in Calls : Timely(c)'
  BY <1>1, IdleIs, TimelyElse
<1>4. NoOverlap'
  BY <1>1, IdleIs DEF NoOverlap, InFlight
<1>5. ASSUME NEW t \in Tabs PROVE Announced(t)'
  BY <1>1 DEF OverlaysFit, Announced, Shuts
<1>6. ASSUME NEW t \in Tabs, Annotatable(t)' PROVE Overlay(t)'
  <2>0. Shuts(t)
    BY <1>1
  <2>1. Overlay(t)
    BY <1>6, <2>0 DEF OverlaysFit, Annotatable, Shuts
  <2>2. t \in torn' \/ (Coming(t) => Coming(t)')
    BY <1>1, <1>2 DEF Coming
  <2>3. t \in torn' \/ (Leaving(t) => Leaving(t)')
    BY <1>1, <1>2 DEF Leaving
  <2>4. Dropping(t) => t \in torn'
    <3>1. \A c \in Calls : At(c, "off") => call[c].op = "stop"
      BY DEF At, TypeInv, CallsTyped, OpAt
    <3>. QED
      BY <1>2, <3>1 DEF Dropping
  <2>5. torn \subseteq torn'
    BY <1>1
  <2>. QED
    BY <1>1, <2>0, <2>1, <2>2, <2>3, <2>4, <2>5 DEF Overlay, Shuts
<1>. QED
  BY <1>3, <1>4, <1>5, <1>6 DEF OverlaysFit

LEMMA StaysDisturbed ==
    ASSUME TypeInv, [Next]_vars, ~disturbed' PROVE ~disturbed
<1>0. disturbed \in BOOLEAN
  BY DEF TypeInv, ModesTyped
<1>1. CASE UNCHANGED vars
  BY <1>1 DEF vars, ghosts
<1>2. ASSUME NEW c \in Calls, Starts(c) \/ Restore(c) PROVE ~disturbed
  <2>1. CASE Starts(c)
    <3>1. PICK k, fs : Comes(c, k, fs) /\ Begin(c, k, fs)
      BY <2>1, StartsDo
    <3>2. /\ Sound(k) /\ k \in CallStates /\ k.op \in RunOps /\ k.todo = {}
          /\ k.fresh => k.tab \in Tabs /\ Open(k.tab)
          /\ fs \in [Tabs -> Pages \union {None}] /\ active \in SUBSET Tabs
      BY <3>1 DEF Comes, Sound, TypeInv, ModesTyped
    <3>3. CASE Run(c, k, active, fs)
      BY <3>2, <3>3, RunDoes
    <3>. QED
      BY <3>1, <3>2, <3>3, BeginDoes DEF Waits
  <2>2. CASE Restore(c)
    <3>1. PICK k : k = [call[c] EXCEPT !.todo = {}]
      OBVIOUS
    <3>2. /\ Run(c, k, Restored(c), frames) /\ Restored(c) \in SUBSET Tabs
          /\ Sound(k) /\ k.op \in RunOps /\ k.todo = {}
          /\ k.fresh => k.tab \in Tabs /\ Open(k.tab)
      BY <2>2, <3>1, RestoreDoes
    <3>3. frames \in [Tabs -> Pages \union {None}]
      BY DEF TypeInv, ModesTyped
    <3>. QED
      BY <3>2, <3>3, RunDoes
  <2>. QED
    BY <1>2, <2>1, <2>2
<1>3. ASSUME NEW c \in Calls, Events(c) PROVE ~disturbed
  <2>1. CASE AgentEdit(c) \/ locate(c)
    BY <2>1 DEF AgentEdit, locate, ghosts
  <2>. QED
    BY <1>2, <1>3, <2>1 DEF Events, Starts
<1>4. ASSUME NEW t \in Tabs, PageEvents(t) \/ onEscape(t) PROVE ~disturbed
  <2>1. CASE onClick(t) \/ openViewer(t) \/ onEscape(t) \/ Done(t) \/ Navigate(t)
    BY <2>1 DEF onClick, openViewer, onEscape, Done, Navigate, OnlyPage
  <2>2. CASE handleTabRemoved(t)
    BY <2>2, RemovedDoes
  <2>3. ASSUME NEW c \in Calls, submit(c, t) \/ ViewerEdit(c, t) PROVE ~disturbed
    BY <2>3 DEF submit, ViewerEdit, Edited
  <2>. QED
    BY <1>4, <2>1, <2>2, <2>3 DEF PageEvents
<1>5. ASSUME NEW c \in Calls, Proceeds(c) PROVE ~disturbed
  <2>1. CASE inject(c) \/ SetModeOn(c) \/ Sync(c) \/ SyncNext(c) \/ AnswerReady(c)
    BY <2>1 DEF inject, SetModeOn, Sync, SyncNext, AnswerReady, ghosts
  <2>2. CASE Get(c) \/ SetModeOff(c) \/ StopNext(c)
    BY <1>0, <2>2, GetDoes, StopNextDoes DEF Persists, SetModeOff
  <2>. QED
    BY <1>2, <1>5, <2>1, <2>2 DEF Proceeds, Starts
<1>6. CASE WorkerDies
  BY <1>6 DEF WorkerDies
<1>. QED
  BY <1>1, <1>3, <1>4, <1>5, <1>6 DEF Next

LEMMA OverlayNext ==
    ASSUME TypeInv, KeptInv, OverlayInv, [Next]_vars PROVE OverlayInv'
<1> SUFFICES ASSUME ~disturbed' PROVE OverlaysFit'
  BY DEF OverlayInv
<1>1. Kept /\ OverlaysFit /\ TypeInv'
  BY StaysDisturbed, NextTyped DEF KeptInv, OverlayInv
<1>2. CASE UNCHANGED vars
  BY <1>1, <1>2 DEF vars, chrome, ghosts, OverlaysFit, Overlay, Announced, Timely, NoOverlap, Coming, Leaving,
     Dropping, InFlight, OfTab, At, Annotatable, Open
<1>3. ASSUME NEW c \in Calls, Events(c) PROVE OverlaysFit'
  BY <1>1, <1>3, FitStarts, FitBystanders DEF Events, Starts
<1>4. ASSUME NEW t \in Tabs, PageEvents(t) \/ onEscape(t) PROVE OverlaysFit'
  BY <1>1, <1>4, FitPage, FitBystanders, FitNavigates, FitRemoved DEF PageEvents
<1>5. ASSUME NEW c \in Calls, Proceeds(c) PROVE OverlaysFit'
  BY <1>1, <1>5, FitStarts, FitGets, FitInjects, FitSetsOn, FitSetsOff, FitStopsNext, FitBystanders, FitAnswers
     DEF Proceeds, Starts
<1>6. CASE WorkerDies
  BY <1>1, <1>6, FitDies
<1>. QED
  BY <1>2, <1>3, <1>4, <1>5, <1>6 DEF Next

LEMMA OverlayIsInvariant ==
    Spec => []OverlayInv
<1>1. Init => OverlayInv
  <2> SUFFICES ASSUME Init PROVE OverlaysFit
    BY DEF OverlayInv
  <2>1. \A c \in Calls : Timely(c) /\ ~InFlight(c)
    BY IdleIs DEF Init, Timely, InFlight, At
  <2>2. \A t \in Tabs : doc[t] = Blank(Home) /\ mail[t] = <<>> /\ t \notin wanted
    BY DEF Init
  <2>3. \A t \in Tabs : ~doc[t].mode /\ ~doc[t].loaded
    BY <2>2 DEF Blank
  <2>. QED
    BY <2>1, <2>2, <2>3 DEF OverlaysFit, Overlay, Announced, NoOverlap
<1>. QED
  BY <1>1, TypeIsInvariant, KeptIsInvariant, OverlayNext, PTL DEF Spec

\* When nothing is under way, no overlay is about to be set up or taken down.
LEMMA OverlaysSettle ==
    ASSUME TypeInv, KeptInv, OverlayInv, ~disturbed, Quiet, NEW t \in Shown \ torn
    PROVE  /\ doc[t].mode <=> t \in InMode
           /\ t \notin InMode /\ doc[t].loaded => doc[t].located
<1>1. t \in Tabs /\ Annotatable(t) /\ t \notin torn
  BY DEF Shown, Annotatable
<1>2. Overlay(t)
  BY <1>1 DEF OverlayInv, OverlaysFit
<1>3. /\ \A c \in Calls : At(c, "idle")
      /\ pending = {} /\ mail[t] = <<>>
  BY <1>1 DEF Quiet
<1>4. ~Coming(t) /\ ~Leaving(t) /\ ~Dropping(t)
  BY <1>3 DEF Coming, Leaving, Dropping, At
<1>5. ~Restoring
  BY <1>3 DEF Restoring, At
<1>6. InMode = wanted
  BY <1>5 DEF InMode, KeptInv, Kept, TypeInv, ModesTyped
<1>7. doc[t].mode \in BOOLEAN /\ doc[t].loaded \in BOOLEAN /\ doc[t].located \in BOOLEAN
  BY <1>1 DEF TypeInv, DocsTyped, Docs, Annotatable, Open
<1>. QED
  BY <1>1, <1>2, <1>4, <1>6, <1>7 DEF Overlay

\* When nothing is under way, the overlay is up in just the tabs of the mode: start,
\* handleTabUpdated, the answer to READY and stop of mode.js, and SET_MODE and the
\* buttons of annotator.js, in any order and with any worker deaths between.
THEOREM ModeAgreed ==
    Spec => []ModeAgrees
<1>1. TypeInv /\ KeptInv /\ OverlayInv => ModeAgrees
  BY OverlaysSettle DEF ModeAgrees
<1>. QED
  BY <1>1, TypeIsInvariant, KeptIsInvariant, OverlayIsInvariant, PTL

\* Then no annotator is left in the other pages but one that locate has loaded: stop
\* in mode.js has it destroyed, or the navigation took it.
THEOREM NothingLeft ==
    Spec => []NothingLeftBehind
<1>1. TypeInv /\ KeptInv /\ OverlayInv => NothingLeftBehind
  BY OverlaysSettle DEF NothingLeftBehind
<1>. QED
  BY <1>1, TypeIsInvariant, KeptIsInvariant, OverlayIsInvariant, PTL

----------------------------------------------------------------------------
(* The pins are fresh                                                      *)

\* What a call says about the pins of a tab.
Tells(c, t) ==
    \/ OfTab(c, t) /\ call[c].pc \in {"inject", "restore", "answer", "on", "sync"}
    \/ At(c, "saved")
    \/ At(c, "restore") /\ call[c].op = "sync all"
    \/ At(c, "sync next") /\ t \in call[c].todo

\* A call that does not move, as far as a tab is concerned.
Sits(c, t) ==
    LET k == call'[c]
        j == call[c] IN
      /\ k.op = j.op /\ k.tab = j.tab /\ k.pc = j.pc
      /\ t \in j.todo => t \in k.todo
      /\ j.tab = t => (k.fresh <=> j.fresh)

\* The worker knows of a tab what it knew, and what is about to be told is.
Still(moving, t) ==
    /\ Alike(t)
    /\ mail'[t] = mail[t]
    /\ t \in pending' <=> t \in pending
    /\ frames'[t] = frames[t]
    /\ \A c \in Calls \ moving : Sits(c, t)
    /\ \A c \in moving : ~Tells(c, t)

\* Nothing happens to a tab but to its notes.
Calm(moving, t) ==
    /\ Still(moving, t)
    /\ doc'[t].pins = doc[t].pins
    /\ t \in wanted' <=> t \in wanted
    /\ t \in stale => t \in stale'
    /\ notes' = notes \/ t \in stale'

LEMMA ReloadingStays ==
    ASSUME NEW t, NEW moving \in SUBSET Calls, t \in pending => t \in pending',
           \A c \in Calls \ moving : Sits(c, t),
           \A c \in moving : ~(OfTab(c, t) /\ (At(c, "inject") \/ (At(c, "restore") /\ call[c].op = "updated"))),
           Reloading(t)
    PROVE  Reloading(t)'
<1>1. CASE t \in pending
  BY <1>1 DEF Reloading
<1>2. ASSUME NEW c \in Calls, OfTab(c, t), At(c, "inject") \/ (At(c, "restore") /\ call[c].op = "updated")
      PROVE  Reloading(t)'
  <2>1. c \notin moving
    BY <1>2 DEF At
  <2>. QED
    BY <1>2, <2>1 DEF Sits, Reloading, OfTab, At
<1>. QED
  BY <1>1, <1>2 DEF Reloading

LEMMA TellingStays ==
    ASSUME NEW t, NEW moving \in SUBSET Calls, t \in pending => t \in pending', Heard(t) => Heard(t)',
           \A c \in Calls \ moving : Sits(c, t), \A c \in moving : ~Tells(c, t), Telling(t)
    PROVE  Telling(t)'
<1>1. CASE Heard(t)
  BY <1>1 DEF Telling
<1>2. CASE Reloading(t)
  BY <1>2, ReloadingStays DEF Telling, Tells, At
<1>3. ASSUME NEW c \in Calls,
             \/ OfTab(c, t) /\ call[c].op = "ready" /\ call[c].fresh /\ call[c].pc \in {"restore", "answer"}
             \/ OfTab(c, t) /\ call[c].pc \in {"on", "sync"}
             \/ At(c, "saved")
             \/ At(c, "restore") /\ call[c].op = "sync all"
             \/ At(c, "sync next") /\ t \in call[c].todo
      PROVE  Telling(t)'
  <2>1. c \notin moving
    BY <1>3 DEF Tells
  <2>2. LET k == call'[c]
            j == call[c] IN
          /\ k.op = j.op /\ k.tab = j.tab /\ k.pc = j.pc
          /\ t \in j.todo => t \in k.todo
          /\ j.tab = t => (k.fresh <=> j.fresh)
    BY <2>1 DEF Sits
  <2>3. CASE OfTab(c, t) /\ call[c].op = "ready" /\ call[c].fresh /\ call[c].pc \in {"restore", "answer"}
    BY <2>2, <2>3 DEF Telling, OfTab
  <2>4. CASE OfTab(c, t) /\ call[c].pc \in {"on", "sync"}
    BY <2>2, <2>4 DEF Telling, OfTab
  <2>5. CASE At(c, "saved") \/ (At(c, "restore") /\ call[c].op = "sync all")
    BY <2>2, <2>5 DEF Telling, At
  <2>6. CASE At(c, "sync next") /\ t \in call[c].todo
    BY <2>2, <2>6 DEF Telling, At
  <2>. QED
    BY <1>3, <2>3, <2>4, <2>5, <2>6
<1>. QED
  BY <1>1, <1>2, <1>3 DEF Telling

LEMMA StillStays ==
    ASSUME NEW t \in Tabs, NEW moving \in SUBSET Calls, Still(moving, t)
    PROVE  /\ Reloading(t) => Reloading(t)'
           /\ Located(t) => Located(t)'
           /\ Telling(t) => Telling(t)'
           /\ InOrder(t)' <=> InOrder(t)
           /\ Annotatable(t)' <=> Annotatable(t)
           /\ doc'[t].mode = doc[t].mode /\ doc'[t].loaded = doc[t].loaded /\ doc'[t].page = doc[t].page
<1>1. /\ Alike(t)
      /\ mail'[t] = mail[t]
      /\ t \in pending' <=> t \in pending
      /\ frames'[t] = frames[t]
      /\ \A c \in Calls \ moving : Sits(c, t)
      /\ \A c \in moving : ~Tells(c, t)
  BY DEF Still
<1>2. /\ doc'[t].page = doc[t].page /\ doc'[t].mode = doc[t].mode /\ doc'[t].loaded = doc[t].loaded
  BY <1>1 DEF Alike
<1>3. (Heard(t)' <=> Heard(t)) /\ (InOrder(t)' <=> InOrder(t))
  BY <1>1, <1>2 DEF Heard, InOrder
<1>4. Reloading(t) => Reloading(t)'
  BY <1>1, ReloadingStays DEF Tells, At
<1>5. Located(t) => Located(t)'
  BY <1>1, <1>2, <1>3, <1>4 DEF Located
<1>6. Telling(t) => Telling(t)'
  BY <1>1, <1>3, TellingStays
<1>7. Annotatable(t)' <=> Annotatable(t)
  BY <1>1, AlikeIs
<1>. QED
  BY <1>2, <1>3, <1>4, <1>5, <1>6, <1>7

LEMMA CalmStays ==
    ASSUME NEW t \in Tabs, NEW moving \in SUBSET Calls, Calm(moving, t)
    PROVE  /\ Located(t) => Located(t)'
           /\ (Annotatable(t) => Pins(t)) => (Annotatable(t)' => Pins(t)')
<1>1. /\ doc'[t].pins = doc[t].pins
      /\ t \in wanted' <=> t \in wanted
      /\ frames'[t] = frames[t]
      /\ t \in stale => t \in stale'
      /\ notes' = notes \/ t \in stale'
  BY DEF Calm, Still
<1>2. /\ Located(t) => Located(t)'
      /\ Telling(t) => Telling(t)'
      /\ InOrder(t)' <=> InOrder(t)
      /\ Annotatable(t)' <=> Annotatable(t)
      /\ doc'[t].mode = doc[t].mode /\ doc'[t].loaded = doc[t].loaded /\ doc'[t].page = doc[t].page
  BY StillStays DEF Calm
<1>3. notes' = notes => NotesOn(doc[t].page)' = NotesOn(doc[t].page)
  BY <1>2 DEF NotesOn
<1>4. ASSUME Pins(t) PROVE Pins(t)'
  <2>1. t \in wanted' /\ doc'[t].loaded => Located(t)' \/ (frames'[t] = None /\ t \in stale')
    BY <1>1, <1>2, <1>4 DEF Pins
  <2>2. t \in wanted' \ stale' /\ doc'[t].mode
          => doc'[t].pins = NotesOn(doc[t].page)' \/ Telling(t)'
    BY <1>1, <1>2, <1>3, <1>4 DEF Pins
  <2>. QED
    BY <1>2, <1>4, <2>1, <2>2 DEF Pins
<1>. QED
  BY <1>2, <1>4

\* A call's page is known where the tabs that happen are taken care of.
LEMMA FreshBut ==
    ASSUME TypeInv, PinsFit, NEW moving \in SUBSET Calls, NEW special \in SUBSET Tabs,
           \A u \in Tabs \ special : Calm(moving, u),
           \A t \in special : /\ Annotatable(t)' => Pins(t)'
                              /\ \A d \in Calls \ moving : OfTab(d, t) => Answerable(d)',
           \A c \in moving : Answerable(c)',
           \A d \in Calls \ moving : LET k == call'[d]
                                         j == call[d] IN
             k.op = j.op /\ k.tab = j.tab /\ k.pc = j.pc
    PROVE  PinsFit'
<1>1. ASSUME NEW t \in Tabs PROVE Annotatable(t)' => Pins(t)'
  <2>1. CASE t \notin special
    BY <2>1, CalmStays DEF PinsFit
  <2>. QED
    BY <2>1
<1>2. ASSUME NEW d \in Calls PROVE Answerable(d)'
  <2>1. CASE d \in moving
    BY <2>1
  <2>2. PICK t : t = call[d].tab
    OBVIOUS
  <2>3. CASE d \notin moving /\ t \in special
    BY <2>2, <2>3 DEF OfTab
  <2>4. CASE d \notin moving /\ t \in Tabs \ special
    <3>1. Calm(moving, t) /\ Sits(d, t)
      BY <2>4 DEF Calm, Still
    <3>2. Located(t) => Located(t)'
      BY <2>4, <3>1, CalmStays
    <3>3. Answerable(d) /\ call'[d].tab = t
      BY <2>2, <3>1 DEF PinsFit, Sits
    <3>. QED
      BY <2>2, <3>1, <3>2, <3>3 DEF Answerable, Sits
  <2>5. CASE d \notin moving /\ t \notin Tabs
    <3>1. call[d].op # "ready"
      BY <2>2, <2>5 DEF TypeInv, CallsTyped, Sound
    <3>. QED
      BY <2>5, <3>1 DEF Answerable
  <2>. QED
    BY <2>1, <2>3, <2>4, <2>5
<1>. QED
  BY <1>1, <1>2 DEF PinsFit

LEMMA FreshOne ==
    ASSUME TypeInv, PinsFit, NEW moving \in SUBSET Calls, NEW t \in Tabs,
           \A u \in Tabs \ {t} : Calm(moving, u),
           Annotatable(t)' => Pins(t)',
           \A d \in Calls \ moving : OfTab(d, t) => Answerable(d)',
           \A c \in moving : Answerable(c)',
           \A d \in Calls \ moving : LET k == call'[d]
                                         j == call[d] IN
             k.op = j.op /\ k.tab = j.tab /\ k.pc = j.pc
    PROVE  PinsFit'
<1>1. PICK special : special = {t}
  OBVIOUS
<1>2. /\ special \in SUBSET Tabs /\ \A u \in Tabs \ special : Calm(moving, u)
      /\ \A u \in special : /\ Annotatable(u)' => Pins(u)'
                            /\ \A d \in Calls \ moving : OfTab(d, u) => Answerable(d)'
  BY <1>1
<1>. QED
  BY <1>2, FreshBut

LEMMA FreshAll ==
    ASSUME TypeInv, PinsFit, NEW moving \in SUBSET Calls,
           \A u \in Tabs : Calm(moving, u), \A c \in moving : Answerable(c)',
           \A d \in Calls \ moving : LET k == call'[d]
                                         j == call[d] IN
             k.op = j.op /\ k.tab = j.tab /\ k.pc = j.pc
    PROVE  PinsFit'
<1>1. PICK special : special = {}
  OBVIOUS
<1>2. /\ special \in SUBSET Tabs /\ \A u \in Tabs \ special : Calm(moving, u)
      /\ \A u \in special : /\ Annotatable(u)' => Pins(u)'
                            /\ \A d \in Calls \ moving : OfTab(d, u) => Answerable(d)'
  BY <1>1
<1>. QED
  BY <1>2, FreshBut

\* One call moves.
LEMMA OneSits ==
    ASSUME NEW c \in Calls, \A d \in Calls \ {c} : call'[d] = call[d]
    PROVE  /\ {c} \in SUBSET Calls
           /\ \A t : \A d \in Calls \ {c} : Sits(d, t)
           /\ \A d \in Calls \ {c} : LET k == call'[d]
                                         j == call[d] IN
                k.op = j.op /\ k.tab = j.tab /\ k.pc = j.pc
BY DEF Sits

\* A document that can be annotated has a page the worker can know.
LEMMA PageOf ==
    ASSUME TypeInv, NEW t \in Tabs, Annotatable(t) PROVE doc[t].page \in Pages /\ doc[t].page # None
<1>1. doc[t] \in Docs /\ doc[t].page # Internal
  BY DEF Annotatable, Open, TypeInv, DocsTyped
<1>. QED
  BY <1>1, ModeAssumption DEF Docs

\* What a page does.
LEMMA FreshPage ==
    ASSUME TypeInv, TypeInv', PinsFit, NEW t \in Tabs, onClick(t) \/ openViewer(t) \/ onEscape(t) \/ Done(t)
    PROVE  PinsFit'
<1>1. CASE onClick(t) \/ openViewer(t) \/ onEscape(t)
  <2>1. /\ \A u \in Tabs : Alike(u) /\ doc'[u].pins = doc[u].pins
        /\ UNCHANGED <<pending, call, wanted, mail, frames, stale, notes>>
    BY <1>1, CardDoes, RedoneAlike DEF Redrawn, Redone, worker
  <2>2. \A u \in Tabs : Calm({}, u)
    BY <2>1 DEF Calm, Still, Sits
  <2>. QED
    BY <2>1, <2>2, FreshAll
<1>2. CASE Done(t)
  <2>1. /\ Redone(t, doc[t].loaded, doc[t].located, FALSE, doc[t].pins)
        /\ Send(t, "STOP") /\ Open(t)
        /\ UNCHANGED <<pending, call, wanted, frames, stale, notes>>
    BY <1>2, DoneDoes DEF worker
  <2>2. /\ \A u \in Tabs \ {t} : mail'[u] = mail[u]
        /\ DOMAIN mail[t] \subseteq DOMAIN mail'[t]
        /\ \A i \in DOMAIN mail[t] : mail'[t][i] = mail[t][i]
        /\ mail'[t][Len(mail[t]) + 1].fresh
        /\ \A i \in DOMAIN mail'[t] : i \in DOMAIN mail[t] \/ i = Len(mail[t]) + 1
    BY <2>1, SendIs DEF TypeInv
  <2>3. \A u \in Tabs \ {t} : Calm({}, u)
    BY <2>1, <2>2, RedoneAlike DEF Calm, Still, Sits, Redone
  <2>4. /\ doc'[t].loaded = doc[t].loaded /\ ~doc'[t].mode /\ doc'[t].page = doc[t].page
    BY <2>1 DEF Redone
  <2>5. Heard(t) => Heard(t)'
    BY <2>2 DEF Heard
  <2>6. Reloading(t) => Reloading(t)'
    BY <2>1 DEF Reloading, OfTab, At
  <2>7. Located(t) => Located(t)'
    BY <2>1, <2>4, <2>5, <2>6 DEF Located
  <2>8. InOrder(t) => InOrder(t)'
    BY <2>2, <2>4 DEF InOrder
  <2>9. Annotatable(t)' => Pins(t)'
    <3>1. Annotatable(t)' => Annotatable(t)
      BY <2>1, <2>4 DEF Annotatable, Open
    <3>. QED
      BY <2>1, <2>4, <2>7, <2>8, <3>1 DEF PinsFit, Pins
  <2>10. ASSUME NEW d \in Calls, OfTab(d, t) PROVE Answerable(d)'
    BY <2>1, <2>7, <2>10 DEF PinsFit, Answerable, OfTab
  <2>. QED
    BY <2>1, <2>3, <2>9, <2>10, FreshOne
<1>. QED
  BY <1>1, <1>2

LEMMA FreshNavigates ==
    ASSUME TypeInv, TypeInv', PinsFit, NEW t \in Tabs, Navigate(t)
    PROVE  PinsFit'
<1>1. /\ pending' = pending \union {t} /\ ~doc'[t].loaded /\ ~doc'[t].mode
      /\ \A u \in Tabs \ {t} : doc'[u] = doc[u]
      /\ \A u \in Tabs \ {t} : mail'[u] = mail[u]
      /\ UNCHANGED <<frames, wanted, stale, notes>>
  BY NavigateDoes DEF worker
<1>2. \A c \in Calls : LET k == call'[c]
                           j == call[c] IN
        /\ k.op = j.op /\ k.tab = j.tab /\ k.pc = j.pc /\ k.page = j.page /\ k.todo = j.todo
        /\ k.fresh <=> (j.fresh /\ j.tab # t)
  BY NavigateDoes
<1>3. \A u \in Tabs \ {t} : Calm({}, u)
  BY <1>1, <1>2 DEF Calm, Still, Sits, Alike, Open
<1>4. Pins(t)'
  BY <1>1 DEF Pins, InOrder
<1>5. ASSUME NEW d \in Calls, OfTab(d, t) PROVE Answerable(d)'
  BY <1>2, <1>5 DEF Answerable, OfTab
<1>6. \A d \in Calls \ {} : LET k == call'[d]
                                j == call[d] IN
        k.op = j.op /\ k.tab = j.tab /\ k.pc = j.pc
  BY <1>2
<1>7. Annotatable(t)' => Pins(t)'
  BY <1>4
<1>8. {} \in SUBSET Calls /\ \A d \in {} : Answerable(d)'
  OBVIOUS
<1>. QED
  BY <1>3, <1>5, <1>6, <1>7, <1>8, FreshOne

LEMMA FreshRemoved ==
    ASSUME TypeInv, TypeInv', PinsFit, NEW t \in Tabs, handleTabRemoved(t)
    PROVE  PinsFit'
<1>1. /\ ~Open(t)' /\ pending' = pending \ {t}
      /\ \A u \in Tabs \ {t} : doc'[u] = doc[u] /\ mail'[u] = mail[u]
      /\ wanted' = wanted \ {t} /\ stale' = stale \ {t}
      /\ frames' = [frames EXCEPT ![t] = None]
      /\ UNCHANGED notes
  BY RemovedDoes
<1>2. \A c \in Calls : LET k == call'[c]
                           j == call[c] IN
        /\ k.op = j.op /\ k.tab = j.tab /\ k.pc = j.pc /\ k.page = j.page /\ k.todo = j.todo
        /\ k.fresh <=> (j.fresh /\ j.tab # t)
  BY RemovedDoes
<1>3. \A u \in Tabs \ {t} : Calm({}, u)
  BY <1>1, <1>2 DEF Calm, Still, Sits, Alike, Open, TypeInv, ModesTyped
<1>4. ~Annotatable(t)'
  BY <1>1 DEF Annotatable
<1>5. ASSUME NEW d \in Calls, OfTab(d, t) PROVE Answerable(d)'
  BY <1>2, <1>5 DEF Answerable, OfTab
<1>. QED
  BY <1>2, <1>3, <1>4, <1>5, FreshOne

LEMMA FreshDies ==
    ASSUME TypeInv, TypeInv', PinsFit, WorkerDies
    PROVE  PinsFit'
<1>1. /\ \A c \in Calls : call'[c] = Idle
      /\ stale' = Tabs /\ \A t \in Tabs : frames'[t] = None
      /\ \A t \in Tabs : Shuts(t)
      /\ UNCHANGED <<pending, mail, wanted, notes>>
  BY DiesDoes
<1>2. \A c \in Calls : Answerable(c)'
  BY <1>1, IdleIs DEF Answerable
<1>3. ASSUME NEW t \in Tabs, Annotatable(t)' PROVE Pins(t)'
  <2>0. Shuts(t)
    BY <1>1
  <2>1. InOrder(t)
    BY <1>3, <2>0 DEF PinsFit, Pins, Annotatable, Shuts
  <2>. QED
    BY <1>1, <2>0, <2>1 DEF Pins, InOrder, Shuts
<1>. QED
  BY <1>2, <1>3 DEF PinsFit

LEMMA FreshAgentEdits ==
    ASSUME TypeInv, TypeInv', PinsFit, NEW c \in Calls, AgentEdit(c)
    PROVE  PinsFit'
<1>1. /\ At(c, "idle") /\ call'[c].op = "sync all" /\ call'[c].pc = "saved"
      /\ \A d \in Calls \ {c} : call'[d] = call[d]
      /\ UNCHANGED <<frames, doc, pending, mail, wanted, stale>>
  BY AgentEditDoes
<1>2. PICK moving : moving = {c}
  OBVIOUS
<1>3. /\ moving \in SUBSET Calls
      /\ \A t : \A d \in Calls \ moving : Sits(d, t)
      /\ \A d \in Calls \ moving : LET k == call'[d]
                                       j == call[d] IN
           k.op = j.op /\ k.tab = j.tab /\ k.pc = j.pc
  BY <1>1, <1>2, OneSits
<1>4. \A d \in moving : Answerable(d)'
  BY <1>1, <1>2 DEF Answerable
<1>5. ASSUME NEW t \in Tabs PROVE Still(moving, t)
  BY <1>1, <1>2, <1>3, DocAlike DEF Still, Tells, At
<1>6. ASSUME NEW t \in Tabs, Annotatable(t)' PROVE Pins(t)'
  <2>1. Pins(t)
    BY <1>3, <1>5, <1>6, StillStays DEF PinsFit
  <2>2. Telling(t)'
    BY <1>1 DEF Telling, At
  <2>3. InOrder(t)' /\ (Located(t) => Located(t)') /\ doc' = doc
    BY <1>1, <1>3, <1>5, <2>1, StillStays DEF Pins
  <2>. QED
    BY <1>1, <2>1, <2>2, <2>3 DEF Pins
<1>7. ASSUME NEW d \in Calls \ moving PROVE Answerable(d)'
  <2>1. call[d].op = "ready" => call[d].tab \in Tabs
    BY DEF TypeInv, CallsTyped, Sound
  <2>2. call[d].tab \in Tabs => (Located(call[d].tab) => Located(call[d].tab)')
    BY <1>3, <1>5, StillStays
  <2>3. call'[d] = call[d] /\ Answerable(d)
    BY <1>1, <1>2 DEF PinsFit
  <2>. QED
    BY <2>1, <2>2, <2>3 DEF Answerable
<1>. QED
  BY <1>4, <1>6, <1>7 DEF PinsFit

\* An edit on a page: that page is told next.
LEMMA FreshEdits ==
    ASSUME TypeInv, TypeInv', PinsFit, NEW c \in Calls, NEW t \in Tabs, submit(c, t) \/ ViewerEdit(c, t)
    PROVE  PinsFit'
<1>1. /\ At(c, "idle") /\ Redrawn(t)
      /\ LET k == call'[c] IN k.op = "edit" /\ k.tab = t /\ k.pc = "sync"
      /\ \A d \in Calls \ {c} : call'[d] = call[d]
      /\ stale' = (IF notes' = notes THEN stale ELSE stale \union (Tabs \ {t}))
      /\ UNCHANGED <<frames, pending, mail, wanted>>
  BY EditDoes
<1>2. PICK moving : moving = {c}
  OBVIOUS
<1>3. /\ moving \in SUBSET Calls
      /\ \A u : \A d \in Calls \ moving : Sits(d, u)
      /\ \A d \in Calls \ moving : LET k == call'[d]
                                       j == call[d] IN
           k.op = j.op /\ k.tab = j.tab /\ k.pc = j.pc
  BY <1>1, <1>2, OneSits
<1>4. \A d \in moving : Answerable(d)'
  BY <1>1, <1>2 DEF Answerable
<1>5. ASSUME NEW u \in Tabs PROVE Still(moving, u)
  BY <1>1, <1>2, <1>3, RedoneAlike DEF Still, Tells, At, Redrawn
<1>6. \A u \in Tabs \ {t} : Calm(moving, u)
  BY <1>1, <1>5 DEF Calm, Redrawn, Redone
<1>7. ASSUME Annotatable(t)' PROVE Pins(t)'
  <2>1. Pins(t)
    BY <1>3, <1>5, <1>7, StillStays DEF PinsFit
  <2>2. Telling(t)'
    BY <1>1 DEF Telling, OfTab
  <2>3. InOrder(t)' /\ (Located(t) => Located(t)') /\ doc'[t].loaded = doc[t].loaded
    BY <1>3, <1>5, <2>1, StillStays DEF Pins
  <2>. QED
    BY <1>1, <2>1, <2>2, <2>3 DEF Pins
<1>8. ASSUME NEW d \in Calls \ moving, OfTab(d, t) PROVE Answerable(d)'
  <2>1. (Located(t) => Located(t)') /\ call'[d] = call[d] /\ Answerable(d)
    BY <1>1, <1>2, <1>3, <1>5, StillStays DEF PinsFit
  <2>. QED
    BY <1>8, <2>1 DEF Answerable, OfTab
<1>. QED
  BY <1>3, <1>4, <1>6, <1>7, <1>8, FreshOne

LEMMA FreshLocates ==
    ASSUME TypeInv, TypeInv', PinsFit, NEW c \in Calls, locate(c)
    PROVE  PinsFit'
<1>1. /\ At(c, "idle") /\ call'[c].op = "locate"
      /\ \A d \in Calls \ {c} : call'[d] = call[d]
      /\ UNCHANGED <<frames, doc, pending, mail, wanted, stale, notes>>
  BY LocateDoes DEF worker, chrome, ghosts
<1>2. PICK moving : moving = {c}
  OBVIOUS
<1>3. /\ moving \in SUBSET Calls
      /\ \A t : \A d \in Calls \ moving : Sits(d, t)
      /\ \A d \in Calls \ moving : LET k == call'[d]
                                       j == call[d] IN
           k.op = j.op /\ k.tab = j.tab /\ k.pc = j.pc
  BY <1>1, <1>2, OneSits
<1>4. \A d \in moving : Answerable(d)'
  BY <1>1, <1>2 DEF Answerable
<1>5. \A t \in Tabs : Calm(moving, t)
  BY <1>1, <1>2, <1>3, DocAlike DEF Calm, Still, Tells, At
<1>. QED
  BY <1>3, <1>4, <1>5, FreshAll

\* A tab comes to the mode, and the annotator to its document.
LEMMA FreshGets ==
    ASSUME TypeInv, TypeInv', PinsFit, NEW c \in Calls, Get(c)
    PROVE  PinsFit'
<1>1. PICK t : t = call[c].tab
  OBVIOUS
<1>2. /\ At(c, "get") /\ call[c].op = "start" /\ t \in Tabs
      /\ \A d \in Calls \ {c} : call'[d] = call[d]
      /\ \/ wanted' = wanted \union {t} /\ Goes(c, "inject")
         \/ call'[c] = Idle /\ UNCHANGED wanted
      /\ UNCHANGED <<frames, notes, doc, pending, mail, stale>>
  BY <1>1, GetDoes
<1>3. PICK moving : moving = {c}
  OBVIOUS
<1>4. /\ moving \in SUBSET Calls
      /\ \A u : \A d \in Calls \ moving : Sits(d, u)
      /\ \A d \in Calls \ moving : LET k == call'[d]
                                       j == call[d] IN
           k.op = j.op /\ k.tab = j.tab /\ k.pc = j.pc
  BY <1>2, <1>3, OneSits
<1>5. \A d \in moving : Answerable(d)'
  BY <1>2, <1>3, IdleIs DEF Answerable, Goes
<1>6. ASSUME NEW u \in Tabs PROVE Still(moving, u)
  BY <1>2, <1>3, <1>4, DocAlike DEF Still, Tells, At
<1>7. CASE call'[c] = Idle /\ UNCHANGED wanted
  <2>1. \A u \in Tabs : Calm(moving, u)
    BY <1>2, <1>6, <1>7 DEF Calm
  <2>. QED
    BY <1>4, <1>5, <2>1, FreshAll
<1>8. CASE wanted' = wanted \union {t} /\ Goes(c, "inject")
  <2>1. \A u \in Tabs \ {t} : Calm(moving, u)
    BY <1>2, <1>6, <1>8 DEF Calm
  <2>2. Reloading(t)'
    BY <1>1, <1>8 DEF Goes, Reloading, OfTab, At
  <2>3. ASSUME Annotatable(t)' PROVE Pins(t)'
    <3>1. InOrder(t)'
      BY <1>2, <1>4, <1>6, <2>3, StillStays DEF PinsFit, Pins
    <3>. QED
      BY <2>2, <3>1 DEF Pins, Located, Telling
  <2>4. ASSUME NEW d \in Calls \ moving, OfTab(d, t) PROVE Answerable(d)'
    BY <1>2, <1>3, <2>2, <2>4 DEF Answerable, Located, OfTab
  <2>. QED
    BY <1>2, <1>4, <1>5, <2>1, <2>3, <2>4, FreshOne
<1>. QED
  BY <1>2, <1>7, <1>8

\* The annotator announces itself.
LEMMA FreshInjects ==
    ASSUME TypeInv, TypeInv', OverlaysFit, PinsFit, NEW c \in Calls, inject(c)
    PROVE  PinsFit'
<1>1. PICK t : t = call[c].tab
  OBVIOUS
<1>2. /\ At(c, "inject") /\ t \in Tabs /\ call[c].op \in {"start", "updated", "locate"}
      /\ \A b \in Calls \ {c} : call'[b] = call[b]
      /\ \/ /\ Open(t) /\ (\A u \in Tabs \ {t} : Alike(u) /\ doc'[u] = doc[u])
            /\ Send(t, "READY") /\ doc[t].page \in Pages
            /\ call'[c] = Idle \/ Goes(c, "on")
         \/ ~Annotatable(t) /\ call'[c] = Idle /\ UNCHANGED <<doc, mail>>
      /\ UNCHANGED <<frames, notes, pending, wanted, stale>>
  BY <1>1, InjectDoes, RedoneAlike DEF worker, ghosts, Redone
<1>3. PICK moving : moving = {c}
  OBVIOUS
<1>4. /\ moving \in SUBSET Calls
      /\ \A u : \A d \in Calls \ moving : Sits(d, u)
      /\ \A d \in Calls \ moving : LET k == call'[d]
                                       j == call[d] IN
           k.op = j.op /\ k.tab = j.tab /\ k.pc = j.pc
  BY <1>2, <1>3, OneSits
<1>5. \A d \in moving : Answerable(d)'
  BY <1>2, <1>3, IdleIs DEF Answerable, Goes
<1>6. \A u \in Tabs \ {t} : ~Tells(c, u)
  BY <1>1, <1>2 DEF Tells, OfTab, At
<1>7. CASE /\ Open(t) /\ (\A u \in Tabs \ {t} : Alike(u) /\ doc'[u] = doc[u])
           /\ Send(t, "READY") /\ doc[t].page \in Pages
  <2>1. /\ \A u \in Tabs \ {t} : mail'[u] = mail[u]
        /\ DOMAIN mail[t] \subseteq DOMAIN mail'[t]
        /\ \A i \in DOMAIN mail[t] : mail'[t][i] = mail[t][i]
        /\ LET last == mail'[t][Len(mail[t]) + 1] IN last.type = "READY" /\ last.fresh
        /\ \A i \in DOMAIN mail'[t] : i \in DOMAIN mail[t] \/ i = Len(mail[t]) + 1
        /\ Len(mail'[t]) = Len(mail[t]) + 1
        /\ mail' \in [Tabs -> Seq(Messages)]
    BY <1>2, <1>7, SendIs DEF TypeInv
  <2>2. /\ Len(mail[t]) + 1 \in DOMAIN mail'[t]
        /\ \A i \in DOMAIN mail[t] : i < Len(mail[t]) + 1
    BY <1>2, <2>1 DEF TypeInv, MailTyped
  <2>3. Heard(t)'
    BY <2>1, <2>2 DEF Heard
  <2>4. InOrder(t)'
    BY <2>1, <2>2 DEF InOrder
  <2>5. \A u \in Tabs \ {t} : Calm(moving, u)
    BY <1>2, <1>3, <1>4, <1>6, <1>7, <2>1 DEF Calm, Still
  <2>6. Pins(t)'
    BY <2>3, <2>4 DEF Pins, Located, Telling
  <2>7. ASSUME NEW d \in Calls \ moving, OfTab(d, t) PROVE Answerable(d)'
    BY <1>2, <1>3, <2>3, <2>7 DEF Answerable, Located, OfTab
  <2>. QED
    BY <1>2, <1>4, <1>5, <2>5, <2>6, <2>7, FreshOne
<1>8. CASE ~Annotatable(t) /\ call'[c] = Idle /\ UNCHANGED <<doc, mail>>
  <2>1. \A u \in Tabs \ {t} : Calm(moving, u)
    BY <1>2, <1>3, <1>4, <1>6, <1>8, DocAlike DEF Calm, Still
  <2>2. ~Annotatable(t)'
    BY <1>8 DEF Annotatable, Open
  <2>3. ASSUME NEW d \in Calls \ moving, OfTab(d, t) PROVE Answerable(d)'
    <3>1. SUFFICES ASSUME call[d].op = "ready", call[d].fresh, call[d].pc \in {"restore", "answer"} PROVE FALSE
      BY <1>2, <1>3 DEF Answerable
    <3>2. doc[t].page = call[d].page /\ call[d].page \in Pages /\ Open(t)
      BY <1>2, <2>3, <3>1 DEF OverlaysFit, Timely, OfTab, TypeInv, CallsTyped, Sound
    <3>. QED
      BY <1>8, <3>2, ModeAssumption DEF Annotatable
  <2>. QED
    BY <1>2, <1>4, <1>5, <2>1, <2>2, <2>3, FreshOne
<1>. QED
  BY <1>2, <1>7, <1>8

LEMMA FreshSetsOn ==
    ASSUME TypeInv, TypeInv', PinsFit, NEW c \in Calls, SetModeOn(c)
    PROVE  PinsFit'
<1>1. PICK t : t = call[c].tab
  OBVIOUS
<1>2. /\ At(c, "on") /\ t \in Tabs /\ Goes(c, "sync") /\ call[c].op \in {"start", "updated"}
      /\ \A b \in Calls \ {c} : call'[b] = call[b]
      /\ \A u \in Tabs \ {t} : Alike(u) /\ doc'[u] = doc[u]
      /\ Open(t) => doc'[t].page = doc[t].page /\ doc'[t].loaded = doc[t].loaded
      /\ ~Open(t) => ~Open(t)'
      /\ UNCHANGED <<frames, notes, pending, mail, wanted, stale>>
  BY <1>1, SetModeOnDoes, RedoneAlike, DocAlike DEF worker, Redone, Open
<1>3. PICK moving : moving = {c}
  OBVIOUS
<1>4. /\ moving \in SUBSET Calls
      /\ \A u : \A d \in Calls \ moving : Sits(d, u)
      /\ \A d \in Calls \ moving : LET k == call'[d]
                                       j == call[d] IN
           k.op = j.op /\ k.tab = j.tab /\ k.pc = j.pc
  BY <1>2, <1>3, OneSits
<1>5. \A d \in moving : Answerable(d)'
  BY <1>2, <1>3 DEF Answerable, Goes
<1>6. \A u \in Tabs \ {t} : Calm(moving, u)
  BY <1>1, <1>2, <1>3, <1>4 DEF Calm, Still, Tells, OfTab, At
<1>7. Open(t) => (Located(t) => Located(t)')
  <2>1. Reloading(t) => Reloading(t)'
    BY <1>2, <1>3, <1>4, ReloadingStays DEF At
  <2>. QED
    BY <1>2, <2>1 DEF Located, Heard
<1>8. Telling(t)'
  BY <1>1, <1>2 DEF Telling, Goes, OfTab
<1>9. ASSUME Annotatable(t)' PROVE Pins(t)'
  <2>1. Open(t) /\ Annotatable(t)
    BY <1>2, <1>9 DEF Annotatable
  <2>2. Pins(t)
    BY <1>2, <2>1 DEF PinsFit
  <2>. QED
    BY <1>2, <1>7, <1>8, <2>1, <2>2 DEF Pins, InOrder
<1>10. ASSUME NEW d \in Calls \ moving, OfTab(d, t) PROVE Answerable(d)'
  <2>1. Answerable(d) /\ call'[d] = call[d] /\ (call[d].fresh => Open(t))
    BY <1>2, <1>3, <1>10 DEF PinsFit, OfTab, TypeInv, CallsTyped
  <2>. QED
    BY <1>7, <1>10, <2>1 DEF Answerable, OfTab
<1>. QED
  BY <1>2, <1>4, <1>5, <1>6, <1>9, <1>10, FreshOne

LEMMA FreshSetsOff ==
    ASSUME TypeInv, TypeInv', OverlaysFit, PinsFit, NEW c \in Calls, SetModeOff(c)
    PROVE  PinsFit'
<1>1. PICK t : t = call[c].tab
  OBVIOUS
<1>2. /\ At(c, "off") /\ t \in Tabs /\ call[c].op = "stop"
      /\ call'[c] = Idle \/ Goes(c, "stop next")
      /\ \A b \in Calls \ {c} : call'[b] = call[b]
      /\ \A u \in Tabs \ {t} : Alike(u) /\ doc'[u] = doc[u]
      /\ \/ Open(t) /\ doc'[t].page = doc[t].page /\ ~doc'[t].loaded /\ ~doc'[t].mode
         \/ UNCHANGED doc
      /\ UNCHANGED <<frames, notes, pending, mail, wanted, stale>>
  BY <1>1, SetModeOffDoes, RedoneAlike, DocAlike DEF worker, Redone
<1>3. PICK moving : moving = {c}
  OBVIOUS
<1>4. /\ moving \in SUBSET Calls
      /\ \A u : \A d \in Calls \ moving : Sits(d, u)
      /\ \A d \in Calls \ moving : LET k == call'[d]
                                       j == call[d] IN
           k.op = j.op /\ k.tab = j.tab /\ k.pc = j.pc
  BY <1>2, <1>3, OneSits
<1>5. \A d \in moving : Answerable(d)'
  BY <1>2, <1>3, IdleIs DEF Answerable, Goes
<1>6. \A u \in Tabs : ~Tells(c, u)
  BY <1>2 DEF Tells, At
<1>7. \A u \in Tabs \ {t} : Calm(moving, u)
  BY <1>2, <1>3, <1>4, <1>6 DEF Calm, Still
<1>8. CASE UNCHANGED doc
  <2>1. \A u \in Tabs : Calm(moving, u)
    BY <1>2, <1>3, <1>4, <1>6, <1>8, DocAlike DEF Calm, Still
  <2>. QED
    BY <1>4, <1>5, <2>1, FreshAll
<1>9. CASE Open(t) /\ doc'[t].page = doc[t].page /\ ~doc'[t].loaded /\ ~doc'[t].mode
  <2>1. Pins(t)'
    BY <1>9 DEF Pins, InOrder
  <2>2. Reloading(t) => Reloading(t)'
    BY <1>2, <1>3, <1>4, ReloadingStays DEF At
  <2>3. Located(t) => Located(t)'
    BY <1>2, <1>9, <2>2 DEF Located, Heard
  <2>4. ASSUME NEW d \in Calls \ moving, OfTab(d, t) PROVE Answerable(d)'
    BY <1>2, <1>3, <2>3, <2>4 DEF PinsFit, Answerable, OfTab
  <2>. QED
    BY <1>2, <1>4, <1>5, <1>7, <2>1, <2>4, FreshOne
<1>. QED
  BY <1>2, <1>8, <1>9

\* A tab leaves the mode.
LEMMA FreshLeaves ==
    ASSUME TypeInv, TypeInv', PinsFit, NEW c \in Calls, NEW t \in Tabs,
           \A b \in Calls \ {c} : call'[b] = call[b], call'[c].op = "stop",
           \A u \in Tabs \ {t} : /\ ~Tells(c, u) /\ mail'[u] = mail[u]
                                 /\ (u \in pending' <=> u \in pending),
           \A d \in Calls \ {c} : ~At(d, "restore"), ~Overlaps(c, "stop", t),
           wanted' = wanted \ {t}, frames' = [frames EXCEPT ![t] = None], InOrder(t) => InOrder(t)',
           UNCHANGED <<doc, notes, stale>>
    PROVE  PinsFit'
<1>3. PICK moving : moving = {c}
  OBVIOUS
<1>4. /\ moving \in SUBSET Calls
      /\ \A u : \A d \in Calls \ moving : Sits(d, u)
      /\ \A d \in Calls \ moving : LET k == call'[d]
                                       j == call[d] IN
           k.op = j.op /\ k.tab = j.tab /\ k.pc = j.pc
  BY <1>3, OneSits
<1>5. \A d \in moving : Answerable(d)'
  BY <1>3 DEF Answerable
<1>6. \A u \in Tabs \ {t} : frames'[u] = frames[u]
  BY DEF TypeInv, ModesTyped
<1>7. \A u \in Tabs \ {t} : Calm(moving, u)
  BY <1>3, <1>4, <1>6, DocAlike DEF Calm, Still
<1>8. ASSUME Annotatable(t)' PROVE Pins(t)'
  BY <1>8 DEF PinsFit, Pins, Annotatable, Open
<1>9. ASSUME NEW d \in Calls \ moving, OfTab(d, t) PROVE Answerable(d)'
  <2>1. call'[d] = call[d] /\ ~(InFlight(d) /\ call[d].op = "ready") /\ call[d].pc # "restore"
    BY <1>3, <1>9 DEF Overlaps, OfTab, At
  <2>. QED
    BY <2>1 DEF Answerable, InFlight
<1>. QED
  BY <1>4, <1>5, <1>7, <1>8, <1>9, FreshOne

LEMMA FreshStopsNext ==
    ASSUME TypeInv, TypeInv', Kept, PinsFit, NEW c \in Calls, StopNext(c), ~disturbed'
    PROVE  PinsFit'
<1>1. /\ At(c, "stop next") /\ \A b \in Calls \ {c} : call'[b] = call[b]
      /\ UNCHANGED <<doc, pending, mail, notes, stale>>
  BY StopNextDoes
<1>2. PICK t \in Tabs : /\ call'[c].op = "stop" /\ wanted' = wanted \ {t}
                        /\ frames' = [frames EXCEPT ![t] = None] /\ ~Overlaps(c, "stop", t)
  BY StopNextDoes
<1>3. \A u \in Tabs : ~Tells(c, u)
  BY <1>1 DEF Tells, At
<1>4. \A d \in Calls \ {c} : ~At(d, "restore")
  <2>1. ~Bystander(c)
    BY <1>1 DEF At, Bystander
  <2>. QED
    BY <2>1 DEF Kept, Restoring
<1>5. InOrder(t) => InOrder(t)'
  BY <1>1 DEF InOrder
<1>. QED
  BY <1>1, <1>2, <1>3, <1>4, <1>5, FreshLeaves

\* A page is told the notes of the page that the worker knows it to be.
LEMMA PinsTold ==
    ASSUME TypeInv, OverlaysFit, NEW t \in Tabs, Annotatable(t), Pins(t),
           Redone(t, doc[t].loaded, doc[t].located, doc[t].mode, Told(t)),
           stale' = (IF frames[t] # None THEN stale \ {t} ELSE stale),
           Reloading(t) => Reloading(t)', UNCHANGED <<frames, notes, pending, mail, wanted>>
    PROVE  Pins(t)'
<1>1. /\ doc'[t].page = doc[t].page /\ doc'[t].loaded = doc[t].loaded /\ doc'[t].mode = doc[t].mode
      /\ doc'[t].pins = Told(t)
  BY DEF Redone
<1>2. (Heard(t)' <=> Heard(t)) /\ (InOrder(t)' <=> InOrder(t))
  BY <1>1 DEF Heard, InOrder
<1>3. Located(t) => Located(t)'
  BY <1>1, <1>2 DEF Located
<1>4. doc[t].page # None
  BY PageOf
<1>5. t \in wanted /\ doc[t].loaded => Located(t)' \/ (frames[t] = None /\ t \in stale')
  <2>1. t \in stale /\ frames[t] = None => t \in stale'
    OBVIOUS
  <2>. QED
    BY <1>3, <2>1 DEF Pins
<1>6. ASSUME t \in wanted, t \notin stale', doc[t].mode
      PROVE  Told(t) = NotesOn(doc[t].page) \/ Telling(t)'
  <2>1. doc[t].loaded
    BY <1>6 DEF OverlaysFit, Overlay
  <2>2. Located(t)' \/ (frames[t] = None /\ t \in stale')
    BY <1>5, <1>6, <2>1
  <2>3. CASE frames[t] = doc[t].page
    BY <1>4, <2>1, <2>3 DEF Told
  <2>4. CASE Heard(t)' \/ Reloading(t)'
    BY <2>4 DEF Telling
  <2>. QED
    BY <1>1, <1>6, <2>2, <2>3, <2>4 DEF Located
<1>7. NotesOn(doc[t].page)' = NotesOn(doc[t].page)
  BY <1>1 DEF NotesOn
<1>. QED
  BY <1>1, <1>2, <1>5, <1>6, <1>7 DEF Pins

LEMMA FreshSyncs ==
    ASSUME TypeInv, TypeInv', OverlaysFit, PinsFit, NEW c \in Calls, Sync(c)
    PROVE  PinsFit'
<1>1. PICK t : t = call[c].tab
  OBVIOUS
<1>2. /\ At(c, "sync") /\ t \in Tabs
      /\ call'[c] = Idle /\ \A b \in Calls \ {c} : call'[b] = call[b]
      /\ Open(t) => Redone(t, doc[t].loaded, doc[t].located, doc[t].mode, Told(t))
      /\ ~Open(t) => UNCHANGED doc
      /\ stale' = IF frames[t] # None THEN stale \ {t} ELSE stale
      /\ UNCHANGED <<frames, notes, pending, mail, wanted>>
  BY <1>1, SyncDoes
<1>3. PICK moving : moving = {c}
  OBVIOUS
<1>4. /\ moving \in SUBSET Calls
      /\ \A u : \A d \in Calls \ moving : Sits(d, u)
      /\ \A d \in Calls \ moving : LET k == call'[d]
                                       j == call[d] IN
           k.op = j.op /\ k.tab = j.tab /\ k.pc = j.pc
  BY <1>2, <1>3, OneSits
<1>5. \A d \in moving : Answerable(d)'
  BY <1>2, <1>3, IdleIs DEF Answerable
<1>6. /\ \A u \in Tabs : Alike(u)
      /\ \A u \in Tabs \ {t} : doc'[u] = doc[u]
  BY <1>2, RedoneAlike, DocAlike DEF Redone
<1>7. \A u \in Tabs \ {t} : Calm(moving, u)
  BY <1>1, <1>2, <1>3, <1>4, <1>6 DEF Calm, Still, Tells, OfTab, At
<1>8. Reloading(t) => Reloading(t)'
  BY <1>2, <1>3, <1>4, ReloadingStays DEF At
<1>9. Located(t) => Located(t)'
  BY <1>2, <1>6, <1>8 DEF Located, Heard, Alike
<1>10. ASSUME Annotatable(t)' PROVE Pins(t)'
  <2>1. Annotatable(t) /\ Open(t)
    BY <1>2, <1>6, <1>10, AlikeIs DEF Annotatable
  <2>. QED
    BY <1>2, <1>8, <2>1, PinsTold DEF PinsFit
<1>11. ASSUME NEW d \in Calls \ moving, OfTab(d, t) PROVE Answerable(d)'
  BY <1>2, <1>3, <1>9, <1>11 DEF PinsFit, Answerable, OfTab
<1>. QED
  BY <1>2, <1>4, <1>5, <1>7, <1>10, <1>11, FreshOne

LEMMA FreshSyncsNext ==
    ASSUME TypeInv, TypeInv', OverlaysFit, PinsFit, NEW c \in Calls, SyncNext(c)
    PROVE  PinsFit'
<1>1. /\ At(c, "sync next") /\ call[c].op = "sync all"
      /\ \A b \in Calls \ {c} : call'[b] = call[b]
      /\ UNCHANGED <<frames, notes, pending, mail, wanted>>
  BY SyncNextDoes DEF worker
<1>2. PICK t \in call[c].todo :
        /\ t \in Tabs
        /\ Open(t) => Redone(t, doc[t].loaded, doc[t].located, doc[t].mode, Told(t))
        /\ ~Open(t) => UNCHANGED doc
        /\ stale' = IF frames[t] # None THEN stale \ {t} ELSE stale
        /\ IF call[c].todo = {t} THEN call'[c] = Idle
           ELSE LET k == call'[c] IN
                  /\ k.op = "sync all" /\ k.pc = "sync next" /\ k.todo = call[c].todo \ {t}
                  /\ k.tab = call[c].tab
  BY SyncNextDoes
<1>3. PICK moving : moving = IF call[c].todo = {t} THEN {c} ELSE {}
  OBVIOUS
<1>4. \A u \in Tabs \ {t} : \A d \in Calls \ moving : Sits(d, u)
  <2>1. ASSUME NEW u \in Tabs \ {t}, call[c].todo # {t} PROVE Sits(c, u)
    <3>1. ~call[c].fresh /\ ~call'[c].fresh
      BY <1>1, <1>2, <2>1 DEF TypeInv, CallsTyped, Sound
    <3>. QED
      BY <1>1, <1>2, <2>1, <3>1 DEF Sits, At
  <2>2. ASSUME NEW u \in Tabs \ {t}, NEW d \in Calls \ {c} PROVE Sits(d, u)
    BY <1>1, OneSits
  <2>. QED
    BY <1>3, <2>1, <2>2
<1>5. /\ moving \in SUBSET Calls
      /\ \A d \in Calls \ moving : LET k == call'[d]
                                       j == call[d] IN
           k.op = j.op /\ k.tab = j.tab /\ k.pc = j.pc
  BY <1>1, <1>2, <1>3 DEF At
<1>6. call'[c].op # "ready"
  BY <1>2, IdleIs
<1>7. /\ \A u \in Tabs : Alike(u)
      /\ \A u \in Tabs \ {t} : doc'[u] = doc[u]
  BY <1>2, RedoneAlike, DocAlike DEF Redone
<1>8. \A u \in Tabs \ {t} : Calm(moving, u)
  <2>1. \A u \in Tabs \ {t}, d \in moving : ~Tells(d, u)
    BY <1>1, <1>2, <1>3 DEF Tells, At
  <2>. QED
    BY <1>1, <1>2, <1>4, <1>7, <2>1 DEF Calm, Still
<1>9. Reloading(t) => Reloading(t)'
  <2>1. PICK alone : alone = {c}
    OBVIOUS
  <2>2. alone \in SUBSET Calls /\ (\A d \in Calls \ alone : Sits(d, t)) /\ \A d \in alone : call[d].pc = "sync next"
    BY <1>1, <2>1, OneSits DEF At
  <2>. QED
    BY <1>1, <2>2, ReloadingStays DEF At
<1>10. Located(t) => Located(t)'
  BY <1>1, <1>2, <1>7, <1>9 DEF Located, Heard, Alike
<1>11. ASSUME Annotatable(t)' PROVE Pins(t)'
  <2>1. Annotatable(t) /\ Open(t)
    BY <1>2, <1>7, <1>11, AlikeIs DEF Annotatable
  <2>. QED
    BY <1>1, <1>2, <1>9, <2>1, PinsTold DEF PinsFit
<1>12. ASSUME NEW d \in Calls, OfTab(d, t) PROVE Answerable(d)'
  <2>1. CASE d = c
    BY <1>6, <2>1 DEF Answerable
  <2>2. CASE d # c
    BY <1>1, <1>10, <1>12, <2>2 DEF PinsFit, Answerable, OfTab
  <2>. QED
    BY <2>1, <2>2
<1>13. \A d \in moving : Answerable(d)'
  BY <1>3, <1>6 DEF Answerable
<1>. QED
  BY <1>2, <1>5, <1>8, <1>11, <1>12, <1>13, FreshOne

LEMMA FreshAnswers ==
    ASSUME TypeInv, TypeInv', OverlaysFit, PinsFit, NEW c \in Calls, AnswerReady(c)
    PROVE  PinsFit'
<1>1. PICK t : t = call[c].tab
  OBVIOUS
<1>2. /\ At(c, "answer") /\ call[c].op = "ready" /\ t \in Tabs
      /\ call'[c] = Idle /\ \A b \in Calls \ {c} : call'[b] = call[b]
      /\ ~call[c].fresh => UNCHANGED <<doc, stale>>
      /\ call[c].fresh =>
           /\ Open(t) /\ Redone(t, doc[t].loaded, doc[t].located, TRUE, NotesOn(call[c].page))
           /\ stale' = stale \ {t}
      /\ UNCHANGED <<frames, notes, pending, mail, wanted>>
  BY <1>1, AnswerReadyDoes
<1>3. PICK moving : moving = {c}
  OBVIOUS
<1>4. /\ moving \in SUBSET Calls
      /\ \A u : \A d \in Calls \ moving : Sits(d, u)
      /\ \A d \in Calls \ moving : LET k == call'[d]
                                       j == call[d] IN
           k.op = j.op /\ k.tab = j.tab /\ k.pc = j.pc
  BY <1>2, <1>3, OneSits
<1>5. \A d \in moving : Answerable(d)'
  BY <1>2, <1>3, IdleIs DEF Answerable
<1>6. \A u \in Tabs \ {t} : ~Tells(c, u)
  BY <1>1, <1>2 DEF Tells, OfTab, At
<1>7. Reloading(t) => Reloading(t)'
  BY <1>2, <1>3, <1>4, ReloadingStays DEF At
<1>8. doc'[t].page = doc[t].page => (Located(t) => Located(t)')
  BY <1>2, <1>7 DEF Located, Heard
<1>9. ASSUME NEW d \in Calls \ moving, OfTab(d, t), doc'[t].page = doc[t].page PROVE Answerable(d)'
  BY <1>2, <1>3, <1>8, <1>9 DEF PinsFit, Answerable, OfTab
<1>10. CASE call[c].fresh
  <2>1. /\ doc'[t].page = doc[t].page /\ doc'[t].loaded = doc[t].loaded
        /\ doc'[t].pins = NotesOn(call[c].page) /\ \A u \in Tabs \ {t} : Alike(u) /\ doc'[u] = doc[u]
    BY <1>2, <1>10, RedoneAlike DEF Redone
  <2>2. doc[t].page = call[c].page /\ Located(t)
    BY <1>1, <1>2, <1>10 DEF OverlaysFit, Timely, PinsFit, Answerable, At
  <2>3. ASSUME Annotatable(t)' PROVE Pins(t)'
    <3>1. Annotatable(t)
      BY <1>2, <1>10, <2>1, <2>3 DEF Annotatable, Open
    <3>2. InOrder(t)'
      BY <1>2, <2>1, <3>1 DEF PinsFit, Pins, InOrder
    <3>3. NotesOn(doc[t].page)' = doc'[t].pins
      BY <1>2, <2>1, <2>2 DEF NotesOn
    <3>. QED
      BY <1>8, <2>1, <2>2, <3>2, <3>3 DEF Pins
  <2>4. \A u \in Tabs \ {t} : Calm(moving, u)
    BY <1>2, <1>3, <1>4, <1>6, <1>10, <2>1 DEF Calm, Still
  <2>. QED
    BY <1>2, <1>4, <1>5, <1>9, <2>1, <2>3, <2>4, FreshOne
<1>11. CASE ~call[c].fresh
  <2>1. \A u \in Tabs \ {t} : Calm(moving, u)
    BY <1>2, <1>3, <1>4, <1>6, <1>11, DocAlike DEF Calm, Still
  <2>2. ASSUME Annotatable(t)' PROVE Pins(t)'
    <3>1. Pins(t)
      BY <1>2, <1>11, <2>2 DEF PinsFit, Annotatable, Open
    <3>2. Telling(t) => Telling(t)'
      <4>1. ASSUME NEW d \in Calls,
                   \/ OfTab(d, t) /\ call[d].op = "ready" /\ call[d].fresh /\ call[d].pc \in {"restore", "answer"}
                   \/ OfTab(d, t) /\ call[d].pc \in {"on", "sync"}
                   \/ At(d, "saved")
                   \/ At(d, "restore") /\ call[d].op = "sync all"
                   \/ At(d, "sync next") /\ t \in call[d].todo
            PROVE  Telling(t)'
        <5>1. d # c
          BY <1>2, <1>11, <4>1 DEF At
        <5>2. call'[d] = call[d]
          BY <1>2, <5>1
        <5>. QED
          BY <4>1, <5>2 DEF Telling, OfTab, At
      <4>2. Heard(t) => Heard(t)'
        BY <1>2 DEF Heard
      <4>. QED
        BY <1>7, <4>1, <4>2 DEF Telling
    <3>3. NotesOn(doc[t].page)' = NotesOn(doc[t].page)
      BY <1>2, <1>11 DEF NotesOn
    <3>4. Located(t) => Located(t)'
      BY <1>2, <1>8, <1>11
    <3>. QED
      BY <1>2, <1>11, <3>1, <3>2, <3>3, <3>4 DEF Pins, InOrder
  <2>. QED
    BY <1>2, <1>4, <1>5, <1>9, <1>11, <2>1, <2>2, FreshOne
<1>. QED
  BY <1>10, <1>11

\* A call arrives at what it is for; the worker has taken a message or an event, and
\* will have fs for frames.
Meets(c, k, fs) ==
    LET t == k.tab IN
      /\ call[c].pc \in {"idle", "saved", "restore"}
      /\ call[c].pc \in {"saved", "restore"} => call[c].op = k.op
      /\ call[c].pc = "restore" => call[c].tab = k.tab /\ (call[c].fresh <=> k.fresh)
      /\ \A u \in Tabs \ {t} : mail'[u] = mail[u] /\ (u \in pending' <=> u \in pending) /\ fs[u] = frames[u]
      /\ t \in Tabs =>
           /\ doc'[t].loaded = doc[t].loaded => (InOrder(t) => InOrder(k.tab)')
           /\ k.op # "updated" => (t \in pending => t \in pending')
           /\ k.op # "ready" => fs[t] = frames[t] /\ (Heard(t) => Heard(k.tab)')
           /\ k.op = "ready" =>
                \/ fs[t] = frames[t] /\ mail'[t] = mail[t] /\ (k.fresh => Located(t))
                \/ k.fresh /\ fs[t] = doc[t].page
                \/ ~k.fresh /\ (Annotatable(t) /\ doc[t].loaded => Heard(k.tab)')
      /\ k.op = "sync all" => UNCHANGED <<mail, pending>> /\ fs = frames

\* What such a call has said of the other tabs is nothing.
LEMMA MeetsElse ==
    ASSUME TypeInv, NEW c \in Calls, NEW k, NEW fs, Meets(c, k, fs), k.op # "sync all"
    PROVE  /\ \A u \in Tabs \ {k.tab} : ~Tells(c, u)
           /\ ~At(c, "saved")
<1>1. /\ call[c].pc \in {"idle", "restore"}
      /\ call[c].pc = "restore" => call[c].tab = k.tab /\ call[c].op # "sync all"
  BY DEF Meets, TypeInv, CallsTyped, OpAt
<1>. QED
  BY <1>1 DEF Tells, OfTab, At

\* A document that a call is to be answered for.
LEMMA ReadyTab ==
    ASSUME TypeInv, OverlaysFit, NEW d \in Calls, call[d].op = "ready", call[d].fresh,
           call[d].pc \in {"restore", "answer"}
    PROVE  LET t == call[d].tab IN
           t \in Tabs /\ Annotatable(t) /\ doc[t].loaded /\ (call[d].pc = "answer" => t \in wanted)
<1>1. /\ call[d].tab \in Tabs /\ Open(call[d].tab) /\ call[d].page \in Pages
  BY DEF TypeInv, CallsTyped, Sound
<1>2. doc[call[d].tab].loaded /\ doc[call[d].tab].page = call[d].page
      /\ (call[d].pc = "answer" => call[d].tab \in wanted)
  BY DEF OverlaysFit, Timely, At
<1>. QED
  BY <1>1, <1>2, ModeAssumption DEF Annotatable

\* The call is told of a document, and where it knows it to be.
LEMMA MeetsKeeps ==
    ASSUME TypeInv, NEW c \in Calls, NEW k, NEW fs, Meets(c, k, fs),
           \A d \in Calls \ {c} : call'[d] = call[d], NEW t \in Tabs, t = k.tab, UNCHANGED doc,
           frames' = fs, k.op \notin {"updated", "sync all"}, Annotatable(t), doc[t].loaded
    PROVE  /\ Located(t) => Located(t)'
           /\ k.op = "ready" /\ k.fresh => Located(t)'
           /\ frames'[t] = frames[t] \/ Located(t)'
           /\ Telling(t) => Telling(t)' \/ (k.op = "ready" /\ k.fresh)
<1>1. PICK moving : moving = {c}
  OBVIOUS
<1>2. moving \in SUBSET Calls /\ \A d \in Calls \ moving : Sits(d, t)
  BY <1>1, OneSits
<1>3. /\ call[c].pc \in {"idle", "restore"}
      /\ call[c].pc = "restore" => call[c].op = k.op /\ (call[c].fresh <=> k.fresh)
      /\ k.op \notin {"updated", "sync all"}
  <2>1. ~At(c, "saved")
    BY MeetsElse
  <2>. QED
    BY <2>1 DEF Meets, At
<1>4. t \in pending => t \in pending'
  BY DEF Meets
<1>5. Reloading(t) => Reloading(t)'
  <2>1. \A d \in moving : ~(OfTab(d, t) /\ (At(d, "inject") \/ (At(d, "restore") /\ call[d].op = "updated")))
    BY <1>1, <1>3 DEF At
  <2>. QED
    BY <1>2, <1>4, <2>1, ReloadingStays
<1>6. /\ k.op # "ready" => frames'[t] = frames[t] /\ (Heard(t) => Heard(t)')
      /\ k.op = "ready" =>
           \/ frames'[t] = frames[t] /\ (Heard(t) => Heard(t)') /\ (k.fresh => Located(t))
           \/ k.fresh /\ frames'[t] = doc[t].page
           \/ ~k.fresh /\ Heard(t)'
  BY DEF Meets, Heard
<1>7. /\ Located(t) => Located(t)'
      /\ k.op = "ready" /\ k.fresh => Located(t)'
      /\ frames'[t] = frames[t] \/ Located(t)'
  BY <1>5, <1>6 DEF Located
<1>8. ASSUME NEW d \in Calls,
             \/ OfTab(d, t) /\ call[d].op = "ready" /\ call[d].fresh /\ call[d].pc \in {"restore", "answer"}
             \/ OfTab(d, t) /\ call[d].pc \in {"on", "sync"}
             \/ At(d, "saved")
             \/ At(d, "restore") /\ call[d].op = "sync all"
             \/ At(d, "sync next") /\ t \in call[d].todo,
             d # c
      PROVE  Telling(t)'
  BY <1>8 DEF Telling, OfTab, At
<1>9. ASSUME \/ OfTab(c, t) /\ call[c].op = "ready" /\ call[c].fresh /\ call[c].pc \in {"restore", "answer"}
             \/ OfTab(c, t) /\ call[c].pc \in {"on", "sync"}
             \/ At(c, "saved")
             \/ At(c, "restore") /\ call[c].op = "sync all"
             \/ At(c, "sync next") /\ t \in call[c].todo,
             ~(k.op = "ready" /\ k.fresh)
      PROVE  FALSE
  BY <1>3, <1>9 DEF At
<1>10. Heard(t) => Telling(t)' \/ (k.op = "ready" /\ k.fresh)
  BY <1>6 DEF Telling
<1>. QED
  BY <1>5, <1>7, <1>8, <1>9, <1>10 DEF Telling

\* What one call that arrives leaves alone of the other tabs.
LEMMA MeetsCalm ==
    ASSUME TypeInv, NEW c \in Calls, NEW k, NEW fs, Meets(c, k, fs),
           \A u \in Tabs \ {k.tab} : ~Tells(c, u),
           \A d \in Calls \ {c} : call'[d] = call[d], NEW moving, moving = {c},
           \A u \in Tabs \ {k.tab} : /\ doc'[u] = doc[u] /\ (Open(u)' <=> Open(u)) /\ frames'[u] = fs[u]
                                     /\ (u \in wanted' <=> u \in wanted) /\ (u \in stale => u \in stale'),
           UNCHANGED notes
    PROVE  /\ moving \in SUBSET Calls
           /\ \A u \in Tabs \ {k.tab} : Calm(moving, u)
           /\ \A d \in Calls \ moving : LET j == call'[d]
                                            i == call[d] IN
                j.op = i.op /\ j.tab = i.tab /\ j.pc = i.pc
<1>1. /\ moving \in SUBSET Calls
      /\ \A t : \A d \in Calls \ moving : Sits(d, t)
      /\ \A d \in Calls \ moving : LET j == call'[d]
                                       i == call[d] IN
           j.op = i.op /\ j.tab = i.tab /\ j.pc = i.pc
  BY OneSits
<1>2. \A u \in Tabs \ {k.tab} : Alike(u)
  BY DEF Alike
<1>3. \A u \in Tabs \ {k.tab} : mail'[u] = mail[u] /\ (u \in pending' <=> u \in pending) /\ fs[u] = frames[u]
  BY DEF Meets
<1>. QED
  BY <1>1, <1>2, <1>3 DEF Calm, Still

\* A call goes on and does nothing to a page.
LEMMA FreshKeeps ==
    ASSUME TypeInv, OverlaysFit, PinsFit, NEW c \in Calls, NEW k, NEW fs, Meets(c, k, fs), Arrives(c, k), Sound(k),
           k.fresh => Open(k.tab), k.op \notin {"updated", "sync all"},
           \A d \in Calls \ {c} : call'[d] = call[d],
           LET j == call'[c] IN
             IF k.op = "ready"
               THEN j.op = "ready" /\ j.tab = k.tab /\ j.fresh = k.fresh /\ j.pc \in {"restore", "answer"}
               ELSE j.op # "ready",
           frames' = fs, UNCHANGED <<doc, notes, stale, wanted>>
    PROVE  PinsFit'
<1>1. PICK moving : moving = {c}
  OBVIOUS
<1>2. /\ moving \in SUBSET Calls
      /\ \A u \in Tabs \ {k.tab} : Calm(moving, u)
      /\ \A d \in Calls \ moving : LET j == call'[d]
                                       i == call[d] IN
           j.op = i.op /\ j.tab = i.tab /\ j.pc = i.pc
  <2>1. \A u \in Tabs \ {k.tab} : ~Tells(c, u)
    BY MeetsElse
  <2>. QED
    BY <1>1, <2>1, MeetsCalm DEF Open
<1>3. CASE k.tab \notin Tabs
  <2>1. k.op # "ready"
    BY <1>3 DEF Sound
  <2>2. \A d \in moving : Answerable(d)'
    BY <1>1, <2>1 DEF Answerable
  <2>. QED
    BY <1>2, <1>3, <2>2, FreshAll
<1>4. CASE k.tab \in Tabs
  <2>1. PICK t \in Tabs : t = k.tab
    BY <1>4
  <2>2. ASSUME Annotatable(t), doc[t].loaded
        PROVE  /\ Located(t) => Located(t)'
               /\ k.op = "ready" /\ k.fresh => Located(t)'
               /\ frames'[t] = frames[t] \/ Located(t)'
               /\ Telling(t) => Telling(t)'
    <3>1. k.op = "ready" /\ k.fresh => Telling(t)'
      BY <2>1 DEF Telling, OfTab
    <3>. QED
      BY <2>1, <2>2, <3>1, MeetsKeeps
  <2>3. k.op = "ready" /\ k.fresh => Annotatable(t) /\ doc[t].loaded
    BY <2>1, ModeAssumption DEF Arrives, Sound, Annotatable
  <2>4. \A d \in moving : Answerable(d)'
    BY <1>1, <2>1, <2>2, <2>3 DEF Answerable
  <2>5. ASSUME NEW d \in Calls \ moving, OfTab(d, t) PROVE Answerable(d)'
    <3>1. SUFFICES ASSUME call[d].op = "ready", call[d].fresh, call[d].pc \in {"restore", "answer"}
                   PROVE  Located(t)'
      BY <1>1, <2>5 DEF Answerable, OfTab
    <3>2. Annotatable(t) /\ doc[t].loaded
      BY <2>5, <3>1, ReadyTab DEF OfTab
    <3>. QED
      BY <2>2, <2>5, <3>1, <3>2 DEF PinsFit, Answerable, OfTab
  <2>6. ASSUME Annotatable(t)' PROVE Pins(t)'
    <3>1. Annotatable(t) /\ Pins(t)
      BY <2>6 DEF Annotatable, Open, PinsFit
    <3>2. InOrder(t)'
      BY <2>1, <3>1 DEF Meets, Pins
    <3>3. doc[t].mode => doc[t].loaded
      BY <3>1 DEF OverlaysFit, Overlay
    <3>4. NotesOn(doc[t].page)' = NotesOn(doc[t].page)
      BY DEF NotesOn
    <3>. QED
      BY <2>2, <3>1, <3>2, <3>3, <3>4 DEF Pins
  <2>. QED
    BY <1>2, <2>1, <2>4, <2>5, <2>6, FreshOne
<1>. QED
  BY <1>3, <1>4

\* A document is complete: the annotator is to come.
LEMMA FreshReloads ==
    ASSUME TypeInv, PinsFit, NEW c \in Calls, NEW k, NEW fs, Meets(c, k, fs), k.op = "updated",
           NEW t \in Tabs, t = k.tab, \A d \in Calls \ {c} : call'[d] = call[d],
           LET j == call'[c] IN j.op = "updated" /\ j.tab = t /\ j.pc \in {"restore", "inject"},
           \A u \in Tabs \ {t} : frames'[u] = fs[u],
           UNCHANGED <<doc, notes, stale, wanted>>
    PROVE  PinsFit'
<1>1. PICK moving : moving = {c}
  OBVIOUS
<1>2. /\ moving \in SUBSET Calls
      /\ \A u \in Tabs \ {t} : Calm(moving, u)
      /\ \A d \in Calls \ moving : LET j == call'[d]
                                       i == call[d] IN
           j.op = i.op /\ j.tab = i.tab /\ j.pc = i.pc
  <2>1. \A u \in Tabs \ {k.tab} : ~Tells(c, u)
    BY MeetsElse
  <2>. QED
    BY <1>1, <2>1, MeetsCalm DEF Open
<1>3. Reloading(t)'
  BY DEF Reloading, OfTab, At
<1>4. \A d \in moving : Answerable(d)'
  BY <1>1 DEF Answerable
<1>5. ASSUME NEW d \in Calls \ moving, OfTab(d, t) PROVE Answerable(d)'
  BY <1>1, <1>3, <1>5 DEF Answerable, OfTab, Located
<1>6. ASSUME Annotatable(t)' PROVE Pins(t)'
  <2>1. InOrder(t)'
    BY <1>6 DEF Annotatable, Open, PinsFit, Pins, Meets
  <2>. QED
    BY <1>3, <2>1 DEF Pins, Located, Telling
<1>. QED
  BY <1>2, <1>4, <1>5, <1>6, FreshOne

\* A call for a tab that is not in the mode ends.
LEMMA FreshDeclines ==
    ASSUME TypeInv, OverlaysFit, PinsFit, NEW c \in Calls, NEW k, NEW fs, Meets(c, k, fs), k.op # "sync all",
           NEW t \in Tabs, t = k.tab, t \notin wanted, call'[c] = Idle,
           \A d \in Calls \ {c} : call'[d] = call[d] /\ ~At(d, "restore"),
           \A u \in Tabs \ {t} : doc'[u] = doc[u],
           doc'[t].loaded = doc[t].loaded, doc'[t].page = doc[t].page,
           \A u \in Tabs : Open(u)' <=> Open(u), frames' = fs,
           UNCHANGED <<notes, stale, wanted>>
    PROVE  PinsFit'
<1>1. PICK moving : moving = {c}
  OBVIOUS
<1>2. /\ moving \in SUBSET Calls
      /\ \A u \in Tabs \ {t} : Calm(moving, u)
      /\ \A d \in Calls \ moving : LET j == call'[d]
                                       i == call[d] IN
           j.op = i.op /\ j.tab = i.tab /\ j.pc = i.pc
  <2>1. \A u \in Tabs \ {k.tab} : ~Tells(c, u)
    BY MeetsElse
  <2>. QED
    BY <1>1, <2>1, MeetsCalm
<1>3. \A d \in moving : Answerable(d)'
  BY <1>1, IdleIs DEF Answerable
<1>4. ASSUME NEW d \in Calls \ moving, OfTab(d, t) PROVE Answerable(d)'
  <2>1. ~(call[d].op = "ready" /\ call[d].fresh /\ call[d].pc \in {"restore", "answer"})
    BY <1>1, <1>4, ReadyTab DEF OfTab, At
  <2>. QED
    BY <1>1, <1>4, <2>1 DEF Answerable
<1>5. ASSUME Annotatable(t)' PROVE Pins(t)'
  <2>1. Annotatable(t)
    BY <1>5 DEF Annotatable
  <2>2. InOrder(t)'
    BY <2>1 DEF PinsFit, Pins, Meets
  <2>. QED
    BY <2>2 DEF Pins
<1>. QED
  BY <1>2, <1>3, <1>4, <1>5, FreshOne

\* Every tab of the mode is to be told.
LEMMA FreshSyncsAll ==
    ASSUME TypeInv, OverlaysFit, PinsFit, NEW c \in Calls, NEW k, NEW fs, Meets(c, k, fs), k.op = "sync all",
           \A d \in Calls \ {c} : call'[d] = call[d],
           LET j == call'[c] IN
             \/ j.op = "sync all" /\ j.pc = "restore"
             \/ j.op = "sync all" /\ j.pc = "sync next" /\ j.todo = wanted
             \/ j = Idle /\ wanted = {},
           frames' = fs, UNCHANGED <<doc, notes, stale, wanted>>
    PROVE  PinsFit'
<1>1. UNCHANGED <<mail, pending, frames>>
  BY DEF Meets
<1>2. PICK moving : moving = {c}
  OBVIOUS
<1>3. moving \in SUBSET Calls /\ \A t : \A d \in Calls \ moving : Sits(d, t)
  BY <1>2, OneSits
<1>4. call'[c].op # "ready"
  BY IdleIs
<1>5. ASSUME NEW t \in Tabs PROVE Located(t) => Located(t)'
  <2>1. \A d \in moving : ~(OfTab(d, t) /\ (At(d, "inject") \/ (At(d, "restore") /\ call[d].op = "updated")))
    BY <1>2 DEF Meets, At
  <2>2. Reloading(t) => Reloading(t)'
    BY <1>1, <1>3, <2>1, ReloadingStays
  <2>. QED
    BY <1>1, <2>2 DEF Located, Heard
<1>6. ASSUME NEW t \in Tabs, Annotatable(t)' PROVE Pins(t)'
  <2>1. Pins(t)
    BY <1>6 DEF PinsFit, Annotatable, Open
  <2>2. t \in wanted => Telling(t)'
    BY DEF Telling, At
  <2>. QED
    BY <1>1, <1>5, <2>1, <2>2 DEF Pins, InOrder
<1>7. ASSUME NEW d \in Calls PROVE Answerable(d)'
  <2>1. CASE d = c
    BY <1>4, <2>1 DEF Answerable
  <2>2. CASE d # c
    <3>1. call[d].op = "ready" => call[d].tab \in Tabs
      BY DEF TypeInv, CallsTyped, Sound
    <3>2. call'[d] = call[d] /\ Answerable(d)
      BY <2>2 DEF PinsFit
    <3>. QED
      BY <1>5, <3>1, <3>2 DEF Answerable
  <2>. QED
    BY <2>1, <2>2
<1>. QED
  BY <1>6, <1>7 DEF PinsFit

\* A message less.
LEMMA TailKeeps ==
    ASSUME TypeInv, NEW t \in Tabs, Hears(t)
    PROVE  /\ doc'[t].loaded = doc[t].loaded /\ InOrder(t) => InOrder(t)'
           /\ mail[t][1].type = "STOP" => (Heard(t) => Heard(t)')
           /\ ~mail[t][1].fresh /\ InOrder(t) /\ doc[t].loaded => Heard(t)'
<1>1. /\ 1 \in DOMAIN mail[t]
      /\ \A i \in DOMAIN mail'[t] :
           i \in Nat \ {0} /\ i + 1 \in DOMAIN mail[t] /\ mail'[t][i] = mail[t][i + 1]
      /\ \A i \in DOMAIN mail[t] :
           i = 1 \/ (i - 1 \in DOMAIN mail'[t] /\ mail'[t][i - 1] = mail[t][i] /\ i \in Nat \ {0})
  BY TailIs DEF TypeInv
<1>2. ASSUME doc'[t].loaded = doc[t].loaded, InOrder(t) PROVE InOrder(t)'
  <2>1. SUFFICES ASSUME doc[t].loaded, NEW i \in DOMAIN mail'[t], ~mail'[t][i].fresh
                 PROVE  \E j \in DOMAIN mail'[t] : i < j /\ mail'[t][j].type = "READY" /\ mail'[t][j].fresh
    BY <1>2 DEF InOrder
  <2>2. PICK j \in DOMAIN mail[t] : i + 1 < j /\ mail[t][j].type = "READY" /\ mail[t][j].fresh
    BY <1>1, <1>2, <2>1 DEF InOrder
  <2>3. i \in Nat \ {0} /\ (j = 1 \/ j \in Nat \ {0})
    BY <1>1
  <2>4. j # 1 /\ i < j - 1
    BY <2>2, <2>3
  <2>5. j - 1 \in DOMAIN mail'[t] /\ mail'[t][j - 1] = mail[t][j]
    BY <1>1, <2>4
  <2>. QED
    BY <2>2, <2>4, <2>5
<1>3. ASSUME mail[t][1].type = "STOP", Heard(t) PROVE Heard(t)'
  <2>1. PICK j \in DOMAIN mail[t] : mail[t][j].type = "READY" /\ mail[t][j].fresh
    BY <1>3 DEF Heard
  <2>2. j # 1
    BY <1>3, <2>1
  <2>3. j - 1 \in DOMAIN mail'[t] /\ mail'[t][j - 1] = mail[t][j]
    BY <1>1, <2>2
  <2>. QED
    BY <2>1, <2>3 DEF Heard
<1>4. ASSUME ~mail[t][1].fresh, InOrder(t), doc[t].loaded PROVE Heard(t)'
  <2>1. PICK j \in DOMAIN mail[t] : 1 < j /\ mail[t][j].type = "READY" /\ mail[t][j].fresh
    BY <1>1, <1>4 DEF InOrder
  <2>2. j # 1
    BY <2>1
  <2>3. j - 1 \in DOMAIN mail'[t] /\ mail'[t][j - 1] = mail[t][j]
    BY <1>1, <2>2
  <2>. QED
    BY <2>1, <2>3 DEF Heard
<1>. QED
  BY <1>2, <1>3, <1>4

LEMMA StartsMeet ==
    ASSUME TypeInv, OverlaysFit, PinsFit, NEW c \in Calls, NEW k, NEW fs, Comes(c, k, fs)
    PROVE  Meets(c, k, fs)
<1>1. /\ call[c].pc = "idle" \/ (call[c].pc = "saved" /\ call[c].op = "sync all" /\ k.op = "sync all")
      /\ k.op = "ready" \/ fs = frames
  <2>1. At(c, "saved") => call[c].op = "sync all"
    BY DEF At, TypeInv, CallsTyped, OpAt
  <2>. QED
    BY <2>1 DEF Comes, At
<1>2. CASE UNCHANGED mail /\ k.op # "ready" /\ (k.op = "updated" \/ UNCHANGED pending)
  <2>1. \A u \in Tabs \ {k.tab} : u \in pending' <=> u \in pending
    BY <1>2 DEF Comes
  <2>2. k.op = "sync all" => UNCHANGED pending
    BY <1>2
  <2>3. k.tab \in Tabs =>
          /\ doc'[k.tab].loaded = doc[k.tab].loaded => (InOrder(k.tab) => InOrder(k.tab)')
          /\ Heard(k.tab) => Heard(k.tab)'
    BY <1>2 DEF InOrder, Heard
  <2>. QED
    BY <1>1, <1>2, <2>1, <2>2, <2>3 DEF Meets
<1>3. ASSUME NEW t \in Tabs, t = k.tab, Hears(t), UNCHANGED pending,
             \/ k.op = "stop" /\ mail[t][1].type = "STOP"
             \/ /\ k.op = "ready" /\ mail[t][1].type = "READY" /\ k.page = mail[t][1].page
                /\ k.fresh = mail[t][1].fresh /\ fs = [frames EXCEPT ![t] = k.page]
      PROVE  Meets(c, k, fs)
  <2>1. /\ doc'[t].loaded = doc[t].loaded /\ InOrder(t) => InOrder(t)'
        /\ mail[t][1].type = "STOP" => (Heard(t) => Heard(t)')
        /\ ~mail[t][1].fresh /\ InOrder(t) /\ doc[t].loaded => Heard(t)'
    BY <1>3, TailKeeps
  <2>2. 1 \in DOMAIN mail[t] /\ \A u \in Tabs \ {t} : mail'[u] = mail[u]
    BY <1>3, TailIs DEF TypeInv
  <2>3. CASE k.op = "stop"
    BY <1>1, <1>3, <2>1, <2>2, <2>3 DEF Meets
  <2>4. CASE k.op = "ready"
    <3>1. fs[t] = k.page /\ \A u \in Tabs \ {t} : fs[u] = frames[u]
      BY <1>3, <2>4 DEF TypeInv, ModesTyped
    <3>2. k.fresh => fs[t] = doc[t].page
      BY <1>3, <2>2, <2>4, <3>1 DEF OverlaysFit, Announced
    <3>3. ~k.fresh => (Annotatable(t) /\ doc[t].loaded => Heard(t)')
      BY <1>3, <2>1, <2>4 DEF PinsFit, Pins
    <3>. QED
      BY <1>1, <1>3, <2>1, <2>2, <2>4, <3>1, <3>2, <3>3 DEF Meets
  <2>. QED
    BY <1>3, <2>3, <2>4
<1>. QED
  BY <1>2, <1>3 DEF Comes

LEMMA RestoreMeets ==
    ASSUME TypeInv, PinsFit, NEW c \in Calls, NEW k, At(c, "restore"), k.op = call[c].op,
           k.tab = call[c].tab, k.fresh = call[c].fresh, UNCHANGED <<pending, mail>>
    PROVE  Meets(c, k, frames)
<1>1. k.op = "ready" /\ k.fresh => Located(k.tab)
  BY DEF PinsFit, Answerable, At
<1>2. k.tab \in Tabs =>
        /\ doc'[k.tab].loaded = doc[k.tab].loaded => (InOrder(k.tab) => InOrder(k.tab)')
        /\ Heard(k.tab) => Heard(k.tab)'
  BY DEF InOrder, Heard
<1>. QED
  BY <1>1, <1>2 DEF Meets, At

\* A call looks at the right tabs, and goes on.
LEMMA FreshRun ==
    ASSUME TypeInv, TypeInv', OverlaysFit, PinsFit, NEW c \in Calls, NEW k,
           NEW set \in SUBSET Tabs, NEW fs \in [Tabs -> Pages \union {None}],
           Meets(c, k, fs), Arrives(c, k), Sound(k), k.op \in RunOps,
           k.todo = {}, k.fresh => k.tab \in Tabs /\ Open(k.tab), Run(c, k, set, fs),
           set = wanted, ~disturbed'
    PROVE  PinsFit'
<1>1. /\ \A d \in Calls \ {c} : call'[d] = call[d] /\ ~At(d, "restore")
      /\ UNCHANGED notes /\ Runs(c, k, set, fs)
  BY RunDoes
<1>2. CASE Stops(c, k, set) /\ k.op \in {"stop", "toggle"} /\ ~Overlaps(c, "stop", k.tab)
  <2>1. PICK t \in Tabs : t = k.tab
    BY <1>2 DEF Sound
  <2>2. /\ wanted' = wanted \ {t} /\ frames' = [frames EXCEPT ![t] = None]
        /\ call'[c].op = "stop" /\ UNCHANGED <<doc, stale>>
    BY <1>2, <2>1 DEF Stops, Is
  <2>3. \A u \in Tabs \ {t} : ~Tells(c, u)
    BY <1>2, <2>1, MeetsElse
  <2>4. /\ \A u \in Tabs \ {t} : mail'[u] = mail[u] /\ (u \in pending' <=> u \in pending)
        /\ InOrder(t) => InOrder(t)'
    BY <2>1, <2>2 DEF Meets
  <2>5. ~Overlaps(c, "stop", t)
    BY <1>2, <2>1
  <2>. QED
    BY <1>1, <2>2, <2>3, <2>4, <2>5, FreshLeaves
<1>3. CASE /\ frames' = fs /\ UNCHANGED <<doc, stale, wanted>> /\ k.op \notin {"updated", "sync all"}
           /\ \/ call'[c] = Idle /\ k.op # "ready"
              \/ \E op \in {"start", "stop all"} : \E pc, todo : Is(c, k, op, pc, todo) /\ k.op # "ready"
              \/ k.op = "ready" /\ Is(c, k, "ready", "answer", {})
  <2>1. LET j == call'[c] IN
          IF k.op = "ready"
            THEN j.op = "ready" /\ j.tab = k.tab /\ j.fresh = k.fresh /\ j.pc \in {"restore", "answer"}
            ELSE j.op # "ready"
    BY <1>3, IdleIs DEF Is
  <2>. QED
    BY <1>1, <1>3, <2>1, FreshKeeps
<1>4. CASE /\ k.op = "updated" /\ Is(c, k, "updated", "inject", {}) /\ frames' = [fs EXCEPT ![k.tab] = None]
           /\ UNCHANGED <<doc, stale, wanted>>
  <2>1. PICK t \in Tabs : t = k.tab
    BY <1>4 DEF Sound
  <2>2. LET j == call'[c] IN j.op = "updated" /\ j.tab = t /\ j.pc \in {"restore", "inject"}
    BY <1>4, <2>1 DEF Is
  <2>3. \A u \in Tabs \ {t} : frames'[u] = fs[u]
    BY <1>4, <2>1
  <2>. QED
    BY <1>1, <1>4, <2>1, <2>2, <2>3, FreshReloads
<1>5. CASE /\ k.op = "sync all" /\ frames' = fs /\ UNCHANGED <<doc, stale, wanted>>
           /\ Is(c, k, "sync all", "sync next", set) \/ (call'[c] = Idle /\ set = {})
  <2>1. LET j == call'[c] IN
          \/ j.op = "sync all" /\ j.pc = "restore"
          \/ j.op = "sync all" /\ j.pc = "sync next" /\ j.todo = wanted
          \/ j = Idle /\ wanted = {}
    BY <1>5 DEF Is
  <2>. QED
    BY <1>1, <1>5, <2>1, FreshSyncsAll
<1>6. CASE k.op = "updated" /\ k.tab \notin set /\ call'[c] = Idle /\ frames' = fs /\ UNCHANGED <<doc, stale, wanted>>
  <2>1. PICK t \in Tabs : t = k.tab
    BY <1>6 DEF Sound
  <2>2. \A u \in Tabs : doc'[u] = doc[u] /\ (Open(u)' <=> Open(u))
    BY <1>6 DEF Open
  <2>3. k.op # "sync all"
    BY <1>6
  <2>. QED
    BY <1>1, <1>6, <2>1, <2>2, <2>3, FreshDeclines
<1>7. CASE k.op = "ready" /\ k.tab \notin set /\ Answer(c, k, FALSE) /\ frames' = fs /\ call'[c] = Idle /\ UNCHANGED wanted
  <2>1. PICK t \in Tabs : t = k.tab
    BY <1>7 DEF Sound
  <2>2. k.fresh \in BOOLEAN
    BY DEF Sound, CallStates
  <2>3. /\ \A u \in Tabs \ {t} : doc'[u] = doc[u]
        /\ doc'[t].page = doc[t].page /\ doc'[t].loaded = doc[t].loaded
        /\ stale' = stale
    BY <1>7, <2>1, <2>2, AnswerDoes DEF TypeInv
  <2>4. \A u \in Tabs : Open(u)' <=> Open(u)
    BY RunOpens
  <2>5. k.op # "sync all"
    BY <1>7
  <2>. QED
    BY <1>1, <1>7, <2>1, <2>3, <2>4, <2>5, FreshDeclines
<1>. QED
  BY <1>1, <1>2, <1>3, <1>4, <1>5, <1>6, <1>7 DEF Runs, Asks, Stops

\* A call comes to restore, and waits.
LEMMA FreshWaits ==
    ASSUME TypeInv, TypeInv', OverlaysFit, PinsFit, NEW c \in Calls, NEW k, NEW fs,
           Meets(c, k, fs), Arrives(c, k), Sound(k), k.fresh => Open(k.tab), Waits(c, k, fs)
    PROVE  PinsFit'
<1>1. /\ \E read : Is(c, k, k.op, "restore", read)
      /\ frames' = fs
      /\ \A d \in Calls \ {c} : call'[d] = call[d]
      /\ UNCHANGED <<doc, notes, stale, wanted>>
  BY DEF Waits
<1>2. CASE k.op \notin {"updated", "sync all"}
  <2>1. LET j == call'[c] IN
          IF k.op = "ready"
            THEN j.op = "ready" /\ j.tab = k.tab /\ j.fresh = k.fresh /\ j.pc \in {"restore", "answer"}
            ELSE j.op # "ready"
    BY <1>1 DEF Is
  <2>. QED
    BY <1>1, <1>2, <2>1, FreshKeeps
<1>3. CASE k.op = "updated"
  <2>1. PICK t \in Tabs : t = k.tab
    BY <1>3 DEF Sound
  <2>2. LET j == call'[c] IN j.op = "updated" /\ j.tab = t /\ j.pc \in {"restore", "inject"}
    BY <1>1, <1>3, <2>1 DEF Is
  <2>. QED
    BY <1>1, <1>3, <2>1, <2>2, FreshReloads
<1>4. CASE k.op = "sync all"
  <2>1. LET j == call'[c] IN j.op = "sync all" /\ j.pc = "restore"
    BY <1>1, <1>4 DEF Is
  <2>. QED
    BY <1>1, <1>4, <2>1, FreshSyncsAll
<1>. QED
  BY <1>2, <1>3, <1>4

LEMMA FreshStarts ==
    ASSUME TypeInv, TypeInv', Kept, OverlaysFit, PinsFit, NEW c \in Calls, Starts(c) \/ Restore(c), ~disturbed'
    PROVE  PinsFit'
<1>1. CASE Starts(c)
  <2>1. PICK k, fs : Comes(c, k, fs) /\ Begin(c, k, fs)
    BY <1>1, StartsDo
  <2>2. /\ Sound(k) /\ k \in CallStates /\ k.op \in RunOps /\ k.todo = {}
        /\ k.fresh => k.tab \in Tabs /\ Open(k.tab)
        /\ fs \in [Tabs -> Pages \union {None}] /\ (At(c, "idle") \/ At(c, "saved"))
        /\ active \in SUBSET Tabs
    BY <2>1 DEF Comes, Sound, TypeInv, ModesTyped
  <2>3. Arrives(c, k) /\ Meets(c, k, fs)
    BY <2>1, StartsArrive, StartsMeet
  <2>4. CASE restored /\ restored' = restored /\ Run(c, k, active, fs)
    <3>1. \A d \in Calls \ {c} : ~At(d, "restore")
      BY <2>2, <2>4, RunDoes
    <3>2. active = wanted
      BY <2>2, <2>4, <3>1 DEF Kept, Restoring, At
    <3>. QED
      BY <2>2, <2>3, <2>4, <3>2, FreshRun
  <2>. QED
    BY <2>1, <2>2, <2>3, <2>4, FreshWaits, BeginDoes
<1>2. CASE Restore(c)
  <2>1. PICK k : k = [call[c] EXCEPT !.todo = {}]
    OBVIOUS
  <2>2. /\ Run(c, k, Restored(c), frames) /\ Restored(c) \in SUBSET Tabs
        /\ Sound(k) /\ k.op \in RunOps /\ k.todo = {} /\ k.op = call[c].op /\ k.tab = call[c].tab
        /\ k.page = call[c].page /\ k.fresh = call[c].fresh
        /\ k.fresh => k.tab \in Tabs /\ Open(k.tab)
        /\ At(c, "restore") /\ UNCHANGED <<pending, mail>>
    BY <1>2, <2>1, RestoreDoes
  <2>3. frames \in [Tabs -> Pages \union {None}]
    BY DEF TypeInv, ModesTyped
  <2>4. Restored(c) = wanted
    BY <2>2 DEF Kept, Restoring, Restored
  <2>5. Arrives(c, k) /\ Meets(c, k, frames)
    BY <2>2, RestoreArrives, RestoreMeets
  <2>. QED
    BY <2>2, <2>3, <2>4, <2>5, FreshRun
<1>. QED
  BY <1>1, <1>2

LEMMA PinsNext ==
    ASSUME TypeInv, KeptInv, OverlayInv, PinsInv, [Next]_vars PROVE PinsInv'
<1> SUFFICES ASSUME ~disturbed' PROVE PinsFit'
  BY DEF PinsInv
<1>1. Kept /\ OverlaysFit /\ PinsFit /\ TypeInv'
  BY StaysDisturbed, NextTyped DEF KeptInv, OverlayInv, PinsInv
<1>2. CASE UNCHANGED vars
  <2>1. UNCHANGED <<frames, notes, doc, pending, mail, call, wanted, stale>>
    BY <1>2 DEF vars, worker, chrome, ghosts
  <2>2. ASSUME NEW t PROVE Located(t)' <=> Located(t)
    BY <2>1 DEF Located, Heard, Reloading, OfTab, At
  <2>3. ASSUME NEW t PROVE Telling(t)' <=> Telling(t)
    BY <2>1 DEF Telling, Heard, Reloading, OfTab, At
  <2>4. ASSUME NEW t \in Tabs, Annotatable(t)' PROVE Pins(t)'
    BY <1>1, <2>1, <2>2, <2>3, <2>4 DEF PinsFit, Pins, InOrder, Annotatable, Open, NotesOn
  <2>5. ASSUME NEW c \in Calls PROVE Answerable(c)'
    BY <1>1, <2>1, <2>2 DEF PinsFit, Answerable
  <2>. QED
    BY <2>4, <2>5 DEF PinsFit
<1>3. ASSUME NEW c \in Calls, Events(c) PROVE PinsFit'
  BY <1>1, <1>3, FreshStarts, FreshAgentEdits, FreshLocates DEF Events, Starts
<1>4. ASSUME NEW t \in Tabs, PageEvents(t) \/ onEscape(t) PROVE PinsFit'
  BY <1>1, <1>4, FreshPage, FreshEdits, FreshNavigates, FreshRemoved DEF PageEvents
<1>5. ASSUME NEW c \in Calls, Proceeds(c) PROVE PinsFit'
  BY <1>1, <1>5, FreshStarts, FreshGets, FreshInjects, FreshSetsOn, FreshSetsOff, FreshStopsNext, FreshSyncs,
     FreshSyncsNext, FreshAnswers DEF Proceeds, Starts
<1>6. CASE WorkerDies
  BY <1>1, <1>6, FreshDies
<1>. QED
  BY <1>2, <1>3, <1>4, <1>5, <1>6 DEF Next

LEMMA PinsIsInvariant ==
    Spec => []PinsInv
<1>1. Init => PinsInv
  <2> SUFFICES ASSUME Init PROVE PinsFit
    BY DEF PinsInv
  <2>1. \A c \in Calls : Answerable(c)
    BY IdleIs DEF Init, Answerable
  <2>2. \A t \in Tabs : doc[t] = Blank(Home) /\ t \notin wanted
    BY DEF Init
  <2>3. \A t \in Tabs : ~doc[t].loaded
    BY <2>2 DEF Blank
  <2>. QED
    BY <2>1, <2>2, <2>3 DEF PinsFit, Pins, InOrder
<1>. QED
  BY <1>1, TypeIsInvariant, KeptIsInvariant, OverlayIsInvariant, PinsNext, PTL DEF Spec

\* When nothing is under way, the pins of every tab in the mode show the notes of its
\* page as they are in the store: whatever the agent and the pages have edited, synced
\* and answered at once (syncAll, sync and handlePageMessage of mode.js), and whatever
\* has been navigated.  A tab that nobody tells of a change is left out.
THEOREM PinsAreFresh ==
    Spec => []PinsFresh
<1>1. TypeInv /\ KeptInv /\ OverlayInv /\ PinsInv => PinsFresh
  <2> SUFFICES ASSUME TypeInv, KeptInv, OverlayInv, PinsInv, ~disturbed, Quiet,
                      NEW t \in Shown \ (torn \union stale), doc[t].mode
               PROVE  doc[t].pins = NotesOn(doc[t].page)
    BY DEF PinsFresh
  <2>1. /\ t \in Tabs /\ t \in Shown \ torn /\ t \notin stale /\ Annotatable(t)
    BY DEF Shown, Annotatable
  <2>2. /\ \A c \in Calls : At(c, "idle")
        /\ pending = {} /\ mail[t] = <<>>
    BY <2>1 DEF Quiet
  <2>3. InMode = wanted
    BY <2>2 DEF InMode, KeptInv, Kept, Restoring, At, TypeInv, ModesTyped
  <2>4. t \in wanted
    BY <2>1, <2>3, OverlaysSettle
  <2>5. ~Telling(t)
    <3>1. ~Heard(t) /\ ~Reloading(t)
      BY <2>2 DEF Reloading, Heard, At
    <3>. QED
      BY <2>2, <3>1 DEF Telling, At
  <2>. QED
    BY <2>1, <2>4, <2>5 DEF PinsInv, PinsFit, Pins
<1>. QED
  BY <1>1, TypeIsInvariant, KeptIsInvariant, OverlayIsInvariant, PinsIsInvariant, PTL

=============================================================================
