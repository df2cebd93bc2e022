---------------------------- MODULE TabSessions ----------------------------
(***************************************************************************)
(* The tabs of the extension's sessions (sessions.js, tablimit.js and the  *)
(* tools of tools/tabs.js): each session name owns one Chrome tab group    *)
(* and the tabs in it.  What a session has is in the worker's memory; who  *)
(* made a group is also in chrome.storage; the tabs themselves are         *)
(* Chrome's: the user may close any of them, and any may go to another     *)
(* address by itself, at any time.                                         *)
(*                                                                         *)
(* A call suspends at every await.  A step here is the request a call was  *)
(* about to make, when it changes Chrome or the storage, with all the call *)
(* then reads and decides up to its next such request: other calls run     *)
(* between what a call reads and what it writes on the strength of it.     *)
(* A session has one call at a time (module Hub, SessionMutex).            *)
(*                                                                         *)
(* Chrome does not reuse the ids of tabs and groups; here an id is used    *)
(* again once the worker does not know it, and what the storage says of a  *)
(* group that is gone is dropped: nothing acts on it.  The order of a      *)
(* session's tabs is left out: the one that becomes active when the active *)
(* one goes is any of them.  A host is the sequence of its labels.  An     *)
(* argument of a call is chosen where the code first uses it.              *)
(***************************************************************************)
EXTENDS Naturals, Sequences, SequencesExt, FiniteSets, FiniteSetsExt

CONSTANTS
    Names,         \* session names
    Tabs, Groups,  \* ids
    Hosts,         \* the sites the calls go to
    Limits,        \* domainTabLimits: most tabs per domain
    Custom,        \* a group_title that is not a session name
    None           \* no tab, no group, nobody; null in the code

Blank == <<>>      \* the host of about:blank
NoSession == [groupId |-> None, activeTabId |-> None, tabIds |-> {}]
Nobody == [g \in Groups |-> None]
Idle == [pc |-> "idle", tool |-> None, url |-> Blank, id |-> None,
         groupId |-> None, todo |-> {}, remaining |-> FALSE]

ASSUME TabSessionsAssumption ==
    /\ IsFiniteSet(Tabs)
    /\ None \notin Names \union Tabs \union Groups /\ None # "navigate"
    /\ None \notin Hosts \union {Blank}
    /\ Custom \notin Names
    /\ Blank \notin Hosts
    /\ \A d \in DOMAIN Limits : Len(d) \in Nat \ {0} /\ Limits[d] \in Nat \ {0}

VARIABLES
    sessions,      \* the Map: a record for each name used since the worker started
    ownedGroups,   \* in chrome.storage: who made each group
    url,           \* Chrome: the host each tab is at, None: there is no such tab
    groupOf,       \* Chrome: the group of each tab
    title,         \* Chrome: the title of each group
    call,          \* the call of each session
    owned,         \* the ownedGroups that a call read and is about to save
    maker,         \* ghost: the session that made each group
    disturbed,     \* ghost: was the ownership of a group lost?  By a change
                   \* between a call's read and its save, a worker that died
                   \* before the save, a close_session of the group by its id
                   \* while a tab joined it, or a request to the storage that
                   \* failed.
    strayed        \* ghost: the tabs that have gone elsewhere by themselves since
                   \* a tool last found room where they are

chromeVars == <<url, groupOf, title>>
ghostVars == <<maker, disturbed, strayed>>
vars == <<sessions, ownedGroups, chromeVars, call, owned, ghostVars>>

----------------------------------------------------------------------------
Open(t) == t # None /\ url[t] # None
LiveGroups == {groupOf[t] : t \in {u \in Tabs : Open(u)}} \ {None}
TabsIn(g) == {t \in Tabs : groupOf[t] = g}

getSession(n) == IF n \in DOMAIN sessions THEN sessions[n] ELSE NoSession
SetSession(n, s) ==
    [m \in DOMAIN sessions \union {n} |-> IF m = n THEN s ELSE sessions[m]]

TypeOK ==
    /\ DOMAIN sessions \subseteq Names
    /\ \A n \in DOMAIN sessions :
         sessions[n] \in [groupId : Groups \union {None},
                          activeTabId : Tabs \union {None},
                          tabIds : SUBSET Tabs]
    /\ strayed \subseteq Tabs
    /\ ownedGroups \in [Groups -> Names \union {None}]
    /\ url \in [Tabs -> Hosts \union {Blank, None}]
    /\ groupOf \in [Tabs -> Groups \union {None}]
    /\ \A t \in Tabs : groupOf[t] # None => Open(t)
    /\ title \in [Groups -> Names \union {Custom, None}]
    /\ DOMAIN call = Names
    /\ owned \in [Names -> [Groups -> Names \union {None}] \union {None}]
    /\ \A n \in Names : owned[n] # None => call[n].pc # "idle"

\* The user has any tabs of their own; no group is a session's yet.
Init ==
    /\ sessions = <<>>
    /\ ownedGroups = Nobody
    /\ \E mine \in {{}} \union {{t} : t \in Tabs}, h \in Hosts :
         url = [t \in Tabs |-> IF t \in mine THEN h ELSE None]
    /\ groupOf = [t \in Tabs |-> None]
    /\ title = [g \in Groups |-> None]
    /\ call = [n \in Names |-> Idle]
    /\ owned = [n \in Names |-> None]
    /\ maker = [g \in Groups |-> None]
    /\ disturbed = FALSE /\ strayed = {}

\* An id that nothing but the storage mentions.
FreeTabs ==
    {t \in Tabs : /\ ~Open(t)
                  /\ \A n \in DOMAIN sessions :
                       t \notin sessions[n].tabIds \union {sessions[n].activeTabId}
                  /\ \A n \in Names : t # call[n].id /\ t \notin call[n].todo}
FreeGroups ==
    {g \in Groups \ LiveGroups :
                  /\ \A n \in DOMAIN sessions : g # sessions[n].groupId
                  /\ \A n \in Names : /\ g # call[n].groupId
                                      /\ g \notin call[n].todo
                                      /\ owned[n] = None}

----------------------------------------------------------------------------
(* Per-domain tab limits (tablimit.js)                                     *)

domainMatches(host, domain) == IsSuffix(domain, host)

\* Slip: the least specific of the rules that apply.
rulesToCheckWidest(host) ==
    LET matching == {d \in DOMAIN Limits : domainMatches(host, d)}
    IN  {d \in matching : \A e \in matching : Len(d) <= Len(e)}

\* The most specific of the rules that apply to a host.
rulesToCheck(host) ==
    LET matching == {d \in DOMAIN Limits : domainMatches(host, d)}
    IN  {d \in matching : \A e \in matching : Len(e) <= Len(d)}

\* A request to the storage that fails has nobody own a group.
loadOwnedGroups(read) ==
    /\ read \in {ownedGroups, Nobody}
    /\ disturbed' = (disturbed \/ read # ownedGroups)
    /\ UNCHANGED <<ownedGroups, maker>>

\* Every open tab that a session has, in memory or by a group of its own.
collectManagedTabIds(read) ==
    LET own(g) == \/ read[g] # None
                  \/ title[g] \in DOMAIN sessions
                  \/ \E n \in DOMAIN sessions : sessions[n].groupId = g
    IN  {t \in Tabs : /\ Open(t)
                      /\ \/ \E n \in DOMAIN sessions : t \in sessions[n].tabIds
                         \/ groupOf[t] # None /\ own(groupOf[t])}

assertDomainTabLimits(host, tabs) ==
    \A d \in rulesToCheck(host) :
        Quantify(tabs, LAMBDA t : domainMatches(url[t], d)) < Limits[d]

\* Is there room for one more tab at the host?  Then no tab there is strayed.
ensureDomainTabLimits(host, excluded, room) ==
    \E read \in {ownedGroups, Nobody} :
        LET seen == collectManagedTabIds(read) \ {excluded} IN
          /\ loadOwnedGroups(read)
          /\ room = assertDomainTabLimits(host, seen)
          /\ strayed' = {t \in strayed : \/ ~room
                                        \/ t \notin seen \union {excluded}
                                        \/ rulesToCheck(url[t]) # rulesToCheck(host)}

HasLimits == DOMAIN Limits # {}

----------------------------------------------------------------------------
(* Chrome, and the worker's onRemoved listener                             *)

\* Slip: the listener forgets the tab only in the sessions' sets.
handleTabRemovedKeepingActive(t) ==
    \E s \in {[n \in DOMAIN sessions |->
                 [sessions[n] EXCEPT !.tabIds = @ \ {t}]]} : sessions' = s

\* Every session forgets the tab; one that had it active takes another.
handleTabRemoved(t) ==
    \E pick \in [DOMAIN sessions -> Tabs \union {None}] :
        /\ \A n \in DOMAIN sessions :
             LET rest == sessions[n].tabIds \ {t} IN
               IF t \in sessions[n].tabIds /\ sessions[n].activeTabId = t
                 THEN IF rest = {} THEN pick[n] = None ELSE pick[n] \in rest
                 ELSE pick[n] = sessions[n].activeTabId
        /\ sessions' = [n \in DOMAIN sessions |->
                          [sessions[n] EXCEPT !.tabIds = @ \ {t},
                                              !.activeTabId = pick[n]]]

\* A tab goes, and its group with its last tab.
CloseTab(t) ==
    LET kept(f) == [g \in Groups |-> IF TabsIn(g) \subseteq {t} THEN None ELSE f[g]] IN
      /\ url' = [url EXCEPT ![t] = None]
      /\ groupOf' = [groupOf EXCEPT ![t] = None]
      /\ title' = kept(title)
      /\ ownedGroups' = kept(ownedGroups)
      /\ maker' = kept(maker)
      /\ handleTabRemoved(t)
      /\ strayed' = strayed \ {t}
      /\ UNCHANGED disturbed

UserCloses(t) ==
    /\ Open(t)
    /\ CloseTab(t)
    /\ UNCHANGED <<call, owned>>

\* A click, a script, a redirect or the user takes a tab elsewhere; no limit is
\* looked at.
Wanders(t) ==
    /\ Open(t)
    /\ \E host \in Hosts \ {url[t]} : url' = [url EXCEPT ![t] = host]
    /\ strayed' = strayed \union {t}
    /\ UNCHANGED <<sessions, ownedGroups, groupOf, title, call, owned, maker, disturbed>>

\* The browser suspends or loses the worker: its memory and calls are gone.  A
\* group that was being made is left as it is.
WorkerRestarts ==
    /\ sessions' = <<>>
    /\ call' = [n \in Names |-> Idle]
    /\ owned' = [n \in Names |-> None]
    /\ disturbed' = \/ disturbed
                    \/ \E n \in Names :
                         /\ call[n].pc \in {"entitle", "record"}
                         /\ ownedGroups[call[n].groupId] # n
    /\ UNCHANGED <<ownedGroups, chromeVars, maker, strayed>>

----------------------------------------------------------------------------
(* The life of a call.  Go(n, c): it suspends as c; owned[n] is what it    *)
(* has read of the ownership, if it is about to save it.                   *)

\* Slip: what was read of the ownership is kept for the next call.
GoWithRead(n, c) == call' = [call EXCEPT ![n] = c] /\ UNCHANGED owned

Go(n, c) ==
    /\ call' = [call EXCEPT ![n] = c]
    /\ owned' = [owned EXCEPT ![n] = None]

GoSave(n, c) ==
    /\ call' = [call EXCEPT ![n] = c]
    /\ \E read \in {ownedGroups', Nobody} : owned' = [owned EXCEPT ![n] = read]

\* The call ends, whether it succeeds or throws.
Ends(n) == Go(n, Idle)

At(n, pc) == call[n].pc = pc

\* Slip: the lock is left out.
NoLock == TRUE

\* withOptionalTabLimitLock: with limits, what navigate, find_tab and activate_tab
\* do is done under the lock (tabMutationTail), which a navigate holds until its
\* tab is sent to its address.  The others do not suspend under it.
MayEnter == HasLimits => \A m \in Names : call[m].tool # "navigate"

\* saveOwnedGroups, of what rememberOwnedGroup and the like made of the read.  A save
\* that fails is ignored.
SaveOwned(n, new, wrong) ==
    /\ \/ /\ ownedGroups' = [g \in Groups |-> IF g \in LiveGroups THEN new[g] ELSE None]
          /\ disturbed' = \/ disturbed \/ wrong
                          \/ \E g \in LiveGroups : ownedGroups[g] # owned[n][g]
       \/ UNCHANGED ownedGroups /\ disturbed' = TRUE
    /\ UNCHANGED <<maker, strayed>>

StillSaved == UNCHANGED <<ownedGroups, ghostVars>>

----------------------------------------------------------------------------
(* reconcile                                                               *)

\* Slip: a group is known by its title alone.
groupsTitled(n, read) == {g \in LiveGroups : title[g] = n}

\* The groups of a session are those Chrome has with its title, and those the
\* storage says it made.
groupsOf(n, read) == {g \in LiveGroups : title[g] = n \/ read[g] = n}

\* What comes after reconcile.
Reconciled(n, c, s) ==
    CASE c.tool = "navigate" -> Go(n, [c EXCEPT !.pc = "acquire", !.groupId = None])
      [] c.tool = "close_session" ->
           Go(n, [c EXCEPT !.pc = "close all", !.groupId = None, !.todo = s.tabIds])
      [] OTHER -> Ends(n)

reconcile(n, c) ==
    \E read \in {ownedGroups, Nobody} :
    LET s == getSession(n)
        groups == groupsOf(n, read) IN
      /\ loadOwnedGroups(read)
      /\ \/ /\ groups = {}
            /\ LET kept == IF s.groupId \in LiveGroups THEN s.groupId ELSE None IN
                 sessions' = SetSession(n, [s EXCEPT !.groupId = kept])
            /\ Reconciled(n, c, s)
         \/ \E g \in groups :
              /\ sessions' = SetSession(n, [s EXCEPT !.groupId = g])
              /\ GoSave(n, [c EXCEPT !.pc = "adopt", !.groupId = g, !.todo = groups \ {g}])
      /\ UNCHANGED <<chromeVars, strayed>>

\* rememberOwnedGroup saves, and the group's tabs join the session.
Adopt(n) ==
    /\ At(n, "adopt")
    /\ SaveOwned(n, [owned[n] EXCEPT ![call[n].groupId] = n], FALSE)
    /\ \E a \in Tabs \union {None} :
         LET s == getSession(n)
             all == s.tabIds \union TabsIn(call[n].groupId)
             last == call[n].todo = {}
             new == [s EXCEPT !.tabIds = all, !.activeTabId = a] IN
           /\ IF last /\ ~Open(s.activeTabId)
                THEN IF all = {} THEN a = None ELSE a \in all
                ELSE a = s.activeTabId
           /\ sessions' = SetSession(n, new)
           /\ \/ last /\ Reconciled(n, call[n], new)
              \/ \E g \in call[n].todo :
                   GoSave(n, [call[n] EXCEPT !.groupId = g, !.todo = @ \ {g}])
    /\ UNCHANGED chromeVars

----------------------------------------------------------------------------
(* navigate: acquireTabForNavigation, and the tab is sent to its address   *)

\* The tab of the session, another in place of it, or a new one.
Acquire(n) ==
    /\ At(n, "acquire")
    /\ \E host \in Hosts, room \in BOOLEAN :
         LET c == [call[n] EXCEPT !.url = host]
             active == getSession(n).activeTabId IN
           /\ ensureDomainTabLimits(host, IF Open(active) THEN active ELSE None, room)
           /\ \/ ~room /\ Ends(n)
              \/ room /\ ~Open(active) /\ Go(n, [c EXCEPT !.pc = "create"])
              \/ room /\ Open(active) /\ Go(n, [c EXCEPT !.pc = "go", !.id = active])
              \/ room /\ Open(active) /\ Go(n, [c EXCEPT !.pc = "replace"])  \* newTab
    /\ UNCHANGED <<sessions, chromeVars>>

\* closeActiveTab closes the tab that is active by now.  Chrome may refuse to.
closeActiveTab(n, then) ==
    LET t == getSession(n).activeTabId IN
      \/ /\ t = None \/ Open(t)
         /\ sessions' = SetSession(n, getSession(n))
         /\ Ends(n)
         /\ UNCHANGED chromeVars /\ StillSaved
      \/ /\ t # None
         /\ \/ Open(t) /\ CloseTab(t)
            \/ ~Open(t) /\ handleTabRemoved(t) /\ UNCHANGED chromeVars /\ StillSaved
         /\ Go(n, then)

\* newTab: the session's tab is replaced.
Replace(n) ==
    /\ At(n, "replace")
    /\ closeActiveTab(n, [call[n] EXCEPT !.pc = "create"])

Create(n) ==
    /\ At(n, "create")
    /\ \E t \in FreeTabs, s \in {getSession(n)} :
         /\ url' = [url EXCEPT ![t] = Blank]
         /\ sessions' = SetSession(n, [s EXCEPT !.tabIds = @ \union {t},
                                                !.activeTabId = t])
         /\ Go(n, [call[n] EXCEPT !.pc = "group", !.id = t])
    /\ UNCHANGED <<groupOf, title>> /\ StillSaved

\* groupTab: the tab joins the session's group, or starts it.  A failure (the tab
\* is gone, or the group, with the last tab it had) is ignored.
Group(n) ==
    /\ At(n, "group")
    /\ LET s == getSession(n)
           t == call[n].id
           join(g, then) ==
              /\ groupOf' = [groupOf EXCEPT ![t] = g]
              /\ UNCHANGED url
              /\ GoSave(n, [call[n] EXCEPT !.pc = then, !.groupId = g]) IN
         \/ /\ Open(t) /\ s.groupId \in LiveGroups
            /\ StillSaved
            /\ join(s.groupId, "record")
            /\ UNCHANGED <<sessions, title>>
         \/ /\ Open(t) /\ s.groupId = None
            /\ \E g \in FreeGroups :
                 /\ UNCHANGED ownedGroups
                 /\ join(g, "entitle")
                 /\ sessions' = SetSession(n, [s EXCEPT !.groupId = g])
                 /\ maker' = [maker EXCEPT ![g] = n]
                 /\ UNCHANGED <<title, disturbed, strayed>>
         \/ /\ ~Open(t) \/ s.groupId \notin LiveGroups \union {None}
            /\ Go(n, [call[n] EXCEPT !.pc = "go"])
            /\ UNCHANGED <<sessions, chromeVars>> /\ StillSaved

Entitle(n) ==
    /\ At(n, "entitle")
    /\ LET g == call[n].groupId IN
         \/ /\ g \in LiveGroups
            /\ title' = [title EXCEPT ![g] = n]
            /\ StillSaved
            /\ GoSave(n, [call[n] EXCEPT !.pc = "record"])
         \/ /\ g \notin LiveGroups
            /\ Go(n, [call[n] EXCEPT !.pc = "go", !.groupId = None])
            /\ StillSaved /\ UNCHANGED title
    /\ UNCHANGED <<sessions, url, groupOf>>

\* rememberOwnedGroup, of groupTab and, when the tab has its address, of
\* setGroupTitle.
Record(n) ==
    /\ At(n, "record")
    /\ SaveOwned(n, [owned[n] EXCEPT ![call[n].groupId] = n], FALSE)
    /\ \/ call[n].id # None /\ Go(n, [call[n] EXCEPT !.pc = "go", !.groupId = None])
       \/ call[n].id = None /\ Ends(n)
    /\ UNCHANGED <<sessions, chromeVars>>

\* chrome.tabs.update fails if the tab is gone.
Update(n) ==
    /\ At(n, "go")
    /\ \/ /\ Open(call[n].id)
          /\ url' = [url EXCEPT ![call[n].id] = call[n].url]
          /\ strayed' = strayed \ {call[n].id}
          /\ Ends(n) \/ Go(n, [Idle EXCEPT !.pc = "retitle", !.id = call[n].id])
       \/ ~Open(call[n].id) /\ Ends(n) /\ UNCHANGED <<url, strayed>>
    /\ UNCHANGED <<sessions, groupOf, title, ownedGroups, maker, disturbed>>

\* It fails if the tab is gone.
waitForComplete(n) == Open(call[n].id)

\* setGroupTitle, which ignores a failure.
Retitle(n) ==
    /\ At(n, "retitle")
    /\ LET g == getSession(n).groupId IN
         \/ /\ waitForComplete(n) /\ g \in LiveGroups
            /\ title' = [title EXCEPT ![g] = Custom]
            /\ StillSaved
            /\ GoSave(n, [Idle EXCEPT !.pc = "record", !.groupId = g])
         \/ /\ ~waitForComplete(n) \/ g \notin LiveGroups
            /\ Ends(n)
            /\ StillSaved /\ UNCHANGED title
    /\ UNCHANGED <<sessions, url, groupOf>>

----------------------------------------------------------------------------
(* find_tab, under the lock                                                *)

\* Slip: only the active tab changes.
bindTabActive(n, t) ==
    sessions' = SetSession(n, [getSession(n) EXCEPT !.activeTabId = t])

bindTab(n, t) ==
    sessions' = SetSession(n, [getSession(n) EXCEPT !.tabIds = @ \union {t},
                                                    !.activeTabId = t])

\* find_tab goes by the address the tab had when it was found; by now it may be
\* elsewhere.
Bind(n) ==
    /\ At(n, "bind") /\ MayEnter
    /\ \E room \in BOOLEAN :
         /\ ensureDomainTabLimits(call[n].url, call[n].id, room)
         /\ IF room THEN bindTab(n, call[n].id) ELSE UNCHANGED sessions
    /\ Ends(n)
    /\ UNCHANGED chromeVars

----------------------------------------------------------------------------
(* close_session                                                           *)

\* closeSession: one tab after another; a tab that Chrome refuses to close stays
\* in the session.
CloseNext(n) ==
    /\ At(n, "close all") /\ call[n].todo # {}
    /\ \E t \in call[n].todo :
         /\ Go(n, [call[n] EXCEPT !.todo = @ \ {t}])
         /\ \/ Open(t) /\ CloseTab(t)
            \/ Open(t) /\ UNCHANGED <<sessions, chromeVars>> /\ StillSaved
            \/ /\ ~Open(t)
               /\ sessions' = SetSession(n, [getSession(n) EXCEPT !.tabIds = @ \ {t}])
               /\ UNCHANGED chromeVars /\ StillSaved

\* Slip: the session is forgotten although Chrome kept a tab of it.
AllClosedAnyway(n) == TRUE

AllClosed(n) == getSession(n).tabIds = {}

Closed(n) ==
    /\ At(n, "close all") /\ call[n].todo = {}
    /\ \/ /\ AllClosed(n)
          /\ sessions' = [m \in DOMAIN sessions \ {n} |-> sessions[m]]
          /\ StillSaved
          /\ GoSave(n, [Idle EXCEPT !.pc = "forget session"])
       \/ /\ ~AllClosed(n)
          /\ LET s == getSession(n) IN
               \E a \in IF Open(s.activeTabId) THEN {s.activeTabId} ELSE s.tabIds :
                 sessions' = SetSession(n, [s EXCEPT !.activeTabId = a])
          /\ Ends(n)
          /\ StillSaved
    /\ UNCHANGED chromeVars

ForgetSession(n) ==
    /\ At(n, "forget session")
    /\ SaveOwned(n, [g \in Groups |-> IF owned[n][g] = n THEN None ELSE owned[n][g]], FALSE)
    /\ Ends(n)
    /\ UNCHANGED <<sessions, chromeVars>>

\* closeGroup
CloseGroupNext(n) ==
    /\ At(n, "close group") /\ call[n].todo # {}
    /\ \E t \in call[n].todo :
         \/ Open(t) /\ CloseTab(t) /\ Go(n, [call[n] EXCEPT !.todo = @ \ {t}])
         \/ /\ Go(n, [call[n] EXCEPT !.todo = @ \ {t}, !.remaining = @ \/ Open(t)])
            /\ UNCHANGED <<sessions, chromeVars>> /\ StillSaved

GroupClosed(n) ==
    /\ At(n, "close group") /\ call[n].todo = {}
    /\ StillSaved
    /\ \/ call[n].remaining /\ Ends(n)
       \/ ~call[n].remaining /\ GoSave(n, [call[n] EXCEPT !.pc = "forget group"])
    /\ UNCHANGED <<sessions, chromeVars>>

ForgetGroup(n) ==
    /\ At(n, "forget group")
    /\ SaveOwned(n, [owned[n] EXCEPT ![call[n].groupId] = None],
                 call[n].groupId \in LiveGroups)
    /\ Ends(n)
    /\ UNCHANGED <<sessions, chromeVars>>

----------------------------------------------------------------------------
(* The tools                                                               *)

\* list_sessions lists every other live group as orphaned.
trackedGroupIds ==
    {sessions[n].groupId : n \in DOMAIN sessions} \union {g \in Groups : ownedGroups[g] # None}

navigate(n) ==
    /\ MayEnter
    /\ reconcile(n, [Idle EXCEPT !.tool = "navigate"])

\* The tab and its address are chosen before the lock is asked for.
find_tab(n) ==
    /\ \E t \in Tabs :
         /\ Open(t) /\ url[t] # Blank
         /\ Go(n, [Idle EXCEPT !.pc = "bind", !.id = t, !.url = url[t]])
    /\ UNCHANGED <<sessions, chromeVars>> /\ StillSaved

\* The address counts that the tab has under the lock.
activate_tab(n) ==
    /\ MayEnter
    /\ \E t \in Tabs, room \in BOOLEAN :
         \/ /\ Open(t)
            /\ ensureDomainTabLimits(url[t], t, room)
            /\ IF room THEN bindTab(n, t) ELSE UNCHANGED sessions
         \/ ~Open(t) /\ UNCHANGED sessions /\ StillSaved
    /\ Ends(n)
    /\ UNCHANGED chromeVars

close_tab(n) == closeActiveTab(n, Idle)

list_tabs(n) == reconcile(n, Idle)

close_session(n) ==
    \/ reconcile(n, [Idle EXCEPT !.tool = "close_session"])
    \/ /\ \E g \in LiveGroups :
            Go(n, [Idle EXCEPT !.pc = "close group", !.groupId = g, !.todo = TabsIn(g)])
       /\ UNCHANGED <<sessions, chromeVars>> /\ StillSaved

Begins(n) ==
    /\ At(n, "idle")
    /\ \/ navigate(n) \/ find_tab(n) \/ activate_tab(n)
       \/ close_tab(n) \/ list_tabs(n) \/ close_session(n)

Proceeds(n) ==
    \/ Adopt(n) \/ Acquire(n) \/ Replace(n) \/ Create(n)
    \/ Group(n) \/ Entitle(n) \/ Record(n) \/ Update(n) \/ Retitle(n)
    \/ Bind(n)
    \/ CloseNext(n) \/ Closed(n) \/ ForgetSession(n)
    \/ CloseGroupNext(n) \/ GroupClosed(n) \/ ForgetGroup(n)

Next ==
    \/ \E n \in Names : Begins(n) \/ Proceeds(n)
    \/ \E t \in Tabs : UserCloses(t) \/ Wanders(t)
    \/ WorkerRestarts

Spec == Init /\ [][Next]_vars

----------------------------------------------------------------------------
(* Properties                                                              *)

\* The tools never take the sessions over the limit of a domain: among the tabs they
\* have on it (that no more specific rule covers), those that came through a tool or
\* were there when a tool last found room are no more than the limit, whatever calls
\* run at once, wherever tabs go by themselves in between, while nobody's ownership
\* of a group is lost.
TabLimit ==
    ~disturbed =>
        \A d \in DOMAIN Limits :
            Quantify((UNION {getSession(n).tabIds : n \in Names}) \ strayed,
                     LAMBDA t : Open(t) /\ rulesToCheck(url[t]) = {d}) <= Limits[d]

\* "Matching live groups back to the session ... makes the bridge self-healing": a
\* group that a session made is found by that session after any restart, under
\* any title and whatever Chrome refused to close, and is not listed as orphaned.
GroupsFound ==
    ~disturbed =>
        \A g \in LiveGroups :
            /\ g \in groupsOf(maker[g], ownedGroups) \/ call[maker[g]].pc = "entitle"
            /\ g \in trackedGroupIds

\* A session that close_session forgets has no group left in the browser.
ClosedIsGone ==
    [][ \A n \in Names :
          Closed(n) /\ n \notin DOMAIN sessions' /\ ~disturbed
              => \A g \in LiveGroups : maker[g] # n ]_vars

\* A session has an active tab as long as it has tabs, and it is one of them,
\* unless a close of the session is on its way, or the session is adopting groups
\* it could only have lost before.
ActiveIsTracked ==
    \A n \in DOMAIN sessions :
        ~At(n, "close all") /\ ~(disturbed /\ At(n, "adopt")) =>
            IF sessions[n].tabIds = {} THEN sessions[n].activeTabId = None
            ELSE sessions[n].activeTabId \in sessions[n].tabIds
=============================================================================
