-------------------------- MODULE TabSessionsProofs --------------------------
(***************************************************************************)
(* Theorems about the tabs of the sessions, for every set of sessions,     *)
(* tabs and groups and every table of limits.                              *)
(***************************************************************************)
EXTENDS TabSessions, FiniteSetTheorems, TLAPS

----------------------------------------------------------------------------
(* The types, with what a call has at each place                           *)

SessionStates == [groupId : Groups \union {None}, activeTabId : Tabs \union {None},
                  tabIds : SUBSET Tabs]
Owners == [Groups -> Names \union {None}]

Pcs == {"idle", "adopt", "acquire", "replace", "create", "group", "entitle", "record",
        "go", "retitle", "bind", "close all", "forget session", "close group", "forget group"}

CallStates == [pc : Pcs, tool : {None, "navigate", "close_session"},
               url : Hosts \union {Blank}, id : Tabs \union {None},
               groupId : Groups \union {None}, todo : SUBSET (Tabs \union Groups),
               remaining : BOOLEAN]

Saving == {"adopt", "entitle", "record", "forget session", "forget group"}

\* What a call has when it goes on.
Ready(c) ==
    /\ c \in CallStates
    /\ c.pc \in {"adopt", "entitle", "record", "close group", "forget group"} => c.groupId \in Groups
    /\ c.pc = "adopt" => c.todo \subseteq Groups /\ c.id = None
    /\ c.pc \in {"close all", "close group"} => c.todo \subseteq Tabs
    /\ c.pc \in {"group", "entitle", "go", "retitle", "bind"} => c.id \in Tabs
    /\ c.pc \in {"replace", "create", "group", "entitle", "go", "bind"} => c.url \in Hosts
    /\ c.pc = "record" /\ c.id # None => c.url \in Hosts
    /\ c.pc \in {"acquire", "replace", "create", "group", "entitle", "go"} => c.tool = "navigate"
    /\ c.pc = "record" => (c.id # None <=> c.tool = "navigate")
    /\ c.pc \in {"idle", "retitle", "bind", "close all", "forget session", "close group", "forget group"} => c.tool # "navigate"

SessionsTyped ==
    /\ DOMAIN sessions \subseteq Names
    /\ sessions \in [DOMAIN sessions -> SessionStates]

ChromeTyped ==
    /\ url \in [Tabs -> Hosts \union {Blank, None}]
    /\ groupOf \in [Tabs -> Groups \union {None}]
    /\ \A t \in Tabs : groupOf[t] # None => Open(t)
    /\ title \in [Groups -> Names \union {Custom, None}]
    /\ ownedGroups \in Owners
    /\ maker \in Owners

CallsTyped ==
    /\ call \in [Names -> CallStates]
    /\ \A n \in Names : Ready(call[n])
    /\ owned \in [Names -> Owners \union {None}]
    /\ \A n \in Names : /\ call[n].pc \in Saving => owned[n] \in Owners
                        /\ call[n].pc \notin Saving => owned[n] = None

TypeInv == SessionsTyped /\ ChromeTyped /\ CallsTyped /\ disturbed \in BOOLEAN

----------------------------------------------------------------------------
(* The active tab                                                          *)

Tracked(s) == IF s.tabIds = {} THEN s.activeTabId = None ELSE s.activeTabId \in s.tabIds

\* An active tab that is still there is one of the session's, also while a close of
\* the session or an adoption of several groups is on its way.
Active(n) ==
    LET s == getSession(n) IN
      /\ Open(s.activeTabId) => s.activeTabId \in s.tabIds
      /\ ~At(n, "close all") /\ ~(disturbed /\ At(n, "adopt")) => Tracked(s)

ActiveInv == \A n \in Names : Active(n)

----------------------------------------------------------------------------
(* Whose a group is                                                        *)

\* Nothing is kept of a group that is gone; a tab that is about to be grouped is in
\* none, and no other call is about to group it.
Gone ==
    /\ \A g \in Groups \ LiveGroups : title[g] = None /\ ownedGroups[g] = None /\ maker[g] = None
    /\ \A n \in Names : At(n, "group") => groupOf[call[n].id] = None
    /\ \A m, n \in Names : At(m, "group") /\ At(n, "group") /\ call[m].id = call[n].id => m = n

Made(n) == {g \in LiveGroups : maker[g] = n}

\* A group is owned by who made it, or its maker is about to say so and has it in
\* its session.
OwnedBy(g, m) ==
    /\ ownedGroups[g] \in {m, None}
    /\ title[g] \in {m, Custom, None}
    /\ ownedGroups[g] = None =>
         /\ At(m, "entitle") \/ (At(m, "record") /\ title[g] = m)
         /\ call[m].groupId = g
         /\ getSession(m).groupId = g

OwnedByMaker == \A g \in LiveGroups : maker[g] \in Names /\ OwnedBy(g, maker[g])

\* The groups a session has in mind are its own.
HasOwn(n) ==
    /\ getSession(n).groupId \in LiveGroups => maker[getSession(n).groupId] = n
    /\ call[n].pc \in {"adopt", "entitle", "record"} /\ call[n].groupId \in LiveGroups
         => maker[call[n].groupId] = n

\* A session that may start a group has none; one that adopts has one; one that
\* closes has all their tabs; and one that is forgotten has none.
Knows(n) ==
    /\ call[n].pc \in {"acquire", "replace", "create", "group"}
         => Made(n) \subseteq {getSession(n).groupId}
    /\ At(n, "adopt") => /\ call[n].todo = {}
                         /\ Made(n) \subseteq {call[n].groupId}
                         /\ getSession(n).groupId = call[n].groupId
    /\ At(n, "close all") => \A g \in Made(n) : TabsIn(g) \subseteq getSession(n).tabIds
    /\ At(n, "forget session") => Made(n) = {}

Mindful(n) == HasOwn(n) /\ Knows(n)

AtMostOne == \A g, h \in LiveGroups : maker[g] = maker[h] => g = h

GroupInv == disturbed \/ (OwnedByMaker /\ AtMostOne /\ \A n \in Names : Mindful(n))

----------------------------------------------------------------------------
(* The limits                                                              *)

\* The tabs that a session has, in memory or by a group.
Managed ==
    {t \in Tabs : /\ Open(t)
                  /\ groupOf[t] # None \/ \E n \in Names : t \in getSession(n).tabIds}

\* Those on a domain, and those of them that count: they have not gone there by
\* themselves since room was last found.
Placed(d) == {t \in Managed : rulesToCheck(url[t]) = {d}}
On(d) == Placed(d) \ strayed

\* A navigate that has seen room for its address, and the tab that it is about to send
\* there or to replace.
Reserves(n) ==
    /\ call[n].tool = "navigate"
    /\ call[n].pc \in {"replace", "create", "group", "entitle", "record", "go"}
Taken(n) ==
    CASE At(n, "replace") -> {getSession(n).activeTabId}
      [] At(n, "create")  -> {}
      [] OTHER            -> {call[n].id}

\* The room that was seen is still there.
RoomInv ==
    \A d \in DOMAIN Limits :
        /\ Cardinality(On(d)) <= Limits[d]
        /\ \A n \in Names : Reserves(n) /\ rulesToCheck(call[n].url) = {d}
                              => Cardinality(On(d) \ Taken(n)) < Limits[d]

LimitInv == disturbed \/ RoomInv

\* The lock: one navigate at a time.
LockInv ==
    HasLimits => \A m, n \in Names : call[m].tool = "navigate" /\ call[n].tool = "navigate" => m = n

\* The tab of a navigate is its session's; one that find_tab found stays at its address
\* unless it is managed or goes elsewhere by itself.
Address(n) ==
    /\ Reserves(n) /\ call[n].pc \notin {"replace", "create"} /\ Open(call[n].id)
         => call[n].id \in getSession(n).tabIds
    /\ At(n, "bind") /\ Open(call[n].id) /\ call[n].id \notin Managed \union strayed
         => url[call[n].id] = call[n].url

AddressInv == \A n \in Names : Address(n)

----------------------------------------------------------------------------
(* What the steps are made of, and the types they keep                     *)

LEMMA IdleReady == Ready(Idle) /\ Idle \in CallStates /\ Idle.pc = "idle" /\ Idle.tool = None
BY TabSessionsAssumption DEF Idle, Ready, CallStates, Pcs, Blank

LEMMA NoSessionState == NoSession \in SessionStates
BY DEF NoSession, SessionStates

LEMMA SessionState ==
    ASSUME SessionsTyped, NEW n \in Names PROVE getSession(n) \in SessionStates
BY NoSessionState DEF getSession, SessionsTyped

LEMMA SetSessionIs ==
    ASSUME SessionsTyped, NEW n \in Names, NEW s \in SessionStates, sessions' = SetSession(n, s)
    PROVE  /\ SessionsTyped'
           /\ DOMAIN sessions' = DOMAIN sessions \union {n}
           /\ sessions'[n] = s
           /\ \A m \in DOMAIN sessions \ {n} : sessions'[m] = sessions[m]
BY DEF SetSession, SessionsTyped

LEMMA LiveAreGroups == ASSUME ChromeTyped PROVE LiveGroups \subseteq Groups
BY DEF ChromeTyped, LiveGroups

\* What a call that suspends leaves.
LEMMA GoTyped ==
    ASSUME CallsTyped, NEW n \in Names, NEW c, Ready(c), c.pc \notin Saving, Go(n, c)
    PROVE  /\ CallsTyped'
           /\ call'[n] = c
           /\ \A m \in Names \ {n} : call'[m] = call[m]
<1>1. c \in CallStates
  BY DEF Ready
<1>2. /\ call' \in [Names -> CallStates] /\ call'[n] = c
      /\ \A m \in Names \ {n} : call'[m] = call[m]
  BY <1>1 DEF Go, CallsTyped
<1>3. /\ owned' \in [Names -> Owners \union {None}] /\ owned'[n] = None
      /\ \A m \in Names \ {n} : owned'[m] = owned[m]
  BY DEF Go, CallsTyped
<1>4. \A m \in Names : Ready(call'[m])
  BY <1>2 DEF CallsTyped
<1>5. \A m \in Names : /\ call'[m].pc \in Saving => owned'[m] \in Owners
                       /\ call'[m].pc \notin Saving => owned'[m] = None
  BY <1>2, <1>3 DEF CallsTyped
<1>. QED
  BY <1>2, <1>3, <1>4, <1>5 DEF CallsTyped, Ready

LEMMA GoSaveTyped ==
    ASSUME CallsTyped, NEW n \in Names, NEW c, Ready(c), c.pc \in Saving,
           ownedGroups' \in Owners, GoSave(n, c)
    PROVE  /\ CallsTyped'
           /\ call'[n] = c
           /\ \A m \in Names \ {n} : call'[m] = call[m]
<1>1. c \in CallStates
  BY DEF Ready
<1>2. /\ call' \in [Names -> CallStates] /\ call'[n] = c
      /\ \A m \in Names \ {n} : call'[m] = call[m]
  BY <1>1 DEF GoSave, CallsTyped
<1>3. PICK read \in {ownedGroups', Nobody} : owned' = [owned EXCEPT ![n] = read]
  BY DEF GoSave
<1>a. read \in Owners
  BY DEF Nobody, Owners
<1>b. /\ owned' \in [Names -> Owners \union {None}] /\ owned'[n] \in Owners
      /\ \A m \in Names \ {n} : owned'[m] = owned[m]
  BY <1>3, <1>a DEF CallsTyped
<1>4. \A m \in Names : Ready(call'[m])
  BY <1>2 DEF CallsTyped
<1>5. \A m \in Names : /\ call'[m].pc \in Saving => owned'[m] \in Owners
                       /\ call'[m].pc \notin Saving => owned'[m] = None
  BY <1>2, <1>b DEF CallsTyped
<1>. QED
  BY <1>2, <1>b, <1>4, <1>5 DEF CallsTyped, Ready

LEMMA EndsTyped ==
    ASSUME CallsTyped, NEW n \in Names, Ends(n)
    PROVE  /\ CallsTyped'
           /\ call'[n] = Idle
           /\ \A m \in Names \ {n} : call'[m] = call[m]
BY IdleReady, GoTyped DEF Ends, Saving

LEMMA ReconciledCases ==
    ASSUME NEW n, NEW c, NEW s, Reconciled(n, c, s)
    PROVE  \/ c.tool = "navigate" /\ Go(n, [c EXCEPT !.pc = "acquire", !.groupId = None])
           \/ /\ c.tool # "navigate"
              /\ Go(n, [c EXCEPT !.pc = "close all", !.groupId = None, !.todo = s.tabIds])
           \/ c.tool # "navigate" /\ Ends(n)
<1>1. CASE c.tool = "navigate"
  BY <1>1 DEF Reconciled
<1>2. CASE c.tool = "close_session"
  BY <1>2 DEF Reconciled
<1>3. CASE c.tool # "navigate" /\ c.tool # "close_session"
  BY <1>3 DEF Reconciled
<1>. QED
  BY <1>1, <1>2, <1>3

\* A call that has reconciled its session.
LEMMA ReconciledTyped ==
    ASSUME CallsTyped, NEW n \in Names, NEW c \in CallStates, NEW s \in SessionStates,
           c.id = None \/ c.tool = "navigate",
           Reconciled(n, c, s)
    PROVE  /\ CallsTyped'
           /\ call'[n].pc \in {"acquire", "close all", "idle"}
           /\ call'[n].pc = "close all" => call'[n].todo = s.tabIds
           /\ call'[n].pc = "acquire" => call'[n].tool = "navigate"
           /\ \A m \in Names \ {n} : call'[m] = call[m]
           /\ call'[n].tool = "navigate" => c.tool = "navigate"
<1> DEFINE c1 == [c EXCEPT !.pc = "acquire", !.groupId = None]
           c2 == [c EXCEPT !.pc = "close all", !.groupId = None, !.todo = s.tabIds]
<1>1. CASE c.tool = "navigate" /\ Go(n, c1)
  <2>1. Ready(c1) /\ c1.pc = "acquire" /\ c1.tool = "navigate"
    BY <1>1 DEF Ready, CallStates, Pcs
  <2> HIDE DEF c1
  <2>. QED
    BY <1>1, <2>1, GoTyped DEF Saving
<1>2. CASE c.tool # "navigate" /\ Go(n, c2)
  <2>1. Ready(c2) /\ c2.pc = "close all" /\ c2.todo = s.tabIds /\ c2.tool = c.tool
    BY <1>2 DEF Ready, CallStates, Pcs, SessionStates
  <2> HIDE DEF c2
  <2>. QED
    BY <1>2, <2>1, GoTyped DEF Saving
<1>3. CASE c.tool # "navigate" /\ Ends(n)
  <2>1. /\ CallsTyped' /\ call'[n] = Idle
        /\ \A m \in Names \ {n} : call'[m] = call[m]
    BY <1>3, EndsTyped
  <2>2. Idle.pc = "idle" /\ Idle.tool # "navigate"
    BY IdleReady, TabSessionsAssumption
  <2>. QED
    BY <2>1, <2>2
<1>. QED
  BY <1>1, <1>2, <1>3, ReconciledCases

\* A tab that goes takes its group along if it was the last.
LEMMA RemovedIs ==
    ASSUME SessionsTyped, NEW t \in Tabs, handleTabRemoved(t)
    PROVE  /\ SessionsTyped'
           /\ DOMAIN sessions' = DOMAIN sessions
           /\ \A n \in DOMAIN sessions :
                /\ sessions'[n].groupId = sessions[n].groupId
                /\ sessions'[n].tabIds = sessions[n].tabIds \ {t}
                /\ \/ sessions'[n].activeTabId = sessions[n].activeTabId
                      /\ ~(t \in sessions[n].tabIds /\ sessions[n].activeTabId = t)
                   \/ /\ t \in sessions[n].tabIds /\ sessions[n].activeTabId = t
                      /\ Tracked(sessions'[n])
<1>1. PICK pick \in [DOMAIN sessions -> Tabs \union {None}] :
        /\ \A n \in DOMAIN sessions :
             LET rest == sessions[n].tabIds \ {t} IN
               IF t \in sessions[n].tabIds /\ sessions[n].activeTabId = t
                 THEN IF rest = {} THEN pick[n] = None ELSE pick[n] \in rest
                 ELSE pick[n] = sessions[n].activeTabId
        /\ sessions' = [n \in DOMAIN sessions |->
                          [sessions[n] EXCEPT !.tabIds = @ \ {t}, !.activeTabId = pick[n]]]
  BY DEF handleTabRemoved
<1>2. DOMAIN sessions' = DOMAIN sessions
  BY <1>1
<1>3. ASSUME NEW n \in DOMAIN sessions
      PROVE  /\ sessions'[n] \in SessionStates
             /\ sessions'[n].groupId = sessions[n].groupId
             /\ sessions'[n].tabIds = sessions[n].tabIds \ {t}
             /\ sessions'[n].activeTabId = pick[n]
  BY <1>1 DEF SessionsTyped, SessionStates
<1>4. SessionsTyped'
  BY <1>1, <1>2, <1>3 DEF SessionsTyped
<1>. QED
  BY <1>1, <1>2, <1>3, <1>4 DEF Tracked

Kept(f, t) == [g \in Groups |-> IF TabsIn(g) \subseteq {t} THEN None ELSE f[g]]

LEMMA CloseTabIs ==
    ASSUME NEW t, CloseTab(t)
    PROVE  /\ url' = [url EXCEPT ![t] = None] /\ groupOf' = [groupOf EXCEPT ![t] = None]
           /\ title' = Kept(title, t) /\ ownedGroups' = Kept(ownedGroups, t) /\ maker' = Kept(maker, t)
           /\ handleTabRemoved(t) /\ disturbed' = disturbed /\ strayed' = strayed \ {t}
BY DEF CloseTab, Kept

\* Nothing is saved; a read of the storage may have failed.
Unsaved ==
    /\ UNCHANGED <<ownedGroups, maker>>
    /\ disturbed' \in BOOLEAN
    /\ disturbed => disturbed'

LEMMA LoadIs ==
    ASSUME TypeInv, NEW read, loadOwnedGroups(read)
    PROVE  Unsaved /\ (~disturbed' => ~disturbed /\ read = ownedGroups)
BY DEF loadOwnedGroups, Unsaved, TypeInv

LEMMA EnsureIs ==
    ASSUME TypeInv, NEW host, NEW excluded, NEW room, ensureDomainTabLimits(host, excluded, room)
    PROVE  Unsaved
BY LoadIs DEF ensureDomainTabLimits

LEMMA StillUnsaved == ASSUME TypeInv, StillSaved PROVE Unsaved
BY DEF StillSaved, ghostVars, Unsaved, TypeInv

----------------------------------------------------------------------------
(* The steps keep the types                                                *)

LEMMA StaysTyped ==
    ASSUME TypeInv, UNCHANGED chromeVars, StillSaved \/ Unsaved
    PROVE  ChromeTyped' /\ disturbed' \in BOOLEAN /\ ownedGroups' \in Owners
BY StillUnsaved DEF TypeInv, chromeVars, Unsaved, ChromeTyped, Open

LEMMA SavedTyped ==
    ASSUME TypeInv, NEW n, NEW new \in Owners, NEW wrong \in BOOLEAN, SaveOwned(n, new, wrong),
           UNCHANGED chromeVars
    PROVE  ChromeTyped' /\ disturbed' \in BOOLEAN /\ ownedGroups' \in Owners
<1>1. ownedGroups' \in Owners
  BY DEF SaveOwned, Owners, TypeInv, ChromeTyped
<1>2. disturbed' \in BOOLEAN
  BY DEF SaveOwned, TypeInv
<1>. QED
  BY <1>1, <1>2 DEF SaveOwned, chromeVars, ChromeTyped, Open, TypeInv

LEMMA ClosedTyped ==
    ASSUME TypeInv, NEW t \in Tabs, CloseTab(t)
    PROVE  SessionsTyped' /\ ChromeTyped' /\ disturbed' \in BOOLEAN
<1>1. SessionsTyped'
  BY CloseTabIs, RemovedIs DEF TypeInv
<1>2. /\ url' \in [Tabs -> Hosts \union {Blank, None}]
      /\ groupOf' \in [Tabs -> Groups \union {None}]
      /\ \A u \in Tabs : groupOf'[u] # None => Open(u)'
  BY CloseTabIs DEF TypeInv, ChromeTyped, Open
<1>3. /\ title' \in [Groups -> Names \union {Custom, None}]
      /\ ownedGroups' \in Owners /\ maker' \in Owners
  BY CloseTabIs DEF TypeInv, ChromeTyped, Kept, Owners
<1>4. disturbed' \in BOOLEAN
  BY CloseTabIs DEF TypeInv
<1>. QED
  BY <1>1, <1>2, <1>3, <1>4 DEF ChromeTyped

LEMMA InitTyped == Init => TypeInv
<1> SUFFICES ASSUME Init PROVE TypeInv
  OBVIOUS
<1>1. SessionsTyped
  BY DEF Init, SessionsTyped
<1>2. ChromeTyped
  BY DEF Init, Nobody, ChromeTyped, Owners, Open
<1>3. CallsTyped
  BY IdleReady DEF Init, CallsTyped, Saving
<1>. QED
  BY <1>1, <1>2, <1>3 DEF TypeInv, Init

LEMMA UserClosesTyped ==
    ASSUME TypeInv, NEW t \in Tabs, UserCloses(t) PROVE TypeInv'
<1>1. CallsTyped'
  BY DEF UserCloses, TypeInv, CallsTyped
<1>. QED
  BY <1>1, ClosedTyped DEF UserCloses, TypeInv

LEMMA WandersTyped == ASSUME TypeInv, NEW t \in Tabs, Wanders(t) PROVE TypeInv'
<1>1. ChromeTyped'
  BY TabSessionsAssumption DEF Wanders, TypeInv, ChromeTyped, Open
<1>2. SessionsTyped' /\ CallsTyped' /\ disturbed' \in BOOLEAN
  BY DEF Wanders, TypeInv, SessionsTyped, CallsTyped
<1>. QED
  BY <1>1, <1>2 DEF TypeInv

LEMMA WorkerRestartsTyped == ASSUME TypeInv, WorkerRestarts PROVE TypeInv'
<1>1. SessionsTyped'
  BY DEF WorkerRestarts, SessionsTyped
<1>2. ChromeTyped'
  BY DEF WorkerRestarts, TypeInv, ChromeTyped, Open, chromeVars
<1>3. CallsTyped'
  BY IdleReady DEF WorkerRestarts, CallsTyped, Saving
<1>4. disturbed' \in BOOLEAN
  BY DEF WorkerRestarts, TypeInv
<1>. QED
  BY <1>1, <1>2, <1>3, <1>4 DEF TypeInv

\* What reconcile reads, and how the call goes on.
LEMMA ReconcileIs ==
    ASSUME TypeInv, NEW n, NEW c, reconcile(n, c)
    PROVE  LET s == getSession(n) IN
           /\ UNCHANGED chromeVars /\ UNCHANGED strayed /\ Unsaved
           /\ \E read \in {ownedGroups, Nobody} :
                /\ ~disturbed' => read = ownedGroups
                /\ \/ /\ groupsOf(n, read) = {}
                      /\ \E kept \in {s.groupId, None} :
                           sessions' = SetSession(n, [s EXCEPT !.groupId = kept])
                      /\ Reconciled(n, c, s)
                   \/ \E g \in groupsOf(n, read) :
                        /\ sessions' = SetSession(n, [s EXCEPT !.groupId = g])
                        /\ GoSave(n, [c EXCEPT !.pc = "adopt", !.groupId = g,
                                               !.todo = groupsOf(n, read) \ {g}])
BY LoadIs DEF reconcile

LEMMA ReconcileTyped ==
    ASSUME TypeInv, NEW n \in Names, NEW c \in CallStates, c.id = None, reconcile(n, c)
    PROVE  TypeInv'
<1> DEFINE s == getSession(n)
<1>1. s \in SessionStates
  BY SessionState DEF TypeInv
<1>2. ChromeTyped' /\ disturbed' \in BOOLEAN /\ ownedGroups' \in Owners
  BY StaysTyped, ReconcileIs
<1>0. PICK read \in {ownedGroups, Nobody} :
        \/ /\ groupsOf(n, read) = {}
           /\ \E kept \in {s.groupId, None} : sessions' = SetSession(n, [s EXCEPT !.groupId = kept])
           /\ Reconciled(n, c, s)
        \/ \E g \in groupsOf(n, read) :
             /\ sessions' = SetSession(n, [s EXCEPT !.groupId = g])
             /\ GoSave(n, [c EXCEPT !.pc = "adopt", !.groupId = g, !.todo = groupsOf(n, read) \ {g}])
  BY ReconcileIs
<1>3. groupsOf(n, read) \subseteq Groups
  BY LiveAreGroups DEF groupsOf, TypeInv
<1>4. CASE \E kept \in Groups \union {None} :
              /\ sessions' = SetSession(n, [s EXCEPT !.groupId = kept])
              /\ Reconciled(n, c, s)
  <2>1. PICK kept \in Groups \union {None} :
              /\ sessions' = SetSession(n, [s EXCEPT !.groupId = kept])
              /\ Reconciled(n, c, s)
    BY <1>4
  <2>2. [s EXCEPT !.groupId = kept] \in SessionStates
    BY <1>1 DEF SessionStates
  <2>3. SessionsTyped'
    BY <2>1, <2>2, SetSessionIs DEF TypeInv
  <2>4. CallsTyped'
    BY <2>1, <1>1, ReconciledTyped DEF TypeInv
  <2>. QED
    BY <2>3, <2>4, <1>2 DEF TypeInv
<1>5. CASE \E g \in groupsOf(n, read) :
              /\ sessions' = SetSession(n, [s EXCEPT !.groupId = g])
              /\ GoSave(n, [c EXCEPT !.pc = "adopt", !.groupId = g, !.todo = groupsOf(n, read) \ {g}])
  <2>1. PICK g \in groupsOf(n, read) :
              /\ sessions' = SetSession(n, [s EXCEPT !.groupId = g])
              /\ GoSave(n, [c EXCEPT !.pc = "adopt", !.groupId = g, !.todo = groupsOf(n, read) \ {g}])
    BY <1>5
  <2>2. [s EXCEPT !.groupId = g] \in SessionStates
    BY <1>1, <1>3 DEF SessionStates
  <2>3. SessionsTyped'
    BY <2>1, <2>2, SetSessionIs DEF TypeInv
  <2> DEFINE d == [c EXCEPT !.pc = "adopt", !.groupId = g, !.todo = groupsOf(n, read) \ {g}]
  <2>4. Ready(d) /\ d.pc \in Saving
    BY <1>3 DEF Ready, CallStates, Pcs, Saving
  <2>5. GoSave(n, d)
    BY <2>1
  <2> HIDE DEF d
  <2>6. CallsTyped'
    BY <2>4, <2>5, <1>2, GoSaveTyped DEF TypeInv
  <2>. QED
    BY <2>3, <2>6, <1>2 DEF TypeInv
<1>6. {s.groupId, None} \subseteq Groups \union {None}
  BY <1>1 DEF SessionStates
<1>. QED
  BY <1>0, <1>4, <1>5, <1>6

LEMMA AdoptTyped == ASSUME TypeInv, NEW n \in Names, Adopt(n) PROVE TypeInv'
<1> DEFINE s == getSession(n)
<1>1. s \in SessionStates
  BY SessionState DEF TypeInv
<1>2. /\ Ready(call[n]) /\ call[n] \in CallStates /\ call[n].groupId \in Groups
      /\ call[n].todo \subseteq Groups /\ owned[n] \in Owners
      /\ call[n].id = None
  BY DEF Adopt, At, TypeInv, CallsTyped, Ready, Saving
<1>3. [owned[n] EXCEPT ![call[n].groupId] = n] \in Owners
  BY <1>2 DEF Owners
<1>4. ChromeTyped' /\ disturbed' \in BOOLEAN /\ ownedGroups' \in Owners
  BY <1>3, SavedTyped DEF Adopt
<1>5. PICK a \in Tabs \union {None} :
        LET all == s.tabIds \union TabsIn(call[n].groupId)
            new == [s EXCEPT !.tabIds = all, !.activeTabId = a] IN
          /\ sessions' = SetSession(n, new)
          /\ \/ Reconciled(n, call[n], new)
             \/ \E g \in call[n].todo :
                  GoSave(n, [call[n] EXCEPT !.groupId = g, !.todo = @ \ {g}])
  BY DEF Adopt
<1> DEFINE new == [s EXCEPT !.tabIds = s.tabIds \union TabsIn(call[n].groupId), !.activeTabId = a]
<1>6. new \in SessionStates
  BY <1>1 DEF SessionStates, TabsIn
<1>7. SessionsTyped'
  BY <1>5, <1>6, SetSessionIs DEF TypeInv
<1>8. CASE Reconciled(n, call[n], new)
  <2> HIDE DEF new
  <2>1. CallsTyped'
    BY <1>2, <1>6, <1>8, ReconciledTyped DEF TypeInv
  <2>. QED
    BY <2>1, <1>4, <1>7 DEF TypeInv
<1>9. ASSUME NEW g \in call[n].todo, GoSave(n, [call[n] EXCEPT !.groupId = g, !.todo = @ \ {g}])
      PROVE  TypeInv'
  <2> DEFINE d == [call[n] EXCEPT !.groupId = g, !.todo = @ \ {g}]
  <2>1. Ready(d) /\ d.pc \in Saving
    BY <1>2 DEF Ready, CallStates, Pcs, Saving, Adopt, At
  <2>2. GoSave(n, d)
    BY <1>9
  <2> HIDE DEF d
  <2>3. CallsTyped'
    BY <2>1, <2>2, <1>4, GoSaveTyped DEF TypeInv
  <2>. QED
    BY <2>3, <1>4, <1>7 DEF TypeInv
<1>. QED
  BY <1>5, <1>8, <1>9

LEMMA AcquireTyped == ASSUME TypeInv, NEW n \in Names, Acquire(n) PROVE TypeInv'
<1>1. SessionsTyped' /\ ChromeTyped' /\ disturbed' \in BOOLEAN
  BY StaysTyped, EnsureIs DEF Acquire, TypeInv, SessionsTyped
<1> DEFINE active == getSession(n).activeTabId
<1>2. PICK host \in Hosts :
        \/ Ends(n)
        \/ Go(n, [[call[n] EXCEPT !.url = host] EXCEPT !.pc = "create"])
        \/ Open(active) /\ Go(n, [[call[n] EXCEPT !.url = host] EXCEPT !.pc = "go", !.id = active])
        \/ Go(n, [[call[n] EXCEPT !.url = host] EXCEPT !.pc = "replace"])
  BY DEF Acquire
<1>3. Ready(call[n]) /\ call[n].tool = "navigate" /\ active \in Tabs \union {None}
  BY SessionState DEF Acquire, At, TypeInv, CallsTyped, Ready, SessionStates
<1>4. ASSUME NEW d, Ready(d), d.pc \notin Saving, Go(n, d) PROVE CallsTyped'
  BY <1>4, GoTyped DEF TypeInv
<1>5. CASE Ends(n)
  BY <1>1, <1>5, EndsTyped DEF TypeInv
<1>6. CASE Go(n, [[call[n] EXCEPT !.url = host] EXCEPT !.pc = "create"])
  <2>1. Ready([[call[n] EXCEPT !.url = host] EXCEPT !.pc = "create"])
    BY <1>3 DEF Ready, CallStates, Pcs
  <2>. QED
    BY <1>1, <1>3, <1>4, <1>6, <2>1 DEF TypeInv, Ready, CallStates, Saving
<1>7. CASE Open(active) /\ Go(n, [[call[n] EXCEPT !.url = host] EXCEPT !.pc = "go", !.id = active])
  <2>1. Ready([[call[n] EXCEPT !.url = host] EXCEPT !.pc = "go", !.id = active])
    BY <1>3, <1>7 DEF Ready, CallStates, Pcs, Open
  <2>. QED
    BY <1>1, <1>3, <1>4, <1>7, <2>1 DEF TypeInv, Ready, CallStates, Saving
<1>8. CASE Go(n, [[call[n] EXCEPT !.url = host] EXCEPT !.pc = "replace"])
  <2>1. Ready([[call[n] EXCEPT !.url = host] EXCEPT !.pc = "replace"])
    BY <1>3 DEF Ready, CallStates, Pcs
  <2>. QED
    BY <1>1, <1>3, <1>4, <1>8, <2>1 DEF TypeInv, Ready, CallStates, Saving
<1>. QED
  BY <1>2, <1>5, <1>6, <1>7, <1>8

LEMMA CloseActiveTabTyped ==
    ASSUME TypeInv, NEW n \in Names, NEW then, Ready(then), then.pc \notin Saving,
           closeActiveTab(n, then)
    PROVE  TypeInv'
<1> DEFINE t == getSession(n).activeTabId
<1>1. getSession(n) \in SessionStates /\ t \in Tabs \union {None}
  BY SessionState DEF TypeInv, SessionStates
<1>2. CASE /\ sessions' = SetSession(n, getSession(n)) /\ Ends(n)
           /\ UNCHANGED chromeVars /\ StillSaved
  BY <1>1, <1>2, SetSessionIs, EndsTyped, StaysTyped DEF TypeInv
<1>3. ASSUME t \in Tabs, CloseTab(t), Go(n, then) PROVE TypeInv'
  BY <1>3, ClosedTyped, GoTyped DEF TypeInv
<1>4. ASSUME t \in Tabs, handleTabRemoved(t), UNCHANGED chromeVars, StillSaved, Go(n, then)
      PROVE  TypeInv'
  BY <1>4, RemovedIs, StaysTyped, GoTyped DEF TypeInv
<1>. QED
  BY <1>1, <1>2, <1>3, <1>4 DEF closeActiveTab

LEMMA ReplaceTyped == ASSUME TypeInv, NEW n \in Names, Replace(n) PROVE TypeInv'
<1>1. Ready([call[n] EXCEPT !.pc = "create"])
  BY DEF Replace, At, TypeInv, CallsTyped, Ready, CallStates, Pcs
<1>2. [call[n] EXCEPT !.pc = "create"].pc \notin Saving
  BY DEF TypeInv, CallsTyped, CallStates, Saving
<1>. QED
  BY <1>1, <1>2, CloseActiveTabTyped DEF Replace

LEMMA CreateTyped == ASSUME TypeInv, NEW n \in Names, Create(n) PROVE TypeInv'
<1>1. PICK t \in FreeTabs :
        /\ url' = [url EXCEPT ![t] = Blank]
        /\ sessions' = SetSession(n, [getSession(n) EXCEPT !.tabIds = @ \union {t},
                                                           !.activeTabId = t])
        /\ Go(n, [call[n] EXCEPT !.pc = "group", !.id = t])
  BY DEF Create
<1>2. t \in Tabs
  BY DEF FreeTabs
<1>3. [getSession(n) EXCEPT !.tabIds = @ \union {t}, !.activeTabId = t] \in SessionStates
  BY <1>2, SessionState DEF TypeInv, SessionStates
<1>4. SessionsTyped'
  BY <1>1, <1>3, SetSessionIs DEF TypeInv
<1>5. ChromeTyped' /\ disturbed' \in BOOLEAN
  BY <1>1, <1>2, TabSessionsAssumption
     DEF Create, StillSaved, ghostVars, TypeInv, ChromeTyped, Open
<1> DEFINE d == [call[n] EXCEPT !.pc = "group", !.id = t]
<1>6. Ready(d) /\ d.pc \notin Saving
  BY <1>2 DEF Create, At, TypeInv, CallsTyped, Ready, CallStates, Pcs, Saving
<1>7. CallsTyped'
  BY <1>1, <1>6, GoTyped DEF TypeInv
<1>. QED
  BY <1>4, <1>5, <1>7 DEF TypeInv

LEMMA GroupTyped == ASSUME TypeInv, NEW n \in Names, Group(n) PROVE TypeInv'
<1> DEFINE s == getSession(n)
           t == call[n].id
           joined(g, then) == [call[n] EXCEPT !.pc = then, !.groupId = g]
<1>1. /\ Ready(call[n]) /\ call[n] \in CallStates /\ t \in Tabs
      /\ call[n].tool = "navigate" /\ call[n].url \in Hosts /\ s \in SessionStates
  BY SessionState DEF Group, At, TypeInv, CallsTyped, Ready
<1>2. ASSUME NEW g \in Groups, NEW then \in {"record", "entitle"}
      PROVE  Ready(joined(g, then)) /\ joined(g, then).pc \in Saving
  BY <1>1, TabSessionsAssumption DEF Ready, CallStates, Pcs, Saving
<1>3. ASSUME NEW g \in Groups, Open(t), groupOf' = [groupOf EXCEPT ![t] = g],
             UNCHANGED url, UNCHANGED ownedGroups, title' = title, maker' \in Owners
      PROVE  ChromeTyped'
  BY <1>3, <1>1 DEF TypeInv, ChromeTyped, Open
<1> HIDE DEF joined
<1>4. ASSUME s.groupId \in LiveGroups, Open(t), StillSaved, UNCHANGED <<sessions, title>>,
             groupOf' = [groupOf EXCEPT ![t] = s.groupId], UNCHANGED url,
             GoSave(n, joined(s.groupId, "record"))
      PROVE  TypeInv'
  <2>1. s.groupId \in Groups
    BY <1>4, LiveAreGroups DEF TypeInv
  <2>2. ChromeTyped' /\ disturbed' \in BOOLEAN /\ SessionsTyped'
    BY <1>3, <1>4, <2>1 DEF StillSaved, ghostVars, TypeInv, ChromeTyped, SessionsTyped
  <2>3. CallsTyped'
    BY <1>2, <1>4, <2>1, <2>2, GoSaveTyped DEF TypeInv, ChromeTyped
  <2>. QED
    BY <2>2, <2>3 DEF TypeInv
<1>5. ASSUME NEW g \in FreeGroups, Open(t), UNCHANGED <<ownedGroups, title, disturbed>>,
             groupOf' = [groupOf EXCEPT ![t] = g], UNCHANGED url,
             GoSave(n, joined(g, "entitle")),
             sessions' = SetSession(n, [s EXCEPT !.groupId = g]),
             maker' = [maker EXCEPT ![g] = n]
      PROVE  TypeInv'
  <2>1. g \in Groups /\ maker' \in Owners
    BY <1>5 DEF FreeGroups, TypeInv, ChromeTyped, Owners
  <2>2. ChromeTyped' /\ disturbed' \in BOOLEAN
    BY <1>3, <1>5, <2>1 DEF TypeInv
  <2>3. [s EXCEPT !.groupId = g] \in SessionStates
    BY <1>1, <2>1 DEF SessionStates
  <2>4. SessionsTyped'
    BY <1>5, <2>3, SetSessionIs DEF TypeInv
  <2>5. CallsTyped'
    BY <1>2, <1>5, <2>1, <2>2, GoSaveTyped DEF TypeInv, ChromeTyped
  <2>. QED
    BY <2>2, <2>4, <2>5 DEF TypeInv
<1>6. ASSUME Go(n, [call[n] EXCEPT !.pc = "go"]), UNCHANGED <<sessions, chromeVars>>, StillSaved
      PROVE  TypeInv'
  <2>1. Ready([call[n] EXCEPT !.pc = "go"]) /\ [call[n] EXCEPT !.pc = "go"].pc \notin Saving
    BY <1>1 DEF Ready, CallStates, Pcs, Saving
  <2>2. CallsTyped'
    BY <1>6, <2>1, GoTyped DEF TypeInv
  <2>. QED
    BY <1>6, <2>2, StaysTyped DEF TypeInv, SessionsTyped
<1>. QED
  BY <1>4, <1>5, <1>6 DEF Group, joined

LEMMA EntitleTyped == ASSUME TypeInv, NEW n \in Names, Entitle(n) PROVE TypeInv'
<1> DEFINE g == call[n].groupId
           recording == [call[n] EXCEPT !.pc = "record"]
           going == [call[n] EXCEPT !.pc = "go", !.groupId = None]
<1>a. /\ Ready(call[n]) /\ call[n].pc = "entitle" /\ call[n] \in CallStates
      /\ call[n].id \in Tabs /\ call[n].id # None
  BY TabSessionsAssumption DEF Entitle, At, TypeInv, CallsTyped, Ready
<1>b. Ready(recording) /\ recording.pc \in Saving
  BY <1>a DEF Ready, CallStates, Pcs, Saving
<1>1. Ready(going) /\ going.pc \notin Saving
  BY <1>a DEF Ready, CallStates, Pcs, Saving
<1>2. /\ SessionsTyped' /\ ChromeTyped' /\ disturbed' \in BOOLEAN
      /\ \/ GoSave(n, recording)
         \/ Go(n, going)
  BY DEF Entitle, StillSaved, ghostVars, TypeInv, ChromeTyped, SessionsTyped, Open
<1> HIDE DEF recording, going
<1>3. CallsTyped'
  BY <1>1, <1>b, <1>2, GoTyped, GoSaveTyped DEF TypeInv, ChromeTyped
<1>. QED
  BY <1>2, <1>3 DEF TypeInv

LEMMA RecordTyped == ASSUME TypeInv, NEW n \in Names, Record(n) PROVE TypeInv'
<1> DEFINE going == [call[n] EXCEPT !.pc = "go", !.groupId = None]
<1>1. [owned[n] EXCEPT ![call[n].groupId] = n] \in Owners
  BY DEF Record, At, TypeInv, CallsTyped, Ready, Saving, Owners
<1>2. ChromeTyped' /\ disturbed' \in BOOLEAN
  BY <1>1, SavedTyped DEF Record
<1>3. call[n].id # None => Ready(going) /\ going.pc \notin Saving
  BY DEF Record, At, TypeInv, CallsTyped, Ready, CallStates, Pcs, Saving
<1>4. Ends(n) \/ (call[n].id # None /\ Go(n, going))
  BY DEF Record
<1> HIDE DEF going
<1>5. CallsTyped'
  BY <1>3, <1>4, GoTyped, EndsTyped DEF TypeInv
<1>. QED
  BY <1>2, <1>5 DEF TypeInv, Record, SessionsTyped

LEMMA UpdateTyped == ASSUME TypeInv, NEW n \in Names, Update(n) PROVE TypeInv'
<1> DEFINE waiting == [Idle EXCEPT !.pc = "retitle", !.id = call[n].id]
<1>1. Ready(call[n]) /\ call[n].id \in Tabs /\ call[n].url \in Hosts
  BY DEF Update, At, TypeInv, CallsTyped, Ready
<1>2. Ready(waiting) /\ waiting.pc \notin Saving
  BY <1>1, IdleReady, TabSessionsAssumption DEF Ready, CallStates, Pcs, Saving, Idle
<1>3. ChromeTyped' /\ disturbed' \in BOOLEAN /\ SessionsTyped'
  BY <1>1, TabSessionsAssumption
     DEF Update, StillSaved, ghostVars, TypeInv, ChromeTyped, SessionsTyped, Open
<1>4. Ends(n) \/ Go(n, waiting)
  BY DEF Update
<1> HIDE DEF waiting
<1>5. CallsTyped'
  BY <1>2, <1>4, GoTyped, EndsTyped DEF TypeInv
<1>. QED
  BY <1>3, <1>5 DEF TypeInv

LEMMA RetitleTyped == ASSUME TypeInv, NEW n \in Names, Retitle(n) PROVE TypeInv'
<1> DEFINE g == getSession(n).groupId
           recording == [Idle EXCEPT !.pc = "record", !.groupId = g]
<1>1. g \in Groups \union {None}
  BY SessionState DEF TypeInv, SessionStates
<1>2. g \in LiveGroups => Ready(recording) /\ recording.pc \in Saving
  BY <1>1, LiveAreGroups, IdleReady, TabSessionsAssumption
     DEF TypeInv, Ready, CallStates, Pcs, Saving, Idle
<1>3. ChromeTyped' /\ disturbed' \in BOOLEAN /\ SessionsTyped'
  BY DEF Retitle, StillSaved, ghostVars, TypeInv, ChromeTyped, SessionsTyped, Open
<1>4. Ends(n) \/ (g \in LiveGroups /\ GoSave(n, recording))
  BY DEF Retitle
<1> HIDE DEF recording
<1>5. CallsTyped'
  BY <1>2, <1>3, <1>4, GoSaveTyped, EndsTyped DEF TypeInv, ChromeTyped
<1>. QED
  BY <1>3, <1>5 DEF TypeInv

LEMMA BindTabTyped ==
    ASSUME TypeInv, NEW n \in Names, NEW t \in Tabs, bindTab(n, t)
    PROVE  SessionsTyped'
<1>1. [getSession(n) EXCEPT !.tabIds = @ \union {t}, !.activeTabId = t] \in SessionStates
  BY SessionState DEF TypeInv, SessionStates
<1>. QED
  BY <1>1, SetSessionIs DEF bindTab, TypeInv

LEMMA BindTyped == ASSUME TypeInv, NEW n \in Names, Bind(n) PROVE TypeInv'
<1>1. call[n].id \in Tabs
  BY DEF Bind, At, TypeInv, CallsTyped, Ready
<1>2. SessionsTyped'
  BY <1>1, BindTabTyped DEF Bind, TypeInv, SessionsTyped
<1>3. CallsTyped' /\ ChromeTyped' /\ disturbed' \in BOOLEAN
  BY EndsTyped, StaysTyped, EnsureIs DEF Bind, TypeInv
<1>. QED
  BY <1>2, <1>3 DEF TypeInv

LEMMA CloseNextTyped == ASSUME TypeInv, NEW n \in Names, CloseNext(n) PROVE TypeInv'
<1>1. PICK t \in call[n].todo :
        /\ Go(n, [call[n] EXCEPT !.todo = @ \ {t}])
        /\ \/ CloseTab(t)
           \/ UNCHANGED <<sessions, chromeVars>> /\ StillSaved
           \/ /\ sessions' = SetSession(n, [getSession(n) EXCEPT !.tabIds = @ \ {t}])
              /\ UNCHANGED chromeVars /\ StillSaved
  BY DEF CloseNext
<1>2. t \in Tabs /\ call[n].pc = "close all" /\ Ready(call[n])
  BY DEF CloseNext, At, TypeInv, CallsTyped, Ready
<1> DEFINE d == [call[n] EXCEPT !.todo = @ \ {t}]
<1>3. Ready(d) /\ d.pc \notin Saving
  BY <1>2 DEF Ready, CallStates, Pcs, Saving
<1>4. Go(n, d)
  BY <1>1
<1> HIDE DEF d
<1>5. CallsTyped'
  BY <1>3, <1>4, GoTyped DEF TypeInv
<1>6. CASE CloseTab(t)
  BY <1>2, <1>5, <1>6, ClosedTyped DEF TypeInv
<1>7. CASE UNCHANGED <<sessions, chromeVars>> /\ StillSaved
  BY <1>5, <1>7, StaysTyped DEF TypeInv, SessionsTyped
<1>8. CASE /\ sessions' = SetSession(n, [getSession(n) EXCEPT !.tabIds = @ \ {t}])
           /\ UNCHANGED chromeVars /\ StillSaved
  <2>1. [getSession(n) EXCEPT !.tabIds = @ \ {t}] \in SessionStates
    BY SessionState DEF TypeInv, SessionStates
  <2>. QED
    BY <1>5, <1>8, <2>1, SetSessionIs, StaysTyped DEF TypeInv
<1>. QED
  BY <1>1, <1>6, <1>7, <1>8


LEMMA ClosedAllTyped == ASSUME TypeInv, NEW n \in Names, Closed(n) PROVE TypeInv'
<1> DEFINE forgetting == [Idle EXCEPT !.pc = "forget session"]
<1>1. Ready(forgetting) /\ forgetting.pc \in Saving
  BY IdleReady, TabSessionsAssumption DEF Ready, CallStates, Pcs, Saving, Idle
<1>2. ChromeTyped' /\ disturbed' \in BOOLEAN
  BY StaysTyped DEF Closed
<1>3. CASE /\ sessions' = [m \in DOMAIN sessions \ {n} |-> sessions[m]]
           /\ GoSave(n, forgetting)
  <2>1. SessionsTyped'
    BY <1>3 DEF TypeInv, SessionsTyped
  <2>2. CallsTyped'
    BY <1>1, <1>2, <1>3, GoSaveTyped DEF TypeInv, ChromeTyped
  <2>. QED
    BY <1>2, <2>1, <2>2 DEF TypeInv
<1>4. ASSUME NEW a \in Tabs, Ends(n),
             sessions' = SetSession(n, [getSession(n) EXCEPT !.activeTabId = a])
      PROVE  TypeInv'
  <2>1. [getSession(n) EXCEPT !.activeTabId = a] \in SessionStates
    BY SessionState DEF TypeInv, SessionStates
  <2>. QED
    BY <1>2, <1>4, <2>1, SetSessionIs, EndsTyped DEF TypeInv
<1>5. getSession(n) \in SessionStates
  BY SessionState DEF TypeInv
<1>. QED
  BY <1>3, <1>4, <1>5 DEF Closed, Open, SessionStates

LEMMA ForgetSessionTyped == ASSUME TypeInv, NEW n \in Names, ForgetSession(n) PROVE TypeInv'
<1>1. [g \in Groups |-> IF owned[n][g] = n THEN None ELSE owned[n][g]] \in Owners
  BY DEF ForgetSession, At, TypeInv, CallsTyped, Ready, Saving, Owners
<1>2. ChromeTyped' /\ disturbed' \in BOOLEAN
  BY <1>1, SavedTyped DEF ForgetSession
<1>. QED
  BY <1>2, EndsTyped DEF TypeInv, ForgetSession, SessionsTyped

LEMMA ForgetGroupTyped == ASSUME TypeInv, NEW n \in Names, ForgetGroup(n) PROVE TypeInv'
<1>1. [owned[n] EXCEPT ![call[n].groupId] = None] \in Owners
  BY DEF ForgetGroup, At, TypeInv, CallsTyped, Ready, Saving, Owners
<1>2. (call[n].groupId \in LiveGroups) \in BOOLEAN
  OBVIOUS
<1>3. ChromeTyped' /\ disturbed' \in BOOLEAN
  BY <1>1, <1>2, SavedTyped DEF ForgetGroup
<1>. QED
  BY <1>3, EndsTyped DEF TypeInv, ForgetGroup, SessionsTyped

LEMMA CloseGroupNextTyped == ASSUME TypeInv, NEW n \in Names, CloseGroupNext(n) PROVE TypeInv'
<1>1. PICK t \in call[n].todo :
        \/ CloseTab(t) /\ Go(n, [call[n] EXCEPT !.todo = @ \ {t}])
        \/ /\ Go(n, [call[n] EXCEPT !.todo = @ \ {t}, !.remaining = @ \/ Open(t)])
           /\ UNCHANGED <<sessions, chromeVars>> /\ StillSaved
  BY DEF CloseGroupNext
<1>2. t \in Tabs /\ call[n].pc = "close group" /\ Ready(call[n])
  BY DEF CloseGroupNext, At, TypeInv, CallsTyped, Ready
<1> DEFINE d(r) == [call[n] EXCEPT !.todo = @ \ {t}, !.remaining = r]
<1>3. ASSUME NEW r \in BOOLEAN PROVE Ready(d(r)) /\ d(r).pc \notin Saving
  BY <1>2 DEF Ready, CallStates, Pcs, Saving
<1>4. [call[n] EXCEPT !.todo = @ \ {t}] = d(call[n].remaining) /\ call[n].remaining \in BOOLEAN
  BY <1>2 DEF Ready, CallStates
<1>5. [call[n] EXCEPT !.todo = @ \ {t}, !.remaining = @ \/ Open(t)] = d(call[n].remaining \/ Open(t))
  BY <1>2 DEF Ready, CallStates
<1>6. CASE CloseTab(t) /\ Go(n, [call[n] EXCEPT !.todo = @ \ {t}])
  <2>1. Go(n, d(call[n].remaining))
    BY <1>4, <1>6
  <2> HIDE DEF d
  <2>2. CallsTyped'
    BY <1>3, <1>4, <2>1, GoTyped DEF TypeInv
  <2>. QED
    BY <1>2, <1>6, <2>2, ClosedTyped DEF TypeInv
<1>7. CASE /\ Go(n, [call[n] EXCEPT !.todo = @ \ {t}, !.remaining = @ \/ Open(t)])
           /\ UNCHANGED <<sessions, chromeVars>> /\ StillSaved
  <2>1. PICK r \in BOOLEAN : Go(n, d(r))
    BY <1>5, <1>7
  <2> HIDE DEF d
  <2>2. CallsTyped'
    BY <1>3, <2>1, GoTyped DEF TypeInv
  <2>. QED
    BY <1>7, <2>2, StaysTyped DEF TypeInv, SessionsTyped
<1>. QED
  BY <1>1, <1>6, <1>7

LEMMA GroupClosedTyped == ASSUME TypeInv, NEW n \in Names, GroupClosed(n) PROVE TypeInv'
<1> DEFINE forgetting == [call[n] EXCEPT !.pc = "forget group"]
<1>1. Ready(forgetting) /\ forgetting.pc \in Saving
  BY DEF GroupClosed, At, TypeInv, CallsTyped, Ready, CallStates, Pcs, Saving
<1>2. ChromeTyped' /\ disturbed' \in BOOLEAN /\ ownedGroups' \in Owners
  BY StaysTyped DEF GroupClosed
<1>3. Ends(n) \/ GoSave(n, forgetting)
  BY DEF GroupClosed
<1> HIDE DEF forgetting
<1>4. CallsTyped'
  BY <1>1, <1>2, <1>3, GoSaveTyped, EndsTyped DEF TypeInv
<1>. QED
  BY <1>2, <1>4 DEF TypeInv, GroupClosed, SessionsTyped

LEMMA ProceedsTyped == ASSUME TypeInv, NEW n \in Names, Proceeds(n) PROVE TypeInv'
BY AdoptTyped, AcquireTyped, ReplaceTyped, CreateTyped, GroupTyped, EntitleTyped, RecordTyped,
   UpdateTyped, RetitleTyped, BindTyped, CloseNextTyped, ClosedAllTyped, ForgetSessionTyped,
   CloseGroupNextTyped, GroupClosedTyped, ForgetGroupTyped
   DEF Proceeds

LEMMA BeginsTyped == ASSUME TypeInv, NEW n \in Names, Begins(n) PROVE TypeInv'
<1> DEFINE named(tool) == [Idle EXCEPT !.tool = tool]
           found(t) == [Idle EXCEPT !.pc = "bind", !.id = t, !.url = url[t]]
           closing(g) == [Idle EXCEPT !.pc = "close group", !.groupId = g, !.todo = TabsIn(g)]
<1>1. /\ Idle \in CallStates /\ Idle.id = None
      /\ \A tool \in {"navigate", "close_session"} : named(tool) \in CallStates /\ named(tool).id = None
  BY IdleReady DEF Idle, CallStates
<1>2. CASE navigate(n)
  BY <1>1, <1>2, ReconcileTyped DEF navigate
<1>3. CASE find_tab(n)
  <2>1. PICK t \in Tabs : Open(t) /\ url[t] # Blank /\ Go(n, found(t))
    BY <1>3 DEF find_tab
  <2>2. Ready(found(t)) /\ found(t).pc \notin Saving
    BY <2>1, IdleReady, TabSessionsAssumption
       DEF Open, TypeInv, ChromeTyped, Ready, CallStates, Pcs, Saving, Idle
  <2> HIDE DEF found
  <2>3. CallsTyped'
    BY <2>1, <2>2, GoTyped DEF TypeInv
  <2>. QED
    BY <1>3, <2>3, StaysTyped DEF find_tab, TypeInv, SessionsTyped
<1>4. CASE activate_tab(n)
  <2>1. SessionsTyped'
    BY <1>4, BindTabTyped DEF activate_tab, TypeInv, SessionsTyped
  <2>. QED
    BY <1>4, <2>1, EndsTyped, StaysTyped, EnsureIs DEF activate_tab, TypeInv
<1>5. CASE close_tab(n)
  BY <1>5, IdleReady, CloseActiveTabTyped DEF close_tab, Saving
<1>6. CASE list_tabs(n)
  BY <1>1, <1>6, ReconcileTyped DEF list_tabs
<1>7. CASE reconcile(n, named("close_session"))
  BY <1>1, <1>7, ReconcileTyped
<1>8. ASSUME NEW g \in LiveGroups, Go(n, closing(g)), UNCHANGED <<sessions, chromeVars>>, StillSaved
      PROVE  TypeInv'
  <2>1. Ready(closing(g)) /\ closing(g).pc \notin Saving
    BY IdleReady, LiveAreGroups, TabSessionsAssumption
       DEF TypeInv, TabsIn, Ready, CallStates, Pcs, Saving, Idle
  <2> HIDE DEF closing
  <2>2. CallsTyped'
    BY <1>8, <2>1, GoTyped DEF TypeInv
  <2>. QED
    BY <1>8, <2>2, StaysTyped DEF TypeInv, SessionsTyped
<1>. QED
  BY <1>2, <1>3, <1>4, <1>5, <1>6, <1>7, <1>8 DEF Begins, close_session

LEMMA NextTyped == TypeInv /\ [Next]_vars => TypeInv'
<1>1. TypeInv /\ UNCHANGED vars => TypeInv'
  BY DEF TypeInv, vars, chromeVars, ghostVars, SessionsTyped, ChromeTyped, CallsTyped, Open
<1>. QED
  BY <1>1, UserClosesTyped, WandersTyped, WorkerRestartsTyped, ProceedsTyped, BeginsTyped DEF Next

\* A call only takes tabs off those that are elsewhere.
LEMMA CallsStrayed == ASSUME NEW n, Begins(n) \/ Proceeds(n) PROVE strayed' \subseteq strayed
<1>1. ASSUME NEW t, CloseTab(t) PROVE strayed' \subseteq strayed
  BY <1>1 DEF CloseTab
<1>2. ASSUME StillSaved PROVE strayed' \subseteq strayed
  BY <1>2 DEF StillSaved, ghostVars
<1>3. ASSUME NEW new, NEW wrong, SaveOwned(n, new, wrong) PROVE strayed' \subseteq strayed
  BY <1>3 DEF SaveOwned
<1>4. ASSUME NEW host, NEW x, NEW room, ensureDomainTabLimits(host, x, room)
      PROVE  strayed' \subseteq strayed
  BY <1>4 DEF ensureDomainTabLimits
<1>5. ASSUME NEW c, reconcile(n, c) PROVE strayed' \subseteq strayed
  BY <1>5 DEF reconcile
<1>6. ASSUME NEW then, closeActiveTab(n, then) PROVE strayed' \subseteq strayed
  BY <1>1, <1>2, <1>6 DEF closeActiveTab
<1>7. CASE Begins(n)
  BY <1>2, <1>4, <1>5, <1>6, <1>7
     DEF Begins, navigate, find_tab, activate_tab, close_tab, list_tabs, close_session
<1>8. CASE Adopt(n) \/ Acquire(n) \/ Replace(n) \/ Create(n) \/ Bind(n)
  BY <1>2, <1>3, <1>4, <1>6, <1>8 DEF Adopt, Acquire, Replace, Create, Bind
<1>9. CASE Group(n) \/ Entitle(n) \/ Record(n) \/ Update(n) \/ Retitle(n)
  BY <1>2, <1>3, <1>9 DEF Group, Entitle, Record, Update, Retitle
<1>10. CASE CloseNext(n) \/ Closed(n) \/ ForgetSession(n)
  BY <1>1, <1>2, <1>3, <1>10 DEF CloseNext, Closed, ForgetSession
<1>11. CASE CloseGroupNext(n) \/ GroupClosed(n) \/ ForgetGroup(n)
  BY <1>1, <1>2, <1>3, <1>11 DEF CloseGroupNext, GroupClosed, ForgetGroup
<1>. QED
  BY <1>7, <1>8, <1>9, <1>10, <1>11 DEF Proceeds

LEMMA NextStrayed == strayed \subseteq Tabs /\ [Next]_vars => (strayed \subseteq Tabs)'
<1>1. ASSUME strayed \subseteq Tabs, UNCHANGED strayed PROVE (strayed \subseteq Tabs)'
  BY <1>1
<1>2. ASSUME strayed \subseteq Tabs, NEW t \in Tabs, UserCloses(t) \/ Wanders(t)
      PROVE  (strayed \subseteq Tabs)'
  BY <1>2 DEF UserCloses, CloseTab, Wanders
<1>. QED
  BY <1>1, <1>2, CallsStrayed DEF Next, WorkerRestarts, vars, ghostVars

\* Whatever runs at once, the worker restarts or the user closes, what the sessions,
\* the storage, Chrome and the calls have keeps its type; only a call that is about
\* to save the ownership has a read of it, and only a group of an open tab has a
\* member (sessions.js, tools/tabs.js).
THEOREM TypeCorrect == Spec => [](TypeInv /\ TypeOK)
<1>1. TypeInv /\ strayed \subseteq Tabs => TypeOK
  BY TabSessionsAssumption
     DEF TypeInv, TypeOK, SessionsTyped, ChromeTyped, CallsTyped, SessionStates, Owners, Saving
<1>2. Init => strayed \subseteq Tabs
  BY DEF Init
<1>. QED
  BY InitTyped, NextTyped, NextStrayed, <1>1, <1>2, PTL DEF Spec

----------------------------------------------------------------------------
(* What each step does to the sessions and the calls                       *)

\* Nothing of the other sessions changes.
Elsewhere(n) == \A m \in Names \ {n} : call'[m] = call[m] /\ getSession(m)' = getSession(m)

LEMMA SetSessionGets ==
    ASSUME SessionsTyped, NEW n \in Names, NEW s \in SessionStates, sessions' = SetSession(n, s)
    PROVE  /\ getSession(n)' = s
           /\ \A m \in Names \ {n} : getSession(m)' = getSession(m)
BY SetSessionIs DEF getSession

LEMMA SameGets ==
    ASSUME UNCHANGED sessions PROVE \A m \in Names : getSession(m)' = getSession(m)
BY DEF getSession

LEMMA RemovedGets ==
    ASSUME SessionsTyped, NEW t \in Tabs, handleTabRemoved(t), NEW m \in Names
    PROVE  /\ getSession(m)'.groupId = getSession(m).groupId
           /\ getSession(m)'.tabIds = getSession(m).tabIds \ {t}
           /\ \/ getSession(m)'.activeTabId = getSession(m).activeTabId
                 /\ ~(t \in getSession(m).tabIds /\ getSession(m).activeTabId = t)
              \/ Tracked(getSession(m)')
<1>1. CASE m \in DOMAIN sessions
  BY <1>1, RemovedIs DEF getSession
<1>2. CASE m \notin DOMAIN sessions
  BY <1>2, RemovedIs, TabSessionsAssumption DEF getSession, NoSession
<1>. QED
  BY <1>1, <1>2

LEMMA ReconcileDoes ==
    ASSUME TypeInv, NEW n \in Names, NEW c \in CallStates, c.id = None, reconcile(n, c)
    PROVE  /\ Elsewhere(n)
           /\ getSession(n)'.tabIds = getSession(n).tabIds
           /\ getSession(n)'.activeTabId = getSession(n).activeTabId
           /\ call'[n].pc \in {"acquire", "close all", "idle", "adopt"}
           /\ call'[n].tool = "navigate" => c.tool = "navigate"
           /\ \E read :
                /\ ~disturbed' => read = ownedGroups
                /\ \/ /\ groupsOf(n, read) = {}
                      /\ getSession(n)'.groupId \in {getSession(n).groupId, None}
                      /\ call'[n].pc \in {"acquire", "close all", "idle"}
                   \/ /\ getSession(n)'.groupId \in groupsOf(n, read)
                      /\ call'[n].groupId = getSession(n)'.groupId
                      /\ call'[n].todo = groupsOf(n, read) \ {call'[n].groupId}
                      /\ call'[n].pc = "adopt"
<1> DEFINE s == getSession(n)
<1>1. s \in SessionStates
  BY SessionState DEF TypeInv
<1>0. PICK read \in {ownedGroups, Nobody} :
        /\ ~disturbed' => read = ownedGroups
        /\ \/ /\ groupsOf(n, read) = {}
              /\ \E kept \in {s.groupId, None} : sessions' = SetSession(n, [s EXCEPT !.groupId = kept])
              /\ Reconciled(n, c, s)
           \/ \E g \in groupsOf(n, read) :
                /\ sessions' = SetSession(n, [s EXCEPT !.groupId = g])
                /\ GoSave(n, [c EXCEPT !.pc = "adopt", !.groupId = g, !.todo = groupsOf(n, read) \ {g}])
  BY ReconcileIs
<1>2. groupsOf(n, read) \subseteq Groups /\ LiveGroups \subseteq Groups
  BY LiveAreGroups DEF groupsOf, TypeInv
<1>3. ASSUME NEW kept \in {s.groupId, None}, groupsOf(n, read) = {},
             sessions' = SetSession(n, [s EXCEPT !.groupId = kept]), Reconciled(n, c, s)
      PROVE  /\ Elsewhere(n)
             /\ getSession(n)' = [s EXCEPT !.groupId = kept]
             /\ call'[n].pc \in {"acquire", "close all", "idle"}
             /\ call'[n].tool = "navigate" => c.tool = "navigate"
  <2>1. [s EXCEPT !.groupId = kept] \in SessionStates
    BY <1>1, <1>2 DEF SessionStates
  <2>2. /\ getSession(n)' = [s EXCEPT !.groupId = kept]
        /\ \A m \in Names \ {n} : getSession(m)' = getSession(m)
    BY <1>3, <2>1, SetSessionGets DEF TypeInv
  <2>3. /\ call'[n].pc \in {"acquire", "close all", "idle"}
        /\ \A m \in Names \ {n} : call'[m] = call[m]
        /\ call'[n].tool = "navigate" => c.tool = "navigate"
    BY <1>1, <1>3, ReconciledTyped DEF TypeInv
  <2>. QED
    BY <2>2, <2>3 DEF Elsewhere
<1>4. ASSUME NEW g \in groupsOf(n, read),
             sessions' = SetSession(n, [s EXCEPT !.groupId = g]),
             GoSave(n, [c EXCEPT !.pc = "adopt", !.groupId = g, !.todo = groupsOf(n, read) \ {g}])
      PROVE  /\ Elsewhere(n)
             /\ getSession(n)' = [s EXCEPT !.groupId = g]
             /\ call'[n] = [c EXCEPT !.pc = "adopt", !.groupId = g, !.todo = groupsOf(n, read) \ {g}]
  <2>1. [s EXCEPT !.groupId = g] \in SessionStates
    BY <1>1, <1>2 DEF SessionStates
  <2>2. /\ getSession(n)' = [s EXCEPT !.groupId = g]
        /\ \A m \in Names \ {n} : getSession(m)' = getSession(m)
    BY <1>4, <2>1, SetSessionGets DEF TypeInv
  <2>3. call' = [call EXCEPT ![n] = [c EXCEPT !.pc = "adopt", !.groupId = g, !.todo = groupsOf(n, read) \ {g}]]
    BY <1>4 DEF GoSave
  <2>. QED
    BY <2>2, <2>3 DEF Elsewhere, TypeInv, CallsTyped
<1>5. s.tabIds = [s EXCEPT !.groupId = None].tabIds
  BY <1>1 DEF SessionStates
<1>6. ASSUME NEW g
      PROVE  /\ [s EXCEPT !.groupId = g].groupId = g
             /\ [s EXCEPT !.groupId = g].tabIds = s.tabIds
             /\ [s EXCEPT !.groupId = g].activeTabId = s.activeTabId
  BY <1>1 DEF SessionStates
<1>7. ASSUME NEW g
      PROVE  LET d == [c EXCEPT !.pc = "adopt", !.groupId = g, !.todo = groupsOf(n, read) \ {g}] IN
               d.pc = "adopt" /\ d.groupId = g /\ d.todo = groupsOf(n, read) \ {g} /\ d.tool = c.tool
  BY DEF CallStates
<1>8. CASE groupsOf(n, read) = {}
  <2>1. PICK kept \in {s.groupId, None} :
             sessions' = SetSession(n, [s EXCEPT !.groupId = kept]) /\ Reconciled(n, c, s)
    BY <1>0, <1>8
  <2>. QED
    BY <1>0, <1>3, <1>6, <1>8, <2>1
<1>9. CASE groupsOf(n, read) # {}
  <2>1. PICK g \in groupsOf(n, read) :
             /\ sessions' = SetSession(n, [s EXCEPT !.groupId = g])
             /\ GoSave(n, [c EXCEPT !.pc = "adopt", !.groupId = g, !.todo = groupsOf(n, read) \ {g}])
    BY <1>0, <1>9
  <2>2. /\ Elsewhere(n)
        /\ getSession(n)' = [s EXCEPT !.groupId = g]
        /\ call'[n] = [c EXCEPT !.pc = "adopt", !.groupId = g, !.todo = groupsOf(n, read) \ {g}]
    BY <1>4, <2>1
  <2>3. getSession(n)'.groupId = g /\ getSession(n)'.tabIds = s.tabIds
        /\ getSession(n)'.activeTabId = s.activeTabId
    BY <1>6, <2>2
  <2>4. /\ call'[n].pc = "adopt" /\ call'[n].groupId = g
        /\ call'[n].todo = groupsOf(n, read) \ {g} /\ call'[n].tool = c.tool
    BY <1>7, <2>2
  <2>. QED
    BY <1>0, <2>1, <2>2, <2>3, <2>4
<1>. QED
  BY <1>8, <1>9

\* Calls and sessions after a step that ends, or suspends as c.
LEMMA GoDoes ==
    ASSUME TypeInv, NEW n \in Names, NEW c, Go(n, c) \/ GoSave(n, c)
    PROVE  call'[n] = c /\ \A m \in Names \ {n} : call'[m] = call[m]
BY DEF TypeInv, CallsTyped, Go, GoSave

LEMMA AdoptDoes ==
    ASSUME TypeInv, NEW n \in Names, Adopt(n)
    PROVE  LET s == getSession(n) IN
           /\ Elsewhere(n)
           /\ getSession(n)'.groupId = s.groupId
           /\ getSession(n)'.tabIds = s.tabIds \union TabsIn(call[n].groupId)
           /\ call[n].todo # {} => getSession(n)'.activeTabId = s.activeTabId
           /\ call[n].todo = {} =>
                /\ IF Open(s.activeTabId) THEN getSession(n)'.activeTabId = s.activeTabId
                   ELSE Tracked(getSession(n)')
                /\ call'[n].pc \in {"acquire", "close all", "idle"}
           /\ call'[n].pc \in {"adopt", "acquire", "close all", "idle"}
           /\ call'[n].tool = "navigate" => call[n].tool = "navigate"
<1> DEFINE s == getSession(n)
           all == s.tabIds \union TabsIn(call[n].groupId)
           new(a) == [s EXCEPT !.tabIds = all, !.activeTabId = a]
<1>1. s \in SessionStates /\ TabsIn(call[n].groupId) \in SUBSET Tabs
  BY SessionState DEF TypeInv, TabsIn
<1>2. /\ Ready(call[n]) /\ call[n] \in CallStates /\ call[n].pc = "adopt" /\ call[n].id = None
  BY DEF Adopt, At, TypeInv, CallsTyped, Ready
<1>3. PICK a \in Tabs \union {None} :
        /\ IF call[n].todo = {} /\ ~Open(s.activeTabId)
             THEN IF all = {} THEN a = None ELSE a \in all
             ELSE a = s.activeTabId
        /\ sessions' = SetSession(n, new(a))
        /\ \/ call[n].todo = {} /\ Reconciled(n, call[n], new(a))
           \/ \E g \in call[n].todo :
                GoSave(n, [call[n] EXCEPT !.groupId = g, !.todo = @ \ {g}])
  BY DEF Adopt
<1>4. /\ new(a) \in SessionStates /\ new(a).groupId = s.groupId
      /\ new(a).tabIds = all /\ new(a).activeTabId = a
  BY <1>1 DEF SessionStates
<1> HIDE DEF new
<1>5. /\ getSession(n)' = new(a)
      /\ \A m \in Names \ {n} : getSession(m)' = getSession(m)
  BY <1>3, <1>4, SetSessionGets DEF TypeInv
<1>6. CASE call[n].todo = {}
  <2>1. /\ call'[n].pc \in {"acquire", "close all", "idle"}
        /\ call'[n].tool = "navigate" => call[n].tool = "navigate"
        /\ \A m \in Names \ {n} : call'[m] = call[m]
    BY <1>2, <1>3, <1>4, <1>6, ReconciledTyped DEF TypeInv
  <2>2. IF Open(s.activeTabId) THEN a = s.activeTabId ELSE Tracked(new(a))
    BY <1>3, <1>4, <1>6 DEF Tracked
  <2>. QED
    BY <1>4, <1>5, <1>6, <2>1, <2>2 DEF Elsewhere
<1>7. CASE call[n].todo # {} /\ call'[n].pc = "adopt" /\ call'[n].tool = call[n].tool
           /\ \A m \in Names \ {n} : call'[m] = call[m]
  BY <1>3, <1>4, <1>5, <1>7 DEF Elsewhere
<1>8. ASSUME NEW g \in call[n].todo, GoSave(n, [call[n] EXCEPT !.groupId = g, !.todo = @ \ {g}])
      PROVE  /\ call'[n].pc = "adopt" /\ call'[n].tool = call[n].tool
             /\ \A m \in Names \ {n} : call'[m] = call[m]
  <2> DEFINE d == [call[n] EXCEPT !.groupId = g, !.todo = @ \ {g}]
  <2>1. d.pc = "adopt" /\ d.tool = call[n].tool
    BY <1>2 DEF CallStates
  <2>2. GoSave(n, d)
    BY <1>8
  <2> HIDE DEF d
  <2>. QED
    BY <2>1, <2>2, GoDoes
<1>. QED
  BY <1>3, <1>6, <1>7, <1>8

LEMMA AcquireDoes ==
    ASSUME TypeInv, NEW n \in Names, Acquire(n)
    PROVE  LET active == getSession(n).activeTabId
               c == call'[n] IN
           /\ Elsewhere(n) /\ getSession(n)' = getSession(n)
           /\ \/ c = Idle /\ UNCHANGED strayed
              \/ /\ c.tool = "navigate" /\ c.pc \in {"create", "go", "replace"}
                 /\ c.pc = "create" => ~Open(active)
                 /\ c.pc = "go" => Open(active) /\ c.id = active
                 /\ c.pc = "replace" => Open(active)
                 /\ ensureDomainTabLimits(c.url, IF Open(active) THEN active ELSE None, TRUE)
<1> DEFINE active == getSession(n).activeTabId
           allowed(h) == ensureDomainTabLimits(h, IF Open(active) THEN active ELSE None, TRUE)
           refused(h) == ensureDomainTabLimits(h, IF Open(active) THEN active ELSE None, FALSE)
<1>1. call[n] \in CallStates /\ call[n].tool = "navigate"
  BY DEF Acquire, At, TypeInv, CallsTyped, Ready
<1>2. PICK h \in Hosts :
        LET c == [call[n] EXCEPT !.url = h] IN
          \/ refused(h) /\ Ends(n)
          \/ allowed(h) /\ ~Open(active) /\ Go(n, [c EXCEPT !.pc = "create"])
          \/ allowed(h) /\ Open(active) /\ Go(n, [c EXCEPT !.pc = "go", !.id = active])
          \/ allowed(h) /\ Open(active) /\ Go(n, [c EXCEPT !.pc = "replace"])
  BY DEF Acquire
<1> DEFINE created == [[call[n] EXCEPT !.url = h] EXCEPT !.pc = "create"]
           going == [[call[n] EXCEPT !.url = h] EXCEPT !.pc = "go", !.id = active]
           replacing == [[call[n] EXCEPT !.url = h] EXCEPT !.pc = "replace"]
<1>3. /\ created.tool = "navigate" /\ created.pc = "create" /\ created.url = h
      /\ going.tool = "navigate" /\ going.pc = "go" /\ going.url = h /\ going.id = active
      /\ replacing.tool = "navigate" /\ replacing.pc = "replace" /\ replacing.url = h
  BY <1>1 DEF CallStates
<1>4. \/ refused(h) /\ Go(n, Idle)
      \/ allowed(h) /\ ~Open(active) /\ Go(n, created)
      \/ allowed(h) /\ Open(active) /\ Go(n, going)
      \/ allowed(h) /\ Open(active) /\ Go(n, replacing)
  BY <1>2 DEF Ends
<1> HIDE DEF allowed, refused, created, going, replacing
<1>5. \A m \in Names : getSession(m)' = getSession(m)
  BY SameGets DEF Acquire
<1>6. CASE refused(h) /\ Go(n, Idle)
  <2>1. UNCHANGED strayed
    BY <1>6 DEF refused, ensureDomainTabLimits
  <2>. QED
    BY <1>5, <1>6, <2>1, GoDoes DEF Elsewhere
<1>7. CASE allowed(h) /\ ~Open(active) /\ Go(n, created)
  BY <1>3, <1>5, <1>7, GoDoes DEF Elsewhere, allowed
<1>8. CASE allowed(h) /\ Open(active) /\ Go(n, going)
  BY <1>3, <1>5, <1>8, GoDoes DEF Elsewhere, allowed
<1>9. CASE allowed(h) /\ Open(active) /\ Go(n, replacing)
  BY <1>3, <1>5, <1>9, GoDoes DEF Elsewhere, allowed
<1>. QED
  BY <1>4, <1>6, <1>7, <1>8, <1>9

LEMMA CreateDoes ==
    ASSUME TypeInv, NEW n \in Names, Create(n)
    PROVE  \E t \in FreeTabs :
             /\ Elsewhere(n)
             /\ url' = [url EXCEPT ![t] = Blank]
             /\ getSession(n)'.groupId = getSession(n).groupId
             /\ getSession(n)'.tabIds = getSession(n).tabIds \union {t}
             /\ getSession(n)'.activeTabId = t
             /\ call'[n].pc = "group" /\ call'[n].id = t
             /\ call'[n].tool = "navigate" /\ call'[n].url = call[n].url
<1>1. PICK t \in FreeTabs :
        /\ url' = [url EXCEPT ![t] = Blank]
        /\ sessions' = SetSession(n, [getSession(n) EXCEPT !.tabIds = @ \union {t},
                                                           !.activeTabId = t])
        /\ Go(n, [call[n] EXCEPT !.pc = "group", !.id = t])
  BY DEF Create
<1> DEFINE s == [getSession(n) EXCEPT !.tabIds = @ \union {t}, !.activeTabId = t]
           c == [call[n] EXCEPT !.pc = "group", !.id = t]
<1>2. getSession(n) \in SessionStates /\ t \in Tabs
  BY SessionState DEF TypeInv, FreeTabs
<1>3. /\ s \in SessionStates /\ s.groupId = getSession(n).groupId
      /\ s.tabIds = getSession(n).tabIds \union {t} /\ s.activeTabId = t
  BY <1>2 DEF SessionStates
<1>4. c.pc = "group" /\ c.id = t /\ c.tool = "navigate" /\ c.url = call[n].url
  BY DEF Create, At, TypeInv, CallsTyped, Ready, CallStates
<1>5. sessions' = SetSession(n, s) /\ Go(n, c)
  BY <1>1
<1> HIDE DEF s, c
<1>6. getSession(n)' = s /\ call'[n] = c /\ Elsewhere(n)
  BY <1>3, <1>5, SetSessionGets, GoDoes DEF TypeInv, Elsewhere
<1>. QED
  BY <1>1, <1>3, <1>4, <1>6

\* The tab of a call joins group g, which is new or the session's.
Joins(n, g) ==
    /\ groupOf' = [groupOf EXCEPT ![call[n].id] = g]
    /\ Open(call[n].id) /\ getSession(n)'.groupId = g /\ call'[n].groupId = g

LEMMA GroupDoes ==
    ASSUME TypeInv, NEW n \in Names, Group(n)
    PROVE  /\ Elsewhere(n)
           /\ getSession(n)'.tabIds = getSession(n).tabIds
           /\ getSession(n)'.activeTabId = getSession(n).activeTabId
           /\ call'[n].tool = "navigate" /\ call'[n].id = call[n].id /\ call'[n].url = call[n].url
           /\ UNCHANGED <<url, title, ownedGroups, disturbed>>
           /\ \/ /\ UNCHANGED <<groupOf, maker>> /\ call'[n].pc = "go"
                 /\ getSession(n)' = getSession(n)
              \/ /\ UNCHANGED maker /\ call'[n].pc = "record"
                 /\ getSession(n).groupId \in LiveGroups /\ Joins(n, getSession(n).groupId)
              \/ \E g \in FreeGroups :
                   /\ maker' = [maker EXCEPT ![g] = n] /\ call'[n].pc = "entitle"
                   /\ getSession(n).groupId = None /\ Joins(n, g)
<1> DEFINE s == getSession(n)
           joined(g, then) == [call[n] EXCEPT !.pc = then, !.groupId = g]
           going == [call[n] EXCEPT !.pc = "go"]
<1>1. call[n] \in CallStates /\ call[n].tool = "navigate" /\ s \in SessionStates
  BY SessionState DEF Group, At, TypeInv, CallsTyped, Ready
<1>2. ASSUME NEW g, NEW then
      PROVE  /\ joined(g, then).pc = then /\ joined(g, then).groupId = g
             /\ joined(g, then).tool = "navigate"
             /\ joined(g, then).id = call[n].id /\ joined(g, then).url = call[n].url
  BY <1>1 DEF CallStates
<1>3. going.pc = "go" /\ going.tool = "navigate" /\ going.id = call[n].id /\ going.url = call[n].url
  BY <1>1 DEF CallStates
<1> HIDE DEF joined, going
<1>4. CASE /\ Open(call[n].id) /\ s.groupId \in LiveGroups /\ StillSaved
           /\ groupOf' = [groupOf EXCEPT ![call[n].id] = s.groupId] /\ UNCHANGED url
           /\ GoSave(n, joined(s.groupId, "record")) /\ UNCHANGED <<sessions, title>>
  <2>1. \A m \in Names : getSession(m)' = getSession(m)
    BY <1>4, SameGets
  <2>2. call'[n] = joined(s.groupId, "record") /\ \A m \in Names \ {n} : call'[m] = call[m]
    BY <1>4, GoDoes
  <2>. QED
    BY <1>2, <1>4, <2>1, <2>2 DEF StillSaved, ghostVars, Elsewhere, Joins
<1>5. ASSUME NEW g \in FreeGroups, Open(call[n].id), s.groupId = None,
             groupOf' = [groupOf EXCEPT ![call[n].id] = g], UNCHANGED url,
             GoSave(n, joined(g, "entitle")), sessions' = SetSession(n, [s EXCEPT !.groupId = g]),
             maker' = [maker EXCEPT ![g] = n], UNCHANGED <<ownedGroups, title, disturbed>>
      PROVE  /\ Elsewhere(n)
             /\ getSession(n)'.tabIds = s.tabIds
             /\ getSession(n)'.activeTabId = s.activeTabId
             /\ call'[n] = joined(g, "entitle")
             /\ Joins(n, g)
  <2>1. /\ [s EXCEPT !.groupId = g] \in SessionStates
        /\ [s EXCEPT !.groupId = g].groupId = g
        /\ [s EXCEPT !.groupId = g].tabIds = s.tabIds
        /\ [s EXCEPT !.groupId = g].activeTabId = s.activeTabId
    BY <1>1, <1>5 DEF SessionStates, FreeGroups
  <2>2. /\ getSession(n)' = [s EXCEPT !.groupId = g]
        /\ \A m \in Names \ {n} : getSession(m)' = getSession(m)
    BY <1>5, <2>1, SetSessionGets DEF TypeInv
  <2>3. call'[n] = joined(g, "entitle") /\ \A m \in Names \ {n} : call'[m] = call[m]
    BY <1>5, GoDoes
  <2>. QED
    BY <1>2, <1>5, <2>1, <2>2, <2>3 DEF Elsewhere, Joins
<1>6. CASE Go(n, going) /\ UNCHANGED <<sessions, chromeVars>> /\ StillSaved
  <2>1. \A m \in Names : getSession(m)' = getSession(m)
    BY <1>6, SameGets
  <2>2. call'[n] = going /\ \A m \in Names \ {n} : call'[m] = call[m]
    BY <1>6, GoDoes
  <2>. QED
    BY <1>3, <1>6, <2>1, <2>2 DEF StillSaved, ghostVars, chromeVars, Elsewhere
<1>7. CASE \E g \in FreeGroups :
             /\ Open(call[n].id) /\ s.groupId = None
             /\ groupOf' = [groupOf EXCEPT ![call[n].id] = g] /\ UNCHANGED url
             /\ GoSave(n, joined(g, "entitle")) /\ sessions' = SetSession(n, [s EXCEPT !.groupId = g])
             /\ maker' = [maker EXCEPT ![g] = n] /\ UNCHANGED <<ownedGroups, title, disturbed>>
  <2>1. PICK g \in FreeGroups :
             /\ Open(call[n].id) /\ s.groupId = None
             /\ groupOf' = [groupOf EXCEPT ![call[n].id] = g] /\ UNCHANGED url
             /\ GoSave(n, joined(g, "entitle")) /\ sessions' = SetSession(n, [s EXCEPT !.groupId = g])
             /\ maker' = [maker EXCEPT ![g] = n] /\ UNCHANGED <<ownedGroups, title, disturbed>>
    BY <1>7
  <2>2. /\ Elsewhere(n)
        /\ getSession(n)'.tabIds = s.tabIds
        /\ getSession(n)'.activeTabId = s.activeTabId
        /\ call'[n] = joined(g, "entitle")
        /\ Joins(n, g)
    BY <1>5, <2>1
  <2>3. /\ call'[n].pc = "entitle" /\ call'[n].tool = "navigate"
        /\ call'[n].id = call[n].id /\ call'[n].url = call[n].url
    BY <1>2, <2>2
  <2>. QED
    BY <2>1, <2>2, <2>3
<1>. QED
  BY <1>4, <1>6, <1>7 DEF Group, joined, going

LEMMA EntitleDoes ==
    ASSUME TypeInv, NEW n \in Names, Entitle(n)
    PROVE  LET g == call[n].groupId IN
           /\ Elsewhere(n) /\ getSession(n)' = getSession(n)
           /\ UNCHANGED <<url, groupOf, ownedGroups, maker, disturbed>>
           /\ call'[n].tool = "navigate" /\ call'[n].id = call[n].id /\ call'[n].url = call[n].url
           /\ \/ /\ g \in LiveGroups /\ title' = [title EXCEPT ![g] = n]
                 /\ call'[n].pc = "record" /\ call'[n].groupId = g
              \/ g \notin LiveGroups /\ UNCHANGED title /\ call'[n].pc = "go"
<1> DEFINE g == call[n].groupId
           recording == [call[n] EXCEPT !.pc = "record"]
           going == [call[n] EXCEPT !.pc = "go", !.groupId = None]
<1>1. call[n] \in CallStates /\ call[n].tool = "navigate"
  BY DEF Entitle, At, TypeInv, CallsTyped, Ready
<1>2. /\ recording.pc = "record" /\ recording.groupId = g /\ recording.tool = "navigate"
      /\ recording.id = call[n].id /\ recording.url = call[n].url
      /\ going.pc = "go" /\ going.tool = "navigate" /\ going.id = call[n].id /\ going.url = call[n].url
  BY <1>1 DEF CallStates
<1>3. \/ g \in LiveGroups /\ title' = [title EXCEPT ![g] = n] /\ GoSave(n, recording)
      \/ g \notin LiveGroups /\ UNCHANGED title /\ Go(n, going)
  BY DEF Entitle
<1> HIDE DEF recording, going
<1>4. /\ \A m \in Names : getSession(m)' = getSession(m)
      /\ UNCHANGED <<url, groupOf, ownedGroups, maker, disturbed>>
  BY SameGets DEF Entitle, StillSaved, ghostVars
<1>. QED
  BY <1>2, <1>3, <1>4, GoDoes DEF Elsewhere

LEMMA RecordDoes ==
    ASSUME TypeInv, NEW n \in Names, Record(n)
    PROVE  /\ Elsewhere(n) /\ getSession(n)' = getSession(n)
           /\ \/ call'[n] = Idle
              \/ /\ call'[n].pc = "go" /\ call[n].id # None
                 /\ call'[n].tool = call[n].tool /\ call'[n].id = call[n].id
                 /\ call'[n].url = call[n].url
<1> DEFINE going == [call[n] EXCEPT !.pc = "go", !.groupId = None]
<1>1. /\ going.pc = "go" /\ going.tool = call[n].tool /\ going.id = call[n].id
      /\ going.url = call[n].url
  BY DEF TypeInv, CallsTyped, CallStates
<1>2. Go(n, Idle) \/ (call[n].id # None /\ Go(n, going))
  BY DEF Record, Ends
<1> HIDE DEF going
<1>3. \A m \in Names : getSession(m)' = getSession(m)
  BY SameGets DEF Record
<1>. QED
  BY <1>1, <1>2, <1>3, GoDoes DEF Elsewhere

LEMMA UpdateDoes ==
    ASSUME TypeInv, NEW n \in Names, Update(n)
    PROVE  /\ Elsewhere(n) /\ getSession(n)' = getSession(n)
           /\ call'[n].pc \in {"idle", "retitle"} /\ call'[n].tool # "navigate"
           /\ UNCHANGED <<groupOf, title, ownedGroups, maker, disturbed>>
           /\ \/ /\ Open(call[n].id) /\ url' = [url EXCEPT ![call[n].id] = call[n].url]
                 /\ strayed' = strayed \ {call[n].id}
              \/ UNCHANGED <<url, strayed>>
<1> DEFINE waiting == [Idle EXCEPT !.pc = "retitle", !.id = call[n].id]
<1>1. waiting.pc = "retitle" /\ waiting.tool # "navigate" /\ Idle.pc = "idle" /\ Idle.tool # "navigate"
  BY TabSessionsAssumption DEF Idle
<1>2. Go(n, Idle) \/ Go(n, waiting)
  BY DEF Update, Ends
<1> HIDE DEF waiting
<1>3. /\ \A m \in Names : getSession(m)' = getSession(m)
      /\ UNCHANGED <<groupOf, title, ownedGroups, maker, disturbed>>
  BY SameGets DEF Update, StillSaved, ghostVars
<1>4. \/ /\ Open(call[n].id) /\ url' = [url EXCEPT ![call[n].id] = call[n].url]
         /\ strayed' = strayed \ {call[n].id}
      \/ UNCHANGED <<url, strayed>>
  BY DEF Update
<1>. QED
  BY <1>1, <1>2, <1>3, <1>4, GoDoes DEF Elsewhere

LEMMA RetitleDoes ==
    ASSUME TypeInv, NEW n \in Names, Retitle(n)
    PROVE  LET g == getSession(n).groupId IN
           /\ Elsewhere(n) /\ getSession(n)' = getSession(n)
           /\ call'[n].tool # "navigate"
           /\ UNCHANGED <<url, groupOf, ownedGroups, maker, disturbed>>
           /\ \/ /\ g \in LiveGroups /\ title' = [title EXCEPT ![g] = Custom]
                 /\ call'[n].pc = "record" /\ call'[n].groupId = g
              \/ call'[n].pc = "idle" /\ UNCHANGED title
<1> DEFINE g == getSession(n).groupId
           recording == [Idle EXCEPT !.pc = "record", !.groupId = g]
<1>1. /\ recording.pc = "record" /\ recording.groupId = g /\ recording.tool # "navigate"
      /\ Idle.pc = "idle" /\ Idle.tool # "navigate"
  BY TabSessionsAssumption DEF Idle
<1>2. \/ g \in LiveGroups /\ title' = [title EXCEPT ![g] = Custom] /\ GoSave(n, recording)
      \/ Go(n, Idle) /\ UNCHANGED title
  BY DEF Retitle, Ends
<1> HIDE DEF recording
<1>3. /\ \A m \in Names : getSession(m)' = getSession(m)
      /\ UNCHANGED <<url, groupOf, ownedGroups, maker, disturbed>>
  BY SameGets DEF Retitle, StillSaved, ghostVars
<1>. QED
  BY <1>1, <1>2, <1>3, GoDoes DEF Elsewhere

LEMMA BindTabDoes ==
    ASSUME TypeInv, NEW n \in Names, NEW t \in Tabs, bindTab(n, t)
    PROVE  /\ getSession(n)'.groupId = getSession(n).groupId
           /\ getSession(n)'.tabIds = getSession(n).tabIds \union {t}
           /\ getSession(n)'.activeTabId = t
           /\ \A m \in Names \ {n} : getSession(m)' = getSession(m)
<1> DEFINE s == [getSession(n) EXCEPT !.tabIds = @ \union {t}, !.activeTabId = t]
<1>1. /\ s \in SessionStates /\ s.groupId = getSession(n).groupId
      /\ s.tabIds = getSession(n).tabIds \union {t} /\ s.activeTabId = t
  BY SessionState DEF TypeInv, SessionStates
<1>2. sessions' = SetSession(n, s)
  BY DEF bindTab
<1> HIDE DEF s
<1>. QED
  BY <1>1, <1>2, SetSessionGets DEF TypeInv

LEMMA EndsDoes ==
    ASSUME TypeInv, NEW n \in Names, Ends(n)
    PROVE  /\ call'[n] = Idle /\ call'[n].pc = "idle" /\ call'[n].tool # "navigate"
           /\ \A m \in Names \ {n} : call'[m] = call[m]
BY GoDoes, IdleReady, TabSessionsAssumption DEF Ends

\* What a call does that closes the active tab.
LEMMA CloseActiveTabDoes ==
    ASSUME TypeInv, NEW n \in Names, NEW then, closeActiveTab(n, then)
    PROVE  LET t == getSession(n).activeTabId IN
           /\ \A m \in Names \ {n} : call'[m] = call[m]
           /\ \/ /\ call'[n] = Idle /\ UNCHANGED chromeVars /\ StillSaved
                 /\ Elsewhere(n) /\ getSession(n)' = getSession(n)
              \/ t \in Tabs /\ call'[n] = then /\ CloseTab(t)
              \/ /\ t \in Tabs /\ call'[n] = then /\ ~Open(t) /\ UNCHANGED chromeVars /\ StillSaved
                 /\ handleTabRemoved(t)
<1> DEFINE t == getSession(n).activeTabId
<1>1. getSession(n) \in SessionStates /\ t \in Tabs \union {None}
  BY SessionState DEF TypeInv, SessionStates
<1>2. CASE /\ sessions' = SetSession(n, getSession(n)) /\ Ends(n)
           /\ UNCHANGED chromeVars /\ StillSaved
  BY <1>1, <1>2, SetSessionGets, EndsDoes DEF TypeInv, Elsewhere
<1>3. CASE t \in Tabs /\ CloseTab(t) /\ Go(n, then)
  BY <1>3, GoDoes
<1>4. CASE /\ t \in Tabs /\ ~Open(t) /\ handleTabRemoved(t) /\ UNCHANGED chromeVars
           /\ StillSaved /\ Go(n, then)
  BY <1>4, GoDoes
<1>. QED
  BY <1>1, <1>2, <1>3, <1>4 DEF closeActiveTab

LEMMA CloseNextDoes ==
    ASSUME TypeInv, NEW n \in Names, CloseNext(n)
    PROVE  /\ call'[n].pc = "close all" /\ call'[n].tool = call[n].tool
           /\ \A m \in Names \ {n} : call'[m] = call[m]
           /\ \/ \E t \in Tabs : CloseTab(t)
              \/ /\ Elsewhere(n) /\ UNCHANGED chromeVars /\ StillSaved
                 /\ getSession(n)' = getSession(n)
              \/ \E t \in Tabs :
                   /\ ~Open(t) /\ Elsewhere(n) /\ UNCHANGED chromeVars /\ StillSaved
                   /\ getSession(n)'.groupId = getSession(n).groupId
                   /\ getSession(n)'.tabIds = getSession(n).tabIds \ {t}
                   /\ getSession(n)'.activeTabId = getSession(n).activeTabId
<1>1. PICK t \in call[n].todo :
        /\ Go(n, [call[n] EXCEPT !.todo = @ \ {t}])
        /\ \/ CloseTab(t)
           \/ UNCHANGED <<sessions, chromeVars>> /\ StillSaved
           \/ /\ ~Open(t)
              /\ sessions' = SetSession(n, [getSession(n) EXCEPT !.tabIds = @ \ {t}])
              /\ UNCHANGED chromeVars /\ StillSaved
  BY DEF CloseNext
<1> DEFINE c == [call[n] EXCEPT !.todo = @ \ {t}]
           s == [getSession(n) EXCEPT !.tabIds = @ \ {t}]
<1>2. /\ t \in Tabs /\ c.pc = "close all" /\ c.tool = call[n].tool
  BY DEF CloseNext, At, TypeInv, CallsTyped, Ready, CallStates
<1>3. /\ s \in SessionStates /\ s.groupId = getSession(n).groupId
      /\ s.tabIds = getSession(n).tabIds \ {t} /\ s.activeTabId = getSession(n).activeTabId
  BY SessionState DEF TypeInv, SessionStates
<1>4. Go(n, c) /\ (\/ CloseTab(t)
                   \/ UNCHANGED <<sessions, chromeVars>> /\ StillSaved
                   \/ ~Open(t) /\ sessions' = SetSession(n, s) /\ UNCHANGED chromeVars /\ StillSaved)
  BY <1>1
<1> HIDE DEF c, s
<1>5. /\ call'[n].pc = "close all" /\ call'[n].tool = call[n].tool
      /\ \A m \in Names \ {n} : call'[m] = call[m]
  BY <1>2, <1>4, GoDoes
<1>6. CASE CloseTab(t)
  BY <1>2, <1>5, <1>6
<1>7. CASE UNCHANGED <<sessions, chromeVars>> /\ StillSaved
  BY <1>5, <1>7, SameGets DEF Elsewhere
<1>8. CASE ~Open(t) /\ sessions' = SetSession(n, s) /\ UNCHANGED chromeVars /\ StillSaved
  BY <1>2, <1>3, <1>5, <1>8, SetSessionGets DEF Elsewhere, TypeInv
<1>. QED
  BY <1>4, <1>6, <1>7, <1>8

LEMMA ClosedDoes ==
    ASSUME TypeInv, NEW n \in Names, Closed(n)
    PROVE  LET s == getSession(n) IN
           /\ Elsewhere(n) /\ UNCHANGED chromeVars /\ StillSaved
           /\ call'[n].tool # "navigate"
           /\ \/ /\ s.tabIds = {} /\ call'[n].pc = "forget session"
                 /\ getSession(n)' = NoSession /\ n \notin DOMAIN sessions'
              \/ /\ s.tabIds # {} /\ call'[n].pc = "idle"
                 /\ getSession(n)'.groupId = s.groupId /\ getSession(n)'.tabIds = s.tabIds
                 /\ getSession(n)'.activeTabId
                      \in IF Open(s.activeTabId) THEN {s.activeTabId} ELSE s.tabIds
                 /\ n \in DOMAIN sessions'
<1> DEFINE s == getSession(n)
           forgetting == [Idle EXCEPT !.pc = "forget session"]
<1>1. forgetting.pc = "forget session" /\ forgetting.tool # "navigate"
  BY TabSessionsAssumption DEF Idle
<1>2. UNCHANGED chromeVars /\ StillSaved
  BY DEF Closed
<1>3. CASE /\ s.tabIds = {} /\ sessions' = [m \in DOMAIN sessions \ {n} |-> sessions[m]]
           /\ GoSave(n, forgetting)
  <2>1. /\ getSession(n)' = NoSession /\ n \notin DOMAIN sessions'
        /\ \A m \in Names \ {n} : getSession(m)' = getSession(m)
    BY <1>3 DEF getSession
  <2> HIDE DEF forgetting
  <2>2. call'[n] = forgetting /\ \A m \in Names \ {n} : call'[m] = call[m]
    BY <1>3, GoDoes
  <2>. QED
    BY <1>1, <1>2, <1>3, <2>1, <2>2 DEF Elsewhere
<1>4. ASSUME NEW a \in IF Open(s.activeTabId) THEN {s.activeTabId} ELSE s.tabIds,
             s.tabIds # {}, Ends(n), sessions' = SetSession(n, [s EXCEPT !.activeTabId = a])
      PROVE  /\ Elsewhere(n) /\ call'[n].tool # "navigate" /\ call'[n].pc = "idle"
             /\ getSession(n)'.groupId = s.groupId /\ getSession(n)'.tabIds = s.tabIds
             /\ getSession(n)'.activeTabId = a
             /\ n \in DOMAIN sessions'
  <2> DEFINE r == [s EXCEPT !.activeTabId = a]
  <2>1. /\ r \in SessionStates /\ r.groupId = s.groupId /\ r.tabIds = s.tabIds
        /\ r.activeTabId = a
    BY <1>4, SessionState DEF TypeInv, SessionStates
  <2>2. sessions' = SetSession(n, r)
    BY <1>4
  <2> HIDE DEF r
  <2>3. getSession(n)' = r /\ n \in DOMAIN sessions' /\ \A m \in Names \ {n} : getSession(m)' = getSession(m)
    BY <2>1, <2>2, SetSessionGets, SetSessionIs DEF TypeInv
  <2>. QED
    BY <1>4, <2>1, <2>3, EndsDoes DEF Elsewhere
<1>5. CASE /\ s.tabIds # {} /\ Ends(n)
           /\ \E a \in IF Open(s.activeTabId) THEN {s.activeTabId} ELSE s.tabIds :
                sessions' = SetSession(n, [s EXCEPT !.activeTabId = a])
  <2>1. PICK a \in IF Open(s.activeTabId) THEN {s.activeTabId} ELSE s.tabIds :
          sessions' = SetSession(n, [s EXCEPT !.activeTabId = a])
    BY <1>5
  <2>2. /\ Elsewhere(n) /\ call'[n].tool # "navigate" /\ call'[n].pc = "idle"
        /\ getSession(n)'.groupId = s.groupId /\ getSession(n)'.tabIds = s.tabIds
        /\ getSession(n)'.activeTabId = a
        /\ n \in DOMAIN sessions'
    BY <1>4, <1>5, <2>1
  <2>. QED
    BY <1>2, <1>5, <2>2
<1>. QED
  BY <1>3, <1>5 DEF Closed, AllClosed

LEMMA ForgetDoes ==
    ASSUME TypeInv, NEW n \in Names, ForgetSession(n) \/ ForgetGroup(n)
    PROVE  /\ Elsewhere(n) /\ getSession(n)' = getSession(n) /\ UNCHANGED chromeVars
           /\ call'[n].pc = "idle" /\ call'[n].tool # "navigate"
BY SameGets, EndsDoes DEF ForgetSession, ForgetGroup, Elsewhere

LEMMA GroupClosedDoes ==
    ASSUME TypeInv, NEW n \in Names, GroupClosed(n)
    PROVE  /\ Elsewhere(n) /\ getSession(n)' = getSession(n) /\ UNCHANGED chromeVars /\ StillSaved
           /\ call'[n].pc \in {"idle", "forget group"} /\ call'[n].tool # "navigate"
<1> DEFINE forgetting == [call[n] EXCEPT !.pc = "forget group"]
<1>1. forgetting.pc = "forget group" /\ forgetting.tool # "navigate"
  BY DEF GroupClosed, At, TypeInv, CallsTyped, Ready, CallStates
<1>2. Ends(n) \/ GoSave(n, forgetting)
  BY DEF GroupClosed
<1> HIDE DEF forgetting
<1>. QED
  BY <1>1, <1>2, SameGets, EndsDoes, GoDoes DEF GroupClosed, Elsewhere

LEMMA CloseGroupNextDoes ==
    ASSUME TypeInv, NEW n \in Names, CloseGroupNext(n)
    PROVE  /\ call'[n].pc = "close group" /\ call'[n].tool # "navigate"
           /\ \A m \in Names \ {n} : call'[m] = call[m]
           /\ \/ \E t \in Tabs : CloseTab(t)
              \/ Elsewhere(n) /\ UNCHANGED chromeVars /\ StillSaved /\ getSession(n)' = getSession(n)
<1>1. PICK t \in call[n].todo :
        \/ CloseTab(t) /\ Go(n, [call[n] EXCEPT !.todo = @ \ {t}])
        \/ /\ Go(n, [call[n] EXCEPT !.todo = @ \ {t}, !.remaining = @ \/ Open(t)])
           /\ UNCHANGED <<sessions, chromeVars>> /\ StillSaved
  BY DEF CloseGroupNext
<1> DEFINE c == [call[n] EXCEPT !.todo = @ \ {t}]
           d == [call[n] EXCEPT !.todo = @ \ {t}, !.remaining = @ \/ Open(t)]
<1>2. /\ t \in Tabs /\ c.pc = "close group" /\ c.tool # "navigate"
      /\ d.pc = "close group" /\ d.tool # "navigate"
  BY DEF CloseGroupNext, At, TypeInv, CallsTyped, Ready, CallStates
<1>3. \/ CloseTab(t) /\ Go(n, c)
      \/ Go(n, d) /\ UNCHANGED <<sessions, chromeVars>> /\ StillSaved
  BY <1>1
<1> HIDE DEF c, d
<1>. QED
  BY <1>2, <1>3, SameGets, GoDoes DEF Elsewhere

LEMMA FindTabDoes ==
    ASSUME TypeInv, NEW n \in Names, find_tab(n)
    PROVE  /\ Elsewhere(n) /\ getSession(n)' = getSession(n) /\ UNCHANGED chromeVars /\ StillSaved
           /\ call'[n].pc = "bind" /\ call'[n].tool # "navigate"
           /\ call'[n].url = url[call'[n].id]
<1>1. PICK t \in Tabs : Go(n, [Idle EXCEPT !.pc = "bind", !.id = t, !.url = url[t]])
  BY DEF find_tab
<1> DEFINE c == [Idle EXCEPT !.pc = "bind", !.id = t, !.url = url[t]]
<1>2. c.pc = "bind" /\ c.tool # "navigate" /\ c.id = t /\ c.url = url[t]
  BY TabSessionsAssumption DEF Idle
<1>3. Go(n, c)
  BY <1>1
<1> HIDE DEF c
<1>. QED
  BY <1>2, <1>3, SameGets, GoDoes DEF find_tab, Elsewhere

LEMMA CloseGroupDoes ==
    ASSUME TypeInv, NEW n \in Names, UNCHANGED <<sessions, chromeVars>>, NEW g,
           Go(n, [Idle EXCEPT !.pc = "close group", !.groupId = g, !.todo = TabsIn(g)])
    PROVE  /\ Elsewhere(n) /\ getSession(n)' = getSession(n)
           /\ call'[n].pc = "close group" /\ call'[n].tool # "navigate"
<1> DEFINE c == [Idle EXCEPT !.pc = "close group", !.groupId = g, !.todo = TabsIn(g)]
<1>1. c.pc = "close group" /\ c.tool # "navigate"
  BY TabSessionsAssumption DEF Idle
<1>2. Go(n, c)
  OBVIOUS
<1> HIDE DEF c
<1>. QED
  BY <1>1, <1>2, SameGets, GoDoes DEF Elsewhere

----------------------------------------------------------------------------
(* The active tab is kept                                                  *)

\* A step that opens no tab and leaves the session as it was.
LEMMA ActiveStays ==
    ASSUME TypeInv, ActiveInv, disturbed => disturbed', NEW n \in Names, Elsewhere(n),
           \A u \in Tabs : url'[u] # None => url[u] # None,
           getSession(n)'.tabIds = getSession(n).tabIds,
           getSession(n)'.activeTabId = getSession(n).activeTabId,
           call[n].pc \notin {"close all", "adopt"}
    PROVE  ActiveInv'
<1> SUFFICES ASSUME NEW m \in Names PROVE Active(m)'
  BY DEF ActiveInv
<1>1. getSession(m).activeTabId \in Tabs \union {None}
  BY SessionState DEF TypeInv, SessionStates
<1>2. CASE m # n
  BY <1>1, <1>2 DEF ActiveInv, Active, Elsewhere, Open, At
<1>3. CASE m = n
  BY <1>1, <1>3 DEF ActiveInv, Active, Open, At, Tracked
<1>. QED
  BY <1>2, <1>3

\* One that leaves the session with a good active tab.
LEMMA ActiveSet ==
    ASSUME TypeInv, ActiveInv, disturbed => disturbed', NEW n \in Names, Elsewhere(n),
           \A u \in Tabs : url'[u] # None => url[u] # None, Tracked(getSession(n)')
    PROVE  ActiveInv'
<1> SUFFICES ASSUME NEW m \in Names PROVE Active(m)'
  BY DEF ActiveInv
<1>1. getSession(m).activeTabId \in Tabs \union {None}
  BY SessionState DEF TypeInv, SessionStates
<1>2. CASE m # n
  BY <1>1, <1>2 DEF ActiveInv, Active, Elsewhere, Open, At
<1>3. CASE m = n
  BY <1>3 DEF Active, Open, Tracked
<1>. QED
  BY <1>2, <1>3

\* One in which a tab goes.
LEMMA ActiveRemoved ==
    ASSUME TypeInv, ActiveInv, disturbed => disturbed', NEW t \in Tabs, handleTabRemoved(t),
           \A u \in Tabs : url'[u] # None => url[u] # None, url'[t] = None,
           \A m \in Names : call'[m].pc = call[m].pc \/ call[m].pc \notin {"close all", "adopt"}
    PROVE  ActiveInv'
<1> SUFFICES ASSUME NEW m \in Names PROVE Active(m)'
  BY DEF ActiveInv
<1>1. getSession(m).activeTabId \in Tabs \union {None}
  BY SessionState DEF TypeInv, SessionStates
<1>2. Tracked(getSession(m)') => Active(m)'
  BY DEF Active, Open, Tracked
<1>3. /\ getSession(m)'.tabIds = getSession(m).tabIds \ {t}
      /\ \/ /\ getSession(m)'.activeTabId = getSession(m).activeTabId
            /\ ~(t \in getSession(m).tabIds /\ getSession(m).activeTabId = t)
         \/ Tracked(getSession(m)')
  BY RemovedGets DEF TypeInv
<1>4. Active(m)
  BY DEF ActiveInv
<1>5. CASE /\ getSession(m)'.activeTabId = getSession(m).activeTabId
           /\ ~(t \in getSession(m).tabIds /\ getSession(m).activeTabId = t)
  <2>1. Open(getSession(m).activeTabId)' => getSession(m)'.activeTabId \in getSession(m)'.tabIds
    BY <1>1, <1>3, <1>4, <1>5 DEF Active, Open
  <2>2. Tracked(getSession(m)) => Tracked(getSession(m)')
    BY <1>3, <1>5 DEF Tracked
  <2>3. ~At(m, "close all")' /\ ~(disturbed /\ At(m, "adopt"))' => Tracked(getSession(m))
    BY <1>4 DEF Active, At
  <2>. QED
    BY <2>1, <2>2, <2>3 DEF Active
<1>. QED
  BY <1>2, <1>3, <1>5

LEMMA QuietStep ==
    ASSUME UNCHANGED chromeVars, StillSaved \/ Unsaved
    PROVE  /\ disturbed => disturbed'
           /\ \A u \in Tabs : url'[u] # None => url[u] # None
BY DEF chromeVars, StillSaved, ghostVars, Unsaved

LEMMA SavedStep ==
    ASSUME UNCHANGED chromeVars, NEW n, NEW new, NEW wrong, SaveOwned(n, new, wrong)
    PROVE  /\ disturbed => disturbed'
           /\ \A u \in Tabs : url'[u] # None => url[u] # None
BY DEF chromeVars, SaveOwned

LEMMA ClosedStep ==
    ASSUME TypeInv, NEW t \in Tabs, CloseTab(t)
    PROVE  /\ disturbed => disturbed'
           /\ handleTabRemoved(t) /\ url'[t] = None
           /\ \A u \in Tabs : url'[u] # None => url[u] # None
BY CloseTabIs DEF TypeInv, ChromeTyped

LEMMA InitActive == Init => ActiveInv
BY DEF Init, ActiveInv, Active, getSession, NoSession, Tracked, Open

LEMMA ReconcileActive ==
    ASSUME TypeInv, ActiveInv, NEW n \in Names, At(n, "idle"), NEW c \in CallStates, c.id = None,
           reconcile(n, c)
    PROVE  ActiveInv'
<1>1. UNCHANGED chromeVars /\ Unsaved
  BY ReconcileIs
<1>. QED
  BY <1>1, ReconcileDoes, QuietStep, ActiveStays DEF At

\* The last group that is adopted leaves an active tab; another one is adopted only
\* where ownership was lost.
LEMMA AdoptActive ==
    ASSUME TypeInv, ActiveInv, GroupInv, NEW n \in Names, Adopt(n) PROVE ActiveInv'
<1>1. /\ disturbed => disturbed'
      /\ \A u \in Tabs : url'[u] # None => url[u] # None
  BY SavedStep DEF Adopt
<1> DEFINE s == getSession(n)
<1>2. Active(n) /\ s.activeTabId \in Tabs \union {None}
  BY SessionState DEF ActiveInv, TypeInv, SessionStates
<1>3. Elsewhere(n)
  BY AdoptDoes
<1>4. CASE call[n].todo = {} /\ ~Open(s.activeTabId)
  <2>1. Tracked(getSession(n)')
    BY <1>4, AdoptDoes
  <2>. QED
    BY <1>1, <1>3, <2>1, ActiveSet
<1>5. CASE call[n].todo = {} /\ Open(s.activeTabId)
  <2>1. getSession(n)'.activeTabId = s.activeTabId /\ s.tabIds \subseteq getSession(n)'.tabIds
    BY <1>5, AdoptDoes
  <2>2. s.activeTabId \in s.tabIds
    BY <1>2, <1>5 DEF Active
  <2>3. Tracked(getSession(n)')
    BY <2>1, <2>2 DEF Tracked
  <2>. QED
    BY <1>1, <1>3, <2>3, ActiveSet
<1>6. CASE call[n].todo # {}
  <2>1. /\ getSession(n)'.activeTabId = s.activeTabId
        /\ s.tabIds \subseteq getSession(n)'.tabIds
        /\ call'[n].pc \in {"adopt", "acquire", "close all", "idle"}
    BY <1>6, AdoptDoes
  <2>2. disturbed
    BY <1>6 DEF GroupInv, Mindful, Knows, Adopt
  <2>3. PICK g \in call[n].todo : GoSave(n, [call[n] EXCEPT !.groupId = g, !.todo = @ \ {g}])
    BY <1>6 DEF Adopt
  <2> DEFINE c == [call[n] EXCEPT !.groupId = g, !.todo = @ \ {g}]
  <2>4. c.pc = "adopt"
    BY DEF Adopt, At, TypeInv, CallsTyped, CallStates
  <2>5. GoSave(n, c)
    BY <2>3
  <2> HIDE DEF c
  <2>6. call'[n].pc = "adopt"
    BY <2>4, <2>5, GoDoes
  <2>7. Active(n)'
    BY <1>1, <1>2, <2>1, <2>2, <2>6 DEF Active, Open, At
  <2>8. ASSUME NEW m \in Names \ {n} PROVE Active(m)'
    <3>1. getSession(m).activeTabId \in Tabs \union {None} /\ Active(m)
      BY SessionState DEF ActiveInv, TypeInv, SessionStates
    <3>. QED
      BY <1>1, <1>3, <3>1 DEF Active, Open, At, Elsewhere
  <2>. QED
    BY <2>7, <2>8 DEF ActiveInv
<1>. QED
  BY <1>4, <1>5, <1>6

LEMMA CreateActive ==
    ASSUME TypeInv, ActiveInv, NEW n \in Names, Create(n) PROVE ActiveInv'
<1>1. PICK t \in FreeTabs :
        /\ Elsewhere(n)
        /\ url' = [url EXCEPT ![t] = Blank]
        /\ t \in getSession(n)'.tabIds
        /\ getSession(n)'.activeTabId = t
  BY CreateDoes
<1>2. Active(n)'
  BY <1>1 DEF Active, Tracked
<1>3. disturbed' = disturbed
  BY DEF Create, StillSaved, ghostVars
<1>4. ASSUME NEW m \in Names \ {n} PROVE Active(m)'
  <2>1. getSession(m).activeTabId \in Tabs \union {None} /\ Active(m)
    BY SessionState DEF ActiveInv, TypeInv, SessionStates
  <2>2. t # getSession(m).activeTabId
    BY TabSessionsAssumption DEF FreeTabs, getSession, NoSession
  <2>3. Open(getSession(m).activeTabId)' => Open(getSession(m).activeTabId)
    BY <1>1, <2>1, <2>2 DEF Open, TypeInv, ChromeTyped, Elsewhere
  <2>. QED
    BY <1>1, <1>3, <2>1, <2>3 DEF Active, At, Elsewhere
<1>. QED
  BY <1>2, <1>4 DEF ActiveInv

LEMMA CloseActiveTabActive ==
    ASSUME TypeInv, ActiveInv, NEW n \in Names, NEW then, closeActiveTab(n, then),
           call[n].pc \notin {"close all", "adopt"}
    PROVE  ActiveInv'
<1> DEFINE t == getSession(n).activeTabId
<1>1. CASE UNCHANGED chromeVars /\ StillSaved /\ Elsewhere(n) /\ getSession(n)' = getSession(n)
  BY <1>1, QuietStep, ActiveStays
<1>2. CASE t \in Tabs /\ CloseTab(t) /\ \A m \in Names \ {n} : call'[m] = call[m]
  BY <1>2, ClosedStep, ActiveRemoved
<1>3. CASE /\ t \in Tabs /\ ~Open(t) /\ UNCHANGED chromeVars /\ StillSaved /\ handleTabRemoved(t)
           /\ \A m \in Names \ {n} : call'[m] = call[m]
  <2>1. url'[t] = None
    BY <1>3, TabSessionsAssumption DEF Open, chromeVars
  <2>. QED
    BY <1>3, <2>1, QuietStep, ActiveRemoved
<1>. QED
  BY <1>1, <1>2, <1>3, CloseActiveTabDoes

LEMMA CloseNextActive ==
    ASSUME TypeInv, ActiveInv, NEW n \in Names, CloseNext(n) PROVE ActiveInv'
<1>1. /\ call'[n].pc = "close all" /\ call[n].pc = "close all"
      /\ \A m \in Names \ {n} : call'[m] = call[m]
  BY CloseNextDoes DEF CloseNext, At
<1>2. ASSUME NEW t \in Tabs, CloseTab(t) PROVE ActiveInv'
  BY <1>1, <1>2, ClosedStep, ActiveRemoved
<1>3. ASSUME NEW t, ~Open(t) \/ t \notin getSession(n).tabIds,
             Elsewhere(n), UNCHANGED chromeVars, StillSaved,
             getSession(n)'.tabIds = getSession(n).tabIds \ {t},
             getSession(n)'.activeTabId = getSession(n).activeTabId
      PROVE  ActiveInv'
  <2>1. getSession(n).activeTabId \in Tabs \union {None} /\ Active(n)
    BY SessionState DEF ActiveInv, TypeInv, SessionStates
  <2>2. Active(n)'
    BY <1>1, <1>3, <2>1, QuietStep DEF Active, Open, At
  <2>3. ASSUME NEW m \in Names \ {n} PROVE Active(m)'
    <3>1. getSession(m).activeTabId \in Tabs \union {None} /\ Active(m)
      BY SessionState DEF ActiveInv, TypeInv, SessionStates
    <3>. QED
      BY <1>3, <3>1, QuietStep DEF Active, Open, At, Elsewhere
  <2>. QED
    BY <2>2, <2>3 DEF ActiveInv
<1>4. CASE Elsewhere(n) /\ UNCHANGED chromeVars /\ StillSaved /\ getSession(n)' = getSession(n)
  <2>1. getSession(n).tabIds = getSession(n).tabIds \ {None} /\ None \notin getSession(n).tabIds
    BY SessionState, TabSessionsAssumption DEF TypeInv, SessionStates
  <2>. QED
    BY <1>3, <1>4, <2>1
<1>. QED
  BY <1>2, <1>3, <1>4, CloseNextDoes

LEMMA ClosedActive ==
    ASSUME TypeInv, ActiveInv, NEW n \in Names, Closed(n) PROVE ActiveInv'
<1> DEFINE s == getSession(n)
<1>1. Elsewhere(n) /\ UNCHANGED chromeVars /\ StillSaved
  BY ClosedDoes
<1>2. CASE getSession(n)' = NoSession
  <2>1. Tracked(getSession(n)')
    BY <1>2 DEF Tracked, NoSession
  <2>. QED
    BY <1>1, <2>1, QuietStep, ActiveSet
<1>3. CASE /\ s.tabIds # {} /\ getSession(n)'.tabIds = s.tabIds
           /\ getSession(n)'.activeTabId \in IF Open(s.activeTabId) THEN {s.activeTabId} ELSE s.tabIds
  <2>1. Active(n)
    BY DEF ActiveInv
  <2>2. Tracked(getSession(n)')
    BY <1>3, <2>1 DEF Tracked, Active
  <2>. QED
    BY <1>1, <2>2, QuietStep, ActiveSet
<1>. QED
  BY <1>2, <1>3, ClosedDoes

LEMMA BindActive ==
    ASSUME TypeInv, ActiveInv, NEW n \in Names, call[n].pc \notin {"close all", "adopt"}, Ends(n),
           UNCHANGED chromeVars, StillSaved \/ Unsaved,
           UNCHANGED sessions \/ \E t \in Tabs : bindTab(n, t)
    PROVE  ActiveInv'
<1>1. \A m \in Names \ {n} : call'[m] = call[m]
  BY EndsDoes
<1>2. CASE UNCHANGED sessions
  BY <1>1, <1>2, SameGets, QuietStep, ActiveStays DEF Elsewhere
<1>3. ASSUME NEW t \in Tabs, bindTab(n, t) PROVE ActiveInv'
  <2>1. Tracked(getSession(n)')
    BY <1>3, BindTabDoes DEF Tracked
  <2>. QED
    BY <1>1, <1>3, <2>1, BindTabDoes, QuietStep, ActiveSet DEF Elsewhere
<1>. QED
  BY <1>2, <1>3

LEMMA BeginsActive ==
    ASSUME TypeInv, ActiveInv, NEW n \in Names, Begins(n) PROVE ActiveInv'
<1>1. At(n, "idle")
  BY DEF Begins
<1>2. /\ Idle \in CallStates /\ Idle.id = None
      /\ \A tool \in {"navigate", "close_session"} :
           [Idle EXCEPT !.tool = tool] \in CallStates /\ [Idle EXCEPT !.tool = tool].id = None
  BY IdleReady DEF Idle, CallStates
<1>3. CASE navigate(n) \/ list_tabs(n) \/ reconcile(n, [Idle EXCEPT !.tool = "close_session"])
  BY <1>1, <1>2, <1>3, ReconcileActive DEF navigate, list_tabs
<1>4. CASE find_tab(n)
  BY <1>1, <1>4, FindTabDoes, QuietStep, ActiveStays DEF At
<1>5. CASE activate_tab(n)
  BY <1>1, <1>5, BindActive, EnsureIs DEF activate_tab, At
<1>6. CASE close_tab(n)
  BY <1>1, <1>6, CloseActiveTabActive DEF close_tab, At
<1>7. CASE /\ \E g \in LiveGroups :
                 Go(n, [Idle EXCEPT !.pc = "close group", !.groupId = g, !.todo = TabsIn(g)])
           /\ UNCHANGED <<sessions, chromeVars>> /\ StillSaved
  BY <1>1, <1>7, CloseGroupDoes, QuietStep, ActiveStays DEF At
<1>. QED
  BY <1>3, <1>4, <1>5, <1>6, <1>7 DEF Begins, close_session

LEMMA ProceedsActive ==
    ASSUME TypeInv, ActiveInv, GroupInv, NEW n \in Names, Proceeds(n) PROVE ActiveInv'
<1>1. CASE Adopt(n)
  BY <1>1, AdoptActive
<1>2. CASE Acquire(n)
  BY <1>2, AcquireDoes, EnsureIs, QuietStep, ActiveStays DEF Acquire, At
<1>3. CASE Replace(n)
  BY <1>3, CloseActiveTabActive DEF Replace, At
<1>4. CASE Create(n)
  BY <1>4, CreateActive
<1>5. CASE Group(n)
  BY <1>5, GroupDoes, ActiveStays DEF Group, At
<1>6. CASE Entitle(n)
  BY <1>6, EntitleDoes, ActiveStays DEF Entitle, At
<1>7. CASE Record(n)
  BY <1>7, RecordDoes, SavedStep, ActiveStays DEF Record, At
<1>8. CASE Update(n)
  <2>1. \A u \in Tabs : url'[u] # None => url[u] # None
    BY <1>8, UpdateDoes DEF Open, TypeInv, ChromeTyped
  <2>. QED
    BY <1>8, <2>1, UpdateDoes, ActiveStays DEF Update, At
<1>9. CASE Retitle(n)
  BY <1>9, RetitleDoes, ActiveStays DEF Retitle, At
<1>10. CASE Bind(n)
  <2>1. call[n].id \in Tabs
    BY <1>10 DEF Bind, At, TypeInv, CallsTyped, Ready
  <2>. QED
    BY <1>10, <2>1, BindActive, EnsureIs DEF Bind, At
<1>11. CASE CloseNext(n)
  BY <1>11, CloseNextActive
<1>12. CASE Closed(n)
  BY <1>12, ClosedActive
<1>13. CASE ForgetSession(n) \/ ForgetGroup(n)
  BY <1>13, ForgetDoes, SavedStep, ActiveStays DEF ForgetSession, ForgetGroup, At
<1>14. CASE CloseGroupNext(n)
  <2>1. call[n].pc = "close group"
    BY <1>14 DEF CloseGroupNext, At
  <2>. QED
    BY <1>14, <2>1, CloseGroupNextDoes, ClosedStep, ActiveRemoved, QuietStep, ActiveStays
<1>15. CASE GroupClosed(n)
  BY <1>15, GroupClosedDoes, QuietStep, ActiveStays DEF GroupClosed, At
<1>. QED
  BY <1>1, <1>2, <1>3, <1>4, <1>5, <1>6, <1>7, <1>8, <1>9, <1>10, <1>11, <1>12, <1>13, <1>14, <1>15
     DEF Proceeds

LEMMA NextActive ==
    ASSUME TypeInv, ActiveInv, GroupInv, [Next]_vars PROVE ActiveInv'
<1>1. ASSUME NEW t \in Tabs, UserCloses(t) PROVE ActiveInv'
  BY <1>1, ClosedStep, ActiveRemoved DEF UserCloses
<1>2. CASE WorkerRestarts
  <2>1. \A m \in Names : getSession(m)' = NoSession
    BY <1>2 DEF WorkerRestarts, getSession
  <2>2. ASSUME NEW m \in Names PROVE Active(m)'
    <3>1. Tracked(getSession(m)')
      BY <2>1 DEF Tracked, NoSession
    <3>. QED
      BY <3>1 DEF Active, Open, Tracked
  <2>. QED
    BY <2>2 DEF ActiveInv
<1>3. CASE UNCHANGED vars
  BY <1>3, SameGets DEF vars, chromeVars, ghostVars, ActiveInv, Active, Open, At
<1>4. ASSUME NEW t \in Tabs, Wanders(t) PROVE ActiveInv'
  <2>1. \A u \in Tabs \union {None} : Open(u)' <=> Open(u)
    BY <1>4, TabSessionsAssumption DEF Wanders, Open, TypeInv, ChromeTyped
  <2>2. UNCHANGED <<sessions, call, disturbed>>
    BY <1>4 DEF Wanders
  <2>3. \A m \in Names : getSession(m)' = getSession(m)
    BY <2>2, SameGets
  <2>4. ASSUME NEW m \in Names PROVE Active(m)'
    <3>1. getSession(m).activeTabId \in Tabs \union {None} /\ Active(m)
      BY SessionState DEF ActiveInv, TypeInv, SessionStates
    <3>. QED
      BY <2>1, <2>2, <2>3, <3>1 DEF Active, At
  <2>. QED
    BY <2>4 DEF ActiveInv
<1>. QED
  BY <1>1, <1>2, <1>3, <1>4, BeginsActive, ProceedsActive DEF Next

----------------------------------------------------------------------------
(* Groups are known to who made them                                       *)

LEMMA LiveIs ==
    ASSUME ChromeTyped
    PROVE  \A g : g \in LiveGroups <=> g \in Groups /\ \E t \in Tabs : groupOf[t] = g
BY TabSessionsAssumption DEF LiveGroups, ChromeTyped

\* No tab changes its group.
LEMMA SameLive ==
    ASSUME ChromeTyped, ChromeTyped', UNCHANGED groupOf
    PROVE  LiveGroups' = LiveGroups /\ \A g : TabsIn(g)' = TabsIn(g)
<1>1. \A g : g \in LiveGroups' <=> g \in Groups /\ \E t \in Tabs : groupOf'[t] = g
  BY TabSessionsAssumption DEF LiveGroups, ChromeTyped
<1>. QED
  BY <1>1, LiveIs DEF TabsIn

\* A tab goes: the groups that are left have another, and are as they were.
LEMMA ClosedLive ==
    ASSUME ChromeTyped, ChromeTyped', NEW t \in Tabs, CloseTab(t)
    PROVE  /\ LiveGroups' \subseteq LiveGroups
           /\ \A g \in LiveGroups' : /\ title'[g] = title[g] /\ maker'[g] = maker[g]
                                     /\ ownedGroups'[g] = ownedGroups[g]
           /\ \A g \in Groups \ LiveGroups' : /\ title'[g] = None /\ maker'[g] = None
                                              /\ ownedGroups'[g] = None
           /\ \A g \in Groups : TabsIn(g)' = TabsIn(g) \ {t}
<1>1. \A g : g \in LiveGroups' <=> g \in Groups /\ \E u \in Tabs : groupOf'[u] = g
  BY TabSessionsAssumption DEF LiveGroups, ChromeTyped
<1>2. groupOf' = [groupOf EXCEPT ![t] = None] /\ None \notin Groups
  BY CloseTabIs, TabSessionsAssumption
<1>3. \A g \in Groups : TabsIn(g)' = TabsIn(g) \ {t}
  BY <1>2 DEF TabsIn, ChromeTyped
<1>4. \A g \in Groups : g \in LiveGroups' <=> ~(TabsIn(g) \subseteq {t})
  BY <1>1, <1>2 DEF TabsIn, ChromeTyped
<1>5. LiveGroups' \subseteq LiveGroups
  BY <1>1, <1>2, LiveIs DEF ChromeTyped
<1>. QED
  BY <1>1, <1>3, <1>4, <1>5, CloseTabIs DEF Kept

LEMMA InitGone == Init => Gone /\ GroupInv
<1> SUFFICES ASSUME Init PROVE Gone /\ GroupInv
  OBVIOUS
<1>1. LiveGroups = {}
  BY DEF Init, LiveGroups
<1>2. \A n \in Names : call[n].pc = "idle" /\ getSession(n) = NoSession
  BY IdleReady DEF Init, getSession
<1>3. Gone
  BY <1>1, <1>2 DEF Init, Nobody, Gone, At
<1>4. \A n \in Names : Mindful(n)
  BY <1>1, <1>2, LiveAreGroups, TabSessionsAssumption DEF Mindful, HasOwn, Knows, Made, NoSession, At
<1>. QED
  BY <1>1, <1>3, <1>4 DEF GroupInv, OwnedByMaker, AtMostOne

\* A step of one call that leaves what Chrome and the storage have of the groups, and
\* has no tab about to be grouped that was not.
LEMMA GoneStays ==
    ASSUME TypeInv, TypeInv', Gone, NEW n \in Names, Elsewhere(n), UNCHANGED <<groupOf, title, maker>>,
           \A g \in Groups \ LiveGroups : ownedGroups'[g] = None,
           call'[n].pc # "group"
    PROVE  Gone'
<1>1. LiveGroups' = LiveGroups
  BY SameLive DEF TypeInv
<1>. QED
  BY <1>1 DEF Gone, Elsewhere, At

LEMMA GoneClosed ==
    ASSUME TypeInv, TypeInv', Gone, NEW t \in Tabs, CloseTab(t),
           \A m \in Names : call'[m] = call[m] \/ call'[m].pc # "group"
    PROVE  Gone'
<1>1. \A g \in Groups \ LiveGroups' : /\ title'[g] = None /\ maker'[g] = None
                                      /\ ownedGroups'[g] = None
  BY ClosedLive DEF TypeInv
<1>2. \A u \in Tabs : groupOf[u] = None => groupOf'[u] = None
  BY CloseTabIs DEF TypeInv, ChromeTyped
<1>3. \A m \in Names : At(m, "group") => call[m].id \in Tabs
  BY DEF At, TypeInv, CallsTyped, Ready
<1>. QED
  BY <1>1, <1>2, <1>3 DEF Gone, At

\* A step of one call that changes no group: it is enough that the session stays mindful.
LEMMA GroupsStay ==
    ASSUME TypeInv, TypeInv', GroupInv, ~disturbed', NEW n \in Names, Elsewhere(n),
           UNCHANGED <<groupOf, title, ownedGroups, maker>>, disturbed => disturbed',
           call[n].pc \notin {"entitle", "record"},
           Mindful(n)'
    PROVE  GroupInv'
<1>1. LiveGroups' = LiveGroups /\ \A g : TabsIn(g)' = TabsIn(g)
  BY SameLive DEF TypeInv
<1>2. OwnedByMaker /\ AtMostOne /\ \A m \in Names : Mindful(m)
  BY DEF GroupInv
<1>3. OwnedByMaker'
  BY <1>1, <1>2 DEF OwnedByMaker, OwnedBy, Elsewhere, At
<1>4. AtMostOne'
  BY <1>1, <1>2 DEF AtMostOne
<1>5. ASSUME NEW m \in Names \ {n} PROVE Mindful(m)'
  <2>1. Made(m)' = Made(m)
    BY <1>1 DEF Made
  <2>2. getSession(m)' = getSession(m) /\ call'[m] = call[m] /\ Mindful(m)
    BY <1>2 DEF Elsewhere
  <2>. QED
    BY <1>1, <2>1, <2>2 DEF Mindful, HasOwn, Knows, At
<1>. QED
  BY <1>3, <1>4, <1>5 DEF GroupInv

\* A tab goes, and one call goes on to a step at which its session is mindful.
LEMMA GroupsClosed ==
    ASSUME TypeInv, TypeInv', GroupInv, ~disturbed', NEW t \in Tabs, CloseTab(t), NEW n \in Names,
           \A m \in Names \ {n} : call'[m] = call[m],
           \/ call'[n] = call[n]
           \/ /\ call[n].pc \notin {"entitle", "record"}
              /\ call'[n].pc \in {"idle", "close group", "create", "close all"}
              /\ call'[n].pc = "create" => call[n].pc = "replace"
              /\ call'[n].pc = "close all" => call[n].pc = "close all"
    PROVE  GroupInv'
<1>1. OwnedByMaker /\ AtMostOne /\ \A m \in Names : Mindful(m)
  BY CloseTabIs DEF GroupInv
<1>2. /\ LiveGroups' \subseteq LiveGroups /\ LiveGroups \subseteq Groups
      /\ \A g \in LiveGroups' : /\ title'[g] = title[g] /\ maker'[g] = maker[g]
                                /\ ownedGroups'[g] = ownedGroups[g]
      /\ \A g \in LiveGroups : TabsIn(g)' = TabsIn(g) \ {t}
  BY ClosedLive, LiveAreGroups DEF TypeInv
<1>3. \A m \in Names : /\ getSession(m)'.groupId = getSession(m).groupId
                       /\ getSession(m)'.tabIds = getSession(m).tabIds \ {t}
  BY CloseTabIs, RemovedGets DEF TypeInv
<1>4. ASSUME NEW g \in LiveGroups' PROVE maker'[g] \in Names /\ OwnedBy(g, maker[g])'
  <2>1. PICK m \in Names : maker[g] = m /\ OwnedBy(g, m) /\ maker'[g] = m
    BY <1>1, <1>2 DEF OwnedByMaker
  <2>2. m = n => ownedGroups[g] # None \/ call'[n] = call[n]
    BY <2>1 DEF OwnedBy, At
  <2>3. getSession(m)'.groupId = getSession(m).groupId
    BY <1>3, <2>1
  <2>4. OwnedBy(g, m)'
    BY <1>2, <2>1, <2>2, <2>3 DEF OwnedBy, At
  <2>. QED
    BY <2>1, <2>4
<1>5. AtMostOne'
  BY <1>1, <1>2 DEF AtMostOne
<1>6. ASSUME NEW m \in Names PROVE Mindful(m)'
  <2>1. /\ Made(m)' \subseteq Made(m) /\ Made(m) \subseteq LiveGroups
        /\ \A g \in LiveGroups' : maker'[g] = maker[g]
    BY <1>2 DEF Made
  <2>2. HasOwn(m) /\ Knows(m)
    BY <1>1 DEF Mindful
  <2>3. \/ call'[m] = call[m]
        \/ /\ call'[m].pc \in {"idle", "close group", "create", "close all"}
           /\ call'[m].pc = "create" => call[m].pc = "replace"
           /\ call'[m].pc = "close all" => call[m].pc = "close all"
    OBVIOUS
  <2>4. HasOwn(m)'
    BY <1>2, <1>3, <2>2, <2>3 DEF HasOwn
  <2>5. At(m, "close all")' => (\A g \in Made(m) : TabsIn(g) \subseteq getSession(m).tabIds)'
    BY <1>2, <1>3, <2>1, <2>2, <2>3 DEF Knows, At
  <2>6. Knows(m)'
    BY <1>3, <2>1, <2>2, <2>3, <2>5 DEF Knows, At
  <2>. QED
    BY <2>4, <2>6 DEF Mindful
<1>. QED
  BY <1>4, <1>5, <1>6 DEF GroupInv, OwnedByMaker

LEMMA SavedIs ==
    ASSUME TypeInv, TypeInv', Gone, NEW n, NEW new, NEW wrong, SaveOwned(n, new, wrong)
    PROVE  /\ UNCHANGED maker
           /\ \A g \in Groups \ LiveGroups : ownedGroups'[g] = None
           /\ ~disturbed' => /\ ~disturbed /\ ~wrong
                             /\ \A g \in LiveGroups : /\ ownedGroups'[g] = new[g]
                                                      /\ owned[n][g] = ownedGroups[g]
BY LiveAreGroups DEF TypeInv, SaveOwned, Gone

\* Only the ownership changes: what its maker is about to save.
LEMMA GroupsSaved ==
    ASSUME TypeInv, TypeInv', GroupInv, ~disturbed, NEW n \in Names, Elsewhere(n),
           UNCHANGED <<groupOf, title, maker>>,
           \A g \in LiveGroups : \/ ownedGroups'[g] = maker[g]
                                 \/ /\ ownedGroups'[g] = ownedGroups[g]
                                    /\ maker[g] = n => ownedGroups[g] # None,
           Mindful(n)'
    PROVE  GroupInv'
<1>1. LiveGroups' = LiveGroups /\ LiveGroups \subseteq Groups /\ \A g : TabsIn(g)' = TabsIn(g)
  BY SameLive, LiveAreGroups DEF TypeInv
<1>2. OwnedByMaker /\ AtMostOne /\ \A m \in Names : Mindful(m)
  BY DEF GroupInv
<1>3. ASSUME NEW g \in LiveGroups' PROVE maker'[g] \in Names /\ OwnedBy(g, maker[g])'
  <2>1. PICK m \in Names : maker[g] = m /\ OwnedBy(g, m) /\ maker'[g] = m /\ m # None
    BY <1>1, <1>2, TabSessionsAssumption DEF OwnedByMaker
  <2>2. CASE ownedGroups'[g] = m
    BY <2>1, <2>2 DEF OwnedBy
  <2>3. CASE ownedGroups'[g] = ownedGroups[g] /\ (m = n => ownedGroups[g] # None)
    BY <2>1, <2>3 DEF OwnedBy, Elsewhere, At
  <2>. QED
    BY <1>1, <2>1, <2>2, <2>3
<1>4. AtMostOne'
  BY <1>1, <1>2 DEF AtMostOne
<1>5. ASSUME NEW m \in Names \ {n} PROVE Mindful(m)'
  <2>1. Made(m)' = Made(m)
    BY <1>1 DEF Made
  <2>2. getSession(m)' = getSession(m) /\ call'[m] = call[m] /\ Mindful(m)
    BY <1>2 DEF Elsewhere
  <2>. QED
    BY <1>1, <2>1, <2>2 DEF Mindful, HasOwn, Knows, At
<1>. QED
  BY <1>3, <1>4, <1>5 DEF GroupInv, OwnedByMaker

\* A session whose call is at none of the steps at which it has to know its groups.
LEMMA MindfulElse ==
    ASSUME TypeInv, TypeInv', GroupInv, ~disturbed, NEW n \in Names, UNCHANGED <<groupOf, maker>>,
           getSession(n)'.groupId \in {getSession(n).groupId, None},
           call'[n].pc \in {"idle", "go", "retitle", "bind", "close group", "forget group"}
    PROVE  Mindful(n)'
<1>1. LiveGroups' = LiveGroups /\ LiveGroups \subseteq Groups
  BY SameLive, LiveAreGroups DEF TypeInv
<1>2. HasOwn(n)
  BY DEF GroupInv, Mindful
<1>3. HasOwn(n)'
  BY <1>1, <1>2, TabSessionsAssumption DEF HasOwn
<1>4. Knows(n)'
  BY DEF Knows, At
<1>. QED
  BY <1>3, <1>4 DEF Mindful

\* A group that nobody is about to own is owned.
LEMMA OwnedUnless ==
    ASSUME TypeInv, GroupInv, ~disturbed, NEW n \in Names, call[n].pc \notin {"entitle", "record"}
    PROVE  \A g \in Made(n) : ownedGroups[g] = n
BY DEF GroupInv, OwnedByMaker, OwnedBy, Made, At

LEMMA GroupsOfMade ==
    ASSUME TypeInv, GroupInv, ~disturbed, NEW n \in Names
    PROVE  groupsOf(n, ownedGroups) \subseteq Made(n)
BY TabSessionsAssumption DEF GroupInv, OwnedByMaker, OwnedBy, Made, groupsOf

LEMMA ReconcileGroups ==
    ASSUME TypeInv, TypeInv', Gone, GroupInv, NEW n \in Names, At(n, "idle"),
           NEW c \in CallStates, c.id = None, reconcile(n, c)
    PROVE  Gone' /\ GroupInv'
<1>1. UNCHANGED chromeVars /\ Unsaved
  BY ReconcileIs
<1>2. UNCHANGED <<groupOf, title, ownedGroups, maker>> /\ (disturbed => disturbed')
  BY <1>1 DEF chromeVars, Unsaved
<1>3. Elsewhere(n) /\ call'[n].pc \in {"acquire", "close all", "idle", "adopt"}
  BY ReconcileDoes
<1>4. Gone'
  BY <1>2, <1>3, GoneStays DEF Gone
<1>5. LiveGroups' = LiveGroups /\ \A g : TabsIn(g)' = TabsIn(g)
  BY <1>2, SameLive DEF TypeInv
<1>6. ASSUME ~disturbed' PROVE Mindful(n)'
  <2>0. ~disturbed
    BY <1>2, <1>6
  <2>1. HasOwn(n) /\ Made(n)' = Made(n) /\ LiveGroups \subseteq Groups
    BY <1>2, <1>5, <2>0, LiveAreGroups DEF GroupInv, Mindful, Made, TypeInv
  <2>2. Made(n) \subseteq groupsOf(n, ownedGroups)
    BY <2>0, OwnedUnless DEF At, Made, groupsOf
  <2>3. CASE /\ groupsOf(n, ownedGroups) = {} /\ call'[n].pc \in {"acquire", "close all", "idle"}
             /\ getSession(n)'.groupId \in {getSession(n).groupId, None}
    <3>1. HasOwn(n)'
      BY <1>2, <1>5, <2>1, <2>3, TabSessionsAssumption DEF HasOwn
    <3>2. Knows(n)'
      BY <2>1, <2>2, <2>3 DEF Knows, At
    <3>. QED
      BY <3>1, <3>2 DEF Mindful
  <2>4. CASE /\ getSession(n)'.groupId \in groupsOf(n, ownedGroups)
             /\ call'[n].groupId = getSession(n)'.groupId
             /\ call'[n].todo = groupsOf(n, ownedGroups) \ {call'[n].groupId}
             /\ call'[n].pc = "adopt"
    <3>1. PICK g \in groupsOf(n, ownedGroups) : /\ getSession(n)'.groupId = g /\ call'[n].groupId = g
                                   /\ call'[n].todo = groupsOf(n, ownedGroups) \ {g}
      BY <2>4
    <3>2. g \in Made(n) /\ groupsOf(n, ownedGroups) \subseteq Made(n)
      BY <2>0, GroupsOfMade
    <3>3. Made(n) \subseteq {g}
      BY <2>0, <3>2 DEF GroupInv, AtMostOne, Made
    <3>4. HasOwn(n)'
      BY <1>2, <3>1, <3>2 DEF HasOwn, Made
    <3>5. Knows(n)'
      BY <2>1, <2>4, <3>1, <3>2, <3>3 DEF Knows, At
    <3>. QED
      BY <3>4, <3>5 DEF Mindful
  <2>. QED
    BY <1>6, <2>3, <2>4, ReconcileDoes
<1>7. GroupInv'
  BY <1>2, <1>3, <1>6, GroupsStay DEF At, GroupInv
<1>. QED
  BY <1>4, <1>7

LEMMA AdoptGroups ==
    ASSUME TypeInv, TypeInv', Gone, GroupInv, NEW n \in Names, Adopt(n)
    PROVE  Gone' /\ GroupInv'
<1>1. /\ Elsewhere(n) /\ UNCHANGED chromeVars
      /\ call'[n].pc \in {"adopt", "acquire", "close all", "idle"} /\ call[n].pc = "adopt"
      /\ SaveOwned(n, [owned[n] EXCEPT ![call[n].groupId] = n], FALSE)
      /\ owned[n] \in Owners /\ call[n].groupId \in Groups
  BY AdoptDoes DEF Adopt, At, TypeInv, CallsTyped, Saving, Ready
<1>2. UNCHANGED <<groupOf, title, maker>>
  BY <1>1, SavedIs DEF chromeVars
<1>3. Gone'
  BY <1>1, <1>2, SavedIs, GoneStays
<1>4. ASSUME ~disturbed' PROVE GroupInv'
  <2>1. /\ ~disturbed
        /\ \A g \in LiveGroups : /\ ownedGroups'[g] = [owned[n] EXCEPT ![call[n].groupId] = n][g]
                                 /\ owned[n][g] = ownedGroups[g]
    BY <1>1, <1>4, SavedIs
  <2>2. HasOwn(n) /\ Knows(n)
    BY <2>1 DEF GroupInv, Mindful
  <2>3. /\ LiveGroups' = LiveGroups /\ LiveGroups \subseteq Groups
        /\ \A g : TabsIn(g)' = TabsIn(g)
    BY <1>2, SameLive, LiveAreGroups DEF TypeInv
  <2>4. \A g \in LiveGroups : \/ ownedGroups'[g] = maker[g]
                              \/ /\ ownedGroups'[g] = ownedGroups[g]
                                 /\ maker[g] = n => ownedGroups[g] # None
    <3>1. \A g \in LiveGroups : maker[g] = n => ownedGroups[g] = n
      BY <1>1, <2>1, OwnedUnless DEF Made
    <3>2. ASSUME NEW g \in LiveGroups, g # call[n].groupId PROVE ownedGroups'[g] = ownedGroups[g]
      BY <1>1, <2>1, <2>3, <3>2 DEF Owners
    <3>3. call[n].groupId \in LiveGroups
             => ownedGroups'[call[n].groupId] = n /\ maker[call[n].groupId] = n
      BY <1>1, <2>1, <2>2, <2>3 DEF Owners, HasOwn
    <3>. QED
      BY <3>1, <3>2, <3>3, TabSessionsAssumption
  <2>5. /\ call[n].todo = {} /\ call'[n].pc \in {"acquire", "close all", "idle"}
        /\ getSession(n)'.groupId = getSession(n).groupId
        /\ getSession(n).groupId = call[n].groupId /\ Made(n) \subseteq {call[n].groupId}
        /\ getSession(n)'.tabIds = getSession(n).tabIds \union TabsIn(call[n].groupId)
        /\ Made(n)' = Made(n)
    BY <1>1, <1>2, <2>2, <2>3, AdoptDoes DEF Knows, At, Made
  <2>6. HasOwn(n)'
    BY <1>2, <2>2, <2>3, <2>5 DEF HasOwn
  <2>7. Knows(n)'
    BY <2>3, <2>5 DEF Knows, At
  <2>. QED
    BY <1>1, <1>2, <2>1, <2>4, <2>6, <2>7, GroupsSaved DEF Mindful
<1>. QED
  BY <1>3, <1>4 DEF GroupInv

\* A step of a call that leaves what Chrome and the storage have of the groups.
LEMMA QuietGroups ==
    ASSUME TypeInv, TypeInv', Gone, GroupInv, NEW n \in Names, Elsewhere(n),
           UNCHANGED <<groupOf, title, ownedGroups, maker>>, disturbed => disturbed',
           call[n].pc \notin {"entitle", "record"}, call'[n].pc # "group",
           ~disturbed' => Mindful(n)'
    PROVE  Gone' /\ GroupInv'
BY GoneStays, GroupsStay DEF Gone, GroupInv

LEMMA QuietElse ==
    ASSUME TypeInv, TypeInv', Gone, GroupInv, NEW n \in Names, Elsewhere(n),
           UNCHANGED <<groupOf, title, ownedGroups, maker>>, disturbed => disturbed',
           call[n].pc \notin {"entitle", "record"},
           getSession(n)'.groupId \in {getSession(n).groupId, None},
           call'[n].pc \in {"idle", "go", "retitle", "bind", "close group", "forget group"}
    PROVE  Gone' /\ GroupInv'
BY MindfulElse, QuietGroups

LEMMA StillIs ==
    ASSUME UNCHANGED chromeVars, StillSaved \/ Unsaved
    PROVE  UNCHANGED <<groupOf, title, ownedGroups, maker>> /\ (disturbed => disturbed')
BY DEF chromeVars, StillSaved, ghostVars, Unsaved

LEMMA AcquireGroups ==
    ASSUME TypeInv, TypeInv', Gone, GroupInv, NEW n \in Names, Acquire(n)
    PROVE  Gone' /\ GroupInv'
<1>1. /\ UNCHANGED <<groupOf, title, ownedGroups, maker>> /\ (disturbed => disturbed')
      /\ Elsewhere(n) /\ getSession(n)' = getSession(n)
      /\ call'[n].pc \in {"idle", "create", "go", "replace"} /\ call[n].pc = "acquire"
  BY AcquireDoes, IdleReady, EnsureIs, StillIs DEF Acquire, At
<1>2. LiveGroups' = LiveGroups /\ Made(n)' = Made(n)
  BY <1>1, SameLive DEF TypeInv, Made
<1>3. ASSUME ~disturbed PROVE Mindful(n)'
  <2>1. HasOwn(n) /\ Knows(n)
    BY <1>3 DEF GroupInv, Mindful
  <2>2. HasOwn(n)'
    BY <1>1, <1>2, <2>1 DEF HasOwn
  <2>3. Knows(n)'
    BY <1>1, <1>2, <2>1 DEF Knows, At
  <2>. QED
    BY <2>2, <2>3 DEF Mindful
<1>. QED
  BY <1>1, <1>3, QuietGroups

\* A tab goes in a step of one call.
LEMMA ClosingGroups ==
    ASSUME TypeInv, TypeInv', Gone, GroupInv, NEW n \in Names, NEW t \in Tabs, CloseTab(t),
           \A m \in Names \ {n} : call'[m] = call[m],
           call[n].pc \notin {"entitle", "record"},
           call'[n].pc \in {"idle", "close group", "create", "close all"},
           call'[n].pc = "create" => call[n].pc = "replace",
           call'[n].pc = "close all" => call[n].pc = "close all"
    PROVE  Gone' /\ GroupInv'
<1>1. Gone'
  BY GoneClosed
<1>2. disturbed' = disturbed
  BY CloseTabIs
<1>3. ~disturbed' => GroupInv'
  BY GroupsClosed
<1>. QED
  BY <1>1, <1>2, <1>3 DEF GroupInv

LEMMA CloseActiveTabGroups ==
    ASSUME TypeInv, TypeInv', Gone, GroupInv, NEW n \in Names, NEW then, closeActiveTab(n, then),
           call[n].pc \in {"idle", "replace"}, then.pc \in {"idle", "create"},
           then.pc = "create" => call[n].pc = "replace"
    PROVE  Gone' /\ GroupInv'
<1> DEFINE t == getSession(n).activeTabId
<1>1. \A m \in Names \ {n} : call'[m] = call[m]
  BY CloseActiveTabDoes
<1>2. CASE /\ call'[n] = Idle /\ UNCHANGED chromeVars /\ StillSaved
           /\ Elsewhere(n) /\ getSession(n)' = getSession(n)
  BY <1>2, StillIs, QuietElse, IdleReady
<1>3. CASE t \in Tabs /\ call'[n] = then /\ CloseTab(t)
  BY <1>1, <1>3, ClosingGroups
<1>4. CASE /\ t \in Tabs /\ call'[n] = then /\ ~Open(t) /\ UNCHANGED chromeVars /\ StillSaved
           /\ handleTabRemoved(t)
  <2>1. UNCHANGED <<groupOf, title, ownedGroups, maker>> /\ (disturbed => disturbed')
    BY <1>4, StillIs
  <2>2. LiveGroups' = LiveGroups /\ \A m \in Names : Made(m)' = Made(m)
    BY <2>1, SameLive DEF TypeInv, Made
  <2>3. \A g : TabsIn(g)' = TabsIn(g)
    BY <2>1, SameLive DEF TypeInv
  <2>4. \A m \in Names : /\ getSession(m)'.groupId = getSession(m).groupId
                         /\ getSession(m)'.tabIds = getSession(m).tabIds \ {t}
    BY <1>4, RemovedGets DEF TypeInv
  <2>5. \A g \in Groups : t \notin TabsIn(g)
    BY <1>4, TabSessionsAssumption DEF TabsIn, TypeInv, ChromeTyped
  <2>6. Gone'
    BY <1>1, <1>4, <2>1, <2>2 DEF Gone, At
  <2>7. ASSUME ~disturbed' PROVE GroupInv'
    <3>1. OwnedByMaker /\ AtMostOne /\ \A m \in Names : HasOwn(m) /\ Knows(m)
      BY <2>1, <2>7 DEF GroupInv, Mindful
    <3>2. ASSUME NEW g \in LiveGroups' PROVE maker'[g] \in Names /\ OwnedBy(g, maker[g])'
      <4>1. PICK m \in Names : maker[g] = m /\ OwnedBy(g, m) /\ maker'[g] = m
        BY <2>1, <2>2, <3>1 DEF OwnedByMaker
      <4>2. OwnedBy(g, m)'
        BY <1>1, <1>4, <2>1, <2>4, <4>1 DEF OwnedBy, At
      <4>. QED
        BY <4>1, <4>2
    <3>3. AtMostOne'
      BY <2>1, <2>2, <3>1 DEF AtMostOne
    <3>4. ASSUME NEW m \in Names PROVE HasOwn(m)'
      BY <1>1, <1>4, <2>1, <2>2, <2>4, <3>1 DEF HasOwn
    <3>5. ASSUME NEW m \in Names PROVE Knows(m)'
      <4>1. Knows(m) /\ Made(m) \subseteq Groups
        BY <3>1, LiveAreGroups DEF Made, TypeInv
      <4>2. At(m, "close all")' => (\A g \in Made(m) : TabsIn(g) \subseteq getSession(m).tabIds)'
        BY <1>1, <1>4, <2>2, <2>3, <2>4, <2>5, <4>1 DEF Knows, At
      <4>. QED
        BY <1>1, <1>4, <2>2, <2>4, <4>1, <4>2 DEF Knows, At
    <3>. QED
      BY <3>2, <3>3, <3>4, <3>5 DEF GroupInv, OwnedByMaker, Mindful
  <2>. QED
    BY <2>1, <2>6, <2>7 DEF GroupInv
<1>. QED
  BY <1>2, <1>3, <1>4, CloseActiveTabDoes

LEMMA ReplaceGroups ==
    ASSUME TypeInv, TypeInv', Gone, GroupInv, NEW n \in Names, Replace(n)
    PROVE  Gone' /\ GroupInv'
<1>1. [call[n] EXCEPT !.pc = "create"].pc = "create" /\ call[n].pc = "replace"
  BY DEF Replace, At, TypeInv, CallsTyped, CallStates
<1>. QED
  BY <1>1, CloseActiveTabGroups DEF Replace

LEMMA CreateGroups ==
    ASSUME TypeInv, TypeInv', Gone, GroupInv, NEW n \in Names, Create(n)
    PROVE  Gone' /\ GroupInv'
<1>1. PICK t \in FreeTabs : /\ Elsewhere(n) /\ getSession(n)'.groupId = getSession(n).groupId
                            /\ call'[n].pc = "group" /\ call'[n].id = t
  BY CreateDoes
<1>2. /\ UNCHANGED <<groupOf, title, ownedGroups, maker, disturbed>> /\ call[n].pc = "create"
  BY DEF Create, StillSaved, ghostVars, At
<1>3. LiveGroups' = LiveGroups /\ Made(n)' = Made(n)
  BY <1>2, SameLive DEF TypeInv, Made
<1>4. groupOf[t] = None /\ \A m \in Names : call[m].id # t
  BY DEF FreeTabs, TypeInv, ChromeTyped
<1>5. Gone'
  BY <1>1, <1>2, <1>3, <1>4 DEF Gone, At, Elsewhere
<1>6. ASSUME ~disturbed PROVE Mindful(n)'
  <2>1. HasOwn(n) /\ Knows(n)
    BY <1>6 DEF GroupInv, Mindful
  <2>2. HasOwn(n)'
    BY <1>1, <1>2, <1>3, <2>1 DEF HasOwn
  <2>3. Knows(n)'
    BY <1>1, <1>2, <1>3, <2>1 DEF Knows, At
  <2>. QED
    BY <2>2, <2>3 DEF Mindful
<1>. QED
  BY <1>1, <1>2, <1>5, <1>6, GroupsStay DEF GroupInv

LEMMA JoinedLive ==
    ASSUME TypeInv, TypeInv', NEW t \in Tabs, groupOf[t] = None, NEW g \in Groups,
           groupOf' = [groupOf EXCEPT ![t] = g]
    PROVE  /\ LiveGroups' = LiveGroups \union {g}
           /\ \A h \in Groups \ {g} : TabsIn(h)' = TabsIn(h)
<1>1. \A h : h \in LiveGroups' <=> h \in Groups /\ \E u \in Tabs : groupOf'[u] = h
  BY TabSessionsAssumption DEF LiveGroups, TypeInv, ChromeTyped
<1>2. \A u \in Tabs : groupOf'[u] = IF u = t THEN g ELSE groupOf[u]
  BY DEF TypeInv, ChromeTyped
<1>. QED
  BY <1>1, <1>2, LiveIs, TabSessionsAssumption DEF TabsIn, TypeInv

LEMMA GroupGroups ==
    ASSUME TypeInv, TypeInv', Gone, GroupInv, NEW n \in Names, Group(n)
    PROVE  Gone' /\ GroupInv'
<1> DEFINE t == call[n].id
<1>1. /\ Elsewhere(n) /\ call[n].pc = "group" /\ t \in Tabs /\ groupOf[t] = None
      /\ UNCHANGED <<url, title, ownedGroups, disturbed>>
  BY GroupDoes DEF Group, At, Gone, TypeInv, CallsTyped, Ready
<1>2. \A m \in Names \ {n} : At(m, "group") => call[m].id \in Tabs /\ call[m].id # t
  BY <1>1 DEF Gone, At, TypeInv, CallsTyped, Ready
<1>3. CASE UNCHANGED <<groupOf, maker>> /\ call'[n].pc = "go" /\ getSession(n)' = getSession(n)
  BY <1>1, <1>3, QuietElse
<1>4. CASE /\ UNCHANGED maker /\ call'[n].pc = "record"
           /\ getSession(n).groupId \in LiveGroups /\ Joins(n, getSession(n).groupId)
  <2> DEFINE g == getSession(n).groupId
  <2>1. /\ g \in Groups /\ groupOf' = [groupOf EXCEPT ![t] = g]
        /\ getSession(n)'.groupId = g /\ call'[n].groupId = g
    BY <1>4, LiveAreGroups DEF Joins, TypeInv
  <2>2. LiveGroups' = LiveGroups /\ \A h \in Groups \ {g} : TabsIn(h)' = TabsIn(h)
    BY <1>1, <1>4, <2>1, JoinedLive
  <2>3. Gone'
    BY <1>1, <1>2, <1>4, <2>1, <2>2 DEF Gone, At, Elsewhere, TypeInv, ChromeTyped
  <2>4. ASSUME ~disturbed PROVE GroupInv'
    <3>1. OwnedByMaker /\ AtMostOne /\ \A m \in Names : HasOwn(m) /\ Knows(m)
      BY <2>4 DEF GroupInv, Mindful
    <3>2. maker[g] = n
      BY <1>4, <3>1 DEF HasOwn
    <3>3. OwnedByMaker'
      <4> SUFFICES ASSUME NEW h \in LiveGroups' PROVE maker'[h] \in Names /\ OwnedBy(h, maker[h])'
        BY DEF OwnedByMaker
      <4>1. PICK m \in Names : maker[h] = m /\ OwnedBy(h, m) /\ maker'[h] = m
        BY <1>4, <2>2, <3>1 DEF OwnedByMaker
      <4>2. m = n => ownedGroups[h] # None
        BY <1>1, <4>1 DEF OwnedBy, At
      <4>3. OwnedBy(h, m)'
        BY <1>1, <4>1, <4>2 DEF OwnedBy, At, Elsewhere
      <4>. QED
        BY <4>1, <4>3
    <3>4. AtMostOne'
      BY <1>4, <2>2, <3>1 DEF AtMostOne
    <3>5. HasOwn(n)' /\ Knows(n)'
      BY <1>4, <2>1, <2>2, <3>2 DEF HasOwn, Knows, At
    <3>6. ASSUME NEW m \in Names \ {n} PROVE HasOwn(m)' /\ Knows(m)'
      <4>1. Made(m)' = Made(m) /\ Made(m) \subseteq Groups \ {g}
        BY <1>4, <2>2, <3>2, LiveAreGroups DEF Made, TypeInv
      <4>2. /\ getSession(m)' = getSession(m) /\ call'[m] = call[m] /\ HasOwn(m) /\ Knows(m)
        BY <1>1, <3>1 DEF Elsewhere
      <4>3. HasOwn(m)'
        BY <1>4, <2>2, <4>2 DEF HasOwn
      <4>4. At(m, "close all")' => (\A h \in Made(m) : TabsIn(h) \subseteq getSession(m).tabIds)'
        BY <2>2, <4>1, <4>2 DEF Knows, At
      <4>5. Knows(m)'
        BY <4>1, <4>2, <4>4 DEF Knows, At
      <4>. QED
        BY <4>3, <4>5
    <3>. QED
      BY <3>3, <3>4, <3>5, <3>6 DEF GroupInv, Mindful
  <2>. QED
    BY <1>1, <2>3, <2>4 DEF GroupInv
<1>5. ASSUME NEW g \in FreeGroups, maker' = [maker EXCEPT ![g] = n], call'[n].pc = "entitle",
             getSession(n).groupId = None, Joins(n, g)
      PROVE  Gone' /\ GroupInv'
  <2>1. /\ g \in Groups \ LiveGroups /\ groupOf' = [groupOf EXCEPT ![t] = g]
        /\ getSession(n)'.groupId = g /\ call'[n].groupId = g
    BY <1>5 DEF Joins, FreeGroups
  <2>2. /\ LiveGroups' = LiveGroups \union {g} /\ LiveGroups \subseteq Groups
        /\ \A h \in Groups \ {g} : TabsIn(h)' = TabsIn(h)
    BY <1>1, <2>1, JoinedLive, LiveAreGroups DEF TypeInv
  <2>3. \A h \in Groups : maker'[h] = IF h = g THEN n ELSE maker[h]
    BY <1>5 DEF TypeInv, ChromeTyped, Owners
  <2>4. Gone'
    BY <1>1, <1>2, <1>5, <2>1, <2>2, <2>3 DEF Gone, At, Elsewhere, TypeInv, ChromeTyped
  <2>5. ASSUME ~disturbed PROVE GroupInv'
    <3>1. OwnedByMaker /\ AtMostOne /\ \A m \in Names : HasOwn(m) /\ Knows(m)
      BY <2>5 DEF GroupInv, Mindful
    <3>2. Made(n) = {}
      <4>1. Made(n) \subseteq {None}
        BY <1>1, <1>5, <3>1 DEF Knows
      <4>2. Made(n) \subseteq Groups
        BY <2>2 DEF Made
      <4>. QED
        BY <4>1, <4>2, TabSessionsAssumption
    <3>3. title[g] = None /\ ownedGroups[g] = None
      BY <2>1 DEF Gone
    <3>4. OwnedByMaker'
      <4> SUFFICES ASSUME NEW h \in LiveGroups' PROVE maker'[h] \in Names /\ OwnedBy(h, maker[h])'
        BY DEF OwnedByMaker
      <4>1. CASE h = g
        <5>1. maker'[h] = n
          BY <2>1, <2>3, <4>1
        <5>2. OwnedBy(g, n)'
          BY <1>1, <1>5, <2>1, <3>3 DEF OwnedBy, At
        <5>. QED
          BY <4>1, <5>1, <5>2
      <4>2. CASE h # g
        <5>1. PICK m \in Names : maker[h] = m /\ OwnedBy(h, m) /\ maker'[h] = m
          BY <2>2, <2>3, <3>1, <4>2 DEF OwnedByMaker
        <5>2. m # n
          BY <2>2, <3>2, <4>2, <5>1 DEF Made
        <5>3. OwnedBy(h, m)'
          BY <1>1, <5>1, <5>2 DEF OwnedBy, At, Elsewhere
        <5>. QED
          BY <5>1, <5>3
      <4>. QED
        BY <4>1, <4>2
    <3>5. AtMostOne'
      <4>1. \A h \in LiveGroups : maker'[h] = maker[h] /\ maker[h] # n
        BY <2>1, <2>2, <2>3, <3>2 DEF Made
      <4>2. maker'[g] = n
        BY <2>1, <2>3
      <4>. QED
        BY <2>2, <3>1, <4>1, <4>2 DEF AtMostOne
    <3>6. HasOwn(n)' /\ Knows(n)'
      BY <1>5, <2>1, <2>3 DEF HasOwn, Knows, At
    <3>7. ASSUME NEW m \in Names \ {n} PROVE HasOwn(m)' /\ Knows(m)'
      <4>1. Made(m)' = Made(m) /\ Made(m) \subseteq Groups \ {g}
        BY <2>1, <2>2, <2>3 DEF Made
      <4>2. /\ getSession(m)' = getSession(m) /\ call'[m] = call[m] /\ HasOwn(m) /\ Knows(m)
        BY <1>1, <3>1 DEF Elsewhere
      <4>3. g # getSession(m).groupId /\ g # call[m].groupId
        BY <1>5, TabSessionsAssumption DEF FreeGroups, getSession, NoSession
      <4>4. HasOwn(m)'
        BY <2>2, <2>3, <4>2, <4>3 DEF HasOwn
      <4>5. At(m, "close all")' => (\A h \in Made(m) : TabsIn(h) \subseteq getSession(m).tabIds)'
        BY <2>2, <4>1, <4>2 DEF Knows, At
      <4>6. Knows(m)'
        BY <4>1, <4>2, <4>5 DEF Knows, At
      <4>. QED
        BY <4>4, <4>6
    <3>. QED
      BY <3>4, <3>5, <3>6, <3>7 DEF GroupInv, Mindful
  <2>. QED
    BY <1>1, <2>4, <2>5 DEF GroupInv
<1>. QED
  BY <1>3, <1>4, <1>5, GroupDoes

\* A step that gives a group of the session a title, and goes on to save its ownership.
LEMMA TitledGroups ==
    ASSUME TypeInv, TypeInv', Gone, GroupInv, NEW n \in Names, Elsewhere(n),
           NEW g \in LiveGroups, NEW new \in {n, Custom}, ~disturbed => maker[g] = n,
           title' = [title EXCEPT ![g] = new],
           UNCHANGED <<groupOf, ownedGroups, maker, disturbed>>, getSession(n)' = getSession(n),
           call'[n].pc = "record", call'[n].groupId = g,
           \/ call[n].pc = "entitle" /\ call[n].groupId = g /\ new = n
           \/ call[n].pc = "retitle"
    PROVE  Gone' /\ GroupInv'
<1>1. /\ LiveGroups' = LiveGroups /\ LiveGroups \subseteq Groups
      /\ \A h : TabsIn(h)' = TabsIn(h) /\ \A m : Made(m)' = Made(m)
  BY SameLive, LiveAreGroups DEF TypeInv, Made
<1>2. \A h \in Groups : title'[h] = IF h = g THEN new ELSE title[h]
  BY DEF TypeInv, ChromeTyped
<1>3. Gone'
  BY <1>1, <1>2 DEF Gone, Elsewhere, At
<1>4. ASSUME ~disturbed PROVE GroupInv'
  <2>1. OwnedByMaker /\ AtMostOne /\ \A m \in Names : HasOwn(m) /\ Knows(m)
    BY <1>4 DEF GroupInv, Mindful
  <2>2. OwnedByMaker'
    <3> SUFFICES ASSUME NEW h \in LiveGroups' PROVE maker'[h] \in Names /\ OwnedBy(h, maker[h])'
      BY DEF OwnedByMaker
    <3>1. PICK m \in Names : maker[h] = m /\ OwnedBy(h, m) /\ maker'[h] = m
      BY <1>1, <2>1 DEF OwnedByMaker
    <3>2. CASE m # n
      BY <1>1, <1>2, <1>4, <3>1, <3>2 DEF OwnedBy, Elsewhere, At
    <3>3. CASE m = n /\ ownedGroups[h] # None
      BY <1>1, <1>2, <1>4, <3>1, <3>3 DEF OwnedBy
    <3>4. CASE m = n /\ ownedGroups[h] = None
      <4>1. call[n].pc = "entitle" /\ call[n].groupId = h /\ getSession(n).groupId = h
        BY <3>1, <3>4 DEF OwnedBy, At
      <4>. QED
        BY <1>1, <1>2, <3>1, <3>4, <4>1 DEF OwnedBy, At
    <3>. QED
      BY <3>1, <3>2, <3>3, <3>4
  <2>3. AtMostOne'
    BY <1>1, <2>1 DEF AtMostOne
  <2>4. HasOwn(n)' /\ Knows(n)'
    BY <1>1, <1>4, <2>1 DEF HasOwn, Knows, At
  <2>5. ASSUME NEW m \in Names \ {n} PROVE HasOwn(m)' /\ Knows(m)'
    <3>1. /\ getSession(m)' = getSession(m) /\ call'[m] = call[m] /\ HasOwn(m) /\ Knows(m)
          /\ Made(m)' = Made(m)
      BY <1>1, <2>1 DEF Elsewhere
    <3>. QED
      BY <1>1, <3>1 DEF HasOwn, Knows, At
  <2>. QED
    BY <2>2, <2>3, <2>4, <2>5 DEF GroupInv, Mindful
<1>. QED
  BY <1>3, <1>4 DEF GroupInv

LEMMA EntitleGroups ==
    ASSUME TypeInv, TypeInv', Gone, GroupInv, NEW n \in Names, Entitle(n)
    PROVE  Gone' /\ GroupInv'
<1> DEFINE g == call[n].groupId
<1>1. /\ Elsewhere(n) /\ getSession(n)' = getSession(n) /\ call[n].pc = "entitle"
      /\ UNCHANGED <<url, groupOf, ownedGroups, maker, disturbed>>
  BY EntitleDoes DEF Entitle, At
<1>2. ~disturbed => HasOwn(n)
  BY DEF GroupInv, Mindful
<1>3. CASE /\ g \in LiveGroups /\ title' = [title EXCEPT ![g] = n]
           /\ call'[n].pc = "record" /\ call'[n].groupId = g
  <2>1. ~disturbed => maker[g] = n
    BY <1>1, <1>2, <1>3 DEF HasOwn
  <2>. QED
    BY <1>1, <1>3, <2>1, TitledGroups
<1>4. CASE g \notin LiveGroups /\ UNCHANGED title /\ call'[n].pc = "go"
  <2>1. Gone'
    BY <1>1, <1>4, GoneStays DEF Gone
  <2>2. ASSUME ~disturbed PROVE GroupInv'
    <3>1. \A h \in LiveGroups : maker[h] = n => ownedGroups[h] # None
      BY <1>1, <1>4, <2>2 DEF GroupInv, OwnedByMaker, OwnedBy, At
    <3>2. Mindful(n)'
      BY <1>1, <1>4, <2>2, MindfulElse
    <3>. QED
      BY <1>1, <1>4, <2>2, <3>1, <3>2, GroupsSaved
  <2>. QED
    BY <1>1, <2>1, <2>2 DEF GroupInv
<1>. QED
  BY <1>3, <1>4, EntitleDoes

LEMMA RetitleGroups ==
    ASSUME TypeInv, TypeInv', Gone, GroupInv, NEW n \in Names, Retitle(n)
    PROVE  Gone' /\ GroupInv'
<1> DEFINE g == getSession(n).groupId
<1>1. /\ Elsewhere(n) /\ getSession(n)' = getSession(n) /\ call[n].pc = "retitle"
      /\ UNCHANGED <<url, groupOf, ownedGroups, maker, disturbed>>
  BY RetitleDoes DEF Retitle, At
<1>2. ~disturbed => HasOwn(n)
  BY DEF GroupInv, Mindful
<1>3. CASE /\ g \in LiveGroups /\ title' = [title EXCEPT ![g] = Custom]
           /\ call'[n].pc = "record" /\ call'[n].groupId = g
  <2>1. ~disturbed => maker[g] = n
    BY <1>2, <1>3 DEF HasOwn
  <2>. QED
    BY <1>1, <1>3, <2>1, TitledGroups
<1>4. CASE call'[n].pc = "idle" /\ UNCHANGED title
  BY <1>1, <1>4, QuietElse
<1>. QED
  BY <1>3, <1>4, RetitleDoes

LEMMA RecordGroups ==
    ASSUME TypeInv, TypeInv', Gone, GroupInv, NEW n \in Names, Record(n)
    PROVE  Gone' /\ GroupInv'
<1> DEFINE g == call[n].groupId
<1>1. /\ Elsewhere(n) /\ getSession(n)' = getSession(n) /\ UNCHANGED chromeVars
      /\ call'[n].pc \in {"go", "idle"} /\ call[n].pc = "record"
      /\ SaveOwned(n, [owned[n] EXCEPT ![g] = n], FALSE)
      /\ owned[n] \in Owners /\ g \in Groups
  BY RecordDoes, IdleReady DEF Record, At, TypeInv, CallsTyped, Saving, Ready
<1>2. UNCHANGED <<groupOf, title, maker>>
  BY <1>1, SavedIs DEF chromeVars
<1>3. Gone'
  BY <1>1, <1>2, SavedIs, GoneStays
<1>4. ASSUME ~disturbed' PROVE GroupInv'
  <2>1. /\ ~disturbed
        /\ \A h \in LiveGroups : /\ ownedGroups'[h] = [owned[n] EXCEPT ![g] = n][h]
                                 /\ owned[n][h] = ownedGroups[h]
    BY <1>1, <1>4, SavedIs
  <2>2. HasOwn(n) /\ OwnedByMaker /\ LiveGroups \subseteq Groups
    BY <2>1, LiveAreGroups DEF GroupInv, Mindful, TypeInv
  <2>3. \A h \in LiveGroups : \/ ownedGroups'[h] = maker[h]
                              \/ /\ ownedGroups'[h] = ownedGroups[h]
                                 /\ maker[h] = n => ownedGroups[h] # None
    <3>1. \A h \in LiveGroups : maker[h] = n /\ h # g => ownedGroups[h] # None
      BY <1>1, <2>2 DEF OwnedByMaker, OwnedBy, At
    <3>2. ASSUME NEW h \in LiveGroups, h # g PROVE ownedGroups'[h] = ownedGroups[h]
      BY <1>1, <2>1, <2>2, <3>2 DEF Owners
    <3>3. g \in LiveGroups => ownedGroups'[g] = n /\ maker[g] = n
      BY <1>1, <2>1, <2>2 DEF Owners, HasOwn
    <3>. QED
      BY <3>1, <3>2, <3>3
  <2>4. Mindful(n)'
    BY <1>1, <1>2, <2>1, MindfulElse
  <2>. QED
    BY <1>1, <1>2, <2>1, <2>3, <2>4, GroupsSaved
<1>. QED
  BY <1>3, <1>4 DEF GroupInv

LEMMA ForgetGroups ==
    ASSUME TypeInv, TypeInv', Gone, GroupInv, NEW n \in Names, ForgetSession(n) \/ ForgetGroup(n)
    PROVE  Gone' /\ GroupInv'
<1>1. /\ Elsewhere(n) /\ getSession(n)' = getSession(n) /\ UNCHANGED chromeVars
      /\ call'[n].pc = "idle" /\ call[n].pc \in {"forget session", "forget group"}
      /\ owned[n] \in Owners
  BY ForgetDoes DEF ForgetSession, ForgetGroup, At, TypeInv, CallsTyped, Saving
<1>2. PICK new, wrong :
        /\ SaveOwned(n, new, wrong)
        /\ \/ /\ call[n].pc = "forget session"
              /\ new = [g \in Groups |-> IF owned[n][g] = n THEN None ELSE owned[n][g]]
           \/ /\ new = [owned[n] EXCEPT ![call[n].groupId] = None]
              /\ wrong = (call[n].groupId \in LiveGroups)
  BY DEF ForgetSession, ForgetGroup, At
<1>3. UNCHANGED <<groupOf, title, maker>>
  BY <1>1, <1>2, SavedIs DEF chromeVars
<1>4. Gone'
  BY <1>1, <1>2, <1>3, SavedIs, GoneStays
<1>5. ASSUME ~disturbed' PROVE GroupInv'
  <2>1. /\ ~disturbed /\ ~wrong
        /\ \A h \in LiveGroups : ownedGroups'[h] = new[h] /\ owned[n][h] = ownedGroups[h]
    BY <1>2, <1>5, SavedIs
  <2>2. Knows(n) /\ LiveGroups \subseteq Groups /\ \A h \in Made(n) : ownedGroups[h] = n
    BY <1>1, <2>1, OwnedUnless, LiveAreGroups DEF GroupInv, Mindful, TypeInv
  <2>3. ASSUME NEW h \in LiveGroups
        PROVE  ownedGroups'[h] = ownedGroups[h] /\ (maker[h] = n => ownedGroups[h] # None)
    <3>1. CASE call[n].pc = "forget session" /\ new = [g \in Groups |-> IF owned[n][g] = n THEN None ELSE owned[n][g]]
      <4>1. Made(n) = {}
        BY <2>2, <3>1 DEF Knows, At
      <4>2. ownedGroups[h] # n /\ maker[h] # n
        BY <2>1, <4>1, TabSessionsAssumption DEF GroupInv, OwnedByMaker, OwnedBy, Made
      <4>. QED
        BY <2>1, <2>2, <3>1, <4>2
    <3>2. CASE new = [owned[n] EXCEPT ![call[n].groupId] = None] /\ call[n].groupId \notin LiveGroups
      <4>1. ownedGroups'[h] = ownedGroups[h]
        BY <1>1, <2>1, <2>2, <3>2 DEF Owners
      <4>. QED
        BY <2>2, <4>1, TabSessionsAssumption DEF Made
    <3>. QED
      BY <1>2, <2>1, <3>1, <3>2
  <2>4. Mindful(n)'
    BY <1>1, <1>3, <2>1, MindfulElse
  <2>. QED
    BY <1>1, <1>3, <2>1, <2>3, <2>4, GroupsSaved
<1>. QED
  BY <1>4, <1>5 DEF GroupInv

LEMMA CloseNextGroups ==
    ASSUME TypeInv, TypeInv', Gone, GroupInv, NEW n \in Names, CloseNext(n)
    PROVE  Gone' /\ GroupInv'
<1>1. /\ call'[n].pc = "close all" /\ call[n].pc = "close all"
      /\ \A m \in Names \ {n} : call'[m] = call[m]
  BY CloseNextDoes DEF CloseNext, At
<1>2. ASSUME NEW t \in Tabs, CloseTab(t) PROVE Gone' /\ GroupInv'
  BY <1>1, <1>2, ClosingGroups
<1>3. ASSUME Elsewhere(n), UNCHANGED chromeVars, StillSaved,
             getSession(n)'.groupId = getSession(n).groupId,
             \A t \in Tabs : Open(t) /\ t \in getSession(n).tabIds => t \in getSession(n)'.tabIds
      PROVE  Gone' /\ GroupInv'
  <2>1. UNCHANGED <<groupOf, title, ownedGroups, maker>> /\ (disturbed => disturbed')
    BY <1>3, StillIs
  <2>2. LiveGroups' = LiveGroups /\ Made(n)' = Made(n) /\ \A g : TabsIn(g)' = TabsIn(g)
    BY <2>1, SameLive DEF TypeInv, Made
  <2>3. ASSUME ~disturbed PROVE Mindful(n)'
    <3>1. HasOwn(n) /\ Knows(n) /\ Made(n) \subseteq Groups
      BY <2>3, LiveAreGroups DEF GroupInv, Mindful, Made, TypeInv
    <3>2. \A g \in Made(n) : TabsIn(g) \subseteq {t \in Tabs : Open(t) /\ t \in getSession(n).tabIds}
      BY <1>1, <3>1, TabSessionsAssumption DEF Knows, At, TabsIn, TypeInv, ChromeTyped
    <3>3. HasOwn(n)'
      BY <1>1, <1>3, <2>1, <2>2, <3>1 DEF HasOwn
    <3>4. (\A g \in Made(n) : TabsIn(g) \subseteq getSession(n).tabIds)'
      BY <1>3, <2>2, <3>2
    <3>5. Knows(n)'
      BY <1>1, <3>4 DEF Knows, At
    <3>. QED
      BY <3>3, <3>5 DEF Mindful
  <2>. QED
    BY <1>1, <1>3, <2>1, <2>3, QuietGroups
<1>. QED
  BY <1>2, <1>3, CloseNextDoes

LEMMA ClosedMade ==
    ASSUME TypeInv, GroupInv, ~disturbed, NEW n \in Names, At(n, "close all"), getSession(n).tabIds = {}
    PROVE  Made(n) = {}
<1>1. \A g \in Made(n) : TabsIn(g) \subseteq {}
  BY DEF GroupInv, Mindful, Knows
<1>. QED
  BY <1>1, LiveIs DEF Made, TabsIn, TypeInv

LEMMA ClosedGroups ==
    ASSUME TypeInv, TypeInv', Gone, GroupInv, NEW n \in Names, Closed(n)
    PROVE  Gone' /\ GroupInv'
<1>1. /\ Elsewhere(n) /\ call[n].pc = "close all"
      /\ UNCHANGED <<groupOf, title, ownedGroups, maker>> /\ (disturbed => disturbed')
  BY ClosedDoes, StillIs DEF Closed, At
<1>2. CASE getSession(n).tabIds = {} /\ call'[n].pc = "forget session" /\ getSession(n)' = NoSession
  <2>1. LiveGroups' = LiveGroups /\ Made(n)' = Made(n) /\ LiveGroups \subseteq Groups
    BY <1>1, SameLive, LiveAreGroups DEF TypeInv, Made
  <2>2. ASSUME ~disturbed PROVE Mindful(n)'
    <3>1. NoSession.groupId = None
      BY DEF NoSession
    <3>2. None \notin LiveGroups'
      BY <2>1, TabSessionsAssumption
    <3>3. HasOwn(n)'
      BY <1>2, <3>1, <3>2 DEF HasOwn
    <3>4. Knows(n)'
      BY <1>1, <1>2, <2>1, <2>2, ClosedMade DEF Knows, At
    <3>. QED
      BY <3>3, <3>4 DEF Mindful
  <2>. QED
    BY <1>1, <1>2, <2>2, QuietGroups
<1>3. CASE call'[n].pc = "idle" /\ getSession(n)'.groupId = getSession(n).groupId
  BY <1>1, <1>3, QuietElse
<1>. QED
  BY <1>2, <1>3, ClosedDoes

LEMMA BindGroups ==
    ASSUME TypeInv, TypeInv', Gone, GroupInv, NEW n \in Names, call[n].pc \in {"idle", "bind"}, Ends(n),
           UNCHANGED chromeVars, StillSaved \/ Unsaved,
           UNCHANGED sessions \/ \E t \in Tabs : bindTab(n, t)
    PROVE  Gone' /\ GroupInv'
<1>1. Elsewhere(n) /\ getSession(n)'.groupId = getSession(n).groupId
  BY EndsDoes, BindTabDoes, SameGets DEF Elsewhere
<1>. QED
  BY <1>1, EndsDoes, StillIs, QuietElse

LEMMA BeginsGroups ==
    ASSUME TypeInv, TypeInv', Gone, GroupInv, NEW n \in Names, Begins(n)
    PROVE  Gone' /\ GroupInv'
<1>1. At(n, "idle") /\ call[n].pc = "idle"
  BY DEF Begins, At
<1>2. /\ Idle \in CallStates /\ Idle.id = None
      /\ \A tool \in {"navigate", "close_session"} :
           [Idle EXCEPT !.tool = tool] \in CallStates /\ [Idle EXCEPT !.tool = tool].id = None
  BY IdleReady DEF Idle, CallStates
<1>3. CASE navigate(n) \/ list_tabs(n) \/ reconcile(n, [Idle EXCEPT !.tool = "close_session"])
  BY <1>1, <1>2, <1>3, ReconcileGroups DEF navigate, list_tabs
<1>4. CASE find_tab(n)
  BY <1>1, <1>4, FindTabDoes, StillIs, QuietElse
<1>5. CASE activate_tab(n)
  BY <1>1, <1>5, BindGroups, EnsureIs DEF activate_tab
<1>6. CASE close_tab(n)
  BY <1>1, <1>6, IdleReady, CloseActiveTabGroups DEF close_tab
<1>7. CASE /\ \E g \in LiveGroups :
                 Go(n, [Idle EXCEPT !.pc = "close group", !.groupId = g, !.todo = TabsIn(g)])
           /\ UNCHANGED <<sessions, chromeVars>> /\ StillSaved
  BY <1>1, <1>7, CloseGroupDoes, StillIs, QuietElse
<1>. QED
  BY <1>3, <1>4, <1>5, <1>6, <1>7 DEF Begins, close_session

LEMMA ProceedsGroups ==
    ASSUME TypeInv, TypeInv', Gone, GroupInv, NEW n \in Names, Proceeds(n)
    PROVE  Gone' /\ GroupInv'
<1>1. CASE Update(n)
  BY <1>1, UpdateDoes, QuietElse DEF Update, At
<1>2. CASE Bind(n)
  <2>1. call[n].id \in Tabs
    BY <1>2 DEF Bind, At, TypeInv, CallsTyped, Ready
  <2>. QED
    BY <1>2, <2>1, BindGroups, EnsureIs DEF Bind, At
<1>3. CASE CloseGroupNext(n)
  <2>1. call[n].pc = "close group"
    BY <1>3 DEF CloseGroupNext, At
  <2>. QED
    BY <1>3, <2>1, CloseGroupNextDoes, ClosingGroups, StillIs, QuietElse
<1>4. CASE GroupClosed(n)
  BY <1>4, GroupClosedDoes, StillIs, QuietElse DEF GroupClosed, At
<1>. QED
  BY <1>1, <1>2, <1>3, <1>4, AdoptGroups, AcquireGroups, ReplaceGroups, CreateGroups, GroupGroups,
     EntitleGroups, RecordGroups, RetitleGroups, CloseNextGroups, ClosedGroups, ForgetGroups
     DEF Proceeds

\* A worker that dies loses no ownership but what it was about to save.
LEMMA RestartGroups ==
    ASSUME TypeInv, TypeInv', Gone, GroupInv, WorkerRestarts
    PROVE  Gone' /\ GroupInv'
<1>1. /\ UNCHANGED <<groupOf, title, ownedGroups, maker>>
      /\ \A n \in Names : call'[n].pc = "idle" /\ getSession(n)' = NoSession
  BY IdleReady DEF WorkerRestarts, chromeVars, getSession
<1>2. LiveGroups' = LiveGroups /\ LiveGroups \subseteq Groups
  BY <1>1, SameLive, LiveAreGroups DEF TypeInv
<1>3. Gone'
  BY <1>1, <1>2 DEF Gone, At
<1>4. ASSUME ~disturbed' PROVE GroupInv'
  <2>1. OwnedByMaker /\ AtMostOne
    BY <1>4 DEF GroupInv, WorkerRestarts
  <2>2. OwnedByMaker'
    <3> SUFFICES ASSUME NEW g \in LiveGroups' PROVE maker'[g] \in Names /\ OwnedBy(g, maker[g])'
      BY DEF OwnedByMaker
    <3>1. PICK m \in Names : maker[g] = m /\ OwnedBy(g, m) /\ maker'[g] = m
      BY <1>1, <1>2, <2>1 DEF OwnedByMaker
    <3>2. ownedGroups[g] # None
      BY <1>4, <3>1, TabSessionsAssumption DEF OwnedBy, WorkerRestarts, At
    <3>3. OwnedBy(g, m)'
      BY <1>1, <3>1, <3>2 DEF OwnedBy
    <3>. QED
      BY <3>1, <3>3
  <2>3. AtMostOne'
    BY <1>1, <1>2, <2>1 DEF AtMostOne
  <2>4. ASSUME NEW n \in Names PROVE HasOwn(n)' /\ Knows(n)'
    <3>1. getSession(n)'.groupId = None /\ None \notin LiveGroups' /\ call'[n].pc = "idle"
      BY <1>1, <1>2, TabSessionsAssumption DEF NoSession
    <3>. QED
      BY <3>1 DEF HasOwn, Knows, At
  <2>. QED
    BY <2>2, <2>3, <2>4 DEF GroupInv, Mindful
<1>. QED
  BY <1>3, <1>4 DEF GroupInv

LEMMA UserClosesGroups ==
    ASSUME TypeInv, TypeInv', Gone, GroupInv, NEW t \in Tabs, UserCloses(t)
    PROVE  Gone' /\ GroupInv'
<1>1. CloseTab(t) /\ call' = call
  BY DEF UserCloses
<1>2. Gone'
  BY <1>1, GoneClosed
<1>3. CASE \E n \in Names : TRUE
  BY <1>1, <1>2, <1>3, GroupsClosed, CloseTabIs DEF GroupInv
<1>4. CASE ~\E n \in Names : TRUE
  <2>1. disturbed' = disturbed
    BY <1>1, CloseTabIs
  <2>2. ASSUME ~disturbed PROVE LiveGroups = {}
    BY <1>4, <2>2 DEF GroupInv, OwnedByMaker
  <2>3. LiveGroups' \subseteq LiveGroups
    BY <1>1, ClosedLive DEF TypeInv
  <2>. QED
    BY <1>2, <1>4, <2>1, <2>2, <2>3 DEF GroupInv, OwnedByMaker, AtMostOne
<1>. QED
  BY <1>3, <1>4

LEMMA NextGroups ==
    ASSUME TypeInv, TypeInv', Gone, GroupInv, [Next]_vars PROVE Gone' /\ GroupInv'
<1>1. ASSUME UNCHANGED vars \/ \E t \in Tabs : Wanders(t) PROVE Gone' /\ GroupInv'
  <2>1. UNCHANGED <<sessions, ownedGroups, groupOf, title, call, maker, disturbed>>
    BY <1>1 DEF vars, chromeVars, ghostVars, Wanders
  <2>0. LiveGroups' = LiveGroups
    BY <2>1, SameLive DEF TypeInv
  <2>2. Gone'
    BY <2>0, <2>1 DEF Gone, At
  <2>3. OwnedByMaker => OwnedByMaker'
    BY <2>0, <2>1 DEF OwnedByMaker, OwnedBy, At, getSession
  <2>4. AtMostOne => AtMostOne'
    BY <2>0, <2>1 DEF AtMostOne
  <2>5. ASSUME NEW n \in Names PROVE HasOwn(n) /\ Knows(n) => HasOwn(n)' /\ Knows(n)'
    BY <2>0, <2>1 DEF HasOwn, Knows, Made, TabsIn, At, getSession
  <2>. QED
    BY <2>1, <2>2, <2>3, <2>4, <2>5 DEF GroupInv, Mindful
<1>. QED
  BY <1>1, BeginsGroups, ProceedsGroups, RestartGroups, UserClosesGroups DEF Next

LEMMA SpecInv == Spec => [](TypeInv /\ ActiveInv /\ Gone /\ GroupInv)
<1>1. TypeInv /\ ActiveInv /\ Gone /\ GroupInv /\ [Next]_vars
        => (TypeInv /\ ActiveInv /\ Gone /\ GroupInv)'
  BY NextTyped, NextActive, NextGroups
<1>. QED
  BY InitTyped, InitActive, InitGone, <1>1, PTL DEF Spec

\* Also while tabs are closed under a call, sessions are bound to tabs, adopt groups
\* and lose them, a session that has tabs has one of them active (handleTabRemoved,
\* bindTab, reconcile and closeSession in sessions.js).
THEOREM ActiveTabTracked == Spec => []ActiveIsTracked
<1>1. TypeInv /\ ActiveInv => ActiveIsTracked
  BY DEF ActiveInv, Active, Tracked, ActiveIsTracked, TypeInv, SessionsTyped, getSession
<1>. QED
  BY SpecInv, <1>1, PTL

\* While no ownership was lost, each group is owned in the storage by who made it, or
\* its maker is about to own it, so that the maker finds it after any restart and
\* list_sessions does not list it as orphaned (reconcile, groupTab, setGroupTitle and
\* forgetOwnedGroups in sessions.js).
THEOREM GroupsAreFound == Spec => []GroupsFound
<1>1. TypeInv /\ GroupInv => GroupsFound
  <2> SUFFICES ASSUME TypeInv, GroupInv, ~disturbed, NEW g \in LiveGroups
               PROVE  /\ g \in groupsOf(maker[g], ownedGroups) \/ call[maker[g]].pc = "entitle"
                      /\ g \in trackedGroupIds
    BY DEF GroupsFound
  <2>1. PICK m \in Names : maker[g] = m /\ OwnedBy(g, m)
    BY DEF GroupInv, OwnedByMaker
  <2>2. g \in Groups /\ g # None
    BY LiveAreGroups, TabSessionsAssumption DEF TypeInv
  <2>3. CASE ownedGroups[g] = m
    BY <2>1, <2>2, <2>3, TabSessionsAssumption DEF groupsOf, trackedGroupIds
  <2>4. CASE ownedGroups[g] = None
    <3>1. At(m, "entitle") \/ title[g] = m
      BY <2>1, <2>4 DEF OwnedBy
    <3>2. getSession(m).groupId = g
      BY <2>1, <2>4 DEF OwnedBy
    <3>3. m \in DOMAIN sessions /\ sessions[m].groupId = g
      BY <2>2, <3>2 DEF getSession, NoSession
    <3>. QED
      BY <2>1, <3>1, <3>3 DEF groupsOf, trackedGroupIds, At
  <2>. QED
    BY <2>1, <2>3, <2>4 DEF OwnedBy
<1>. QED
  BY SpecInv, <1>1, PTL

\* A close_session that forgets its session has left no group of it in the browser,
\* whatever else ran between the closing of its tabs and the end (closeSession in
\* sessions.js).
THEOREM ClosedSessionIsGone == Spec => ClosedIsGone
<1>1. TypeInv /\ GroupInv /\ [Next]_vars
        => [ \A n \in Names :
               Closed(n) /\ n \notin DOMAIN sessions' /\ ~disturbed
                 => \A g \in LiveGroups : maker[g] # n ]_vars
  <2> SUFFICES ASSUME TypeInv, GroupInv, NEW n \in Names, Closed(n),
                      n \notin DOMAIN sessions', ~disturbed
               PROVE  \A g \in LiveGroups : maker[g] # n
    OBVIOUS
  <2>1. getSession(n).tabIds = {}
    BY ClosedDoes
  <2>2. Made(n) = {}
    BY <2>1, ClosedMade DEF Closed
  <2>. QED
    BY <2>2 DEF Made
<1>. QED
  BY SpecInv, <1>1, PTL DEF Spec, ClosedIsGone

----------------------------------------------------------------------------
(* The lock                                                                *)

\* A call becomes a navigate only when it begins, and only while there is no other.
LEMMA NavigateBegins ==
    ASSUME TypeInv, NEW n \in Names, Begins(n) \/ Proceeds(n),
           call'[n].tool = "navigate", call[n].tool # "navigate"
    PROVE  navigate(n)
<1>1. Idle.tool # "navigate" /\ Idle \in CallStates /\ Idle.id = None
  BY IdleReady, TabSessionsAssumption DEF Idle
<1>2. CASE Begins(n)
  <2>1. [Idle EXCEPT !.tool = "close_session"] \in CallStates
        /\ [Idle EXCEPT !.tool = "close_session"].id = None
        /\ [Idle EXCEPT !.tool = "close_session"].tool # "navigate"
    BY IdleReady DEF Idle, CallStates
  <2>2. ~list_tabs(n)
    BY <1>1, ReconcileDoes DEF list_tabs
  <2>3. ~reconcile(n, [Idle EXCEPT !.tool = "close_session"])
    BY <2>1, ReconcileDoes
  <2>4. ~find_tab(n) /\ ~activate_tab(n)
    BY FindTabDoes, EndsDoes DEF activate_tab
  <2>5. ~close_tab(n)
    BY <1>1, CloseActiveTabDoes DEF close_tab
  <2>6. ~(/\ \E g \in LiveGroups :
                 Go(n, [Idle EXCEPT !.pc = "close group", !.groupId = g, !.todo = TabsIn(g)])
          /\ UNCHANGED <<sessions, chromeVars>> /\ StillSaved)
    BY CloseGroupDoes
  <2>. QED
    BY <1>2, <2>2, <2>3, <2>4, <2>5, <2>6 DEF Begins, close_session
<1>3. CASE Proceeds(n)
  <2>1. call[n].pc \notin {"acquire", "replace", "create", "group", "entitle", "go"}
    BY DEF TypeInv, CallsTyped, Ready
  <2>2. ~Adopt(n)
    BY AdoptDoes
  <2>3. ~Acquire(n) /\ ~Replace(n) /\ ~Create(n) /\ ~Group(n) /\ ~Entitle(n) /\ ~Update(n)
    BY <2>1 DEF Acquire, Replace, Create, Group, Entitle, Update, At
  <2>4. ~Record(n) /\ ~Retitle(n) /\ ~Bind(n)
    BY <1>1, RecordDoes, RetitleDoes, EndsDoes DEF Bind
  <2>5. ~CloseNext(n) /\ ~Closed(n) /\ ~ForgetSession(n)
    BY CloseNextDoes, ClosedDoes, ForgetDoes
  <2>6. ~CloseGroupNext(n) /\ ~GroupClosed(n) /\ ~ForgetGroup(n)
    BY CloseGroupNextDoes, GroupClosedDoes, ForgetDoes
  <2>. QED
    BY <1>3, <2>2, <2>3, <2>4, <2>5, <2>6 DEF Proceeds
<1>. QED
  BY <1>2, <1>3

\* A step of one call leaves the others as they are.
LEMMA OthersWait ==
    ASSUME TypeInv, NEW n \in Names, Begins(n) \/ Proceeds(n)
    PROVE  \A m \in Names \ {n} : call'[m] = call[m]
<1>1. \A c : Go(n, c) \/ GoSave(n, c) => \A m \in Names \ {n} : call'[m] = call[m]
  BY GoDoes
<1>2. /\ Idle \in CallStates /\ Idle.id = None
      /\ \A tool \in {"navigate", "close_session"} :
           [Idle EXCEPT !.tool = tool] \in CallStates /\ [Idle EXCEPT !.tool = tool].id = None
  BY IdleReady DEF Idle, CallStates
<1>3. CASE Begins(n)
  <2>1. CASE navigate(n) \/ list_tabs(n) \/ reconcile(n, [Idle EXCEPT !.tool = "close_session"])
    BY <1>2, <2>1, ReconcileDoes DEF navigate, list_tabs, Elsewhere
  <2>2. CASE find_tab(n) \/ activate_tab(n)
    BY <2>2, FindTabDoes, EndsDoes DEF activate_tab, Elsewhere
  <2>3. CASE close_tab(n)
    BY <2>3, CloseActiveTabDoes DEF close_tab
  <2>4. CASE \E g \in LiveGroups :
               Go(n, [Idle EXCEPT !.pc = "close group", !.groupId = g, !.todo = TabsIn(g)])
    BY <1>1, <2>4
  <2>. QED
    BY <1>3, <2>1, <2>2, <2>3, <2>4 DEF Begins, close_session
<1>4. CASE Proceeds(n)
  <2>1. CASE Adopt(n) \/ Acquire(n) \/ Create(n) \/ Group(n) \/ Entitle(n) \/ Record(n)
    BY <2>1, AdoptDoes, AcquireDoes, CreateDoes, GroupDoes, EntitleDoes, RecordDoes DEF Elsewhere
  <2>2. CASE Update(n) \/ Retitle(n) \/ Bind(n) \/ Replace(n)
    BY <2>2, UpdateDoes, RetitleDoes, EndsDoes, CloseActiveTabDoes DEF Elsewhere, Bind, Replace
  <2>3. CASE CloseNext(n) \/ Closed(n) \/ ForgetSession(n) \/ ForgetGroup(n)
    BY <2>3, CloseNextDoes, ClosedDoes, ForgetDoes DEF Elsewhere
  <2>4. CASE CloseGroupNext(n) \/ GroupClosed(n)
    BY <2>4, CloseGroupNextDoes, GroupClosedDoes DEF Elsewhere
  <2>. QED
    BY <1>4, <2>1, <2>2, <2>3, <2>4 DEF Proceeds
<1>. QED
  BY <1>3, <1>4

LEMMA InitLock == Init => LockInv /\ AddressInv
BY IdleReady, TabSessionsAssumption DEF Init, LockInv, AddressInv, Address, Reserves, At

LEMMA NextLock == ASSUME TypeInv, LockInv, [Next]_vars PROVE LockInv'
<1>1. ASSUME NEW n \in Names, Begins(n) \/ Proceeds(n) PROVE LockInv'
  <2>1. call'[n].tool = "navigate" /\ call[n].tool # "navigate" => MayEnter
    BY <1>1, NavigateBegins DEF navigate
  <2>. QED
    BY <1>1, <2>1, OthersWait DEF LockInv, MayEnter
<1>2. CASE WorkerRestarts
  BY <1>2, IdleReady, TabSessionsAssumption DEF WorkerRestarts, LockInv
<1>3. CASE UNCHANGED call
  BY <1>3 DEF LockInv
<1>. QED
  BY <1>1, <1>2, <1>3 DEF Next, UserCloses, Wanders, vars

----------------------------------------------------------------------------
(* The tab of a call                                                       *)

LEMMA StrayedStays ==
    ASSUME NEW n,
           \/ \E c : reconcile(n, c)
           \/ find_tab(n) \/ Adopt(n) \/ Create(n) \/ Group(n) \/ Entitle(n) \/ Record(n)
           \/ Retitle(n) \/ Closed(n) \/ GroupClosed(n) \/ ForgetSession(n) \/ ForgetGroup(n)
    PROVE  UNCHANGED strayed
<1>1. CASE \E c : reconcile(n, c)
  BY <1>1 DEF reconcile
<1>2. CASE find_tab(n) \/ Create(n) \/ Group(n) \/ Entitle(n) \/ Retitle(n) \/ Closed(n) \/ GroupClosed(n)
  BY <1>2 DEF find_tab, Create, Group, Entitle, Retitle, Closed, GroupClosed, StillSaved, ghostVars
<1>3. CASE Adopt(n) \/ Record(n) \/ ForgetSession(n) \/ ForgetGroup(n)
  BY <1>3 DEF Adopt, Record, ForgetSession, ForgetGroup, SaveOwned
<1>. QED
  BY <1>1, <1>2, <1>3

\* A tab only counts again where a session has it.
Recounts == \A t \in strayed \ strayed' : t \in Tabs /\ url'[t] # None => t \in Managed'

LEMMA NoRecounts == ASSUME UNCHANGED strayed \/ StillSaved PROVE Recounts
BY DEF Recounts, StillSaved, ghostVars

\* A check that finds room lets the tabs count that it has seen.
LEMMA EnsureStrayed ==
    ASSUME TypeInv, NEW host, NEW x, NEW room, ensureDomainTabLimits(host, x, room)
    PROVE  /\ room = FALSE => UNCHANGED strayed
           /\ \A t \in strayed \ strayed' : /\ t \in Managed \/ t = x
                                           /\ rulesToCheck(url[t]) = rulesToCheck(host)
<1>1. PICK read :
        strayed' = {t \in strayed : \/ ~room
                                    \/ t \notin (collectManagedTabIds(read) \ {x}) \union {x}
                                    \/ rulesToCheck(url[t]) # rulesToCheck(host)}
  BY DEF ensureDomainTabLimits
<1>2. collectManagedTabIds(read) \subseteq Managed
  BY DEF collectManagedTabIds, Managed, TypeInv, SessionsTyped, getSession
<1>. QED
  BY <1>1, <1>2

LEMMA BoundRecounts ==
    ASSUME TypeInv, NEW n \in Names, NEW t \in Tabs, NEW host, NEW room \in BOOLEAN,
           ensureDomainTabLimits(host, t, room), UNCHANGED chromeVars,
           IF room THEN bindTab(n, t) ELSE UNCHANGED sessions
    PROVE  Recounts
<1>1. CASE ~room
  BY <1>1, EnsureStrayed, NoRecounts
<1>2. CASE room
  <2>1. /\ UNCHANGED <<url, groupOf>> /\ t \in getSession(n)'.tabIds
        /\ \A m \in Names : getSession(m).tabIds \subseteq getSession(m)'.tabIds
    BY <1>2, BindTabDoes DEF chromeVars
  <2>2. Managed \subseteq Managed'
    BY <2>1 DEF Managed, Open
  <2>3. url'[t] # None => t \in Managed'
    BY <2>1, TabSessionsAssumption DEF Managed, Open
  <2>. QED
    BY <2>2, <2>3, EnsureStrayed DEF Recounts
<1>. QED
  BY <1>1, <1>2

\* What a step does to the tabs that are still open after it, but one.
Persists(x) ==
    \A t \in Tabs \ {x} : url'[t] # None =>
        /\ Open(t)
        /\ groupOf[t] # None => groupOf'[t] # None
        /\ t \notin Managed' \union strayed' => t \notin strayed /\ url'[t] = url[t]
        /\ \A m \in Names : t \in getSession(m).tabIds => t \in getSession(m)'.tabIds

LEMMA ManagedPersists ==
    ASSUME NEW x, Persists(x)
    PROVE  \A t \in Tabs \ {x} : t \in Managed /\ url'[t] # None => t \in Managed'
BY DEF Persists, Managed, Open

LEMMA AddressStays ==
    ASSUME TypeInv, AddressInv, NEW x, Persists(x),
           \A m \in Names : (call'[m] = call[m] /\ call[m].id # x) \/ Address(m)'
    PROVE  AddressInv'
<1> SUFFICES ASSUME NEW m \in Names, call'[m] = call[m], call[m].id # x PROVE Address(m)'
  BY DEF AddressInv
<1>1. Address(m) /\ call[m].id \in Tabs \union {None}
  BY DEF AddressInv, TypeInv, CallsTyped, CallStates
<1>2. Reserves(m)' = Reserves(m)
  BY DEF Reserves
<1>3. ASSUME NEW t \in Tabs, t = call[m].id, url'[t] # None
      PROVE  /\ Reserves(m) /\ call[m].pc \notin {"replace", "create"} => t \in getSession(m)'.tabIds
             /\ At(m, "bind") /\ t \notin Managed' \union strayed' => url'[t] = call[m].url
  <2>1. Open(t) /\ (t \in Managed => t \in Managed') /\ t \in Tabs \ {x}
    BY <1>3, ManagedPersists DEF Persists
  <2>2. /\ t \notin Managed' \union strayed' => t \notin strayed /\ url'[t] = url[t]
        /\ t \in getSession(m).tabIds => t \in getSession(m)'.tabIds
    BY <1>3, <2>1 DEF Persists
  <2>. QED
    BY <1>1, <1>3, <2>1, <2>2 DEF Address
<1>. QED
  BY <1>1, <1>2, <1>3 DEF Address, Open, At

\* A call that is at none of those steps.
LEMMA AddressElse ==
    ASSUME NEW n \in Names,
           \/ /\ call'[n].pc # "bind"
              /\ call'[n].tool # "navigate" \/ call'[n].pc \notin {"group", "entitle", "record", "go"}
           \/ /\ call'[n].pc \in {"group", "entitle", "record", "go"}
              /\ Open(call[n].id)' => call'[n].id \in getSession(n)'.tabIds
              /\ call'[n].id = call[n].id
    PROVE  Address(n)'
<1>1. CASE /\ call'[n].pc # "bind"
           /\ call'[n].tool # "navigate" \/ call'[n].pc \notin {"group", "entitle", "record", "go"}
  BY <1>1 DEF Address, Reserves, At
<1>2. CASE /\ call'[n].pc \in {"group", "entitle", "record", "go"}
           /\ Open(call[n].id)' => call'[n].id \in getSession(n)'.tabIds
           /\ call'[n].id = call[n].id
  BY <1>2 DEF Address, Reserves, At, Open
<1>. QED
  BY <1>1, <1>2

LEMMA PersistsClosed ==
    ASSUME TypeInv, NEW t \in Tabs, CloseTab(t) PROVE Persists(None)
<1>1. /\ url' = [url EXCEPT ![t] = None] /\ groupOf' = [groupOf EXCEPT ![t] = None]
      /\ strayed' = strayed \ {t}
  BY CloseTabIs
<1>2. \A m \in Names : getSession(m)'.tabIds = getSession(m).tabIds \ {t}
  BY CloseTabIs, RemovedGets DEF TypeInv
<1>3. \A u \in Tabs : url'[u] # None => u # t /\ url'[u] = url[u] /\ groupOf'[u] = groupOf[u]
  BY <1>1 DEF TypeInv, ChromeTyped
<1>. QED
  BY <1>1, <1>2, <1>3, TabSessionsAssumption DEF Persists, Open

LEMMA PersistsQuiet ==
    ASSUME TypeInv, UNCHANGED <<url, groupOf>>, Recounts, NEW n \in Names,
           \A m \in Names \ {n} : getSession(m)' = getSession(m),
           \A t \in getSession(n).tabIds : Open(t) => t \in getSession(n)'.tabIds
    PROVE  Persists(None)
BY TabSessionsAssumption DEF Persists, Open, Recounts

\* A step of one call that leaves Chrome as it is and drops no open tab.
LEMMA QuietAddress ==
    ASSUME TypeInv, AddressInv, NEW n \in Names, Elsewhere(n), UNCHANGED <<url, groupOf>>, Recounts,
           \A t \in getSession(n).tabIds : Open(t) => t \in getSession(n)'.tabIds,
           Address(n)'
    PROVE  AddressInv'
<1>1. Persists(None)
  BY PersistsQuiet DEF Elsewhere
<1>2. \A m \in Names \ {n} : call'[m] = call[m] /\ (call[m].id # None \/ Address(m)')
  <2> SUFFICES ASSUME NEW m \in Names \ {n}, call[m].id = None, call'[m] = call[m] PROVE Address(m)'
    BY DEF Elsewhere
  <2>. QED
    BY DEF Address, Open
<1>. QED
  BY <1>1, <1>2, AddressStays

LEMMA ClosingAddress ==
    ASSUME TypeInv, AddressInv, NEW n \in Names, NEW t \in Tabs, CloseTab(t),
           \A m \in Names \ {n} : call'[m] = call[m],
           Address(n)' \/ call'[n] = call[n]
    PROVE  AddressInv'
<1>1. Persists(None)
  BY PersistsClosed
<1>2. ASSUME NEW m \in Names, call'[m] = call[m], call[m].id = None PROVE Address(m)'
  BY <1>2 DEF Address, Open
<1>. QED
  BY <1>1, <1>2, AddressStays

LEMMA CloseActiveTabAddress ==
    ASSUME TypeInv, AddressInv, NEW n \in Names, NEW then, closeActiveTab(n, then),
           then.pc \in {"idle", "create"}
    PROVE  AddressInv'
<1> DEFINE t == getSession(n).activeTabId
<1>1. /\ \A m \in Names \ {n} : call'[m] = call[m]
      /\ call'[n].pc \in {"idle", "create"}
  BY CloseActiveTabDoes, IdleReady
<1>2. Address(n)'
  BY <1>1, AddressElse
<1>3. CASE UNCHANGED chromeVars /\ StillSaved /\ Elsewhere(n) /\ getSession(n)' = getSession(n)
  BY <1>2, <1>3, NoRecounts, QuietAddress DEF chromeVars
<1>4. CASE t \in Tabs /\ CloseTab(t)
  BY <1>1, <1>2, <1>4, ClosingAddress
<1>5. CASE t \in Tabs /\ ~Open(t) /\ UNCHANGED chromeVars /\ StillSaved /\ handleTabRemoved(t)
  <2>1. \A m \in Names : getSession(m)'.tabIds = getSession(m).tabIds \ {t}
    BY <1>5, RemovedGets DEF TypeInv
  <2>2. Persists(None)
    BY <1>5, <2>1, TabSessionsAssumption DEF Persists, Open, chromeVars, StillSaved, ghostVars
  <2>3. ASSUME NEW m \in Names, call'[m] = call[m], call[m].id = None PROVE Address(m)'
    BY <2>3 DEF Address, Open
  <2>. QED
    BY <1>1, <1>2, <2>2, <2>3, AddressStays
<1>. QED
  BY <1>3, <1>4, <1>5, CloseActiveTabDoes

LEMMA CreateAddress ==
    ASSUME TypeInv, AddressInv, NEW n \in Names, Create(n) PROVE AddressInv'
<1>1. PICK t \in FreeTabs :
        /\ Elsewhere(n) /\ url' = [url EXCEPT ![t] = Blank]
        /\ getSession(n)'.tabIds = getSession(n).tabIds \union {t}
        /\ call'[n].pc = "group" /\ call'[n].id = t
  BY CreateDoes
<1>2. t \in Tabs /\ \A m \in Names : call[m].id # t
  BY DEF FreeTabs
<1>3. UNCHANGED groupOf /\ UNCHANGED strayed
  BY StrayedStays DEF Create
<1>4. Persists(t)
  BY <1>1, <1>2, <1>3, TabSessionsAssumption DEF Persists, Open, Elsewhere, TypeInv, ChromeTyped
<1>5. Address(n)'
  BY <1>1 DEF Address, At
<1>. QED
  BY <1>1, <1>2, <1>4, <1>5, AddressStays DEF Elsewhere

LEMMA GroupAddress ==
    ASSUME TypeInv, AddressInv, NEW n \in Names, Group(n) PROVE AddressInv'
<1>1. /\ Elsewhere(n) /\ UNCHANGED url
      /\ getSession(n)'.tabIds = getSession(n).tabIds
      /\ call'[n].id = call[n].id /\ call'[n].pc \in {"go", "record", "entitle"}
  BY GroupDoes
<1>2. /\ call[n].pc = "group" /\ Reserves(n) /\ Address(n) /\ LiveGroups \subseteq Groups
      /\ call[n].id \in Tabs
  BY LiveAreGroups DEF Group, At, TypeInv, CallsTyped, Ready, Reserves, AddressInv
<1>3. UNCHANGED groupOf \/ \E g \in Groups : groupOf' = [groupOf EXCEPT ![call[n].id] = g]
  BY <1>2, GroupDoes DEF Joins, FreeGroups
<1>4. \A t \in Tabs : groupOf[t] # None => groupOf'[t] # None
  BY <1>2, <1>3, TabSessionsAssumption DEF TypeInv, ChromeTyped
<1>5. Persists(None)
  BY <1>1, <1>4, StrayedStays, TabSessionsAssumption DEF Persists, Open, Elsewhere
<1>6. Open(call[n].id)' => Open(call[n].id)
  BY <1>1, <1>2, TabSessionsAssumption DEF Open
<1>7. Open(call[n].id)' => call'[n].id \in getSession(n)'.tabIds
  BY <1>1, <1>2, <1>6 DEF Address
<1>8. Address(n)'
  BY <1>1, <1>7, AddressElse
<1>9. ASSUME NEW m \in Names, call'[m] = call[m], call[m].id = None PROVE Address(m)'
  BY <1>9 DEF Address, Open
<1>. QED
  BY <1>1, <1>5, <1>8, <1>9, AddressStays DEF Elsewhere

LEMMA ReservedTab ==
    ASSUME TypeInv, AddressInv, NEW n \in Names,
           call[n].pc \in {"group", "entitle", "record", "go"}, call[n].tool = "navigate",
           Open(call[n].id)
    PROVE  call[n].id \in getSession(n).tabIds
BY DEF AddressInv, Address, Reserves

LEMMA UpdateAddress ==
    ASSUME TypeInv, AddressInv, NEW n \in Names, Update(n) PROVE AddressInv'
<1>1. /\ Elsewhere(n) /\ getSession(n)' = getSession(n) /\ UNCHANGED groupOf
      /\ call'[n].pc \in {"idle", "retitle"}
      /\ \/ /\ Open(call[n].id) /\ url' = [url EXCEPT ![call[n].id] = call[n].url]
            /\ strayed' = strayed \ {call[n].id}
         \/ UNCHANGED <<url, strayed>>
  BY UpdateDoes
<1>2. /\ call[n].pc = "go" /\ call[n].tool = "navigate" /\ call[n].id \in Tabs
      /\ call[n].url \in Hosts
  BY DEF Update, At, TypeInv, CallsTyped, Ready
<1>3. ASSUME Open(call[n].id), url' = [url EXCEPT ![call[n].id] = call[n].url]
      PROVE  call[n].id \in Managed'
  <2>1. call[n].id \in getSession(n)'.tabIds
    BY <1>1, <1>2, <1>3, ReservedTab
  <2>2. url'[call[n].id] # None /\ call[n].id # None
    BY <1>2, <1>3, TabSessionsAssumption DEF TypeInv, ChromeTyped
  <2>. QED
    BY <1>2, <2>1, <2>2 DEF Managed, Open
<1>4. Persists(None)
  <2>1. CASE UNCHANGED <<url, strayed>>
    BY <1>1, <2>1, TabSessionsAssumption DEF Persists, Open, Elsewhere
  <2>2. CASE /\ Open(call[n].id) /\ url' = [url EXCEPT ![call[n].id] = call[n].url]
             /\ strayed' = strayed \ {call[n].id}
    <3>1. \A u \in Tabs \ {call[n].id} : url'[u] = url[u]
      BY <2>2 DEF TypeInv, ChromeTyped
    <3>. QED
      BY <1>1, <1>2, <1>3, <2>2, <3>1, TabSessionsAssumption DEF Persists, Open, Elsewhere
  <2>. QED
    BY <1>1, <2>1, <2>2
<1>5. Address(n)'
  BY <1>1, AddressElse
<1>6. ASSUME NEW m \in Names, call'[m] = call[m], call[m].id = None PROVE Address(m)'
  BY <1>6 DEF Address, Open
<1>. QED
  BY <1>1, <1>4, <1>5, <1>6, AddressStays DEF Elsewhere

LEMMA BindAddress ==
    ASSUME TypeInv, AddressInv, NEW n \in Names, Ends(n), UNCHANGED chromeVars, Recounts,
           UNCHANGED sessions \/ \E t \in Tabs : bindTab(n, t)
    PROVE  AddressInv'
<1>1. Elsewhere(n) /\ getSession(n).tabIds \subseteq getSession(n)'.tabIds
  BY EndsDoes, BindTabDoes, SameGets DEF Elsewhere
<1>2. Address(n)'
  BY EndsDoes, AddressElse
<1>. QED
  BY <1>1, <1>2, QuietAddress DEF chromeVars

LEMMA BeginsAddress ==
    ASSUME TypeInv, AddressInv, NEW n \in Names, Begins(n) PROVE AddressInv'
<1>1. /\ Idle \in CallStates /\ Idle.id = None
      /\ \A tool \in {"navigate", "close_session"} :
           [Idle EXCEPT !.tool = tool] \in CallStates /\ [Idle EXCEPT !.tool = tool].id = None
  BY IdleReady DEF Idle, CallStates
<1>2. ASSUME NEW c \in CallStates, c.id = None, reconcile(n, c) PROVE AddressInv'
  <2>1. /\ Elsewhere(n) /\ getSession(n)'.tabIds = getSession(n).tabIds
        /\ call'[n].pc \in {"acquire", "close all", "idle", "adopt"}
    BY <1>2, ReconcileDoes
  <2>2. Address(n)'
    BY <2>1, AddressElse
  <2>. QED
    BY <1>2, <2>1, <2>2, StrayedStays, NoRecounts, QuietAddress DEF reconcile, chromeVars
<1>3. CASE navigate(n) \/ list_tabs(n) \/ reconcile(n, [Idle EXCEPT !.tool = "close_session"])
  BY <1>1, <1>2, <1>3 DEF navigate, list_tabs
<1>4. CASE find_tab(n)
  <2>1. /\ Elsewhere(n) /\ getSession(n)' = getSession(n) /\ UNCHANGED <<url, groupOf>>
        /\ call'[n].pc = "bind" /\ call'[n].url = url[call'[n].id]
    BY <1>4, FindTabDoes DEF chromeVars
  <2>2. Address(n)'
    BY <2>1 DEF Address, Reserves
  <2>. QED
    BY <1>4, <2>1, <2>2, StrayedStays, NoRecounts, QuietAddress
<1>5. CASE activate_tab(n)
  <2>1. PICK t \in Tabs, room \in BOOLEAN :
          \/ /\ ensureDomainTabLimits(url[t], t, room)
             /\ IF room THEN bindTab(n, t) ELSE UNCHANGED sessions
          \/ UNCHANGED sessions /\ StillSaved
    BY <1>5 DEF activate_tab
  <2>2. Ends(n) /\ UNCHANGED chromeVars
    BY <1>5 DEF activate_tab
  <2>3. Recounts
    BY <2>1, <2>2, BoundRecounts, NoRecounts
  <2>. QED
    BY <2>1, <2>2, <2>3, BindAddress
<1>6. CASE close_tab(n)
  BY <1>6, IdleReady, CloseActiveTabAddress DEF close_tab
<1>7. CASE /\ \E g \in LiveGroups :
                 Go(n, [Idle EXCEPT !.pc = "close group", !.groupId = g, !.todo = TabsIn(g)])
           /\ UNCHANGED <<sessions, chromeVars>> /\ StillSaved
  <2>1. /\ Elsewhere(n) /\ getSession(n)' = getSession(n) /\ UNCHANGED <<url, groupOf>>
        /\ call'[n].pc = "close group"
    BY <1>7, CloseGroupDoes DEF chromeVars
  <2>. QED
    BY <1>7, <2>1, NoRecounts, AddressElse, QuietAddress
<1>. QED
  BY <1>3, <1>4, <1>5, <1>6, <1>7 DEF Begins, close_session

LEMMA ProceedsAddress ==
    ASSUME TypeInv, AddressInv, ActiveInv, NEW n \in Names, Proceeds(n) PROVE AddressInv'
<1>1. CASE Adopt(n)
  <2>1. /\ Elsewhere(n) /\ getSession(n).tabIds \subseteq getSession(n)'.tabIds
        /\ call'[n].pc \in {"adopt", "acquire", "close all", "idle"} /\ UNCHANGED <<url, groupOf>>
    BY <1>1, AdoptDoes DEF Adopt, chromeVars
  <2>. QED
    BY <1>1, <2>1, StrayedStays, NoRecounts, AddressElse, QuietAddress
<1>2. CASE Acquire(n)
  <2>0. Open(getSession(n).activeTabId) => getSession(n).activeTabId \in getSession(n).tabIds
    BY DEF ActiveInv, Active
  <2>1. /\ Elsewhere(n) /\ getSession(n)' = getSession(n) /\ UNCHANGED <<url, groupOf>>
    BY <1>2, AcquireDoes DEF Acquire, chromeVars
  <2>2. Address(n)'
    <3>1. CASE call'[n].pc \in {"create", "replace", "idle"}
      BY <3>1, AddressElse
    <3>2. CASE call'[n].pc = "go" /\ call'[n].id \in getSession(n).tabIds
      BY <2>1, <3>2 DEF Address, Reserves, At
    <3>. QED
      BY <1>2, <2>0, <3>1, <3>2, AcquireDoes, IdleReady
  <2>3. PICK host, room : ensureDomainTabLimits(host, IF Open(getSession(n).activeTabId)
                                                       THEN getSession(n).activeTabId ELSE None, room)
    BY <1>2 DEF Acquire
  <2>4. Recounts
    <3>1. Managed \subseteq Managed'
      BY <2>1 DEF Managed, Open, Elsewhere
    <3>2. Open(getSession(n).activeTabId) /\ getSession(n).activeTabId \in Tabs
             => getSession(n).activeTabId \in Managed
      BY <2>0 DEF Managed
    <3>. QED
      BY <2>3, <3>1, <3>2, EnsureStrayed, TabSessionsAssumption DEF Recounts
  <2>. QED
    BY <2>1, <2>2, <2>4, QuietAddress
<1>3. CASE Replace(n)
  <2>1. [call[n] EXCEPT !.pc = "create"].pc = "create"
    BY DEF TypeInv, CallsTyped, CallStates
  <2>. QED
    BY <1>3, <2>1, CloseActiveTabAddress DEF Replace
<1>4. CASE Entitle(n)
  <2>1. /\ Elsewhere(n) /\ getSession(n)' = getSession(n) /\ UNCHANGED <<url, groupOf>>
        /\ call'[n].id = call[n].id /\ call'[n].pc \in {"record", "go"}
        /\ call[n].pc = "entitle" /\ call[n].tool = "navigate"
    BY <1>4, EntitleDoes DEF Entitle, At, TypeInv, CallsTyped, Ready
  <2>2. Open(call[n].id)' => call'[n].id \in getSession(n)'.tabIds
    BY <2>1, ReservedTab DEF Open
  <2>. QED
    BY <1>4, <2>1, <2>2, StrayedStays, NoRecounts, AddressElse, QuietAddress
<1>5. CASE Record(n)
  <2>1. /\ Elsewhere(n) /\ getSession(n)' = getSession(n) /\ UNCHANGED <<url, groupOf>>
        /\ call[n].pc = "record"
    BY <1>5, RecordDoes DEF Record, At, chromeVars
  <2>2. CASE call'[n] = Idle
    BY <1>5, <2>1, <2>2, IdleReady, StrayedStays, NoRecounts, AddressElse, QuietAddress
  <2>3. CASE /\ call'[n].pc = "go" /\ call[n].id # None /\ call'[n].id = call[n].id
    <3>1. call[n].tool = "navigate"
      BY <2>1, <2>3 DEF TypeInv, CallsTyped, Ready
    <3>2. Open(call[n].id)' => call'[n].id \in getSession(n)'.tabIds
      BY <2>1, <2>3, <3>1, ReservedTab DEF Open
    <3>. QED
      BY <1>5, <2>1, <2>3, <3>2, StrayedStays, NoRecounts, AddressElse, QuietAddress
  <2>. QED
    BY <1>5, <2>2, <2>3, RecordDoes
<1>6. CASE Retitle(n)
  BY <1>6, RetitleDoes, StrayedStays, NoRecounts, AddressElse, QuietAddress
<1>7. CASE Bind(n)
  <2>1. call[n].id \in Tabs
    BY <1>7 DEF Bind, At, TypeInv, CallsTyped, Ready
  <2>2. PICK room \in BOOLEAN :
          /\ ensureDomainTabLimits(call[n].url, call[n].id, room)
          /\ IF room THEN bindTab(n, call[n].id) ELSE UNCHANGED sessions
    BY <1>7 DEF Bind
  <2>3. Ends(n) /\ UNCHANGED chromeVars
    BY <1>7 DEF Bind
  <2>4. Recounts
    BY <2>1, <2>2, <2>3, BoundRecounts
  <2>. QED
    BY <2>1, <2>2, <2>3, <2>4, BindAddress
<1>8. CASE CloseNext(n)
  <2>1. call'[n].pc = "close all" /\ \A m \in Names \ {n} : call'[m] = call[m]
    BY <1>8, CloseNextDoes
  <2>2. Address(n)'
    BY <2>1, AddressElse
  <2>3. ASSUME NEW t \in Tabs, CloseTab(t) PROVE AddressInv'
    BY <2>1, <2>2, <2>3, ClosingAddress
  <2>4. CASE /\ Elsewhere(n) /\ UNCHANGED chromeVars /\ StillSaved
             /\ \A t \in getSession(n).tabIds : Open(t) => t \in getSession(n)'.tabIds
    BY <2>2, <2>4, NoRecounts, QuietAddress DEF chromeVars
  <2>. QED
    BY <1>8, <2>3, <2>4, CloseNextDoes
<1>9. CASE Closed(n)
  <2>1. /\ Elsewhere(n) /\ UNCHANGED <<url, groupOf>> /\ call'[n].pc \in {"forget session", "idle"}
        /\ getSession(n).tabIds = {} \/ getSession(n)'.tabIds = getSession(n).tabIds
    BY <1>9, ClosedDoes DEF chromeVars
  <2>. QED
    BY <1>9, <2>1, StrayedStays, NoRecounts, AddressElse, QuietAddress
<1>10. CASE ForgetSession(n) \/ ForgetGroup(n)
  BY <1>10, ForgetDoes, StrayedStays, NoRecounts, AddressElse, QuietAddress DEF chromeVars
<1>11. CASE CloseGroupNext(n)
  <2>1. call'[n].pc = "close group" /\ \A m \in Names \ {n} : call'[m] = call[m]
    BY <1>11, CloseGroupNextDoes
  <2>2. Address(n)'
    BY <2>1, <1>11, CloseGroupNextDoes, AddressElse
  <2>. QED
    BY <1>11, <2>1, <2>2, CloseGroupNextDoes, ClosingAddress, NoRecounts, QuietAddress DEF chromeVars
<1>12. CASE GroupClosed(n)
  <2>1. call'[n].pc # "bind" /\ call'[n].tool # "navigate"
    BY <1>12, GroupClosedDoes
  <2>. QED
    BY <1>12, <2>1, GroupClosedDoes, NoRecounts, AddressElse, QuietAddress DEF chromeVars
<1>. QED
  BY <1>1, <1>2, <1>3, <1>4, <1>5, <1>6, <1>7, <1>8, <1>9, <1>10, <1>11, <1>12,
     CreateAddress, GroupAddress, UpdateAddress DEF Proceeds

LEMMA NextAddress ==
    ASSUME TypeInv, ActiveInv, AddressInv, [Next]_vars PROVE AddressInv'
<1>1. ASSUME NEW t \in Tabs, UserCloses(t) PROVE AddressInv'
  <2>1. CloseTab(t) /\ call' = call
    BY <1>1 DEF UserCloses
  <2>. QED
    BY <2>1, ClosingAddress DEF AddressInv
<1>2. CASE WorkerRestarts
  BY <1>2, IdleReady DEF WorkerRestarts, AddressInv, Address, Reserves, At
<1>3. CASE UNCHANGED vars
  <2>1. UNCHANGED <<sessions, url, groupOf, call, strayed>>
    BY <1>3 DEF vars, chromeVars, ghostVars
  <2>. QED
    BY <2>1 DEF AddressInv, Address, Reserves, Managed, Open, At, getSession
<1>4. ASSUME NEW t \in Tabs, Wanders(t) PROVE AddressInv'
  <2>1. /\ UNCHANGED <<sessions, groupOf, call>> /\ strayed' = strayed \union {t} /\ Open(t)
        /\ \A u \in Tabs \ {t} : url'[u] = url[u]
    BY <1>4 DEF Wanders, TypeInv, ChromeTyped
  <2>2. \A m \in Names : getSession(m)' = getSession(m)
    BY <2>1, SameGets
  <2>3. Persists(None)
    BY <2>1, <2>2, TabSessionsAssumption DEF Persists, Open
  <2>4. ASSUME NEW m \in Names, call[m].id = None PROVE Address(m)'
    BY <2>1, <2>4 DEF Address, Open
  <2>. QED
    BY <2>1, <2>3, <2>4, AddressStays
<1>. QED
  BY <1>1, <1>2, <1>3, <1>4, BeginsAddress, ProceedsAddress DEF Next

----------------------------------------------------------------------------
(* The limits                                                              *)

LEMMA CardinalityLess ==
    ASSUME NEW S, NEW T, T \subseteq Tabs, S \subseteq T
    PROVE  /\ Cardinality(S) \in Nat /\ Cardinality(T) \in Nat
           /\ Cardinality(S) <= Cardinality(T)
BY FS_Subset, FS_CardinalityType, TabSessionsAssumption

LEMMA OneMore ==
    ASSUME NEW x, NEW S, NEW T, NEW L \in Nat,
           S \subseteq Tabs, T \subseteq Tabs, T \subseteq S \union {x}, Cardinality(S \ {x}) < L
    PROVE  Cardinality(T) <= L
<1> DEFINE R == S \ {x}
<1>1. IsFiniteSet(R) /\ x \notin R /\ Cardinality(R) \in Nat
  BY FS_Subset, FS_CardinalityType, TabSessionsAssumption
<1>2. IsFiniteSet(R \union {x}) /\ Cardinality(R \union {x}) = Cardinality(R) + 1
  BY <1>1, FS_AddElement
<1>3. T \subseteq R \union {x} /\ Cardinality(R) < L
  OBVIOUS
<1> HIDE DEF R
<1>4. Cardinality(T) \in Nat /\ Cardinality(T) <= Cardinality(R \union {x})
  BY <1>2, <1>3, FS_Subset, FS_CardinalityType
<1>. QED
  BY <1>1, <1>2, <1>3, <1>4

\* A step that lets no tab count that did not, and gives no call room it has not seen.
LEMMA LimitShrinks ==
    ASSUME LimitInv, disturbed => disturbed',
           \A d \in DOMAIN Limits : On(d)' \subseteq On(d),
           \A m \in Names : Reserves(m)' =>
               /\ Reserves(m) /\ call'[m].url = call[m].url
               /\ \A d \in DOMAIN Limits : On(d)' \ Taken(m)' \subseteq On(d) \ Taken(m)
    PROVE  LimitInv'
<1> SUFFICES ASSUME ~disturbed', NEW d \in DOMAIN Limits
             PROVE  /\ Cardinality(On(d))' <= Limits[d]
                    /\ \A m \in Names : Reserves(m)' /\ rulesToCheck(call'[m].url) = {d}
                                          => Cardinality(On(d) \ Taken(m))' < Limits[d]
  BY DEF LimitInv, RoomInv
<1>1. RoomInv /\ On(d) \subseteq Tabs /\ Limits[d] \in Nat
  BY TabSessionsAssumption DEF LimitInv, On, Placed, Managed
<1>2. Cardinality(On(d))' <= Limits[d]
  BY <1>1, CardinalityLess DEF RoomInv
<1>3. ASSUME NEW m \in Names, Reserves(m)', rulesToCheck(call'[m].url) = {d}
      PROVE  Cardinality(On(d) \ Taken(m))' < Limits[d]
  <2>1. Cardinality(On(d) \ Taken(m)) < Limits[d]
    BY <1>1, <1>3 DEF RoomInv
  <2>2. On(d)' \ Taken(m)' \subseteq On(d) \ Taken(m) /\ On(d) \ Taken(m) \subseteq Tabs
    BY <1>1, <1>3
  <2>3. Cardinality(On(d)' \ Taken(m)') \in Nat /\ Cardinality(On(d) \ Taken(m)) \in Nat
        /\ Cardinality(On(d)' \ Taken(m)') <= Cardinality(On(d) \ Taken(m))
    BY <2>2, CardinalityLess
  <2>. QED
    BY <1>1, <2>1, <2>3
<1>. QED
  BY <1>2, <1>3

\* A step that lets one tab count, where there is room for it and nobody else has seen it.
LEMMA LimitGrows ==
    ASSUME LimitInv, disturbed => disturbed', NEW t,
           HasLimits => \A m \in Names : ~Reserves(m)',
           ~disturbed' => \A d \in DOMAIN Limits :
               \/ On(d)' \subseteq On(d)
               \/ \E S \in SUBSET Tabs :
                    On(d)' \subseteq S \union {t} /\ Cardinality(S \ {t}) < Limits[d]
    PROVE  LimitInv'
<1> SUFFICES ASSUME ~disturbed', NEW d \in DOMAIN Limits
             PROVE  /\ Cardinality(On(d))' <= Limits[d]
                    /\ \A m \in Names : ~Reserves(m)'
  BY DEF LimitInv, RoomInv
<1>1. RoomInv /\ On(d) \subseteq Tabs /\ On(d)' \subseteq Tabs /\ Limits[d] \in Nat
  BY TabSessionsAssumption DEF LimitInv, On, Placed, Managed
<1>2. \A m \in Names : ~Reserves(m)'
  BY DEF HasLimits
<1>3. CASE On(d)' \subseteq On(d)
  BY <1>1, <1>2, <1>3, CardinalityLess DEF RoomInv
<1>4. CASE \E S \in SUBSET Tabs : On(d)' \subseteq S \union {t} /\ Cardinality(S \ {t}) < Limits[d]
  BY <1>1, <1>2, <1>4, OneMore
<1>. QED
  BY <1>3, <1>4

\* No rule applies to about:blank.
LEMMA BlankIsFree == rulesToCheck(Blank) = {}
<1> SUFFICES ASSUME NEW d \in DOMAIN Limits, domainMatches(Blank, d) PROVE FALSE
  BY DEF rulesToCheck
<1>1. Len(Reverse(d)) = Len(d) /\ Len(d) \in Nat \ {0}
  BY TabSessionsAssumption DEF Reverse
<1>2. Len(Reverse(<<>>)) = 0
  BY DEF Reverse
<1>3. Len(Reverse(d)) <= Len(Reverse(<<>>))
  BY DEF domainMatches, IsSuffix, IsPrefix, Blank
<1>. QED
  BY <1>1, <1>2, <1>3

\* While no ownership was lost, every tab that counts is seen by the check.
LEMMA ManagedSeen ==
    ASSUME TypeInv, GroupInv, ~disturbed
    PROVE  Managed \subseteq collectManagedTabIds(ownedGroups)
<1> SUFFICES ASSUME NEW t \in Managed PROVE t \in collectManagedTabIds(ownedGroups)
  OBVIOUS
<1>1. t \in Tabs /\ Open(t)
  BY DEF Managed
<1>2. ASSUME NEW n \in Names, t \in getSession(n).tabIds PROVE t \in collectManagedTabIds(ownedGroups)
  <2>1. n \in DOMAIN sessions /\ t \in sessions[n].tabIds
    BY <1>2 DEF getSession, NoSession
  <2>. QED
    BY <1>1, <2>1 DEF collectManagedTabIds
<1>3. ASSUME groupOf[t] # None PROVE t \in collectManagedTabIds(ownedGroups)
  <2> DEFINE g == groupOf[t]
  <2>1. g \in LiveGroups
    BY <1>1, <1>3 DEF LiveGroups
  <2>2. PICK m \in Names : maker[g] = m /\ OwnedBy(g, m)
    BY <2>1 DEF GroupInv, OwnedByMaker
  <2>3. ownedGroups[g] # None \/ getSession(m).groupId = g
    BY <2>2, TabSessionsAssumption DEF OwnedBy
  <2>4. ownedGroups[g] # None \/ \E n \in DOMAIN sessions : sessions[n].groupId = g
    BY <1>3, <2>3 DEF getSession, NoSession
  <2>. QED
    BY <1>1, <1>3, <2>4 DEF collectManagedTabIds
<1>. QED
  BY <1>2, <1>3 DEF Managed

\* What the check has seen.
LEMMA EnsureRoom ==
    ASSUME TypeInv, GroupInv, ~disturbed', NEW host, NEW x, ensureDomainTabLimits(host, x, TRUE),
           NEW d \in DOMAIN Limits, rulesToCheck(host) = {d}
    PROVE  Cardinality(Placed(d) \ {x}) < Limits[d]
<1>1. PICK read :
        /\ loadOwnedGroups(read)
        /\ assertDomainTabLimits(host, collectManagedTabIds(read) \ {x})
  BY DEF ensureDomainTabLimits
<1>2. ~disturbed /\ read = ownedGroups
  BY <1>1, LoadIs
<1> DEFINE seen == {t \in collectManagedTabIds(read) \ {x} : domainMatches(url[t], d)}
<1>3. Cardinality(seen) < Limits[d]
  BY <1>1 DEF assertDomainTabLimits, Quantify
<1>4. \A t \in Placed(d) : domainMatches(url[t], d)
  BY DEF Placed, rulesToCheck
<1>5. Placed(d) \ {x} \subseteq seen
  BY <1>2, <1>4, ManagedSeen DEF Placed
<1>6. seen \subseteq Tabs
  BY DEF collectManagedTabIds
<1> HIDE DEF seen
<1>7. /\ Cardinality(Placed(d) \ {x}) \in Nat /\ Cardinality(seen) \in Nat
      /\ Cardinality(Placed(d) \ {x}) <= Cardinality(seen)
  BY <1>5, <1>6, CardinalityLess
<1>. QED
  BY <1>3, <1>7, TabSessionsAssumption

\* A step of one call that moves no tab and manages no more of them, and has no room but
\* what it had.
LEMMA LimitStays ==
    ASSUME TypeInv, LimitInv, disturbed => disturbed', NEW n \in Names, Elsewhere(n),
           UNCHANGED <<url, strayed>>,
           \A t \in Tabs : groupOf'[t] # None => groupOf[t] # None \/ t \in Managed \/ ~Open(t),
           \A t \in getSession(n)'.tabIds : t \in getSession(n).tabIds \/ groupOf[t] # None,
           Reserves(n)' => /\ Reserves(n) /\ call'[n].url = call[n].url /\ Taken(n)' = Taken(n)
    PROVE  LimitInv'
<1>1. Managed' \subseteq Managed
  BY DEF Managed, Open, Elsewhere
<1>2. \A d \in DOMAIN Limits : On(d)' \subseteq On(d)
  BY <1>1 DEF On, Placed
<1>3. \A m \in Names \ {n} : Reserves(m)' =>
         Reserves(m) /\ call'[m].url = call[m].url /\ Taken(m)' = Taken(m)
  BY DEF Reserves, Taken, Elsewhere, At
<1>4. \A m \in Names : Reserves(m)' =>
         Reserves(m) /\ call'[m].url = call[m].url /\ Taken(m)' = Taken(m)
  BY <1>3
<1>. QED
  BY <1>2, <1>4, LimitShrinks

\* The same, of a step that leaves the groups of the tabs, and has no room left.
LEMMA LimitQuiet ==
    ASSUME TypeInv, LimitInv, disturbed => disturbed', NEW n \in Names, Elsewhere(n),
           UNCHANGED <<url, groupOf, strayed>>,
           \A t \in getSession(n)'.tabIds : t \in getSession(n).tabIds \/ groupOf[t] # None,
           \/ call'[n].tool # "navigate"
           \/ call'[n].pc \in {"idle", "adopt", "acquire", "close all"}
    PROVE  LimitInv'
<1>1. ~Reserves(n)'
  BY DEF Reserves
<1>. QED
  BY <1>1, LimitStays

\* A step in which a tab goes, or one that was gone leaves the sessions.
LEMMA LimitClosed ==
    ASSUME TypeInv, LimitInv, NEW t \in Tabs,
           \/ CloseTab(t)
           \/ ~Open(t) /\ handleTabRemoved(t) /\ UNCHANGED chromeVars /\ StillSaved,
           \A m \in Names : Reserves(m)' =>
               \/ call'[m] = call[m]
               \/ /\ At(m, "replace") /\ Reserves(m) /\ getSession(m).activeTabId = t
                  /\ call'[m].pc = "create" /\ call'[m].url = call[m].url
    PROVE  LimitInv'
<1>1. /\ handleTabRemoved(t)
      /\ disturbed => disturbed'
      /\ strayed \subseteq strayed' \union {t}
      /\ url' = [url EXCEPT ![t] = None] \/ (url' = url /\ ~Open(t))
      /\ groupOf' = [groupOf EXCEPT ![t] = None] \/ groupOf' = groupOf
  BY CloseTabIs DEF chromeVars, StillSaved, ghostVars
<1>2. \A m \in Names : getSession(m)'.tabIds = getSession(m).tabIds \ {t}
  BY <1>1, RemovedGets DEF TypeInv
<1>3. ASSUME NEW m \in Names
      PROVE  getSession(m)'.activeTabId = getSession(m).activeTabId \/ getSession(m).activeTabId = t
  BY <1>1, RemovedIs DEF TypeInv, getSession
<1>4. /\ t \notin Managed'
      /\ \A u \in Tabs \ {t} : url'[u] = url[u] /\ groupOf'[u] = groupOf[u]
  BY <1>1, TabSessionsAssumption DEF Managed, Open, TypeInv, ChromeTyped
<1>5. Managed' \subseteq Managed \ {t}
  BY <1>2, <1>4 DEF Managed, Open
<1>6. \A d \in DOMAIN Limits : On(d)' \subseteq On(d) \ {t}
  BY <1>1, <1>4, <1>5 DEF On, Placed, Managed
<1>7. ASSUME NEW m \in Names, Reserves(m)'
      PROVE  /\ Reserves(m) /\ call'[m].url = call[m].url
             /\ \A d \in DOMAIN Limits : On(d)' \ Taken(m)' \subseteq On(d) \ Taken(m)
  <2>1. CASE call'[m] = call[m] /\ At(m, "replace")
    <3>1. Taken(m) = {getSession(m).activeTabId} /\ Taken(m)' = {getSession(m)'.activeTabId}
      BY <2>1 DEF Taken, At
    <3>. QED
      BY <1>3, <1>6, <1>7, <2>1, <3>1 DEF Reserves
  <2>2. CASE call'[m] = call[m] /\ ~At(m, "replace")
    <3>1. Taken(m)' = Taken(m)
      BY <2>2 DEF Taken, At
    <3>. QED
      BY <1>6, <1>7, <2>2, <3>1 DEF Reserves
  <2>3. CASE /\ At(m, "replace") /\ Reserves(m) /\ getSession(m).activeTabId = t
             /\ call'[m].pc = "create" /\ call'[m].url = call[m].url
    <3>1. Taken(m) = {t} /\ Taken(m)' = {}
      BY <2>3 DEF Taken, At
    <3>. QED
      BY <1>6, <2>3, <3>1
  <2>. QED
    BY <1>7, <2>1, <2>2, <2>3
<1>. QED
  BY <1>1, <1>6, <1>7, LimitShrinks

LEMMA CloseActiveTabLimit ==
    ASSUME TypeInv, LimitInv, NEW n \in Names, NEW then, closeActiveTab(n, then),
           \/ then = Idle
           \/ At(n, "replace") /\ then.pc = "create" /\ then.url = call[n].url
    PROVE  LimitInv'
<1> DEFINE t == getSession(n).activeTabId
<1>1. Idle.tool # "navigate"
  BY IdleReady, TabSessionsAssumption
<1>2. At(n, "replace") => Reserves(n)
  BY DEF At, Reserves, TypeInv, CallsTyped, Ready
<1>3. CASE call'[n] = Idle /\ UNCHANGED chromeVars /\ StillSaved
           /\ Elsewhere(n) /\ getSession(n)' = getSession(n)
  BY <1>1, <1>3, LimitQuiet, QuietStep DEF chromeVars, StillSaved, ghostVars
<1>4. CASE /\ t \in Tabs /\ call'[n] = then
           /\ \/ CloseTab(t)
              \/ ~Open(t) /\ UNCHANGED chromeVars /\ StillSaved /\ handleTabRemoved(t)
  <2>1. \A m \in Names \ {n} : call'[m] = call[m]
    BY CloseActiveTabDoes
  <2>2. Reserves(n)' => then # Idle
    BY <1>1, <1>4 DEF Reserves
  <2>. QED
    BY <1>2, <1>4, <2>1, <2>2, LimitClosed
<1>. QED
  BY <1>3, <1>4, CloseActiveTabDoes

LEMMA AcquireLimit ==
    ASSUME TypeInv, GroupInv, LockInv, LimitInv, NEW n \in Names, Acquire(n) PROVE LimitInv'
<1> DEFINE active == getSession(n).activeTabId
           mine == IF Open(active) THEN active ELSE None
<1>1. /\ UNCHANGED <<sessions, url, groupOf>>
      /\ disturbed => disturbed'
      /\ call[n].tool = "navigate"
  BY EnsureIs DEF Acquire, At, chromeVars, Unsaved, TypeInv, CallsTyped, Ready
<1>2. Elsewhere(n) /\ \A m \in Names : getSession(m)' = getSession(m)
  BY AcquireDoes, SameGets, <1>1
<1>3. Managed' = Managed /\ \A d \in DOMAIN Limits : Placed(d)' = Placed(d)
  BY <1>1, <1>2 DEF Placed, Managed, Open
<1>4. CASE call'[n] = Idle /\ UNCHANGED strayed
  BY <1>1, <1>2, <1>4, IdleReady, LimitQuiet
<1>5. CASE /\ call'[n].pc \in {"create", "go", "replace"}
           /\ call'[n].pc = "create" => ~Open(active)
           /\ call'[n].pc = "go" => Open(active) /\ call'[n].id = active
           /\ call'[n].pc = "replace" => Open(active)
           /\ ensureDomainTabLimits(call'[n].url, mine, TRUE)
  <2> SUFFICES ASSUME ~disturbed', NEW d \in DOMAIN Limits
               PROVE  /\ Cardinality(On(d))' <= Limits[d]
                      /\ \A m \in Names : Reserves(m)' /\ rulesToCheck(call'[m].url) = {d}
                                            => Cardinality(On(d) \ Taken(m))' < Limits[d]
    BY DEF LimitInv, RoomInv
  <2>1. Placed(d) \in SUBSET Tabs /\ Limits[d] \in Nat /\ None \notin Placed(d)
        /\ On(d)' \subseteq Placed(d)
    BY <1>3, TabSessionsAssumption DEF On, Placed, Managed
  <2>2. \A m \in Names \ {n} : ~Reserves(m)'
    BY <1>1, <1>2 DEF LockInv, HasLimits, Reserves, Elsewhere
  <2>3. CASE rulesToCheck(call'[n].url) = {d}
    <3>1. Cardinality(Placed(d) \ {mine}) < Limits[d]
      BY <1>5, <2>3, EnsureRoom
    <3>2. On(d)' \ Taken(n)' \subseteq Placed(d) \ {mine}
      BY <1>2, <1>5, <2>1 DEF Taken, At
    <3>3. Cardinality(On(d)') <= Limits[d]
      BY <2>1, <3>1, OneMore
    <3>4. /\ Cardinality(On(d)' \ Taken(n)') \in Nat /\ Cardinality(Placed(d) \ {mine}) \in Nat
          /\ Cardinality(On(d)' \ Taken(n)') <= Cardinality(Placed(d) \ {mine})
      BY <2>1, <3>2, CardinalityLess
    <3>. QED
      BY <2>1, <2>2, <3>1, <3>3, <3>4
  <2>4. CASE rulesToCheck(call'[n].url) # {d}
    <3>1. ASSUME NEW u \in On(d)' PROVE u \in On(d)
      <4>1. u \in Placed(d) /\ u \notin strayed' /\ rulesToCheck(url[u]) = {d}
        BY <2>1, <3>1 DEF On, Placed
      <4>. QED
        BY <1>5, <2>4, <4>1, EnsureStrayed DEF On
    <3>2. RoomInv /\ On(d) \subseteq Tabs
      BY <1>1, <2>1 DEF LimitInv, On
    <3>3. Cardinality(On(d)') <= Limits[d]
      BY <2>1, <3>1, <3>2, CardinalityLess DEF RoomInv
    <3>. QED
      BY <2>2, <2>4, <3>3
  <2>. QED
    BY <2>3, <2>4
<1>. QED
  BY <1>4, <1>5, AcquireDoes

LEMMA CreateLimit ==
    ASSUME TypeInv, LimitInv, NEW n \in Names, Create(n) PROVE LimitInv'
<1>1. PICK t \in FreeTabs :
        /\ Elsewhere(n) /\ url' = [url EXCEPT ![t] = Blank]
        /\ getSession(n)'.tabIds = getSession(n).tabIds \union {t}
        /\ call'[n].pc = "group" /\ call'[n].id = t
        /\ call'[n].tool = "navigate" /\ call'[n].url = call[n].url
  BY CreateDoes
<1>2. UNCHANGED <<groupOf, disturbed, strayed>> /\ At(n, "create") /\ Reserves(n)
  BY DEF Create, At, StillSaved, ghostVars, Reserves, TypeInv, CallsTyped, Ready
<1>3. t \in Tabs /\ url'[t] = Blank /\ \A u \in Tabs \ {t} : url'[u] = url[u]
  BY <1>1 DEF FreeTabs, TypeInv, ChromeTyped
<1>4. Managed' \subseteq Managed \union {t}
  BY <1>1, <1>2, <1>3 DEF Managed, Open, Elsewhere
<1>5. \A d \in DOMAIN Limits : On(d)' \subseteq On(d)
  BY <1>2, <1>3, <1>4, BlankIsFree DEF On, Placed, Managed
<1>6. Taken(n) = {}
  BY <1>2 DEF Taken, At
<1>7. \A m \in Names \ {n} : Reserves(m)' =>
         Reserves(m) /\ call'[m].url = call[m].url /\ Taken(m)' = Taken(m)
  BY <1>1 DEF Reserves, Taken, Elsewhere, At
<1>8. ASSUME NEW m \in Names, Reserves(m)'
      PROVE  /\ Reserves(m) /\ call'[m].url = call[m].url
             /\ \A d \in DOMAIN Limits : On(d)' \ Taken(m)' \subseteq On(d) \ Taken(m)
  <2>1. CASE m = n
    BY <1>1, <1>2, <1>5, <1>6, <2>1
  <2>2. CASE m # n
    BY <1>5, <1>7, <1>8, <2>2
  <2>. QED
    BY <2>1, <2>2
<1>. QED
  BY <1>2, <1>5, <1>8, LimitShrinks

LEMMA GroupLimit ==
    ASSUME TypeInv, AddressInv, LimitInv, NEW n \in Names, Group(n) PROVE LimitInv'
<1>1. /\ Elsewhere(n) /\ UNCHANGED <<url, disturbed, strayed>>
      /\ getSession(n)'.tabIds = getSession(n).tabIds
      /\ call'[n].id = call[n].id /\ call'[n].url = call[n].url
      /\ call'[n].pc \in {"go", "record", "entitle"}
  BY GroupDoes, StrayedStays
<1>2. call[n].pc = "group" /\ Reserves(n) /\ call[n].id \in Tabs
  BY DEF Group, At, TypeInv, CallsTyped, Ready, Reserves
<1>3. UNCHANGED groupOf \/ \E g : groupOf' = [groupOf EXCEPT ![call[n].id] = g]
  BY GroupDoes DEF Joins
<1>4. Open(call[n].id) => call[n].id \in Managed
  BY <1>2, ReservedTab DEF Managed, Reserves
<1>5. \A t \in Tabs : groupOf'[t] # None => groupOf[t] # None \/ t \in Managed \/ ~Open(t)
  BY <1>2, <1>3, <1>4 DEF TypeInv, ChromeTyped
<1>6. Taken(n)' = Taken(n)
  BY <1>1, <1>2 DEF Taken, At
<1>. QED
  BY <1>1, <1>2, <1>5, <1>6, LimitStays

LEMMA EntitleLimit ==
    ASSUME TypeInv, LimitInv, NEW n \in Names, Entitle(n) PROVE LimitInv'
<1>1. /\ Elsewhere(n) /\ getSession(n)' = getSession(n) /\ UNCHANGED <<url, groupOf, disturbed, strayed>>
      /\ call'[n].id = call[n].id /\ call'[n].url = call[n].url
      /\ call'[n].pc \in {"record", "go"}
      /\ call[n].pc = "entitle" /\ Reserves(n)
  BY EntitleDoes, StrayedStays DEF Entitle, At, TypeInv, CallsTyped, Ready, Reserves
<1>2. Taken(n)' = Taken(n)
  BY <1>1 DEF Taken, At
<1>. QED
  BY <1>1, <1>2, LimitStays

LEMMA RecordLimit ==
    ASSUME TypeInv, LimitInv, NEW n \in Names, Record(n) PROVE LimitInv'
<1>1. /\ Elsewhere(n) /\ getSession(n)' = getSession(n) /\ UNCHANGED <<url, groupOf, strayed>>
      /\ call[n].pc = "record"
      /\ disturbed => disturbed'
  BY RecordDoes, StrayedStays DEF Record, At, chromeVars, SaveOwned
<1>2. CASE call'[n] = Idle
  BY <1>1, <1>2, IdleReady, LimitQuiet
<1>3. CASE /\ call'[n].pc = "go" /\ call'[n].tool = call[n].tool /\ call'[n].id = call[n].id
           /\ call'[n].url = call[n].url
  <2>1. Taken(n)' = Taken(n) /\ (Reserves(n)' => Reserves(n))
    BY <1>1, <1>3 DEF Taken, At, Reserves
  <2>. QED
    BY <1>1, <1>3, <2>1, LimitStays
<1>. QED
  BY <1>2, <1>3, RecordDoes

LEMMA UpdateLimit ==
    ASSUME TypeInv, LockInv, AddressInv, LimitInv, NEW n \in Names, Update(n) PROVE LimitInv'
<1> DEFINE t == call[n].id
<1>1. /\ Elsewhere(n) /\ getSession(n)' = getSession(n) /\ UNCHANGED <<groupOf, disturbed>>
      /\ call'[n].tool # "navigate"
      /\ \/ /\ Open(t) /\ url' = [url EXCEPT ![t] = call[n].url]
            /\ strayed' = strayed \ {t}
         \/ UNCHANGED <<url, strayed>>
  BY UpdateDoes
<1>2. /\ call[n].pc = "go" /\ call[n].tool = "navigate" /\ Reserves(n) /\ t \in Tabs
      /\ Taken(n) = {t}
  BY DEF Update, At, TypeInv, CallsTyped, Ready, Reserves, Taken
<1>3. CASE UNCHANGED <<url, strayed>>
  BY <1>1, <1>3, LimitQuiet
<1>4. CASE Open(t) /\ url' = [url EXCEPT ![t] = call[n].url] /\ strayed' = strayed \ {t}
  <2>1. HasLimits => \A m \in Names : ~Reserves(m)'
    BY <1>1, <1>2 DEF LockInv, Elsewhere, Reserves
  <2>2. t \in Managed
    BY <1>2, <1>4, ReservedTab DEF Managed
  <2>3. url'[t] = call[n].url /\ \A u \in Tabs \ {t} : url'[u] = url[u]
    BY <1>2, <1>4 DEF TypeInv, ChromeTyped
  <2>4. Managed' \subseteq Managed
    BY <1>1, <2>2, <2>3 DEF Managed, Open, Elsewhere
  <2>5. \A d \in DOMAIN Limits : On(d)' \subseteq On(d) \union {t} /\ On(d) \subseteq Tabs
    BY <1>4, <2>3, <2>4 DEF On, Placed, Managed
  <2>6. ASSUME ~disturbed', NEW d \in DOMAIN Limits
        PROVE  \/ On(d)' \subseteq On(d)
               \/ \E S \in SUBSET Tabs :
                    On(d)' \subseteq S \union {t} /\ Cardinality(S \ {t}) < Limits[d]
    <3>1. CASE rulesToCheck(call[n].url) = {d}
      <4>1. Cardinality(On(d) \ {t}) < Limits[d]
        BY <1>1, <1>2, <2>6, <3>1 DEF LimitInv, RoomInv
      <4>. QED
        BY <2>5, <4>1
    <3>2. CASE rulesToCheck(call[n].url) # {d}
      BY <2>3, <2>5, <3>2 DEF On, Placed
    <3>. QED
      BY <3>1, <3>2
  <2>. QED
    BY <1>1, <1>2, <2>1, <2>6, LimitGrows
<1>. QED
  BY <1>1, <1>3, <1>4

\* A tab that is bound is looked at under the lock.
LEMMA BoundLimit ==
    ASSUME TypeInv, GroupInv, LimitInv, NEW n \in Names, Ends(n), UNCHANGED chromeVars,
           MayEnter, NEW t \in Tabs, bindTab(n, t), NEW host,
           ensureDomainTabLimits(host, t, TRUE),
           Open(t) /\ t \notin Managed \union strayed => url[t] = host
    PROVE  LimitInv'
<1>1. /\ Elsewhere(n) /\ UNCHANGED <<url, groupOf>>
      /\ disturbed => disturbed'
      /\ getSession(n)'.tabIds = getSession(n).tabIds \union {t}
      /\ call'[n].tool # "navigate"
  BY EndsDoes, BindTabDoes, EnsureIs DEF Elsewhere, chromeVars, Unsaved
<1>2. HasLimits => \A m \in Names : ~Reserves(m)'
  BY <1>1 DEF MayEnter, Reserves, Elsewhere
<1>3. Managed' \subseteq Managed \union {t}
  BY <1>1 DEF Managed, Open, Elsewhere
<1>4. \A d \in DOMAIN Limits : On(d)' \subseteq Placed(d) \union {t} /\ Placed(d) \in SUBSET Tabs
  BY <1>1, <1>3 DEF On, Placed, Managed
<1>5. ASSUME ~disturbed', NEW d \in DOMAIN Limits
      PROVE  \/ On(d)' \subseteq On(d)
             \/ \E S \in SUBSET Tabs :
                  On(d)' \subseteq S \union {t} /\ Cardinality(S \ {t}) < Limits[d]
  <2>1. CASE rulesToCheck(host) = {d}
    <3>1. Cardinality(Placed(d) \ {t}) < Limits[d]
      BY <1>5, <2>1, EnsureRoom
    <3>. QED
      BY <1>4, <3>1
  <2>2. CASE rulesToCheck(host) # {d}
    <3> SUFFICES ASSUME NEW u \in On(d)' PROVE u \in On(d)
      OBVIOUS
    <3>1. u \in Managed \union {t} /\ Open(u) /\ rulesToCheck(url[u]) = {d} /\ u \notin strayed'
      BY <1>1, <1>3 DEF On, Placed, Managed, Open
    <3>2. u \notin strayed
      BY <2>2, <3>1, EnsureStrayed
    <3>3. u \in Managed
      BY <2>2, <3>1, <3>2
    <3>. QED
      BY <3>1, <3>2, <3>3 DEF On, Placed
  <2>. QED
    BY <2>1, <2>2
<1>. QED
  BY <1>1, <1>2, <1>5, LimitGrows

LEMMA UnboundLimit ==
    ASSUME TypeInv, LimitInv, NEW n \in Names, Ends(n), UNCHANGED <<sessions, chromeVars>>,
           StillSaved \/ \E host, x : ensureDomainTabLimits(host, x, FALSE)
    PROVE  LimitInv'
<1>1. Elsewhere(n) /\ getSession(n)' = getSession(n) /\ call'[n].tool # "navigate"
  BY EndsDoes, SameGets DEF Elsewhere
<1>2. UNCHANGED strayed /\ (StillSaved \/ Unsaved)
  BY EnsureIs, EnsureStrayed DEF StillSaved, ghostVars
<1>. QED
  BY <1>1, <1>2, LimitQuiet, QuietStep DEF chromeVars

LEMMA InitLimit == Init => LimitInv
<1> SUFFICES ASSUME Init, NEW d \in DOMAIN Limits
             PROVE  /\ Cardinality(On(d)) <= Limits[d]
                    /\ \A n \in Names : ~Reserves(n)
  BY DEF LimitInv, RoomInv
<1>1. \A n \in Names : getSession(n).tabIds = {}
  BY DEF Init, getSession, NoSession
<1>2. On(d) = {}
  BY <1>1 DEF On, Placed, Managed, Init
<1>3. Cardinality(On(d)) = 0
  BY <1>2, FS_EmptySet
<1>4. \A n \in Names : ~Reserves(n)
  BY IdleReady, TabSessionsAssumption DEF Init, Reserves
<1>. QED
  BY <1>3, <1>4, TabSessionsAssumption

LEMMA BeginsLimit ==
    ASSUME TypeInv, GroupInv, LimitInv, NEW n \in Names, Begins(n) PROVE LimitInv'
<1>1. /\ Idle \in CallStates /\ Idle.id = None
      /\ \A tool \in {"navigate", "close_session"} :
           [Idle EXCEPT !.tool = tool] \in CallStates /\ [Idle EXCEPT !.tool = tool].id = None
  BY IdleReady DEF Idle, CallStates
<1>2. ASSUME NEW c \in CallStates, c.id = None, reconcile(n, c) PROVE LimitInv'
  <2>1. /\ Elsewhere(n) /\ getSession(n)'.tabIds = getSession(n).tabIds
        /\ call'[n].pc \in {"acquire", "close all", "idle", "adopt"}
    BY <1>2, ReconcileDoes
  <2>2. UNCHANGED chromeVars /\ UNCHANGED strayed /\ Unsaved
    BY <1>2, ReconcileIs
  <2>. QED
    BY <2>1, <2>2, LimitQuiet, QuietStep DEF chromeVars
<1>3. CASE navigate(n) \/ list_tabs(n) \/ reconcile(n, [Idle EXCEPT !.tool = "close_session"])
  BY <1>1, <1>2, <1>3 DEF navigate, list_tabs
<1>4. CASE find_tab(n)
  <2>1. /\ Elsewhere(n) /\ getSession(n)' = getSession(n) /\ UNCHANGED chromeVars /\ StillSaved
        /\ UNCHANGED strayed /\ call'[n].tool # "navigate"
    BY <1>4, FindTabDoes, StrayedStays
  <2>. QED
    BY <2>1, LimitQuiet, QuietStep DEF chromeVars
<1>5. CASE activate_tab(n)
  <2>1. PICK t \in Tabs :
          \/ Open(t) /\ ensureDomainTabLimits(url[t], t, TRUE) /\ bindTab(n, t)
          \/ ensureDomainTabLimits(url[t], t, FALSE) /\ UNCHANGED sessions
          \/ StillSaved /\ UNCHANGED sessions
    BY <1>5 DEF activate_tab
  <2>2. MayEnter /\ Ends(n) /\ UNCHANGED chromeVars
    BY <1>5 DEF activate_tab
  <2>. QED
    BY <2>1, <2>2, BoundLimit, UnboundLimit
<1>6. CASE close_tab(n)
  BY <1>6, CloseActiveTabLimit DEF close_tab
<1>7. CASE /\ \E g \in LiveGroups :
                 Go(n, [Idle EXCEPT !.pc = "close group", !.groupId = g, !.todo = TabsIn(g)])
           /\ UNCHANGED <<sessions, chromeVars>> /\ StillSaved
  <2>1. /\ Elsewhere(n) /\ getSession(n)' = getSession(n) /\ call'[n].tool # "navigate"
    BY <1>7, CloseGroupDoes
  <2>. QED
    BY <1>7, <2>1, LimitQuiet, QuietStep DEF chromeVars, StillSaved, ghostVars
<1>. QED
  BY <1>3, <1>4, <1>5, <1>6, <1>7 DEF Begins, close_session

LEMMA BindLimit ==
    ASSUME TypeInv, GroupInv, AddressInv, LimitInv, NEW n \in Names, Bind(n) PROVE LimitInv'
<1>1. call[n].id \in Tabs /\ At(n, "bind") /\ Address(n)
  BY DEF Bind, At, TypeInv, CallsTyped, Ready, AddressInv
<1>2. Open(call[n].id) /\ call[n].id \notin Managed \union strayed => url[call[n].id] = call[n].url
  BY <1>1 DEF Address
<1>3. /\ MayEnter /\ Ends(n) /\ UNCHANGED chromeVars
      /\ \/ ensureDomainTabLimits(call[n].url, call[n].id, TRUE) /\ bindTab(n, call[n].id)
         \/ ensureDomainTabLimits(call[n].url, call[n].id, FALSE) /\ UNCHANGED sessions
  BY DEF Bind
<1>. QED
  BY <1>1, <1>2, <1>3, BoundLimit, UnboundLimit

LEMMA ProceedsLimit ==
    ASSUME TypeInv, GroupInv, LockInv, AddressInv, LimitInv, NEW n \in Names, Proceeds(n)
    PROVE  LimitInv'
<1>1. CASE Adopt(n)
  <2>1. /\ Elsewhere(n) /\ call'[n].pc \in {"adopt", "acquire", "close all", "idle"}
        /\ getSession(n)'.tabIds = getSession(n).tabIds \union TabsIn(call[n].groupId)
    BY <1>1, AdoptDoes
  <2>2. call[n].groupId \in Groups
    BY <1>1 DEF Adopt, At, TypeInv, CallsTyped, Ready
  <2>3. \A t \in TabsIn(call[n].groupId) : groupOf[t] # None
    BY <2>2, TabSessionsAssumption DEF TabsIn
  <2>4. /\ UNCHANGED <<url, groupOf, strayed>>
        /\ disturbed => disturbed'
    BY <1>1 DEF Adopt, chromeVars, SaveOwned
  <2>. QED
    BY <2>1, <2>3, <2>4, LimitQuiet
<1>2. CASE Replace(n)
  <2>1. LET then == [call[n] EXCEPT !.pc = "create"] IN
          then.pc = "create" /\ then.url = call[n].url
    BY DEF TypeInv, CallsTyped, CallStates
  <2>2. At(n, "replace") /\ closeActiveTab(n, [call[n] EXCEPT !.pc = "create"])
    BY <1>2 DEF Replace
  <2>. QED
    BY <2>1, <2>2, CloseActiveTabLimit
<1>3. CASE Retitle(n)
  <2>1. /\ Elsewhere(n) /\ getSession(n)' = getSession(n) /\ call'[n].tool # "navigate"
        /\ UNCHANGED <<url, groupOf, disturbed, strayed>>
    BY <1>3, RetitleDoes, StrayedStays
  <2>. QED
    BY <2>1, LimitQuiet
<1>4. CASE CloseNext(n)
  <2>1. call'[n].pc = "close all" /\ \A m \in Names \ {n} : call'[m] = call[m]
    BY <1>4, CloseNextDoes
  <2>2. ~Reserves(n)'
    BY <2>1 DEF Reserves
  <2>3. ASSUME NEW t \in Tabs, CloseTab(t) PROVE LimitInv'
    BY <2>1, <2>2, <2>3, LimitClosed
  <2>4. CASE /\ Elsewhere(n) /\ UNCHANGED chromeVars /\ StillSaved
             /\ getSession(n)'.tabIds \subseteq getSession(n).tabIds
    BY <2>1, <2>4, LimitQuiet, QuietStep DEF chromeVars, StillSaved, ghostVars
  <2>. QED
    BY <1>4, <2>3, <2>4, CloseNextDoes
<1>5. CASE Closed(n)
  <2>1. NoSession.tabIds = {}
    BY DEF NoSession
  <2>2. /\ Elsewhere(n) /\ UNCHANGED chromeVars /\ StillSaved /\ call'[n].tool # "navigate"
        /\ getSession(n)'.tabIds \subseteq getSession(n).tabIds
    BY <1>5, <2>1, ClosedDoes
  <2>. QED
    BY <2>2, LimitQuiet, QuietStep DEF chromeVars, StillSaved, ghostVars
<1>6. CASE ForgetSession(n) \/ ForgetGroup(n)
  <2>1. /\ Elsewhere(n) /\ getSession(n)' = getSession(n) /\ UNCHANGED <<url, groupOf, strayed>>
        /\ call'[n].tool # "navigate"
    BY <1>6, ForgetDoes, StrayedStays DEF chromeVars
  <2>2. disturbed => disturbed'
    BY <1>6 DEF ForgetSession, ForgetGroup, SaveOwned
  <2>. QED
    BY <2>1, <2>2, LimitQuiet
<1>7. CASE CloseGroupNext(n)
  <2>1. call'[n].tool # "navigate" /\ \A m \in Names \ {n} : call'[m] = call[m]
    BY <1>7, CloseGroupNextDoes
  <2>2. ~Reserves(n)'
    BY <2>1 DEF Reserves
  <2>3. ASSUME NEW t \in Tabs, CloseTab(t) PROVE LimitInv'
    BY <2>1, <2>2, <2>3, LimitClosed
  <2>4. CASE Elsewhere(n) /\ UNCHANGED chromeVars /\ StillSaved /\ getSession(n)' = getSession(n)
    BY <2>1, <2>4, LimitQuiet, QuietStep DEF chromeVars, StillSaved, ghostVars
  <2>. QED
    BY <1>7, <2>3, <2>4, CloseGroupNextDoes
<1>8. CASE GroupClosed(n)
  <2>1. /\ Elsewhere(n) /\ getSession(n)' = getSession(n) /\ UNCHANGED chromeVars /\ StillSaved
        /\ call'[n].tool # "navigate"
    BY <1>8, GroupClosedDoes
  <2>. QED
    BY <2>1, LimitQuiet, QuietStep DEF chromeVars, StillSaved, ghostVars
<1>. QED
  BY <1>1, <1>2, <1>3, <1>4, <1>5, <1>6, <1>7, <1>8, AcquireLimit, CreateLimit, GroupLimit,
     EntitleLimit, RecordLimit, UpdateLimit, BindLimit DEF Proceeds

LEMMA RestartLimit == ASSUME TypeInv, LimitInv, WorkerRestarts PROVE LimitInv'
<1>1. /\ UNCHANGED <<url, groupOf, strayed>>
      /\ disturbed => disturbed'
      /\ \A m \in Names : call'[m] = Idle /\ getSession(m)'.tabIds = {}
  BY DEF WorkerRestarts, chromeVars, getSession, NoSession
<1>2. Managed' \subseteq Managed
  BY <1>1 DEF Managed, Open
<1>3. \A d \in DOMAIN Limits : On(d)' \subseteq On(d)
  BY <1>1, <1>2 DEF On, Placed
<1>4. \A m \in Names : ~Reserves(m)'
  BY <1>1, IdleReady, TabSessionsAssumption DEF Reserves
<1>. QED
  BY <1>1, <1>3, <1>4, LimitShrinks

LEMMA NextLimit ==
    ASSUME TypeInv, GroupInv, LockInv, AddressInv, LimitInv, [Next]_vars PROVE LimitInv'
<1>1. ASSUME NEW t \in Tabs, UserCloses(t) PROVE LimitInv'
  <2>1. CloseTab(t) /\ call' = call
    BY <1>1 DEF UserCloses
  <2>. QED
    BY <2>1, LimitClosed
<1>2. ASSUME NEW t \in Tabs, Wanders(t) PROVE LimitInv'
  <2>1. /\ UNCHANGED <<sessions, groupOf, call, disturbed>>
        /\ strayed' = strayed \union {t}
        /\ Open(t) /\ \A u \in Tabs \ {t} : url'[u] = url[u]
    BY <1>2 DEF Wanders, TypeInv, ChromeTyped
  <2>2. \A m \in Names : getSession(m)' = getSession(m) /\ Taken(m)' = Taken(m)
                           /\ Reserves(m)' = Reserves(m)
    BY <2>1 DEF getSession, Taken, Reserves, At
  <2>3. \A d \in DOMAIN Limits : On(d)' \subseteq On(d)
    BY <2>1, <2>2 DEF On, Placed, Managed, Open
  <2>. QED
    BY <2>1, <2>2, <2>3, LimitShrinks
<1>3. CASE UNCHANGED vars
  <2>1. UNCHANGED <<sessions, url, groupOf, call, disturbed, strayed>>
    BY <1>3 DEF vars, chromeVars, ghostVars
  <2>2. /\ \A d \in DOMAIN Limits : On(d)' = On(d)
        /\ \A m \in Names : Taken(m)' = Taken(m) /\ Reserves(m)' = Reserves(m)
    BY <2>1 DEF On, Placed, Managed, Open, getSession, Taken, Reserves, At
  <2>. QED
    BY <2>1, <2>2, LimitShrinks
<1>. QED
  BY <1>1, <1>2, <1>3, BeginsLimit, ProceedsLimit, RestartLimit DEF Next

\* The tools never take the sessions over the limit of a domain, however their calls
\* interleave and wherever tabs go by themselves in between (such a tab is not counted
\* until a tool finds room where it is): between the check of a navigate and the tab it
\* then makes or sends to its address, the lock (tabMutationTail in sessions.js) keeps
\* every other call from taking the room that was seen (assertDomainTabLimits).
THEOREM TabsWithinLimit == Spec => []TabLimit
<1>1. LockInv /\ AddressInv /\ LimitInv /\ (TypeInv /\ ActiveInv /\ Gone /\ GroupInv) /\ [Next]_vars
        => (LockInv /\ AddressInv /\ LimitInv)'
  BY NextLock, NextAddress, NextLimit
<1>2. TypeInv /\ LimitInv => TabLimit
  <2> SUFFICES ASSUME TypeInv, LimitInv, ~disturbed, NEW d \in DOMAIN Limits
               PROVE  Cardinality({t \in (UNION {getSession(n).tabIds : n \in Names}) \ strayed :
                                     Open(t) /\ rulesToCheck(url[t]) = {d}}) <= Limits[d]
    BY DEF TabLimit, Quantify
  <2> DEFINE counted == {t \in (UNION {getSession(n).tabIds : n \in Names}) \ strayed :
                           Open(t) /\ rulesToCheck(url[t]) = {d}}
  <2>1. \A n \in Names : getSession(n).tabIds \subseteq Tabs
    BY SessionState DEF TypeInv, SessionStates
  <2>2. counted \subseteq On(d) /\ On(d) \subseteq Tabs
    <3>1. On(d) = {t \in Managed \ strayed : rulesToCheck(url[t]) = {d}} /\ Managed \subseteq Tabs
      BY DEF On, Placed, Managed
    <3>2. \A t \in UNION {getSession(n).tabIds : n \in Names} : Open(t) => t \in Managed
      BY <2>1 DEF Managed
    <3>3. \A t \in counted : Open(t) /\ t \in Managed \ strayed /\ rulesToCheck(url[t]) = {d}
      BY <3>2
    <3>. QED
      BY <3>1, <3>3
  <2>3. Cardinality(On(d)) <= Limits[d] /\ Limits[d] \in Nat
    BY TabSessionsAssumption DEF LimitInv, RoomInv
  <2> HIDE DEF counted
  <2>4. /\ Cardinality(counted) \in Nat /\ Cardinality(On(d)) \in Nat
        /\ Cardinality(counted) <= Cardinality(On(d))
    BY <2>2, CardinalityLess
  <2>5. Cardinality(counted) <= Limits[d]
    BY <2>3, <2>4
  <2>. QED
    BY <2>5 DEF counted
<1>. QED
  BY SpecInv, InitLock, InitLimit, <1>1, <1>2, PTL DEF Spec

=============================================================================
