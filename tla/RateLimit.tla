----------------------------- MODULE RateLimit -----------------------------
(***************************************************************************)
(* The navigation throttle of the daemon (internal/ratelimit).  Reserve    *)
(* reads the clock, then under l.mu picks the rule of the host, prunes the *)
(* recorded grants, computes the slot and either records it or refuses;    *)
(* it then sleeps until the slot, and gives the slot back when its context *)
(* ends first.  The server commits the reservation or rolls it back.       *)
(* Rules are replaced at run time without touching the recorded grants.    *)
(*                                                                         *)
(* Time is a counter.  A caller holds l.mu for no time, but may wait for   *)
(* it between reading the clock and locking: at most MaxLag.               *)
(***************************************************************************)
EXTENDS Integers, FiniteSets, SequencesExt

CONSTANTS
    Navigations,   \* calls of Reserve, each used once
    HostOf,        \* [Navigations -> Hosts]
    Hosts,
    Domains,       \* domains a rule may name, trimmed and lower-cased
    NoDomain,
    Parents,      \* [Hosts -> SUBSET Domains]: the host itself or a parent
    Labels,        \* [Domains -> Nat]: length of the name
    RuleSets,      \* what the configuration may hold; each maps some
                   \* domains to [max, window]
    Timeout,       \* commandTimeout, the deadline of the request
    MaxLag,        \* bound on the wait for l.mu
    MaxTime,       \* bound on the clock
    MaxSwaps       \* bound on the calls of SetRules

Rule == [max : Int, window : Int]

ASSUME RateLimitAssumption ==
    /\ IsFiniteSet(Navigations)
    /\ HostOf \in [Navigations -> Hosts]
    /\ NoDomain \notin Domains
    /\ Parents \in [Hosts -> SUBSET Domains]
    /\ \A h \in Hosts : IsFiniteSet(Parents[h])
    /\ Labels \in [Domains -> Nat]
    \* two suffixes of one host have different lengths
    /\ \A h \in Hosts : \A d, e \in Parents[h] : Labels[d] = Labels[e] => d = e
    /\ \A r \in RuleSets : DOMAIN r \subseteq Domains /\ \A d \in DOMAIN r : r[d] \in Rule
    /\ Timeout \in Nat /\ MaxLag \in Nat /\ MaxTime \in Nat /\ MaxSwaps \in Nat

VARIABLES
    now,
    rules,      \* l.rules
    grants,     \* l.grants: the recorded slots of each domain, in grant order
    pc,         \* where each call is in Reserve, or how it ended
    clock,      \* local variable now of Reserve
    slot,       \* the reservation: its key, grantAt, and (ghost) its rules
    alarm,      \* when the timer of a sleeping call fires
    swaps,      \* number of SetRules so far
    returned    \* ghost: has any call given a slot back?

vars == <<now, rules, grants, pc, clock, slot, alarm, swaps, returned>>

Times == 0..(MaxTime + Timeout)
NoSlot == [dom |-> NoDomain, at |-> 0, under |-> 0]

TypeOK ==
    /\ now \in 0..MaxTime
    /\ rules \in RuleSets
    /\ grants \in [Domains -> Seq(Times)]
    /\ pc \in [Navigations -> {"idle", "locking", "sleeping", "reserved", "refused",
                               "cancelled", "committed", "rolledback"}]
    /\ clock \in [Navigations -> 0..MaxTime]
    /\ slot \in [Navigations -> [dom : Domains \union {NoDomain}, at : Times,
                                 under : 0..MaxSwaps]]
    /\ alarm \in [Navigations -> Nat]
    /\ swaps \in 0..MaxSwaps
    /\ returned \in BOOLEAN

Init ==
    /\ now = 0
    /\ rules \in RuleSets
    /\ grants = [d \in Domains |-> <<>>]
    /\ pc = [n \in Navigations |-> "idle"]
    /\ clock = [n \in Navigations |-> 0]
    /\ slot = [n \in Navigations |-> NoSlot]
    /\ alarm = [n \in Navigations |-> 0]
    /\ swaps = 0
    /\ returned = FALSE

----------------------------------------------------------------------------
\* matchLocked: the longest configured domain that is the host or a parent.
Match(h) ==
    LET C == Parents[h] \intersect DOMAIN rules IN
    IF C = {} THEN NoDomain
    ELSE CHOOSE d \in C : \A e \in C : Labels[e] <= Labels[d]

Throttled(d) == d # NoDomain /\ rules[d].max > 0 /\ rules[d].window > 0

\* Slip: the window is compared with the slot alone, so future slots go too.
PruneAllPast(d, t) == SelectSeq(grants[d], LAMBDA g : g >= t)

\* The grants that can still constrain one made at time t.
Prune(d, t) ==
    LET kept[i \in 0..Len(grants[d])] ==
          IF i = 0 THEN <<>>
          ELSE IF grants[d][i] + rules[d].window > t THEN Append(kept[i - 1], grants[d][i])
          ELSE kept[i - 1]
    IN kept[Len(grants[d])]

\* grantAt: no earlier than the Max-ago grant plus a window.
Earliest(d, g, t) ==
    IF Len(g) >= rules[d].max
    THEN Max({t, g[Len(g) - rules[d].max + 1] + rules[d].window})
    ELSE t

\* Slip: the deadline of the request is not consulted.
AnyDelay(at, t) == TRUE

WithinDeadline(at, t) == at <= t + Timeout

\* Slip: the wait is truncated to whole units.
AlarmTruncated(at, t) == now + (at - t) - 1

\* The timer runs for grantAt - now, from when the lock has been released.
AlarmFor(at, t) == now + (at - t)

\* Reserve, before the lock: the request starts and reads the clock.
ReadClock(n) ==
    /\ pc[n] = "idle"
    /\ pc' = [pc EXCEPT ![n] = "locking"]
    /\ clock' = [clock EXCEPT ![n] = now]
    /\ UNCHANGED <<now, rules, grants, slot, alarm, swaps, returned>>

\* No rule applies: a nil reservation, whose Commit and Rollback do nothing.
PassUnthrottled(n) ==
    /\ pc[n] = "locking"
    /\ ~Throttled(Match(HostOf[n]))
    /\ pc' = [pc EXCEPT ![n] = "reserved"]
    /\ UNCHANGED <<now, rules, grants, clock, slot, alarm, swaps, returned>>

\* The slot is within the deadline: record it, and sleep if it is not now.
Grant(n) ==
    /\ pc[n] = "locking"
    /\ Throttled(Match(HostOf[n]))
    /\ LET d  == Match(HostOf[n])
           g  == Prune(d, clock[n])
           at == Earliest(d, g, clock[n])
       IN /\ WithinDeadline(at, clock[n])
          /\ grants' = [grants EXCEPT ![d] = Append(g, at)]
          /\ slot' = [slot EXCEPT ![n] = [dom |-> d, at |-> at, under |-> swaps]]
          /\ IF at > clock[n]
             THEN /\ pc' = [pc EXCEPT ![n] = "sleeping"]
                  /\ alarm' = [alarm EXCEPT ![n] = AlarmFor(at, clock[n])]
             ELSE /\ pc' = [pc EXCEPT ![n] = "reserved"]
                  /\ UNCHANGED alarm
    /\ UNCHANGED <<now, rules, clock, swaps, returned>>

\* ErrWouldExceed: the prune is kept, no slot is consumed.
Refuse(n) ==
    /\ pc[n] = "locking"
    /\ Throttled(Match(HostOf[n]))
    /\ LET d == Match(HostOf[n])
           g == Prune(d, clock[n])
       IN /\ ~WithinDeadline(Earliest(d, g, clock[n]), clock[n])
          /\ grants' = [grants EXCEPT ![d] = g]
    /\ pc' = [pc EXCEPT ![n] = "refused"]
    /\ UNCHANGED <<now, rules, clock, slot, alarm, swaps, returned>>

TimerFires(n) ==
    /\ pc[n] = "sleeping"
    /\ now >= alarm[n]
    /\ pc' = [pc EXCEPT ![n] = "reserved"]
    /\ UNCHANGED <<now, rules, grants, clock, slot, alarm, swaps, returned>>

\* Slip: every entry of that time goes, also other callers' slots.
RemoveEqual(d, t) == [grants EXCEPT ![d] = SelectSeq(@, LAMBDA g : g # t)]

\* removeGrant: the last entry of that time goes.
RemoveGrant(d, t) ==
    LET i == SelectLastInSeq(grants[d], LAMBDA g : g = t) IN
    IF i = 0 THEN grants ELSE [grants EXCEPT ![d] = RemoveAt(@, i)]

\* The context ends first: the client went away or the deadline passed.
Cancel(n) ==
    /\ pc[n] = "sleeping"
    /\ grants' = RemoveGrant(slot[n].dom, slot[n].at)
    /\ pc' = [pc EXCEPT ![n] = "cancelled"]
    /\ returned' = TRUE
    /\ UNCHANGED <<now, rules, clock, slot, alarm, swaps>>

\* handleCommand: the hub call succeeded.
Commit(n) ==
    /\ pc[n] = "reserved"
    /\ pc' = [pc EXCEPT ![n] = "committed"]
    /\ UNCHANGED <<now, rules, grants, clock, slot, alarm, swaps, returned>>

\* handleCommand: the hub call failed.  A nil reservation is left alone.
Rollback(n) ==
    /\ pc[n] = "reserved"
    /\ pc' = [pc EXCEPT ![n] = "rolledback"]
    /\ IF slot[n] = NoSlot
       THEN UNCHANGED <<grants, returned>>
       ELSE /\ grants' = RemoveGrant(slot[n].dom, slot[n].at)
            /\ returned' = TRUE
    /\ UNCHANGED <<now, rules, clock, slot, alarm, swaps>>

\* A changed configuration is loaded; the grant history is kept.
SetRules(r) ==
    /\ swaps < MaxSwaps
    /\ rules # r
    /\ rules' = r
    /\ swaps' = swaps + 1
    /\ UNCHANGED <<now, grants, pc, clock, slot, alarm, returned>>

Tick ==
    /\ now < MaxTime
    /\ \A n \in Navigations : pc[n] = "locking" => now - clock[n] < MaxLag
    /\ now' = now + 1
    /\ UNCHANGED <<rules, grants, pc, clock, slot, alarm, swaps, returned>>

Next ==
    \/ \E n \in Navigations :
        \/ ReadClock(n) \/ PassUnthrottled(n) \/ Grant(n) \/ Refuse(n)
        \/ TimerFires(n) \/ Cancel(n) \/ Commit(n) \/ Rollback(n)
    \/ \E r \in RuleSets : SetRules(r)
    \/ Tick

Spec == Init /\ [][Next]_vars

----------------------------------------------------------------------------
\* Status: the report of usage and waiting time for one rule.
InUse(d) == Len(Prune(d, now))

\* Slip: the wait is that of the oldest grant instead of the Max-ago one.
WaitForOldest(d) ==
    LET active == Prune(d, now) IN
    IF Len(active) >= rules[d].max
    THEN Max({0, active[1] + rules[d].window - now})
    ELSE 0

WaitSeconds(d) ==
    LET active == Prune(d, now)
        i == Max({1, Len(active) - rules[d].max + 1})
    IN IF InUse(d) >= rules[d].max
       THEN Max({0, active[i] + rules[d].window - now})
       ELSE 0

----------------------------------------------------------------------------
\* A slot that is neither refused nor given back.
Live(n) == slot[n] # NoSlot /\ pc[n] \in {"sleeping", "reserved", "committed"}

LiveIn(d, len, start) ==
    {n \in Navigations : Live(n) /\ slot[n].dom = d /\ slot[n].under = swaps
                         /\ start <= slot[n].at /\ slot[n].at < start + len}

\* At most max slots of the current rules within any span of len(window).
AtMostMaxWithin(lag) ==
    \A d \in DOMAIN rules : Throttled(d) =>
        \A start \in Times :
            Cardinality(LiveIn(d, rules[d].window - lag, start)) <= rules[d].max

\* While nobody gives a slot back, each rule caps its domain in every sliding
\* window, less the time a caller may have waited for the lock with an old
\* clock, across rule changes, pruning and refusals.
CapWithoutReturns == ~returned => AtMostMaxWithin(MaxLag)

\* The ledger is exact where it matters: for each time that can still
\* constrain a grant, the entries are as many as the live slots.  A cancelled
\* or failed navigation removes one entry of its own and a refusal none.
LedgerMatchesSlots ==
    \A d \in Domains : \A t \in Times :
        (\A r \in RuleSets : d \in DOMAIN r /\ r[d].window > 0 => t + r[d].window > now) =>
            Cardinality({i \in DOMAIN grants[d] : grants[d][i] = t})
              = Cardinality({n \in Navigations : Live(n) /\ slot[n].dom = d /\ slot[n].at = t})

\* No navigation proceeds before its slot, however stale its clock was.
NeverEarly ==
    \A n \in Navigations : Live(n) /\ pc[n] # "sleeping" => now >= slot[n].at

\* `status` reports the wait a navigation starting now would really get.
StatusTellsTheWait ==
    \A d \in DOMAIN rules : Throttled(d) =>
        WaitSeconds(d) = Earliest(d, Prune(d, now), now) - now

----------------------------------------------------------------------------
(* Statements of the source that the code does not keep (see findings).    *)

\* ratelimit.go, package comment: each rule caps a domain to at most Max
\* navigations per sliding Window.
SlidingWindowCap == AtMostMaxWithin(MaxLag)
=============================================================================
