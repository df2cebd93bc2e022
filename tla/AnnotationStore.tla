--------------------------- MODULE AnnotationStore ---------------------------
(***************************************************************************)
(* The notes a human leaves on pages (annotations/store.js with the rules  *)
(* of model.js), the edits of the page and of the agent, and an agent that *)
(* reads what is new: it passes the cursor of a listing to the next one.   *)
(*                                                                         *)
(* The worker keeps the notes in memory (cache, shots) and mirrors them in *)
(* chrome.storage under two keys (saved, savedShots) that share one quota. *)
(* It may die at any time and reads them again when it is next asked.      *)
(*                                                                         *)
(* JavaScript runs a callback, and all that waits for what it settles, to  *)
(* the end before it takes the next event.  So a call only lets others in  *)
(* at a request to Chrome or at a timer, and the calls that waited for one *)
(* load resume together, in any order (Resumed).  A step runs up to a      *)
(* request, which takes effect when it is made.                            *)
(*                                                                         *)
(* A note is its number, its status, whether it claims a screenshot, and   *)
(* text, a ghost: the submission it came from.  Notes are kept in a set;   *)
(* the code sorts them by number.  The order of the keys of shots is left  *)
(* out.  The page never submits an empty comment (annotator.js, submit).   *)
(***************************************************************************)
EXTENDS Naturals, FiniteSets, Sequences

CONSTANTS
    Calls,            \* concurrent edits of the page and of the agent
    Reader,           \* the agent's listing
    MAX_ANNOTATIONS,  \* most notes kept
    MAX_SHOTS,        \* most screenshots kept
    Quota,            \* most notes and screenshots the storage takes
    MaxMade,          \* bound: submissions
    None              \* not loaded; null in the code

ASSUME StoreAssumption ==
    /\ Reader \notin Calls
    /\ MAX_ANNOTATIONS \in Nat \ {0}
    /\ MAX_SHOTS \in Nat
    /\ Quota \in Nat
    /\ MaxMade \in Nat

Notes == [seq : Nat, text : Nat, status : {"open", "resolved"}, shot : BOOLEAN]
Stores == [seq : Nat, items : SUBSET Notes]
Reads == [notes : Stores, shots : SUBSET Nat]

ASSUME NoneAssumption == None \notin Stores /\ None \notin Reads

VARIABLES
    cache,       \* seq, the last number given, and items; None until loaded
    shots,       \* the notes with a screenshot
    loading,     \* what the read under way returns, or None
    saved, savedShots,  \* chrome.storage
    call,        \* where each call is
    since,       \* the cursor the reader has
    made,        \* ghost: the number given to each submission
    seen,        \* ghost: submissions the reader was told of or that were resolved
    gone,        \* ghost: submissions that were deleted, or dropped at the cap
    unsaved,     \* ghost: the keys whose last save failed
    misled,      \* ghost: screenshots were dropped behind the notes' backs
    disturbed    \* ghost: the worker died with a failed save, a load failed, or a
                 \* listing and a submission waited for the same load

memory == <<cache, shots, loading>>
storage == <<saved, savedShots>>
ghosts == <<made, seen, gone, unsaved, misled, disturbed>>
vars == <<memory, storage, call, since, ghosts>>

Users == Calls \union {Reader}
Numbers == 1 .. MaxMade
Idle == [pc |-> "idle", op |-> "none", id |-> 0, found |-> {}, cold |-> FALSE]

CallStates == [pc : {"idle", "loading", "loaded", "cursor", "sleep", "capture",
                     "retry", "items", "shots"},
               op : {"none", "add", "patch", "remove", "list"},
               id : Nat, found : SUBSET Notes, cold : BOOLEAN]

Typed ==
    /\ cache \in Stores \union {None}
    /\ loading \in Reads \union {None}
    /\ saved \in Stores
    /\ shots \in SUBSET Nat /\ savedShots \in SUBSET Nat
    /\ call \in [Users -> CallStates]
    /\ since \in Nat
    /\ made \in Seq(Nat)
    /\ seen \in SUBSET Nat /\ gone \in SUBSET Nat
    /\ unsaved \in SUBSET {"items", "shots"}
    /\ misled \in BOOLEAN /\ disturbed \in BOOLEAN

\* The types, and the caps: a forgotten session never grows the store without bound.
TypeOK ==
    /\ Typed
    /\ cache # None => Cardinality(cache.items) <= MAX_ANNOTATIONS
    /\ Cardinality(shots) <= MAX_SHOTS

Init ==
    /\ cache = None /\ shots = {} /\ loading = None
    /\ saved = [seq |-> 0, items |-> {}] /\ savedShots = {}
    /\ call = [c \in Users |-> Idle]
    /\ since = 0
    /\ made = <<>>
    /\ seen = {} /\ gone = {} /\ unsaved = {}
    /\ misled = FALSE /\ disturbed = FALSE

----------------------------------------------------------------------------
(* The rules (model.js)                                                    *)

Newest(items, n) == {it \in items : Cardinality({o \in items : o.seq > it.seq}) < n}
Texts(items) == {it.text : it \in items}
Numbered(items) == {it.seq : it \in items}

\* limit keeps the newest; 0 stands for no limit, no ids for all of them.
filterAnnotations(items, f) ==
    LET out == {it \in items : /\ f.ids = {} \/ it.seq \in f.ids
                               /\ f.status \in {"all", it.status}
                               /\ it.seq > f.since} IN
      IF f.limit > 0 THEN Newest(out, f.limit) ELSE out

\* Slip: the cap is checked before the new note is counted.
pruneItemsLate(items) == Newest(items, MAX_ANNOTATIONS + 1)

pruneItems(items) == Newest(items, MAX_ANNOTATIONS)

shotIdsToKeep(items, ids) ==
    Numbered(Newest({it \in items : it.seq \in ids}, MAX_SHOTS))

----------------------------------------------------------------------------
(* Calls                                                                   *)

At(c, pc) == call[c].pc = pc
Go(c, pc) == call' = [call EXCEPT ![c].pc = pc]
Ends(c) == call' = [call EXCEPT ![c] = Idle]

\* Slip: something is awaited between a listing and its cursor.
ResumedExceptCursor == {c \in Users : At(c, "loaded")}

\* Calls that go on before the worker takes the next event: what a listing
\* awaits before its cursor is settled already.
Resumed == {c \in Users : call[c].pc \in {"loaded", "cursor"}}
NextEvent == Resumed = {}

\* Slip: every call reads the storage for itself.
JoinNobody(c) == {c}

\* The calls that share the promise of a load.
Join(c) == {d \in Users : At(d, "loading")}

\* A call begins with load.
Start(c, op) ==
    /\ NextEvent
    /\ At(c, "idle")
    /\ IF cache # None
         THEN /\ call' = [call EXCEPT ![c] = [Idle EXCEPT !.pc = "loaded", !.op = op]]
              /\ UNCHANGED loading
         ELSE /\ call' = [call EXCEPT ![c] = [Idle EXCEPT !.pc = "loading", !.op = op,
                                                          !.cold = TRUE]]
              /\ loading' = IF loading # None THEN loading
                                              ELSE [notes |-> saved, shots |-> savedShots]
    /\ UNCHANGED <<cache, shots, storage, since, ghosts>>

Left == MaxMade - Len(made)
StartAdd(c) ==
    /\ Cardinality({d \in Calls : call[d].op = "add" /\ call[d].pc \in {"loading", "loaded"}})
         < Left
    /\ Start(c, "add")
StartEdit(c) == \E op \in {"patch", "remove"} : Start(c, op)
StartList == Start(Reader, "list")

\* Slip: the last number is taken from the notes that are left.
LoadedByNotes(notes) ==
    [notes EXCEPT !.seq = IF notes.items = {} THEN 0
                          ELSE CHOOSE n \in Numbered(notes.items) :
                                 \A m \in Numbered(notes.items) : m <= n]

\* What load makes of what it read; a number of 0 is taken for a missing one.
Loaded(notes) ==
    [notes EXCEPT !.seq = IF @ = 0 THEN Cardinality(notes.items) ELSE @]

\* load: the storage answers; it may fail, and the worker starts from nothing.
LoadAnswered(c) ==
    /\ NextEvent
    /\ At(c, "loading")
    /\ \/ /\ cache' = Loaded(loading.notes)
          /\ shots' = loading.shots
          /\ UNCHANGED disturbed
       \/ /\ cache' = [seq |-> 0, items |-> {}]
          /\ shots' = {}
          /\ disturbed' = TRUE
    /\ loading' = IF Join(c) = {d \in Users : At(d, "loading")} THEN None ELSE loading
    /\ call' = [d \in Users |-> IF d \in Join(c) THEN [call[d] EXCEPT !.pc = "loaded"]
                                                 ELSE call[d]]
    /\ UNCHANGED <<storage, since, made, seen, gone, unsaved, misled>>

\* Saving: what exceeds the quota is refused.
Fits(items, ids) == Cardinality(items) + Cardinality(ids) <= Quota

persistItems(notes) ==
    IF Fits(notes.items, savedShots)
      THEN saved' = notes /\ unsaved' = unsaved \ {"items"}
      ELSE saved' = saved /\ unsaved' = unsaved \union {"items"}

persistShots(ids) ==
    IF Fits(saved.items, ids)
      THEN savedShots' = ids /\ unsaved' = unsaved \ {"shots"}
      ELSE savedShots' = savedShots /\ unsaved' = unsaved \union {"shots"}

----------------------------------------------------------------------------
(* A submission: add, then a screenshot of the element                     *)

add(c) ==
    /\ At(c, "loaded") /\ call[c].op = "add"
    /\ \E record \in {[seq |-> cache.seq + 1, text |-> Len(made) + 1,
                       status |-> "open", shot |-> FALSE]} :
         LET items == pruneItems(cache.items \union {record}) IN
           /\ cache' = [seq |-> record.seq, items |-> items]
           /\ persistItems([seq |-> record.seq, items |-> items])
           /\ made' = Append(made, record.seq)
           /\ gone' = gone \union Texts((cache.items \union {record}) \ items)
           /\ call' = [call EXCEPT ![c].pc = "capture", ![c].id = record.seq,
                                   ![c].cold = FALSE]
    /\ UNCHANGED <<shots, loading, savedShots, since, seen, misled, disturbed>>

\* The tab is not in front, or the capture fails.
NoCapture(c) ==
    /\ NextEvent
    /\ At(c, "capture")
    /\ Ends(c)
    /\ UNCHANGED <<memory, storage, since, ghosts>>

\* Slip: only the note itself learns what became of its screenshot.
AdvertiseOwn(items, id, ids) ==
    {IF it.seq = id THEN [it EXCEPT !.shot = it.seq \in ids] ELSE it : it \in items}

\* A note whose screenshot was evicted stops claiming it.
Advertise(items, id, ids) ==
    {[it EXCEPT !.shot = it.seq \in ids /\ (@ \/ it.seq = id)] : it \in items}

\* setShot: the screenshots are saved first, then the notes.
setShot(c) ==
    /\ NextEvent
    /\ At(c, "capture")
    /\ \E ids \in {shots \union {call[c].id}} :
         LET kept == ids \intersect shotIdsToKeep(cache.items, ids) IN
           /\ shots' = kept
           /\ cache' = [cache EXCEPT !.items = Advertise(@, call[c].id, kept)]
           /\ persistShots(kept)
           /\ Go(c, IF Fits(saved.items, kept) THEN "items" ELSE "retry")
    /\ misled' = FALSE
    /\ UNCHANGED <<loading, saved, since, made, seen, gone, disturbed>>

\* persistShots, refused: half of the screenshots go, and it tries once more.
RetryShots(c) ==
    /\ NextEvent
    /\ At(c, "retry")
    /\ \E kept \in SUBSET shots :
         /\ Cardinality(kept) = Cardinality(shots) \div 2
         /\ shots' = kept
         /\ persistShots(kept)
         /\ misled' = (misled \/ kept # shots)
    /\ IF call[c].op = "add" THEN Go(c, "items") ELSE Ends(c)
    /\ UNCHANGED <<cache, loading, saved, since, made, seen, gone, disturbed>>

\* Slip: the notes are not saved once more after the screenshot.
SaveNoItems(c) ==
    /\ NextEvent
    /\ At(c, "items")
    /\ Ends(c)
    /\ UNCHANGED <<memory, storage, since, ghosts>>

SaveItems(c) ==
    /\ NextEvent
    /\ At(c, "items")
    /\ persistItems(cache)
    /\ Ends(c)
    /\ UNCHANGED <<memory, savedShots, since, made, seen, gone, misled, disturbed>>

----------------------------------------------------------------------------
(* Edits: resolve, reopen and reply; delete and clear                      *)

\* The page names one note.
PageFilters == [ids : {{n} : n \in Numbers}, status : {"all"}, since : {0}, limit : {0}]

\* The agent names one too, or takes some by status, or the newest of those.
AgentFilters ==
    PageFilters \union
    [ids : {{}}, status : {"open", "resolved", "all"}, since : {0}, limit : {0, 1}]

\* resolve, reopen; a reply or a new comment alone leaves the status.
Changes == {"resolved", "open", "keep"}

Patched(targets, status) ==
    IF status = "keep" THEN targets ELSE {[it EXCEPT !.status = status] : it \in targets}

patch(c) ==
    /\ At(c, "loaded") /\ call[c].op = "patch"
    /\ \E f \in AgentFilters, status \in Changes :
         LET targets == filterAnnotations(cache.items, f)
             new == [cache EXCEPT !.items = (@ \ targets) \union Patched(targets, status)] IN
           /\ cache' = new
           /\ IF targets # {} THEN persistItems(new) ELSE UNCHANGED <<saved, unsaved>>
           /\ seen' = IF status = "resolved" THEN seen \union Texts(targets) ELSE seen
    /\ Ends(c)
    /\ UNCHANGED <<shots, loading, savedShots, since, made, gone, misled, disturbed>>

remove(c) ==
    /\ At(c, "loaded") /\ call[c].op = "remove"
    /\ \E f \in AgentFilters :
         LET targets == filterAnnotations(cache.items, f)
             kill == Numbered(targets)
             new == [cache EXCEPT !.items = @ \ targets] IN
           /\ cache' = new
           /\ shots' = shots \ kill
           /\ gone' = gone \union Texts(targets)
           /\ IF targets # {} THEN persistItems(new) ELSE UNCHANGED <<saved, unsaved>>
           /\ IF shots \intersect kill # {}
                THEN call' = [call EXCEPT ![c].pc = "shots", ![c].cold = FALSE]
                ELSE Ends(c)
    /\ UNCHANGED <<loading, savedShots, since, made, seen, misled, disturbed>>

SaveShots(c) ==
    /\ NextEvent
    /\ At(c, "shots")
    /\ persistShots(shots)
    /\ IF Fits(saved.items, shots) THEN Ends(c) ELSE Go(c, "retry")
    /\ UNCHANGED <<memory, saved, since, made, seen, gone, misled, disturbed>>

----------------------------------------------------------------------------
(* The agent lists what is new and open, and may wait for it               *)

\* listOp, waitForNew: it sleeps until there is something or its time is up.
ListNew ==
    /\ At(Reader, "loaded")
    /\ \E found \in {filterAnnotations(cache.items,
                       [ids |-> {}, status |-> "open", since |-> since, limit |-> 0])} :
         \/ call' = [call EXCEPT ![Reader].pc = "cursor", ![Reader].found = found,
                                 ![Reader].id = cache.seq]
         \/ /\ found = {}
            /\ call' = [call EXCEPT ![Reader].pc = "sleep", ![Reader].cold = FALSE]
    /\ UNCHANGED <<memory, storage, since, ghosts>>

PollAgain ==
    /\ NextEvent
    /\ At(Reader, "sleep")
    /\ Go(Reader, "loaded")
    /\ UNCHANGED <<memory, storage, since, ghosts>>

\* The reply: the notes found, and the last number given by now.
ReadCursor ==
    /\ At(Reader, "cursor")
    /\ since' = cache.seq
    /\ seen' = seen \union Texts(call[Reader].found)
    /\ disturbed' = (disturbed \/ (call[Reader].cold /\ call[Reader].id # cache.seq))
    /\ Ends(Reader)
    /\ UNCHANGED <<memory, storage, made, gone, unsaved, misled>>

----------------------------------------------------------------------------
\* The browser suspends or loses the worker.
WorkerDies ==
    /\ NextEvent
    /\ cache # None \/ loading # None
    /\ cache' = None /\ shots' = {} /\ loading' = None
    /\ call' = [c \in Users |-> Idle]
    /\ misled' = (misled \/ \E c \in Calls : call[c].pc \in {"items", "retry"})
    /\ disturbed' = (disturbed \/ unsaved # {})
    /\ unsaved' = {}
    /\ UNCHANGED <<storage, since, made, seen, gone>>

Next ==
    \/ \E c \in Calls : \/ StartAdd(c) \/ StartEdit(c)
                        \/ add(c) \/ NoCapture(c) \/ setShot(c)
                        \/ RetryShots(c) \/ SaveItems(c)
                        \/ patch(c) \/ remove(c) \/ SaveShots(c)
    \/ \E c \in Users : LoadAnswered(c)
    \/ StartList \/ ListNew \/ PollAgain \/ ReadCursor
    \/ WorkerDies

Spec == Init /\ [][Next]_vars

----------------------------------------------------------------------------
(* Properties                                                              *)

Known == IF cache = None THEN saved ELSE cache

\* No number is given twice, also after the last note was deleted and the worker
\* restarted: the agent that resolves a3 means the note it was shown as a3.
NumbersUnique ==
    disturbed \/ \A i, j \in DOMAIN made : made[i] = made[j] => i = j

\* A note that was submitted is still there unless somebody deleted it or the cap
\* dropped it, whatever loads, edits and restarts of the worker came in between.
NothingLost ==
    disturbed \/ \A i \in DOMAIN made : i \in gone \/ i \in Texts(Known.items)

\* A reader that passes on the cursor misses nothing: what is there with a number
\* up to its cursor it was told of, or it had been resolved.
NoneSkipped ==
    disturbed \/ \A it \in Known.items : it.seq <= since => it.text \in seen

\* A note that claims a screenshot has one, while screenshots are evicted, deleted
\* with their note and taken again.
AdvertisedHasShot ==
    disturbed \/ misled \/ cache = None
              \/ \A it \in cache.items : it.shot => it.seq \in shots

\* When no call is between its two saves and none was refused, the storage has what
\* the worker has, so a worker that dies then loses nothing.
StorageFollows ==
    \/ disturbed \/ unsaved # {} \/ cache = None
    \/ \E c \in Calls : call[c].pc \in {"items", "retry", "shots"}
    \/ saved = cache /\ savedShots = shots
==============================================================================
