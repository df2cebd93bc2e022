------------------------ MODULE AnnotationStoreProofs ------------------------
(***************************************************************************)
(* Theorems about the annotation store, for every number of calls and      *)
(* submissions, every cap and every quota.                                 *)
(***************************************************************************)
EXTENDS AnnotationStore, FiniteSetTheorems, SequenceTheorems, TLAPS

----------------------------------------------------------------------------
(* What a store owes to the submissions and to the reader                  *)

\* Every number given is below the last one; a submission is there or is gone; the
\* notes have numbers that were given; the reader was told of what it has passed,
\* and of what is resolved nobody needs to tell it.
Sound(notes, mm, gg, ss, se) ==
    /\ \A i \in DOMAIN mm : mm[i] <= notes.seq
    /\ \A i \in DOMAIN mm : i \in gg \/ i \in Texts(notes.items)
    /\ \A it \in notes.items : 1 <= it.seq /\ it.seq <= notes.seq
    /\ ss <= notes.seq
    /\ \A it \in notes.items : it.seq <= ss => it.text \in se
    /\ \A it \in notes.items : it.status = "resolved" => it.text \in se

\* Two stores that differ in the screenshots their notes claim.
Same(a, b) ==
    /\ a.seq = b.seq
    /\ \A it \in a.items : \E o \in b.items :
         o.seq = it.seq /\ o.text = it.text /\ o.status = it.status
    /\ \A it \in b.items : \E o \in a.items :
         o.seq = it.seq /\ o.text = it.text /\ o.status = it.status

Unique(mm) == \A i, j \in DOMAIN mm : mm[i] = mm[j] => i = j

LEMMA SameSound ==
    ASSUME NEW a \in Stores, NEW b \in Stores, NEW mm, NEW gg, NEW ss, NEW se,
           Same(a, b), Sound(b, mm, gg, ss, se)
    PROVE  Sound(a, mm, gg, ss, se)
<1>1. \A i \in DOMAIN mm : i \in gg \/ i \in Texts(a.items)
  <2> SUFFICES ASSUME NEW i \in DOMAIN mm, i \notin gg PROVE i \in Texts(a.items)
    OBVIOUS
  <2>1. PICK it \in b.items : it.text = i
    BY DEF Sound, Texts
  <2>2. PICK o \in a.items : o.text = i
    BY <2>1 DEF Same
  <2>. QED
    BY <2>2 DEF Texts
<1>2. \A it \in a.items : /\ 1 <= it.seq /\ it.seq <= a.seq
                          /\ it.seq <= ss => it.text \in se
                          /\ it.status = "resolved" => it.text \in se
  <2> SUFFICES ASSUME NEW it \in a.items
               PROVE  /\ 1 <= it.seq /\ it.seq <= a.seq
                      /\ it.seq <= ss => it.text \in se
                      /\ it.status = "resolved" => it.text \in se
    OBVIOUS
  <2>1. PICK o \in b.items : o.seq = it.seq /\ o.text = it.text /\ o.status = it.status
    BY DEF Same
  <2>. QED
    BY <2>1 DEF Sound, Same
<1>. QED
  BY <1>1, <1>2 DEF Sound, Same

LEMMA SameReflexive == ASSUME NEW a PROVE Same(a, a)
BY DEF Same

LEMMA SameTransitive ==
    ASSUME NEW a, NEW b, NEW c, Same(a, b), Same(b, c) PROVE Same(a, c)
<1>1. ASSUME NEW it \in a.items
      PROVE  \E o \in c.items : o.seq = it.seq /\ o.text = it.text /\ o.status = it.status
  <2>1. PICK o \in b.items : o.seq = it.seq /\ o.text = it.text /\ o.status = it.status
    BY DEF Same
  <2>. QED
    BY <2>1 DEF Same
<1>2. ASSUME NEW it \in c.items
      PROVE  \E o \in a.items : o.seq = it.seq /\ o.text = it.text /\ o.status = it.status
  <2>1. PICK o \in b.items : o.seq = it.seq /\ o.text = it.text /\ o.status = it.status
    BY DEF Same
  <2>. QED
    BY <2>1 DEF Same
<1>. QED
  BY <1>1, <1>2 DEF Same

\* The number of a store that has given none is not made up from its notes.
LEMMA LoadedSame ==
    ASSUME NEW notes \in Stores, NEW mm, NEW gg, NEW ss, NEW se, Sound(notes, mm, gg, ss, se)
    PROVE  Loaded(notes) = notes
<1>1. CASE notes.seq = 0
  <2>1. notes.items = {}
    BY <1>1 DEF Sound, Stores, Notes
  <2>. QED
    BY <1>1, <2>1, FS_EmptySet DEF Loaded, Stores
<1>2. CASE notes.seq # 0
  BY <1>2 DEF Loaded, Stores
<1>. QED
  BY <1>1, <1>2

LEMMA AdvertiseSame ==
    ASSUME NEW notes \in Stores, NEW id, NEW ids
    PROVE  /\ [notes EXCEPT !.items = Advertise(@, id, ids)] \in Stores
           /\ Same([notes EXCEPT !.items = Advertise(@, id, ids)], notes)
<1> DEFINE claim(it) == [it EXCEPT !.shot = it.seq \in ids /\ (@ \/ it.seq = id)]
<1>1. \A it \in Notes : /\ claim(it) \in Notes
                        /\ claim(it).seq = it.seq
                        /\ claim(it).text = it.text
                        /\ claim(it).status = it.status
  BY DEF Notes
<1>2. Advertise(notes.items, id, ids) = {claim(it) : it \in notes.items}
  BY DEF Advertise
<1>3. notes.items \subseteq Notes
  BY DEF Stores
<1>4. Advertise(notes.items, id, ids) \in SUBSET Notes
  BY <1>1, <1>2, <1>3
<1> HIDE DEF claim
<1>5. [notes EXCEPT !.items = Advertise(@, id, ids)]
        = [seq |-> notes.seq, items |-> {claim(it) : it \in notes.items}]
  BY <1>2 DEF Stores
<1>. QED
  BY <1>1, <1>2, <1>3, <1>4, <1>5 DEF Same, Stores

LEMMA NewestSubset == ASSUME NEW items, NEW n PROVE Newest(items, n) \subseteq items
BY DEF Newest

LEMMA FilterSubset ==
    ASSUME NEW items, NEW f PROVE filterAnnotations(items, f) \subseteq items
BY NewestSubset DEF filterAnnotations

\* A new note has a number of its own, above all others and above the cursor.
LEMMA AddSound ==
    ASSUME NEW notes \in Stores, NEW mm \in Seq(Nat), NEW gg, NEW ss \in Nat, NEW se,
           Sound(notes, mm, gg, ss, se), Unique(mm),
           NEW record, record = [seq |-> notes.seq + 1, text |-> Len(mm) + 1,
                                 status |-> "open", shot |-> FALSE],
           NEW items, items \subseteq notes.items \union {record}
    PROVE  /\ [seq |-> record.seq, items |-> items] \in Stores
           /\ Sound([seq |-> record.seq, items |-> items], Append(mm, record.seq),
                    gg \union Texts((notes.items \union {record}) \ items), ss, se)
           /\ Unique(Append(mm, record.seq))
<1> DEFINE new == [seq |-> record.seq, items |-> items]
           mm1 == Append(mm, record.seq)
           gg1 == gg \union Texts((notes.items \union {record}) \ items)
<1>1. /\ record \in Notes /\ record.seq = notes.seq + 1 /\ record.text = Len(mm) + 1
      /\ record.status = "open" /\ notes.seq \in Nat /\ notes.items \subseteq Notes
  BY DEF Stores, Notes
<1>2. new \in Stores
  <2>1. record.seq \in Nat
    BY <1>1 DEF Notes
  <2>2. items \in SUBSET Notes
    BY <1>1
  <2>. QED
    BY <2>1, <2>2 DEF Stores
<1>3. /\ mm1 \in Seq(Nat) /\ DOMAIN mm1 = DOMAIN mm \union {Len(mm) + 1}
      /\ \A i \in DOMAIN mm : mm1[i] = mm[i] /\ i # Len(mm) + 1
      /\ mm1[Len(mm) + 1] = notes.seq + 1
  BY <1>1
<1> HIDE DEF mm1
<1>4. \A i \in DOMAIN mm : mm[i] \in Nat /\ mm[i] <= notes.seq
  BY DEF Sound
<1>5. Unique(mm1)
  BY <1>1, <1>3, <1>4 DEF Unique
<1>6. \A i \in DOMAIN mm1 : mm1[i] <= record.seq
  BY <1>1, <1>3, <1>4
<1>7. ASSUME NEW i \in DOMAIN mm1 PROVE i \in gg1 \/ i \in Texts(items)
  <2>1. CASE i \in gg
    BY <2>1
  <2>2. CASE i \notin gg
    <3>1. PICK it \in notes.items \union {record} : it.text = i
      BY <1>1, <1>3, <2>2 DEF Sound, Texts
    <3>. QED
      BY <3>1 DEF Texts
  <2>. QED
    BY <2>1, <2>2
<1>8. \A it \in items : /\ 1 <= it.seq /\ it.seq <= record.seq
                        /\ it.seq <= ss => it.text \in se
                        /\ it.status = "resolved" => it.text \in se
  <2> SUFFICES ASSUME NEW it \in items
               PROVE  /\ 1 <= it.seq /\ it.seq <= record.seq
                      /\ it.seq <= ss => it.text \in se
                      /\ it.status = "resolved" => it.text \in se
    OBVIOUS
  <2>1. CASE it \in notes.items
    BY <1>1, <2>1 DEF Sound, Notes
  <2>2. CASE it = record
    BY <1>1, <2>2 DEF Sound
  <2>. QED
    BY <2>1, <2>2
<1>9. ss <= record.seq
  BY <1>1 DEF Sound
<1>10. Sound(new, mm1, gg1, ss, se)
  BY <1>6, <1>7, <1>8, <1>9 DEF Sound
<1>. QED
  BY <1>2, <1>5, <1>10 DEF mm1

PatchedStore(notes, targets, status) ==
    [notes EXCEPT !.items = (@ \ targets) \union Patched(targets, status)]

Told(se, targets, status) == IF status = "resolved" THEN se \union Texts(targets) ELSE se

\* Edits keep the notes' numbers and texts; what they resolve is taken for told.
LEMMA PatchSound ==
    ASSUME NEW notes \in Stores, NEW mm, NEW gg, NEW ss, NEW se, Sound(notes, mm, gg, ss, se),
           NEW targets, targets \subseteq notes.items, NEW status \in Changes
    PROVE  /\ PatchedStore(notes, targets, status) \in Stores
           /\ Sound(PatchedStore(notes, targets, status), mm, gg, ss, Told(se, targets, status))
           /\ targets = {} => PatchedStore(notes, targets, status) = notes
           /\ PatchedStore(notes, targets, status).seq = notes.seq
           /\ \A o \in PatchedStore(notes, targets, status).items : 
                \E it \in notes.items : it.seq = o.seq /\ it.text = o.text
<1> DEFINE changed == Patched(targets, status)
           new == PatchedStore(notes, targets, status)
           se1 == Told(se, targets, status)
<1>1. notes.seq \in Nat /\ notes.items \subseteq Notes
  BY DEF Stores
<1>2. /\ new.seq = notes.seq /\ new.items = (notes.items \ targets) \union changed
      /\ new = [seq |-> notes.seq, items |-> new.items]
  BY DEF PatchedStore, Stores
<1>3. \A it \in targets : LET o == [it EXCEPT !.status = status] IN
         /\ o.seq = it.seq /\ o.text = it.text /\ o.status = status
         /\ status # "keep" => o \in Notes
  BY <1>1 DEF Notes, Changes
<1>4. \A it \in targets : \E o \in changed : o.text = it.text
  BY <1>3 DEF Patched
<1>5. \A o \in changed : \E it \in targets :
         /\ o \in Notes /\ o.seq = it.seq /\ o.text = it.text
         /\ o.status = "resolved" => it.status = "resolved" \/ status = "resolved"
  BY <1>1, <1>3 DEF Patched
<1> HIDE DEF changed, new
<1>6. new \in Stores
  BY <1>1, <1>2, <1>5 DEF Stores
<1>7. \A i \in DOMAIN mm : i \in gg \/ i \in Texts(new.items)
  <2> SUFFICES ASSUME NEW i \in DOMAIN mm, i \notin gg PROVE i \in Texts(new.items)
    OBVIOUS
  <2>1. PICK it \in notes.items : it.text = i
    BY DEF Sound, Texts
  <2>2. \E o \in new.items : o.text = i
    BY <1>2, <1>4, <2>1
  <2>. QED
    BY <2>2 DEF Texts
<1>8. \A it \in new.items : /\ 1 <= it.seq /\ it.seq <= new.seq
                            /\ it.seq <= ss => it.text \in se1
                            /\ it.status = "resolved" => it.text \in se1
  <2> SUFFICES ASSUME NEW o \in new.items
               PROVE  /\ 1 <= o.seq /\ o.seq <= new.seq
                      /\ o.seq <= ss => o.text \in se1
                      /\ o.status = "resolved" => o.text \in se1
    OBVIOUS
  <2>1. CASE o \in notes.items
    BY <1>2, <2>1 DEF Sound, Told
  <2>2. CASE o \in changed
    <3>1. PICK it \in targets : /\ o.seq = it.seq /\ o.text = it.text
                                /\ o.status = "resolved" => it.status = "resolved" \/ status = "resolved"
      BY <1>5, <2>2
    <3>2. /\ 1 <= it.seq /\ it.seq <= new.seq
          /\ it.seq <= ss => it.text \in se
          /\ it.status = "resolved" => it.text \in se
      BY <1>2 DEF Sound
    <3>3. it.text \in Texts(targets)
      BY DEF Texts
    <3>4. se \subseteq se1 /\ (status = "resolved" => Texts(targets) \subseteq se1)
      BY DEF Told
    <3>5. 1 <= o.seq /\ o.seq <= new.seq
      BY <3>1, <3>2
    <3>6. o.seq <= ss => o.text \in se1
      BY <3>1, <3>2, <3>4
    <3>7. o.status = "resolved" => o.text \in se1
      BY <3>1, <3>2, <3>3, <3>4
    <3>. QED
      BY <3>5, <3>6, <3>7
  <2>. QED
    BY <1>2, <2>1, <2>2
<1>9. Sound(new, mm, gg, ss, se1)
  BY <1>2, <1>7, <1>8 DEF Sound
<1>10. targets = {} => new = notes
  <2>1. targets = {} => new.items = notes.items
    BY <1>2, <1>5
  <2>. QED
    BY <1>2, <2>1 DEF Stores
<1>11. \A o \in new.items : \E it \in notes.items : it.seq = o.seq /\ it.text = o.text
  BY <1>2, <1>5
<1>. QED
  BY <1>2, <1>6, <1>9, <1>10, <1>11 DEF new

\* What is deleted is gone.
LEMMA RemoveSound ==
    ASSUME NEW notes \in Stores, NEW mm, NEW gg, NEW ss, NEW se, Sound(notes, mm, gg, ss, se),
           NEW targets, targets \subseteq notes.items,
           NEW new, new = [notes EXCEPT !.items = @ \ targets]
    PROVE  /\ new \in Stores
           /\ Sound(new, mm, gg \union Texts(targets), ss, se)
           /\ targets = {} => new = notes
           /\ new.seq = notes.seq
           /\ new.items \subseteq notes.items
<1>1. /\ new.seq = notes.seq /\ new.items = notes.items \ targets
      /\ new = [seq |-> notes.seq, items |-> new.items]
  BY DEF Stores
<1>2. new \in Stores
  BY <1>1 DEF Stores
<1>3. \A i \in DOMAIN mm : i \in gg \union Texts(targets) \/ i \in Texts(new.items)
  <2> SUFFICES ASSUME NEW i \in DOMAIN mm, i \notin gg
               PROVE  i \in Texts(targets) \/ i \in Texts(new.items)
    OBVIOUS
  <2>1. PICK it \in notes.items : it.text = i
    BY DEF Sound, Texts
  <2>. QED
    BY <1>1, <2>1 DEF Texts
<1>4. Sound(new, mm, gg \union Texts(targets), ss, se)
  BY <1>1, <1>3 DEF Sound
<1>. QED
  BY <1>1, <1>2, <1>4 DEF Stores

\* A listing of all that is new and open, and the last number given by then.
LEMMA ReadSound ==
    ASSUME NEW notes \in Stores, NEW mm, NEW gg, NEW ss, NEW se, Sound(notes, mm, gg, ss, se),
           NEW told, \A it \in notes.items : it.text \in se \union told
    PROVE  Sound(notes, mm, gg, notes.seq, se \union told)
BY DEF Sound, Stores

----------------------------------------------------------------------------
(* The inductive invariant                                                 *)

Held ==
    /\ cache \in Stores \union {None}
    /\ loading \in Reads \union {None}
    /\ saved \in Stores
    /\ shots \in SUBSET Nat /\ savedShots \in SUBSET Nat
    /\ call \in [Users -> CallStates]
    /\ since \in Nat
    /\ made \in Seq(Nat)

\* What the worker has, or will read, is sound; and so is what it would read if it
\* died, unless a save of the notes failed.
StoresFit ==
    /\ Unique(made)
    /\ cache # None => Sound(cache, made, gone, since, seen)
    /\ cache # None /\ "items" \notin unsaved => Same(saved, cache)
    /\ cache = None => Sound(saved, made, gone, since, seen)
    /\ loading # None => cache = None /\ loading.notes = saved

\* A call that waits for a load has one to wait for; one that goes on after its
\* load has a store; and of the calls that go on before the next event, only those
\* that shared a load are more than one.
CallsFit ==
    /\ \A c \in Users : At(c, "loading") => loading # None /\ call[c].cold
    /\ \A c \in Users : call[c].pc \notin {"idle", "loading"} => cache # None
    /\ \A c, d \in Resumed : c # d => call[c].cold

\* A listing has what the reader was not told of, up to the number it saw; and that
\* is the last one, unless it shared its load.
CursorFits ==
    At(Reader, "cursor") =>
      /\ call[Reader].id <= cache.seq
      /\ ~call[Reader].cold => call[Reader].id = cache.seq
      /\ \A it \in cache.items :
           it.seq <= call[Reader].id => it.text \in seen \union Texts(call[Reader].found)

Fits4 == Held /\ StoresFit /\ CallsFit /\ CursorFits

IInv == disturbed \in BOOLEAN /\ (disturbed \/ Fits4)

LEMMA InitInv == Init => IInv
<1> SUFFICES ASSUME Init PROVE IInv
  OBVIOUS
<1>1. Held
  BY NoneAssumption DEF Init, Held, Idle, CallStates, Stores
<1>2. StoresFit
  BY <1>1 DEF Init, StoresFit, Sound, Unique
<1>3. CallsFit /\ CursorFits
  BY DEF Init, CallsFit, CursorFits, At, Resumed, Idle, Users
<1>. QED
  BY <1>1, <1>2, <1>3 DEF Init, IInv, Fits4

\* A disturbed behaviour stays so.
LEMMA DisturbedStays == ASSUME IInv, Next PROVE disturbed' \in BOOLEAN /\ (disturbed => disturbed')
BY DEF IInv, Next, ghosts, StartAdd, StartEdit, Start, LoadAnswered, add, NoCapture, setShot, RetryShots,
       SaveItems, patch, remove, SaveShots, StartList, ListNew, PollAgain, ReadCursor, WorkerDies

----------------------------------------------------------------------------
(* Every step keeps it                                                     *)

LEMMA ReaderApart == Reader \in Users /\ Reader \notin Calls /\ Calls \subseteq Users
BY StoreAssumption DEF Users

\* A call that does not go on before the next event.
LEMMA CallWaits ==
    ASSUME Held, CallsFit, NEW c \in Calls, NEW k \in CallStates, call' = [call EXCEPT ![c] = k],
           k.pc \notin {"loading", "loaded", "cursor"},
           cache # None, cache' # None, loading' = loading
    PROVE  /\ call' \in [Users -> CallStates]
           /\ CallsFit'
           /\ call'[Reader] = call[Reader]
<1>1. call' \in [Users -> CallStates] /\ call'[Reader] = call[Reader]
  BY ReaderApart DEF Held
<1>2. call'[c] = k /\ \A d \in Users \ {c} : call'[d] = call[d]
  BY ReaderApart DEF Held
<1>3. \A d \in Resumed' : d \in Resumed /\ call'[d] = call[d]
  BY <1>2 DEF Resumed
<1>. QED
  BY <1>1, <1>2, <1>3 DEF CallsFit, At

\* A listing is not disturbed by what leaves it and the store as they are.
LEMMA CursorWaits ==
    ASSUME CursorFits, call'[Reader] = call[Reader], cache' = cache, seen' = seen
    PROVE  CursorFits'
BY DEF CursorFits, At

\* Nor by what only happens when no listing is under way.
LEMMA NoCursor == ASSUME NextEvent PROVE ~At(Reader, "cursor")
BY ReaderApart DEF NextEvent, Resumed, At

LEMMA AddFits == ASSUME Fits4, NEW c \in Calls, add(c) PROVE Fits4'
<1> USE DEF Fits4
<1>1. cache # None /\ cache \in Stores /\ c \in Users /\ c \in Resumed
  BY ReaderApart DEF add, At, CallsFit, Held, Resumed
<1>2. PICK record \in {[seq |-> cache.seq + 1, text |-> Len(made) + 1,
                       status |-> "open", shot |-> FALSE]} :
        LET items == pruneItems(cache.items \union {record}) IN
          /\ cache' = [seq |-> record.seq, items |-> items]
          /\ persistItems([seq |-> record.seq, items |-> items])
          /\ made' = Append(made, record.seq)
          /\ gone' = gone \union Texts((cache.items \union {record}) \ items)
          /\ call' = [call EXCEPT ![c].pc = "capture", ![c].id = record.seq, ![c].cold = FALSE]
  BY DEF add
<1> DEFINE items == pruneItems(cache.items \union {record})
<1>3. record = [seq |-> cache.seq + 1, text |-> Len(made) + 1, status |-> "open", shot |-> FALSE]
  OBVIOUS
<1>4. items \subseteq cache.items \union {record}
  BY NewestSubset DEF pruneItems
<1>5. /\ cache' = [seq |-> record.seq, items |-> items]
      /\ persistItems([seq |-> record.seq, items |-> items])
      /\ made' = Append(made, record.seq)
      /\ gone' = gone \union Texts((cache.items \union {record}) \ items)
      /\ call' = [call EXCEPT ![c].pc = "capture", ![c].id = record.seq, ![c].cold = FALSE]
  BY <1>2
<1>6. UNCHANGED <<shots, loading, savedShots, since, seen>>
  BY DEF add
<1> HIDE DEF items
<1>7. /\ cache' \in Stores
      /\ Sound(cache', made', gone', since, seen)
      /\ Unique(made')
  <2>1. /\ Sound(cache, made, gone, since, seen) /\ Unique(made)
        /\ made \in Seq(Nat) /\ since \in Nat
    BY <1>1 DEF Held, StoresFit
  <2>2. /\ [seq |-> record.seq, items |-> items] \in Stores
        /\ Sound([seq |-> record.seq, items |-> items], Append(made, record.seq),
                 gone \union Texts((cache.items \union {record}) \ items), since, seen)
        /\ Unique(Append(made, record.seq))
    BY <1>1, <1>3, <1>4, <2>1, AddSound
  <2>. QED
    BY <1>5, <2>2
<1>8. cache.seq \in Nat /\ record.seq = cache.seq + 1 /\ record.seq \in Nat
  BY <1>1, <1>3 DEF Stores
<1>9. /\ saved' \in Stores
      /\ "items" \notin unsaved' => saved' = cache'
  BY <1>5, <1>7 DEF persistItems, Held
<1>10. made' \in Seq(Nat)
  BY <1>5, <1>8, AppendProperties DEF Held
<1>11. cache' # None
  BY <1>7, NoneAssumption
<1>12. /\ call' \in [Users -> CallStates]
       /\ CallsFit'
       /\ call'[Reader] = call[Reader]
  <2> DEFINE k == [call[c] EXCEPT !.pc = "capture", !.id = record.seq, !.cold = FALSE]
  <2>1. call[c] \in CallStates
    BY <1>1 DEF Held
  <2>2. k \in CallStates /\ k.pc = "capture"
    BY <1>8, <2>1 DEF CallStates
  <2>3. call' = [call EXCEPT ![c] = k]
    BY <1>5
  <2>. QED
    BY <1>1, <1>6, <1>11, <2>2, <2>3, CallWaits
<1>13. Held'
  BY <1>6, <1>7, <1>9, <1>10, <1>12 DEF Held
<1>14. StoresFit'
  BY <1>1, <1>6, <1>7, <1>9, <1>11, SameReflexive DEF StoresFit
<1>15. CursorFits'
  <2> SUFFICES ASSUME At(Reader, "cursor")'
               PROVE  /\ call[Reader].id <= cache'.seq
                      /\ call[Reader].cold
                      /\ \A it \in cache'.items :
                           it.seq <= call[Reader].id
                             => it.text \in seen \union Texts(call[Reader].found)
    BY <1>6, <1>12 DEF CursorFits
  <2>1. At(Reader, "cursor")
    BY <1>12 DEF At
  <2>2. call[Reader].cold
    BY <1>1, <2>1, ReaderApart DEF CallsFit, Resumed, At
  <2>3. call[Reader].id \in Nat /\ call[Reader].id <= cache.seq
    BY <2>1, ReaderApart DEF CursorFits, Held, CallStates
  <2>4. ASSUME NEW it \in items, it.seq <= call[Reader].id
        PROVE  it.text \in seen \union Texts(call[Reader].found)
    <3>1. it \in cache.items
      BY <1>3, <1>4, <1>8, <2>3, <2>4
    <3>. QED
      BY <2>1, <2>4, <3>1 DEF CursorFits
  <2>. QED
    BY <1>5, <1>8, <2>2, <2>3, <2>4
<1>. QED
  BY <1>12, <1>13, <1>14, <1>15

LEMMA IdleCall == Idle \in CallStates /\ Idle.pc = "idle"
BY DEF Idle, CallStates

LEMMA PatchFits == ASSUME Fits4, NEW c \in Calls, patch(c) PROVE Fits4'
<1> USE DEF Fits4
<1>1. cache # None /\ cache \in Stores
  BY ReaderApart DEF patch, At, CallsFit, Held
<1>2. UNCHANGED <<shots, loading, savedShots, since, made, gone>> /\ call' = [call EXCEPT ![c] = Idle]
  BY DEF patch, Ends
<1>3. PICK f \in AgentFilters, status \in Changes :
        LET targets == filterAnnotations(cache.items, f)
            new == [cache EXCEPT !.items = (@ \ targets) \union Patched(targets, status)] IN
          /\ cache' = new
          /\ IF targets # {} THEN persistItems(new) ELSE UNCHANGED <<saved, unsaved>>
          /\ seen' = IF status = "resolved" THEN seen \union Texts(targets) ELSE seen
  BY DEF patch
<1> DEFINE targets == filterAnnotations(cache.items, f)
           new == PatchedStore(cache, targets, status)
           se1 == Told(seen, targets, status)
<1>4. /\ cache' = new
      /\ IF targets # {} THEN persistItems(new) ELSE UNCHANGED <<saved, unsaved>>
      /\ seen' = se1
  BY <1>3 DEF PatchedStore, Told
<1>5. targets \subseteq cache.items
  BY FilterSubset
<1>6. /\ new \in Stores
      /\ Sound(new, made, gone, since, se1)
      /\ targets = {} => new = cache
      /\ new.seq = cache.seq
      /\ \A o \in new.items : \E it \in cache.items : it.seq = o.seq /\ it.text = o.text
  <2>1. Sound(cache, made, gone, since, seen)
    BY <1>1 DEF StoresFit
  <2> HIDE DEF targets
  <2>. QED
    BY <1>1, <1>5, <2>1, PatchSound
<1>7. seen \subseteq se1
  BY DEF Told
<1> HIDE DEF targets, new, se1
<1>8. cache' # None
  BY <1>4, <1>6, NoneAssumption
<1>9. saved' \in Stores /\ ("items" \notin unsaved' => Same(saved', new))
  <2>1. CASE targets # {}
    BY <1>4, <1>6, <2>1, SameReflexive DEF persistItems, Held
  <2>2. CASE targets = {}
    BY <1>1, <1>4, <1>6, <2>2 DEF Held, StoresFit
  <2>. QED
    BY <2>1, <2>2
<1>10. /\ call' \in [Users -> CallStates]
       /\ CallsFit'
       /\ call'[Reader] = call[Reader]
  BY <1>1, <1>2, <1>8, IdleCall, CallWaits
<1>11. Held'
  BY <1>2, <1>4, <1>6, <1>9, <1>10 DEF Held
<1>12. StoresFit'
  BY <1>1, <1>2, <1>4, <1>6, <1>8, <1>9 DEF StoresFit
<1>13. CursorFits'
  <2> SUFFICES ASSUME At(Reader, "cursor")
               PROVE  \A o \in new.items : o.seq <= call[Reader].id
                        => o.text \in se1 \union Texts(call[Reader].found)
    BY <1>4, <1>6, <1>10 DEF CursorFits, At
  <2>. QED
    BY <1>6, <1>7 DEF CursorFits
<1>. QED
  BY <1>10, <1>11, <1>12, <1>13

LEMMA RemoveFits == ASSUME Fits4, NEW c \in Calls, remove(c) PROVE Fits4'
<1> USE DEF Fits4
<1>1. cache # None /\ cache \in Stores
  BY ReaderApart DEF remove, At, CallsFit, Held
<1>2. UNCHANGED <<loading, savedShots, since, made, seen>>
  BY DEF remove
<1>3. PICK f \in AgentFilters :
        LET targets == filterAnnotations(cache.items, f)
            kill == Numbered(targets)
            new == [cache EXCEPT !.items = @ \ targets] IN
          /\ cache' = new
          /\ shots' = shots \ kill
          /\ gone' = gone \union Texts(targets)
          /\ IF targets # {} THEN persistItems(new) ELSE UNCHANGED <<saved, unsaved>>
          /\ IF shots \intersect kill # {}
               THEN call' = [call EXCEPT ![c].pc = "shots", ![c].cold = FALSE]
               ELSE Ends(c)
  BY DEF remove
<1> DEFINE targets == filterAnnotations(cache.items, f)
           new == [cache EXCEPT !.items = @ \ targets]
<1>4. /\ cache' = new
      /\ shots' \subseteq shots
      /\ gone' = gone \union Texts(targets)
      /\ IF targets # {} THEN persistItems(new) ELSE UNCHANGED <<saved, unsaved>>
      /\ \/ call' = [call EXCEPT ![c].pc = "shots", ![c].cold = FALSE]
         \/ call' = [call EXCEPT ![c] = Idle]
  BY <1>3 DEF Ends
<1>5. targets \subseteq cache.items
  BY FilterSubset
<1>6. /\ new \in Stores
      /\ Sound(new, made, gone \union Texts(targets), since, seen)
      /\ targets = {} => new = cache
      /\ new.seq = cache.seq
      /\ new.items \subseteq cache.items
  <2> HIDE DEF targets
  <2>1. Sound(cache, made, gone, since, seen)
    BY <1>1 DEF StoresFit
  <2>. QED
    BY <1>1, <1>5, <2>1, RemoveSound
<1> HIDE DEF targets, new
<1>7. cache' # None
  BY <1>4, <1>6, NoneAssumption
<1>8. saved' \in Stores /\ ("items" \notin unsaved' => Same(saved', new))
  <2>1. CASE targets # {}
    BY <1>4, <1>6, <2>1, SameReflexive DEF persistItems, Held
  <2>2. CASE targets = {}
    BY <1>1, <1>4, <1>6, <2>2 DEF Held, StoresFit
  <2>. QED
    BY <2>1, <2>2
<1>9. /\ call' \in [Users -> CallStates]
      /\ CallsFit'
      /\ call'[Reader] = call[Reader]
  <2> DEFINE k == [call[c] EXCEPT !.pc = "shots", !.cold = FALSE]
  <2>1. k \in CallStates /\ k.pc = "shots"
    BY ReaderApart DEF Held, CallStates
  <2>2. CASE call' = [call EXCEPT ![c].pc = "shots", ![c].cold = FALSE]
    <3>1. call' = [call EXCEPT ![c] = k]
      BY <2>2
    <3>. QED
      BY <1>1, <1>2, <1>7, <2>1, <3>1, CallWaits
  <2>3. CASE call' = [call EXCEPT ![c] = Idle]
    BY <1>1, <1>2, <1>7, <2>3, IdleCall, CallWaits
  <2>. QED
    BY <1>4, <2>2, <2>3
<1>10. Held'
  BY <1>2, <1>4, <1>6, <1>8, <1>9 DEF Held
<1>11. StoresFit'
  BY <1>1, <1>2, <1>4, <1>6, <1>7, <1>8 DEF StoresFit
<1>12. CursorFits'
  BY <1>2, <1>4, <1>6, <1>9 DEF CursorFits, At
<1>. QED
  BY <1>9, <1>10, <1>11, <1>12

LEMMA NoCaptureFits == ASSUME Fits4, NEW c \in Calls, NoCapture(c) PROVE Fits4'
<1> USE DEF Fits4
<1>1. cache # None
  BY ReaderApart DEF NoCapture, At, CallsFit
<1>2. UNCHANGED <<memory, storage, since, ghosts>> /\ call' = [call EXCEPT ![c] = Idle]
  BY DEF NoCapture, Ends
<1>3. /\ call' \in [Users -> CallStates]
      /\ CallsFit'
      /\ call'[Reader] = call[Reader]
  BY <1>1, <1>2, IdleCall, CallWaits DEF memory
<1>4. Held' /\ StoresFit' /\ CursorFits'
  BY <1>2, <1>3, CursorWaits DEF Held, StoresFit, memory, storage, ghosts
<1>. QED
  BY <1>3, <1>4

\* Where Go leads.
LEMMA GoStates ==
    ASSUME Held, NEW c \in Calls, NEW pc \in {"capture", "retry", "items", "shots"}, Go(c, pc)
    PROVE  \E k \in CallStates : call' = [call EXCEPT ![c] = k] /\ k.pc = pc
<1>1. call[c] \in CallStates
  BY ReaderApart DEF Held
<1>2. [call[c] EXCEPT !.pc = pc] \in CallStates /\ [call[c] EXCEPT !.pc = pc].pc = pc
  BY <1>1 DEF CallStates
<1>. QED
  BY <1>2 DEF Go

\* A call that goes on to save, or ends, without another store being read or made.
LEMMA SaverWaits ==
    ASSUME Held, CallsFit, NEW c \in Calls, cache # None, cache' # None, loading' = loading,
           Ends(c) \/ \E pc \in {"capture", "retry", "items", "shots"} : Go(c, pc)
    PROVE  /\ call' \in [Users -> CallStates]
           /\ CallsFit'
           /\ call'[Reader] = call[Reader]
<1>1. PICK k \in CallStates : /\ call' = [call EXCEPT ![c] = k]
                              /\ k.pc \notin {"loading", "loaded", "cursor"}
  BY GoStates, IdleCall DEF Ends
<1>. QED
  BY <1>1, CallWaits

LEMMA SetShotFits == ASSUME Fits4, NEW c \in Calls, setShot(c) PROVE Fits4'
<1> USE DEF Fits4
<1>1. cache # None /\ cache \in Stores /\ NextEvent
  BY ReaderApart DEF setShot, At, CallsFit, Held
<1>2. PICK ids \in {shots \union {call[c].id}} :
        LET kept == ids \intersect shotIdsToKeep(cache.items, ids) IN
          /\ shots' = kept
          /\ cache' = [cache EXCEPT !.items = Advertise(@, call[c].id, kept)]
          /\ persistShots(kept)
          /\ Go(c, IF Fits(saved.items, kept) THEN "items" ELSE "retry")
  BY DEF setShot
<1>3. UNCHANGED <<loading, saved, since, made, seen, gone>>
  BY DEF setShot
<1> DEFINE kept == ids \intersect shotIdsToKeep(cache.items, ids)
<1>4. /\ cache' = [cache EXCEPT !.items = Advertise(@, call[c].id, kept)]
      /\ shots' = kept /\ persistShots(kept)
      /\ Go(c, "items") \/ Go(c, "retry")
  BY <1>2
<1>5. call[c].id \in Nat
  BY ReaderApart DEF Held, CallStates
<1>6. kept \in SUBSET Nat
  BY <1>5 DEF Held
<1> HIDE DEF kept
<1>7. /\ cache' \in Stores /\ cache' # None
      /\ Same(cache', cache)
  BY <1>1, <1>4, AdvertiseSame, NoneAssumption
<1>8. savedShots' \in SUBSET Nat /\ ("items" \notin unsaved' => "items" \notin unsaved)
  BY <1>4, <1>6 DEF persistShots, Held
<1>9. /\ call' \in [Users -> CallStates]
      /\ CallsFit'
      /\ call'[Reader] = call[Reader]
  BY <1>1, <1>3, <1>4, <1>7, SaverWaits
<1>10. Held'
  BY <1>3, <1>4, <1>6, <1>7, <1>8, <1>9 DEF Held
<1>11. Sound(cache', made, gone, since, seen)
  BY <1>1, <1>7, SameSound DEF StoresFit
<1>12. "items" \notin unsaved' => Same(saved, cache')
  <2> SUFFICES ASSUME "items" \notin unsaved' PROVE Same(saved, cache')
    OBVIOUS
  <2>1. Same(saved, cache) /\ Same(cache, cache')
    BY <1>1, <1>7, <1>8 DEF StoresFit, Same
  <2>. QED
    BY <2>1, SameTransitive
<1>13. StoresFit'
  BY <1>1, <1>3, <1>7, <1>11, <1>12 DEF StoresFit
<1>14. CursorFits'
  BY <1>1, <1>9, NoCursor DEF CursorFits, At
<1>. QED
  BY <1>9, <1>10, <1>13, <1>14

LEMMA RetryShotsFits == ASSUME Fits4, NEW c \in Calls, RetryShots(c) PROVE Fits4'
<1> USE DEF Fits4
<1>1. cache # None
  BY ReaderApart DEF RetryShots, At, CallsFit
<1>2. /\ UNCHANGED <<cache, loading, saved, since, made, seen, gone>>
      /\ Ends(c) \/ Go(c, "items")
  BY DEF RetryShots
<1>3. PICK kept \in SUBSET shots : shots' = kept /\ persistShots(kept)
  BY DEF RetryShots
<1>4. /\ shots' \in SUBSET Nat /\ savedShots' \in SUBSET Nat
      /\ "items" \notin unsaved' => "items" \notin unsaved
  BY <1>3 DEF persistShots, Held
<1>5. /\ call' \in [Users -> CallStates]
      /\ CallsFit'
      /\ call'[Reader] = call[Reader]
  BY <1>1, <1>2, SaverWaits
<1>6. Held' /\ StoresFit' /\ CursorFits'
  BY <1>2, <1>4, <1>5, CursorWaits DEF Held, StoresFit
<1>. QED
  BY <1>5, <1>6

LEMMA SaveItemsFits == ASSUME Fits4, NEW c \in Calls, SaveItems(c) PROVE Fits4'
<1> USE DEF Fits4
<1>1. cache # None /\ cache \in Stores
  BY ReaderApart DEF SaveItems, At, CallsFit, Held
<1>2. /\ UNCHANGED <<memory, savedShots, since, made, seen, gone>>
      /\ persistItems(cache) /\ Ends(c)
  BY DEF SaveItems
<1>3. saved' \in Stores /\ ("items" \notin unsaved' => Same(saved', cache))
  BY <1>1, <1>2, SameReflexive DEF persistItems, Held
<1>4. /\ call' \in [Users -> CallStates]
      /\ CallsFit'
      /\ call'[Reader] = call[Reader]
  BY <1>1, <1>2, SaverWaits DEF memory
<1>5. Held' /\ StoresFit' /\ CursorFits'
  BY <1>1, <1>2, <1>3, <1>4, CursorWaits DEF Held, StoresFit, memory
<1>. QED
  BY <1>4, <1>5

LEMMA SaveShotsFits == ASSUME Fits4, NEW c \in Calls, SaveShots(c) PROVE Fits4'
<1> USE DEF Fits4
<1>1. cache # None
  BY ReaderApart DEF SaveShots, At, CallsFit
<1>2. /\ UNCHANGED <<memory, saved, since, made, seen, gone>>
      /\ persistShots(shots)
      /\ Ends(c) \/ Go(c, "retry")
  BY DEF SaveShots
<1>3. savedShots' \in SUBSET Nat /\ ("items" \notin unsaved' => "items" \notin unsaved)
  BY <1>2 DEF persistShots, Held
<1>4. /\ call' \in [Users -> CallStates]
      /\ CallsFit'
      /\ call'[Reader] = call[Reader]
  BY <1>1, <1>2, SaverWaits DEF memory
<1>5. Held' /\ StoresFit' /\ CursorFits'
  BY <1>1, <1>2, <1>3, <1>4, CursorWaits DEF Held, StoresFit, memory
<1>. QED
  BY <1>4, <1>5

LEMMA StartFits ==
    ASSUME Fits4, NEW c \in Users, NEW op \in {"add", "patch", "remove", "list"}, Start(c, op)
    PROVE  Fits4'
<1> USE DEF Fits4
<1>1. UNCHANGED <<cache, shots, storage, since, ghosts>> /\ Resumed = {} /\ NextEvent
  BY DEF Start, NextEvent
<1>2. CASE cache # None
  <2>1. /\ call' = [call EXCEPT ![c] = [Idle EXCEPT !.pc = "loaded", !.op = op]]
        /\ loading' = loading
    BY <1>2 DEF Start
  <2>2. call' \in [Users -> CallStates] /\ call'[c].pc = "loaded"
    BY <2>1 DEF Held, Idle, CallStates
  <2>3. \A d \in Users \ {c} : call'[d] = call[d]
    BY <2>1 DEF Held
  <2>4. Resumed' \subseteq {c}
    BY <1>1, <2>3 DEF Resumed
  <2>5. CallsFit'
    BY <1>1, <1>2, <2>1, <2>2, <2>3, <2>4 DEF CallsFit, At
  <2>6. CursorFits'
    BY <1>1, <2>2, <2>4, ReaderApart DEF CursorFits, At, Resumed
  <2>. QED
    BY <1>1, <2>1, <2>2, <2>5, <2>6 DEF Held, StoresFit, storage, ghosts
<1>3. CASE cache = None
  <2>1. /\ call' = [call EXCEPT ![c] = [Idle EXCEPT !.pc = "loading", !.op = op, !.cold = TRUE]]
        /\ loading' = IF loading # None THEN loading ELSE [notes |-> saved, shots |-> savedShots]
    BY <1>3 DEF Start
  <2>2. /\ call' \in [Users -> CallStates]
        /\ call'[c].pc = "loading" /\ call'[c].cold
    BY <2>1 DEF Held, Idle, CallStates
  <2>3. \A d \in Users \ {c} : call'[d] = call[d]
    BY <2>1 DEF Held
  <2>4. loading' \in Reads /\ loading' # None /\ loading'.notes = saved
    <3>1. [notes |-> saved, shots |-> savedShots] \in Reads
      BY DEF Held, Reads
    <3>. QED
      BY <2>1, <3>1, NoneAssumption DEF Held, StoresFit
  <2>5. Resumed' = {}
    BY <1>1, <2>2, <2>3 DEF Resumed
  <2>6. CallsFit'
    BY <1>1, <1>3, <2>2, <2>3, <2>4, <2>5 DEF CallsFit, At
  <2>7. CursorFits'
    BY <2>2, <2>5, ReaderApart DEF CursorFits, At, Resumed
  <2>8. StoresFit'
    BY <1>1, <1>3, <2>4 DEF StoresFit, storage, ghosts
  <2>. QED
    BY <1>1, <2>2, <2>4, <2>6, <2>7, <2>8 DEF Held, storage, ghosts
<1>. QED
  BY <1>2, <1>3

LEMMA LoadAnsweredFits ==
    ASSUME Fits4, disturbed \in BOOLEAN, NEW c \in Users, LoadAnswered(c), ~disturbed'
    PROVE  Fits4'
<1> USE DEF Fits4
<1>1. /\ Resumed = {} /\ At(c, "loading")
      /\ cache' = Loaded(loading.notes) /\ shots' = loading.shots
      /\ loading' = None
      /\ call' = [d \in Users |-> IF At(d, "loading") THEN [call[d] EXCEPT !.pc = "loaded"]
                                                     ELSE call[d]]
      /\ UNCHANGED <<storage, since, made, seen, gone, unsaved, misled>>
  BY DEF LoadAnswered, NextEvent, Join
<1>2. loading # None /\ cache = None /\ loading \in Reads /\ loading.notes = saved
  BY <1>1 DEF CallsFit, StoresFit, Held
<1>3. Sound(saved, made, gone, since, seen) /\ saved \in Stores
  BY <1>2 DEF StoresFit, Held
<1>4. cache' = saved /\ cache' # None
  BY <1>1, <1>2, <1>3, LoadedSame, NoneAssumption
<1>5. shots' \in SUBSET Nat
  BY <1>1, <1>2 DEF Reads
<1>6. \A d \in Users : [call[d] EXCEPT !.pc = "loaded"] \in CallStates
  BY DEF Held, CallStates
<1>7. call' \in [Users -> CallStates]
  BY <1>1, <1>6 DEF Held
<1>8. \A d \in Users : /\ call'[d].cold = call[d].cold
                       /\ call'[d].pc = IF At(d, "loading") THEN "loaded" ELSE call[d].pc
  BY <1>1 DEF Held, CallStates
<1>9. \A d \in Resumed' : At(d, "loading")
  BY <1>1, <1>8 DEF Resumed, At
<1>10. CallsFit'
  BY <1>4, <1>8, <1>9 DEF CallsFit, At, Resumed
<1>11. CursorFits'
  BY <1>1, <1>8, ReaderApart DEF CursorFits, At, Resumed
<1>12. StoresFit'
  BY <1>1, <1>3, <1>4, SameReflexive DEF StoresFit, storage
<1>13. Held'
  BY <1>1, <1>3, <1>4, <1>5, <1>7 DEF Held, storage
<1>. QED
  BY <1>10, <1>11, <1>12, <1>13

LEMMA ListNewFits == ASSUME Fits4, ListNew PROVE Fits4'
<1> USE DEF Fits4
<1>1. cache # None /\ cache \in Stores
  BY ReaderApart DEF ListNew, At, CallsFit, Held
<1>2. UNCHANGED <<memory, storage, since, ghosts>>
  BY DEF ListNew
<1> DEFINE f == [ids |-> {}, status |-> "open", since |-> since, limit |-> 0]
           found == filterAnnotations(cache.items, f)
<1>3. \/ call' = [call EXCEPT ![Reader].pc = "cursor", ![Reader].found = found,
                              ![Reader].id = cache.seq]
      \/ call' = [call EXCEPT ![Reader].pc = "sleep", ![Reader].cold = FALSE]
  BY DEF ListNew
<1>4. found \in SUBSET Notes /\ cache.seq \in Nat
  BY <1>1, FilterSubset DEF Stores
<1>5. \A it \in cache.items : it.text \in seen \union Texts(found)
  <2> SUFFICES ASSUME NEW it \in cache.items, it.text \notin seen PROVE it \in found
    BY DEF Texts
  <2>1. it \in Notes
    BY <1>1 DEF Stores
  <2>2. it.status = "open" /\ it.seq > since
    BY <1>1, <2>1 DEF StoresFit, Sound, Notes, Held
  <2>. QED
    BY <2>2 DEF filterAnnotations
<1> HIDE DEF found
<1>6. call[Reader] \in CallStates /\ Reader \in Resumed /\ call[Reader].pc = "loaded"
  BY ReaderApart DEF Held, ListNew, At, Resumed
<1>7. CASE call' = [call EXCEPT ![Reader].pc = "cursor", ![Reader].found = found,
                                ![Reader].id = cache.seq]
  <2> DEFINE k == [call[Reader] EXCEPT !.pc = "cursor", !.found = found, !.id = cache.seq]
  <2>1. /\ k \in CallStates /\ k.pc = "cursor" /\ k.found = found /\ k.id = cache.seq
        /\ k.cold = call[Reader].cold
    BY <1>4, <1>6 DEF CallStates
  <2>2. call' = [call EXCEPT ![Reader] = k]
    BY <1>7
  <2> HIDE DEF k
  <2>3. call' \in [Users -> CallStates] /\ call'[Reader] = k /\ \A d \in Users \ {Reader} : call'[d] = call[d]
    BY <2>1, <2>2, ReaderApart DEF Held
  <2>4. Resumed' \subseteq Resumed
    BY <1>6, <2>3 DEF Resumed
  <2>5. CallsFit'
    <3>1. \A d \in Users : At(d, "loading")' => loading' # None /\ call'[d].cold
      BY <1>1, <1>2, <2>1, <2>3 DEF CallsFit, At, memory
    <3>2. cache' # None
      BY <1>1, <1>2 DEF memory
    <3>3. ASSUME NEW d \in Resumed', NEW e \in Resumed', d # e PROVE call'[d].cold
      <4>1. call[d].cold /\ d \in Users
        BY <2>4, <3>3 DEF CallsFit, Resumed
      <4>2. CASE d = Reader
        BY <2>1, <2>3, <4>1, <4>2
      <4>3. CASE d # Reader
        BY <2>3, <4>1, <4>3
      <4>. QED
        BY <4>2, <4>3
    <3>. QED
      BY <3>1, <3>2, <3>3 DEF CallsFit
  <2>6. CursorFits'
    BY <1>2, <1>4, <1>5, <2>1, <2>3 DEF CursorFits, At, memory, ghosts
  <2>. QED
    BY <1>2, <2>3, <2>5, <2>6 DEF Held, StoresFit, memory, storage, ghosts
<1>8. CASE call' = [call EXCEPT ![Reader].pc = "sleep", ![Reader].cold = FALSE]
  <2> DEFINE k == [call[Reader] EXCEPT !.pc = "sleep", !.cold = FALSE]
  <2>1. k \in CallStates /\ k.pc = "sleep"
    BY <1>6 DEF CallStates
  <2>2. call' = [call EXCEPT ![Reader] = k]
    BY <1>8
  <2> HIDE DEF k
  <2>3. call' \in [Users -> CallStates] /\ call'[Reader] = k /\ \A d \in Users \ {Reader} : call'[d] = call[d]
    BY <2>1, <2>2, ReaderApart DEF Held
  <2>4. \A d \in Resumed' : d \in Resumed /\ call'[d] = call[d]
    BY <2>1, <2>3 DEF Resumed
  <2>5. CallsFit'
    BY <1>1, <1>2, <2>1, <2>3, <2>4 DEF CallsFit, At, memory
  <2>6. CursorFits'
    BY <2>1, <2>3 DEF CursorFits, At
  <2>. QED
    BY <1>2, <2>3, <2>5, <2>6 DEF Held, StoresFit, memory, storage, ghosts
<1>. QED
  BY <1>3, <1>7, <1>8

LEMMA PollAgainFits == ASSUME Fits4, PollAgain PROVE Fits4'
<1> USE DEF Fits4
<1>1. UNCHANGED <<memory, storage, since, ghosts>> /\ Resumed = {}
  BY DEF PollAgain, NextEvent
<1>2. call' = [call EXCEPT ![Reader].pc = "loaded"] /\ cache # None
  BY ReaderApart DEF PollAgain, Go, At, CallsFit
<1>3. [call[Reader] EXCEPT !.pc = "loaded"] \in CallStates
  BY ReaderApart DEF Held, CallStates
<1>4. /\ call' \in [Users -> CallStates] /\ call'[Reader].pc = "loaded"
      /\ \A d \in Users \ {Reader} : call'[d] = call[d]
  BY <1>2, <1>3, ReaderApart DEF Held
<1>5. Resumed' \subseteq {Reader}
  BY <1>1, <1>4 DEF Resumed
<1>6. CallsFit'
  BY <1>1, <1>2, <1>4, <1>5 DEF CallsFit, At, memory
<1>7. CursorFits'
  BY <1>4 DEF CursorFits, At
<1>. QED
  BY <1>1, <1>4, <1>6, <1>7 DEF Held, StoresFit, memory, storage, ghosts

LEMMA ReadCursorFits ==
    ASSUME Fits4, disturbed \in BOOLEAN, ReadCursor, ~disturbed' PROVE Fits4'
<1> USE DEF Fits4
<1>1. /\ At(Reader, "cursor") /\ since' = cache.seq
      /\ seen' = seen \union Texts(call[Reader].found)
      /\ call' = [call EXCEPT ![Reader] = Idle]
      /\ UNCHANGED <<memory, storage, made, gone, unsaved, misled>>
  BY DEF ReadCursor, Ends
<1>2. cache # None /\ cache \in Stores /\ cache.seq \in Nat
  BY <1>1, ReaderApart DEF At, CallsFit, Held, Stores
<1>3. call[Reader].id = cache.seq
  BY <1>1 DEF ReadCursor, CursorFits
<1>4. Sound(cache, made, gone, since, seen)
  BY <1>2 DEF StoresFit
<1>5. \A it \in cache.items : it.text \in seen \union Texts(call[Reader].found)
  BY <1>1, <1>3, <1>4 DEF CursorFits, Sound
<1>6. Sound(cache, made, gone, since', seen')
  BY <1>1, <1>2, <1>4, <1>5, ReadSound
<1>7. /\ call' \in [Users -> CallStates] /\ call'[Reader].pc = "idle"
      /\ \A d \in Users \ {Reader} : call'[d] = call[d]
  BY <1>1, IdleCall, ReaderApart DEF Held
<1>8. \A d \in Resumed' : d \in Resumed /\ call'[d] = call[d]
  BY <1>7 DEF Resumed
<1>9. CallsFit'
  BY <1>1, <1>7, <1>8 DEF CallsFit, At, memory
<1>10. CursorFits'
  BY <1>7 DEF CursorFits, At
<1>11. StoresFit'
  BY <1>1, <1>2, <1>6 DEF StoresFit, memory, storage
<1>. QED
  BY <1>1, <1>2, <1>7, <1>9, <1>10, <1>11 DEF Held, memory, storage

\* A worker that dies leaves what it saved.
LEMMA WorkerDiesFits ==
    ASSUME Fits4, disturbed \in BOOLEAN, WorkerDies, ~disturbed' PROVE Fits4'
<1> USE DEF Fits4
<1>1. /\ cache' = None /\ shots' = {} /\ loading' = None
      /\ call' = [c \in Users |-> Idle]
      /\ unsaved = {}
      /\ UNCHANGED <<storage, since, made, seen, gone>>
  BY DEF WorkerDies
<1>2. Sound(saved, made, gone, since, seen)
  <2>1. CASE cache = None
    BY <2>1 DEF StoresFit
  <2>2. CASE cache # None
    BY <1>1, <2>2, SameSound DEF StoresFit, Held
  <2>. QED
    BY <2>1, <2>2
<1>3. call' \in [Users -> CallStates] /\ \A c \in Users : call'[c].pc = "idle"
  BY <1>1, IdleCall
<1>4. CallsFit' /\ CursorFits'
  BY <1>3, ReaderApart DEF CallsFit, CursorFits, At, Resumed
<1>5. StoresFit'
  BY <1>1, <1>2 DEF StoresFit, storage
<1>. QED
  BY <1>1, <1>3, <1>4, <1>5 DEF Held, storage

LEMMA NextInv == ASSUME IInv, [Next]_vars PROVE IInv'
<1>1. CASE UNCHANGED vars
  BY <1>1 DEF vars, memory, storage, ghosts, IInv, Fits4, Held, StoresFit, CallsFit, CursorFits, At, Resumed
<1>2. CASE Next
  <2>1. disturbed' \in BOOLEAN /\ (disturbed => disturbed')
    BY <1>2, DisturbedStays
  <2> SUFFICES ASSUME ~disturbed' PROVE Fits4'
    BY <2>1 DEF IInv
  <2>2. Fits4 /\ disturbed \in BOOLEAN
    BY <2>1 DEF IInv
  <2>3. ASSUME NEW c \in Calls,
               \/ StartAdd(c) \/ StartEdit(c) \/ add(c) \/ NoCapture(c) \/ setShot(c)
               \/ RetryShots(c) \/ SaveItems(c) \/ patch(c) \/ remove(c) \/ SaveShots(c)
        PROVE  Fits4'
    <3>1. CASE StartAdd(c) \/ StartEdit(c)
      BY <2>2, <3>1, StartFits, ReaderApart DEF StartAdd, StartEdit
    <3>2. CASE add(c)
      BY <2>2, <3>2, AddFits
    <3>3. CASE NoCapture(c)
      BY <2>2, <3>3, NoCaptureFits
    <3>4. CASE setShot(c)
      BY <2>2, <3>4, SetShotFits
    <3>5. CASE RetryShots(c)
      BY <2>2, <3>5, RetryShotsFits
    <3>6. CASE SaveItems(c)
      BY <2>2, <3>6, SaveItemsFits
    <3>7. CASE patch(c)
      BY <2>2, <3>7, PatchFits
    <3>8. CASE remove(c)
      BY <2>2, <3>8, RemoveFits
    <3>9. CASE SaveShots(c)
      BY <2>2, <3>9, SaveShotsFits
    <3>. QED
      BY <2>3, <3>1, <3>2, <3>3, <3>4, <3>5, <3>6, <3>7, <3>8, <3>9
  <2>4. ASSUME NEW c \in Users, LoadAnswered(c) PROVE Fits4'
    BY <2>2, <2>4, LoadAnsweredFits
  <2>5. CASE StartList
    BY <2>2, <2>5, StartFits, ReaderApart DEF StartList
  <2>6. CASE ListNew
    BY <2>2, <2>6, ListNewFits
  <2>7. CASE PollAgain
    BY <2>2, <2>7, PollAgainFits
  <2>8. CASE ReadCursor
    BY <2>2, <2>8, ReadCursorFits
  <2>9. CASE WorkerDies
    BY <2>2, <2>9, WorkerDiesFits
  <2>. QED
    BY <1>2, <2>3, <2>4, <2>5, <2>6, <2>7, <2>8, <2>9 DEF Next
<1>. QED
  BY <1>1, <1>2

LEMMA AlwaysInv == Spec => []IInv
<1>. QED
  BY InitInv, NextInv, PTL DEF Spec

----------------------------------------------------------------------------
(* What it gives                                                           *)

\* No number is ever given to two submissions (store.js, add), through deletions,
\* the cap, refused saves and restarts of the worker.
THEOREM NoNumberTwice == Spec => []NumbersUnique
<1>1. IInv => NumbersUnique
  BY DEF IInv, Fits4, StoresFit, Unique, NumbersUnique
<1>. QED
  BY <1>1, AlwaysInv, PTL

\* No submission disappears but by a deletion or the cap (store.js, load and the
\* saves), however calls share a load and whenever the worker dies.
THEOREM NoNoteLost == Spec => []NothingLost
<1>1. IInv => NothingLost
  BY DEF IInv, Fits4, StoresFit, Sound, NothingLost, Known
<1>. QED
  BY <1>1, AlwaysInv, PTL

\* The cursor of a listing never passes a note that the reader was not told of
\* (annotate.js, listOp).
THEOREM CursorPassesNothing == Spec => []NoneSkipped
<1>1. IInv => NoneSkipped
  BY DEF IInv, Fits4, StoresFit, Sound, NoneSkipped, Known
<1>. QED
  BY <1>1, AlwaysInv, PTL
=============================================================================
