------------------------- MODULE AnnotationCapsProofs -------------------------
(***************************************************************************)
(* More theorems about the annotation store: its caps, the screenshots its *)
(* notes claim, and that the storage follows the memory.                   *)
(***************************************************************************)
EXTENDS AnnotationStoreProofs, WellFoundedInduction

----------------------------------------------------------------------------
(* Finite sets of notes                                                    *)

Distinct(items) == \A a, b \in items : a.seq = b.seq => a = b

\* A store that could be saved: its notes have numbers of their own, that were
\* given, and keep within the cap.
Within(notes) ==
    /\ IsFiniteSet(notes.items)
    /\ Cardinality(notes.items) <= MAX_ANNOTATIONS
    /\ Distinct(notes.items)
    /\ \A it \in notes.items : 1 <= it.seq /\ it.seq <= notes.seq

Few(ids) == IsFiniteSet(ids) /\ Cardinality(ids) <= MAX_SHOTS

LEMMA FiniteImage ==
    ASSUME NEW S, IsFiniteSet(S), NEW T, NEW f \in [S -> T], \A y \in T : \E x \in S : f[x] = y
    PROVE  IsFiniteSet(T) /\ Cardinality(T) <= Cardinality(S)
<1>1. f \in Surjection(S, T)
  BY DEF Surjection
<1>. QED
  BY <1>1, FS_Surjection

LEMMA LeastNumber ==
    ASSUME NEW S \in SUBSET Nat, S # {}
    PROVE  \E m \in S : \A n \in S : m <= n
<1>1. PICK m \in S : \A n \in S : <<n, m>> \notin OpToRel(<, Nat)
  BY NatLessThanWellFounded, WFMin
<1>2. \A n \in S : ~(n < m)
  BY <1>1 DEF OpToRel
<1>. QED
  BY <1>2

LEMMA FiniteNumbered ==
    ASSUME NEW items, IsFiniteSet(items)
    PROVE  IsFiniteSet(Numbered(items)) /\ Cardinality(Numbered(items)) <= Cardinality(items)
<1>1. [it \in items |-> it.seq] \in [items -> Numbered(items)]
  BY DEF Numbered
<1>2. \A n \in Numbered(items) : \E it \in items : [o \in items |-> o.seq][it] = n
  BY DEF Numbered
<1>. QED
  BY <1>1, <1>2, FiniteImage

\* The newest n are n at most, when no two have the same number.
LEMMA NewestFew ==
    ASSUME NEW items \in SUBSET Notes, IsFiniteSet(items), Distinct(items), NEW n \in Nat
    PROVE  IsFiniteSet(Newest(items, n)) /\ Cardinality(Newest(items, n)) <= n
<1> DEFINE new == Newest(items, n)
           above(it) == {o \in items : o.seq > it.seq}
<1>1. new \subseteq items /\ IsFiniteSet(new)
  BY NewestSubset, FS_Subset
<1>2. CASE new = {}
  BY <1>2, FS_EmptySet
<1>3. CASE new # {}
  <2>1. Numbered(new) \in SUBSET Nat /\ Numbered(new) # {}
    BY <1>1, <1>3 DEF Numbered, Notes
  <2>2. PICK m \in Numbered(new) : \A k \in Numbered(new) : m <= k
    BY <2>1, LeastNumber
  <2>3. PICK least \in new : m = least.seq
    BY DEF Numbered
  <2>4. \A o \in new : least.seq <= o.seq
    BY <2>2, <2>3 DEF Numbered
  <2>5. Cardinality(above(least)) < n
    BY DEF Newest
  <2>6. above(least) \subseteq items
    OBVIOUS
  <2>7. IsFiniteSet(above(least)) /\ Cardinality(above(least)) \in Nat
    BY <2>6, FS_Subset, FS_CardinalityType
  <2>8. new \subseteq above(least) \union {least}
    <3> SUFFICES ASSUME NEW o \in new, o # least PROVE o \in above(least)
      OBVIOUS
    <3>1. o \in Notes /\ least \in Notes /\ o \in items /\ least \in items
      BY <1>1
    <3>2. o.seq # least.seq
      BY <3>1 DEF Distinct
    <3>3. o.seq > least.seq
      BY <2>4, <3>1, <3>2 DEF Notes
    <3>. QED
      BY <3>1, <3>3
  <2>9. /\ IsFiniteSet(above(least) \union {least})
        /\ Cardinality(above(least) \union {least}) <= n
    <3> HIDE DEF above
    <3>1. /\ IsFiniteSet(above(least) \union {least})
          /\ Cardinality(above(least) \union {least})
               = IF least \in above(least) THEN Cardinality(above(least))
                                           ELSE Cardinality(above(least)) + 1
      BY <2>7, FS_AddElement
    <3>. QED
      BY <2>5, <2>7, <3>1
  <2> HIDE DEF new, above
  <2>10. /\ Cardinality(new) <= Cardinality(above(least) \union {least})
         /\ Cardinality(new) \in Nat
         /\ Cardinality(above(least) \union {least}) \in Nat
    BY <2>8, <2>9, <1>1, FS_Subset, FS_CardinalityType
  <2>. QED
    BY <1>1, <2>9, <2>10 DEF new
<1>. QED
  BY <1>2, <1>3

LEMMA FewSubset == ASSUME NEW a, NEW b, a \subseteq b, Few(b) PROVE Few(a)
<1>1. IsFiniteSet(a) /\ Cardinality(a) <= Cardinality(b)
  BY FS_Subset DEF Few
<1>2. Cardinality(a) \in Nat /\ Cardinality(b) \in Nat
  BY <1>1, FS_CardinalityType DEF Few
<1>. QED
  BY <1>1, <1>2, StoreAssumption DEF Few

\* Fewer notes of a store, or notes that only differ in what they claim and in
\* their status, keep within the cap.
LEMMA WithinImage ==
    ASSUME NEW a \in Stores, NEW b \in Stores, Within(b), b.seq <= a.seq,
           NEW f \in [b.items -> Notes], \A it \in b.items : f[it].seq = it.seq,
           NEW some \in SUBSET b.items, a.items = {f[it] : it \in some}
    PROVE  Within(a)
<1>1. IsFiniteSet(some) /\ Cardinality(some) <= Cardinality(b.items)
  BY FS_Subset DEF Within
<1>2. IsFiniteSet(a.items) /\ Cardinality(a.items) <= Cardinality(some)
  <2>1. [it \in some |-> f[it]] \in [some -> a.items]
    OBVIOUS
  <2>2. \A o \in a.items : \E it \in some : [x \in some |-> f[x]][it] = o
    OBVIOUS
  <2>. QED
    BY <1>1, <2>1, <2>2, FiniteImage
<1>3. Cardinality(a.items) \in Nat /\ Cardinality(some) \in Nat /\ Cardinality(b.items) \in Nat
  BY <1>1, <1>2, FS_CardinalityType DEF Within
<1>4. Cardinality(a.items) <= MAX_ANNOTATIONS
  BY <1>1, <1>2, <1>3, StoreAssumption DEF Within
<1>5. Distinct(a.items)
  BY DEF Distinct, Within
<1>6. \A o \in a.items : 1 <= o.seq /\ o.seq <= a.seq
  <2> SUFFICES ASSUME NEW o \in a.items PROVE 1 <= o.seq /\ o.seq <= a.seq
    OBVIOUS
  <2>1. PICK it \in b.items : o = f[it] /\ o.seq = it.seq
    OBVIOUS
  <2>2. 1 <= it.seq /\ it.seq <= b.seq /\ it \in Notes /\ it.seq \in Nat
    BY DEF Within, Stores, Notes
  <2>3. a.seq \in Nat /\ b.seq \in Nat
    BY DEF Stores
  <2>. QED
    BY <2>1, <2>2, <2>3
<1>. QED
  BY <1>2, <1>4, <1>5, <1>6 DEF Within

----------------------------------------------------------------------------
(* The inductive invariants                                                *)

\* A call that waits for a load has one to wait for; one that goes on has a store.
CallsLoaded ==
    /\ \A c \in Users : At(c, "loading") => loading # None
    /\ \A c \in Users : call[c].pc \notin {"idle", "loading"} => cache # None

StoresWithin ==
    /\ cache # None => Within(cache)
    /\ loading # None => Within(loading.notes) /\ Few(loading.shots)
    /\ Within(saved)
    /\ Few(shots) /\ Few(savedShots)

CapInv == Typed /\ CallsLoaded /\ StoresWithin

Claims(items, ids) == \A it \in items : it.shot => it.seq \in ids

\* The calls that will save the notes, and those that will save the screenshots.
SavesItems(c) == At(c, "items") \/ (At(c, "retry") /\ call[c].op = "add")

\* What is read is what is saved; a store differs from its copy only while a call
\* is about to save it, or after a save was refused; and the screenshots saved are
\* never too few.
CopiesFit ==
    /\ loading # None => cache = None /\ loading = [notes |-> saved, shots |-> savedShots]
    /\ \A c \in Calls : At(c, "capture") => call[c].op = "add"
    /\ cache # None /\ "items" \notin unsaved /\ (\A c \in Calls : ~SavesItems(c)) => saved = cache
    /\ cache # None /\ "shots" \notin unsaved => shots \subseteq savedShots
    /\ cache # None /\ "shots" \notin unsaved /\ (\A c \in Calls : ~At(c, "shots")) => savedShots = shots

\* The notes in memory, or those to be read next, claim the screenshots there are.
ClaimsFit ==
    \/ misled
    \/ cache # None /\ Claims(cache.items, shots)
    \/ cache = None /\ Claims(saved.items, savedShots)

ShotInv == disturbed \/ (CopiesFit /\ ClaimsFit)

----------------------------------------------------------------------------
(* What the rules keep                                                     *)

LEMMA NothingWithin ==
    [seq |-> 0, items |-> {}] \in Stores /\ Within([seq |-> 0, items |-> {}])
BY FS_EmptySet, StoreAssumption DEF Within, Distinct, Stores

LEMMA NoShotsFew == Few({})
BY FS_EmptySet, StoreAssumption DEF Few

LEMMA LoadedWithin ==
    ASSUME NEW notes \in Stores, Within(notes) PROVE Loaded(notes) = notes
<1>1. CASE notes.seq = 0
  <2>1. notes.items = {}
    BY <1>1 DEF Within, Stores, Notes
  <2>. QED
    BY <1>1, <2>1, FS_EmptySet DEF Loaded, Stores
<1>2. CASE notes.seq # 0
  BY <1>2 DEF Loaded, Stores
<1>. QED
  BY <1>1, <1>2

\* The cap is kept, for the new note has a number above all others.
LEMMA AddWithin ==
    ASSUME NEW notes \in Stores, Within(notes), NEW n \in Nat,
           NEW record, record = [seq |-> notes.seq + 1, text |-> n,
                                 status |-> "open", shot |-> FALSE],
           NEW items, items = pruneItems(notes.items \union {record})
    PROVE  /\ [seq |-> record.seq, items |-> items] \in Stores
           /\ Within([seq |-> record.seq, items |-> items])
<1> DEFINE all == notes.items \union {record}
           new == [seq |-> record.seq, items |-> items]
<1>1. /\ record \in Notes /\ record.seq = notes.seq + 1 /\ notes.seq \in Nat
      /\ notes.items \subseteq Notes
  BY DEF Stores, Notes
<1>2. all \in SUBSET Notes
  BY <1>1
<1>3. \A it \in all : 1 <= it.seq /\ it.seq <= record.seq
  <2> SUFFICES ASSUME NEW it \in all PROVE 1 <= it.seq /\ it.seq <= record.seq
    OBVIOUS
  <2>1. CASE it \in notes.items
    BY <1>1, <2>1 DEF Within, Notes
  <2>2. CASE it = record
    BY <1>1, <2>2
  <2>. QED
    BY <2>1, <2>2
<1>4. Distinct(all)
  <2>1. \A it \in notes.items : it.seq # record.seq
    BY <1>1 DEF Within, Notes
  <2>. QED
    BY <2>1 DEF Distinct, Within
<1>5. IsFiniteSet(all)
  BY FS_AddElement DEF Within
<1>6. items \subseteq all /\ items = Newest(all, MAX_ANNOTATIONS)
  BY NewestSubset DEF pruneItems
<1> HIDE DEF all
<1>7. IsFiniteSet(items) /\ Cardinality(items) <= MAX_ANNOTATIONS
  BY <1>2, <1>4, <1>5, <1>6, NewestFew, StoreAssumption
<1>8. new \in Stores
  <2>1. record.seq \in Nat
    BY <1>1
  <2>2. items \in SUBSET Notes
    BY <1>2, <1>6
  <2>. QED
    BY <2>1, <2>2 DEF Stores
<1>9. Distinct(items)
  BY <1>4, <1>6 DEF Distinct
<1>. QED
  BY <1>3, <1>6, <1>7, <1>8, <1>9 DEF Within

LEMMA AdvertiseWithin ==
    ASSUME NEW notes \in Stores, Within(notes), NEW id, NEW ids
    PROVE  /\ [notes EXCEPT !.items = Advertise(@, id, ids)] \in Stores
           /\ Within([notes EXCEPT !.items = Advertise(@, id, ids)])
           /\ Claims([notes EXCEPT !.items = Advertise(@, id, ids)].items, ids)
<1> DEFINE new == [notes EXCEPT !.items = Advertise(@, id, ids)]
           f == [it \in notes.items |-> [it EXCEPT !.shot = it.seq \in ids /\ (@ \/ it.seq = id)]]
<1>1. new \in Stores
  BY AdvertiseSame
<1>2. new.seq = notes.seq /\ new.items = Advertise(notes.items, id, ids)
  BY DEF Stores
<1>3. \A it \in notes.items : f[it] \in Notes /\ f[it].seq = it.seq /\ (f[it].shot => it.seq \in ids)
  BY DEF Stores, Notes
<1>4. f \in [notes.items -> Notes] /\ \A it \in notes.items : f[it].seq = it.seq
  BY <1>3
<1>5. new.items = {f[it] : it \in notes.items}
  BY <1>2 DEF Advertise
<1>6. new.seq \in Nat /\ notes.seq <= new.seq
  BY <1>2 DEF Stores
<1> HIDE DEF f, new
<1>7. Within(new)
  BY <1>1, <1>4, <1>5, <1>6, WithinImage
<1>8. Claims(new.items, ids)
  BY <1>3, <1>5 DEF Claims
<1>. QED
  BY <1>1, <1>7, <1>8 DEF new

LEMMA PatchWithin ==
    ASSUME NEW notes \in Stores, Within(notes), NEW targets, targets \subseteq notes.items,
           NEW status \in Changes
    PROVE  /\ PatchedStore(notes, targets, status) \in Stores
           /\ Within(PatchedStore(notes, targets, status))
           /\ targets = {} => PatchedStore(notes, targets, status) = notes
           /\ \A ids : Claims(notes.items, ids)
                         => Claims(PatchedStore(notes, targets, status).items, ids)
<1> DEFINE new == PatchedStore(notes, targets, status)
           f == [it \in notes.items |-> IF it \in targets /\ status # "keep"
                                          THEN [it EXCEPT !.status = status] ELSE it]
<1>1. notes.seq \in Nat /\ notes.items \subseteq Notes
  BY DEF Stores
<1>2. /\ new.seq = notes.seq /\ new.items = (notes.items \ targets) \union Patched(targets, status)
      /\ new = [seq |-> notes.seq, items |-> new.items]
  BY DEF PatchedStore, Stores
<1>3. \A it \in notes.items : f[it] \in Notes /\ f[it].seq = it.seq /\ f[it].shot = it.shot
  BY <1>1 DEF Notes, Changes
<1>4. f \in [notes.items -> Notes] /\ \A it \in notes.items : f[it].seq = it.seq
  BY <1>3
<1>5. new.items = {f[it] : it \in notes.items}
  <2>1. CASE status = "keep"
    BY <1>2, <2>1 DEF Patched
  <2>2. CASE status # "keep"
    <3>1. Patched(targets, status) = {f[it] : it \in targets}
      BY <2>2 DEF Patched
    <3>2. notes.items \ targets = {f[it] : it \in notes.items \ targets}
      OBVIOUS
    <3> HIDE DEF f
    <3>. QED
      BY <1>2, <3>1, <3>2
  <2>. QED
    BY <2>1, <2>2
<1>6. new.items \subseteq Notes
  BY <1>3, <1>5
<1> HIDE DEF f, new
<1>7. new \in Stores
  BY <1>1, <1>2, <1>6 DEF Stores
<1>8. Within(new)
  BY <1>1, <1>2, <1>4, <1>5, <1>7, WithinImage
<1>9. targets = {} => new = notes
  <2>1. targets = {} => Patched(targets, status) = {}
    BY DEF Patched
  <2>. QED
    BY <1>2, <2>1 DEF Stores
<1>10. \A ids : Claims(notes.items, ids) => Claims(new.items, ids)
  BY <1>3, <1>5 DEF Claims
<1>. QED
  BY <1>7, <1>8, <1>9, <1>10 DEF new

RemovedStore(notes, targets) == [notes EXCEPT !.items = @ \ targets]

LEMMA RemoveWithin ==
    ASSUME NEW notes \in Stores, Within(notes), NEW targets, targets \subseteq notes.items
    PROVE  /\ RemovedStore(notes, targets) \in Stores
           /\ Within(RemovedStore(notes, targets))
           /\ targets = {} => RemovedStore(notes, targets) = notes
           /\ \A ids : Claims(notes.items, ids)
                         => Claims(RemovedStore(notes, targets).items, ids \ Numbered(targets))
<1> DEFINE new == RemovedStore(notes, targets)
<1>1. /\ new.seq = notes.seq /\ new.items = notes.items \ targets
      /\ new = [seq |-> notes.seq, items |-> new.items] /\ notes.seq \in Nat
      /\ notes.items \subseteq Notes
  BY DEF RemovedStore, Stores
<1> HIDE DEF new
<1>2. new \in Stores
  BY <1>1 DEF Stores
<1>3. Within(new)
  <2> DEFINE f == [it \in notes.items |-> it]
             some == notes.items \ targets
  <2>1. f \in [notes.items -> Notes] /\ \A it \in notes.items : f[it].seq = it.seq
    BY <1>1
  <2>2. some \in SUBSET notes.items /\ new.items = {f[it] : it \in some}
    BY <1>1
  <2>3. notes.seq <= new.seq
    BY <1>1
  <2> HIDE DEF f, some
  <2>. QED
    BY <1>2, <2>1, <2>2, <2>3, WithinImage
<1>4. targets = {} => new = notes
  BY <1>1 DEF Stores
<1>5. ASSUME NEW ids, Claims(notes.items, ids) PROVE Claims(new.items, ids \ Numbered(targets))
  BY <1>1, <1>5 DEF Claims, Numbered, Within, Distinct
<1>. QED
  BY <1>2, <1>3, <1>4, <1>5 DEF new

\* What a screenshot is kept for are the newest notes, as many as screenshots may be.
LEMMA KeptFew ==
    ASSUME NEW items \in SUBSET Notes, IsFiniteSet(items), Distinct(items), NEW ids
    PROVE  Few(ids \intersect shotIdsToKeep(items, ids))
<1> DEFINE some == {it \in items : it.seq \in ids}
           new == Newest(some, MAX_SHOTS)
<1>1. some \in SUBSET items
  OBVIOUS
<1>2. some \in SUBSET Notes /\ IsFiniteSet(some) /\ Distinct(some)
  BY <1>1, FS_Subset DEF Distinct
<1> HIDE DEF some
<1>3. IsFiniteSet(new) /\ Cardinality(new) <= MAX_SHOTS /\ Cardinality(new) \in Nat
  BY <1>2, NewestFew, StoreAssumption, FS_CardinalityType
<1>4. shotIdsToKeep(items, ids) = Numbered(new)
  BY DEF shotIdsToKeep, some
<1> HIDE DEF new
<1>5. IsFiniteSet(Numbered(new)) /\ Cardinality(Numbered(new)) <= Cardinality(new)
  BY <1>3, FiniteNumbered
<1>6. Cardinality(Numbered(new)) \in Nat
  BY <1>5, FS_CardinalityType
<1>7. Few(Numbered(new))
  BY <1>3, <1>5, <1>6, StoreAssumption DEF Few
<1>. QED
  BY <1>4, <1>7, FewSubset

----------------------------------------------------------------------------
(* Every step keeps the types and the caps                                 *)

LEMMA InitCaps == Init => CapInv
<1> SUFFICES ASSUME Init PROVE CapInv
  OBVIOUS
<1>1. Typed
  <2>1. call \in [Users -> CallStates] /\ saved \in Stores
    BY IdleCall DEF Init, Stores
  <2>2. made \in Seq(Nat)
    BY DEF Init
  <2>. QED
    BY <2>1, <2>2 DEF Init, Typed
<1>2. CallsLoaded
  BY DEF Init, CallsLoaded, At, Idle
<1>3. StoresWithin
  BY NothingWithin, NoShotsFew DEF Init, StoresWithin
<1>. QED
  BY <1>1, <1>2, <1>3 DEF CapInv

\* One call goes on, while no store is forgotten.
LEMMA CallMoves ==
    ASSUME call \in [Users -> CallStates], CallsLoaded, NEW c \in Users, NEW k \in CallStates,
           call' = [call EXCEPT ![c] = k],
           k.pc = "loading" => loading' # None,
           k.pc \notin {"idle", "loading"} => cache' # None,
           cache # None => cache' # None, loading # None => loading' # None
    PROVE  call' \in [Users -> CallStates] /\ CallsLoaded'
<1>1. call' \in [Users -> CallStates]
  OBVIOUS
<1>2. call'[c] = k /\ \A d \in Users \ {c} : call'[d] = call[d]
  OBVIOUS
<1>3. \A d \in Users : At(d, "loading")' => loading' # None
  BY <1>2 DEF CallsLoaded, At
<1>4. \A d \in Users : call'[d].pc \notin {"idle", "loading"} => cache' # None
  BY <1>2 DEF CallsLoaded
<1>. QED
  BY <1>1, <1>3, <1>4 DEF CallsLoaded

\* What each save leaves.
LEMMA ItemsSaved ==
    ASSUME saved \in Stores, Within(saved), unsaved \in SUBSET {"items", "shots"},
           NEW notes \in Stores, Within(notes), persistItems(notes)
    PROVE  /\ saved' \in Stores /\ Within(saved)' /\ unsaved' \in SUBSET {"items", "shots"}
           /\ "items" \notin unsaved' => saved' = notes
           /\ "shots" \in unsaved' <=> "shots" \in unsaved
BY DEF persistItems, Within

LEMMA ShotsSaved ==
    ASSUME savedShots \in SUBSET Nat, Few(savedShots), unsaved \in SUBSET {"items", "shots"},
           NEW ids \in SUBSET Nat, Few(ids), persistShots(ids)
    PROVE  /\ savedShots' \in SUBSET Nat /\ Few(savedShots)' /\ unsaved' \in SUBSET {"items", "shots"}
           /\ "shots" \notin unsaved' => savedShots' = ids
           /\ "items" \in unsaved' <=> "items" \in unsaved
<1>1. CASE Fits(saved.items, ids)
  BY <1>1 DEF persistShots, Few
<1>2. CASE ~Fits(saved.items, ids)
  <2>1. savedShots' = savedShots /\ unsaved' = unsaved \union {"shots"}
    BY <1>2 DEF persistShots
  <2>2. Few(savedShots)'
    BY <2>1 DEF Few
  <2>. QED
    BY <2>1, <2>2
<1>. QED
  BY <1>1, <1>2

LEMMA StartCaps ==
    ASSUME CapInv, NEW c \in Users, NEW op \in {"add", "patch", "remove", "list"}, Start(c, op)
    PROVE  CapInv'
<1> USE DEF CapInv
<1>1. UNCHANGED <<cache, shots, storage, since, ghosts>>
  BY DEF Start
<1>2. CASE cache # None
  <2> DEFINE k == [Idle EXCEPT !.pc = "loaded", !.op = op]
  <2>1. call' = [call EXCEPT ![c] = k] /\ loading' = loading
    BY <1>2 DEF Start
  <2>2. k \in CallStates /\ k.pc = "loaded"
    BY DEF Idle, CallStates
  <2> HIDE DEF k
  <2>3. call' \in [Users -> CallStates] /\ CallsLoaded'
    BY <1>1, <1>2, <2>1, <2>2, CallMoves DEF Typed
  <2>. QED
    BY <1>1, <2>1, <2>3 DEF Typed, StoresWithin, Within, Few, storage, ghosts
<1>3. CASE cache = None
  <2> DEFINE k == [Idle EXCEPT !.pc = "loading", !.op = op, !.cold = TRUE]
  <2>1. /\ call' = [call EXCEPT ![c] = k]
        /\ loading' = IF loading # None THEN loading ELSE [notes |-> saved, shots |-> savedShots]
    BY <1>3 DEF Start
  <2>2. k \in CallStates /\ k.pc = "loading"
    BY DEF Idle, CallStates
  <2> HIDE DEF k
  <2>3. [notes |-> saved, shots |-> savedShots] \in Reads
    BY DEF Typed, Reads
  <2>4. loading' \in Reads /\ loading' # None
    BY <2>1, <2>3, NoneAssumption DEF Typed
  <2>5. Within(loading'.notes) /\ Few(loading'.shots)
    BY <2>1 DEF StoresWithin
  <2>6. call' \in [Users -> CallStates] /\ CallsLoaded'
    BY <1>1, <1>3, <2>1, <2>2, <2>4, CallMoves DEF Typed
  <2>7. StoresWithin'
    BY <1>1, <1>3, <2>5 DEF StoresWithin, Within, Few, storage
  <2>. QED
    BY <1>1, <2>4, <2>6, <2>7 DEF Typed, storage, ghosts
<1>. QED
  BY <1>2, <1>3

\* A call with a store at hand.
LEMMA Stored ==
    ASSUME CapInv, NEW c \in Users, call[c].pc \notin {"idle", "loading"}
    PROVE  cache # None /\ cache \in Stores /\ Within(cache) /\ call[c] \in CallStates
BY DEF CapInv, CallsLoaded, StoresWithin, Typed

LEMMA AddCaps == ASSUME CapInv, NEW c \in Calls, add(c) PROVE CapInv'
<1> USE DEF CapInv
<1>1. c \in Users /\ call[c].pc \notin {"idle", "loading"}
  BY ReaderApart DEF add, At
<1>2. cache # None /\ cache \in Stores /\ Within(cache) /\ call[c] \in CallStates
  BY <1>1, Stored
<1>3. PICK record \in {[seq |-> cache.seq + 1, text |-> Len(made) + 1,
                       status |-> "open", shot |-> FALSE]} :
        LET items == pruneItems(cache.items \union {record}) IN
          /\ cache' = [seq |-> record.seq, items |-> items]
          /\ persistItems([seq |-> record.seq, items |-> items])
          /\ made' = Append(made, record.seq)
          /\ gone' = gone \union Texts((cache.items \union {record}) \ items)
          /\ call' = [call EXCEPT ![c].pc = "capture", ![c].id = record.seq, ![c].cold = FALSE]
  BY DEF add
<1> DEFINE items == pruneItems(cache.items \union {record})
           new == [seq |-> record.seq, items |-> items]
           k == [call[c] EXCEPT !.pc = "capture", !.id = record.seq, !.cold = FALSE]
<1>4. /\ record = [seq |-> cache.seq + 1, text |-> Len(made) + 1, status |-> "open", shot |-> FALSE]
      /\ cache' = new /\ persistItems(new)
      /\ made' = Append(made, record.seq)
      /\ gone' = gone \union Texts((cache.items \union {record}) \ items)
      /\ call' = [call EXCEPT ![c] = k]
      /\ UNCHANGED <<shots, loading, savedShots, since, seen, misled, disturbed>>
  BY <1>3 DEF add
<1>5. Len(made) + 1 \in Nat /\ cache.seq \in Nat /\ record.seq = cache.seq + 1 /\ record.seq \in Nat
  BY <1>2, <1>4, LenProperties DEF Typed, Stores
<1>6. new \in Stores /\ Within(new)
  BY <1>2, <1>4, <1>5, AddWithin
<1>7. k \in CallStates /\ k.pc = "capture"
  BY <1>2, <1>5 DEF CallStates
<1>8. record \in Notes /\ cache.items \subseteq Notes
  BY <1>2, <1>4, <1>5 DEF Notes, Stores
<1>9. Texts((cache.items \union {record}) \ items) \subseteq Nat
  BY <1>8 DEF Texts, Notes
<1> HIDE DEF items, new, k
<1>10. new # None
  BY <1>6, NoneAssumption
<1>11. call' \in [Users -> CallStates] /\ CallsLoaded'
  BY <1>1, <1>4, <1>7, <1>10, CallMoves DEF Typed
<1>12. saved' \in Stores /\ Within(saved)' /\ unsaved' \in SUBSET {"items", "shots"}
  BY <1>4, <1>6, ItemsSaved DEF Typed, StoresWithin
<1>13. made' \in Seq(Nat)
  BY <1>4, <1>5, AppendProperties DEF Typed
<1>14. gone' \in SUBSET Nat
  BY <1>4, <1>9 DEF Typed
<1>15. Typed'
  BY <1>4, <1>6, <1>11, <1>12, <1>13, <1>14 DEF Typed
<1>16. StoresWithin'
  BY <1>4, <1>6, <1>12 DEF StoresWithin, Within, Few
<1>. QED
  BY <1>11, <1>15, <1>16

LEMMA NoCaptureCaps == ASSUME CapInv, NEW c \in Calls, NoCapture(c) PROVE CapInv'
<1> USE DEF CapInv
<1>1. UNCHANGED <<memory, storage, since, ghosts>> /\ call' = [call EXCEPT ![c] = Idle]
  BY DEF NoCapture, Ends
<1>2. call' \in [Users -> CallStates] /\ CallsLoaded'
  BY <1>1, CallMoves, IdleCall, ReaderApart DEF Typed, memory
<1>. QED
  BY <1>1, <1>2 DEF Typed, StoresWithin, Within, Few, memory, storage, ghosts

LEMMA SetShotCaps == ASSUME CapInv, NEW c \in Calls, setShot(c) PROVE CapInv'
<1> USE DEF CapInv
<1>1. c \in Users /\ call[c].pc \notin {"idle", "loading"}
  BY ReaderApart DEF setShot, At
<1>2. cache # None /\ cache \in Stores /\ Within(cache) /\ call[c] \in CallStates
  BY <1>1, Stored
<1> DEFINE ids == shots \union {call[c].id}
           kept == ids \intersect shotIdsToKeep(cache.items, ids)
           new == [cache EXCEPT !.items = Advertise(@, call[c].id, kept)]
           k == [call[c] EXCEPT !.pc = IF Fits(saved.items, kept) THEN "items" ELSE "retry"]
<1>3. /\ shots' = kept /\ cache' = new /\ persistShots(kept)
      /\ call' = [call EXCEPT ![c] = k]
      /\ misled' = FALSE
      /\ UNCHANGED <<loading, saved, since, made, seen, gone, disturbed>>
  BY DEF setShot, Go
<1>4. new \in Stores /\ Within(new)
  BY <1>2, AdvertiseWithin
<1>5. cache.items \in SUBSET Notes /\ IsFiniteSet(cache.items) /\ Distinct(cache.items)
  BY <1>2 DEF Within, Stores
<1>6. Few(kept)
  BY <1>5, KeptFew
<1>7. kept \in SUBSET Nat
  BY <1>2 DEF Typed, CallStates
<1>8. k \in CallStates /\ k.pc \in {"items", "retry"}
  BY <1>2 DEF CallStates
<1> HIDE DEF kept, new, k
<1>9. new # None
  BY <1>4, NoneAssumption
<1>10. call' \in [Users -> CallStates] /\ CallsLoaded'
  BY <1>1, <1>3, <1>8, <1>9, CallMoves DEF Typed
<1>11. savedShots' \in SUBSET Nat /\ Few(savedShots)' /\ unsaved' \in SUBSET {"items", "shots"}
  BY <1>3, <1>6, <1>7, ShotsSaved DEF Typed, StoresWithin
<1>12. Typed'
  BY <1>3, <1>4, <1>7, <1>10, <1>11 DEF Typed
<1>13. StoresWithin'
  BY <1>3, <1>4, <1>6, <1>11 DEF StoresWithin, Within, Few
<1>. QED
  BY <1>10, <1>12, <1>13

LEMMA RetryShotsCaps == ASSUME CapInv, NEW c \in Calls, RetryShots(c) PROVE CapInv'
<1> USE DEF CapInv
<1>1. c \in Users /\ call[c].pc \notin {"idle", "loading"}
  BY ReaderApart DEF RetryShots, At
<1>2. cache # None /\ cache \in Stores /\ Within(cache) /\ call[c] \in CallStates
  BY <1>1, Stored
<1>3. PICK kept \in SUBSET shots : shots' = kept /\ persistShots(kept) /\ misled' = (misled \/ kept # shots)
  BY DEF RetryShots
<1>4. UNCHANGED <<cache, loading, saved, since, made, seen, gone, disturbed>>
  BY DEF RetryShots
<1>5. Few(kept) /\ kept \in SUBSET Nat
  BY FewSubset DEF StoresWithin, Typed
<1>6. savedShots' \in SUBSET Nat /\ Few(savedShots)' /\ unsaved' \in SUBSET {"items", "shots"}
  BY <1>3, <1>5, ShotsSaved DEF Typed, StoresWithin
<1>7. PICK k \in CallStates : call' = [call EXCEPT ![c] = k] /\ k.pc \in {"idle", "items"}
  <2>1. CASE call[c].op = "add"
    <3>1. call' = [call EXCEPT ![c] = [call[c] EXCEPT !.pc = "items"]]
      BY <2>1 DEF RetryShots, Go
    <3>2. [call[c] EXCEPT !.pc = "items"] \in CallStates /\ [call[c] EXCEPT !.pc = "items"].pc = "items"
      BY <1>2 DEF CallStates
    <3>. QED
      BY <3>1, <3>2
  <2>2. CASE call[c].op # "add"
    BY <2>2, IdleCall DEF RetryShots, Ends
  <2>. QED
    BY <2>1, <2>2
<1>8. call' \in [Users -> CallStates] /\ CallsLoaded'
  BY <1>1, <1>2, <1>4, <1>7, CallMoves DEF Typed
<1>9. Typed'
  BY <1>3, <1>4, <1>5, <1>6, <1>8 DEF Typed
<1>10. StoresWithin'
  BY <1>3, <1>4, <1>5, <1>6 DEF StoresWithin, Within, Few
<1>. QED
  BY <1>8, <1>9, <1>10

LEMMA SaveItemsCaps == ASSUME CapInv, NEW c \in Calls, SaveItems(c) PROVE CapInv'
<1> USE DEF CapInv
<1>1. c \in Users /\ call[c].pc \notin {"idle", "loading"}
  BY ReaderApart DEF SaveItems, At
<1>2. cache # None /\ cache \in Stores /\ Within(cache)
  BY <1>1, Stored
<1>3. /\ UNCHANGED <<memory, savedShots, since, made, seen, gone, misled, disturbed>>
      /\ persistItems(cache) /\ call' = [call EXCEPT ![c] = Idle]
  BY DEF SaveItems, Ends
<1>4. saved' \in Stores /\ Within(saved)' /\ unsaved' \in SUBSET {"items", "shots"}
  BY <1>2, <1>3, ItemsSaved DEF Typed, StoresWithin
<1>5. call' \in [Users -> CallStates] /\ CallsLoaded'
  BY <1>1, <1>3, CallMoves, IdleCall DEF Typed, memory
<1>. QED
  BY <1>3, <1>4, <1>5 DEF Typed, StoresWithin, Within, Few, memory

LEMMA SaveShotsCaps == ASSUME CapInv, NEW c \in Calls, SaveShots(c) PROVE CapInv'
<1> USE DEF CapInv
<1>1. c \in Users /\ call[c].pc \notin {"idle", "loading"}
  BY ReaderApart DEF SaveShots, At
<1>2. cache # None /\ call[c] \in CallStates
  BY <1>1, Stored
<1>3. /\ UNCHANGED <<memory, saved, since, made, seen, gone, misled, disturbed>>
      /\ persistShots(shots)
  BY DEF SaveShots
<1>4. savedShots' \in SUBSET Nat /\ Few(savedShots)' /\ unsaved' \in SUBSET {"items", "shots"}
  BY <1>3, ShotsSaved DEF Typed, StoresWithin
<1>5. PICK k \in CallStates : call' = [call EXCEPT ![c] = k] /\ k.pc \in {"idle", "retry"}
  <2>1. CASE Fits(saved.items, shots)
    BY <2>1, IdleCall DEF SaveShots, Ends
  <2>2. CASE ~Fits(saved.items, shots)
    <3>1. call' = [call EXCEPT ![c] = [call[c] EXCEPT !.pc = "retry"]]
      BY <2>2 DEF SaveShots, Go
    <3>2. [call[c] EXCEPT !.pc = "retry"] \in CallStates /\ [call[c] EXCEPT !.pc = "retry"].pc = "retry"
      BY <1>2 DEF CallStates
    <3>. QED
      BY <3>1, <3>2
  <2>. QED
    BY <2>1, <2>2
<1>6. call' \in [Users -> CallStates] /\ CallsLoaded'
  BY <1>1, <1>2, <1>3, <1>5, CallMoves DEF Typed, memory
<1>. QED
  BY <1>3, <1>4, <1>6 DEF Typed, StoresWithin, Within, Few, memory

\* What an edit does.
LEMMA PatchStep ==
    ASSUME CapInv, NEW c \in Calls, patch(c)
    PROVE  /\ cache # None /\ cache' # None
           /\ cache' \in Stores /\ Within(cache')
           /\ \/ cache' = cache /\ saved' = saved /\ unsaved' = unsaved
              \/ persistItems(cache')
           /\ seen' \in SUBSET Nat
           /\ \A ids : Claims(cache.items, ids) => Claims(cache'.items, ids)
           /\ call' = [call EXCEPT ![c] = Idle]
           /\ UNCHANGED <<shots, loading, savedShots, since, made, gone, misled, disturbed>>
<1> USE DEF CapInv
<1>1. c \in Users /\ call[c].pc \notin {"idle", "loading"}
  BY ReaderApart DEF patch, At
<1>2. cache # None /\ cache \in Stores /\ Within(cache)
  BY <1>1, Stored
<1>3. PICK f \in AgentFilters, status \in Changes :
        LET targets == filterAnnotations(cache.items, f)
            new == [cache EXCEPT !.items = (@ \ targets) \union Patched(targets, status)] IN
          /\ cache' = new
          /\ IF targets # {} THEN persistItems(new) ELSE UNCHANGED <<saved, unsaved>>
          /\ seen' = IF status = "resolved" THEN seen \union Texts(targets) ELSE seen
  BY DEF patch
<1> DEFINE targets == filterAnnotations(cache.items, f)
           new == PatchedStore(cache, targets, status)
<1>4. /\ cache' = new
      /\ IF targets # {} THEN persistItems(new) ELSE UNCHANGED <<saved, unsaved>>
      /\ seen' = IF status = "resolved" THEN seen \union Texts(targets) ELSE seen
  BY <1>3 DEF PatchedStore
<1>5. targets \subseteq cache.items
  BY FilterSubset
<1>6. Texts(targets) \subseteq Nat
  BY <1>2, <1>5 DEF Texts, Stores, Notes
<1> HIDE DEF targets
<1>7. /\ new \in Stores /\ Within(new)
      /\ targets = {} => new = cache
      /\ \A ids : Claims(cache.items, ids) => Claims(new.items, ids)
  BY <1>2, <1>5, PatchWithin
<1> HIDE DEF new
<1>8. seen' \in SUBSET Nat
  BY <1>4, <1>6 DEF Typed
<1>9. \/ cache' = cache /\ saved' = saved /\ unsaved' = unsaved
      \/ persistItems(cache')
  BY <1>4, <1>7
<1>10. cache' # None
  BY <1>4, <1>7, NoneAssumption
<1>11. /\ call' = [call EXCEPT ![c] = Idle]
       /\ UNCHANGED <<shots, loading, savedShots, since, made, gone, misled, disturbed>>
  BY DEF patch, Ends
<1>. QED
  BY <1>2, <1>4, <1>7, <1>8, <1>9, <1>10, <1>11

\* What a deletion does.
LEMMA RemoveStep ==
    ASSUME CapInv, NEW c \in Calls, remove(c)
    PROVE  /\ cache # None /\ cache' # None
           /\ cache' \in Stores /\ Within(cache')
           /\ \/ cache' = cache /\ saved' = saved /\ unsaved' = unsaved
              \/ persistItems(cache')
           /\ gone' \in SUBSET Nat
           /\ shots' \subseteq shots
           /\ Claims(cache.items, shots) => Claims(cache'.items, shots')
           /\ \E k \in CallStates :
                /\ call' = [call EXCEPT ![c] = k]
                /\ k.pc = "shots" \/ (k.pc = "idle" /\ shots' = shots)
           /\ UNCHANGED <<loading, savedShots, since, made, seen, misled, disturbed>>
<1> USE DEF CapInv
<1>1. c \in Users /\ call[c].pc \notin {"idle", "loading"}
  BY ReaderApart DEF remove, At
<1>2. cache # None /\ cache \in Stores /\ Within(cache) /\ call[c] \in CallStates
  BY <1>1, Stored
<1>3. PICK f \in AgentFilters :
        LET targets == filterAnnotations(cache.items, f)
            kill == Numbered(targets)
            new == [cache EXCEPT !.items = @ \ targets] IN
          /\ cache' = new
          /\ shots' = shots \ kill
          /\ gone' = gone \union Texts(targets)
          /\ IF targets # {} THEN persistItems(new) ELSE UNCHANGED <<saved, unsaved>>
          /\ IF shots \intersect kill # {}
               THEN call' = [call EXCEPT ![c].pc = "shots", ![c].cold = FALSE]
               ELSE Ends(c)
  BY DEF remove
<1> DEFINE targets == filterAnnotations(cache.items, f)
           kill == Numbered(targets)
           new == RemovedStore(cache, targets)
           k == [call[c] EXCEPT !.pc = "shots", !.cold = FALSE]
<1>4. /\ cache' = new
      /\ shots' = shots \ kill
      /\ gone' = gone \union Texts(targets)
      /\ IF targets # {} THEN persistItems(new) ELSE UNCHANGED <<saved, unsaved>>
      /\ IF shots \intersect kill # {} THEN call' = [call EXCEPT ![c] = k]
                                       ELSE call' = [call EXCEPT ![c] = Idle]
  BY <1>3 DEF Ends, RemovedStore
<1>5. targets \subseteq cache.items
  BY FilterSubset
<1>6. Texts(targets) \subseteq Nat
  BY <1>2, <1>5 DEF Texts, Stores, Notes
<1> HIDE DEF targets
<1>7. /\ new \in Stores /\ Within(new)
      /\ targets = {} => new = cache
      /\ Claims(cache.items, shots) => Claims(new.items, shots \ kill)
  BY <1>2, <1>5, RemoveWithin
<1>8. k \in CallStates /\ k.pc = "shots"
  BY <1>2 DEF CallStates
<1> HIDE DEF new, k
<1>9. \E s \in CallStates :
         /\ call' = [call EXCEPT ![c] = s]
         /\ s.pc = "shots" \/ (s.pc = "idle" /\ shots' = shots)
  <2>1. CASE shots \intersect kill # {}
    BY <1>4, <1>8, <2>1
  <2>2. CASE shots \intersect kill = {}
    <3>1. shots' = shots
      BY <1>4, <2>2
    <3>. QED
      BY <1>4, <2>2, <3>1, IdleCall
  <2>. QED
    BY <2>1, <2>2
<1>10. gone' \in SUBSET Nat
  BY <1>4, <1>6 DEF Typed
<1>11. \/ cache' = cache /\ saved' = saved /\ unsaved' = unsaved
       \/ persistItems(cache')
  BY <1>4, <1>7
<1>12. cache' # None
  BY <1>4, <1>7, NoneAssumption
<1>13. Claims(cache.items, shots) => Claims(cache'.items, shots')
  BY <1>4, <1>7
<1>14. shots' \subseteq shots
  BY <1>4
<1>15. UNCHANGED <<loading, savedShots, since, made, seen, misled, disturbed>>
  BY DEF remove
<1>. QED
  BY <1>2, <1>4, <1>7, <1>9, <1>10, <1>11, <1>12, <1>13, <1>14, <1>15

\* The storage after a step that saves the notes or leaves them.
LEMMA MaybeSaved ==
    ASSUME CapInv, cache' \in Stores, Within(cache'),
           \/ cache' = cache /\ saved' = saved /\ unsaved' = unsaved
           \/ persistItems(cache')
    PROVE  saved' \in Stores /\ Within(saved') /\ unsaved' \in SUBSET {"items", "shots"}
<1>1. CASE saved' = saved /\ unsaved' = unsaved
  BY <1>1 DEF CapInv, Typed, StoresWithin
<1>2. CASE persistItems(cache')
  BY <1>2, ItemsSaved DEF CapInv, Typed, StoresWithin, Within
<1>. QED
  BY <1>1, <1>2

LEMMA PatchCaps == ASSUME CapInv, NEW c \in Calls, patch(c) PROVE CapInv'
<1>1. /\ cache # None /\ cache' # None /\ cache' \in Stores /\ Within(cache')
      /\ \/ cache' = cache /\ saved' = saved /\ unsaved' = unsaved
         \/ persistItems(cache')
      /\ seen' \in SUBSET Nat
      /\ call' = [call EXCEPT ![c] = Idle]
      /\ UNCHANGED <<shots, loading, savedShots, since, made, gone, misled, disturbed>>
  BY PatchStep
<1>2. saved' \in Stores /\ Within(saved') /\ unsaved' \in SUBSET {"items", "shots"}
  BY <1>1, MaybeSaved
<1>3. call' \in [Users -> CallStates] /\ CallsLoaded'
  BY <1>1, CallMoves, IdleCall, ReaderApart DEF CapInv, Typed
<1>4. Typed'
  BY <1>1, <1>2, <1>3 DEF CapInv, Typed
<1>5. StoresWithin'
  BY <1>1, <1>2 DEF CapInv, StoresWithin, Within, Few
<1>. QED
  BY <1>3, <1>4, <1>5 DEF CapInv

LEMMA RemoveCaps == ASSUME CapInv, NEW c \in Calls, remove(c) PROVE CapInv'
<1>1. /\ cache # None /\ cache' # None /\ cache' \in Stores /\ Within(cache')
      /\ \/ cache' = cache /\ saved' = saved /\ unsaved' = unsaved
         \/ persistItems(cache')
      /\ gone' \in SUBSET Nat
      /\ shots' \subseteq shots
      /\ UNCHANGED <<loading, savedShots, since, made, seen, misled, disturbed>>
  BY RemoveStep
<1>2. PICK k \in CallStates : call' = [call EXCEPT ![c] = k] /\ k.pc \in {"shots", "idle"}
  BY RemoveStep
<1>3. saved' \in Stores /\ Within(saved') /\ unsaved' \in SUBSET {"items", "shots"}
  BY <1>1, MaybeSaved
<1>4. call' \in [Users -> CallStates] /\ CallsLoaded'
  BY <1>1, <1>2, CallMoves, ReaderApart DEF CapInv, Typed
<1>5. Few(shots') /\ shots' \in SUBSET Nat
  BY <1>1, FewSubset DEF CapInv, StoresWithin, Typed
<1>6. Typed'
  BY <1>1, <1>3, <1>4, <1>5 DEF CapInv, Typed
<1>7. StoresWithin'
  BY <1>1, <1>3, <1>5 DEF CapInv, StoresWithin, Within, Few
<1>. QED
  BY <1>4, <1>6, <1>7 DEF CapInv

LEMMA LoadAnsweredCaps == ASSUME CapInv, NEW c \in Users, LoadAnswered(c) PROVE CapInv'
<1> USE DEF CapInv
<1>1. /\ At(c, "loading") /\ loading # None
      /\ loading' = None
      /\ call' = [d \in Users |-> IF At(d, "loading") THEN [call[d] EXCEPT !.pc = "loaded"]
                                                     ELSE call[d]]
      /\ UNCHANGED <<storage, since, made, seen, gone, unsaved, misled>>
  BY DEF LoadAnswered, Join, CallsLoaded
<1>2. loading \in Reads /\ Within(loading.notes) /\ Few(loading.shots)
  BY <1>1 DEF Typed, StoresWithin
<1>3. loading.notes \in Stores /\ loading.shots \in SUBSET Nat
  BY <1>2 DEF Reads
<1>4. Loaded(loading.notes) = loading.notes
  BY <1>2, <1>3, LoadedWithin
<1>5. /\ cache' \in Stores /\ Within(cache')
      /\ shots' \in SUBSET Nat /\ Few(shots') /\ disturbed' \in BOOLEAN
  <2>1. CASE cache' = Loaded(loading.notes) /\ shots' = loading.shots /\ disturbed' = disturbed
    BY <1>2, <1>3, <1>4, <2>1 DEF Typed
  <2>2. CASE cache' = [seq |-> 0, items |-> {}] /\ shots' = {} /\ disturbed' = TRUE
    BY <2>2, NothingWithin, NoShotsFew
  <2>. QED
    BY <2>1, <2>2 DEF LoadAnswered
<1>6. cache' # None
  BY <1>5, NoneAssumption
<1>7. \A d \in Users : /\ [call[d] EXCEPT !.pc = "loaded"] \in CallStates
                      /\ [call[d] EXCEPT !.pc = "loaded"].pc = "loaded"
  BY DEF Typed, CallStates
<1>8. call' \in [Users -> CallStates]
  BY <1>1, <1>7 DEF Typed
<1>9. \A d \in Users : call'[d].pc # "loading"
  BY <1>1, <1>7 DEF At
<1>10. CallsLoaded'
  BY <1>6, <1>9 DEF CallsLoaded, At
<1>11. Typed'
  BY <1>1, <1>5, <1>8 DEF Typed, storage
<1>12. StoresWithin'
  BY <1>1, <1>5 DEF StoresWithin, Within, Few, storage
<1>. QED
  BY <1>10, <1>11, <1>12

LEMMA ListNewCaps == ASSUME CapInv, ListNew PROVE CapInv'
<1> USE DEF CapInv
<1>1. Reader \in Users /\ call[Reader].pc \notin {"idle", "loading"}
  BY ReaderApart DEF ListNew, At
<1>2. cache # None /\ cache \in Stores /\ call[Reader] \in CallStates
  BY <1>1, Stored
<1>3. UNCHANGED <<memory, storage, since, ghosts>>
  BY DEF ListNew
<1> DEFINE found == filterAnnotations(cache.items,
                      [ids |-> {}, status |-> "open", since |-> since, limit |-> 0])
           k1 == [call[Reader] EXCEPT !.pc = "cursor", !.found = found, !.id = cache.seq]
           k2 == [call[Reader] EXCEPT !.pc = "sleep", !.cold = FALSE]
<1>4. call' = [call EXCEPT ![Reader] = k1] \/ call' = [call EXCEPT ![Reader] = k2]
  BY DEF ListNew
<1>5. found \in SUBSET Notes /\ cache.seq \in Nat
  BY <1>2, FilterSubset DEF Stores
<1> HIDE DEF found
<1>6. /\ k1 \in CallStates /\ k1.pc = "cursor"
      /\ k2 \in CallStates /\ k2.pc = "sleep"
  BY <1>2, <1>5 DEF CallStates
<1> HIDE DEF k1, k2
<1>7. PICK k \in CallStates : call' = [call EXCEPT ![Reader] = k] /\ k.pc \in {"cursor", "sleep"}
  BY <1>4, <1>6
<1>8. call' \in [Users -> CallStates] /\ CallsLoaded'
  BY <1>1, <1>2, <1>3, <1>7, CallMoves DEF Typed, memory
<1>. QED
  BY <1>3, <1>8 DEF Typed, StoresWithin, Within, Few, memory, storage, ghosts

LEMMA PollAgainCaps == ASSUME CapInv, PollAgain PROVE CapInv'
<1> USE DEF CapInv
<1>1. Reader \in Users /\ call[Reader].pc \notin {"idle", "loading"}
  BY ReaderApart DEF PollAgain, At
<1>2. cache # None /\ call[Reader] \in CallStates
  BY <1>1, Stored
<1> DEFINE k == [call[Reader] EXCEPT !.pc = "loaded"]
<1>3. UNCHANGED <<memory, storage, since, ghosts>> /\ call' = [call EXCEPT ![Reader] = k]
  BY DEF PollAgain, Go
<1>4. k \in CallStates /\ k.pc = "loaded"
  BY <1>2 DEF CallStates
<1> HIDE DEF k
<1>5. call' \in [Users -> CallStates] /\ CallsLoaded'
  BY <1>1, <1>2, <1>3, <1>4, CallMoves DEF Typed, memory
<1>. QED
  BY <1>3, <1>5 DEF Typed, StoresWithin, Within, Few, memory, storage, ghosts

LEMMA ReadCursorCaps == ASSUME CapInv, ReadCursor PROVE CapInv'
<1> USE DEF CapInv
<1>1. Reader \in Users /\ call[Reader].pc \notin {"idle", "loading"}
  BY ReaderApart DEF ReadCursor, At
<1>2. cache # None /\ cache \in Stores /\ call[Reader] \in CallStates
  BY <1>1, Stored
<1>3. /\ since' = cache.seq
      /\ seen' = seen \union Texts(call[Reader].found)
      /\ disturbed' = (disturbed \/ (call[Reader].cold /\ call[Reader].id # cache.seq))
      /\ call' = [call EXCEPT ![Reader] = Idle]
      /\ UNCHANGED <<memory, storage, made, gone, unsaved, misled>>
  BY DEF ReadCursor, Ends
<1>4. call' \in [Users -> CallStates] /\ CallsLoaded'
  BY <1>1, <1>3, CallMoves, IdleCall DEF Typed, memory
<1>5. since' \in Nat
  BY <1>2, <1>3 DEF Stores
<1>6. seen' \in SUBSET Nat
  <2>1. call[Reader].found \subseteq Notes
    BY <1>2 DEF CallStates
  <2>2. Texts(call[Reader].found) \subseteq Nat
    BY <2>1 DEF Texts, Notes
  <2>. QED
    BY <1>3, <2>2 DEF Typed
<1>7. disturbed' \in BOOLEAN
  <2>1. call[Reader].cold \in BOOLEAN
    BY <1>2 DEF CallStates
  <2>. QED
    BY <1>3, <2>1 DEF Typed
<1>8. Typed'
  BY <1>3, <1>4, <1>5, <1>6, <1>7 DEF Typed, memory, storage
<1>9. StoresWithin'
  BY <1>3 DEF StoresWithin, Within, Few, memory, storage
<1>. QED
  BY <1>4, <1>8, <1>9

LEMMA WorkerDiesCaps == ASSUME CapInv, WorkerDies PROVE CapInv'
<1> USE DEF CapInv
<1>1. /\ cache' = None /\ shots' = {} /\ loading' = None
      /\ call' = [c \in Users |-> Idle]
      /\ misled' = (misled \/ \E c \in Calls : call[c].pc \in {"items", "retry"})
      /\ disturbed' = (disturbed \/ unsaved # {})
      /\ unsaved' = {}
      /\ UNCHANGED <<storage, since, made, seen, gone>>
  BY DEF WorkerDies
<1>2. call' \in [Users -> CallStates] /\ \A c \in Users : call'[c].pc = "idle"
  BY <1>1, IdleCall
<1>3. CallsLoaded'
  BY <1>2 DEF CallsLoaded, At
<1>4. misled' \in BOOLEAN /\ disturbed' \in BOOLEAN
  BY <1>1 DEF Typed
<1>5. Typed'
  BY <1>1, <1>2, <1>4 DEF Typed, storage
<1>6. StoresWithin'
  BY <1>1, NoShotsFew DEF StoresWithin, Within, Few, storage
<1>. QED
  BY <1>3, <1>5, <1>6

LEMMA NextCaps == ASSUME CapInv, [Next]_vars PROVE CapInv'
<1>1. CASE UNCHANGED vars
  BY <1>1 DEF vars, memory, storage, ghosts, CapInv, Typed, CallsLoaded, StoresWithin, Within, Few, At
<1>2. CASE Next
  <2>1. ASSUME NEW c \in Calls,
               \/ StartAdd(c) \/ StartEdit(c) \/ add(c) \/ NoCapture(c) \/ setShot(c)
               \/ RetryShots(c) \/ SaveItems(c) \/ patch(c) \/ remove(c) \/ SaveShots(c)
        PROVE  CapInv'
    <3>1. CASE StartAdd(c) \/ StartEdit(c)
      BY <3>1, StartCaps, ReaderApart DEF StartAdd, StartEdit
    <3>. QED
      BY <2>1, <3>1, AddCaps, NoCaptureCaps, SetShotCaps, RetryShotsCaps, SaveItemsCaps,
         PatchCaps, RemoveCaps, SaveShotsCaps
  <2>2. ASSUME NEW c \in Users, LoadAnswered(c) PROVE CapInv'
    BY <2>2, LoadAnsweredCaps
  <2>3. CASE StartList
    BY <2>3, StartCaps, ReaderApart DEF StartList
  <2>. QED
    BY <1>2, <2>1, <2>2, <2>3, ListNewCaps, PollAgainCaps, ReadCursorCaps, WorkerDiesCaps DEF Next
<1>. QED
  BY <1>1, <1>2

LEMMA AlwaysCaps == Spec => []CapInv
<1>. QED
  BY InitCaps, NextCaps, PTL DEF Spec

\* The caps of store.js hold in every reachable state, also after a failed load and
\* after saves that were refused: a session that is never closed keeps at most
\* MAX_ANNOTATIONS notes and MAX_SHOTS screenshots; and every value has its type.
THEOREM TypeCorrect == Spec => []TypeOK
<1>1. CapInv => TypeOK
  BY DEF CapInv, StoresWithin, Within, Few, TypeOK
<1>. QED
  BY <1>1, AlwaysCaps, PTL

----------------------------------------------------------------------------
(* Every step keeps the copies and the claims                              *)

LEMMA InitShots == Init => ShotInv
<1> SUFFICES ASSUME Init PROVE CopiesFit /\ ClaimsFit
  BY DEF ShotInv
<1>1. cache = None /\ loading = None /\ saved.items = {}
  BY DEF Init
<1>2. \A c \in Calls : ~At(c, "capture")
  BY IdleCall, ReaderApart DEF Init, At
<1>. QED
  BY <1>1, <1>2 DEF CopiesFit, ClaimsFit, Claims

\* What a step of one edit does to the calls.
LEMMA OneCall ==
    ASSUME call \in [Users -> CallStates], NEW c \in Calls, NEW k, call' = [call EXCEPT ![c] = k]
    PROVE  /\ call'[c] = k
           /\ \A d \in Calls \ {c} :
                /\ call'[d] = call[d]
                /\ SavesItems(d)' <=> SavesItems(d)
                /\ At(d, "shots")' <=> At(d, "shots")
                /\ At(d, "capture")' <=> At(d, "capture")
<1>1. call'[c] = k /\ \A d \in Calls \ {c} : call'[d] = call[d]
  BY ReaderApart
<1>. QED
  BY <1>1 DEF SavesItems, At

\* The calls that will still save, and those that took a screenshot, are as they were.
CallsKept ==
    \A d \in Calls : /\ SavesItems(d) => SavesItems(d)'
                     /\ At(d, "shots") => At(d, "shots")'
                     /\ At(d, "capture")' => call'[d].op = "add"

LEMMA StaysFit ==
    ASSUME CopiesFit, ClaimsFit, CallsKept, UNCHANGED <<memory, storage, unsaved, misled>>
    PROVE  CopiesFit' /\ ClaimsFit'
<1>1. /\ cache' = cache /\ shots' = shots /\ loading' = loading /\ saved' = saved
      /\ savedShots' = savedShots /\ unsaved' = unsaved /\ misled' = misled
  BY DEF memory, storage
<1>2. CopiesFit'
  BY <1>1 DEF CopiesFit, CallsKept
<1>3. ClaimsFit'
  BY <1>1 DEF ClaimsFit, Claims
<1>. QED
  BY <1>2, <1>3

\* A call that was not about to save.
LEMMA KeptByOne ==
    ASSUME CopiesFit, call \in [Users -> CallStates], NEW c \in Calls, NEW k,
           call' = [call EXCEPT ![c] = k],
           call[c].pc \notin {"items", "retry", "shots"},
           k.pc = "capture" => k.op = "add"
    PROVE  CallsKept
<1>1. ~SavesItems(c) /\ ~At(c, "shots")
  BY DEF SavesItems, At
<1>2. At(c, "capture")' => call'[c].op = "add"
  <2>1. call'[c] = k
    BY OneCall
  <2>. QED
    BY <2>1 DEF At
<1>3. \A d \in Calls \ {c} : /\ SavesItems(d) => SavesItems(d)'
                             /\ At(d, "shots") => At(d, "shots")'
                             /\ At(d, "capture")' => call'[d].op = "add"
  BY OneCall DEF CopiesFit
<1>. QED
  BY <1>1, <1>2, <1>3 DEF CallsKept

LEMMA KeptByReader ==
    ASSUME CopiesFit, call \in [Users -> CallStates], NEW k, call' = [call EXCEPT ![Reader] = k]
    PROVE  CallsKept
<1>1. \A d \in Calls : call'[d] = call[d]
  BY ReaderApart
<1>. QED
  BY <1>1 DEF CallsKept, CopiesFit, SavesItems, At

LEMMA StartShots ==
    ASSUME CapInv, CopiesFit, ClaimsFit, NEW c \in Users,
           NEW op \in {"add", "patch", "remove", "list"}, Start(c, op)
    PROVE  CopiesFit' /\ ClaimsFit'
<1>1. /\ UNCHANGED <<cache, shots, storage, unsaved, misled>>
      /\ call[c].pc = "idle" /\ call \in [Users -> CallStates]
  BY DEF Start, At, ghosts, CapInv, Typed
<1>2. PICK k \in CallStates : call' = [call EXCEPT ![c] = k] /\ k.pc \in {"loading", "loaded"}
  <2>1. /\ [Idle EXCEPT !.pc = "loaded", !.op = op] \in CallStates
        /\ [Idle EXCEPT !.pc = "loaded", !.op = op].pc = "loaded"
        /\ [Idle EXCEPT !.pc = "loading", !.op = op, !.cold = TRUE] \in CallStates
        /\ [Idle EXCEPT !.pc = "loading", !.op = op, !.cold = TRUE].pc = "loading"
    BY DEF Idle, CallStates
  <2>. QED
    BY <2>1 DEF Start
<1>3. CallsKept
  <2>1. CASE c \in Calls
    BY <1>1, <1>2, <2>1, KeptByOne
  <2>2. CASE c = Reader
    BY <1>1, <1>2, <2>2, KeptByReader
  <2>. QED
    BY <2>1, <2>2 DEF Users
<1>4. CASE loading' = loading
  BY <1>1, <1>3, <1>4, StaysFit DEF memory
<1>5. CASE loading' # loading
  <2>1. cache = None /\ loading' = [notes |-> saved, shots |-> savedShots]
    BY <1>5 DEF Start
  <2>2. /\ cache' = cache /\ shots' = shots /\ saved' = saved /\ savedShots' = savedShots
        /\ unsaved' = unsaved /\ misled' = misled
    BY <1>1 DEF storage
  <2>3. CopiesFit'
    BY <1>3, <2>1, <2>2 DEF CopiesFit, CallsKept
  <2>4. ClaimsFit'
    BY <2>2 DEF ClaimsFit, Claims
  <2>. QED
    BY <2>3, <2>4
<1>. QED
  BY <1>4, <1>5

\* While there is a store nothing is being read.
LEMMA NothingRead == ASSUME CopiesFit, cache # None PROVE loading = None
BY DEF CopiesFit

\* A step that leaves the screenshots, and saves the notes if it changes them.
LEMMA EditFits ==
    ASSUME CapInv, CopiesFit, ClaimsFit, cache # None, cache' # None,
           cache' \in Stores, Within(cache'),
           \/ cache' = cache /\ saved' = saved /\ unsaved' = unsaved
           \/ persistItems(cache'),
           UNCHANGED <<loading, savedShots, misled>>,
           Claims(cache.items, shots) => Claims(cache'.items, shots'),
           NEW c \in Calls, NEW k, call' = [call EXCEPT ![c] = k],
           call[c].pc \notin {"items", "retry", "shots"},
           k.pc = "capture" => k.op = "add",
           \/ shots' = shots
           \/ k.pc = "shots" /\ shots' \subseteq shots
    PROVE  CopiesFit' /\ ClaimsFit'
<1>1. loading' = None
  BY NothingRead
<1>2. /\ "shots" \in unsaved' <=> "shots" \in unsaved
      /\ "items" \notin unsaved' => saved' = cache' \/ ("items" \notin unsaved /\ saved' = saved /\ cache' = cache)
  <2>1. CASE cache' = cache /\ saved' = saved /\ unsaved' = unsaved
    BY <2>1
  <2>2. CASE persistItems(cache')
    BY <2>2, ItemsSaved DEF CapInv, Typed, StoresWithin, Within
  <2>. QED
    BY <2>1, <2>2
<1>3. CallsKept
  BY KeptByOne DEF CapInv, Typed
<1>4. shots' # shots => At(c, "shots")'
  <2>1. call'[c] = k
    BY OneCall DEF CapInv, Typed
  <2>. QED
    BY <2>1 DEF At
<1>5. "items" \notin unsaved' /\ (\A d \in Calls : ~SavesItems(d)') => saved' = cache'
  BY <1>2, <1>3 DEF CopiesFit, CallsKept
<1>6. "shots" \notin unsaved' => shots' \subseteq savedShots'
  BY <1>2 DEF CopiesFit
<1>7. "shots" \notin unsaved' /\ (\A d \in Calls : ~At(d, "shots")') => savedShots' = shots'
  BY <1>2, <1>3, <1>4 DEF CopiesFit, CallsKept
<1>8. CopiesFit'
  BY <1>1, <1>3, <1>5, <1>6, <1>7 DEF CopiesFit, CallsKept
<1>9. ClaimsFit'
  BY DEF ClaimsFit, Claims
<1>. QED
  BY <1>8, <1>9

LEMMA AddShots ==
    ASSUME CapInv, CopiesFit, ClaimsFit, NEW c \in Calls, add(c) PROVE CopiesFit' /\ ClaimsFit'
<1>1. c \in Users /\ call[c].pc = "loaded" /\ call[c].op = "add"
  BY ReaderApart DEF add, At
<1>2. cache # None /\ cache \in Stores /\ Within(cache) /\ call[c] \in CallStates
  BY <1>1, Stored
<1>3. PICK record \in {[seq |-> cache.seq + 1, text |-> Len(made) + 1,
                       status |-> "open", shot |-> FALSE]} :
        LET items == pruneItems(cache.items \union {record}) IN
          /\ cache' = [seq |-> record.seq, items |-> items]
          /\ persistItems([seq |-> record.seq, items |-> items])
          /\ call' = [call EXCEPT ![c].pc = "capture", ![c].id = record.seq, ![c].cold = FALSE]
  BY DEF add
<1> DEFINE items == pruneItems(cache.items \union {record})
           new == [seq |-> record.seq, items |-> items]
           k == [call[c] EXCEPT !.pc = "capture", !.id = record.seq, !.cold = FALSE]
<1>4. /\ record = [seq |-> cache.seq + 1, text |-> Len(made) + 1, status |-> "open", shot |-> FALSE]
      /\ cache' = new /\ persistItems(new) /\ call' = [call EXCEPT ![c] = k]
      /\ UNCHANGED <<shots, loading, savedShots, misled>>
  BY <1>3 DEF add
<1>5. Len(made) + 1 \in Nat
  BY LenProperties DEF CapInv, Typed
<1>6. new \in Stores /\ Within(new)
  BY <1>2, <1>4, <1>5, AddWithin
<1>7. Claims(cache.items, shots) => Claims(new.items, shots)
  <2>1. items \subseteq cache.items \union {record}
    BY NewestSubset DEF pruneItems
  <2> HIDE DEF items
  <2>. QED
    BY <1>4, <2>1 DEF Claims
<1>8. k.pc = "capture" /\ k.op = "add"
  BY <1>1, <1>2 DEF CallStates
<1> HIDE DEF items, new, k
<1>9. new # None
  BY <1>6, NoneAssumption
<1>. QED
  BY <1>1, <1>2, <1>4, <1>6, <1>7, <1>8, <1>9, EditFits

LEMMA PatchShots ==
    ASSUME CapInv, CopiesFit, ClaimsFit, NEW c \in Calls, patch(c) PROVE CopiesFit' /\ ClaimsFit'
<1>1. /\ cache # None /\ cache' # None /\ cache' \in Stores /\ Within(cache')
      /\ \/ cache' = cache /\ saved' = saved /\ unsaved' = unsaved
         \/ persistItems(cache')
      /\ Claims(cache.items, shots) => Claims(cache'.items, shots)
      /\ call' = [call EXCEPT ![c] = Idle]
      /\ UNCHANGED <<shots, loading, savedShots, misled>>
  BY PatchStep
<1>2. call[c].pc = "loaded"
  BY DEF patch, At
<1>. QED
  BY <1>1, <1>2, IdleCall, EditFits

LEMMA RemoveShots ==
    ASSUME CapInv, CopiesFit, ClaimsFit, NEW c \in Calls, remove(c) PROVE CopiesFit' /\ ClaimsFit'
<1>1. /\ cache # None /\ cache' # None /\ cache' \in Stores /\ Within(cache')
      /\ \/ cache' = cache /\ saved' = saved /\ unsaved' = unsaved
         \/ persistItems(cache')
      /\ shots' \subseteq shots
      /\ Claims(cache.items, shots) => Claims(cache'.items, shots')
      /\ UNCHANGED <<loading, savedShots, misled>>
  BY RemoveStep
<1>2. PICK k \in CallStates : /\ call' = [call EXCEPT ![c] = k]
                              /\ k.pc = "shots" \/ (k.pc = "idle" /\ shots' = shots)
  BY RemoveStep
<1>3. call[c].pc = "loaded"
  BY DEF remove, At
<1>4. k.pc # "capture" /\ (shots' = shots \/ (k.pc = "shots" /\ shots' \subseteq shots))
  BY <1>1, <1>2
<1>. QED
  BY <1>1, <1>2, <1>3, <1>4, EditFits

LEMMA NoCaptureShots ==
    ASSUME CapInv, CopiesFit, ClaimsFit, NEW c \in Calls, NoCapture(c)
    PROVE  CopiesFit' /\ ClaimsFit'
<1>1. /\ UNCHANGED <<memory, storage, unsaved, misled>>
      /\ call' = [call EXCEPT ![c] = Idle] /\ call[c].pc = "capture"
  BY DEF NoCapture, Ends, At, ghosts
<1>2. CallsKept
  BY <1>1, IdleCall, KeptByOne DEF CapInv, Typed
<1>. QED
  BY <1>1, <1>2, StaysFit

LEMMA SetShotShots ==
    ASSUME CapInv, CopiesFit, ClaimsFit, NEW c \in Calls, setShot(c) PROVE CopiesFit' /\ ClaimsFit'
<1>1. c \in Users /\ call[c].pc = "capture" /\ call[c].op = "add"
  BY ReaderApart DEF setShot, At, CopiesFit
<1>2. cache # None /\ cache \in Stores /\ Within(cache) /\ call[c] \in CallStates
  BY <1>1, Stored
<1> DEFINE ids == shots \union {call[c].id}
           kept == ids \intersect shotIdsToKeep(cache.items, ids)
           new == [cache EXCEPT !.items = Advertise(@, call[c].id, kept)]
           k == [call[c] EXCEPT !.pc = IF Fits(saved.items, kept) THEN "items" ELSE "retry"]
<1>3. /\ shots' = kept /\ cache' = new /\ persistShots(kept)
      /\ call' = [call EXCEPT ![c] = k]
      /\ UNCHANGED <<loading, saved>>
  BY DEF setShot, Go
<1>4. new \in Stores /\ Claims(new.items, kept)
  BY <1>2, AdvertiseWithin
<1>5. cache.items \in SUBSET Notes /\ IsFiniteSet(cache.items) /\ Distinct(cache.items)
  BY <1>2 DEF Within, Stores
<1>6. Few(kept)
  BY <1>5, KeptFew
<1>7. kept \in SUBSET Nat
  BY <1>2 DEF CapInv, Typed, CallStates
<1>8. k.pc \in {"items", "retry"} /\ k.op = "add"
  BY <1>1, <1>2 DEF CallStates
<1> HIDE DEF kept, new, k
<1>9. loading' = None /\ cache' # None
  BY <1>2, <1>3, <1>4, NoneAssumption, NothingRead
<1>10. "shots" \notin unsaved' => savedShots' = kept
  BY <1>3, <1>6, <1>7, ShotsSaved DEF CapInv, Typed, StoresWithin
<1>11. call'[c] = k /\ \A d \in Calls \ {c} : call'[d] = call[d]
  BY <1>3, OneCall DEF CapInv, Typed
<1>12. SavesItems(c)' /\ \A d \in Calls : At(d, "capture")' => call'[d].op = "add"
  BY <1>8, <1>11 DEF SavesItems, At, CopiesFit
<1>13. CopiesFit'
  BY <1>3, <1>9, <1>10, <1>12 DEF CopiesFit
<1>14. ClaimsFit'
  BY <1>3, <1>4, <1>9 DEF ClaimsFit, Claims
<1>. QED
  BY <1>13, <1>14

LEMMA RetryShotsShots ==
    ASSUME CapInv, CopiesFit, ClaimsFit, NEW c \in Calls, RetryShots(c)
    PROVE  CopiesFit' /\ ClaimsFit'
<1>1. c \in Users /\ call[c].pc = "retry"
  BY ReaderApart DEF RetryShots, At
<1>2. cache # None /\ call[c] \in CallStates
  BY <1>1, Stored
<1>3. PICK kept \in SUBSET shots : shots' = kept /\ persistShots(kept) /\ misled' = (misled \/ kept # shots)
  BY DEF RetryShots
<1>4. UNCHANGED <<cache, loading, saved>>
  BY DEF RetryShots
<1>5. Few(kept) /\ kept \in SUBSET Nat
  BY FewSubset DEF CapInv, StoresWithin, Typed
<1>6. /\ "shots" \notin unsaved' => savedShots' = kept
      /\ "items" \in unsaved' <=> "items" \in unsaved
  BY <1>3, <1>5, ShotsSaved DEF CapInv, Typed, StoresWithin
<1>7. \/ call' = [call EXCEPT ![c] = [call[c] EXCEPT !.pc = "items"]]
      \/ call[c].op # "add" /\ call' = [call EXCEPT ![c] = Idle]
  BY DEF RetryShots, Go, Ends
<1>8. \A d \in Calls : /\ SavesItems(d) => SavesItems(d)'
                       /\ At(d, "capture")' => call'[d].op = "add"
  <2>1. CASE call' = [call EXCEPT ![c] = [call[c] EXCEPT !.pc = "items"]]
    <3> DEFINE k == [call[c] EXCEPT !.pc = "items"]
    <3>1. k.pc = "items"
      BY <1>2 DEF CallStates
    <3>2. call' = [call EXCEPT ![c] = k]
      BY <2>1
    <3> HIDE DEF k
    <3>3. call'[c] = k /\ \A d \in Calls \ {c} : call'[d] = call[d]
      BY <3>2, OneCall DEF CapInv, Typed
    <3>. QED
      BY <3>1, <3>3 DEF SavesItems, At, CopiesFit
  <2>2. CASE call[c].op # "add" /\ call' = [call EXCEPT ![c] = Idle]
    <3>1. call'[c].pc = "idle" /\ \A d \in Calls \ {c} : call'[d] = call[d]
      BY <2>2, IdleCall, OneCall DEF CapInv, Typed
    <3>. QED
      BY <1>1, <2>2, <3>1 DEF SavesItems, At, CopiesFit
  <2>. QED
    BY <1>7, <2>1, <2>2
<1>9. loading' = None
  BY <1>2, <1>4, NothingRead
<1>10. "items" \notin unsaved' /\ (\A d \in Calls : ~SavesItems(d)') => saved' = cache'
  BY <1>2, <1>4, <1>6, <1>8 DEF CopiesFit
<1>11. "shots" \notin unsaved' => savedShots' = shots'
  BY <1>3, <1>6
<1>12. CopiesFit'
  BY <1>8, <1>9, <1>10, <1>11 DEF CopiesFit
<1>13. ClaimsFit'
  <2>1. CASE kept = shots
    BY <1>2, <1>3, <1>4, <2>1 DEF ClaimsFit, Claims
  <2>2. CASE kept # shots
    BY <1>3, <2>2 DEF ClaimsFit
  <2>. QED
    BY <2>1, <2>2
<1>. QED
  BY <1>12, <1>13

LEMMA SaveItemsShots ==
    ASSUME CapInv, CopiesFit, ClaimsFit, NEW c \in Calls, SaveItems(c)
    PROVE  CopiesFit' /\ ClaimsFit'
<1>1. c \in Users /\ call[c].pc = "items"
  BY ReaderApart DEF SaveItems, At
<1>2. cache # None /\ cache \in Stores /\ Within(cache)
  BY <1>1, Stored
<1>3. /\ cache' = cache /\ shots' = shots /\ loading' = loading
      /\ savedShots' = savedShots /\ misled' = misled
      /\ persistItems(cache) /\ call' = [call EXCEPT ![c] = Idle]
  BY DEF SaveItems, Ends, memory
<1>4. /\ "items" \notin unsaved' => saved' = cache
      /\ "shots" \in unsaved' <=> "shots" \in unsaved
  BY <1>2, <1>3, ItemsSaved DEF CapInv, Typed, StoresWithin
<1>5. call'[c].pc = "idle" /\ \A d \in Calls \ {c} : call'[d] = call[d]
  BY <1>3, IdleCall, OneCall DEF CapInv, Typed
<1>6. \A d \in Calls : /\ At(d, "shots") => At(d, "shots")'
                       /\ At(d, "capture")' => call'[d].op = "add"
  BY <1>1, <1>5 DEF At, CopiesFit
<1>7. loading' = None
  BY <1>2, <1>3, NothingRead
<1>8. "items" \notin unsaved' => saved' = cache'
  BY <1>3, <1>4
<1>9. "shots" \notin unsaved' => shots' \subseteq savedShots'
  BY <1>2, <1>3, <1>4 DEF CopiesFit
<1>10. "shots" \notin unsaved' /\ (\A d \in Calls : ~At(d, "shots")') => savedShots' = shots'
  BY <1>2, <1>3, <1>4, <1>6 DEF CopiesFit
<1>11. CopiesFit'
  BY <1>6, <1>7, <1>8, <1>9, <1>10 DEF CopiesFit
<1>12. ClaimsFit'
  BY <1>2, <1>3 DEF ClaimsFit, Claims
<1>. QED
  BY <1>11, <1>12

LEMMA SaveShotsShots ==
    ASSUME CapInv, CopiesFit, ClaimsFit, NEW c \in Calls, SaveShots(c)
    PROVE  CopiesFit' /\ ClaimsFit'
<1>1. c \in Users /\ call[c].pc = "shots"
  BY ReaderApart DEF SaveShots, At
<1>2. cache # None /\ call[c] \in CallStates
  BY <1>1, Stored
<1>3. /\ cache' = cache /\ shots' = shots /\ loading' = loading
      /\ saved' = saved /\ misled' = misled /\ persistShots(shots)
  BY DEF SaveShots, memory
<1>4. /\ "shots" \notin unsaved' => savedShots' = shots
      /\ "items" \in unsaved' <=> "items" \in unsaved
  BY <1>3, ShotsSaved DEF CapInv, Typed, StoresWithin
<1>5. \/ call' = [call EXCEPT ![c] = [call[c] EXCEPT !.pc = "retry"]]
      \/ call' = [call EXCEPT ![c] = Idle]
  BY DEF SaveShots, Go, Ends
<1>6. call'[c].pc # "capture" /\ \A d \in Calls \ {c} : call'[d] = call[d]
  <2>1. PICK k \in CallStates : call' = [call EXCEPT ![c] = k] /\ k.pc # "capture"
    <3>1. [call[c] EXCEPT !.pc = "retry"] \in CallStates /\ [call[c] EXCEPT !.pc = "retry"].pc = "retry"
      BY <1>2 DEF CallStates
    <3>. QED
      BY <1>5, <3>1, IdleCall
  <2>. QED
    BY <2>1, OneCall DEF CapInv, Typed
<1>7. \A d \in Calls : /\ SavesItems(d) => SavesItems(d)'
                       /\ At(d, "capture")' => call'[d].op = "add"
  BY <1>1, <1>6 DEF SavesItems, At, CopiesFit
<1>8. loading' = None
  BY <1>2, <1>3, NothingRead
<1>9. "items" \notin unsaved' /\ (\A d \in Calls : ~SavesItems(d)') => saved' = cache'
  BY <1>2, <1>3, <1>4, <1>7 DEF CopiesFit
<1>10. "shots" \notin unsaved' => savedShots' = shots'
  BY <1>3, <1>4
<1>11. CopiesFit'
  BY <1>7, <1>8, <1>9, <1>10 DEF CopiesFit
<1>12. ClaimsFit'
  BY <1>2, <1>3 DEF ClaimsFit, Claims
<1>. QED
  BY <1>11, <1>12

\* What is loaded is what was saved, unless the load failed.
LEMMA LoadAnsweredShots ==
    ASSUME CapInv, CopiesFit, ClaimsFit, NEW c \in Users, LoadAnswered(c), ~disturbed'
    PROVE  CopiesFit' /\ ClaimsFit'
<1>1. /\ At(c, "loading") /\ loading # None
      /\ cache' = Loaded(loading.notes) /\ shots' = loading.shots
      /\ loading' = None
      /\ call' = [d \in Users |-> IF At(d, "loading") THEN [call[d] EXCEPT !.pc = "loaded"]
                                                     ELSE call[d]]
      /\ UNCHANGED <<storage, unsaved, misled>>
  BY DEF LoadAnswered, Join, CapInv, CallsLoaded
<1>2. cache = None /\ loading.notes = saved /\ loading.shots = savedShots
  BY <1>1 DEF CopiesFit
<1>3. saved \in Stores /\ Within(saved)
  BY DEF CapInv, Typed, StoresWithin
<1>4. /\ cache' = saved /\ saved' = saved /\ shots' = savedShots /\ savedShots' = savedShots
      /\ cache' # None /\ misled' = misled
  BY <1>1, <1>2, <1>3, LoadedWithin, NoneAssumption DEF storage
<1>5. \A d \in Calls : At(d, "capture")' => call'[d].op = "add"
  <2>1. \A d \in Users : [call[d] EXCEPT !.pc = "loaded"].pc = "loaded"
    BY DEF CapInv, Typed, CallStates
  <2>. QED
    BY <1>1, <2>1, ReaderApart DEF At, CopiesFit
<1>6. CopiesFit'
  BY <1>1, <1>4, <1>5 DEF CopiesFit
<1>7. ClaimsFit'
  BY <1>2, <1>4 DEF ClaimsFit, Claims
<1>. QED
  BY <1>6, <1>7

LEMMA ListShots ==
    ASSUME CapInv, CopiesFit, ClaimsFit, ListNew \/ PollAgain \/ ReadCursor
    PROVE  CopiesFit' /\ ClaimsFit'
<1>1. UNCHANGED <<memory, storage, unsaved, misled>>
  BY DEF ListNew, PollAgain, ReadCursor, ghosts
<1>2. \E k : call' = [call EXCEPT ![Reader] = k]
  BY DEF ListNew, PollAgain, ReadCursor, Go, Ends
<1>3. CallsKept
  BY <1>2, KeptByReader DEF CapInv, Typed
<1>. QED
  BY <1>1, <1>3, StaysFit

\* A worker that dies between two saves may leave notes that claim too much, and
\* that is what misled says; else what it leaves is what it had, and no screenshot less.
LEMMA WorkerDiesShots ==
    ASSUME CapInv, CopiesFit, ClaimsFit, WorkerDies, ~disturbed' PROVE CopiesFit' /\ ClaimsFit'
<1>1. /\ cache' = None /\ loading' = None
      /\ call' = [c \in Users |-> Idle]
      /\ misled' = (misled \/ \E c \in Calls : call[c].pc \in {"items", "retry"})
      /\ unsaved = {}
      /\ saved' = saved /\ savedShots' = savedShots
  BY DEF WorkerDies, storage
<1>2. \A c \in Calls : call'[c].pc = "idle"
  BY <1>1, IdleCall, ReaderApart
<1>3. CopiesFit'
  BY <1>1, <1>2 DEF CopiesFit, At
<1>4. CASE misled'
  BY <1>3, <1>4 DEF ClaimsFit
<1>5. CASE ~misled'
  <2>1. ~misled /\ \A c \in Calls : ~SavesItems(c)
    BY <1>1, <1>5 DEF SavesItems, At
  <2>2. Claims(saved.items, savedShots)
    <3>1. CASE cache = None
      BY <2>1, <3>1 DEF ClaimsFit
    <3>2. CASE cache # None
      <4>1. saved = cache /\ shots \subseteq savedShots
        BY <1>1, <2>1, <3>2 DEF CopiesFit
      <4>. QED
        BY <2>1, <3>2, <4>1 DEF ClaimsFit, Claims
    <3>. QED
      BY <3>1, <3>2
  <2>. QED
    BY <1>1, <1>3, <2>2 DEF ClaimsFit, Claims
<1>. QED
  BY <1>3, <1>4, <1>5

LEMMA NextShots == ASSUME IInv, CapInv, ShotInv, [Next]_vars PROVE ShotInv'
<1>1. CASE UNCHANGED vars
  <2>1. CASE disturbed
    BY <1>1, <2>1 DEF vars, ghosts, ShotInv
  <2>2. CASE ~disturbed
    <3>1. CallsKept /\ UNCHANGED <<memory, storage, unsaved, misled>>
      BY <1>1, <2>2 DEF vars, ghosts, CallsKept, SavesItems, At, ShotInv, CopiesFit
    <3>. QED
      BY <2>2, <3>1, StaysFit DEF ShotInv
  <2>. QED
    BY <2>1, <2>2
<1>2. CASE Next
  <2> SUFFICES ASSUME ~disturbed' PROVE CopiesFit' /\ ClaimsFit'
    BY DEF ShotInv
  <2>1. CopiesFit /\ ClaimsFit
    BY <1>2, DisturbedStays DEF ShotInv
  <2>2. ASSUME NEW c \in Calls,
               \/ StartAdd(c) \/ StartEdit(c) \/ add(c) \/ NoCapture(c) \/ setShot(c)
               \/ RetryShots(c) \/ SaveItems(c) \/ patch(c) \/ remove(c) \/ SaveShots(c)
        PROVE  CopiesFit' /\ ClaimsFit'
    <3>1. CASE StartAdd(c) \/ StartEdit(c)
      BY <2>1, <3>1, StartShots, ReaderApart DEF StartAdd, StartEdit
    <3>. QED
      BY <2>1, <2>2, <3>1, AddShots, NoCaptureShots, SetShotShots, RetryShotsShots,
         SaveItemsShots, PatchShots, RemoveShots, SaveShotsShots
  <2>3. ASSUME NEW c \in Users, LoadAnswered(c) PROVE CopiesFit' /\ ClaimsFit'
    BY <2>1, <2>3, LoadAnsweredShots
  <2>4. CASE StartList
    BY <2>1, <2>4, StartShots, ReaderApart DEF StartList
  <2>. QED
    BY <1>2, <2>1, <2>2, <2>3, <2>4, ListShots, WorkerDiesShots DEF Next
<1>. QED
  BY <1>1, <1>2

LEMMA AlwaysShots == Spec => []ShotInv
<1>. QED
  BY InitInv, NextInv, InitCaps, NextCaps, InitShots, NextShots, PTL DEF Spec

\* A note never claims a screenshot that is not there (store.js, setShot and remove),
\* while screenshots are evicted at the cap, go with their note and are taken again,
\* and across restarts of the worker; what persistShots drops when the quota is full
\* is the exception.
THEOREM NoFalseClaim == Spec => []AdvertisedHasShot
<1>1. ShotInv => AdvertisedHasShot
  BY DEF ShotInv, ClaimsFit, Claims, AdvertisedHasShot
<1>. QED
  BY <1>1, AlwaysShots, PTL

\* With no save under way and none refused, chrome.storage has what the worker has
\* (store.js, persistItems and persistShots), however edits interleave.
THEOREM SavesComplete == Spec => []StorageFollows
<1>1. ShotInv => StorageFollows
  BY DEF ShotInv, CopiesFit, SavesItems, At, StorageFollows
<1>. QED
  BY <1>1, AlwaysShots, PTL
=============================================================================
