--------------------------- MODULE ImportRunProofs ---------------------------
(***************************************************************************)
(* What ImportRun promises for every list of items and every batch size.   *)
(***************************************************************************)
EXTENDS ImportRun, TLAPS

(***************************************************************************)
(* Types                                                                   *)
(***************************************************************************)

ItemStep ==
    \/ NoTmdbId \/ Duplicate \/ NoTvdbId \/ NotWanted \/ NotFound \/ Queue

\* An item that passes the checks has an id in the library of the target.
LEMMA CandidateHasId ==
  ASSUME Types, pc = "items", at <= Len(media), Candidate
  PROVE  /\ at \in 1..Len(media) /\ at \in Items
         /\ media[at] \in Ids
         /\ LibraryId(at) \in Ids
  BY SizesAssumption, SMTT(30) DEF Types, Candidate, IsNew, LibraryId, Items

\* One more entry keeps the counts natural numbers.
LEMMA EnteredTyped ==
  ASSUME NEW e \in [Items -> Nat], NEW S
  PROVE  /\ Entered(e, S) \in [Items -> Nat]
         /\ \A n \in Items : /\ n \in S => Entered(e, S)[n] = e[n] + 1
                             /\ n \notin S => Entered(e, S)[n] = e[n]
  BY DEF Entered

\* Before the loop nothing is looked at.
AtStart == pc \in {"start", "preflight"} => at = 1 /\ batch = {}

Typed == Types /\ AtStart

\* The import starts in its types.
LEMMA TypeInit == Init => Typed
<1> SUFFICES ASSUME Init
             PROVE  Typed
  OBVIOUS
<1>1. media \in Seq(Ids \cup {NoId}) /\ Len(media) = 0 /\ at = 1
  BY DEF Init
<1>2. at \in 1..(Len(media) + 1) /\ Len(media) <= MaxItems
  BY <1>1, SizesAssumption
<1>3. library \in [Ids -> {"absent", "present", "imported"}]
  BY DEF Init
<1>4. added \in [Items -> Nat] /\ skipped \in [Items -> Nat] /\ failed \in [Items -> Nat]
  BY DEF Init
<1> QED
  BY <1>1, <1>2, <1>3, <1>4 DEF Init, Typed, Types, AtStart, PcPoints

\* Looking at an item keeps the types.
LEMMA TypeItem ==
  ASSUME Typed, ItemStep
  PROVE  Typed'
<1> USE DEF Typed, Types, AtStart
<1>1. NextItem
  BY DEF ItemStep, NoTmdbId, Duplicate, NoTvdbId, NotWanted, NotFound, Queue
<1>2. pc = "items" /\ at <= Len(media) /\ at \in Nat /\ Len(media) \in Nat /\ at' = at + 1
  BY <1>1 DEF NextItem
<1>3. at' \in 1..(Len(media) + 1) /\ batch \subseteq 1..(at' - 1)
  BY <1>2
<1>4. CASE FailItem
  <2>1. failed' \in [Items -> Nat]
    BY <1>4, EnteredTyped DEF FailItem
  <2> QED
    BY <1>2, <1>3, <1>4, <2>1 DEF FailItem, service
<1>6. CASE SkipItem
  <2>1. skipped' \in [Items -> Nat]
    BY <1>6, EnteredTyped DEF SkipItem
  <2> QED
    BY <1>2, <1>3, <1>6, <2>1 DEF SkipItem, service
<1>5. CASE Queue
  <2>1. media[at] \in Ids
    BY <1>2, <1>5, CandidateHasId DEF Queue
  <2>2. pc' \in {"items", "fullFlush"}
    BY <1>5 DEF Queue
  <2>3. batch' \subseteq 1..(at' - 1)
    BY <1>2, <1>3, <1>5 DEF Queue
  <2> QED
    BY <1>2, <1>3, <1>5, <2>1, <2>2, <2>3 DEF Queue, PcPoints, Flushing, service, result
<1> QED
  BY <1>4, <1>5, <1>6 DEF ItemStep, NoTmdbId, Duplicate, NoTvdbId, NotWanted, NotFound

\* Flushing a batch keeps the types.
LEMMA TypeFlush ==
  ASSUME Typed, Post \/ PostFails
  PROVE  Typed'
<1> USE DEF Typed, Types, AtStart
<1>1. pc' \in PcPoints /\ pc' \notin {"start", "preflight"} /\ batch' \subseteq batch
  BY DEF Post, PostFails, AfterFlush, Flushing, PcPoints
<1>2. library' \in [Ids -> {"absent", "present", "imported"}]
  BY DEF Post, PostFails, Enter
<1>3. added' \in [Items -> Nat] /\ skipped' \in [Items -> Nat] /\ failed' \in [Items -> Nat]
  <2>1. CASE Post
    BY <2>1, EnteredTyped DEF Post
  <2>2. CASE PostFails
    BY <2>2, EnteredTyped DEF PostFails
  <2> QED
    BY <2>1, <2>2
<1> QED
  BY <1>1, <1>2, <1>3 DEF Post, PostFails, service

\* Every step keeps the types.
LEMMA TypeNext == Typed /\ [Next]_vars => Typed'
<1> SUFFICES ASSUME Typed, [Next]_vars
             PROVE  Typed'
  OBVIOUS
<1> USE DEF Typed, Types, AtStart
<1>1. CASE Refuse \/ SeeStop \/ EndOfItems \/ Stop
  BY <1>1 DEF Refuse, SeeStop, EndOfItems, Stop, PcPoints, Flushing, service, result
<1>2. CASE Fetch
  <2>1. media' \in Seq(Ids \cup {NoId}) /\ Len(media') \in Nat /\ Len(media') <= MaxItems
    BY <1>2, SizesAssumption DEF Fetch
  <2>2. at = 1
    BY <1>2 DEF Fetch
  <2>3. at' \in 1..(Len(media') + 1)
    BY <1>2, <2>1, <2>2 DEF Fetch
  <2> QED
    BY <1>2, <2>1, <2>2, <2>3 DEF Fetch, PcPoints, service, result
<1>3. CASE Preflight
  BY <1>3 DEF Preflight, PcPoints, Library, service, result
<1>4. CASE OtherAdds
  BY <1>4 DEF OtherAdds, service, result
<1>5. CASE UNCHANGED vars
  BY <1>5 DEF vars, service, result
<1> QED
  BY <1>1, <1>2, <1>3, <1>4, <1>5, TypeItem, TypeFlush DEF Next, ItemStep

\* In every import the types hold and nothing is looked at before the loop.
LEMMA TypedInvariant == Spec => []Typed
  BY TypeInit, TypeNext, PTL DEF Spec

(***************************************************************************)
(* Every item is counted                                                   *)
(***************************************************************************)

\* Nothing is entered for items the loop has not reached.
NothingAhead == \A n \in Items : n >= at => Entries(n) = 0

\* As CountedOnce, and before the loop too.
OnceSoFar ==
    pc \in {"start", "preflight", "items", "fullFlush"} =>
        \A n \in Items : Entries(n) = 0 \/ (Entries(n) = 1 /\ n \notin batch)

Counted == NothingAhead /\ OnceSoFar /\ NoItemLost

\* Steps that leave the loop where it is.
QuietStep ==
    \/ Refuse \/ Preflight \/ Fetch \/ Stop \/ OtherAdds
    \/ SeeStop \/ EndOfItems \/ UNCHANGED vars

\* A step that looks at no item and flushes nothing loses nothing.
LEMMA CountedQuiet ==
  ASSUME Typed, Counted, QuietStep
  PROVE  Counted'
<1>1. UNCHANGED <<at, batch, added, skipped, failed>>
  BY DEF QuietStep, Refuse, Preflight, Fetch, Stop, OtherAdds, SeeStop, EndOfItems, vars, result
<1>2. /\ pc' \in {"start", "preflight", "items", "fullFlush"} =>
           pc \in {"start", "preflight", "items", "fullFlush"}
      /\ pc' = "returned" => pc = "returned" \/ batch = {}
  BY DEF QuietStep, Refuse, Preflight, Fetch, Stop, OtherAdds, SeeStop, EndOfItems, vars,
         Typed, AtStart
<1> QED
  BY <1>1, <1>2 DEF Counted, NothingAhead, OnceSoFar, NoItemLost, Entries

\* The loop enters the item it looks at or queues it.
LEMMA CountedItem ==
  ASSUME Typed, Counted, ItemStep
  PROVE  Counted'
<1> USE DEF Counted, NothingAhead, OnceSoFar, NoItemLost
<1>1. NextItem
  BY DEF ItemStep, NoTmdbId, Duplicate, NoTvdbId, NotWanted, NotFound, Queue
<1>2. /\ pc = "items" /\ at <= Len(media) /\ at' = at + 1
      /\ Len(media) \in Nat /\ Len(media) <= MaxItems /\ at \in Nat /\ at >= 1
      /\ batch \subseteq 1..(at - 1)
  BY <1>1 DEF NextItem, Typed, Types
<1>3. at \in Items /\ Items \subseteq Nat /\ \A n \in 1..(at - 1) : n \in Items
  BY <1>2, SizesAssumption DEF Items
<1>4. Entries(at) = 0 /\ at \notin batch
  BY <1>2, <1>3
<1>5. CASE FailItem \/ SkipItem
  <2>1. UNCHANGED <<batch, pc>>
    BY <1>5 DEF FailItem, SkipItem
  <2>2. /\ added \in [Items -> Nat] /\ skipped \in [Items -> Nat]
        /\ failed \in [Items -> Nat]
    BY DEF Typed, Types
  <2>3. \A n \in Items : Entries(n)' = IF n = at THEN 1 ELSE Entries(n)
    <3>1. CASE FailItem
      BY <1>3, <1>4, <2>2, <3>1, EnteredTyped DEF FailItem, Entries
    <3>2. CASE SkipItem
      BY <1>3, <1>4, <2>2, <3>2, EnteredTyped DEF SkipItem, Entries
    <3> QED
      BY <1>5, <3>1, <3>2
  <2> QED
    BY <1>2, <1>3, <1>4, <2>1, <2>3
<1>6. CASE Queue
  <2>1. /\ batch' = batch \cup {at} /\ pc' \in {"items", "fullFlush"}
        /\ \A n \in Items : Entries(n)' = Entries(n)
    BY <1>6 DEF Queue, result, Entries
  <2> QED
    BY <1>2, <1>3, <1>4, <2>1
<1> QED
  BY <1>5, <1>6 DEF ItemStep, NoTmdbId, Duplicate, NoTvdbId, NotWanted, NotFound

\* A flush, whatever becomes of its request, enters every item of its batch.
LEMMA FlushEnters ==
  ASSUME Typed, Post \/ PostFails
  PROVE  \A n \in Items : /\ n \in batch => Entries(n)' = Entries(n) + 1
                          /\ n \notin batch => Entries(n)' = Entries(n)
<1>1. added \in [Items -> Nat] /\ skipped \in [Items -> Nat] /\ failed \in [Items -> Nat]
  BY DEF Typed, Types
<1>2. CASE Post
  <2> DEFINE fresh == {n \in batch : LibraryId(n) \in BatchIds \ Library}
  <2>1. /\ added' = Entered(added, fresh)
        /\ skipped' = Entered(skipped, batch \ fresh)
        /\ failed' = failed
    BY <1>2 DEF Post
  <2> HIDE DEF fresh
  <2>2. fresh \subseteq batch
    BY DEF fresh
  <2> QED
    BY <1>1, <2>1, <2>2, EnteredTyped DEF Entries
<1>3. CASE PostFails
  BY <1>1, <1>3, EnteredTyped DEF PostFails, Entries
<1> QED
  BY <1>2, <1>3

\* After a full batch the counting starts over with an empty one; after the
\* others the import no longer looks at items.
LEMMA CountedFlush ==
  ASSUME Typed, Counted, Post \/ PostFails
  PROVE  Counted'
<1> USE DEF Counted, NothingAhead, OnceSoFar, NoItemLost
<1>1. /\ at' = at /\ at \in Nat /\ batch \subseteq 1..(at - 1) /\ at - 1 <= MaxItems
      /\ \A n \in Items : Entries(n) \in Nat
  BY SizesAssumption DEF Post, PostFails, Typed, Types, Entries
<1>2. \/ pc = "fullFlush" /\ pc' = "items" /\ batch' = {}
      \/ pc' \in {"finalFlush", "returned"} /\ batch' = batch
  BY DEF Post, PostFails, AfterFlush, Flushing
<1>3. \A n \in 1..(at - 1) : n \in Items
  BY <1>1, SizesAssumption DEF Items
<1>4. NothingAhead'
  BY <1>1, FlushEnters DEF Items
<1>5. OnceSoFar'
  BY <1>1, <1>2, FlushEnters
<1>6. NoItemLost'
  BY <1>1, <1>2, <1>3, FlushEnters
<1> QED
  BY <1>4, <1>5, <1>6

\* In every import each item is counted on its way.
LEMMA CountedInvariant == Spec => []Counted
<1>1. Init => Counted
  BY SizesAssumption DEF Init, Counted, NothingAhead, OnceSoFar, NoItemLost, Entries, Items
<1>2. Typed /\ Counted /\ [Next]_vars => Counted'
  BY CountedQuiet, CountedItem, CountedFlush DEF Next, ItemStep, QuietStep
<1> QED
  BY <1>1, <1>2, TypedInvariant, PTL DEF Spec

\* No item the loop has passed is missing from the result, through failing
\* requests and the stop event, for any number of items and any batch size.
THEOREM NothingLost == Spec => []NoItemLost
<1>1. Counted => NoItemLost
  BY DEF Counted
<1> QED
  BY <1>1, CountedInvariant, PTL

\* While no stop event is seen no item is counted twice.
THEOREM NothingCountedTwice == Spec => []CountedOnce
<1>1. Typed /\ Counted => CountedOnce
  BY DEF Typed, Types, Counted, OnceSoFar, CountedOnce, Entries
<1> QED
  BY <1>1, TypedInvariant, CountedInvariant, PTL

\* Of the flushes that leave their batch as it is only the last can enter an
\* item that has an entry.
AtMostTwo ==
    \A n \in Items :
        /\ Entries(n) \in 0..2
        /\ pc = "stopFlush" => Entries(n) = 0 \/ (Entries(n) = 1 /\ n \notin batch)
        /\ pc = "finalFlush" => Entries(n) <= 1

\* A flush enters its batch once.
LEMMA AtMostTwoFlush ==
  ASSUME Typed, Counted, AtMostTwo, Post \/ PostFails
  PROVE  AtMostTwo'
<1>1. \/ pc = "fullFlush" /\ pc' = "items"
      \/ pc = "stopFlush" /\ pc' = "finalFlush"
      \/ pc = "finalFlush" /\ pc' = "returned"
  BY DEF Post, PostFails, AfterFlush, Flushing
<1>2. ASSUME NEW n \in Items
      PROVE  /\ Entries(n) <= 1
             /\ n \in batch /\ pc = "stopFlush" => Entries(n) = 0
  BY <1>1 DEF AtMostTwo, Counted, OnceSoFar
<1>3. \A n \in Items : Entries(n)' \in {Entries(n), Entries(n) + 1}
  BY FlushEnters
<1>4. \A n \in Items : Entries(n) \in Nat
  BY DEF AtMostTwo
<1> QED
  BY <1>1, <1>2, <1>3, <1>4, FlushEnters DEF AtMostTwo

\* Every import is well typed, and enters no item more than twice, however many
\* items TMDB returns and whichever requests fail.
THEOREM TypeCorrect == Spec => []TypeOK
<1>1. Init => AtMostTwo
  BY DEF Init, AtMostTwo, Entries
<1>2. Typed /\ Counted /\ Counted' /\ AtMostTwo /\ [Next]_vars => AtMostTwo'
  <2> SUFFICES ASSUME Typed, Counted, Counted', AtMostTwo, [Next]_vars
               PROVE  AtMostTwo'
    OBVIOUS
  <2>1. CASE QuietStep
    <3>1. UNCHANGED <<batch, added, skipped, failed>>
      BY <2>1 DEF QuietStep, Refuse, Preflight, Fetch, Stop, OtherAdds, SeeStop, EndOfItems,
             vars, result
    <3>2. pc' \in {"stopFlush", "finalFlush"} => pc' = pc \/ pc = "items"
      BY <2>1 DEF QuietStep, Refuse, Preflight, Fetch, Stop, OtherAdds, SeeStop, EndOfItems, vars
    <3> QED
      BY <3>1, <3>2 DEF AtMostTwo, Entries, Counted, OnceSoFar
  <2>2. CASE ItemStep
    <3>1. pc' \in {"items", "fullFlush"}
      BY <2>2 DEF ItemStep, NoTmdbId, Duplicate, NoTvdbId, NotWanted, NotFound, Queue, NextItem,
             FailItem, SkipItem
    <3> QED
      BY <3>1 DEF AtMostTwo, Counted, OnceSoFar
  <2> QED
    BY <2>1, <2>2, AtMostTwoFlush DEF Next, ItemStep, QuietStep
<1>3. Typed /\ AtMostTwo => TypeOK
  BY DEF Typed, AtMostTwo, TypeOK
<1> QED
  BY <1>1, <1>2, <1>3, TypedInvariant, CountedInvariant, PTL DEF Spec

(***************************************************************************)
(* The result and the library                                              *)
(***************************************************************************)

\* Queued, and perhaps flushed since: what an answer can report as added.
Queued(n) == n \in batch \/ added[n] > 0

QueuedHasId ==
    \A n \in 1..Len(media) : Queued(n) => media[n] \in Ids /\ LibraryId(n) \in Ids

Reported == QueuedHasId /\ AddedIsImported /\ ImportedIsReported

\* seen_ids are the ids of the queued items, and no id is queued twice.
SeenQueued ==
    /\ \A n \in 1..Len(media) : Queued(n) => media[n] \in seen
    /\ \A m, n \in 1..Len(media) : Queued(m) /\ Queued(n) /\ media[m] = media[n] => m = n

\* The positions of the list are items.
LEMMA ListInItems ==
  ASSUME Typed
  PROVE  /\ \A n \in 1..Len(media) : n \in Items
         /\ added \in [Items -> Nat] /\ failed \in [Items -> Nat]
         /\ \A n \in batch : n \in 1..Len(media)
         /\ \A i \in Ids : library[i] \in {"absent", "present", "imported"}
<1>1. Len(media) \in Nat /\ Len(media) <= MaxItems /\ at \in 1..(Len(media) + 1)
  BY DEF Typed, Types
<1> QED
  BY <1>1, SizesAssumption, SMTT(30) DEF Typed, Types, Items

\* Before TMDB has answered nothing is entered, and nothing imported.
LEMMA ReportedFetch ==
  ASSUME Typed, Typed', Counted, Reported, SeenQueued, Fetch
  PROVE  Reported' /\ SeenQueued'
<1>1. at = 1 /\ batch = {} /\ UNCHANGED <<batch, added, failed, library, at>>
  BY DEF Fetch, Typed, AtStart, result
<1>2. \A n \in Items : added[n] = 0 /\ failed[n] = 0
  <2>1. \A n \in Items : added[n] \in Nat /\ skipped[n] \in Nat /\ failed[n] \in Nat /\ n >= 1
    BY SizesAssumption DEF Typed, Types, Items
  <2> QED
    BY <1>1, <2>1 DEF Counted, NothingAhead, Entries
<1>3. \A i \in Ids : library[i] # "imported"
  BY <1>2, ListInItems DEF Reported, ImportedIsReported
<1>4. \A n \in 1..Len(media') : n \in Items
  BY SizesAssumption DEF Typed, Types, Items
<1>5. \A n \in 1..Len(media') : ~Queued(n)'
  BY <1>1, <1>2, <1>4 DEF Queued
<1> QED
  BY <1>1, <1>2, <1>3, <1>4, <1>5
     DEF Reported, QueuedHasId, AddedIsImported, ImportedIsReported, SeenQueued

\* Others add to the library, but not in the name of this import.
LEMMA ReportedQuiet ==
  ASSUME Typed, Reported, SeenQueued, QuietStep, ~Fetch
  PROVE  Reported' /\ SeenQueued'
<1>1. UNCHANGED <<idIn, media, batch, added, failed, seen>>
  BY DEF QuietStep, Refuse, Preflight, Stop, OtherAdds, SeeStop, EndOfItems, vars, result, service
<1>2. \A i \in Ids : library'[i] = "imported" <=> library[i] = "imported"
  <2>1. CASE OtherAdds
    BY <2>1 DEF OtherAdds, Library, Typed, Types
  <2>2. CASE UNCHANGED library
    BY <2>2
  <2> QED
    BY <2>1, <2>2 DEF QuietStep, Refuse, Preflight, Stop, SeeStop, EndOfItems, vars
<1> QED
  BY <1>1, <1>2 DEF Reported, QueuedHasId, AddedIsImported, ImportedIsReported, SeenQueued,
     Queued, LibraryId

\* Only an item with an id that is not yet queued is queued.
LEMMA ReportedItem ==
  ASSUME Typed, Counted, Reported, SeenQueued, ItemStep
  PROVE  Reported' /\ SeenQueued'
<1>1. NextItem
  BY DEF ItemStep, NoTmdbId, Duplicate, NoTvdbId, NotWanted, NotFound, Queue
<1>2. pc = "items" /\ at <= Len(media)
  BY <1>1 DEF NextItem
<1>3. UNCHANGED <<idIn, media, added, library>>
  BY DEF ItemStep, NoTmdbId, Duplicate, NoTvdbId, NotWanted, NotFound, Queue, FailItem,
         SkipItem, result, service
<1>4. \A n \in 1..Len(media) : failed'[n] >= failed[n] /\ failed[n] \in Nat /\ added[n] \in Nat
  <2>1. CASE FailItem
    <3>1. \A n \in Items : failed'[n] = IF n = at THEN failed[n] + 1 ELSE failed[n]
      BY <2>1 DEF FailItem, Entered
    <3> QED
      BY <3>1, ListInItems
  <2>2. CASE SkipItem
    BY <2>2, ListInItems DEF SkipItem
  <2>3. CASE Queue
    BY <2>3, ListInItems DEF Queue, result
  <2> QED
    BY <2>1, <2>2, <2>3 DEF ItemStep, NoTmdbId, Duplicate, NoTvdbId, NotWanted, NotFound
<1>5. AddedIsImported' /\ ImportedIsReported'
  <2>1. \A n \in 1..Len(media) : failed'[n] \in Nat
    <3>1. CASE FailItem
      BY <3>1, ListInItems, EnteredTyped DEF FailItem
    <3>2. CASE UNCHANGED failed
      BY <3>2, <1>4
    <3> QED
      BY <3>1, <3>2 DEF ItemStep, NoTmdbId, Duplicate, NoTvdbId, NotWanted, NotFound, Queue,
         SkipItem, result
  <2> QED
    BY <1>3, <1>4, <2>1 DEF Reported, AddedIsImported, ImportedIsReported, LibraryId
<1>6. CASE Queue
  <2>1. /\ media[at] \in Ids \ seen /\ LibraryId(at) \in Ids
        /\ batch' = batch \cup {at} /\ seen' = seen \cup {media[at]}
    BY <1>2, <1>6, CandidateHasId DEF Queue, Candidate, IsNew, Typed
  <2>2. \A n \in 1..Len(media) : Queued(n)' <=> Queued(n) \/ n = at
    <3>1. \A n \in 1..Len(media) : n # at => (Queued(n)' <=> Queued(n))
      BY <1>3, <2>1 DEF Queued
    <3>2. \A n \in 1..Len(media) : n = at => Queued(n)'
      BY <2>1 DEF Queued
    <3> QED
      BY <3>1, <3>2
  <2>3. QueuedHasId'
    BY <1>3, <2>1, <2>2 DEF Reported, QueuedHasId, LibraryId
  <2>4. SeenQueued'
    BY <1>3, <2>1, <2>2 DEF SeenQueued
  <2> QED
    BY <1>5, <2>3, <2>4 DEF Reported
<1>7. CASE UNCHANGED <<batch, seen>>
  BY <1>3, <1>5, <1>7 DEF Reported, QueuedHasId, SeenQueued, Queued, LibraryId
<1> QED
  BY <1>6, <1>7 DEF ItemStep, NoTmdbId, Duplicate, NoTvdbId, NotWanted, NotFound, FailItem,
     SkipItem

\* What the service adds for a batch belongs to items of the batch, and each of
\* these items gets an entry that says so, or one as failed.
LEMMA ReportedFlush ==
  ASSUME Typed, Reported, SeenQueued, Post \/ PostFails
  PROVE  Reported' /\ SeenQueued'
<1> DEFINE gain == {i \in Ids : library'[i] = "imported" /\ library[i] # "imported"}
<1>1. UNCHANGED <<idIn, media, seen>> /\ batch' \subseteq batch
  BY DEF Post, PostFails, AfterFlush, service
<1>2. \A i \in Ids : library[i] = "imported" => library'[i] = "imported"
  BY DEF Post, PostFails, Enter
<1>3. \A n \in 1..Len(media) : /\ added[n] \in Nat /\ failed[n] \in Nat
                               /\ added'[n] >= added[n] /\ failed'[n] >= failed[n]
                               /\ added'[n] \in Nat /\ failed'[n] \in Nat
                               /\ added'[n] > added[n] => n \in batch /\ LibraryId(n) \in gain
                               /\ n \in batch /\ LibraryId(n) \in gain
                                     => added'[n] + failed'[n] > 0
  <2>1. CASE Post
    <3> DEFINE fresh == {n \in batch : LibraryId(n) \in BatchIds \ Library}
    <3>1. added' = Entered(added, fresh) /\ failed' = failed
      BY <2>1 DEF Post
    <3>2. \A n \in batch : n \in fresh <=> LibraryId(n) \in gain
      <4>1. \A n \in batch : LibraryId(n) \in Ids /\ LibraryId(n) \in BatchIds
        BY ListInItems DEF Reported, QueuedHasId, Queued, BatchIds
      <4>2. Enter(BatchIds \ Library)
        BY <2>1 DEF Post
      <4> QED
        BY <4>1, <4>2, ListInItems DEF Enter, Library
    <3>3. fresh \subseteq batch
      OBVIOUS
    <3> HIDE DEF fresh, gain
    <3>4. \A n \in Items : added'[n] = IF n \in fresh THEN added[n] + 1 ELSE added[n]
      BY <3>1 DEF Entered
    <3> QED
      BY <3>1, <3>2, <3>3, <3>4, ListInItems
  <2>2. CASE PostFails
    <3>1. failed' = Entered(failed, batch) /\ added' = added
      BY <2>2 DEF PostFails
    <3> HIDE DEF gain
    <3> QED
      BY <3>1, ListInItems, EnteredTyped
  <2> QED
    BY <2>1, <2>2
<1>4. \A i \in gain : \E n \in batch : LibraryId(n) = i
  BY DEF Post, PostFails, Enter, BatchIds
<1>5. \A n \in batch : n \in 1..Len(media)
  BY ListInItems
<1> HIDE DEF gain
<1>6. \A n \in 1..Len(media) : Queued(n)' => Queued(n)
  BY <1>1, <1>3 DEF Queued
<1>7. QueuedHasId' /\ SeenQueued'
  BY <1>1, <1>6 DEF Reported, QueuedHasId, SeenQueued, LibraryId
<1>8. AddedIsImported'
  <2> SUFFICES ASSUME NEW n \in 1..Len(media), added'[n] > 0
               PROVE  library'[LibraryId(n)] = "imported"
    BY <1>1 DEF AddedIsImported, LibraryId
  <2>1. CASE added[n] > 0
    BY <1>2, <2>1 DEF Reported, AddedIsImported, QueuedHasId, Queued
  <2>2. CASE ~(added[n] > 0)
    BY <1>3, <2>2 DEF gain
  <2> QED
    BY <2>1, <2>2
<1>9. ImportedIsReported'
  <2> SUFFICES ASSUME NEW i \in Ids, library'[i] = "imported"
               PROVE  \E n \in 1..Len(media) :
                         media[n] \in Ids /\ LibraryId(n) = i /\ added'[n] + failed'[n] > 0
    BY <1>1 DEF ImportedIsReported, LibraryId
  <2>1. CASE library[i] = "imported"
    BY <1>3, <2>1 DEF Reported, ImportedIsReported
  <2>2. CASE i \in gain
    BY <1>3, <1>4, <1>5, <2>2 DEF Reported, QueuedHasId, Queued
  <2> QED
    BY <2>1, <2>2 DEF gain
<1> QED
  BY <1>7, <1>8, <1>9 DEF Reported

\* In every import the result and the library agree.
LEMMA ReportedInvariant == Spec => [](Reported /\ SeenQueued)
<1>1. Init => Reported /\ SeenQueued
  BY DEF Init, Reported, SeenQueued, QueuedHasId, AddedIsImported, ImportedIsReported
<1>2. Typed /\ Typed' /\ Counted /\ Reported /\ SeenQueued /\ [Next]_vars
        => Reported' /\ SeenQueued'
  BY ReportedFetch, ReportedQuiet, ReportedItem, ReportedFlush DEF Next, ItemStep, QuietStep
<1> QED
  BY <1>1, <1>2, TypedInvariant, CountedInvariant, PTL DEF Spec

\* What is reported as added was added by this import.
THEOREM AddedWasImported == Spec => []AddedIsImported
<1>1. Reported => AddedIsImported
  BY DEF Reported
<1> QED
  BY <1>1, ReportedInvariant, PTL

\* Nothing is added to the library without a word in the result.
THEOREM ImportedWasReported == Spec => []ImportedIsReported
<1>1. Reported => ImportedIsReported
  BY DEF Reported
<1> QED
  BY <1>1, ReportedInvariant, PTL

\* No TMDB id is reported as added twice.
THEOREM AddedOnce == Spec => []AddedOncePerId
<1>1. SeenQueued => AddedOncePerId
  BY DEF SeenQueued, Queued, AddedOncePerId
<1> QED
  BY <1>1, ReportedInvariant, PTL

=============================================================================
