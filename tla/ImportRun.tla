------------------------------ MODULE ImportRun ------------------------------
(***************************************************************************)
(* One call of import_list (listarr/services/import_service.py): the items *)
(* of a TMDB list are filtered and sent to Radarr or Sonarr in batches,    *)
(* while the idle monitor may set the stop event and other imports and     *)
(* users add to the same library.                                          *)
(*                                                                         *)
(* Radarr knows a movie by its TMDB id; Sonarr knows a series by the TVDB  *)
(* id that TMDB gives for it.  An item is its position in the TMDB list.   *)
(***************************************************************************)
EXTENDS Naturals, Sequences, FiniteSets

CONSTANTS
    Ids,        \* TMDB ids, and the ids of the library
    NoId,       \* an item without an id, a series without a TVDB id
    MaxItems,   \* bound: items that TMDB returns
    BatchSize   \* BATCH_SIZE

ASSUME NoIdAssumption == NoId \notin Ids
ASSUME SizesAssumption == MaxItems \in Nat /\ BatchSize \in Nat \ {0}

Items == 1..MaxItems

VARIABLES
    target,     \* List.target_service
    idIn,       \* the id of a TMDB id in the library of the target
    library,    \* each id of the library: "absent", "present", or "imported"
                \* if this import has added it
    pc,         \* control point
    media,      \* tmdb_items: the ids TMDB returned
    at,         \* the item the loop looks at next
    existing,   \* existing_ids, as read before the loop
    excluded,   \* excluded_ids
    batch,      \* batch and batch_meta: the items that wait for the POST
    seen,       \* seen_ids
    stopped,    \* stop_event.is_set()
    added, skipped, failed  \* ImportResult: entries of each item

result == <<added, skipped, failed>>
service == <<target, idIn, excluded>>
vars == <<service, library, pc, media, at, existing, batch, seen, stopped, result>>

Flushing == {"fullFlush", "stopFlush", "finalFlush"}
PcPoints == {"start", "preflight", "items", "returned"} \cup Flushing

Library == {i \in Ids : library[i] # "absent"}

\* The id under which the library knows item n.
LibraryId(n) == idIn[media[n]]
BatchIds == {LibraryId(n) : n \in batch}

\* Items of S get one more entry in a list of the result.
Entered(entries, S) ==
    [n \in Items |-> IF n \in S THEN entries[n] + 1 ELSE entries[n]]

Init ==
    /\ target \in {"RADARR", "SONARR"}
    /\ idIn \in [Ids -> Ids \cup {NoId}]
    /\ target = "RADARR" => idIn = [i \in Ids |-> i]
    /\ library \in [Ids -> {"absent", "present"}]
    /\ excluded \in SUBSET Ids
    /\ pc = "start"
    /\ media = << >>
    /\ at = 1
    /\ existing = {}
    /\ batch = {}
    /\ seen = {}
    /\ stopped = FALSE
    /\ added = [n \in Items |-> 0]
    /\ skipped = [n \in Items |-> 0]
    /\ failed = [n \in Items |-> 0]

----------------------------------------------------------------------------
(* Before the loop                                                         *)

\* The list, a service, a key or a required setting is missing: the result
\* has one entry that belongs to no item.
Refuse ==
    /\ pc = "start"
    /\ pc' = "returned"
    /\ UNCHANGED <<service, library, media, at, existing, batch, seen, stopped, result>>

\* _fetch_tmdb_items; an empty list ends the import.
Fetch ==
    /\ pc = "start"
    /\ \E n \in 0..MaxItems :
          /\ media' \in [1..n -> Ids \cup {NoId}]
          /\ pc' = IF n = 0 THEN "returned" ELSE "preflight"
    /\ UNCHANGED <<service, library, at, existing, batch, seen, stopped, result>>

\* The ids of the library; a request that fails counts as an empty library.
\* So does one for the exclusions, which Init has already chosen.
Preflight ==
    /\ pc = "preflight"
    /\ pc' = "items"
    /\ existing' \in {Library, {}}
    /\ UNCHANGED <<service, library, media, at, batch, seen, stopped, result>>

----------------------------------------------------------------------------
(* The loop                                                                *)

\* The loop goes on with the next item.
NextItem ==
    /\ pc = "items" /\ at <= Len(media) /\ ~stopped
    /\ at' = at + 1

\* result.failed and result.skipped for the item, without a batch.
FailItem ==
    /\ failed' = Entered(failed, {at})
    /\ UNCHANGED <<service, library, pc, media, existing, batch, seen, stopped, added, skipped>>
SkipItem ==
    /\ skipped' = Entered(skipped, {at})
    /\ UNCHANGED <<service, library, pc, media, existing, batch, seen, stopped, added, failed>>

\* The item gets past the checks for its id and for duplicates.
IsNew == media[at] \in Ids \ seen

NoTmdbId == NextItem /\ media[at] = NoId /\ FailItem

Duplicate == NextItem /\ media[at] \in seen /\ SkipItem

\* The TVDB id of a series is missing or cannot be fetched.
NoTvdbId == NextItem /\ IsNew /\ target = "SONARR" /\ FailItem

\* already_exists, on_exclusion_list
NotWanted ==
    /\ NextItem /\ IsNew
    /\ LibraryId(at) \in existing \cup excluded
    /\ SkipItem

Candidate == IsNew /\ LibraryId(at) \in Ids \ (existing \cup excluded)

\* not_found_in_radarr, not_found_in_sonarr: the id is not marked as seen.
NotFound == NextItem /\ Candidate /\ FailItem

\* Mutant: the id is not remembered.
QueueUnseen ==
    /\ NextItem /\ Candidate
    /\ batch' = batch \cup {at}
    /\ pc' = IF Cardinality(batch') >= BatchSize THEN "fullFlush" ELSE "items"
    /\ UNCHANGED <<service, library, media, existing, seen, stopped, result>>

\* The item joins the batch; a full batch is flushed.
Queue ==
    /\ NextItem /\ Candidate
    /\ batch' = batch \cup {at}
    /\ seen' = seen \cup {media[at]}
    /\ pc' = IF Cardinality(batch') >= BatchSize THEN "fullFlush" ELSE "items"
    /\ UNCHANGED <<service, library, media, existing, stopped, result>>

\* The stop event is seen before the next item.
SeeStop ==
    /\ pc = "items" /\ at <= Len(media) /\ stopped
    /\ pc' = IF batch # {} THEN "stopFlush" ELSE "returned"
    /\ UNCHANGED <<service, library, media, at, existing, batch, seen, stopped, result>>

\* Mutant: the remaining batch is dropped.
EndOfItemsDropsRest ==
    /\ pc = "items" /\ at > Len(media)
    /\ pc' = "returned"
    /\ UNCHANGED <<service, library, media, at, existing, batch, seen, stopped, result>>

\* Flush the remaining batch.
EndOfItems ==
    /\ pc = "items" /\ at > Len(media)
    /\ pc' = IF batch # {} THEN "finalFlush" ELSE "returned"
    /\ UNCHANGED <<service, library, media, at, existing, batch, seen, stopped, result>>

----------------------------------------------------------------------------
(* _flush_movie_batch, _flush_series_batch                                 *)

\* Mutant: the full batch is not reset.
AfterFlushKeeps ==
    /\ pc' = CASE pc = "fullFlush" -> "items"
               [] pc = "stopFlush" -> "finalFlush"
               [] pc = "finalFlush" -> "returned"
    /\ UNCHANGED batch

\* Mutant: no break follows the flush for the stop event.
AfterFlushGoesOn ==
    /\ pc' = IF pc = "finalFlush" THEN "returned" ELSE "items"
    /\ batch' = IF pc = "fullFlush" THEN {} ELSE batch

\* Only a full batch is reset: what is flushed for the stop event comes to
\* the flush after the loop again.
AfterFlush ==
    /\ pc' = CASE pc = "fullFlush" -> "items"
               [] pc = "stopFlush" -> "finalFlush"
               [] pc = "finalFlush" -> "returned"
    /\ batch' = IF pc = "fullFlush" THEN {} ELSE batch

Enter(ids) == library' = [i \in Ids |-> IF i \in ids THEN "imported" ELSE library[i]]

\* Mutant: every item of the batch counts as added.
PostCountsAll ==
    /\ pc \in Flushing
    /\ Enter(BatchIds \ Library)
    /\ added' = Entered(added, batch)
    /\ AfterFlush
    /\ UNCHANGED <<service, media, at, existing, seen, stopped, skipped, failed>>

\* The service adds what it lacks and answers with what it has added.
Post ==
    /\ pc \in Flushing
    /\ LET new == BatchIds \ Library
           isNew == {n \in batch : LibraryId(n) \in new}
       IN  /\ Enter(new)
           /\ added' = Entered(added, isNew)
           /\ skipped' = Entered(skipped, batch \ isNew)
    /\ AfterFlush
    /\ UNCHANGED <<service, media, at, existing, seen, stopped, failed>>

\* Mutant: a lost answer is taken for an empty one.
PostFailsSkips ==
    /\ pc \in Flushing
    /\ \E ids \in SUBSET (BatchIds \ Library) : Enter(ids)
    /\ skipped' = Entered(skipped, batch)
    /\ AfterFlush
    /\ UNCHANGED <<service, media, at, existing, seen, stopped, added, failed>>

\* The request raises, but some or all of it may have been carried out.
PostFails ==
    /\ pc \in Flushing
    /\ \E ids \in SUBSET (BatchIds \ Library) : Enter(ids)
    /\ failed' = Entered(failed, batch)
    /\ AfterFlush
    /\ UNCHANGED <<service, media, at, existing, seen, stopped, added, skipped>>

----------------------------------------------------------------------------
(* Other threads and users                                                 *)

\* The idle monitor sets the stop event.
Stop ==
    /\ pc # "returned" /\ ~stopped
    /\ stopped' = TRUE
    /\ UNCHANGED <<service, library, pc, media, at, existing, batch, seen, result>>

\* The import of another list, or a user, adds to the library.
OtherAdds ==
    /\ pc # "returned"
    /\ \E i \in Ids \ Library : library' = [library EXCEPT ![i] = "present"]
    /\ UNCHANGED <<service, pc, media, at, existing, batch, seen, stopped, result>>

Next ==
    \/ Refuse \/ Fetch \/ Preflight
    \/ NoTmdbId \/ Duplicate \/ NoTvdbId \/ NotWanted \/ NotFound \/ Queue
    \/ SeeStop \/ EndOfItems
    \/ Post \/ PostFails
    \/ Stop \/ OtherAdds

Spec == Init /\ [][Next]_vars

----------------------------------------------------------------------------
(* Properties                                                              *)

Entries(n) == added[n] + skipped[n] + failed[n]

Types ==
    /\ target \in {"RADARR", "SONARR"}
    /\ idIn \in [Ids -> Ids \cup {NoId}]
    /\ library \in [Ids -> {"absent", "present", "imported"}]
    /\ pc \in PcPoints
    /\ media \in Seq(Ids \cup {NoId}) /\ Len(media) <= MaxItems
    /\ at \in 1..(Len(media) + 1)
    /\ existing \subseteq Ids /\ excluded \subseteq Ids
    /\ batch \subseteq 1..(at - 1)
    /\ seen \subseteq Ids
    /\ stopped \in BOOLEAN
    /\ added \in [Items -> Nat] /\ skipped \in [Items -> Nat] /\ failed \in [Items -> Nat]

\* Every variable keeps its type; no item gets more than two entries, however
\* the full flush, the flush for the stop event and the last one meet.
TypeOK ==
    /\ Types
    /\ \A n \in Items : Entries(n) <= 2

\* Every item the loop has passed is in the result or waits in the batch, and
\* when the import returns it is in the result: neither a failing request nor
\* the stop event loses an item.
NoItemLost ==
    \A n \in 1..(at - 1) : Entries(n) > 0 \/ (n \in batch /\ pc # "returned")

\* Until the stop event is seen no item is counted twice: it has one entry or
\* waits in the batch, never both.
CountedOnce ==
    pc \in {"items", "fullFlush"} =>
        \A n \in Items : Entries(n) + (IF n \in batch THEN 1 ELSE 0) <= 1

\* An item is reported as added only if this import put it into the library,
\* whoever else adds to it meanwhile.
AddedIsImported ==
    \A n \in 1..Len(media) : added[n] > 0 => library[LibraryId(n)] = "imported"

\* Whatever this import puts into the library is reported: as added, or as
\* failed when the answer was lost.
ImportedIsReported ==
    \A i \in Ids : library[i] = "imported" =>
        \E n \in 1..Len(media) :
            media[n] \in Ids /\ LibraryId(n) = i /\ added[n] + failed[n] > 0

\* A movie or series that TMDB lists twice, say on two of its pages, is reported
\* as added once.
AddedOncePerId ==
    \A m, n \in 1..Len(media) :
        media[m] = media[n] /\ added[m] > 0 /\ added[n] > 0 => m = n

\* ImportResult.total is the number of items processed: no item has two entries.
TotalIsExact == \A n \in Items : Entries(n) <= 1

=============================================================================
