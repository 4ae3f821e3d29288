------------------------------- MODULE TmdbFeed -------------------------------
(***************************************************************************)
(* What a list fetches from TMDB: the loop over pages (_fetch_tmdb_items)  *)
(* and the caches that it reads them through (tmdb_cache), shared by the   *)
(* threads of one worker that run imports or show the wizard's preview.    *)
(*                                                                         *)
(* A feed is a list type with its discover filters.  TMDB ranks Total      *)
(* items for a feed in a region and gives them in pages; a request may     *)
(* fail, and the client then returns an empty page.                        *)
(***************************************************************************)
EXTENDS Integers, Sequences, FiniteSets

CONSTANTS
    Threads,
    Feeds, Regional,    \* feeds; those that TMDB answers by region
    Regions, None,      \* regions one can save; None is worldwide
    Total,              \* items that TMDB ranks for a feed in a region
    PageSize,           \* 20 in the code
    Limits,             \* values of List.limit; 0 is NULL
    MaxPage,            \* bound: pages of the longest list
    Ttl, CacheSize,     \* of the cache that holds a feed
    Cache,              \* the cache that holds a feed
    RequestTime, MaxTime,   \* bounds: ticks a request may last; the clock
    MaxLoops                \* bound: loops

Places == Regions \cup {None}
Keys == Feeds \X (1..MaxPage) \X Places
Items == [feed : Feeds, region : Places, rank : Nat \ {0}]

Answers == [items : Seq(Items), asked : Nat]
Entries == [items : Seq(Items), asked : Nat, until : Nat]
NoAnswer == [items |-> <<>>, asked |-> 0]

\* The lower of two numbers.
Lower(a, b) == IF a < b THEN a ELSE b

\* Mutant: math.floor.
PagesFloor(limit) == IF limit < PageSize THEN 1 ELSE limit \div PageSize

\* limit or 20; math.ceil(limit / 20).
Wanted(limit) == IF limit = 0 THEN PageSize ELSE limit
PagesNeeded(limit) == (limit + PageSize - 1) \div PageSize

ASSUME FeedAssumption ==
    /\ Feeds # {} /\ Regional \subseteq Feeds
    /\ Total \in [Feeds -> [Places -> Nat]]
    /\ PageSize \in Nat \ {0} /\ MaxPage \in Nat \ {0}
    /\ Limits \subseteq Nat
    /\ \A limit \in Limits \cup {0} : Wanted(limit) <= PageSize * MaxPage
    /\ Ttl \in [Feeds -> Nat \ {0}] /\ CacheSize \in Nat \ {0}
    /\ RequestTime \in Nat /\ MaxTime \in Nat /\ MaxLoops \in Nat
ASSUME NoneAssumption == None \notin Threads /\ None \notin Entries

VARIABLES
    now,        \* the clock of the caches
    region,     \* ServiceConfig.tmdb_region
    entries,    \* what the caches hold, None if nothing
    lock,       \* who holds _cache_lock
    pc, pass,   \* where a thread is; the feed, region and limit of its loop
    page, got,  \* the page it is at and all_items
    place,      \* the region in the key of its page
    answer,     \* what TMDB has just answered to it
    missed,     \* history: a request of the loop has failed
    strayed,    \* history: a query for the region has failed in the loop
    loops       \* counter of the bound

thread == <<pc, pass, page, got, place, answer, missed, strayed>>
vars == <<now, region, entries, lock, thread, loops>>

----------------------------------------------------------------------------
(* TMDB and the keys                                                       *)

\* Only some requests carry the region.
RegionOf(feed, r) == IF feed \in Regional THEN r ELSE None
Home(t) == RegionOf(pass[t].feed, pass[t].region)

\* A page of TMDB's ranking.
PageOf(feed, r, p) ==
    LET before == PageSize * (p - 1)
        rest == Total[feed][r] - before
    IN  [i \in 1..(IF rest < 0 THEN 0 ELSE Lower(PageSize, rest)) |->
            [feed |-> feed, region |-> r, rank |-> before + i]]

\* Mutant: the region is not in the key.
KeyWithoutRegion(feed, p, r) == <<feed, p, None>>

\* cache_key: the region is in the key exactly if it is in the request.
Key(feed, p, r) == <<feed, p, RegionOf(feed, r)>>
KeyOf(t) == Key(pass[t].feed, page[t], place[t])

\* TTLCache.__contains__.
Live(k) == entries[k] # None /\ now < entries[k].until

----------------------------------------------------------------------------
(* The loop over the pages                                                 *)

Resting == {"idle", "returned", "raised"}

\* The thread moves on.
Goto(t, from, to) == pc[t] = from /\ pc' = [pc EXCEPT ![t] = to]

\* Mutant: the items are not cut to the limit.
Uncut(items, limit) == items

\* all_items[:limit], after the loop.
Cut(items, limit) == SubSeq(items, 1, Lower(Len(items), limit))

\* _get_tmdb_region, for every page of a feed that has a region: the one of the
\* row that the session has read for the API key, however it is saved since,
\* and worldwide if the query fails.
RegionRead(feed, saved) == IF feed \in Regional THEN {saved, None} ELSE {None}
Locate(t, feed, saved, before) ==
    \E p \in RegionRead(feed, saved) :
        /\ place' = [place EXCEPT ![t] = p]
        /\ strayed' = [strayed EXCEPT ![t] = before \/ p # RegionOf(feed, saved)]

\* The page is added to all_items: the loop stops after a short page, with
\* enough items, or with the last page needed.
Take(t, from, items) ==
    LET limit == Wanted(pass[t].limit)
        all == got[t] \o items
    IN  \/ /\ \/ Len(items) < PageSize
              \/ Len(all) >= limit
              \/ page[t] = PagesNeeded(limit)
           /\ Goto(t, from, "returned")
           /\ got' = [got EXCEPT ![t] = Cut(all, limit)]
           /\ UNCHANGED <<page, place, strayed>>
        \/ /\ Len(items) >= PageSize
           /\ Len(all) < limit
           /\ page[t] # PagesNeeded(limit)
           /\ Goto(t, from, "lookup")
           /\ got' = [got EXCEPT ![t] = all]
           /\ page' = [page EXCEPT ![t] = @ + 1]
           /\ Locate(t, pass[t].feed, pass[t].region, strayed[t])

\* A loop starts, with the TMDB row that its thread has read for the API key.
Begin(t, feed, limit) ==
    /\ pc[t] \in Resting
    /\ loops < MaxLoops /\ loops' = loops + 1
    /\ pc' = [pc EXCEPT ![t] = "lookup"]
    /\ pass' = [pass EXCEPT ![t] = [feed |-> feed, region |-> region, limit |-> limit]]
    /\ page' = [page EXCEPT ![t] = 1]
    /\ got' = [got EXCEPT ![t] = <<>>]
    /\ Locate(t, feed, region, FALSE)
    /\ missed' = [missed EXCEPT ![t] = FALSE]
    /\ UNCHANGED <<now, region, entries, lock, answer>>

\* import_list fetches up to the limit, wizard_preview the first page.
Import(t) == \E feed \in Feeds, limit \in Limits : Begin(t, feed, limit)
Preview(t) == \E feed \in Feeds : Begin(t, feed, 0)

----------------------------------------------------------------------------
(* The caches                                                              *)

\* cache_key in cache, under the lock: it keeps the lock for the lookup.
Find(t) ==
    /\ Goto(t, "lookup", "found")
    /\ lock = None /\ Live(KeyOf(t))
    /\ lock' = t
    /\ UNCHANGED <<now, region, entries, pass, page, got, place, answer, missed, strayed, loops>>

Miss(t) ==
    /\ Goto(t, "lookup", "fetch")
    /\ lock = None /\ ~Live(KeyOf(t))
    /\ UNCHANGED <<now, region, entries, lock, pass, page, got, place, answer, missed, strayed, loops>>

\* cache[cache_key].
Read(t) ==
    /\ pc[t] = "found" /\ Live(KeyOf(t))
    /\ Take(t, "found", entries[KeyOf(t)].items)
    /\ lock' = None
    /\ UNCHANGED <<now, region, entries, pass, answer, missed, loops>>

\* Mutant: the lock is not released when the lookup raises.
LapseKeepsLock(t) ==
    /\ Goto(t, "found", "raised")
    /\ ~Live(KeyOf(t))
    /\ UNCHANGED <<now, region, entries, lock, pass, page, got, place, answer, missed, strayed, loops>>

\* The entry has expired since it was found: KeyError, up to the caller.
Lapse(t) ==
    /\ Goto(t, "found", "raised")
    /\ ~Live(KeyOf(t))
    /\ lock' = None
    /\ UNCHANGED <<now, region, entries, pass, page, got, place, answer, missed, strayed, loops>>

\* The request, without the lock.
Fetch(t) ==
    /\ Goto(t, "fetch", "store")
    /\ \/ /\ answer' = [answer EXCEPT ![t] =
                [items |-> PageOf(pass[t].feed, RegionOf(pass[t].feed, place[t]), page[t]),
                 asked |-> now]]
          /\ UNCHANGED missed
       \/ /\ answer' = [answer EXCEPT ![t] = [items |-> <<>>, asked |-> now]]
          /\ missed' = [missed EXCEPT ![t] = TRUE]
    /\ UNCHANGED <<now, region, entries, lock, pass, page, got, place, strayed, loops>>

\* TTLCache.__setitem__: what has expired goes, then one entry if the cache is
\* full, then the new entry comes.
Mates(k) == {j \in Keys \ {k} : Cache[j[1]] = Cache[k[1]] /\ Live(j)}
Put(k, entry) ==
    \E evicted \in IF Cardinality(Mates(k)) >= CacheSize
                   THEN {{j} : j \in Mates(k)} ELSE {{}} :
        entries' = [j \in Keys |->
            IF j = k THEN entry
            ELSE IF Cache[j[1]] = Cache[k[1]] /\ j \notin Mates(k) \ evicted
                 THEN None ELSE entries[j]]

\* Mutant: the entry is stored without the lock.
StoreUnlocked(t) ==
    /\ pc[t] = "store" /\ answer[t].items # <<>>
    /\ Put(KeyOf(t), [items |-> answer[t].items, asked |-> answer[t].asked,
                      until |-> now + Ttl[pass[t].feed]])
    /\ Take(t, "store", answer[t].items)
    /\ answer' = [answer EXCEPT ![t] = NoAnswer]
    /\ UNCHANGED <<now, region, lock, pass, missed, loops>>

\* Mutant: the time of an entry is counted from its expiry.
StoreLonger(t) ==
    /\ pc[t] = "store" /\ answer[t].items # <<>>
    /\ lock = None
    /\ Put(KeyOf(t), [items |-> answer[t].items, asked |-> answer[t].asked,
                      until |-> now + Ttl[pass[t].feed] + 1])
    /\ Take(t, "store", answer[t].items)
    /\ answer' = [answer EXCEPT ![t] = NoAnswer]
    /\ UNCHANGED <<now, region, lock, pass, missed, loops>>

\* Only a page with items is stored.
Store(t) ==
    /\ pc[t] = "store" /\ answer[t].items # <<>>
    /\ lock = None
    /\ Put(KeyOf(t), [items |-> answer[t].items, asked |-> answer[t].asked,
                      until |-> now + Ttl[pass[t].feed]])
    /\ Take(t, "store", answer[t].items)
    /\ answer' = [answer EXCEPT ![t] = NoAnswer]
    /\ UNCHANGED <<now, region, lock, pass, missed, loops>>

Empty(t) ==
    /\ pc[t] = "store" /\ answer[t].items = <<>>
    /\ Take(t, "store", <<>>)
    /\ answer' = [answer EXCEPT ![t] = NoAnswer]
    /\ UNCHANGED <<now, region, entries, lock, pass, missed, loops>>

----------------------------------------------------------------------------
(* The rest of the world                                                   *)

\* save_tmdb_settings; it does not touch the caches.
SaveRegion ==
    /\ \E r \in Places \ {region} : region' = r
    /\ UNCHANGED <<now, entries, lock, thread, loops>>

\* A request ends within RequestTime: the client has timeouts.
Tick ==
    /\ now < MaxTime
    /\ \A t \in Threads : pc[t] = "store" => now < answer[t].asked + RequestTime
    /\ now' = now + 1
    /\ UNCHANGED <<region, entries, lock, thread, loops>>

Init ==
    /\ now = 0 /\ region \in Places
    /\ entries = [k \in Keys |-> None]
    /\ lock = None
    /\ pc = [t \in Threads |-> "idle"]
    /\ pass = [t \in Threads |->
                 [feed |-> CHOOSE feed \in Feeds : TRUE, region |-> None, limit |-> 0]]
    /\ page = [t \in Threads |-> 1]
    /\ got = [t \in Threads |-> <<>>]
    /\ answer = [t \in Threads |-> NoAnswer]
    /\ missed = [t \in Threads |-> FALSE]
    /\ place = [t \in Threads |-> None]
    /\ strayed = [t \in Threads |-> FALSE]
    /\ loops = 0

Step(t) ==
    \/ Find(t) \/ Miss(t) \/ Read(t) \/ Lapse(t)
    \/ Fetch(t) \/ Store(t) \/ Empty(t)
Next ==
    \/ SaveRegion \/ Tick
    \/ \E t \in Threads : Import(t) \/ Preview(t) \/ Step(t)

\* A thread that is running goes on; it waits for the lock only while another
\* one looks up its entry.
Fairness == \A t \in Threads : WF_vars(Step(t))
Spec == Init /\ [][Next]_vars
FairSpec == Spec /\ Fairness

----------------------------------------------------------------------------
(* Properties                                                              *)

TypeOK ==
    /\ now \in 0..MaxTime /\ region \in Places
    /\ entries \in [Keys -> Entries \cup {None}]
    /\ lock \in Threads \cup {None}
    /\ pc \in [Threads -> Resting \cup {"lookup", "found", "fetch", "store"}]
    /\ pass \in [Threads -> [feed : Feeds, region : Places, limit : Limits \cup {0}]]
    /\ page \in [Threads -> 1..MaxPage]
    /\ got \in [Threads -> Seq(Items)]
    /\ answer \in [Threads -> Answers]
    /\ missed \in [Threads -> BOOLEAN]
    /\ place \in [Threads -> Places]
    /\ strayed \in [Threads -> BOOLEAN]
    /\ loops \in 0..MaxLoops

\* Threads that share a cache share only TMDB's own answers: an entry is the
\* page that its key names, never empty and never of another region.
EntryIsTrue ==
    \A k \in Keys : entries[k] # None =>
        /\ k[3] = RegionOf(k[1], k[3])
        /\ entries[k].items = PageOf(k[1], k[3], k[2])
        /\ entries[k].items # <<>>

\* The item of the given rank in the region that was saved when the loop began;
\* or worldwide, if a query for the region has failed in the loop.
InRank(t, item, i) ==
    \/ item = [feed |-> pass[t].feed, region |-> Home(t), rank |-> i]
    \/ strayed[t] /\ item = [feed |-> pass[t].feed, region |-> None, rank |-> i]

\* What a list imports has the items of TMDB's ranking for its feed in order,
\* without gaps and within its limit, whoever filled the caches and whatever
\* failed; and all of one region, the one saved when its loop began, unless a
\* query for the region failed in the loop: then pages of the worldwide ranking
\* may take the places of some of them.
TakesTheTop ==
    \A t \in Threads : pc[t] = "returned" =>
        /\ Len(got[t]) <= Wanted(pass[t].limit)
        /\ \A i \in 1..Len(got[t]) : InRank(t, got[t][i], i)

\* A list comes out shorter than its limit only if TMDB has no more items in the
\* saved region, or a request or a query for the region failed in this very
\* loop: no failure is remembered by a cache, and no page is left out by the
\* arithmetic of the loop.
FullUnlessMissed ==
    \A t \in Threads : pc[t] = "returned" /\ ~missed[t] /\ ~strayed[t] =>
        Len(got[t]) = Lower(Wanted(pass[t].limit), Total[pass[t].feed][Home(t)])

\* Between the test and the lookup of a key nothing but time can take its
\* entry away: others store and evict, but not past the lock.
FoundIsThere ==
    \A t \in Threads : pc[t] = "found" => lock = t /\ entries[KeyOf(t)] # None

\* What the caches answer was TMDB's answer no longer ago than the time the
\* feed is kept for and the time its request took.
AnswersAreFresh ==
    [][\A t \in Threads : pc[t] = "found" /\ pc'[t] \in {"lookup", "returned"} =>
          now < entries[KeyOf(t)].asked + RequestTime + Ttl[pass[t].feed]]_vars

\* A loop ends, with its items or with the KeyError of an expired entry, and
\* leaves the lock to the others.
LoopEnds ==
    \A t \in Threads : pc[t] = "lookup" ~> pc[t] \in Resting

=============================================================================
