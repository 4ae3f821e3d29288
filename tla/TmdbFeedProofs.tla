---------------------------- MODULE TmdbFeedProofs ----------------------------
(***************************************************************************)
(* What a list imports is the top of TMDB's ranking, for any number of     *)
(* threads, feeds, regions and pages, any size of page and cache and any   *)
(* times: the invariants of TmdbFeed and the freshness of its answers.     *)
(***************************************************************************)
EXTENDS TmdbFeed, TLAPS

----------------------------------------------------------------------------
(* Rankings and pages                                                      *)

\* After the full pages before it, a page has what is left of the ranking.
LEMMA PageType ==
  ASSUME NEW f \in Feeds, NEW r \in Places, NEW p \in 1..MaxPage
  PROVE  /\ PageSize * (p - 1) \in Nat
         /\ PageOf(f, r, p) \in Seq(Items)
         /\ PageSize * (p - 1) <= Total[f][r] =>
               Len(PageOf(f, r, p)) = Lower(PageSize, Total[f][r] - PageSize * (p - 1))
         /\ Len(PageOf(f, r, p)) <= PageSize
         /\ \A i \in 1..Len(PageOf(f, r, p)) :
               PageOf(f, r, p)[i] =
                  [feed |-> f, region |-> r, rank |-> PageSize * (p - 1) + i]
<1> DEFINE before == PageSize * (p - 1)
           n == IF Total[f][r] - before < 0 THEN 0
                ELSE Lower(PageSize, Total[f][r] - before)
<1>1. before \in Nat /\ Total[f][r] \in Nat /\ PageSize \in Nat
  BY FeedAssumption
<1> HIDE DEF before
<1>2. n \in Nat
  BY <1>1 DEF Lower
<1>3. PageOf(f, r, p) = [i \in 1..n |-> [feed |-> f, region |-> r, rank |-> before + i]]
  BY DEF PageOf, before
<1> HIDE DEF n
<1>4. \A i \in 1..n : [feed |-> f, region |-> r, rank |-> before + i] \in Items
  BY <1>1, <1>2 DEF Items
<1>5. PageOf(f, r, p) \in Seq(Items) /\ Len(PageOf(f, r, p)) = n
  BY <1>2, <1>3, <1>4
<1>6. n <= PageSize
  BY <1>1 DEF n, Lower
<1>7. \A i \in 1..n :
         PageOf(f, r, p)[i] = [feed |-> f, region |-> r, rank |-> before + i]
  BY <1>3
<1>8. before <= Total[f][r] => n = Lower(PageSize, Total[f][r] - before)
  BY <1>1 DEF n, Lower
<1> HIDE DEF n
<1>9. /\ before <= Total[f][r] =>
            Len(PageOf(f, r, p)) = Lower(PageSize, Total[f][r] - before)
      /\ Len(PageOf(f, r, p)) <= PageSize
      /\ \A i \in 1..Len(PageOf(f, r, p)) :
            PageOf(f, r, p)[i] = [feed |-> f, region |-> r, rank |-> before + i]
  BY <1>5, <1>6, <1>7, <1>8
<1> QED
  BY <1>1, <1>5, <1>9 DEF before

\* A page after the full pages before it, and the cut to the limit, leave every
\* item in its rank, whichever items have it.
LEMMA PageContinues ==
  ASSUME NEW have \in Seq(Items), NEW one \in Seq(Items), NEW limit \in Nat
  PROVE  /\ (have \o one) \in Seq(Items) /\ Len(have \o one) = Len(have) + Len(one)
         /\ \A i \in 1..Len(have) : (have \o one)[i] = have[i]
         /\ \A i \in 1..Len(one) : (have \o one)[Len(have) + i] = one[i]
         /\ Cut(have \o one, limit) \in Seq(Items)
         /\ Len(Cut(have \o one, limit)) = Lower(Len(have) + Len(one), limit)
         /\ \A i \in 1..Len(Cut(have \o one, limit)) :
               Cut(have \o one, limit)[i] = (have \o one)[i]
<1> DEFINE all == have \o one
           m == Lower(Len(all), limit)
<1>1. /\ all \in Seq(Items) /\ Len(all) = Len(have) + Len(one)
      /\ \A i \in 1..Len(have) : all[i] = have[i]
      /\ \A i \in 1..Len(one) : all[Len(have) + i] = one[i]
  OBVIOUS
<1> HIDE DEF all
<1>2. m \in Nat /\ m <= Len(all)
  BY <1>1 DEF Lower
<1>3. Cut(all, limit) = SubSeq(all, 1, m)
  BY DEF Cut
<1> HIDE DEF m
<1>4. /\ SubSeq(all, 1, m) \in Seq(Items) /\ Len(SubSeq(all, 1, m)) = m
      /\ \A i \in 1..m : SubSeq(all, 1, m)[i] = all[i]
  BY <1>1, <1>2
<1>5. m = Lower(Len(have) + Len(one), limit)
  BY <1>1 DEF m
<1> QED
  BY <1>1, <1>3, <1>4, <1>5 DEF all

\* The pages needed hold the limit.
LEMMA PagesHoldLimit ==
  ASSUME NEW limit \in Nat
  PROVE  PagesNeeded(limit) \in Int /\ PageSize * PagesNeeded(limit) >= limit
<1> DEFINE a == limit + PageSize - 1
<1>1. PageSize \in Nat \ {0} /\ a \in Int
  BY FeedAssumption
<1> HIDE DEF a
<1>2. a \div PageSize \in Int /\ a % PageSize \in 0..(PageSize - 1)
  BY <1>1
<1>3. PageSize * (a \div PageSize) + (a % PageSize) = a
  BY <1>1
<1>4. PageSize * (a \div PageSize) \in Int
  BY <1>1, <1>2
<1>5. a = limit + PageSize - 1
  BY DEF a
<1>6. PageSize * (a \div PageSize) >= limit
  BY <1>1, <1>2, <1>3, <1>4, <1>5
<1> QED
  BY <1>2, <1>6 DEF PagesNeeded, a

----------------------------------------------------------------------------
(* One page of a loop                                                      *)

Place(t) == RegionOf(pass[t].feed, place[t])
PageNow(t) == PageOf(pass[t].feed, Place(t), page[t])
Running == {"lookup", "found", "fetch", "store"}

\* Every item is in its rank, as TakesTheTop says.
InOrder(t, items) == \A i \in 1..Len(items) : InRank(t, items[i], i)

\* The page is of the saved region, or a query for the region has failed.
Located(t) == Place(t) # Home(t) => strayed[t] /\ Place(t) = None

\* A running loop has full pages, and while no query for the region has failed
\* these are pages of one ranking.
HasTop(t) ==
    /\ Located(t)
    /\ Len(got[t]) = PageSize * (page[t] - 1) /\ InOrder(t, got[t])
    /\ ~strayed[t] => PageSize * (page[t] - 1) <= Total[pass[t].feed][Home(t)]

\* What a loop returns is in order and within its limit, and full unless it
\* has missed a page or strayed.
Returns(t, items) ==
    Len(items) <= Wanted(pass[t].limit) /\ InOrder(t, items)
Full(t, items) ==
    ~strayed[t] =>
        Len(items) = Lower(Wanted(pass[t].limit), Total[pass[t].feed][Home(t)])

\* The types of what a loop works with.
LEMMA LoopTypes ==
  ASSUME TypeOK, NEW t \in Threads
  PROVE  /\ pass[t].feed \in Feeds /\ pass[t].region \in Places
         /\ Place(t) \in Places /\ Home(t) \in Places
         /\ page[t] \in 1..MaxPage /\ KeyOf(t) \in Keys
         /\ KeyOf(t) = <<pass[t].feed, page[t], Place(t)>>
         /\ Wanted(pass[t].limit) \in Nat \ {0}
         /\ Wanted(pass[t].limit) <= PageSize * MaxPage
         /\ Total[pass[t].feed][Home(t)] \in Nat
<1>1. pass[t].feed \in Feeds /\ pass[t].region \in Places /\ page[t] \in 1..MaxPage
      /\ pass[t].limit \in Limits \cup {0} /\ place[t] \in Places
  BY DEF TypeOK
<1>2. Place(t) \in Places /\ Home(t) \in Places
  BY <1>1 DEF Place, Home, RegionOf, Places
<1>3. Wanted(pass[t].limit) \in Nat \ {0} /\ Wanted(pass[t].limit) <= PageSize * MaxPage
  BY <1>1, FeedAssumption DEF Wanted
<1> QED
  BY <1>1, <1>2, <1>3, FeedAssumption DEF KeyOf, Key, Keys, Place

\* The query for the region gives the saved one, or the loop strays from it.
LEMMA Locates ==
  ASSUME TypeOK, NEW t \in Threads, NEW feed, NEW saved \in Places,
         NEW before \in BOOLEAN, Locate(t, feed, saved, before)
  PROVE  /\ place' \in [Threads -> Places] /\ strayed' \in [Threads -> BOOLEAN]
         /\ \A u \in Threads \ {t} : place'[u] = place[u] /\ strayed'[u] = strayed[u]
         /\ before => strayed'[t]
         /\ RegionOf(feed, place'[t]) # RegionOf(feed, saved) =>
               strayed'[t] /\ RegionOf(feed, place'[t]) = None
<1>1. PICK p \in RegionRead(feed, saved) :
        /\ place' = [place EXCEPT ![t] = p]
        /\ strayed' = [strayed EXCEPT ![t] = before \/ p # RegionOf(feed, saved)]
  BY DEF Locate
<1>2. p \in Places /\ (RegionOf(feed, p) # RegionOf(feed, saved) =>
         p # RegionOf(feed, saved) /\ RegionOf(feed, p) = None)
  BY DEF RegionRead, RegionOf, Places
<1>3. place \in [Threads -> Places] /\ strayed \in [Threads -> BOOLEAN]
  BY DEF TypeOK
<1>4. place'[t] = p /\ strayed'[t] = (before \/ p # RegionOf(feed, saved))
  BY <1>1, <1>3
<1> QED
  BY <1>1, <1>2, <1>3, <1>4

\* What taking a page does to the loop: it returns, or goes on to the next page
\* with all the full pages up to it.
LEMMA TakeOutcome ==
  ASSUME TypeOK, NEW t \in Threads, NEW from, NEW items, UNCHANGED pass,
         HasTop(t), items = PageNow(t) \/ items = <<>>, Take(t, from, items)
  PROVE  /\ pc[t] = from
         /\ pc' \in [Threads -> Resting \cup Running]
         /\ page' \in [Threads -> 1..MaxPage] /\ got' \in [Threads -> Seq(Items)]
         /\ place' \in [Threads -> Places] /\ strayed' \in [Threads -> BOOLEAN]
         /\ \A u \in Threads \ {t} :
               /\ pc'[u] = pc[u] /\ page'[u] = page[u] /\ got'[u] = got[u]
               /\ place'[u] = place[u] /\ strayed'[u] = strayed[u]
         /\ \/ /\ pc'[t] = "returned" /\ Returns(t, got[t])'
               /\ items = PageNow(t) => Full(t, got[t])'
            \/ pc'[t] = "lookup" /\ items # <<>> /\ HasTop(t)'
<1> DEFINE limit == Wanted(pass[t].limit)
           before == PageSize * (page[t] - 1)
           n == before + Len(items)
           all == got[t] \o items
           total == Total[pass[t].feed][Home(t)]
<1>1. /\ pass[t].feed \in Feeds /\ Place(t) \in Places /\ page[t] \in 1..MaxPage
      /\ limit \in Nat \ {0} /\ limit <= PageSize * MaxPage /\ total \in Nat
  BY LoopTypes
<1>2. PageSize \in Nat \ {0} /\ MaxPage \in Nat \ {0} /\ before \in Nat
  BY <1>1, PageType, FeedAssumption
<1>3. /\ Located(t) /\ Len(got[t]) = before /\ InOrder(t, got[t])
      /\ ~strayed[t] => before <= total
      /\ got[t] \in Seq(Items)
  BY DEF HasTop, TypeOK
<1>4. /\ PageNow(t) \in Seq(Items) /\ Len(PageNow(t)) <= PageSize
      /\ \A i \in 1..Len(PageNow(t)) : InRank(t, PageNow(t)[i], before + i)
      /\ ~strayed[t] => Len(PageNow(t)) = Lower(PageSize, total - before)
  <2>1. /\ PageNow(t) \in Seq(Items) /\ Len(PageNow(t)) <= PageSize
        /\ \A i \in 1..Len(PageNow(t)) : PageNow(t)[i] =
              [feed |-> pass[t].feed, region |-> Place(t), rank |-> before + i]
        /\ before <= Total[pass[t].feed][Place(t)] =>
              Len(PageNow(t)) = Lower(PageSize, Total[pass[t].feed][Place(t)] - before)
    BY <1>1, PageType DEF PageNow
  <2>2. Place(t) = Home(t) \/ (strayed[t] /\ Place(t) = None)
    BY <1>3 DEF Located
  <2>3. \A i \in 1..Len(PageNow(t)) : InRank(t, PageNow(t)[i], before + i)
    <3> HIDE DEF before
    <3> QED
      BY <2>1, <2>2 DEF InRank
  <2> QED
    BY <1>3, <2>1, <2>2, <2>3
<1>5. /\ items \in Seq(Items) /\ Len(items) \in Nat /\ Len(items) <= PageSize
      /\ \A i \in 1..Len(items) : InRank(t, items[i], before + i)
      /\ ~strayed[t] => n <= total
  <2> HIDE DEF before, total
  <2>1. CASE items = PageNow(t)
    BY <1>1, <1>2, <1>3, <1>4, <2>1 DEF Lower
  <2>2. CASE items = <<>>
    BY <1>1, <1>2, <1>3, <2>2
  <2> QED
    BY <2>1, <2>2
<1>6. /\ all \in Seq(Items) /\ Len(all) = n /\ n \in Nat
      /\ \A i \in 1..n : InRank(t, all[i], i)
      /\ Cut(all, limit) \in Seq(Items) /\ Len(Cut(all, limit)) = Lower(n, limit)
      /\ \A i \in 1..Len(Cut(all, limit)) : Cut(all, limit)[i] = all[i]
  <2>1. /\ all \in Seq(Items) /\ Len(all) = n /\ n \in Nat
        /\ \A i \in 1..before : all[i] = got[t][i]
        /\ \A i \in 1..Len(items) : all[before + i] = items[i]
        /\ Cut(all, limit) \in Seq(Items) /\ Len(Cut(all, limit)) = Lower(n, limit)
        /\ \A i \in 1..Len(Cut(all, limit)) : Cut(all, limit)[i] = all[i]
    <3>1. /\ all \in Seq(Items) /\ Len(all) = Len(got[t]) + Len(items)
          /\ \A i \in 1..Len(got[t]) : all[i] = got[t][i]
          /\ \A i \in 1..Len(items) : all[Len(got[t]) + i] = items[i]
          /\ Cut(all, limit) \in Seq(Items)
          /\ Len(Cut(all, limit)) = Lower(Len(got[t]) + Len(items), limit)
          /\ \A i \in 1..Len(Cut(all, limit)) : Cut(all, limit)[i] = all[i]
      BY <1>1, <1>3, <1>5, PageContinues
    <3> HIDE DEF before, all, limit
    <3> QED
      BY <1>2, <1>3, <1>5, <3>1
  <2>2. ASSUME NEW i \in 1..n PROVE InRank(t, all[i], i)
    <3> HIDE DEF all
    <3>1. CASE i <= before
      <4>1. i \in 1..before /\ i \in 1..Len(got[t])
        BY <1>2, <1>3, <3>1
      <4> QED
        BY <1>3, <2>1, <4>1 DEF InOrder
    <3>2. CASE i > before
      <4> HIDE DEF before
      <4>1. i - before \in 1..Len(items) /\ before + (i - before) = i
        BY <1>2, <1>5, <2>1, <3>2
      <4> QED
        BY <1>5, <2>1, <4>1
    <3> QED
      BY <1>2, <3>1, <3>2
  <2> QED
    BY <2>1, <2>2
<1> HIDE DEF all
<1>7. /\ pc \in [Threads -> Resting \cup Running] /\ page \in [Threads -> 1..MaxPage]
      /\ got \in [Threads -> Seq(Items)]
      /\ place \in [Threads -> Places] /\ strayed \in [Threads -> BOOLEAN]
  BY DEF TypeOK, Running
<1>8. CASE /\ Len(items) < PageSize \/ n >= limit \/ page[t] = PagesNeeded(limit)
           /\ pc[t] = from /\ pc' = [pc EXCEPT ![t] = "returned"]
           /\ got' = [got EXCEPT ![t] = Cut(all, limit)]
           /\ UNCHANGED <<page, place, strayed>>
  <2>1. got'[t] = Cut(all, limit) /\ pc'[t] = "returned"
    BY <1>7, <1>8
  <2>2. /\ Len(Cut(all, limit)) <= limit
        /\ \A i \in 1..Len(Cut(all, limit)) : i \in 1..n
    BY <1>1, <1>6 DEF Lower
  <2>3. Returns(t, got[t])'
    BY <1>6, <1>8, <2>1, <2>2 DEF Returns, InOrder, InRank, Home
  <2>4. ASSUME items = PageNow(t), ~strayed[t]
        PROVE  Lower(n, limit) = Lower(limit, total)
    <3>1. CASE n >= limit
      BY <1>1, <1>5, <1>6, <2>4, <3>1 DEF Lower
    <3>2. CASE Len(items) < PageSize
      <4>1. n = total
        BY <1>1, <1>2, <1>3, <1>4, <2>4, <3>2 DEF Lower
      <4> QED
        BY <1>1, <1>6, <4>1 DEF Lower
    <3>3. CASE page[t] = PagesNeeded(limit) /\ Len(items) >= PageSize
      <4>1. n = PageSize * page[t]
        BY <1>1, <1>2, <1>5, <3>3
      <4>2. PageSize * PagesNeeded(limit) >= limit
        BY <1>1, PagesHoldLimit
      <4> QED
        BY <1>1, <1>5, <1>6, <2>4, <3>3, <4>1, <4>2 DEF Lower
    <3> QED
      BY <1>2, <1>5, <1>8, <3>1, <3>2, <3>3
  <2>5. items = PageNow(t) => Full(t, got[t])'
    BY <1>6, <1>8, <2>1, <2>4 DEF Full, Home
  <2> QED
    BY <1>6, <1>7, <1>8, <2>1, <2>3, <2>5 DEF Resting
<1>9. CASE /\ Len(items) >= PageSize /\ n < limit
           /\ pc[t] = from /\ pc' = [pc EXCEPT ![t] = "lookup"]
           /\ got' = [got EXCEPT ![t] = all]
           /\ page' = [page EXCEPT ![t] = @ + 1]
           /\ Locate(t, pass[t].feed, pass[t].region, strayed[t])
  <2>1. n = PageSize * page[t]
    BY <1>1, <1>2, <1>5, <1>9
  <2>2. page[t] + 1 \in 1..MaxPage
    <3>1. PageSize * page[t] < PageSize * MaxPage
      <4> HIDE DEF limit, n
      <4>1. PageSize * page[t] \in Int /\ PageSize * MaxPage \in Int
        BY <1>1, <1>2
      <4> QED
        BY <1>1, <1>9, <2>1, <4>1
    <3> QED
      BY <1>1, <1>2, <3>1
  <2>3. page'[t] = page[t] + 1 /\ got'[t] = all /\ pc'[t] = "lookup"
    BY <1>7, <1>9
  <2>4. PageSize * (page'[t] - 1) = n
    BY <1>1, <2>1, <2>3
  <2>5. items # <<>>
    BY <1>2, <1>9
  <2>6. /\ place' \in [Threads -> Places] /\ strayed' \in [Threads -> BOOLEAN]
        /\ \A u \in Threads \ {t} : place'[u] = place[u] /\ strayed'[u] = strayed[u]
        /\ strayed[t] => strayed'[t]
        /\ Located(t)'
    <3>1. strayed[t] \in BOOLEAN /\ pass[t].region \in Places
      BY LoopTypes DEF TypeOK
    <3>2. Locate(t, pass[t].feed, pass[t].region, strayed[t])
      BY <1>9
    <3> HIDE DEF n, limit, before, total
    <3>3. /\ place' \in [Threads -> Places] /\ strayed' \in [Threads -> BOOLEAN]
          /\ \A u \in Threads \ {t} : place'[u] = place[u] /\ strayed'[u] = strayed[u]
          /\ strayed[t] => strayed'[t]
          /\ RegionOf(pass[t].feed, place'[t]) # RegionOf(pass[t].feed, pass[t].region) =>
                strayed'[t] /\ RegionOf(pass[t].feed, place'[t]) = None
      BY <3>1, <3>2, Locates, Zenon
    <3> QED
      BY <3>3 DEF Located, Place, Home
  <2>7. InOrder(t, got[t])'
    BY <1>6, <2>3, <2>6 DEF InOrder, InRank, Home
  <2>8. ~strayed'[t] => n <= total'
    BY <1>5, <2>6 DEF Home
  <2>9. HasTop(t)'
    <3>1. Len(got'[t]) = PageSize * (page'[t] - 1)
      BY <1>6, <2>3, <2>4
    <3> HIDE DEF n
    <3> QED
      BY <2>4, <2>6, <2>7, <2>8, <3>1 DEF HasTop
  <2>10. /\ pc' \in [Threads -> Resting \cup Running]
         /\ page' \in [Threads -> 1..MaxPage] /\ got' \in [Threads -> Seq(Items)]
         /\ \A u \in Threads \ {t} : pc'[u] = pc[u] /\ page'[u] = page[u] /\ got'[u] = got[u]
    BY <1>6, <1>7, <1>9, <2>2 DEF Running
  <2> QED
    <3>1. pc[t] = from
      BY <1>9
    <3>2. \A u \in Threads \ {t} :
             /\ pc'[u] = pc[u] /\ page'[u] = page[u] /\ got'[u] = got[u]
             /\ place'[u] = place[u] /\ strayed'[u] = strayed[u]
      BY <2>6, <2>10
    <3>3. pc'[t] = "lookup" /\ items # <<>> /\ HasTop(t)'
      BY <2>3, <2>5, <2>9, Zenon
    <3> QED
      BY <2>6, <2>10, <3>1, <3>2, <3>3, Zenon
<1> QED
  BY <1>6, <1>8, <1>9 DEF Take, Goto, all

----------------------------------------------------------------------------
(* The invariant                                                           *)

\* An entry expires in time.
KeptForTtl ==
    \A k \in Keys : entries[k] # None =>
        entries[k].until <= entries[k].asked + RequestTime + Ttl[k[1]]

\* The lock is held by the thread that has found its entry, and by no other.
LockOK == FoundIsThere /\ \A t \in Threads : lock = t => pc[t] = "found"

\* A running loop has missed nothing, but for the page it is about to miss.
ThreadOK(t) ==
    /\ pc[t] \in Running =>
          HasTop(t) /\ (missed[t] => pc[t] = "store" /\ answer[t].items = <<>>)
    /\ pc[t] = "store" =>
          /\ answer[t].items = PageNow(t) \/ missed[t]
          /\ now <= answer[t].asked + RequestTime
    /\ pc[t] = "returned" =>
          Returns(t, got[t]) /\ (~missed[t] => Full(t, got[t]))

FeedInv ==
    /\ TypeOK /\ EntryIsTrue /\ KeptForTtl /\ LockOK
    /\ \A t \in Threads : ThreadOK(t)

\* A thread does not notice the steps of others.
LEMMA Unaffected ==
  ASSUME NEW t \in Threads, ThreadOK(t), now' = now,
         pc'[t] = pc[t], pass'[t] = pass[t], page'[t] = page[t],
         got'[t] = got[t], answer'[t] = answer[t], missed'[t] = missed[t],
         place'[t] = place[t], strayed'[t] = strayed[t]
  PROVE  ThreadOK(t)'
BY DEF ThreadOK, HasTop, Returns, Full, PageNow, Place, Home, Located, InOrder, InRank

LEMMA InitFeed == Init => FeedInv
<1> SUFFICES ASSUME Init PROVE FeedInv
  OBVIOUS
<1>1. PICK feed \in Feeds : pass = [t \in Threads |-> [feed |-> feed, region |-> None, limit |-> 0]]
  BY FeedAssumption DEF Init
<1>2. TypeOK
  <2>1. answer \in [Threads -> Answers]
    BY DEF Init, NoAnswer, Answers
  <2>2. pass \in [Threads -> [feed : Feeds, region : Places, limit : Limits \cup {0}]]
    BY <1>1 DEF Places
  <2>3. page \in [Threads -> 1..MaxPage] /\ got \in [Threads -> Seq(Items)]
        /\ missed \in [Threads -> BOOLEAN] /\ entries \in [Keys -> Entries \cup {None}]
        /\ pc \in [Threads -> Resting \cup {"lookup", "found", "fetch", "store"}]
        /\ place \in [Threads -> Places] /\ strayed \in [Threads -> BOOLEAN]
    BY FeedAssumption DEF Init, Resting, Places
  <2>4. now \in 0..MaxTime /\ region \in Places /\ lock \in Threads \cup {None}
        /\ loops \in 0..MaxLoops
    BY FeedAssumption DEF Init
  <2> QED
    BY <2>1, <2>2, <2>3, <2>4 DEF TypeOK
<1>3. EntryIsTrue /\ KeptForTtl
  BY DEF Init, EntryIsTrue, KeptForTtl
<1>4. LockOK
  BY NoneAssumption DEF Init, LockOK, FoundIsThere
<1>5. \A t \in Threads : ThreadOK(t)
  BY DEF Init, ThreadOK, Running
<1> QED
  BY <1>2, <1>3, <1>4, <1>5 DEF FeedInv

\* Saving the region and the passing of time.
LEMMA WorldKeeps == ASSUME FeedInv, SaveRegion \/ Tick PROVE FeedInv'
<1> USE DEF FeedInv, thread
<1>1. CASE SaveRegion
  <2>1. TypeOK'
    BY <1>1 DEF SaveRegion, TypeOK
  <2>2. EntryIsTrue' /\ KeptForTtl' /\ LockOK'
    BY <1>1 DEF SaveRegion, EntryIsTrue, KeptForTtl, LockOK, FoundIsThere, KeyOf
  <2>3. ASSUME NEW t \in Threads PROVE ThreadOK(t)'
    BY <1>1, Unaffected DEF SaveRegion
  <2> QED
    BY <2>1, <2>2, <2>3
<1>2. CASE Tick
  <2>1. TypeOK'
    <3>1. now' \in 0..MaxTime
      BY <1>2, FeedAssumption DEF Tick, TypeOK
    <3> QED
      BY <1>2, <3>1 DEF Tick, TypeOK
  <2>2. EntryIsTrue' /\ KeptForTtl' /\ LockOK'
    BY <1>2 DEF Tick, EntryIsTrue, KeptForTtl, LockOK, FoundIsThere, KeyOf
  <2>3. ASSUME NEW t \in Threads PROVE ThreadOK(t)'
    <3>1. answer[t].asked \in Nat /\ now \in Nat
      BY DEF TypeOK, Answers
    <3>2. pc[t] = "store" => now' <= answer'[t].asked + RequestTime
      BY <1>2, <3>1, FeedAssumption DEF Tick
    <3> QED
      BY <1>2, <3>2 DEF Tick, ThreadOK, HasTop, Returns, Full, PageNow, Place, Home, Located,
                        InOrder, InRank
  <2> QED
    BY <2>1, <2>2, <2>3
<1> QED
  BY <1>1, <1>2

\* A loop starts with the empty top of its ranking.
LEMMA BeginKeeps ==
  ASSUME FeedInv, NEW t \in Threads, NEW feed \in Feeds, NEW limit \in Limits \cup {0},
         Begin(t, feed, limit)
  PROVE  FeedInv'
<1> USE DEF FeedInv
<1>1. /\ place' \in [Threads -> Places] /\ strayed' \in [Threads -> BOOLEAN]
      /\ \A u \in Threads \ {t} : place'[u] = place[u] /\ strayed'[u] = strayed[u]
      /\ RegionOf(feed, place'[t]) # RegionOf(feed, region) =>
            strayed'[t] /\ RegionOf(feed, place'[t]) = None
  BY Locates DEF Begin, TypeOK
<1>2. TypeOK'
  <2>1. pass' \in [Threads -> [feed : Feeds, region : Places, limit : Limits \cup {0}]]
    BY DEF TypeOK, Begin
  <2>2. page' \in [Threads -> 1..MaxPage] /\ loops' \in 0..MaxLoops
    BY FeedAssumption DEF TypeOK, Begin
  <2>3. got' \in [Threads -> Seq(Items)] /\ missed' \in [Threads -> BOOLEAN]
    BY DEF TypeOK, Begin
  <2>4. pc' \in [Threads -> Resting \cup {"lookup", "found", "fetch", "store"}]
    BY DEF TypeOK, Begin
  <2> QED
    BY <1>1, <2>1, <2>2, <2>3, <2>4 DEF TypeOK, Begin
<1>3. EntryIsTrue' /\ KeptForTtl'
  BY DEF Begin, EntryIsTrue, KeptForTtl
<1>4. LockOK'
  <2>1. \A u \in Threads : u # t => KeyOf(u)' = KeyOf(u) /\ pc'[u] = pc[u]
    BY <1>1 DEF Begin, KeyOf, TypeOK
  <2>2. pc[t] # "found" /\ pc'[t] # "found"
    BY DEF Begin, TypeOK, Resting
  <2> QED
    BY <2>1, <2>2 DEF Begin, LockOK, FoundIsThere
<1>5. ASSUME NEW u \in Threads, u # t PROVE ThreadOK(u)'
  BY <1>1, <1>5, Unaffected DEF Begin, TypeOK
<1>6. ThreadOK(t)'
  <2>1. pc'[t] = "lookup" /\ page'[t] = 1 /\ got'[t] = <<>> /\ ~missed'[t]
    BY DEF Begin, TypeOK
  <2>2. pass'[t].feed = feed /\ pass'[t].region = region
    BY DEF Begin, TypeOK
  <2>3. Home(t)' = RegionOf(feed, region) /\ RegionOf(feed, region) \in Places
    BY <2>2 DEF TypeOK, RegionOf, Places, Home
  <2>4. Total[feed][RegionOf(feed, region)] \in Nat /\ PageSize * (1 - 1) = 0
    BY <2>3, FeedAssumption
  <2>5. Located(t)'
    BY <1>1, <2>2, <2>3 DEF Located, Place
  <2>6. Len(got'[t]) = 0 /\ InOrder(t, got[t])'
    BY <2>1 DEF InOrder
  <2>7. HasTop(t)'
    BY <2>1, <2>2, <2>3, <2>4, <2>5, <2>6 DEF HasTop
  <2> QED
    BY <2>1, <2>7 DEF ThreadOK
<1> QED
  BY <1>2, <1>3, <1>4, <1>5, <1>6

\* The lookup in the caches, up to its answer.
LEMMA LookupKeeps ==
  ASSUME FeedInv, NEW t \in Threads, Find(t) \/ Miss(t) \/ Lapse(t)
  PROVE  FeedInv'
<1> USE DEF FeedInv
<1>1. /\ UNCHANGED <<now, region, entries, pass, page, got, place, answer, missed, strayed, loops>>
      /\ lock' \in {lock, t, None}
      /\ \E to \in {"found", "fetch", "raised"} : pc' = [pc EXCEPT ![t] = to]
      /\ pc[t] \in {"lookup", "found"}
  BY DEF Find, Miss, Lapse, Goto
<1>2. TypeOK'
  <2>1. pc' \in [Threads -> Resting \cup {"lookup", "found", "fetch", "store"}]
    BY <1>1 DEF TypeOK, Resting
  <2> QED
    BY <1>1, <2>1 DEF TypeOK
<1>3. EntryIsTrue' /\ KeptForTtl'
  BY <1>1 DEF EntryIsTrue, KeptForTtl
<1>4. LockOK'
  <2>1. CASE Find(t)
    BY <2>1, NoneAssumption DEF Find, Goto, Live, LockOK, FoundIsThere, KeyOf, TypeOK
  <2>2. CASE Miss(t)
    BY <2>2, NoneAssumption DEF Miss, Goto, LockOK, FoundIsThere, KeyOf, TypeOK
  <2>3. CASE Lapse(t)
    BY <2>3, NoneAssumption DEF Lapse, Goto, LockOK, FoundIsThere, KeyOf, TypeOK
  <2> QED
    BY <2>1, <2>2, <2>3
<1>5. ASSUME NEW u \in Threads, u # t PROVE ThreadOK(u)'
  BY <1>1, <1>5, Unaffected DEF TypeOK
<1>6. ThreadOK(t)'
  <2>1. pc[t] \in Running /\ pc[t] # "store" /\ ThreadOK(t)
    BY <1>1 DEF Running
  <2>2. HasTop(t) /\ ~missed[t]
    BY <2>1 DEF ThreadOK, TypeOK
  <2>3. HasTop(t)' /\ ~missed'[t]
    BY <1>1, <2>2 DEF HasTop, Place, Home, Located, InOrder, InRank
  <2>4. pc'[t] # "store" /\ pc'[t] # "returned"
    BY <1>1 DEF TypeOK
  <2> QED
    BY <2>3, <2>4 DEF ThreadOK
<1> QED
  BY <1>2, <1>3, <1>4, <1>5, <1>6

\* The request: TMDB's page, or nothing.
LEMMA FetchKeeps ==
  ASSUME FeedInv, NEW t \in Threads, Fetch(t)
  PROVE  FeedInv'
<1> USE DEF FeedInv
<1>1. PICK items \in {PageNow(t), <<>>} :
        /\ answer' = [answer EXCEPT ![t] = [items |-> items, asked |-> now]]
        /\ \/ items = PageNow(t) /\ missed' = missed
           \/ items = <<>> /\ missed' = [missed EXCEPT ![t] = TRUE]
  BY DEF Fetch, PageNow, Place
<1>2. /\ UNCHANGED <<now, region, entries, lock, pass, page, got, place, strayed, loops>>
      /\ pc[t] = "fetch" /\ pc' = [pc EXCEPT ![t] = "store"]
  BY DEF Fetch, Goto
<1>3. items \in Seq(Items)
  <2>1. pass[t].feed \in Feeds /\ Place(t) \in Places /\ page[t] \in 1..MaxPage
    BY LoopTypes
  <2>2. PageNow(t) \in Seq(Items)
    BY <2>1, PageType DEF PageNow
  <2>3. <<>> \in Seq(Items)
    OBVIOUS
  <2> QED
    BY <2>2, <2>3, Zenon
<1>4. TypeOK'
  <2>1. answer' \in [Threads -> Answers]
    <3>1. [items |-> items, asked |-> now] \in Answers
      BY <1>3 DEF Answers, TypeOK
    <3> QED
      BY <1>1, <3>1 DEF TypeOK
  <2>2. missed' \in [Threads -> BOOLEAN]
    BY <1>1 DEF TypeOK
  <2>3. pc' \in [Threads -> Resting \cup {"lookup", "found", "fetch", "store"}]
    BY <1>2 DEF TypeOK
  <2> QED
    BY <1>2, <2>1, <2>2, <2>3 DEF TypeOK
<1>5. EntryIsTrue' /\ KeptForTtl' /\ LockOK'
  BY <1>2 DEF EntryIsTrue, KeptForTtl, LockOK, FoundIsThere, KeyOf, TypeOK
<1>6. ASSUME NEW u \in Threads, u # t PROVE ThreadOK(u)'
  BY <1>1, <1>2, <1>6, Unaffected DEF TypeOK
<1>7. ThreadOK(t)'
  <2>1. HasTop(t) /\ ~missed[t]
    BY <1>2 DEF ThreadOK, Running, TypeOK
  <2>2. HasTop(t)' /\ PageNow(t)' = PageNow(t)
    BY <1>2, <2>1 DEF HasTop, PageNow, Place, Home, Located, InOrder, InRank
  <2>3. pc'[t] = "store" /\ answer'[t].items = items /\ answer'[t].asked = now
    BY <1>1, <1>2 DEF TypeOK
  <2>4. \/ items = PageNow(t) /\ ~missed'[t]
        \/ items = <<>> /\ missed'[t]
    BY <1>1, <2>1 DEF TypeOK
  <2>5. now' <= answer'[t].asked + RequestTime
    BY <1>2, <2>3, FeedAssumption DEF TypeOK
  <2> QED
    BY <2>2, <2>3, <2>4, <2>5 DEF ThreadOK
<1> QED
  BY <1>4, <1>5, <1>6, <1>7

\* A page taken, whether read, stored or empty, keeps the thread's part.
LEMMA TakeKeepsThread ==
  ASSUME FeedInv, NEW t \in Threads, NEW from \in {"found", "store"}, NEW items,
         pc[t] = from, Take(t, from, items),
         items = PageNow(t) \/ (items = <<>> /\ missed[t]),
         missed[t] => items = <<>>,
         UNCHANGED <<pass, missed>>
  PROVE  ThreadOK(t)'
<1>1. HasTop(t)
  BY DEF FeedInv, ThreadOK, Running
<1>2. \/ /\ pc'[t] = "returned" /\ Returns(t, got[t])'
         /\ items = PageNow(t) => Full(t, got[t])'
      \/ pc'[t] = "lookup" /\ items # <<>> /\ HasTop(t)'
  BY <1>1, TakeOutcome DEF FeedInv
<1>3. CASE /\ pc'[t] = "returned" /\ Returns(t, got[t])'
           /\ items = PageNow(t) => Full(t, got[t])'
  BY <1>3 DEF ThreadOK, Running
<1>4. CASE pc'[t] = "lookup" /\ items # <<>> /\ HasTop(t)'
  BY <1>4 DEF ThreadOK
<1> QED
  BY <1>2, <1>3, <1>4

LEMMA ReadKeeps ==
  ASSUME FeedInv, NEW t \in Threads, Read(t)
  PROVE  FeedInv'
<1> USE DEF FeedInv
<1> DEFINE items == entries[KeyOf(t)].items
<1>1. /\ UNCHANGED <<now, region, entries, pass, answer, missed, loops>>
      /\ lock' = None /\ Take(t, "found", items) /\ pc[t] = "found"
  BY DEF Read, Take, Goto
<1>2. items = PageNow(t)
  BY LoopTypes DEF Read, Live, EntryIsTrue, PageNow
<1>3. HasTop(t) /\ ~missed[t]
  BY <1>1 DEF ThreadOK, Running
<1>4. /\ pc' \in [Threads -> Resting \cup Running]
      /\ page' \in [Threads -> 1..MaxPage] /\ got' \in [Threads -> Seq(Items)]
      /\ place' \in [Threads -> Places] /\ strayed' \in [Threads -> BOOLEAN]
      /\ \A u \in Threads \ {t} :
            /\ pc'[u] = pc[u] /\ page'[u] = page[u] /\ got'[u] = got[u]
            /\ place'[u] = place[u] /\ strayed'[u] = strayed[u]
      /\ pc'[t] \in {"returned", "lookup"}
  BY <1>1, <1>2, <1>3, TakeOutcome
<1>5. TypeOK'
  BY <1>1, <1>4 DEF TypeOK, Running
<1>6. EntryIsTrue' /\ KeptForTtl'
  BY <1>1 DEF EntryIsTrue, KeptForTtl
<1>7. LockOK'
  BY <1>1, <1>4, NoneAssumption DEF LockOK, FoundIsThere
<1>8. ASSUME NEW u \in Threads, u # t PROVE ThreadOK(u)'
  BY <1>1, <1>4, <1>8, Unaffected
<1>9. ThreadOK(t)'
  BY <1>1, <1>2, <1>3, TakeKeepsThread
<1> QED
  BY <1>5, <1>6, <1>7, <1>8, <1>9

\* An entry that is put into a cache takes no other entry's place but None's.
LEMMA PutOutcome ==
  ASSUME TypeOK, NEW k \in Keys, NEW entry \in Entries, Put(k, entry)
  PROVE  /\ entries' \in [Keys -> Entries \cup {None}]
         /\ \A j \in Keys : \/ j = k /\ entries'[j] = entry
                            \/ j # k /\ entries'[j] \in {entries[j], None}
<1>1. PICK evicted : entries' = [j \in Keys |->
            IF j = k THEN entry
            ELSE IF Cache[j[1]] = Cache[k[1]] /\ j \notin Mates(k) \ evicted
                 THEN None ELSE entries[j]]
  BY DEF Put
<1>2. \A j \in Keys : \/ j = k /\ entries'[j] = entry
                      \/ j # k /\ entries'[j] \in {entries[j], None}
  BY <1>1
<1>3. \A j \in Keys : entries'[j] \in Entries \cup {None}
  BY <1>2 DEF TypeOK
<1> QED
  BY <1>1, <1>2, <1>3

LEMMA StoreKeeps ==
  ASSUME FeedInv, NEW t \in Threads, Store(t)
  PROVE  FeedInv'
<1> USE DEF FeedInv
<1> DEFINE items == answer[t].items
           entry == [items |-> items, asked |-> answer[t].asked,
                     until |-> now + Ttl[pass[t].feed]]
<1>1. /\ UNCHANGED <<now, region, lock, pass, missed, loops>>
      /\ lock = None /\ items # <<>> /\ Put(KeyOf(t), entry)
      /\ Take(t, "store", items) /\ pc[t] = "store"
      /\ answer' = [answer EXCEPT ![t] = NoAnswer]
  BY DEF Store, Take, Goto
<1>2. items = PageNow(t) /\ HasTop(t) /\ ~missed[t] /\ now <= answer[t].asked + RequestTime
  BY <1>1 DEF ThreadOK, Running
<1>3. /\ pc' \in [Threads -> Resting \cup Running]
      /\ page' \in [Threads -> 1..MaxPage] /\ got' \in [Threads -> Seq(Items)]
      /\ place' \in [Threads -> Places] /\ strayed' \in [Threads -> BOOLEAN]
      /\ \A u \in Threads \ {t} :
            /\ pc'[u] = pc[u] /\ page'[u] = page[u] /\ got'[u] = got[u]
            /\ place'[u] = place[u] /\ strayed'[u] = strayed[u]
      /\ pc'[t] \in {"returned", "lookup"}
  BY <1>1, <1>2, TakeOutcome
<1>4. KeyOf(t) \in Keys /\ KeyOf(t) = <<pass[t].feed, page[t], Place(t)>>
      /\ pass[t].feed \in Feeds
  BY LoopTypes
<1>5. Ttl[pass[t].feed] \in Nat /\ now \in Nat /\ answer[t].asked \in Nat /\ items \in Seq(Items)
  <2>1. answer[t] \in Answers /\ now \in Nat
    BY DEF TypeOK
  <2>2. Ttl[pass[t].feed] \in Nat
    BY <1>4, FeedAssumption
  <2> QED
    BY <2>1, <2>2 DEF Answers
<1>6. entry \in Entries
  BY <1>5 DEF Entries
<1> HIDE DEF entry
<1>7. /\ entries' \in [Keys -> Entries \cup {None}]
      /\ \A j \in Keys : \/ j = KeyOf(t) /\ entries'[j] = entry
                         \/ j # KeyOf(t) /\ entries'[j] \in {entries[j], None}
  BY <1>1, <1>4, <1>6, PutOutcome
<1>8. TypeOK'
  <2>1. answer' \in [Threads -> Answers]
    BY <1>1 DEF TypeOK, NoAnswer, Answers
  <2> QED
    BY <1>1, <1>3, <1>7, <2>1 DEF TypeOK, Running
<1>9. EntryIsTrue'
  <2>1. entry.items = PageOf(pass[t].feed, Place(t), page[t]) /\ entry.items # <<>>
    BY <1>1, <1>2 DEF entry, PageNow
  <2>2. Place(t) = RegionOf(pass[t].feed, Place(t))
    BY DEF Place, RegionOf
  <2>3. ASSUME NEW j \in Keys, entries'[j] # None
        PROVE  /\ j[3] = RegionOf(j[1], j[3])
               /\ entries'[j].items = PageOf(j[1], j[3], j[2])
               /\ entries'[j].items # <<>>
    <3>1. CASE j = KeyOf(t) /\ entries'[j] = entry
      BY <1>4, <2>1, <2>2, <3>1
    <3>2. CASE entries'[j] = entries[j]
      BY <2>3, <3>2 DEF EntryIsTrue
    <3> QED
      BY <1>7, <2>3, <3>1, <3>2
  <2> QED
    BY <2>3 DEF EntryIsTrue
<1>10. KeptForTtl'
  <2>1. entry.until <= entry.asked + RequestTime + Ttl[pass[t].feed]
    BY <1>2, <1>5, FeedAssumption, SMTT(30) DEF entry
  <2>2. ASSUME NEW j \in Keys, entries'[j] # None
        PROVE  entries'[j].until <= entries'[j].asked + RequestTime + Ttl[j[1]]
    <3>1. CASE j = KeyOf(t) /\ entries'[j] = entry
      BY <1>4, <2>1, <3>1
    <3>2. CASE entries'[j] = entries[j]
      BY <2>2, <3>2 DEF KeptForTtl
    <3> QED
      BY <1>7, <2>2, <3>1, <3>2
  <2> QED
    BY <2>2 DEF KeptForTtl
<1>11. LockOK'
  BY <1>1, <1>3, NoneAssumption DEF LockOK, FoundIsThere
<1>12. ASSUME NEW u \in Threads, u # t PROVE ThreadOK(u)'
  BY <1>1, <1>3, <1>12, Unaffected DEF TypeOK
<1>13. ThreadOK(t)'
  BY <1>1, <1>2, TakeKeepsThread
<1> QED
  BY <1>8, <1>9, <1>10, <1>11, <1>12, <1>13

LEMMA EmptyKeeps ==
  ASSUME FeedInv, NEW t \in Threads, Empty(t)
  PROVE  FeedInv'
<1> USE DEF FeedInv
<1>1. /\ UNCHANGED <<now, region, entries, lock, pass, missed, loops>>
      /\ Take(t, "store", <<>>) /\ pc[t] = "store" /\ answer[t].items = <<>>
      /\ answer' = [answer EXCEPT ![t] = NoAnswer]
  BY DEF Empty, Take, Goto
<1>2. HasTop(t) /\ (PageNow(t) = <<>> \/ missed[t])
  BY <1>1 DEF ThreadOK, Running
<1>3. /\ pc' \in [Threads -> Resting \cup Running]
      /\ page' \in [Threads -> 1..MaxPage] /\ got' \in [Threads -> Seq(Items)]
      /\ place' \in [Threads -> Places] /\ strayed' \in [Threads -> BOOLEAN]
      /\ \A u \in Threads \ {t} :
            /\ pc'[u] = pc[u] /\ page'[u] = page[u] /\ got'[u] = got[u]
            /\ place'[u] = place[u] /\ strayed'[u] = strayed[u]
      /\ pc'[t] = "returned"
  BY <1>1, <1>2, TakeOutcome
<1>4. TypeOK'
  <2>1. answer' \in [Threads -> Answers]
    BY <1>1 DEF TypeOK, NoAnswer, Answers
  <2> QED
    BY <1>1, <1>3, <2>1 DEF TypeOK, Running
<1>5. EntryIsTrue' /\ KeptForTtl'
  BY <1>1 DEF EntryIsTrue, KeptForTtl
<1>6. LockOK'
  BY <1>1, <1>3 DEF LockOK, FoundIsThere, KeyOf, TypeOK
<1>7. ASSUME NEW u \in Threads, u # t PROVE ThreadOK(u)'
  BY <1>1, <1>3, <1>7, Unaffected DEF TypeOK
<1>8. ThreadOK(t)'
  BY <1>1, <1>2, TakeKeepsThread
<1> QED
  BY <1>4, <1>5, <1>6, <1>7, <1>8

LEMMA StutterKeeps == ASSUME FeedInv, UNCHANGED vars PROVE FeedInv'
<1> USE DEF FeedInv, vars, thread
<1>1. TypeOK'
  BY DEF TypeOK
<1>2. EntryIsTrue' /\ KeptForTtl' /\ LockOK'
  BY DEF EntryIsTrue, KeptForTtl, LockOK, FoundIsThere, KeyOf
<1>3. ASSUME NEW t \in Threads PROVE ThreadOK(t)'
  BY Unaffected
<1> QED
  BY <1>1, <1>2, <1>3

LEMMA NextFeed == FeedInv /\ [Next]_vars => FeedInv'
<1> SUFFICES ASSUME FeedInv, [Next]_vars PROVE FeedInv'
  OBVIOUS
<1>1. ASSUME NEW t \in Threads, Import(t) \/ Preview(t) PROVE FeedInv'
  BY <1>1, BeginKeeps DEF Import, Preview
<1>2. ASSUME NEW t \in Threads, Step(t) PROVE FeedInv'
  BY <1>2, LookupKeeps, ReadKeeps, FetchKeeps, StoreKeeps, EmptyKeeps DEF Step
<1> QED
  BY <1>1, <1>2, WorldKeeps, StutterKeeps DEF Next

LEMMA FeedInvariant == Spec => []FeedInv
  BY InitFeed, NextFeed, PTL DEF Spec

----------------------------------------------------------------------------
(* Theorems                                                                *)

\* The types of the caches and of the loops over pages.
THEOREM TypesHold == Spec => []TypeOK
  BY FeedInvariant, PTL DEF FeedInv

\* The caches hold nothing but TMDB's own answers to the keys they are under,
\* however the threads that fill and evict them interleave.
THEOREM EntriesAreTrue == Spec => []EntryIsTrue
  BY FeedInvariant, PTL DEF FeedInv

\* What a list imports has the items of TMDB's ranking in order, without a gap
\* and within its limit, of the one region saved when its loop began: only a
\* failed query for the region lets pages of the worldwide ranking in.
THEOREM ImportsTheTop == Spec => []TakesTheTop
<1>1. FeedInv => TakesTheTop
  BY DEF FeedInv, ThreadOK, Returns, InOrder, TakesTheTop
<1> QED
  BY <1>1, FeedInvariant, PTL

\* A list is shorter than its limit only at the end of the ranking or because
\* one of its own requests, or queries for the region, failed.
THEOREM NothingMissing == Spec => []FullUnlessMissed
<1>1. FeedInv => FullUnlessMissed
  BY DEF FeedInv, ThreadOK, Full, FullUnlessMissed
<1> QED
  BY <1>1, FeedInvariant, PTL

\* An entry that a thread has found stays there until it has looked it up.
THEOREM OnlyTimeTakesAway == Spec => []FoundIsThere
<1>1. FeedInv => FoundIsThere
  BY DEF FeedInv, LockOK
<1> QED
  BY <1>1, FeedInvariant, PTL

\* No answer of a cache is older than its feed's time and one request.
THEOREM FreshAnswers == Spec => AnswersAreFresh
<1> DEFINE Fresh(t) == pc[t] = "found" /\ pc'[t] \in {"lookup", "returned"} =>
                         now < entries[KeyOf(t)].asked + RequestTime + Ttl[pass[t].feed]
<1>1. ASSUME FeedInv, NEW t \in Threads, Read(t) PROVE Fresh(t)
  <2>1. KeyOf(t) \in Keys /\ KeyOf(t)[1] = pass[t].feed /\ pass[t].feed \in Feeds
    BY <1>1, LoopTypes DEF FeedInv
  <2>2. /\ entries[KeyOf(t)] # None /\ now < entries[KeyOf(t)].until
        /\ now \in Nat /\ entries[KeyOf(t)] \in Entries
    BY <1>1, <2>1 DEF Read, Live, FeedInv, TypeOK
  <2>3. entries[KeyOf(t)].until <= entries[KeyOf(t)].asked + RequestTime + Ttl[pass[t].feed]
    BY <1>1, <2>1, <2>2 DEF FeedInv, KeptForTtl
  <2>4. entries[KeyOf(t)].until \in Nat /\ entries[KeyOf(t)].asked \in Nat
    BY <2>2 DEF Entries
  <2>5. RequestTime \in Nat /\ Ttl[pass[t].feed] \in Nat
    BY <2>1, FeedAssumption
  <2> QED
    BY <2>2, <2>3, <2>4, <2>5
<1>2. ASSUME FeedInv, NEW t \in Threads, Step(t), ~Read(t)
      PROVE  ~(pc[t] = "found" /\ pc'[t] \in {"lookup", "returned"})
  BY <1>2 DEF Step, Find, Miss, Lapse, Fetch, Store, Empty, Take, Goto, FeedInv, TypeOK
<1>3. ASSUME FeedInv, NEW u \in Threads, Step(u), NEW t \in Threads, t # u
      PROVE  pc'[t] = pc[t]
  <2>1. \E to : pc' = [pc EXCEPT ![u] = to]
    BY <1>3 DEF Step, Find, Miss, Read, Lapse, Fetch, Store, Empty, Take, Goto
  <2> QED
    BY <1>3, <2>1 DEF FeedInv, TypeOK
<1>4. ASSUME FeedInv, NEW u \in Threads, Import(u) \/ Preview(u), NEW t \in Threads
      PROVE  pc[t] = "found" => pc'[t] = "found"
  BY <1>4 DEF Import, Preview, Begin, FeedInv, TypeOK, Resting
<1>5. ASSUME FeedInv, [Next]_vars, NEW t \in Threads PROVE Fresh(t)
  <2>1. CASE SaveRegion \/ Tick \/ UNCHANGED vars
    BY <2>1 DEF SaveRegion, Tick, vars, thread
  <2>2. CASE \E u \in Threads : Import(u) \/ Preview(u)
    BY <1>4, <1>5, <2>2
  <2>3. CASE \E u \in Threads : Step(u)
    <3>1. PICK u \in Threads : Step(u)
      BY <2>3
    <3>2. CASE u = t
      BY <1>1, <1>2, <1>5, <3>1, <3>2
    <3>3. CASE u # t
      BY <1>3, <1>5, <3>1, <3>3
    <3> QED
      BY <3>2, <3>3
  <2> QED
    BY <1>5, <2>1, <2>2, <2>3 DEF Next
<1>6. FeedInv /\ [Next]_vars => [\A t \in Threads : Fresh(t)]_vars
  BY <1>5
<1> QED
  BY <1>6, FeedInvariant, PTL DEF Spec, AnswersAreFresh

=============================================================================
