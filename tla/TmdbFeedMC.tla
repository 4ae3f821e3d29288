------------------------------ MODULE TmdbFeedMC ------------------------------
(***************************************************************************)
(* One list type without a region and one with, in caches of their own:    *)
(* pages of two items, rankings that end with a page, within it and after  *)
(* more than one loop asks for.                                            *)
(***************************************************************************)
EXTENDS TmdbFeed

CONSTANTS t1, t2, us

MCThreads == {t1, t2}
MCFeeds == {"trending", "popular"}
MCRegional == {"popular"}
MCRegions == {us}
MCTotal == [feed \in MCFeeds |-> [r \in {us, None} |->
              IF feed = "trending" THEN 2 ELSE IF r = us THEN 3 ELSE 5]]
MCLimits == {3}
MCTtl == [feed \in MCFeeds |-> IF feed = "trending" THEN 1 ELSE 2]
MCCache == [feed \in MCFeeds |-> feed]

=============================================================================
