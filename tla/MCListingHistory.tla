-------------------------- MODULE MCListingHistory --------------------------
(* Small crawls for TLC: one complex with two listings that look alike, and *)
(* what a page can do to a save.                                            *)
EXTENDS ListingHistory

CONSTANTS s1, s2, c1, c2, f1, a1, a2

Home(price, detail, articles) ==
  [facets |-> f1, price |-> price, detail |-> detail, articles |-> articles]

Crawl(complex, status, collect, listings, details) ==
  [complex |-> complex, status |-> status, collect |-> collect,
   listings |-> listings, details |-> details]

Parking == [parking |-> 1]
Heating == [heating |-> 1]

Nobody   == Crawl(c1, "completed", TRUE, <<>>, Parking)
Short    == Crawl(c1, "partial", TRUE, <<>>, Parking)
OneHome  == Crawl(c1, "completed", TRUE, <<Home(1, 1, {a1})>>, Parking)
Repriced == Crawl(c1, "partial", TRUE, <<Home(2, 1, {a1, a2})>>, Parking)
Twins    == Crawl(c1, "completed", FALSE, <<Home(1, 2, {a1}), Home(1, 2, {a2})>>, Heating)
Moved    == Crawl(c2, "completed", TRUE, <<>>, Parking)

\* One source over four crawls, and a second that shares its complex once.
MCPayloads == s1 :> {Nobody, Short, OneHome, Repriced, Moved} @@ s2 :> {Twins}
MCMaxRuns  == s1 :> 4 @@ s2 :> 1

\* A few crawls of each.
MCAll == s1 :> {OneHome, Twins, Repriced} @@ s2 :> {OneHome, Nobody, Repriced}
MCTwo == s1 :> 2 @@ s2 :> 1

MCPreferences == {{}, {"new", "changed", "removed", "restored"}}
MCInitial == s1 :> {"new", "changed", "removed", "restored"} @@ s2 :> {}

=============================================================================
