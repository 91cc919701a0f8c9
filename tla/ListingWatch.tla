---------------------------- MODULE ListingWatch ----------------------------
(***************************************************************************)
(* What the listing history promises for the crawls of a source: whether a *)
(* listing is shown, missing or removed is decided by the crawls alone, by *)
(* counting the complete ones since the listing was last seen.             *)
(***************************************************************************)
EXTENDS Naturals, Sequences, FiniteSets, SequencesExt

CONSTANTS
  Sources,    \* the tracked URLs
  GroupKeys,  \* the listings there may be
  None        \* a listing the source has never shown

VARIABLES
  crawls,     \* the crawls saved for each source, oldest first
  verdict     \* what is on record for each listing of a source

vars == <<crawls, verdict>>

Crawls   == [complete : BOOLEAN, seen : SUBSET GroupKeys]
Verdicts == {None, "active", "missing", "removed"}

TypeOK ==
  /\ crawls \in [Sources -> Seq(Crawls)]
  /\ verdict \in [Sources -> [GroupKeys -> Verdicts]]

\* The complete crawls after the last one that showed g.
MissedIn(c, g) ==
  {i \in DOMAIN c : /\ c[i].complete
                    /\ \A j \in i..Len(c) : g \notin c[j].seen
                    /\ \E j \in 1..i : g \in c[j].seen}

Misses(c, g) == Cardinality(MissedIn(c, g))

Judge(c, g) ==
  IF \A i \in DOMAIN c : g \notin c[i].seen THEN None
  ELSE CASE Misses(c, g) = 0 -> "active"
         [] Misses(c, g) = 1 -> "missing"
         [] OTHER            -> "removed"

Init ==
  /\ crawls = [s \in Sources |-> <<>>]
  /\ verdict = [s \in Sources |-> [g \in GroupKeys |-> None]]

\* One more crawl of s is saved; nobody else's record changes.
Save(s) ==
  /\ crawls'[s] # <<>> /\ Front(crawls'[s]) = crawls[s] /\ Last(crawls'[s]) \in Crawls
  /\ crawls' = [crawls EXCEPT ![s] = crawls'[s]]
  /\ verdict' = [verdict EXCEPT ![s] = [g \in GroupKeys |-> Judge(crawls'[s], g)]]

Next == \E s \in Sources : Save(s)

Spec == Init /\ [][Next]_vars
=============================================================================
