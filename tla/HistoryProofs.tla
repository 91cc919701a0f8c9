--------------------------- MODULE HistoryProofs ---------------------------
(***************************************************************************)
(* What holds of ListingHistory for every set of sources, payloads and     *)
(* preferences, and for any number of crawls and disturbances.             *)
(*                                                                         *)
(* HistoryInv is inductive.  Only Store writes the tables of the history;  *)
(* what it does to them is put into one lemma (StoreHasEffect) in terms of *)
(* the set of groups that the save lists, from which every conjunct of the *)
(* invariant is proved.  All other steps are Quiet: they touch the runs    *)
(* and the open saves only.                                                *)
(***************************************************************************)
EXTENDS ListingHistory, FiniteSetTheorems, SequenceTheorems, TLAPS

-----------------------------------------------------------------------------
(* Numbers: the provers have no induction, but finite intervals are well-   *)
(* founded under inclusion.                                                *)

LEMMA LeastNumber ==
  ASSUME NEW S \in SUBSET Nat, S # {}
  PROVE  \E n \in S : \A k \in S : n <= k
<1> DEFINE T == {1..n : n \in S}
<1>1. T \subseteq FiniteSubsetsOf(Nat)
  <2> SUFFICES ASSUME NEW n \in S PROVE 1..n \in FiniteSubsetsOf(Nat)
    OBVIOUS
  <2>1. IsFiniteSet(1..n)
    BY FS_Interval
  <2> QED
    BY <2>1 DEF FiniteSubsetsOf
<1>2. IsWellFoundedOn(StrictSubsetOrdering(Nat), FiniteSubsetsOf(Nat))
  BY FS_StrictSubsetOrderingWellFounded
<1>3. T # {}
  OBVIOUS
<1> HIDE DEF T
<1>4. PICK x \in T : \A y \in T : ~(<<y, x>> \in StrictSubsetOrdering(Nat))
  BY <1>1, <1>2, <1>3, WFMin
<1>5. PICK n \in S : x = 1..n
  BY DEF T
<1>6. ASSUME NEW k \in S, k < n PROVE FALSE
  <2>1. 1..k \in T /\ 1..n \in T
    BY DEF T
  <2>2. n \in 1..n /\ n \notin 1..k
    BY <1>6
  <2>3. 1..k \subseteq 1..n /\ 1..k # 1..n
    BY <2>2, <1>6
  <2>4. <<1..k, 1..n>> \in StrictSubsetOrdering(Nat)
    BY <2>1, <2>3 DEF StrictSubsetOrdering
  <2> QED
    BY <1>4, <1>5, <2>1, <2>4
<1> QED
  BY <1>6

LEMMA GreatestNumber ==
  ASSUME NEW S \in SUBSET Nat, S # {}, NEW b \in Nat, \A n \in S : n <= b
  PROVE  \E n \in S : \A k \in S : k <= n
<1> DEFINE T == {b - n : n \in S}
<1>1. T \in SUBSET Nat /\ T # {}
  <2>1. \A n \in S : b - n \in Nat
    OBVIOUS
  <2> QED
    BY <2>1
<1> HIDE DEF T
<1>2. PICK t \in T : \A u \in T : t <= u
  BY <1>1, LeastNumber
<1>3. PICK n \in S : t = b - n
  BY DEF T
<1>4. ASSUME NEW k \in S PROVE k <= n
  <2>1. b - k \in T
    BY DEF T
  <2> QED
    BY <1>2, <1>3, <2>1
<1> QED
  BY <1>4

LEMMA LatestIsGreatest ==
  ASSUME NEW S \in SUBSET Nat, S # {}, NEW b \in Nat, \A n \in S : n <= b
  PROVE  Latest(S) \in S /\ \A n \in S : n <= Latest(S)
BY GreatestNumber DEF Latest

\* The newest row of a set of rows whose runs are bounded.
LEMMA LatestInIsNewest ==
  ASSUME NEW S, S # {}, NEW b \in Nat, \A x \in S : x.run \in Nat /\ x.run <= b
  PROVE  LatestIn(S) \in S /\ \A x \in S : x.run <= LatestIn(S).run
<1> DEFINE R == {x.run : x \in S}
<1>1. R \in SUBSET Nat /\ R # {} /\ \A n \in R : n <= b
  OBVIOUS
<1>2. PICK n \in R : \A k \in R : k <= n
  BY <1>1, GreatestNumber
<1>3. \E x \in S : \A y \in S : y.run <= x.run
  BY <1>2
<1> QED
  BY <1>3 DEF LatestIn

-----------------------------------------------------------------------------
(* Rows of the tables                                                      *)

RunRows == [source : Sources, status : Statuses,
            saved : {None, "completed", "partial"}, payload : AllPayloads]

LEMMA NoneIsNoRow ==
  /\ None \notin Nat /\ None \notin Complexes /\ None \notin GroupKeys
  /\ None \notin StateRows /\ None \notin EventRows /\ None \notin EventTypes
  /\ None # "completed" /\ None # "partial"
BY NoneAssumption

LEMMA RunsAreRows ==
  ASSUME HistoryTypeOK
  PROVE  /\ RunIds = 1..Len(runs) /\ Len(runs) \in Nat
         /\ \A r \in RunIds : runs[r] \in RunRows /\ r \in Nat /\ r <= Len(runs)
         /\ \A r \in RunIds : runs[r] = [source |-> runs[r].source, status |-> runs[r].status,
                                         saved |-> runs[r].saved, payload |-> runs[r].payload]
<1>1. runs \in Seq(RunRows)
  BY DEF HistoryTypeOK, RunRows
<1>2. RunIds = 1..Len(runs) /\ Len(runs) \in Nat /\ \A r \in RunIds : runs[r] \in RunRows
  BY <1>1 DEF RunIds
<1> QED
  BY <1>2 DEF RunRows

LEMMA PayloadRows ==
  ASSUME NEW p \in AllPayloads
  PROVE  /\ p.status \in {"completed", "partial"}
         /\ p.complex \in Complexes
         /\ DOMAIN p.listings = 1..Len(p.listings) /\ Len(p.listings) \in Nat
         /\ \A i \in DOMAIN p.listings :
              /\ p.listings[i] \in Listings
              /\ IdentityKey(p.complex, p.listings[i]) \in GroupKeys
              /\ Stored(p, p.listings[i]).articles = p.listings[i].articles
              /\ p.listings[i].articles \subseteq Articles
<1>1. PICK s \in Sources : p \in Payloads[s]
  BY DEF AllPayloads
<1>2. p.listings \in Seq(Range(p.listings)) /\ p.status \in {"completed", "partial"}
  BY <1>1, PayloadsAssumption
<1>3. DOMAIN p.listings = 1..Len(p.listings) /\ Len(p.listings) \in Nat
  BY <1>2
<1>4. p.complex \in Complexes
  BY DEF Complexes
<1>5. ASSUME NEW i \in DOMAIN p.listings
      PROVE  /\ p.listings[i] \in Listings
             /\ IdentityKey(p.complex, p.listings[i]) \in GroupKeys
             /\ Stored(p, p.listings[i]).articles = p.listings[i].articles
             /\ p.listings[i].articles \subseteq Articles
  <2>1. p.listings[i] \in Range(p.listings)
    BY DEF Range
  <2>2. p.listings[i] \in Listings
    BY <2>1 DEF Listings
  <2>3. IdentityKey(p.complex, p.listings[i]) \in GroupKeys
    BY <2>1 DEF GroupKeys
  <2>4. p.listings[i] = [facets |-> p.listings[i].facets, price |-> p.listings[i].price,
                         detail |-> p.listings[i].detail, articles |-> p.listings[i].articles]
    BY <1>1, <2>1, PayloadsAssumption
  <2>5. Stored(p, p.listings[i]).articles = p.listings[i].articles
    BY <2>4 DEF Stored
  <2>6. p.listings[i].articles \subseteq Articles
    BY <2>2 DEF Articles
  <2> QED
    BY <2>2, <2>3, <2>5, <2>6
<1> QED
  BY <1>2, <1>3, <1>4, <1>5

\* A group of the complex, or a new one of it, is found for every listing.
LEMMA GroupsAreOfComplex ==
  ASSUME NEW s, NEW r, NEW p \in AllPayloads
  PROVE  /\ DOMAIN GroupsOf(s, r, p) = DOMAIN p.listings
         /\ \A i \in DOMAIN p.listings :
              GroupsOf(s, r, p)[i] \in GroupKeys /\ GroupsOf(s, r, p)[i].complex = p.complex
<1> SUFFICES ASSUME NEW i \in DOMAIN p.listings
             PROVE  GroupsOf(s, r, p)[i] \in GroupKeys /\ GroupsOf(s, r, p)[i].complex = p.complex
  BY DEF GroupsOf
<1> DEFINE c == p.complex
           l == p.listings[i]
           match == Match(s, r, c, l)
<1>1. IdentityKey(c, l) \in GroupKeys /\ IdentityKey(c, l).complex = c
  BY PayloadRows DEF IdentityKey
<1>2. \A g \in Known(c) : g \in GroupKeys /\ g.complex = c
  BY DEF Known
<1>3. match = None \/ match \in Known(c) \cup {IdentityKey(c, l)}
  <2> DEFINE shared(g) == Cardinality(ArticlesOf(g) \cap l.articles)
             best == {g \in Known(c) : /\ shared(g) > 0
                                       /\ \A h \in Known(c) : shared(h) <= shared(g)}
             auxiliary == {g \in Known(c) : IdentitySnapshot(s, r, g).listing.facets = l.facets}
  <2>1. best # {} => (CHOOSE g \in best : TRUE) \in Known(c)
    OBVIOUS
  <2>2. Cardinality(auxiliary) = 1 => (CHOOSE g \in auxiliary : TRUE) \in Known(c)
    <3>1. auxiliary = {} => Cardinality(auxiliary) = 0
      BY FS_EmptySet
    <3> QED
      BY <3>1
  <2>3. match = IF best # {} THEN CHOOSE g \in best : TRUE
                ELSE IF IdentityKey(c, l) \in Known(c) THEN IdentityKey(c, l)
                ELSE IF Cardinality(auxiliary) = 1 THEN CHOOSE g \in auxiliary : TRUE
                ELSE None
    BY DEF Match
  <2> HIDE DEF match, best, auxiliary
  <2> QED
    BY <2>1, <2>2, <2>3
<1>4. GroupsOf(s, r, p)[i] = IF match = None THEN IdentityKey(c, l) ELSE match
  BY DEF GroupsOf
<1> HIDE DEF match
<1> QED
  BY <1>1, <1>2, <1>3, <1>4

\* What is stored of a group is a listing of the crawl that was taken for it.
LEMMA ListingOfGroup ==
  ASSUME NEW p \in AllPayloads, NEW m, DOMAIN m = DOMAIN p.listings, NEW g \in Range(m)
  PROVE  \E i \in DOMAIN p.listings : m[i] = g /\ ListingAt(p, m, g) = Stored(p, p.listings[i])
BY DEF ListingAt, Range

LEMMA PresenceEventType ==
  ASSUME NEW s, NEW r, NEW p, NEW l, NEW g
  PROVE  PresenceEvent(s, r, p, l, g) \in {None, "new", "changed", "restored"}
<1> DEFINE old == LatestIn(Complete(s, r, g))
           differs == Complete(s, r, g) # {} /\
                      Differs(old.listing, runs[old.run].payload.collect, l, p.collect)
<1>1. PresenceEvent(s, r, p, l, g) =
        IF states[s][g] = None THEN "new"
        ELSE IF states[s][g].state \in {"missing", "removed"} THEN "restored"
        ELSE IF differs THEN "changed" ELSE None
  BY DEF PresenceEvent
<1> HIDE DEF differs
<1> QED
  BY <1>1

LEMMA AbsenceType ==
  ASSUME NEW old \in StateRows, NEW status
  PROVE  /\ Absence(old, status) \in StateRows
         /\ Absence(old, status) # old => Absence(old, status).state \in {"missing", "removed"}
BY DEF Absence, StateRows

LEMMA NextStatesType ==
  ASSUME HistoryTypeOK, NEW s \in Sources, NEW p \in AllPayloads, NEW m
  PROVE  NextStates(s, p, m) \in [GroupKeys -> StateRows \cup {None}]
<1> SUFFICES ASSUME NEW g \in GroupKeys
             PROVE  NextStates(s, p, m)[g] \in StateRows \cup {None}
  BY DEF NextStates
<1>1. states[s][g] \in StateRows \cup {None}
  BY DEF HistoryTypeOK
<1>2. [state |-> "active", count |-> 0] \in StateRows
  BY DEF StateRows
<1>3. g \in Absent(s, p.complex, Range(m)) => Absence(states[s][g], p.status) \in StateRows
  BY <1>1, AbsenceType DEF Absent
<1> QED
  BY <1>1, <1>2, <1>3 DEF NextStates


-----------------------------------------------------------------------------
(* What a save does                                                        *)

\* The save of run r of the source s lists the groups G, stores the snapshots NS
\* and the events NE.
Effect(s, r, G, NS, NE) ==
  LET p == runs[r].payload IN
  /\ r \in Active(s) /\ Reading(s, "store")
  /\ G \subseteq GroupKeys /\ \A g \in G : g.complex = p.complex
  /\ runs' = [runs EXCEPT ![r].status = p.status, ![r].saved = p.status]
  /\ complexOf' = [complexOf EXCEPT ![s] = p.complex]
  /\ crawls' = [crawls EXCEPT ![s] = Append(@, [complete |-> p.status = "completed", seen |-> G])]
  /\ tx' = [tx EXCEPT ![s] = None]
  /\ notifications' = notifications \cup Notified(s, NE)
  /\ snapshots' = snapshots \cup NS
  /\ IsFiniteSet(NS) /\ NS \subseteq SnapshotRows
  /\ \A x \in NS : x.run = r /\ x.group \in G
  /\ \A x, y \in NS : x.group = y.group => x = y
  /\ \A g \in G : \E x \in NS : x.group = g
  /\ events' = events \cup NE
  /\ NE \subseteq EventRows /\ \A e \in NE : e.run = r
  /\ \A e, o \in NE : e.group = o.group => e = o
  /\ \A t \in Sources \ {s} : states'[t] = states[t]
  /\ states' \in [Sources -> [GroupKeys -> StateRows \cup {None}]]
  /\ \A g \in G :
       /\ states'[s][g] = [state |-> "active", count |-> 0]
       /\ \A e \in NE : e.group = g => \E x \in NS : x.group = g /\ x.status = e.type
       /\ states[s][g] = None => \E e \in NE : e.group = g /\ e.type = "new"
       /\ states[s][g] # None /\ states[s][g].state \in {"missing", "removed"} =>
            \E e \in NE : e.group = g /\ e.type = "restored"
       /\ states[s][g] # None /\ states[s][g].state = "active" =>
            \A e \in NE : e.group = g => e.type = "changed"
  /\ \A g \in GroupKeys \ G :
       IF states[s][g] = None
       THEN states'[s][g] = None /\ \A e \in NE : e.group # g
       ELSE /\ states'[s][g] = Absence(states[s][g], p.status)
            /\ IF states'[s][g] = states[s][g] THEN \A e \in NE : e.group # g
               ELSE \E e \in NE : e.group = g /\ e.type = states'[s][g].state

\* Of a source that is being saved, the listings on record are of its complex.
LEMMA StatedIsKnown ==
  ASSUME HistoryInv, NEW s \in Sources, NEW r \in Active(s), Reading(s, "store"),
         NEW g \in GroupKeys, states[s][g] # None
  PROVE  g \in Known(runs[r].payload.complex)
<1>1. PICK x \in SnapshotsIn(RunsOf(s), g) : TRUE
  BY DEF HistoryInv, StatesFollowEvents, StateFollowsEvents
<1>2. x \in snapshots /\ x.run \in RunsOf(s) /\ x.group = g
  BY <1>1 DEF SnapshotsIn
<1>3. x.run \in SavedRuns(s) /\ g.complex = runs[x.run].payload.complex
  BY <1>2 DEF HistoryInv, SnapshotsAreOfRuns, SavedRuns
<1>4. complexOf[s] \in {None, runs[r].payload.complex} /\ g.complex = complexOf[s]
  BY <1>3 DEF HistoryInv, OneComplex
<1>5. runs[x.run].payload \in AllPayloads
  BY <1>2, RunsAreRows DEF HistoryInv, RunRows, RunsOf
<1>6. g.complex # None
  BY <1>3, <1>5, PayloadRows, NoneIsNoRow
<1>7. x \in SnapshotsIn(RunIds, g)
  BY <1>2 DEF SnapshotsIn, RunsOf
<1> QED
  BY <1>4, <1>6, <1>7 DEF Known

\* The statuses of the new snapshots.
LEMMA NewSnapshotRows ==
  ASSUME HistoryTypeOK, NEW s \in Sources, NEW r \in RunIds, NEW p \in AllPayloads,
         NEW m, DOMAIN m = DOMAIN p.listings, Range(m) \subseteq GroupKeys
  PROVE  /\ NewSnapshots(s, r, p, m) \subseteq SnapshotRows
         /\ IsFiniteSet(NewSnapshots(s, r, p, m))
         /\ \A x \in NewSnapshots(s, r, p, m) :
              /\ x.run = r /\ x.group \in Range(m) /\ x.listing = ListingAt(p, m, x.group)
              /\ LET e == PresenceEvent(s, r, p, x.listing, x.group)
                 IN  x.status = IF e = None THEN "active" ELSE e
         /\ \A g \in Range(m) : \E x \in NewSnapshots(s, r, p, m) : x.group = g
         /\ \A x, y \in NewSnapshots(s, r, p, m) : x.group = y.group => x = y
<1> DEFINE status(g) == LET e == PresenceEvent(s, r, p, ListingAt(p, m, g), g)
                        IN  IF e = None THEN "active" ELSE e
           row(g) == [run |-> r, group |-> g, listing |-> ListingAt(p, m, g), status |-> status(g)]
<1>1. NewSnapshots(s, r, p, m) = {row(g) : g \in Range(m)}
  BY DEF NewSnapshots
<1>2. \A g \in Range(m) : status(g) \in {"active", "new", "changed", "restored"}
  BY PresenceEventType
<1>3. IsFiniteSet({row(g) : g \in Range(m)})
  <2>1. DOMAIN m = 1..Len(p.listings) /\ Len(p.listings) \in Nat
    BY PayloadRows
  <2>2. IsFiniteSet(DOMAIN m)
    BY <2>1, FS_Interval
  <2> DEFINE f == [i \in DOMAIN m |-> row(m[i])]
  <2>3. {row(g) : g \in Range(m)} = {f[i] : i \in DOMAIN m}
    BY DEF Range
  <2>4. f \in Surjection(DOMAIN m, {f[i] : i \in DOMAIN m})
    BY DEF Surjection
  <2> HIDE DEF f
  <2> QED
    BY <2>2, <2>3, <2>4, FS_Surjection
<1>4. \A g \in Range(m) : row(g) \in SnapshotRows
  <2> SUFFICES ASSUME NEW g \in Range(m) PROVE row(g) \in SnapshotRows
    OBVIOUS
  <2>1. PICK i \in DOMAIN p.listings : ListingAt(p, m, g) = Stored(p, p.listings[i])
    BY ListingOfGroup
  <2>2. ListingAt(p, m, g) \in {Stored(q, l) : q \in AllPayloads, l \in Listings}
    BY <2>1, PayloadRows
  <2>3. r \in Nat
    BY RunsAreRows
  <2> HIDE DEF status
  <2> QED
    BY <1>2, <2>2, <2>3 DEF SnapshotRows
<1> HIDE DEF status
<1>5. \A x \in NewSnapshots(s, r, p, m) :
        /\ x.run = r /\ x.group \in Range(m) /\ x.listing = ListingAt(p, m, x.group)
        /\ x.status = status(x.group)
  BY <1>1
<1>6. \A g \in Range(m) : \E x \in NewSnapshots(s, r, p, m) : x.group = g
  <2> SUFFICES ASSUME NEW g \in Range(m)
               PROVE  \E x \in NewSnapshots(s, r, p, m) : x.group = g
    OBVIOUS
  <2>1. row(g) \in NewSnapshots(s, r, p, m) /\ row(g).group = g
    BY <1>1
  <2> QED
    BY <2>1
<1>7. \A x, y \in NewSnapshots(s, r, p, m) : x.group = y.group => x = y
  BY <1>1
<1>8. \A x \in NewSnapshots(s, r, p, m) :
        LET e == PresenceEvent(s, r, p, x.listing, x.group)
        IN  x.status = IF e = None THEN "active" ELSE e
  BY <1>5 DEF status
<1> QED
  BY <1>1, <1>3, <1>4, <1>5, <1>6, <1>7, <1>8


\* The events a save adds: one for each new snapshot that is not merely active,
\* and one for each absent listing whose state row moves.
LEMMA NewEventRows ==
  ASSUME HistoryTypeOK, NEW s \in Sources, NEW r \in RunIds, NEW p \in AllPayloads,
         NEW m, DOMAIN m = DOMAIN p.listings, Range(m) \subseteq GroupKeys,
         \A g \in GroupKeys : states[s][g] # None => g \in Known(p.complex)
  PROVE  LET NE == NewEvents(s, r, p, m)
             next == NextStates(s, p, m)
         IN  /\ NE \subseteq EventRows
             /\ \A e \in NE : e.run = r
             /\ \A e \in NE : e.group \in Range(m) =>
                  \E x \in NewSnapshots(s, r, p, m) :
                    x.group = e.group /\ x.status = e.type /\ x.status # "active"
             /\ \A x \in NewSnapshots(s, r, p, m) : x.status # "active" =>
                  \E e \in NE : e.group = x.group /\ e.type = x.status
             /\ \A e \in NE : e.group \notin Range(m) =>
                  /\ states[s][e.group] # None
                  /\ next[e.group] # states[s][e.group]
                  /\ e.type = next[e.group].state
             /\ \A g \in GroupKeys \ Range(m) :
                  IF states[s][g] = None THEN next[g] = None
                  ELSE /\ next[g] = Absence(states[s][g], p.status)
                       /\ next[g] # states[s][g] =>
                            \E e \in NE : e.group = g /\ e.type = next[g].state
<1> DEFINE NS == NewSnapshots(s, r, p, m)
           next == NextStates(s, p, m)
           absent == Absent(s, p.complex, Range(m))
           shown == {[run |-> x.run, group |-> x.group, type |-> x.status] :
                       x \in {y \in NS : y.status # "active"}}
           moved == {[run |-> r, group |-> g, type |-> next[g].state] :
                       g \in {h \in absent : next[h] # states[s][h]}}
<1>1. NewEvents(s, r, p, m) = shown \cup moved
  BY DEF NewEvents
<1>2. absent = {g \in GroupKeys : states[s][g] # None} \ Range(m)
  BY DEF Absent, Known
<1>3. \A g \in GroupKeys \ Range(m) :
        next[g] = IF states[s][g] = None THEN None ELSE Absence(states[s][g], p.status)
  BY <1>2 DEF NextStates
<1>4. states[s] \in [GroupKeys -> StateRows \cup {None}]
  BY DEF HistoryTypeOK
<1>5. NS \subseteq SnapshotRows /\ \A x \in NS : x.run = r /\ x.group \in Range(m)
  BY NewSnapshotRows
<1>6. r \in Nat
  BY RunsAreRows
<1> HIDE DEF NS, next, absent
<1>7. \A e \in shown : /\ e \in EventRows /\ e.run = r /\ e.group \in Range(m)
                       /\ \E x \in NS : x.group = e.group /\ x.status = e.type /\ x.status # "active"
  BY <1>5, <1>6 DEF EventRows, EventTypes, SnapshotRows
<1>8. \A x \in NS : x.status # "active" => \E e \in shown : e.group = x.group /\ e.type = x.status
  <2> SUFFICES ASSUME NEW x \in NS, x.status # "active"
               PROVE  \E e \in shown : e.group = x.group /\ e.type = x.status
    OBVIOUS
  <2>1. [run |-> x.run, group |-> x.group, type |-> x.status] \in shown
    OBVIOUS
  <2> QED
    BY <2>1
<1>9. \A g \in absent : next[g] # states[s][g] => next[g].state \in {"missing", "removed"}
  BY <1>2, <1>3, <1>4, AbsenceType
<1>10. \A e \in moved : /\ e \in EventRows /\ e.run = r /\ e.group \in absent
                        /\ next[e.group] # states[s][e.group] /\ e.type = next[e.group].state
  BY <1>2, <1>6, <1>9 DEF EventRows, EventTypes
<1>11. \A g \in absent : next[g] # states[s][g] =>
         \E e \in moved : e.group = g /\ e.type = next[g].state
  <2> SUFFICES ASSUME NEW g \in absent, next[g] # states[s][g]
               PROVE  \E e \in moved : e.group = g /\ e.type = next[g].state
    OBVIOUS
  <2>1. [run |-> r, group |-> g, type |-> next[g].state] \in moved
    OBVIOUS
  <2> QED
    BY <2>1
<1> HIDE DEF shown, moved
<1>12. \A e \in shown \cup moved : e \in EventRows /\ e.run = r
  BY <1>7, <1>10
<1>13. \A e \in shown \cup moved : e.group \in Range(m) =>
         \E x \in NS : x.group = e.group /\ x.status = e.type /\ x.status # "active"
  BY <1>2, <1>7, <1>10
<1>14. \A e \in shown \cup moved : e.group \notin Range(m) =>
         /\ states[s][e.group] # None
         /\ next[e.group] # states[s][e.group]
         /\ e.type = next[e.group].state
  BY <1>2, <1>7, <1>10
<1>15. \A g \in GroupKeys \ Range(m) :
         IF states[s][g] = None THEN next[g] = None
         ELSE /\ next[g] = Absence(states[s][g], p.status)
              /\ next[g] # states[s][g] =>
                   \E e \in shown \cup moved : e.group = g /\ e.type = next[g].state
  BY <1>2, <1>3, <1>11
<1> QED
  BY <1>1, <1>8, <1>12, <1>13, <1>14, <1>15 DEF NS, next

LEMMA StoreHasEffect ==
  ASSUME HistoryInv, NEW s \in Sources, NEW r \in Active(s), Reading(s, "store"),
         StoreAs(s, r, runs[r].payload, GroupsOf(s, r, runs[r].payload))
  PROVE  LET p == runs[r].payload
             m == GroupsOf(s, r, p)
         IN  Effect(s, r, Range(m), NewSnapshots(s, r, p, m), NewEvents(s, r, p, m))
<1> DEFINE p == runs[r].payload
           m == GroupsOf(s, r, p)
           G == Range(m)
           NS == NewSnapshots(s, r, p, m)
           NE == NewEvents(s, r, p, m)
<1>1. r \in RunIds /\ p \in AllPayloads
  BY RunsAreRows DEF HistoryInv, Active, RunsOf, RunRows
<1>2. DOMAIN m = DOMAIN p.listings
  BY <1>1, GroupsAreOfComplex
<1>3. G \subseteq GroupKeys /\ \A g \in G : g.complex = p.complex
  BY <1>1, <1>2, GroupsAreOfComplex DEF Range
<1>4. \A g \in GroupKeys : states[s][g] # None => g \in Known(p.complex)
  BY StatedIsKnown
<1>5. HistoryTypeOK
  BY DEF HistoryInv
<1> HIDE DEF p, m
<1>6. /\ NS \subseteq SnapshotRows /\ IsFiniteSet(NS)
      /\ \A x \in NS :
           /\ x.run = r /\ x.group \in G
           /\ LET e == PresenceEvent(s, r, p, x.listing, x.group)
              IN  x.status = IF e = None THEN "active" ELSE e
      /\ \A g \in G : \E x \in NS : x.group = g
      /\ \A x, y \in NS : x.group = y.group => x = y
  BY <1>1, <1>2, <1>3, <1>5, NewSnapshotRows
<1>7. /\ NE \subseteq EventRows
      /\ \A e \in NE : e.run = r
      /\ \A e \in NE : e.group \in G =>
           \E x \in NS : x.group = e.group /\ x.status = e.type /\ x.status # "active"
      /\ \A x \in NS : x.status # "active" => \E e \in NE : e.group = x.group /\ e.type = x.status
      /\ \A e \in NE : e.group \notin G =>
           /\ states[s][e.group] # None
           /\ NextStates(s, p, m)[e.group] # states[s][e.group]
           /\ e.type = NextStates(s, p, m)[e.group].state
      /\ \A g \in GroupKeys \ G :
           IF states[s][g] = None THEN NextStates(s, p, m)[g] = None
           ELSE /\ NextStates(s, p, m)[g] = Absence(states[s][g], p.status)
                /\ NextStates(s, p, m)[g] # states[s][g] =>
                     \E e \in NE : e.group = g /\ e.type = NextStates(s, p, m)[g].state
  BY <1>1, <1>2, <1>3, <1>4, <1>5, NewEventRows
<1>8. /\ \A t \in Sources \ {s} : states'[t] = states[t]
      /\ states'[s] = NextStates(s, p, m)
      /\ states' \in [Sources -> [GroupKeys -> StateRows \cup {None}]]
  <2>1. NextStates(s, p, m) \in [GroupKeys -> StateRows \cup {None}]
    BY <1>1, <1>5, NextStatesType
  <2>2. states' = [states EXCEPT ![s] = NextStates(s, p, m)]
    BY DEF StoreAs, p, m
  <2> QED
    BY <1>5, <2>1, <2>2 DEF HistoryTypeOK
<1>9. \A g \in G : states'[s][g] = [state |-> "active", count |-> 0]
  BY <1>3, <1>8 DEF NextStates
<1>10. /\ runs' = [runs EXCEPT ![r].status = p.status, ![r].saved = p.status]
       /\ complexOf' = [complexOf EXCEPT ![s] = p.complex]
       /\ crawls' = [crawls EXCEPT ![s] =
                       Append(@, [complete |-> p.status = "completed", seen |-> G])]
       /\ tx' = [tx EXCEPT ![s] = None]
       /\ notifications' = notifications \cup Notified(s, NE)
       /\ snapshots' = snapshots \cup NS
       /\ events' = events \cup NE
  BY DEF StoreAs, p, m
<1>11. \A x \in NS :
         x.status = IF states[s][x.group] = None THEN "new"
                    ELSE IF states[s][x.group].state \in {"missing", "removed"} THEN "restored"
                    ELSE IF x.status = "changed" THEN "changed" ELSE "active"
  <2> SUFFICES ASSUME NEW x \in NS
               PROVE  x.status = IF states[s][x.group] = None THEN "new"
                    ELSE IF states[s][x.group].state \in {"missing", "removed"} THEN "restored"
                    ELSE IF x.status = "changed" THEN "changed" ELSE "active"
    OBVIOUS
  <2> DEFINE old == LatestIn(Complete(s, r, x.group))
             differs == Complete(s, r, x.group) # {} /\
                        Differs(old.listing, runs[old.run].payload.collect, x.listing, p.collect)
  <2>1. PresenceEvent(s, r, p, x.listing, x.group) =
          IF states[s][x.group] = None THEN "new"
          ELSE IF states[s][x.group].state \in {"missing", "removed"} THEN "restored"
          ELSE IF differs THEN "changed" ELSE None
    BY DEF PresenceEvent
  <2> HIDE DEF differs
  <2> QED
    BY <1>6, <2>1, NoneIsNoRow DEF EventTypes
<1> HIDE DEF G, NS, NE
<1>12. \A e, o \in NE : e.group = o.group => e = o
  BY <1>6, <1>7 DEF EventRows
<1>13. \A g \in G :
         /\ \A e \in NE : e.group = g => \E x \in NS : x.group = g /\ x.status = e.type
         /\ states[s][g] = None => \E e \in NE : e.group = g /\ e.type = "new"
         /\ states[s][g] # None /\ states[s][g].state \in {"missing", "removed"} =>
              \E e \in NE : e.group = g /\ e.type = "restored"
         /\ states[s][g] # None /\ states[s][g].state = "active" =>
              \A e \in NE : e.group = g => e.type = "changed"
  <2> TAKE g \in G
  <2>1. PICK x \in NS : x.group = g
    BY <1>6
  <2>2. x.status = "new" \/ x.status = "restored" =>
          \E e \in NE : e.group = g /\ e.type = x.status
    BY <1>7, <2>1
  <2>3. \A e \in NE : e.group = g => x.status = e.type /\ x.status # "active"
    BY <1>6, <1>7, <2>1
  <2> QED
    BY <1>11, <2>1, <2>2, <2>3
<1>14. \A g \in GroupKeys \ G :
         IF states[s][g] = None
         THEN states'[s][g] = None /\ \A e \in NE : e.group # g
         ELSE /\ states'[s][g] = Absence(states[s][g], p.status)
              /\ IF states'[s][g] = states[s][g] THEN \A e \in NE : e.group # g
                 ELSE \E e \in NE : e.group = g /\ e.type = states'[s][g].state
  BY <1>7, <1>8
<1> QED
  BY <1>3, <1>6, <1>7, <1>8, <1>9, <1>10, <1>12, <1>13, <1>14 DEF Effect, p, m, G, NS, NE


-----------------------------------------------------------------------------
(* The runs                                                                *)

\* One row of the runs gets another status, and may be saved.
LEMMA RowChanges ==
  ASSUME HistoryTypeOK, NEW r \in RunIds, NEW status \in Statuses,
         NEW saved \in {None, "completed", "partial"},
         \/ runs' = [runs EXCEPT ![r].status = status, ![r].saved = saved]
         \/ runs' = [runs EXCEPT ![r].status = status] /\ saved = runs[r].saved
  PROVE  /\ runs' \in Seq(RunRows)
         /\ RunIds' = RunIds
         /\ \A q \in RunIds \ {r} : runs'[q] = runs[q]
         /\ runs'[r].status = status /\ runs'[r].saved = saved
         /\ \A q \in RunIds : runs'[q].source = runs[q].source /\ runs'[q].payload = runs[q].payload
<1>1. runs \in Seq(RunRows)
  BY DEF HistoryTypeOK, RunRows
<1>2. runs[r] \in RunRows
  BY RunsAreRows
<1> DEFINE row == [runs[r] EXCEPT !.status = status, !.saved = saved]
<1>3. row \in RunRows /\ row.status = status /\ row.saved = saved
      /\ row.source = runs[r].source /\ row.payload = runs[r].payload
  BY <1>2 DEF RunRows
<1>4. runs' = [runs EXCEPT ![r] = row]
  <2>1. CASE runs' = [runs EXCEPT ![r].status = status, ![r].saved = saved]
    BY <1>1, <1>2, <2>1 DEF RunRows, RunIds
  <2>2. CASE runs' = [runs EXCEPT ![r].status = status] /\ saved = runs[r].saved
    <3>1. row = [runs[r] EXCEPT !.status = status]
      BY <1>2, <2>2 DEF RunRows
    <3> QED
      BY <2>2, <3>1
  <2> QED
    BY <2>1, <2>2
<1> HIDE DEF row
<1>5. DOMAIN runs = 1..Len(runs)
  BY <1>1
<1>6. runs' \in Seq(RunRows) /\ Len(runs') = Len(runs)
  BY <1>1, <1>3, <1>4, ExceptSeq DEF RunIds
<1>7. RunIds' = RunIds
  BY <1>4 DEF RunIds
<1>8. \A q \in RunIds : runs'[q] = IF q = r THEN row ELSE runs[q]
  BY <1>4 DEF RunIds
<1> QED
  BY <1>3, <1>6, <1>7, <1>8

LEMMA RowIsAdded ==
  ASSUME HistoryTypeOK, NEW s \in Sources, NEW p \in Payloads[s],
         runs' = Append(runs, RunRecord(s, p))
  PROVE  /\ runs' \in Seq(RunRows)
         /\ RunIds' = RunIds \cup {Len(runs) + 1} /\ Len(runs) + 1 \notin RunIds
         /\ \A q \in RunIds : runs'[q] = runs[q] /\ q < Len(runs) + 1
         /\ runs'[Len(runs) + 1] = RunRecord(s, p)
<1>1. runs \in Seq(RunRows) /\ RunIds = 1..Len(runs) /\ Len(runs) \in Nat
  BY RunsAreRows DEF HistoryTypeOK, RunRows
<1>2. RunRecord(s, p) \in RunRows
  BY DEF RunRecord, RunRows, AllPayloads, Statuses
<1>3. /\ runs' \in Seq(RunRows) /\ Len(runs') = Len(runs) + 1
      /\ \A i \in 1..Len(runs) : runs'[i] = runs[i]
      /\ runs'[Len(runs) + 1] = RunRecord(s, p)
  BY <1>1, <1>2, AppendProperties
<1>4. RunIds' = 1..(Len(runs) + 1)
  BY <1>3 DEF RunIds
<1> QED
  BY <1>1, <1>3, <1>4

\* The tables of the history stay, and what is saved of the runs.
Quiet ==
  /\ UNCHANGED <<snapshots, events, states, articleGroup, complexOf, notifications, crawls>>
  /\ RunIds \subseteq RunIds'
  /\ \A q \in RunIds : /\ runs'[q].source = runs[q].source
                       /\ runs'[q].payload = runs[q].payload
                       /\ runs'[q].saved = runs[q].saved
  /\ \A q \in RunIds' \ RunIds : runs'[q].saved = None /\ \A o \in RunIds : o < q

LEMMA QuietSteps ==
  ASSUME HistoryTypeOK, NEW s \in Sources,
         \/ \E p \in Payloads[s] : Capture(s, p)
         \/ Begin(s) \/ FindCompared(s) \/ LoadApartment(s)
         \/ Fails(s) \/ RejectComplex(s) \/ RejectListings(s)
         \/ \E wanted \in Preferences : UpdatePreference(s, wanted)
         \/ \E r \in RunIds : Withdraw(r)
  PROVE  Quiet
<1>1. ASSUME NEW p \in Payloads[s], Capture(s, p)
      PROVE  Quiet
  <2>1. runs' = Append(runs, RunRecord(s, p))
    BY <1>1 DEF Capture
  <2>2. RunRecord(s, p).saved = None
    BY DEF RunRecord
  <2> QED
    BY <1>1, <2>1, <2>2, RowIsAdded DEF Capture, Quiet
<1>2. ASSUME Failed(s) PROVE Quiet
  <2>1. PICK r \in Active(s) : runs' = [runs EXCEPT ![r].status = "failed"]
    BY <1>2 DEF Failed
  <2>2. r \in RunIds /\ runs[r].saved \in {None, "completed", "partial"}
    BY RunsAreRows DEF Active, RunsOf, RunRows
  <2>3. "failed" \in Statuses
    BY DEF Statuses
  <2>4. RunIds' = RunIds /\ \A q \in RunIds : /\ runs'[q].source = runs[q].source
                                              /\ runs'[q].payload = runs[q].payload
                                              /\ runs'[q].saved = runs[q].saved
    BY <2>1, <2>2, <2>3, RowChanges
  <2> QED
    BY <1>2, <2>4 DEF Failed, Quiet
<1>3. ASSUME NEW r \in RunIds, Withdraw(r) PROVE Quiet
  <2>1. runs' = [runs EXCEPT ![r].status = "cancelled"]
    BY <1>3 DEF Withdraw
  <2>2. runs[r].saved \in {None, "completed", "partial"} /\ "cancelled" \in Statuses
    BY RunsAreRows DEF RunRows, Statuses
  <2>3. RunIds' = RunIds /\ \A q \in RunIds : /\ runs'[q].source = runs[q].source
                                              /\ runs'[q].payload = runs[q].payload
                                              /\ runs'[q].saved = runs[q].saved
    BY <2>1, <2>2, RowChanges
  <2> QED
    BY <1>3, <2>3 DEF Withdraw, Quiet
<1>4. ASSUME \/ Begin(s) \/ FindCompared(s) \/ LoadApartment(s)
             \/ \E wanted \in Preferences : UpdatePreference(s, wanted)
      PROVE  Quiet
  <2>1. UNCHANGED tables
    BY <1>4 DEF Begin, FindCompared, LoadApartment, UpdatePreference
  <2> QED
    BY <2>1 DEF tables, Quiet, RunIds
<1> QED
  BY <1>1, <1>2, <1>3, <1>4 DEF Fails, RejectComplex, RejectListings

\* What an open save has read after a statement of its own.
LEMMA SaveReads ==
  ASSUME HistoryTypeOK, NEW t \in Sources
  PROVE  /\ Begin(t) => tx'[t] = [at |-> "compare", baseline |-> SavedAs(t, "completed") = {},
                                  compare |-> None, loaded |-> None]
         /\ FindCompared(t) => LET done == SavedAs(t, "completed") IN
              tx'[t] = [at |-> "load", baseline |-> tx[t].baseline,
                        compare |-> IF done = {} THEN None ELSE Latest(done),
                        loaded |-> tx[t].loaded]
         /\ LoadApartment(t) => \E row :
              tx'[t] = [at |-> "store", baseline |-> tx[t].baseline,
                        compare |-> tx[t].compare, loaded |-> row]
<1> DEFINE x == tx[t]
<1>1. /\ DOMAIN tx = Sources
      /\ x # None => x = [at |-> x.at, baseline |-> x.baseline, compare |-> x.compare,
                          loaded |-> x.loaded]
  BY DEF HistoryTypeOK, IsSave
<1>2. Begin(t) => tx'[t] = [at |-> "compare", baseline |-> SavedAs(t, "completed") = {},
                            compare |-> None, loaded |-> None]
  BY <1>1 DEF Begin
<1>3. ASSUME FindCompared(t)
      PROVE  LET done == SavedAs(t, "completed") IN
             tx'[t] = [at |-> "load", baseline |-> x.baseline,
                       compare |-> IF done = {} THEN None ELSE Latest(done),
                       loaded |-> x.loaded]
  <2> DEFINE found == IF SavedAs(t, "completed") = {} THEN None
                      ELSE Latest(SavedAs(t, "completed"))
  <2>1. /\ tx' = [tx EXCEPT ![t].at = "load", ![t].compare = found]
        /\ x # None
    BY <1>3 DEF FindCompared, Reading
  <2> HIDE DEF found
  <2>2. tx'[t] = [x EXCEPT !.at = "load", !.compare = found]
    BY <1>1, <2>1
  <2> HIDE DEF x
  <2>3. tx'[t] = [at |-> "load", baseline |-> x.baseline, compare |-> found,
                  loaded |-> x.loaded]
    BY <1>1, <2>1, <2>2
  <2> QED
    BY <2>3 DEF found
<1>4. ASSUME LoadApartment(t)
      PROVE  \E row : tx'[t] = [at |-> "store", baseline |-> x.baseline,
                                compare |-> x.compare, loaded |-> row]
  <2>1. x # None /\ \E row : tx' = [tx EXCEPT ![t].at = "store", ![t].loaded = row]
    BY <1>4 DEF LoadApartment, Reading
  <2>2. PICK row : tx' = [tx EXCEPT ![t].at = "store", ![t].loaded = row]
    BY <2>1
  <2>3. tx'[t] = [x EXCEPT !.at = "store", !.loaded = row]
    BY <1>1, <2>2
  <2> HIDE DEF x
  <2> QED
    BY <1>1, <2>1, <2>3
<1> QED
  BY <1>2, <1>3, <1>4

LEMMA SaveFields ==
  ASSUME HistoryTypeOK, NEW t \in Sources
  PROVE  /\ Begin(t) => /\ tx'[t].baseline <=> SavedAs(t, "completed") = {}
                        /\ tx'[t].compare = None /\ tx'[t].at = "compare"
         /\ FindCompared(t) => LET done == SavedAs(t, "completed") IN
              /\ tx'[t].baseline = tx[t].baseline /\ tx'[t].at = "load"
              /\ tx'[t].compare = IF done = {} THEN None ELSE Latest(done)
              /\ tx[t] # None /\ tx[t].at = "compare"
         /\ LoadApartment(t) =>
              /\ tx'[t].baseline = tx[t].baseline /\ tx'[t].at = "store"
              /\ tx'[t].compare = tx[t].compare
              /\ tx[t] # None /\ tx[t].at = "load"
<1>1. ASSUME Begin(t)
      PROVE  /\ tx'[t].baseline <=> SavedAs(t, "completed") = {}
             /\ tx'[t].compare = None /\ tx'[t].at = "compare"
  <2> DEFINE first == SavedAs(t, "completed") = {}
  <2>1. tx'[t] = [at |-> "compare", baseline |-> first, compare |-> None, loaded |-> None]
    BY <1>1, SaveReads
  <2>2. tx'[t].baseline = first /\ tx'[t].compare = None /\ tx'[t].at = "compare"
    <3> HIDE DEF first
    <3> QED
      BY <2>1
  <2> QED
    BY <2>2, Zenon
<1>2. ASSUME FindCompared(t)
      PROVE  LET done == SavedAs(t, "completed") IN
             /\ tx'[t].baseline = tx[t].baseline /\ tx'[t].at = "load"
             /\ tx'[t].compare = IF done = {} THEN None ELSE Latest(done)
             /\ tx[t] # None /\ tx[t].at = "compare"
  <2> DEFINE found == IF SavedAs(t, "completed") = {} THEN None
                      ELSE Latest(SavedAs(t, "completed"))
  <2>1. tx'[t] = [at |-> "load", baseline |-> tx[t].baseline, compare |-> found,
                  loaded |-> tx[t].loaded]
    BY <1>2, SaveReads
  <2>2. tx'[t].baseline = tx[t].baseline /\ tx'[t].at = "load" /\ tx'[t].compare = found
    <3> HIDE DEF found
    <3> QED
      BY <2>1
  <2>3. tx[t] # None /\ tx[t].at = "compare"
    BY <1>2 DEF FindCompared, Reading
  <2> QED
    BY <2>2, <2>3
<1>3. ASSUME LoadApartment(t)
      PROVE  /\ tx'[t].baseline = tx[t].baseline /\ tx'[t].at = "store"
             /\ tx'[t].compare = tx[t].compare
             /\ tx[t] # None /\ tx[t].at = "load"
  <2>1. PICK row : tx'[t] = [at |-> "store", baseline |-> tx[t].baseline,
                             compare |-> tx[t].compare, loaded |-> row]
    BY <1>3, SaveReads
  <2>2. tx'[t].baseline = tx[t].baseline /\ tx'[t].at = "store" /\ tx'[t].compare = tx[t].compare
    BY <2>1
  <2>3. tx[t] # None /\ tx[t].at = "load"
    BY <1>3 DEF LoadApartment, Reading
  <2> QED
    BY <2>2, <2>3
<1> QED
  BY <1>1, <1>2, <1>3


-----------------------------------------------------------------------------
(* Types                                                                   *)

LEMMA TypesOfSave ==
  ASSUME HistoryInv, NEW s \in Sources, Store(s)
  PROVE  HistoryTypeOK'
<1>1. PICK r \in Active(s) :
        Reading(s, "store") /\ StoreAs(s, r, runs[r].payload, GroupsOf(s, r, runs[r].payload))
  BY DEF Store
<1> DEFINE p == runs[r].payload
           m == GroupsOf(s, r, p)
           G == Range(m)
           NS == NewSnapshots(s, r, p, m)
           NE == NewEvents(s, r, p, m)
<1>2. Effect(s, r, G, NS, NE)
  BY <1>1, StoreHasEffect
<1>3. HistoryTypeOK /\ r \in RunIds /\ p \in AllPayloads /\ r \in Nat
  BY RunsAreRows DEF HistoryInv, Active, RunsOf, RunRows
<1>4. DOMAIN m = DOMAIN p.listings /\ \A i \in DOMAIN p.listings : m[i] \in GroupKeys
  BY <1>3, GroupsAreOfComplex
<1>5. articleGroup' = NewArticles(p, m) /\ prefs' = prefs /\ disturbances' = disturbances
  BY <1>1 DEF StoreAs
<1>6. articleGroup' \in [Articles -> GroupKeys \cup {None}]
  BY <1>3, <1>4, <1>5 DEF NewArticles, HistoryTypeOK
<1> HIDE DEF p, m, G, NS, NE
<1>7. p.status \in {"completed", "partial"} /\ p.complex \in Complexes
  BY <1>3, PayloadRows
<1>8. runs' = [runs EXCEPT ![r].status = p.status, ![r].saved = p.status]
  BY <1>2 DEF Effect, p
<1>9. /\ runs' \in Seq(RunRows) /\ RunIds' = RunIds
      /\ \A q \in RunIds \ {r} : runs'[q] = runs[q]
      /\ \A q \in RunIds : runs'[q].source = runs[q].source
  BY <1>3, <1>7, <1>8, RowChanges DEF Statuses
<1>10. complexOf' \in [Sources -> Complexes \cup {None}]
  BY <1>2, <1>3, <1>7 DEF Effect, HistoryTypeOK, p
<1>11. snapshots' \subseteq {x \in SnapshotRows : x.run \in RunIds'}
  BY <1>2, <1>3, <1>9 DEF Effect, HistoryTypeOK
<1>12. events' \subseteq {e \in EventRows : e.run \in RunIds'}
  BY <1>2, <1>3, <1>9 DEF Effect, HistoryTypeOK
<1>13. states' \in [Sources -> [GroupKeys -> StateRows \cup {None}]]
  BY <1>2 DEF Effect
<1>14. notifications' \subseteq {n \in NotificationRows :
          n.run \in RunIds' /\ n.compare \in RunIds' \cup {None}}
  <2>1. \A n \in Notified(s, NE) :
          /\ n \in NotificationRows /\ n.run = r /\ n.compare \in RunIds \cup {None}
    <3> SUFFICES ASSUME NEW e \in NE, ~tx[s].baseline
                 PROVE  LET n == [source |-> s, run |-> e.run, group |-> e.group, type |-> e.type,
                                  compare |-> tx[s].compare]
                        IN  /\ n \in NotificationRows /\ n.run = r
                            /\ n.compare \in RunIds \cup {None}
      BY DEF Notified
    <3>1. e \in EventRows /\ e.run = r
      BY <1>2 DEF Effect
    <3>2. tx[s].compare \in RunIds \cup {None}
      BY <1>1, <1>3 DEF HistoryTypeOK, Reading, IsSave
    <3>3. tx[s].compare \in Nat \cup {None}
      BY <1>3, <3>2, RunsAreRows
    <3> QED
      BY <3>1, <3>2, <3>3 DEF NotificationRows, EventRows
  <2>2. notifications' = notifications \cup Notified(s, NE)
    BY <1>2 DEF Effect
  <2> QED
    BY <1>3, <1>9, <2>1, <2>2 DEF HistoryTypeOK
<1>15. crawls' \in [Sources -> Seq([complete : BOOLEAN, seen : SUBSET GroupKeys])]
  <2>1. [complete |-> p.status = "completed", seen |-> G]
          \in [complete : BOOLEAN, seen : SUBSET GroupKeys]
    BY <1>2 DEF Effect
  <2>2. crawls' = [crawls EXCEPT ![s] =
                    Append(@, [complete |-> p.status = "completed", seen |-> G])]
    BY <1>2 DEF Effect, p
  <2> QED
    BY <1>3, <2>1, <2>2, AppendProperties DEF HistoryTypeOK
<1>16. DOMAIN tx' = Sources /\ \A t \in Sources : tx'[t] # None =>
         Active(t)' # {} /\ IsSave(tx[t])'
  <2>1. tx' = [tx EXCEPT ![s] = None]
    BY <1>2 DEF Effect
  <2>2. \A t \in Sources \ {s} : Active(t) \subseteq Active(t)'
    BY <1>1, <1>3, <1>9 DEF Active, RunsOf
  <2>3. tx'[s] = None /\ \A t \in Sources \ {s} : tx'[t] = tx[t]
    BY <1>3, <2>1 DEF HistoryTypeOK
  <2>4. \A t \in Sources : IsSave(tx[t]) /\ tx'[t] = tx[t] => IsSave(tx[t])'
    BY <1>9 DEF IsSave
  <2>5. DOMAIN tx' = Sources
    BY <1>3, <2>1 DEF HistoryTypeOK
  <2>6. ASSUME NEW t \in Sources, tx'[t] # None PROVE Active(t)' # {} /\ IsSave(tx[t])'
    <3>1. t # s /\ tx'[t] = tx[t]
      BY <2>3, <2>6
    <3>2. Active(t) # {} /\ IsSave(tx[t])
      BY <1>3, <2>6, <3>1 DEF HistoryTypeOK
    <3> QED
      BY <2>2, <2>4, <3>1, <3>2
  <2> QED
    BY <2>5, <2>6
<1> QED
  BY <1>3, <1>5, <1>6, <1>9, <1>10, <1>11, <1>12, <1>13, <1>14, <1>15, <1>16
  DEF HistoryTypeOK, RunRows

LEMMA TypesOfQuiet ==
  ASSUME HistoryTypeOK, Quiet,
         runs' \in Seq(RunRows),
         prefs' \in [Sources -> Preferences],
         disturbances' \in 0..MaxDisturbances,
         DOMAIN tx' = Sources,
         \A t \in Sources : tx'[t] # None =>
           Active(t)' # {} /\ IsSave(tx'[t])
  PROVE  HistoryTypeOK'
<1>1. snapshots' \subseteq {x \in SnapshotRows : x.run \in RunIds'}
  BY DEF HistoryTypeOK, Quiet
<1>2. events' \subseteq {e \in EventRows : e.run \in RunIds'}
  BY DEF HistoryTypeOK, Quiet
<1>3. notifications' \subseteq {n \in NotificationRows :
         n.run \in RunIds' /\ n.compare \in RunIds' \cup {None}}
  BY DEF HistoryTypeOK, Quiet
<1>4. \A t \in Sources : tx'[t] # None => IsSave(tx[t])'
  BY DEF Quiet, IsSave
<1> QED
  BY <1>1, <1>2, <1>3, <1>4 DEF HistoryTypeOK, Quiet, RunRows

LEMMA TypesOfOthers ==
  ASSUME HistoryTypeOK, RunsInOrder, NEW s \in Sources,
         \/ \E p \in Payloads[s] : Capture(s, p)
         \/ Begin(s) \/ FindCompared(s) \/ LoadApartment(s)
         \/ Fails(s) \/ RejectComplex(s) \/ RejectListings(s)
         \/ \E wanted \in Preferences : UpdatePreference(s, wanted)
         \/ \E r \in RunIds : Withdraw(r)
  PROVE  HistoryTypeOK'
<1>1. Quiet
  BY QuietSteps
<1>2. runs \in Seq(RunRows) /\ \A r \in RunIds : runs[r].saved \in {None, "completed", "partial"}
  BY RunsAreRows DEF HistoryTypeOK, RunRows
<1>3. Disturb => disturbances' \in 0..MaxDisturbances
  BY BoundsAssumption DEF Disturb, HistoryTypeOK
<1>4. ASSUME NEW p \in Payloads[s], Capture(s, p)
      PROVE  HistoryTypeOK'
  <2>1. /\ runs' \in Seq(RunRows) /\ RunIds \subseteq RunIds'
        /\ \A q \in RunIds : runs'[q] = runs[q]
    BY <1>4, RowIsAdded DEF Capture
  <2>2. \A t \in Sources : Active(t) \subseteq Active(t)'
    BY <2>1 DEF Active, RunsOf
  <2>3. UNCHANGED <<tx, prefs, disturbances>>
    BY <1>4 DEF Capture
  <2>4. \A t \in Sources : tx'[t] # None =>
          Active(t)' # {} /\ IsSave(tx'[t])
    BY <2>2, <2>3 DEF HistoryTypeOK
  <2> QED
    BY <1>1, <2>1, <2>3, <2>4, TypesOfQuiet DEF HistoryTypeOK
<1>5. ASSUME Begin(s) \/ FindCompared(s) \/ LoadApartment(s) PROVE HistoryTypeOK'
  <2>1. UNCHANGED <<tables, prefs, disturbances>>
    BY <1>5 DEF Begin, FindCompared, LoadApartment
  <2>2. \A t \in Sources : Active(t)' = Active(t)
    BY <2>1 DEF tables, Active, RunsOf, RunIds
  <2>3. DOMAIN tx' = Sources /\ \A t \in Sources \ {s} : tx'[t] = tx[t]
    BY <1>5 DEF Begin, FindCompared, LoadApartment, HistoryTypeOK
  <2>4. Active(s) # {} /\ IsSave(tx'[s])
    <3>1. CASE Begin(s)
      <4> DEFINE done == SavedAs(s, "completed")
                 first == done = {}
      <4>1. tx'[s] = [at |-> "compare", baseline |-> first, compare |-> None, loaded |-> None]
        BY <3>1, SaveReads
      <4>2. first \in BOOLEAN /\ Active(s) # {}
        BY <3>1 DEF Begin
      <4> HIDE DEF first
      <4> QED
        BY <4>1, <4>2 DEF IsSave
    <3>2. CASE FindCompared(s)
      <4> DEFINE done == SavedAs(s, "completed")
                 found == IF done = {} THEN None ELSE Latest(done)
      <4>1. found \in RunIds \cup {None}
        <5>1. done \subseteq RunIds
          BY DEF SavedAs, RunsOf
        <5> HIDE DEF done
        <5> QED
          BY <5>1, RunsAreRows, LatestIsGreatest
      <4>2. tx'[s] = [at |-> "load", baseline |-> tx[s].baseline, compare |-> found,
                      loaded |-> tx[s].loaded]
        BY <3>2, SaveReads
      <4>3. Active(s) # {} /\ tx[s].baseline \in BOOLEAN
        BY <3>2 DEF FindCompared, Reading, HistoryTypeOK, IsSave
      <4> HIDE DEF found
      <4> QED
        BY <4>1, <4>2, <4>3 DEF IsSave
    <3>3. CASE LoadApartment(s)
      <4>1. PICK row : tx'[s] = [at |-> "store", baseline |-> tx[s].baseline,
                                 compare |-> tx[s].compare, loaded |-> row]
        BY <3>3, SaveReads
      <4>2. /\ Active(s) # {} /\ tx[s].baseline \in BOOLEAN
            /\ tx[s].compare \in RunIds \cup {None}
        BY <3>3 DEF LoadApartment, Reading, HistoryTypeOK, IsSave
      <4> QED
        BY <4>1, <4>2 DEF IsSave
    <3> QED
      BY <1>5, <3>1, <3>2, <3>3
  <2>5. \A t \in Sources : tx'[t] # None => Active(t)' # {} /\ IsSave(tx'[t])
    BY <2>2, <2>3, <2>4 DEF HistoryTypeOK
  <2>6. runs' \in Seq(RunRows) /\ prefs' = prefs /\ disturbances' = disturbances
    BY <1>2, <2>1 DEF tables
  <2> QED
    BY <1>1, <2>3, <2>5, <2>6, TypesOfQuiet DEF HistoryTypeOK
<1>6. ASSUME Failed(s), disturbances' \in 0..MaxDisturbances PROVE HistoryTypeOK'
  <2>1. PICK r \in Active(s) : runs' = [runs EXCEPT ![r].status = "failed"]
    BY <1>6 DEF Failed
  <2>2. r \in RunIds /\ runs[r].source = s /\ "failed" \in Statuses
    BY DEF Active, RunsOf, Statuses
  <2>3. /\ runs' \in Seq(RunRows) /\ RunIds' = RunIds
        /\ \A q \in RunIds \ {r} : runs'[q] = runs[q]
    BY <1>2, <2>1, <2>2, RowChanges
  <2>4. \A t \in Sources \ {s} : Active(t) \subseteq Active(t)'
    BY <2>2, <2>3 DEF Active, RunsOf
  <2>5. tx' = [tx EXCEPT ![s] = None] /\ prefs' = prefs
    BY <1>6 DEF Failed
  <2>6. \A t \in Sources : tx'[t] # None =>
          Active(t)' # {} /\ IsSave(tx'[t])
    BY <2>4, <2>5 DEF HistoryTypeOK
  <2>7. DOMAIN tx' = Sources
    BY <2>5 DEF HistoryTypeOK
  <2> QED
    BY <1>1, <1>6, <2>3, <2>5, <2>6, <2>7, TypesOfQuiet DEF HistoryTypeOK
<1>7. ASSUME NEW r \in RunIds, Withdraw(r) PROVE HistoryTypeOK'
  <2>1. runs' = [runs EXCEPT ![r].status = "cancelled"] /\ runs[r].status # "running"
    BY <1>7 DEF Withdraw
  <2>2. /\ runs' \in Seq(RunRows) /\ RunIds' = RunIds
        /\ \A q \in RunIds \ {r} : runs'[q] = runs[q]
    BY <1>2, <2>1, RowChanges DEF Statuses
  <2>3. \A t \in Sources : Active(t) \subseteq Active(t)'
    BY <2>1, <2>2 DEF Active, RunsOf
  <2>4. tx' = tx /\ prefs' = prefs /\ Disturb
    BY <1>7 DEF Withdraw
  <2>5. \A t \in Sources : tx'[t] # None =>
          Active(t)' # {} /\ IsSave(tx'[t])
    BY <2>3, <2>4 DEF HistoryTypeOK
  <2> QED
    BY <1>1, <1>3, <2>2, <2>4, <2>5, TypesOfQuiet DEF HistoryTypeOK
<1>8. ASSUME NEW wanted \in Preferences, UpdatePreference(s, wanted) PROVE HistoryTypeOK'
  <2>1. UNCHANGED <<tables, tx>> /\ Disturb /\ prefs' = [prefs EXCEPT ![s] = wanted]
    BY <1>8 DEF UpdatePreference
  <2>2. \A t \in Sources : Active(t)' = Active(t)
    BY <2>1 DEF tables, Active, RunsOf, RunIds
  <2>3. \A t \in Sources : tx'[t] # None =>
          Active(t)' # {} /\ IsSave(tx'[t])
    BY <2>1, <2>2 DEF HistoryTypeOK
  <2>4. runs' \in Seq(RunRows) /\ prefs' \in [Sources -> Preferences]
    BY <1>2, <2>1 DEF tables, HistoryTypeOK
  <2> QED
    BY <1>1, <1>3, <2>1, <2>3, <2>4, TypesOfQuiet DEF HistoryTypeOK
<1> QED
  BY <1>3, <1>4, <1>5, <1>6, <1>7, <1>8 DEF Fails, RejectComplex, RejectListings, HistoryTypeOK


-----------------------------------------------------------------------------
(* Quiet steps                                                             *)

LEMMA QuietFrame ==
  ASSUME HistoryTypeOK, Quiet
  PROVE  /\ \A q \in RunIds : \A t \in Sources : q \in RunsOf(t)' <=> q \in RunsOf(t)
         /\ \A t \in Sources : SavedRuns(t)' = SavedRuns(t)
         /\ \A q, g : SnapshotsIn({q}, g)' = SnapshotsIn({q}, g)
         /\ \A q, g : Listed(q, g)' <=> Listed(q, g)
         /\ \A t \in Sources : \A g : SnapshotsIn(RunsOf(t), g)' = SnapshotsIn(RunsOf(t), g)
         /\ \A t \in Sources : \A g : Heard(t, g)' = Heard(t, g)
         /\ \A r, types : Heralds(r, types)' = Heralds(r, types)
<1>1. snapshots' = snapshots /\ events' = events
  BY DEF Quiet
<1>2. \A q \in RunIds : \A t \in Sources : q \in RunsOf(t)' <=> q \in RunsOf(t)
  BY DEF Quiet, RunsOf
<1>3. \A t \in Sources : SavedRuns(t)' = SavedRuns(t)
  BY DEF Quiet, SavedRuns, RunsOf
<1>4. \A q, g : SnapshotsIn({q}, g)' = SnapshotsIn({q}, g)
  BY <1>1 DEF SnapshotsIn
<1>5. \A q, g : Listed(q, g)' <=> Listed(q, g)
  BY <1>4 DEF Listed
<1>6. \A x \in snapshots : x.run \in RunIds
  BY DEF HistoryTypeOK
<1>7. \A t \in Sources : \A g : SnapshotsIn(RunsOf(t), g)' = SnapshotsIn(RunsOf(t), g)
  BY <1>1, <1>2, <1>6 DEF SnapshotsIn
<1>8. \A e \in events : e.run \in RunIds
  BY DEF HistoryTypeOK
<1>9. \A t \in Sources : \A g : Heard(t, g)' = Heard(t, g)
  BY <1>1, <1>2, <1>8 DEF Heard
<1>10. \A r, types : Heralds(r, types)' = Heralds(r, types)
  BY <1>1 DEF Heralds
<1> QED
  BY <1>2, <1>3, <1>4, <1>5, <1>7, <1>9, <1>10

LEMMA QuietKeeps ==
  ASSUME HistoryInv, Quiet
  PROVE  /\ SnapshotsAreOfRuns' /\ EventsAreOfSnapshots' /\ StatesFollowEvents'
         /\ LastRunIsActive' /\ GoneIsReported' /\ StepsAreReported'
         /\ ArticleKeepsGroup' /\ StatesAreJudged'
<1> USE DEF HistoryInv
<1>1. UNCHANGED <<snapshots, events, states, articleGroup, crawls>>
  BY DEF Quiet
<1>2. /\ \A x \in snapshots : x.run \in RunIds
      /\ \A e \in events : e.run \in RunIds /\ runs[e.run].source \in Sources
  BY RunsAreRows DEF HistoryTypeOK, RunRows
<1>3. \A q \in RunIds : /\ runs'[q].source = runs[q].source
                        /\ runs'[q].payload = runs[q].payload
                        /\ runs'[q].saved = runs[q].saved
  BY DEF Quiet
<1>4. \A t \in Sources : SavedRuns(t)' = SavedRuns(t) /\ SavedRuns(t) \subseteq RunIds
  BY QuietFrame DEF SavedRuns, RunsOf
<1>5. /\ \A q, g : SnapshotsIn({q}, g)' = SnapshotsIn({q}, g)
      /\ \A q, g : Listed(q, g)' <=> Listed(q, g)
      /\ \A t \in Sources : \A g : SnapshotsIn(RunsOf(t), g)' = SnapshotsIn(RunsOf(t), g)
      /\ \A t \in Sources : \A g : Heard(t, g)' = Heard(t, g)
      /\ \A r, types : Heralds(r, types)' = Heralds(r, types)
      /\ \A q \in RunIds : \A t \in Sources : q \in RunsOf(t)' <=> q \in RunsOf(t)
  BY QuietFrame
<1>6. SnapshotsAreOfRuns'
  BY <1>1, <1>2, <1>3 DEF SnapshotsAreOfRuns
<1>7. EventsAreOfSnapshots'
  <2>1. \A e, o \in events' : e.run = o.run /\ e.group = o.group => e = o
    BY <1>1 DEF EventsAreOfSnapshots
  <2>2. ASSUME NEW e \in events PROVE EventIsOfSnapshot(e)'
    <3> DEFINE source == runs[e.run].source
    <3>1. /\ runs'[e.run].saved = runs[e.run].saved /\ runs'[e.run].source = source
          /\ source \in Sources
      BY <1>2, <1>3
    <3>2. SavedRuns(source)' = SavedRuns(source)
      BY <1>4, <3>1
    <3>3. EventIsOfSnapshot(e)
      BY DEF EventsAreOfSnapshots
    <3> QED
      BY <1>5, <3>1, <3>2, <3>3 DEF EventIsOfSnapshot
  <2> QED
    BY <1>1, <2>1, <2>2 DEF EventsAreOfSnapshots
<1>8. StatesFollowEvents'
  <2> SUFFICES ASSUME NEW t \in Sources, NEW g \in GroupKeys
               PROVE  StateFollowsEvents(t, g)'
    BY DEF StatesFollowEvents
  <2>1. StateFollowsEvents(t, g)
    BY DEF StatesFollowEvents
  <2> QED
    BY <1>1, <1>5, <2>1 DEF StateFollowsEvents
<1>9. LastRunIsActive'
  BY <1>1, <1>3, <1>4, <1>5 DEF LastRunIsActive
<1>10. GoneIsReported'
  BY <1>1, <1>2, <1>3, <1>4, <1>5 DEF GoneIsReported
<1>11. StepsAreReported'
  BY <1>1, <1>3, <1>4, <1>5 DEF StepsAreReported
<1>12. ArticleKeepsGroup'
  BY <1>1 DEF ArticleKeepsGroup
<1>13. StatesAreJudged'
  <2>1. StatesAreJudged /\ crawls' = crawls /\ states' = states
    BY <1>1
  <2> HIDE DEF HistoryInv
  <2> QED
    BY <2>1 DEF StatesAreJudged, Watch!Misses, Watch!MissedIn
<1> QED
  BY <1>6, <1>7, <1>8, <1>9, <1>10, <1>11, <1>12, <1>13


-----------------------------------------------------------------------------
(* Saves                                                                   *)

\* The run of a save, and the runs beside it.
RunEffect(s, r) ==
  /\ r \in RunsOf(s) /\ r \in RunIds /\ r \in Nat /\ runs[r].saved = None
  /\ \A q \in RunsOf(s) : q \in Nat /\ q <= r
  /\ runs[r].payload \in AllPayloads
  /\ runs[r].payload.status \in {"completed", "partial"}
  /\ runs' \in Seq(RunRows)
  /\ RunIds' = RunIds
  /\ runs'[r].saved = runs[r].payload.status /\ runs'[r].status = runs[r].payload.status
  /\ \A q \in RunIds \ {r} : runs'[q] = runs[q]
  /\ \A q \in RunIds : runs'[q].source = runs[q].source /\ runs'[q].payload = runs[q].payload
  /\ \A t \in Sources : RunsOf(t)' = RunsOf(t)
  /\ \A t \in Sources \ {s} : r \notin RunsOf(t)

LEMMA SaveOfRun ==
  ASSUME HistoryInv, NEW s \in Sources, NEW r, NEW G, NEW NS, NEW NE, Effect(s, r, G, NS, NE)
  PROVE  RunEffect(s, r)
<1>1. r \in RunsOf(s) /\ r \in RunIds /\ runs[r].source = s
  BY DEF Effect, Active, RunsOf
<1>2. HistoryTypeOK
  BY DEF HistoryInv
<1>3. /\ r \in Nat /\ runs[r].payload \in AllPayloads /\ \A q \in RunsOf(s) : q \in Nat
      /\ \A t \in Sources \ {s} : r \notin RunsOf(t)
  BY <1>1, <1>2, RunsAreRows DEF RunRows, RunsOf
<1>4. runs[r].saved = None /\ \A q \in RunsOf(s) : q <= r
  BY DEF HistoryInv, RunsInOrder, Effect
<1>5. runs[r].payload.status \in {"completed", "partial"}
  BY <1>3, PayloadRows
<1> DEFINE status == runs[r].payload.status
<1>6. runs' = [runs EXCEPT ![r].status = status, ![r].saved = status]
  BY DEF Effect
<1> HIDE DEF status
<1>7. /\ runs' \in Seq(RunRows) /\ RunIds' = RunIds
      /\ \A q \in RunIds \ {r} : runs'[q] = runs[q]
      /\ runs'[r].status = status /\ runs'[r].saved = status
      /\ \A q \in RunIds : runs'[q].source = runs[q].source /\ runs'[q].payload = runs[q].payload
  BY <1>1, <1>2, <1>5, <1>6, RowChanges DEF Statuses, status
<1>8. \A t \in Sources : RunsOf(t)' = RunsOf(t)
  BY <1>7 DEF RunsOf
<1> QED
  BY <1>1, <1>3, <1>4, <1>5, <1>7, <1>8 DEF RunEffect, status

\* What the tables say of the runs of a source and of others after it.
TableEffect(s, r, G, NS, NE) ==
  /\ SavedRuns(s)' = SavedRuns(s) \cup {r} /\ \A q \in SavedRuns(s) : q \in Nat /\ q < r
  /\ \A t \in Sources \ {s} : SavedRuns(t)' = SavedRuns(t) /\ r \notin SavedRuns(t)
  /\ \A x \in snapshots : x.run \in RunIds /\ x.run # r /\ x.group \in GroupKeys
  /\ \A e \in events : e.run \in RunIds /\ e.run # r /\ e.group \in GroupKeys
  /\ \A g : SnapshotsIn({r}, g)' = {x \in NS : x.group = g}
  /\ \A g : \A q \in RunIds \ {r} : SnapshotsIn({q}, g)' = SnapshotsIn({q}, g)
  /\ \A g : (Listed(r, g)' <=> g \in G) /\ ~Listed(r, g)
  /\ \A g : \A q \in RunIds \ {r} : Listed(q, g)' <=> Listed(q, g)
  /\ \A g : SnapshotsIn(RunsOf(s), g)' = SnapshotsIn(RunsOf(s), g) \cup {x \in NS : x.group = g}
  /\ \A g : Heard(s, g)' = Heard(s, g) \cup {e \in NE : e.group = g}
  /\ \A g : \A t \in Sources \ {s} :
       /\ SnapshotsIn(RunsOf(t), g)' = SnapshotsIn(RunsOf(t), g)
       /\ Heard(t, g)' = Heard(t, g)

LEMMA SaveOfTables ==
  ASSUME HistoryInv, NEW s \in Sources, NEW r, NEW G, NEW NS, NEW NE, Effect(s, r, G, NS, NE)
  PROVE  TableEffect(s, r, G, NS, NE)
<1>1. /\ r \in RunsOf(s) /\ r \in RunIds /\ r \in Nat /\ runs[r].saved = None
      /\ \A q \in RunsOf(s) : q \in Nat /\ q <= r
      /\ runs[r].payload.status \in {"completed", "partial"}
      /\ runs'[r].saved = runs[r].payload.status
      /\ \A q \in RunIds \ {r} : runs'[q] = runs[q]
      /\ \A t \in Sources : RunsOf(t)' = RunsOf(t) /\ RunsOf(t) \subseteq RunIds
      /\ \A t \in Sources \ {s} : r \notin RunsOf(t)
  BY SaveOfRun DEF RunEffect, RunsOf
<1>2. SavedRuns(s)' = SavedRuns(s) \cup {r} /\ \A q \in SavedRuns(s) : q \in Nat /\ q < r
  <2>1. runs'[r].saved # None
    BY <1>1, NoneIsNoRow
  <2>2. \A q \in RunsOf(s) \ {r} : runs'[q] = runs[q]
    BY <1>1
  <2>3. RunsOf(s)' = RunsOf(s)
    BY <1>1
  <2>4. \A q : q \in SavedRuns(s)' <=> q \in SavedRuns(s) \/ q = r
    BY <1>1, <2>1, <2>2, <2>3 DEF SavedRuns
  <2>5. ASSUME NEW q \in SavedRuns(s) PROVE q \in Nat /\ q < r
    <3>1. q \in Nat /\ r \in Nat /\ q <= r /\ q # r
      BY <1>1 DEF SavedRuns
    <3> QED
      BY <3>1
  <2> QED
    BY <2>4, <2>5
<1>3. \A t \in Sources \ {s} : SavedRuns(t)' = SavedRuns(t) /\ r \notin SavedRuns(t)
  BY <1>1 DEF SavedRuns
<1>4. \A x \in snapshots : x.run \in RunIds /\ x.run # r /\ x.group \in GroupKeys
  BY <1>1 DEF HistoryInv, SnapshotsAreOfRuns, HistoryTypeOK, SnapshotRows
<1>5. \A e \in events : e.run \in RunIds /\ e.run # r /\ e.group \in GroupKeys
  BY <1>1 DEF HistoryInv, EventsAreOfSnapshots, EventIsOfSnapshot, HistoryTypeOK, EventRows
<1>6. /\ snapshots' = snapshots \cup NS /\ events' = events \cup NE
      /\ \A x \in NS : x.run = r /\ x.group \in G
      /\ \A g \in G : \E x \in NS : x.group = g
      /\ \A e \in NE : e.run = r
  BY DEF Effect
<1>7. \A g : SnapshotsIn({r}, g)' = {x \in NS : x.group = g} /\ SnapshotsIn({r}, g) = {}
  BY <1>4, <1>6 DEF SnapshotsIn
<1>8. \A g : \A q \in RunIds \ {r} : SnapshotsIn({q}, g)' = SnapshotsIn({q}, g)
  BY <1>6 DEF SnapshotsIn
<1>9. \A g : (Listed(r, g)' <=> g \in G) /\ ~Listed(r, g)
  BY <1>6, <1>7 DEF Listed
<1>10. \A g : \A q \in RunIds \ {r} : Listed(q, g)' <=> Listed(q, g)
  BY <1>8 DEF Listed
<1>11. \A g : SnapshotsIn(RunsOf(s), g)' = SnapshotsIn(RunsOf(s), g) \cup {x \in NS : x.group = g}
  BY <1>1, <1>6 DEF SnapshotsIn
<1>12. \A g : Heard(s, g)' = Heard(s, g) \cup {e \in NE : e.group = g}
  BY <1>1, <1>6 DEF Heard
<1>13. \A g : \A t \in Sources \ {s} :
         /\ SnapshotsIn(RunsOf(t), g)' = SnapshotsIn(RunsOf(t), g)
         /\ Heard(t, g)' = Heard(t, g)
  BY <1>1, <1>6 DEF SnapshotsIn, Heard
<1> QED
  BY <1>2, <1>3, <1>4, <1>5, <1>7, <1>8, <1>9, <1>10, <1>11, <1>12, <1>13 DEF TableEffect


LEMMA SavedRunsAreRuns ==
  \A t : SavedRuns(t) \subseteq RunsOf(t) /\ RunsOf(t) \subseteq RunIds
BY DEF SavedRuns, RunsOf

LEMMA SaveKeepsOrder ==
  ASSUME HistoryInv, NEW s \in Sources, NEW r, NEW G, NEW NS, NEW NE, Effect(s, r, G, NS, NE)
  PROVE  RunsInOrder' /\ OneComplex'
<1>1. /\ r \in RunsOf(s) /\ r \in RunIds /\ runs[r].saved = None
      /\ runs[r].payload \in AllPayloads
      /\ runs[r].payload.status \in {"completed", "partial"}
      /\ RunIds' = RunIds
      /\ runs'[r].saved = runs[r].payload.status /\ runs'[r].status = runs[r].payload.status
      /\ \A q \in RunIds \ {r} : runs'[q] = runs[q]
      /\ \A q \in RunIds : runs'[q].payload = runs[q].payload
      /\ \A t \in Sources : RunsOf(t)' = RunsOf(t) /\ RunsOf(t) \subseteq RunIds
  BY SaveOfRun DEF RunEffect, RunsOf
<1>2. RunsInOrder'
  <2>1. \A t \in Sources : \A q \in Active(t)' : q \in Active(t) /\ q # r
    BY <1>1 DEF Active
  <2> QED
    BY <1>1, <2>1 DEF HistoryInv, RunsInOrder, Active
<1>3. OneComplex'
  <2>1. /\ complexOf' = [complexOf EXCEPT ![s] = runs[r].payload.complex]
        /\ complexOf \in [Sources -> Complexes \cup {None}]
        /\ tx' = [tx EXCEPT ![s] = None] /\ DOMAIN tx = Sources
        /\ complexOf[s] \in {None, runs[r].payload.complex}
    BY DEF Effect, HistoryInv, HistoryTypeOK, OneComplex
  <2>7. ~Reading(s, "store")'
    BY <2>1 DEF Reading
  <2>2. ASSUME NEW q \in SavedRuns(s) PROVE runs[q].payload.complex = runs[r].payload.complex
    <3>1. runs[q].payload.complex = complexOf[s]
      BY DEF HistoryInv, OneComplex
    <3>2. runs[q].payload \in AllPayloads
      BY RunsAreRows DEF HistoryInv, SavedRuns, RunsOf, RunRows
    <3> QED
      BY <2>1, <3>1, <3>2, PayloadRows, NoneIsNoRow
  <2>3. /\ SavedRuns(s)' = SavedRuns(s) \cup {r}
        /\ \A t \in Sources \ {s} : SavedRuns(t)' = SavedRuns(t)
        /\ \A t \in Sources : SavedRuns(t) \subseteq RunIds
    BY SaveOfTables, SavedRunsAreRuns DEF TableEffect
  <2>4. \A q \in SavedRuns(s)' : runs'[q].payload.complex = complexOf'[s]
    BY <1>1, <2>1, <2>2, <2>3
  <2>5. \A t \in Sources \ {s} : Active(t)' = Active(t)
    <3>1. \A t \in Sources \ {s} : r \notin RunsOf(t)
      BY SaveOfRun DEF RunEffect
    <3> QED
      BY <1>1, <3>1 DEF Active
  <2>6. ASSUME NEW t \in Sources \ {s}
        PROVE  /\ \A q \in SavedRuns(t)' : runs'[q].payload.complex = complexOf'[t]
               /\ Reading(t, "store")' =>
                    \A q \in Active(t)' : complexOf'[t] \in {None, runs'[q].payload.complex}
    <3>1. complexOf'[t] = complexOf[t] /\ (Reading(t, "store")' <=> Reading(t, "store"))
      BY <2>1 DEF Reading
    <3>2. \A q \in Active(t) : runs'[q].payload = runs[q].payload
      BY <1>1 DEF Active
    <3>3. \A q \in SavedRuns(t) : runs'[q].payload = runs[q].payload
      BY <1>1, <2>3
    <3> QED
      BY <2>3, <2>5, <3>1, <3>2, <3>3 DEF HistoryInv, OneComplex
  <2> QED
    BY <2>7, <2>4, <2>6 DEF OneComplex
<1> QED
  BY <1>2, <1>3

LEMMA SaveKeepsSnapshots ==
  ASSUME HistoryInv, NEW s \in Sources, NEW r, NEW G, NEW NS, NEW NE, Effect(s, r, G, NS, NE)
  PROVE  SnapshotsAreOfRuns'
<1>1. /\ r \in RunIds /\ runs'[r].saved # None
      /\ \A q \in RunIds \ {r} : runs'[q] = runs[q]
      /\ runs'[r].payload = runs[r].payload
  BY SaveOfRun, NoneIsNoRow DEF RunEffect
<1>2. \A x \in snapshots : x.run \in RunIds /\ x.run # r
  BY SaveOfTables DEF TableEffect
<1>3. /\ snapshots' = snapshots \cup NS /\ IsFiniteSet(NS)
      /\ \A x \in NS : x.run = r /\ x.group.complex = runs[r].payload.complex
      /\ \A x, y \in NS : x.group = y.group => x = y
  BY DEF Effect
<1>4. IsFiniteSet(snapshots')
  BY <1>3, FS_Union DEF HistoryInv, SnapshotsAreOfRuns
<1>5. \A x \in snapshots' : /\ runs'[x.run].saved # None
                            /\ x.group.complex = runs'[x.run].payload.complex
  BY <1>1, <1>2, <1>3 DEF HistoryInv, SnapshotsAreOfRuns
<1>6. \A x, y \in snapshots' : x.run = y.run /\ x.group = y.group => x = y
  BY <1>2, <1>3 DEF HistoryInv, SnapshotsAreOfRuns
<1> QED
  BY <1>4, <1>5, <1>6 DEF SnapshotsAreOfRuns

\* What the source has shown is on record, and an earlier run listed it.
LEMMA StatedIsListed ==
  ASSUME HistoryInv, NEW s \in Sources, NEW g \in GroupKeys
  PROVE  states[s][g] # None <=> \E q \in SavedRuns(s) : Listed(q, g)
<1>1. states[s][g] # None <=> SnapshotsIn(RunsOf(s), g) # {}
  BY DEF HistoryInv, StatesFollowEvents, StateFollowsEvents
<1>2. \A x \in snapshots : x.run \in RunsOf(s) => x.run \in SavedRuns(s)
  BY DEF HistoryInv, SnapshotsAreOfRuns, SavedRuns
<1>3. SnapshotsIn(RunsOf(s), g) # {} <=> \E q \in SavedRuns(s) : Listed(q, g)
  BY <1>2 DEF SnapshotsIn, Listed, SavedRuns
<1> QED
  BY <1>1, <1>3

\* An event of a save is that of a snapshot, or that an absent listing moves.
LEMMA EventsOfSave ==
  ASSUME HistoryInv, NEW s \in Sources, NEW r, NEW G, NEW NS, NEW NE, Effect(s, r, G, NS, NE),
         NEW e \in NE
  PROVE  /\ e \in EventRows /\ e.run = r /\ e.group \in GroupKeys
         /\ e.group \in G => /\ e.type \notin {"missing", "removed"}
                             /\ \E x \in NS : x.group = e.group /\ x.status = e.type
         /\ e.group \notin G =>
              /\ states[s][e.group] # None /\ states'[s][e.group] # states[s][e.group]
              /\ e.type = states'[s][e.group].state /\ e.type \in {"missing", "removed"}
<1>1. e \in EventRows /\ e.run = r /\ e.group \in GroupKeys
  BY DEF Effect, EventRows
<1>2. ASSUME e.group \in G
      PROVE  /\ e.type \notin {"missing", "removed"}
             /\ \E x \in NS : x.group = e.group /\ x.status = e.type
  <2>1. PICK x \in NS : x.group = e.group /\ x.status = e.type
    BY <1>2 DEF Effect
  <2>2. x.status \in {"active", "new", "changed", "restored"}
    BY DEF Effect, SnapshotRows
  <2> QED
    BY <2>1, <2>2
<1>3. ASSUME e.group \notin G
      PROVE  /\ states[s][e.group] # None /\ states'[s][e.group] # states[s][e.group]
             /\ e.type = states'[s][e.group].state /\ e.type \in {"missing", "removed"}
  <2> DEFINE g == e.group
             old == states[s][g]
             new == states'[s][g]
  <2>1. \A d, o \in NE : d.group = o.group => d = o
    BY DEF Effect
  <2>2. g \in GroupKeys \ G
    BY <1>1, <1>3
  <2>3. IF old = None THEN new = None /\ \A d \in NE : d.group # g
        ELSE /\ new = Absence(old, runs[r].payload.status)
             /\ IF new = old THEN \A d \in NE : d.group # g
                ELSE \E d \in NE : d.group = g /\ d.type = new.state
    BY <2>2 DEF Effect
  <2>4. old # None /\ new # old /\ new = Absence(old, runs[r].payload.status) /\ e.type = new.state
    BY <2>1, <2>3
  <2>5. old \in StateRows
    BY <2>2, <2>4 DEF HistoryInv, HistoryTypeOK
  <2> QED
    BY <2>4, <2>5, AbsenceType
<1> QED
  BY <1>1, <1>2, <1>3

LEMMA SaveKeepsEvents ==
  ASSUME HistoryInv, NEW s \in Sources, NEW r, NEW G, NEW NS, NEW NE, Effect(s, r, G, NS, NE)
  PROVE  EventsAreOfSnapshots'
<1>1. /\ r \in RunIds /\ runs'[r].saved # None /\ runs[r].source = s
      /\ \A q \in RunIds \ {r} : runs'[q] = runs[q]
      /\ runs'[r].source = runs[r].source
  BY SaveOfRun, NoneIsNoRow DEF RunEffect, RunsOf
<1>2. /\ SavedRuns(s)' = SavedRuns(s) \cup {r} /\ \A q \in SavedRuns(s) : q \in Nat /\ q < r
      /\ \A t \in Sources \ {s} : SavedRuns(t)' = SavedRuns(t) /\ r \notin SavedRuns(t)
      /\ \A e \in events : e.run \in RunIds /\ e.run # r /\ e.group \in GroupKeys
      /\ \A g : SnapshotsIn({r}, g)' = {x \in NS : x.group = g}
      /\ \A g : \A q \in RunIds \ {r} : SnapshotsIn({q}, g)' = SnapshotsIn({q}, g)
      /\ \A g : (Listed(r, g)' <=> g \in G) /\ ~Listed(r, g)
      /\ \A g : \A q \in RunIds \ {r} : Listed(q, g)' <=> Listed(q, g)
  <2>1. TableEffect(s, r, G, NS, NE)
    BY SaveOfTables
  <2> QED
    BY ONLY <2>1 DEF TableEffect
<1>3. /\ events' = events \cup NE /\ \A e \in NE : e.run = r
      /\ \A e, o \in NE : e.group = o.group => e = o
  BY DEF Effect
<1>4. \A e, o \in events' : e.run = o.run /\ e.group = o.group => e = o
  BY <1>2, <1>3 DEF HistoryInv, EventsAreOfSnapshots
<1>5. ASSUME NEW e \in events PROVE EventIsOfSnapshot(e)'
  <2>1. EventIsOfSnapshot(e) /\ e.run \in RunIds \ {r} /\ runs'[e.run] = runs[e.run]
    BY <1>1, <1>2 DEF HistoryInv, EventsAreOfSnapshots
  <2>2. PICK t \in Sources : t = runs[e.run].source
    BY <2>1, RunsAreRows DEF HistoryInv, RunRows
  <2>3. r \notin SavedRuns(t) /\ SavedRuns(t) \subseteq SavedRuns(t)'
    <3>1. CASE t = s
      BY <1>2, <3>1, SaveOfRun DEF RunEffect, SavedRuns
    <3>2. CASE t # s
      BY <1>2, <3>2
    <3> QED
      BY <3>1, <3>2
  <2>4. \A q \in SavedRuns(t) : q \in SavedRuns(t)' /\ q \in RunIds \ {r}
    BY <2>3, SavedRunsAreRuns
  <2> QED
    BY <1>2, <2>1, <2>2, <2>4 DEF EventIsOfSnapshot
<1>6. ASSUME NEW e \in NE PROVE EventIsOfSnapshot(e)'
  <2>1. CASE e.group \in G
    <3>1. PICK x \in NS : x.group = e.group /\ x.status = e.type
      BY <2>1, EventsOfSave
    <3>2. e.run = r /\ e.type \notin {"missing", "removed"}
      BY <2>1, EventsOfSave
    <3>3. x \in SnapshotsIn({r}, e.group)'
      BY <1>2, <3>1
    <3> QED
      BY <1>1, <3>1, <3>2, <3>3 DEF EventIsOfSnapshot
  <2>2. CASE e.group \notin G
    <3>1. PICK q \in SavedRuns(s) : Listed(q, e.group)
      BY <2>2, EventsOfSave, StatedIsListed
    <3>2. q \in SavedRuns(s)' /\ q < r /\ Listed(q, e.group)'
      BY <1>2, <3>1, SavedRunsAreRuns
    <3>3. e.run = r /\ e.type \in {"missing", "removed"} /\ ~Listed(r, e.group)'
      BY <1>2, <2>2, EventsOfSave
    <3> QED
      BY <1>1, <3>2, <3>3 DEF EventIsOfSnapshot
  <2> QED
    BY <2>1, <2>2
<1> QED
  BY <1>3, <1>4, <1>5, <1>6 DEF EventsAreOfSnapshots


\* How the state row of a listing moves.
LEMMA StateOfSave ==
  ASSUME HistoryInv, NEW s \in Sources, NEW r, NEW G, NEW NS, NEW NE, Effect(s, r, G, NS, NE),
         NEW g \in GroupKeys
  PROVE  LET old == states[s][g]
             new == states'[s][g]
         IN  /\ old \in CountedRows \cup {None} /\ new \in CountedRows \cup {None}
             /\ g \in G => new = [state |-> "active", count |-> 0]
             /\ g \notin G /\ old = None => new = None
             /\ g \notin G /\ old # None =>
                  /\ new # None
                  /\ runs[r].payload.status = "completed" => new.state \in {"missing", "removed"}
                  /\ old.state = "active" => new = old \/ new.state = "missing"
                  /\ old.state # "active" => new = old \/ new.state = "removed"
<1> DEFINE old == states[s][g]
           new == states'[s][g]
           row(t, n) == [state |-> t, count |-> n]
<1>1. old # None => old \in CountedRows
  BY DEF HistoryInv, StatesFollowEvents, StateFollowsEvents
<1>2. CountedRows \subseteq StateRows
  BY DEF CountedRows, StateRows
<1>3. CASE g \in G
  BY <1>1, <1>3 DEF Effect, CountedRows
<1>4. CASE g \notin G /\ old = None
  BY <1>4 DEF Effect
<1>5. CASE g \notin G /\ old # None
  <2>1. new = Absence(old, runs[r].payload.status)
    BY <1>5 DEF Effect
  <2>2. old \in {row("active", 0), row("missing", 1), row("removed", 2)}
    BY <1>1, <1>5 DEF CountedRows
  <2>3. IF runs[r].payload.status # "completed" THEN new = old
        ELSE new = IF old.state = "active" THEN row("missing", 1) ELSE row("removed", 2)
    BY <2>1, <2>2 DEF Absence
  <2>4. new \in CountedRows /\ new # None
    BY <1>2, <2>2, <2>3, NoneIsNoRow DEF CountedRows
  <2> QED
    BY <1>1, <1>5, <2>2, <2>3, <2>4
<1> QED
  BY <1>3, <1>4, <1>5

LEMMA SaveKeepsStates ==
  ASSUME HistoryInv, NEW s \in Sources, NEW r, NEW G, NEW NS, NEW NE, Effect(s, r, G, NS, NE)
  PROVE  StatesFollowEvents'
<1>1. TableEffect(s, r, G, NS, NE)
  BY SaveOfTables
<1>2. /\ \A g : SnapshotsIn(RunsOf(s), g)' = SnapshotsIn(RunsOf(s), g) \cup {x \in NS : x.group = g}
      /\ \A g : Heard(s, g)' = Heard(s, g) \cup {e \in NE : e.group = g}
      /\ \A g : \A t \in Sources \ {s} :
           /\ SnapshotsIn(RunsOf(t), g)' = SnapshotsIn(RunsOf(t), g)
           /\ Heard(t, g)' = Heard(t, g)
  BY ONLY <1>1 DEF TableEffect
<1>3. ASSUME NEW t \in Sources \ {s}, NEW g \in GroupKeys
      PROVE  StateFollowsEvents(t, g)'
  <2>1. states'[t] = states[t]
    BY DEF Effect
  <2>2. StateFollowsEvents(t, g)
    BY DEF HistoryInv, StatesFollowEvents
  <2> QED
    BY <1>2, <2>1, <2>2 DEF StateFollowsEvents
<1>4. ASSUME NEW g \in GroupKeys
      PROVE  StateFollowsEvents(s, g)'
  <2> DEFINE old == states[s][g]
             new == states'[s][g]
  <2>1. StateFollowsEvents(s, g)
    BY DEF HistoryInv, StatesFollowEvents
  <2>2. /\ \A e \in Heard(s, g) : e.run \in Nat /\ e.run <= r
        /\ \A e \in NE : e.run = r
        /\ r \in Nat
    <3>1. r \in Nat /\ \A q \in RunsOf(s) : q \in Nat /\ q <= r
      BY SaveOfRun DEF RunEffect
    <3>2. \A e \in NE : e.run = r
      BY DEF Effect
    <3> QED
      BY <3>1, <3>2 DEF Heard
  <2>3. \A e, o \in NE : e.group = o.group => e = o
    BY DEF Effect
  <2>4. new \in CountedRows \cup {None}
    BY StateOfSave
  <2>5. CASE g \in G
    <3>1. new = [state |-> "active", count |-> 0] /\ new # None
      BY <2>5, NoneIsNoRow DEF Effect, StateRows
    <3>2. \E x \in NS : x.group = g
      BY <2>5 DEF Effect
    <3>3. CASE \E e \in NE : e.group = g
      <4>1. PICK e \in NE : e.group = g
        BY <3>3
      <4>2. e.type \notin {"missing", "removed"}
        BY <2>5, <4>1, EventsOfSave
      <4>3. e \in Heard(s, g)' /\ \A o \in Heard(s, g)' : o.run <= e.run
        BY <1>2, <2>2, <4>1
      <4> QED
        BY <1>2, <2>4, <3>1, <3>2, <4>2, <4>3 DEF StateFollowsEvents
    <3>4. CASE \A e \in NE : e.group # g
      <4>1. old # None /\ old.state \notin {"missing", "removed"}
        BY <2>5, <3>4 DEF Effect
      <4>2. old.state = "active"
        BY <4>1, StateOfSave DEF CountedRows
      <4>3. PICK e \in Heard(s, g) : (\A o \in Heard(s, g) : o.run <= e.run)
                                     /\ e.type \notin {"missing", "removed"}
        BY <2>1, <4>1, <4>2 DEF StateFollowsEvents
      <4>4. Heard(s, g)' = Heard(s, g)
        BY <1>2, <3>4
      <4> QED
        BY <1>2, <2>4, <3>1, <3>2, <4>3, <4>4 DEF StateFollowsEvents
    <3> QED
      BY <3>3, <3>4
  <2>6. CASE g \notin G
    <3>1. \A x \in NS : x.group # g
      BY <2>6 DEF Effect
    <3>2. SnapshotsIn(RunsOf(s), g)' = SnapshotsIn(RunsOf(s), g)
      BY <1>2, <3>1
    <3>3. CASE old = None
      <4>1. new = None
        BY <2>6, <3>3 DEF Effect
      <4> QED
        BY <2>1, <3>2, <3>3, <4>1 DEF StateFollowsEvents
    <3>4. CASE old # None /\ new = old
      <4>1. \A e \in NE : e.group # g
        BY <2>6, <3>4 DEF Effect
      <4>2. Heard(s, g)' = Heard(s, g)
        <5>1. {e \in NE : e.group = g} = {}
          BY <4>1
        <5> QED
          BY <1>2, <5>1
      <4> QED
        BY <2>1, <2>4, <3>2, <3>4, <4>2 DEF StateFollowsEvents
    <3>5. CASE old # None /\ new # old
      <4>1. PICK e \in NE : e.group = g /\ e.type = new.state
        BY <2>6, <3>5 DEF Effect
      <4>2. new # None /\ new.state \in {"missing", "removed"}
        BY <2>6, <3>5, StateOfSave DEF CountedRows
      <4>3. e \in Heard(s, g)' /\ \A o \in Heard(s, g)' : o.run <= e.run
        BY <1>2, <2>2, <4>1
      <4>4. SnapshotsIn(RunsOf(s), g) # {}
        BY <2>1, <3>5 DEF StateFollowsEvents
      <4> QED
        BY <2>4, <3>2, <4>1, <4>2, <4>3, <4>4 DEF StateFollowsEvents
    <3> QED
      BY <3>3, <3>4, <3>5
  <2> QED
    BY <2>5, <2>6
<1> QED
  BY <1>3, <1>4 DEF StatesFollowEvents


LEMMA SaveKeepsLastRun ==
  ASSUME HistoryInv, NEW s \in Sources, NEW r, NEW G, NEW NS, NEW NE, Effect(s, r, G, NS, NE)
  PROVE  LastRunIsActive'
<1>1. TableEffect(s, r, G, NS, NE)
  BY SaveOfTables
<1>2. /\ SavedRuns(s)' = SavedRuns(s) \cup {r} /\ \A q \in SavedRuns(s) : q \in Nat /\ q < r
      /\ \A t \in Sources \ {s} : SavedRuns(t)' = SavedRuns(t) /\ r \notin SavedRuns(t)
      /\ \A g : (Listed(r, g)' <=> g \in G) /\ ~Listed(r, g)
      /\ \A g : \A q \in RunIds \ {r} : Listed(q, g)' <=> Listed(q, g)
  BY ONLY <1>1 DEF TableEffect
<1>3. /\ r \in Nat /\ runs'[r].saved = runs[r].payload.status
      /\ \A q \in RunIds \ {r} : runs'[q] = runs[q]
  BY SaveOfRun DEF RunEffect
<1> SUFFICES ASSUME NEW t \in Sources, NEW q \in SavedRuns(t)', \A o \in SavedRuns(t)' : o <= q,
                    NEW g \in GroupKeys
             PROVE  /\ Listed(q, g)' => states'[t][g] = [state |-> "active", count |-> 0]
                    /\ runs'[q].saved = "completed" /\ ~Listed(q, g)' =>
                         states'[t][g] = None \/ states'[t][g].state # "active"
  BY DEF LastRunIsActive
<1>4. CASE t = s
  <2>1. q = r
    BY <1>2, <1>3, <1>4
  <2>2. Listed(q, g)' => states'[t][g] = [state |-> "active", count |-> 0]
    BY <1>2, <1>4, <2>1 DEF Effect
  <2>3. ASSUME runs'[q].saved = "completed", g \notin G
        PROVE  states'[t][g] = None \/ states'[t][g].state # "active"
    <3>1. runs[r].payload.status = "completed"
      BY <1>3, <2>1, <2>3
    <3> QED
      BY <1>4, <2>3, <3>1, StateOfSave
  <2> QED
    BY <1>2, <2>1, <2>2, <2>3
<1>5. CASE t # s
  <2>1. q \in SavedRuns(t) /\ q # r /\ q \in RunIds /\ \A o \in SavedRuns(t) : o <= q
    BY <1>2, <1>5, SavedRunsAreRuns
  <2>2. states'[t] = states[t]
    BY <1>5 DEF Effect
  <2> QED
    BY <1>2, <1>3, <2>1, <2>2 DEF HistoryInv, LastRunIsActive
<1> QED
  BY <1>4, <1>5

LEMMA SaveKeepsGone ==
  ASSUME HistoryInv, NEW s \in Sources, NEW r, NEW G, NEW NS, NEW NE, Effect(s, r, G, NS, NE)
  PROVE  GoneIsReported'
<1>1. TableEffect(s, r, G, NS, NE)
  BY SaveOfTables
<1>2. /\ SavedRuns(s)' = SavedRuns(s) \cup {r} /\ \A q \in SavedRuns(s) : q \in Nat /\ q < r
      /\ \A t \in Sources \ {s} : SavedRuns(t)' = SavedRuns(t) /\ r \notin SavedRuns(t)
      /\ \A x \in snapshots : x.run \in RunIds /\ x.run # r /\ x.group \in GroupKeys
      /\ \A g : (Listed(r, g)' <=> g \in G) /\ ~Listed(r, g)
      /\ \A g : \A q \in RunIds \ {r} : Listed(q, g)' <=> Listed(q, g)
      /\ \A g : Heard(s, g)' = Heard(s, g) \cup {e \in NE : e.group = g}
      /\ \A g : \A t \in Sources \ {s} : Heard(t, g)' = Heard(t, g)
  BY ONLY <1>1 DEF TableEffect
<1>3. /\ r \in Nat /\ runs'[r].saved = runs[r].payload.status /\ r \in RunsOf(s)
      /\ \A q \in RunsOf(s) : q \in Nat /\ q <= r
      /\ \A q \in RunIds \ {r} : runs'[q] = runs[q]
      /\ \A t \in Sources : RunsOf(t)' = RunsOf(t)
      /\ \A t \in Sources \ {s} : r \notin RunsOf(t)
  BY SaveOfRun DEF RunEffect
<1>4. /\ snapshots' = snapshots \cup NS
      /\ \A x \in NS : x.run = r /\ x.group \in G
      /\ \A e \in NE : e.run = r
  BY DEF Effect
<1> SUFFICES ASSUME NEW t \in Sources, NEW q \in SavedRuns(t)', runs'[q].saved = "completed",
                    NEW x \in snapshots', x.run \in RunsOf(t)', x.run <= q, ~Listed(q, x.group)'
             PROVE  \E e \in Heard(t, x.group)' :
                      /\ e.run <= q /\ e.type \in {"missing", "removed"}
                      /\ \A o \in Heard(t, x.group)' : o.run <= q => o.run <= e.run
  BY DEF GoneIsReported
<1>5. x.run \in RunsOf(t)
  BY <1>3
<1>6. CASE q # r
  <2>1. q \in SavedRuns(t) /\ q \in RunIds /\ q \in RunsOf(t)
    BY <1>2, <1>6, SavedRunsAreRuns
  <2>2. x \in snapshots
    <3>1. CASE t = s
      <4>1. q < r /\ q \in Nat
        BY <1>2, <2>1, <3>1
      <4>2. x.run # r
        BY <1>3, <4>1
      <4> QED
        BY <1>4, <4>2
    <3>2. CASE t # s
      BY <1>3, <1>4, <1>5, <3>2
    <3> QED
      BY <3>1, <3>2
  <2>3. runs[q].saved = "completed" /\ ~Listed(q, x.group)
    BY <1>2, <1>3, <1>6, <2>1
  <2>4. PICK e \in Heard(t, x.group) :
          /\ e.run <= q /\ e.type \in {"missing", "removed"}
          /\ \A o \in Heard(t, x.group) : o.run <= q => o.run <= e.run
    BY <1>5, <2>1, <2>2, <2>3 DEF HistoryInv, GoneIsReported
  <2>5. e \in Heard(t, x.group)' /\ \A o \in Heard(t, x.group)' : o.run <= q => o \in Heard(t, x.group)
    <3>1. CASE t = s
      <4>1. q < r /\ q \in Nat
        BY <1>2, <2>1, <3>1
      <4>2. \A o \in NE : ~(o.run <= q)
        BY <1>3, <1>4, <4>1
      <4> QED
        BY <1>2, <3>1, <4>2
    <3>2. CASE t # s
      BY <1>2, <3>2
    <3> QED
      BY <3>1, <3>2
  <2> QED
    BY <2>4, <2>5
<1>7. CASE q = r
  <2>1. t = s
    BY <1>2, <1>7
  <2>2. x.group \notin G /\ x \in snapshots /\ x.group \in GroupKeys
    BY <1>2, <1>4, <1>7
  <2>3. states[s][x.group] # None
    <3>1. x.run \in SavedRuns(s) /\ Listed(x.run, x.group)
      BY <1>5, <2>1, <2>2 DEF HistoryInv, SnapshotsAreOfRuns, SavedRuns, Listed, SnapshotsIn
    <3> QED
      BY <2>2, <3>1, StatedIsListed
  <2>4. runs[r].payload.status = "completed"
    BY <1>3, <1>7
  <2>5. states'[s][x.group] # None /\ states'[s][x.group].state \in {"missing", "removed"}
    BY <2>2, <2>3, <2>4, StateOfSave
  <2>6. StateFollowsEvents(s, x.group)'
    BY <2>2, SaveKeepsStates DEF StatesFollowEvents
  <2>7. PICK e \in Heard(s, x.group)' :
          /\ \A o \in Heard(s, x.group)' : o.run <= e.run
          /\ e.type = states'[s][x.group].state
    BY <2>5, <2>6 DEF StateFollowsEvents
  <2>8. e.run \in RunsOf(s)
    BY <1>3, <2>7 DEF Heard
  <2> QED
    BY <1>3, <1>7, <2>1, <2>5, <2>7, <2>8
<1> QED
  BY <1>6, <1>7

LEMMA SaveKeepsSteps ==
  ASSUME HistoryInv, NEW s \in Sources, NEW r, NEW G, NEW NS, NEW NE, Effect(s, r, G, NS, NE)
  PROVE  StepsAreReported'
<1>1. TableEffect(s, r, G, NS, NE)
  BY SaveOfTables
<1>2. /\ SavedRuns(s)' = SavedRuns(s) \cup {r} /\ \A q \in SavedRuns(s) : q \in Nat /\ q < r
      /\ \A t \in Sources \ {s} : SavedRuns(t)' = SavedRuns(t) /\ r \notin SavedRuns(t)
      /\ \A e \in events : e.run \in RunIds /\ e.run # r /\ e.group \in GroupKeys
      /\ \A g : (Listed(r, g)' <=> g \in G) /\ ~Listed(r, g)
      /\ \A g : \A q \in RunIds \ {r} : Listed(q, g)' <=> Listed(q, g)
  BY ONLY <1>1 DEF TableEffect
<1>3. /\ r \in Nat /\ runs'[r].saved = runs[r].payload.status /\ r \in RunIds
      /\ \A q \in RunIds \ {r} : runs'[q] = runs[q]
  BY SaveOfRun DEF RunEffect
<1>4. /\ events' = events \cup NE /\ \A e \in NE : e.run = r
      /\ \A e, o \in NE : e.group = o.group => e = o
  BY DEF Effect
<1>5. /\ \A types : Heralds(r, types)' = {e \in NE : e.type \in types}
      /\ \A types : \A q \in RunIds \ {r} : Heralds(q, types)' = Heralds(q, types)
  BY <1>2, <1>4 DEF Heralds
<1> SUFFICES ASSUME NEW t \in Sources, NEW o \in SavedRuns(t)', NEW q \in SavedRuns(t)',
                    runs'[o].saved = "completed", runs'[q].saved = "completed", o < q,
                    \A a \in SavedRuns(t)' : ~(o < a /\ a < q),
                    NEW g \in GroupKeys
             PROVE  /\ (\E e \in Heralds(q, {"new", "restored"})' : e.group = g)
                         <=> Listed(q, g)' /\ ~Listed(o, g)'
                    /\ (\E e \in Heralds(q, {"missing"})' : e.group = g)
                         <=> Listed(o, g)' /\ ~Listed(q, g)'
  BY DEF StepsAreReported
<1>6. CASE q # r
  <2>1. o # r
    BY <1>2, <1>3, <1>6
  <2>2. /\ {o, q} \subseteq SavedRuns(t) /\ {o, q} \subseteq RunIds \ {r}
        /\ SavedRuns(t) \subseteq SavedRuns(t)'
    BY <1>2, <1>6, <2>1, SavedRunsAreRuns
  <2>3. runs[o].saved = "completed" /\ runs[q].saved = "completed"
    BY <1>3, <2>2
  <2>4. /\ (\E e \in Heralds(q, {"new", "restored"}) : e.group = g) <=> Listed(q, g) /\ ~Listed(o, g)
        /\ (\E e \in Heralds(q, {"missing"}) : e.group = g) <=> Listed(o, g) /\ ~Listed(q, g)
    BY <2>2, <2>3 DEF HistoryInv, StepsAreReported
  <2> QED
    BY <1>2, <1>5, <2>2, <2>4
<1>7. CASE q = r
  <2>1. t = s /\ o \in SavedRuns(s)
    BY <1>2, <1>3, <1>7
  <2>2. o \in RunIds /\ o # r
    BY <1>2, <2>1, SavedRunsAreRuns
  <2>3. \A a \in SavedRuns(s) : a <= o
    BY <1>2, <1>7, <2>1
  <2>4. runs[o].saved = "completed" /\ runs[r].payload.status = "completed"
    BY <1>3, <1>7, <2>2
  <2>5. /\ Listed(o, g) => states[s][g] = [state |-> "active", count |-> 0]
        /\ ~Listed(o, g) => states[s][g] = None \/ states[s][g].state # "active"
    BY <2>1, <2>3, <2>4 DEF HistoryInv, LastRunIsActive
  <2>6. states[s][g] \in CountedRows \cup {None} /\ None \notin CountedRows
    BY StateOfSave, NoneIsNoRow DEF CountedRows, StateRows
  <2>7. Listed(o, g) <=> states[s][g] # None /\ states[s][g].state = "active"
    BY <2>5, <2>6 DEF CountedRows
  <2>8. CASE g \in G
    <3>1. (\E e \in NE : e.group = g /\ e.type \in {"new", "restored"}) <=> ~Listed(o, g)
      <4>1. /\ states[s][g] = None => \E e \in NE : e.group = g /\ e.type = "new"
            /\ states[s][g] # None /\ states[s][g].state \in {"missing", "removed"} =>
                 \E e \in NE : e.group = g /\ e.type = "restored"
            /\ states[s][g] # None /\ states[s][g].state = "active" =>
                 \A e \in NE : e.group = g => e.type = "changed"
        BY <2>8 DEF Effect
      <4> QED
        BY <2>6, <2>7, <4>1 DEF CountedRows
    <3>2. \A e \in NE : e.group = g => e.type # "missing"
      BY <2>8, EventsOfSave
    <3> QED
      BY <1>2, <1>5, <1>7, <2>2, <2>8, <3>1, <3>2
  <2>9. CASE g \notin G
    <3>1. \A e \in NE : e.group = g => e.type \in {"missing", "removed"}
      BY <2>9, EventsOfSave
    <3>2. (\E e \in NE : e.group = g /\ e.type = "missing") <=> Listed(o, g)
      <4>1. IF states[s][g] = None THEN \A e \in NE : e.group # g
            ELSE IF states'[s][g] = states[s][g] THEN \A e \in NE : e.group # g
            ELSE \E e \in NE : e.group = g /\ e.type = states'[s][g].state
        BY <2>9 DEF Effect
      <4>2. states[s][g] # None =>
              /\ states'[s][g].state \in {"missing", "removed"}
              /\ states[s][g].state = "active" => states'[s][g] = states[s][g] \/ states'[s][g].state = "missing"
              /\ states[s][g].state # "active" => states'[s][g] = states[s][g] \/ states'[s][g].state = "removed"
        BY <2>4, <2>9, StateOfSave
      <4> QED
        BY <1>4, <2>7, <4>1, <4>2
    <3> QED
      BY <1>2, <1>5, <1>7, <2>2, <2>9, <3>1, <3>2
  <2> QED
    BY <2>8, <2>9
<1> QED
  BY <1>6, <1>7


LEMMA SaveKeepsNotifications ==
  ASSUME HistoryInv, NEW s \in Sources, NEW r, NEW G, NEW NS, NEW NE, Effect(s, r, G, NS, NE)
  PROVE  NotificationsAreOfEvents' /\ SavesCompare' /\ ComparedWithLastComplete'
<1>1. TableEffect(s, r, G, NS, NE)
  BY SaveOfTables
<1>2. /\ SavedRuns(s)' = SavedRuns(s) \cup {r} /\ \A q \in SavedRuns(s) : q \in Nat /\ q < r
      /\ \A t \in Sources \ {s} : SavedRuns(t)' = SavedRuns(t) /\ r \notin SavedRuns(t)
  BY ONLY <1>1 DEF TableEffect
<1>3. /\ r \in Nat /\ r \in RunIds /\ runs[r].saved = None
      /\ \A q \in RunIds \ {r} : runs'[q] = runs[q]
      /\ \A t \in Sources : RunsOf(t)' = RunsOf(t)
      /\ \A t \in Sources \ {s} : r \notin RunsOf(t)
  BY SaveOfRun DEF RunEffect
<1>4. /\ events' = events \cup NE /\ notifications' = notifications \cup Notified(s, NE)
      /\ tx' = [tx EXCEPT ![s] = None] /\ Reading(s, "store")
      /\ \A e \in NE : e \in EventRows /\ e.run = r
  BY DEF Effect
<1>5. \A n \in Notified(s, NE) :
        /\ n.source = s /\ n.run = r /\ n.compare = tx[s].compare /\ ~tx[s].baseline
        /\ [run |-> n.run, group |-> n.group, type |-> n.type] \in NE
  BY <1>4 DEF Notified, EventRows
<1>6. \A n \in notifications :
        /\ n.run \in SavedRuns(n.source)
        /\ [run |-> n.run, group |-> n.group, type |-> n.type] \in events
        /\ n.source \in Sources /\ n.run \in RunIds /\ n.compare \in RunIds \cup {None}
  BY DEF HistoryInv, NotificationsAreOfEvents, HistoryTypeOK, NotificationRows
<1>7. /\ \A t \in Sources \ {s} : SavedAs(t, "completed")' = SavedAs(t, "completed")
      /\ \A q \in SavedAs(s, "completed")' : q = r \/ q \in SavedAs(s, "completed")
  <2>1. \A t \in Sources : \A q \in RunsOf(t) \ {r} : runs'[q] = runs[q]
    BY <1>3 DEF RunsOf
  <2> QED
    BY <1>3, <2>1 DEF SavedAs
<1>8. \A t \in Sources : /\ SavedRuns(t) \subseteq SavedRuns(t)'
                         /\ r \notin SavedRuns(t) /\ SavedRuns(t) \subseteq RunIds
                         /\ \A q \in SavedRuns(t) : runs'[q] = runs[q]
  BY <1>2, <1>3, SavedRunsAreRuns DEF SavedRuns
<1>9. NotificationsAreOfEvents'
  <2>1. ASSUME NEW n \in notifications'
        PROVE  /\ n.run \in SavedRuns(n.source)'
               /\ [run |-> n.run, group |-> n.group, type |-> n.type] \in events'
    BY <1>2, <1>4, <1>5, <1>6, <1>8
  <2> QED
    BY <2>1 DEF NotificationsAreOfEvents
<1>10. SavesCompare'
  <2> SUFFICES ASSUME NEW t \in Sources, tx'[t] # None
               PROVE  /\ ~tx'[t].baseline => \E q \in SavedRuns(t)' : runs'[q].saved = "completed"
                      /\ tx'[t].compare # None =>
                           /\ tx'[t].compare \in SavedRuns(t)'
                           /\ runs'[tx'[t].compare].saved = "completed"
                      /\ tx'[t].at # "compare" => \A q \in SavedAs(t, "completed")' :
                           tx'[t].compare # None /\ q <= tx'[t].compare
    BY DEF SavesCompare
  <2>1. t # s /\ tx'[t] = tx[t]
    BY <1>4 DEF HistoryInv, HistoryTypeOK
  <2>2. /\ ~tx[t].baseline => \E q \in SavedRuns(t) : runs[q].saved = "completed"
        /\ tx[t].compare # None =>
             tx[t].compare \in SavedRuns(t) /\ runs[tx[t].compare].saved = "completed"
        /\ tx[t].at # "compare" => \A q \in SavedAs(t, "completed") :
             tx[t].compare # None /\ q <= tx[t].compare
    BY <2>1 DEF HistoryInv, SavesCompare
  <2> QED
    BY <1>7, <1>8, <2>1, <2>2
<1>11. ComparedWithLastComplete'
  <2> SUFFICES ASSUME NEW n \in notifications'
               PROVE  /\ \E q \in RunsOf(n.source)' : q < n.run /\ runs'[q].saved = "completed"
                      /\ n.compare # None =>
                           /\ runs'[n.compare].source = n.source
                           /\ runs'[n.compare].saved = "completed"
                           /\ n.compare < n.run
                      /\ \A q \in SavedAs(n.source, "completed")' :
                           q < n.run => n.compare # None /\ q <= n.compare
    BY DEF ComparedWithLastComplete
  <2>1. CASE n \in notifications
    <3>1. /\ \E q \in RunsOf(n.source) : q < n.run /\ runs[q].saved = "completed"
          /\ n.compare # None => /\ runs[n.compare].source = n.source
                                 /\ runs[n.compare].saved = "completed"
                                 /\ n.compare < n.run
          /\ \A q \in SavedAs(n.source, "completed") :
               q < n.run => n.compare # None /\ q <= n.compare
      BY <2>1 DEF HistoryInv, ComparedWithLastComplete
    <3>2. \A q \in RunIds : runs[q].saved = "completed" => runs'[q] = runs[q]
      BY <1>3, NoneIsNoRow
    <3>3. \A q \in SavedAs(n.source, "completed")' : q < n.run => q \in SavedAs(n.source, "completed")
      <4>1. CASE n.source = s
        <5>1. n.run < r /\ n.run \in Nat
          BY <1>2, <1>6, <2>1, <4>1
        <5> QED
          BY <1>3, <1>7, <4>1, <5>1
      <4>2. CASE n.source # s
        BY <1>6, <1>7, <2>1, <4>2
      <4> QED
        BY <4>1, <4>2
    <3>4. \E q \in RunsOf(n.source)' : q < n.run /\ runs'[q].saved = "completed"
      BY <1>3, <1>6, <2>1, <3>1, <3>2, SavedRunsAreRuns
    <3> QED
      BY <1>6, <2>1, <3>1, <3>2, <3>3, <3>4
  <2>2. CASE n \in Notified(s, NE)
    <3>1. /\ n.source = s /\ n.run = r /\ n.compare = tx[s].compare
          /\ ~tx[s].baseline /\ tx[s] # None /\ tx[s].at = "store"
      BY <1>4, <1>5, <2>2 DEF Reading
    <3>2. /\ \E q \in SavedRuns(s) : runs[q].saved = "completed"
          /\ n.compare # None => n.compare \in SavedRuns(s) /\ runs[n.compare].saved = "completed"
          /\ \A q \in SavedAs(s, "completed") : n.compare # None /\ q <= n.compare
      BY <3>1 DEF HistoryInv, SavesCompare
    <3>3. \A q \in SavedRuns(s) : /\ q \in RunsOf(s)' /\ q < r /\ runs'[q] = runs[q]
                                  /\ runs[q].source = s
      BY <1>2, <1>3, <1>8 DEF SavedRuns, RunsOf
    <3>4. \A q \in SavedAs(s, "completed")' : q < r => q \in SavedAs(s, "completed")
      BY <1>3, <1>7
    <3> QED
      BY <3>1, <3>2, <3>3, <3>4
  <2> QED
    BY <1>4, <2>1, <2>2
<1> QED
  BY <1>9, <1>10, <1>11

\* The articles of a save go with the group that shows them.
LEMMA SaveKeepsArticles ==
  ASSUME HistoryInv, NEW s \in Sources, Store(s)
  PROVE  ArticleKeepsGroup'
<1>1. PICK r \in Active(s) :
        Reading(s, "store") /\ StoreAs(s, r, runs[r].payload, GroupsOf(s, r, runs[r].payload))
  BY DEF Store
<1> DEFINE p == runs[r].payload
           m == GroupsOf(s, r, p)
           ls == p.listings
<1>2. r \in RunIds /\ p \in AllPayloads
  BY RunsAreRows DEF HistoryInv, Active, RunsOf, RunRows
<1>3. /\ articleGroup' = NewArticles(p, m)
      /\ ~ArticleConflict(p, m)
      /\ snapshots' = snapshots \cup NewSnapshots(s, r, p, m)
  BY <1>1 DEF StoreAs
<1>4. DOMAIN m = DOMAIN ls /\ \A i \in DOMAIN ls : m[i] \in GroupKeys
  BY <1>2, GroupsAreOfComplex
<1>5. \A i \in DOMAIN ls : Stored(p, ls[i]).articles = ls[i].articles /\ ls[i].articles \subseteq Articles
  BY <1>2, PayloadRows
<1>6. \A x \in NewSnapshots(s, r, p, m) : x.group \in Range(m) /\ x.listing = ListingAt(p, m, x.group)
  <2>1. Range(m) \subseteq GroupKeys
    BY <1>4 DEF Range
  <2> HIDE DEF p, m
  <2> QED
    BY <1>2, <1>4, <2>1, NewSnapshotRows DEF HistoryInv
<1> HIDE DEF m, p
<1>7. ASSUME NEW i \in DOMAIN ls, NEW a \in ls[i].articles
      PROVE  articleGroup'[a] = m[i] /\ (articleGroup[a] = None \/ articleGroup[a] = m[i])
  <2>1. a \in Articles /\ articleGroup[a] \in {None, m[i]}
    BY <1>3, <1>4, <1>5, <1>7 DEF ArticleConflict
  <2>2. \A j \in DOMAIN ls : a \in ls[j].articles => m[j] = m[i]
    BY <1>3, <1>4, <1>7 DEF ArticleConflict
  <2> QED
    BY <1>3, <1>4, <1>7, <2>1, <2>2 DEF NewArticles
<1>8. ASSUME NEW x \in snapshots, NEW a \in x.listing.articles
      PROVE  articleGroup'[a] = x.group
  <2>1. articleGroup[a] = x.group /\ x.group # None
    BY <1>8, NoneIsNoRow DEF HistoryInv, ArticleKeepsGroup, HistoryTypeOK, SnapshotRows
  <2>2. a \in Articles
    <3>1. PICK q \in AllPayloads, l \in Listings : x.listing = Stored(q, l)
      BY DEF HistoryInv, HistoryTypeOK, SnapshotRows
    <3>2. PICK q2 \in AllPayloads : l \in Range(q2.listings)
      BY DEF Listings
    <3>3. l = [facets |-> l.facets, price |-> l.price, detail |-> l.detail, articles |-> l.articles]
      BY <3>2, PayloadsAssumption DEF AllPayloads
    <3>4. Stored(q, l).articles = l.articles
      BY <3>3 DEF Stored
    <3> QED
      BY <1>8, <3>1, <3>4 DEF Articles
  <2>3. CASE \E i \in DOMAIN ls : a \in ls[i].articles
    BY <1>7, <2>1, <2>3
  <2>4. CASE ~\E i \in DOMAIN ls : a \in ls[i].articles
    BY <1>3, <1>4, <2>1, <2>2, <2>4 DEF NewArticles
  <2> QED
    BY <2>3, <2>4
<1>9. ASSUME NEW x \in NewSnapshots(s, r, p, m), NEW a \in x.listing.articles
      PROVE  articleGroup'[a] = x.group
  <2>1. PICK i \in DOMAIN ls : m[i] = x.group /\ x.listing = Stored(p, ls[i])
    BY <1>2, <1>4, <1>6, ListingOfGroup
  <2> QED
    BY <1>5, <1>7, <1>9, <2>1
<1> QED
  BY <1>3, <1>8, <1>9 DEF ArticleKeepsGroup


-----------------------------------------------------------------------------
(* The count of complete crawls that miss a listing                        *)

CrawlRows == [complete : BOOLEAN, seen : SUBSET GroupKeys]

LEMMA MissesOfNext ==
  ASSUME NEW c \in Seq(CrawlRows), NEW x \in CrawlRows, NEW g
  PROVE  LET d == Append(c, x)
             shown == \E i \in DOMAIN c : g \in c[i].seen
         IN  /\ Watch!Misses(c, g) \in Nat
             /\ Watch!Misses(d, g) = IF g \in x.seen THEN 0
                                     ELSE IF x.complete /\ shown THEN Watch!Misses(c, g) + 1
                                     ELSE Watch!Misses(c, g)
             /\ (\E i \in DOMAIN d : g \in d[i].seen) <=> shown \/ g \in x.seen
<1> DEFINE d == Append(c, x)
           n == Len(c)
           shown == \E i \in DOMAIN c : g \in c[i].seen
<1>1. n \in Nat /\ DOMAIN c = 1..n
  OBVIOUS
<1>2. /\ Len(d) = n + 1 /\ DOMAIN d = 1..(n + 1)
      /\ \A i \in 1..n : d[i] = c[i]
      /\ d[n + 1] = x
  BY AppendProperties
<1>3. \A e : Watch!Misses(e, g) = Cardinality(Watch!MissedIn(e, g))
  BY DEF Watch!Misses, Watch!Cardinality, Cardinality
<1> HIDE DEF d, n
<1>4. IsFiniteSet(Watch!MissedIn(c, g)) /\ Cardinality(Watch!MissedIn(c, g)) \in Nat /\ n + 1 \notin Watch!MissedIn(c, g)
  <2>1. IsFiniteSet(1..n)
    BY <1>1, FS_Interval
  <2>2. Watch!MissedIn(c, g) \subseteq 1..n
    BY <1>1 DEF Watch!MissedIn
  <2> QED
    BY <1>1, <2>1, <2>2, FS_Subset, FS_CardinalityType
<1>5. (\E i \in DOMAIN d : g \in d[i].seen) <=> shown \/ g \in x.seen
  BY <1>1, <1>2
<1>6. CASE g \in x.seen
  <2>1. Watch!MissedIn(d, g) = {}
    <3> SUFFICES ASSUME NEW i \in Watch!MissedIn(d, g) PROVE FALSE
      OBVIOUS
    <3>1. i \in 1..(n + 1) /\ n + 1 \in i..Len(d)
      BY <1>1, <1>2 DEF Watch!MissedIn
    <3> QED
      BY <1>2, <1>6, <3>1 DEF Watch!MissedIn
  <2>2. Cardinality(Watch!MissedIn(d, g)) = 0
    BY <2>1, FS_EmptySet
  <2> QED
    BY <1>3, <1>4, <1>5, <1>6, <2>2 DEF d
<1>7. CASE g \notin x.seen
  <2>1. ASSUME NEW i \in 1..n
        PROVE  i \in Watch!MissedIn(d, g) <=> i \in Watch!MissedIn(c, g)
    <3>1. i \in DOMAIN d /\ i \in DOMAIN c /\ d[i] = c[i]
      BY <1>1, <1>2
    <3>2. (\A j \in i..Len(d) : g \notin d[j].seen) <=> (\A j \in i..Len(c) : g \notin c[j].seen)
      <4>1. Len(c) = n
        BY DEF n
      <4>2. \A j \in i..n : j \in i..(n + 1) /\ d[j] = c[j]
        BY <1>1, <1>2
      <4>3. \A j \in i..(n + 1) : j \in i..n \/ j = n + 1
        BY <1>1
      <4> QED
        BY <1>2, <1>7, <4>1, <4>2, <4>3
    <3>3. (\E j \in 1..i : g \in d[j].seen) <=> (\E j \in 1..i : g \in c[j].seen)
      BY <1>1, <1>2
    <3> QED
      BY <3>1, <3>2, <3>3 DEF Watch!MissedIn
  <2>2. n + 1 \in Watch!MissedIn(d, g) <=> x.complete /\ shown
    <3>1. (n + 1)..Len(d) = {n + 1}
      BY <1>1, <1>2
    <3>2. (\E j \in 1..(n + 1) : g \in d[j].seen) <=> shown
      BY <1>1, <1>2, <1>7
    <3> QED
      BY <1>1, <1>2, <1>7, <3>1, <3>2 DEF Watch!MissedIn
  <2>3. Watch!MissedIn(d, g) \subseteq 1..n \cup {n + 1} /\ Watch!MissedIn(c, g) \subseteq 1..n
    BY <1>1, <1>2 DEF Watch!MissedIn
  <2> HIDE DEF shown
  <2>4. CASE x.complete /\ shown
    <3>1. Watch!MissedIn(d, g) = Watch!MissedIn(c, g) \cup {n + 1}
      BY <2>1, <2>2, <2>3, <2>4
    <3>2. Cardinality(Watch!MissedIn(d, g)) = Cardinality(Watch!MissedIn(c, g)) + 1
      BY <1>4, <3>1, FS_AddElement
    <3> QED
      BY <1>3, <1>4, <1>5, <1>7, <2>4, <3>2 DEF d, shown
  <2>5. CASE ~(x.complete /\ shown)
    <3>1. Watch!MissedIn(d, g) = Watch!MissedIn(c, g)
      BY <2>1, <2>2, <2>3, <2>5
    <3> QED
      BY <1>3, <1>4, <1>5, <1>7, <2>5, <3>1 DEF d, shown
  <2> QED
    BY <2>4, <2>5
<1> QED
  BY <1>6, <1>7

LEMMA SaveKeepsJudged ==
  ASSUME HistoryInv, NEW s \in Sources, NEW r, NEW G, NEW NS, NEW NE, Effect(s, r, G, NS, NE)
  PROVE  StatesAreJudged'
<1> DEFINE x == [complete |-> runs[r].payload.status = "completed", seen |-> G]
<1>1. x \in CrawlRows /\ G \subseteq GroupKeys
  BY DEF Effect, CrawlRows
<1>2. /\ crawls' = [crawls EXCEPT ![s] = Append(@, x)]
      /\ \A t \in Sources \ {s} : states'[t] = states[t]
  BY DEF Effect
<1>3. crawls \in [Sources -> Seq(CrawlRows)]
  BY DEF HistoryInv, HistoryTypeOK, CrawlRows
<1>4. /\ crawls'[s] = Append(crawls[s], x) /\ crawls[s] \in Seq(CrawlRows)
      /\ \A t \in Sources \ {s} : crawls'[t] = crawls[t]
  BY <1>2, <1>3
<1> SUFFICES ASSUME NEW t \in Sources, NEW g \in GroupKeys
             PROVE  LET c == crawls'[t] IN
                    IF states'[t][g] = None THEN \A i \in DOMAIN c : g \notin c[i].seen
                    ELSE /\ \E i \in DOMAIN c : g \in c[i].seen
                         /\ states'[t][g].count = IF Watch!Misses(c, g) < 2 THEN Watch!Misses(c, g) ELSE 2
  BY DEF StatesAreJudged, Watch!Misses, Watch!MissedIn
<1>5. LET c == crawls[t] IN
      IF states[t][g] = None THEN \A i \in DOMAIN c : g \notin c[i].seen
      ELSE /\ \E i \in DOMAIN c : g \in c[i].seen
           /\ states[t][g].count = IF Watch!Misses(c, g) < 2 THEN Watch!Misses(c, g) ELSE 2
  BY DEF HistoryInv, StatesAreJudged
<1>6. CASE t # s
  BY <1>2, <1>4, <1>5, <1>6
<1>7. CASE t = s
  <2> DEFINE c == crawls[s]
             d == crawls'[s]
             shown == \E i \in DOMAIN c : g \in c[i].seen
             k == Watch!Misses(c, g)
             old == states[s][g]
             new == states'[s][g]
  <2>1. /\ k \in Nat
        /\ Watch!Misses(d, g) = IF g \in G THEN 0
                                ELSE IF x.complete /\ shown THEN k + 1 ELSE k
        /\ (\E i \in DOMAIN d : g \in d[i].seen) <=> shown \/ g \in G
    BY <1>1, <1>4, MissesOfNext
  <2>2. IF old = None THEN ~shown ELSE shown /\ old.count = IF k < 2 THEN k ELSE 2
    BY <1>5, <1>7
  <2>3. /\ old \in CountedRows \cup {None} /\ None \notin CountedRows
        /\ g \in G => new = [state |-> "active", count |-> 0]
        /\ g \notin G /\ old = None => new = None
        /\ g \notin G /\ old # None => new = Absence(old, runs[r].payload.status)
    <3>1. CountedRows \subseteq StateRows
      BY DEF CountedRows, StateRows
    <3>2. g \notin G /\ old # None => new = Absence(old, runs[r].payload.status)
      BY DEF Effect
    <3> QED
      BY <3>1, <3>2, StateOfSave, NoneIsNoRow
  <2> HIDE DEF k, shown, old, new, d, c
  <2>4. CASE g \in G
    <3>1. new # None /\ new.count = 0
      BY <2>3, <2>4, NoneIsNoRow DEF StateRows
    <3> QED
      BY <1>7, <2>1, <2>4, <3>1 DEF new, d
  <2>5. CASE g \notin G /\ old = None
    BY <1>7, <2>1, <2>2, <2>3, <2>5 DEF new, d
  <2>6. CASE g \notin G /\ old # None
    <3>1. old \in {[state |-> "active", count |-> 0], [state |-> "missing", count |-> 1],
                   [state |-> "removed", count |-> 2]}
      BY <2>3, <2>6 DEF CountedRows
    <3>2. new \in CountedRows
          /\ new.count = IF ~x.complete THEN old.count
                         ELSE IF old.count = 0 THEN 1 ELSE 2
      <4>1. new = Absence(old, runs[r].payload.status)
        BY <2>3, <2>6
      <4>2. x.complete <=> runs[r].payload.status = "completed"
        OBVIOUS
      <4>3. CASE old = [state |-> "active", count |-> 0]
        BY <4>1, <4>2, <4>3 DEF Absence, CountedRows
      <4>4. CASE old = [state |-> "missing", count |-> 1]
        BY <4>1, <4>2, <4>4 DEF Absence, CountedRows
      <4>5. CASE old = [state |-> "removed", count |-> 2]
        BY <4>1, <4>2, <4>5 DEF Absence, CountedRows
      <4> QED
        BY <3>1, <4>3, <4>4, <4>5
    <3>3. new # None /\ new.count = IF Watch!Misses(d, g) < 2 THEN Watch!Misses(d, g) ELSE 2
      BY <2>1, <2>2, <2>3, <2>6, <3>2
    <3> QED
      BY <1>7, <2>1, <2>2, <2>6, <3>3 DEF new, d
  <2> QED
    BY <2>4, <2>5, <2>6
<1> QED
  BY <1>6, <1>7


-----------------------------------------------------------------------------
(* The runs and the open saves, in the steps that save nothing             *)

\* A statement of a save before it stores.
Reads(t) == Begin(t) \/ FindCompared(t) \/ LoadApartment(t)

LEMMA ReadsChangeNoRun ==
  ASSUME NEW t \in Sources, Reads(t)
  PROVE  UNCHANGED tables
BY DEF Reads, Begin, FindCompared, LoadApartment

\* A run is captured, fails or is cancelled, a save begins or ends: no run comes
\* to be saved.
RunsAreQuiet ==
  /\ \A q \in RunIds : runs'[q].status \in {runs[q].status, "failed", "cancelled"}
  /\ \A q \in RunIds' \ RunIds : /\ runs'[q].status = "running"
                                 /\ runs'[q].source \in Sources
                                 /\ Active(runs'[q].source) = {}
  /\ \A q, o \in RunIds' \ RunIds : q = o
  /\ \A t \in Sources : tx'[t] \in {None, tx[t]} \/ Reads(t)

LEMMA OthersAreQuiet ==
  ASSUME HistoryTypeOK, NEW s \in Sources,
         \/ \E p \in Payloads[s] : Capture(s, p)
         \/ Begin(s) \/ FindCompared(s) \/ LoadApartment(s)
         \/ Fails(s) \/ RejectComplex(s) \/ RejectListings(s)
         \/ \E wanted \in Preferences : UpdatePreference(s, wanted)
         \/ \E r \in RunIds : Withdraw(r)
  PROVE  RunsAreQuiet
<1>1. \A r \in RunIds : runs[r].saved \in {None, "completed", "partial"}
  BY RunsAreRows DEF RunRows
<1>2. ASSUME NEW p \in Payloads[s], Capture(s, p) PROVE RunsAreQuiet
  <2>1. /\ runs' = Append(runs, RunRecord(s, p)) /\ tx' = tx /\ Active(s) = {}
    BY <1>2 DEF Capture
  <2>2. /\ RunIds' = RunIds \cup {Len(runs) + 1}
        /\ \A q \in RunIds : runs'[q] = runs[q]
        /\ runs'[Len(runs) + 1] = RunRecord(s, p)
    BY <2>1, RowIsAdded
  <2>3. RunRecord(s, p).status = "running" /\ RunRecord(s, p).source = s
    BY DEF RunRecord
  <2> QED
    BY <2>1, <2>2, <2>3 DEF RunsAreQuiet
<1>3. ASSUME Reads(s) PROVE RunsAreQuiet
  <2>1. runs' = runs /\ \A t \in Sources \ {s} : tx'[t] = tx[t]
    BY <1>3 DEF Reads, Begin, FindCompared, LoadApartment, tables, HistoryTypeOK
  <2> QED
    BY <1>3, <2>1 DEF RunsAreQuiet, RunIds
<1>4. ASSUME Failed(s) PROVE RunsAreQuiet
  <2>1. PICK r \in Active(s) : runs' = [runs EXCEPT ![r].status = "failed"]
    BY <1>4 DEF Failed
  <2>2. r \in RunIds /\ "failed" \in Statuses
    BY DEF Active, RunsOf, Statuses
  <2>3. /\ RunIds' = RunIds /\ runs'[r].status = "failed"
        /\ \A q \in RunIds \ {r} : runs'[q] = runs[q]
    BY <1>1, <2>1, <2>2, RowChanges
  <2>4. \A t \in Sources : tx'[t] \in {None, tx[t]}
    BY <1>4 DEF Failed, HistoryTypeOK
  <2> QED
    BY <2>3, <2>4 DEF RunsAreQuiet
<1>5. ASSUME NEW r \in RunIds, Withdraw(r) PROVE RunsAreQuiet
  <2>1. runs' = [runs EXCEPT ![r].status = "cancelled"] /\ tx' = tx
    BY <1>5 DEF Withdraw
  <2>2. "cancelled" \in Statuses
    BY DEF Statuses
  <2>3. /\ RunIds' = RunIds /\ runs'[r].status = "cancelled"
        /\ \A q \in RunIds \ {r} : runs'[q] = runs[q]
    BY <1>1, <2>1, <2>2, RowChanges
  <2> QED
    BY <2>1, <2>3 DEF RunsAreQuiet
<1>6. ASSUME NEW wanted \in Preferences, UpdatePreference(s, wanted) PROVE RunsAreQuiet
  BY <1>6 DEF UpdatePreference, tables, RunsAreQuiet, RunIds
<1> QED
  BY <1>2, <1>3, <1>4, <1>5, <1>6 DEF Reads, Fails, RejectComplex, RejectListings

\* What an open save has read, in these steps.
LEMMA OpenSaves ==
  ASSUME HistoryInv, Quiet, RunsAreQuiet
  PROVE  /\ \A t \in Sources : SavedAs(t, "completed")' \subseteq SavedAs(t, "completed")
         /\ \A t \in Sources : tx'[t] # None /\ ~Reads(t) =>
              tx'[t] = tx[t] /\ Active(t)' \subseteq Active(t)
<1>1. \A t \in Sources : SavedAs(t, "completed")' \subseteq SavedAs(t, "completed")
  BY DEF Quiet, RunsAreQuiet, SavedAs, RunsOf
<1>2. ASSUME NEW t \in Sources, tx'[t] # None, ~Reads(t)
      PROVE  tx'[t] = tx[t] /\ Active(t)' \subseteq Active(t)
  <2>1. tx'[t] = tx[t] /\ Active(t) # {}
    BY <1>2 DEF RunsAreQuiet, HistoryInv, HistoryTypeOK
  <2>2. ASSUME NEW q \in Active(t)' PROVE q \in Active(t)
    <3>1. q \in RunIds' /\ runs'[q].source = t /\ runs'[q].status = "running"
      BY DEF Active, RunsOf
    <3>2. q \in RunIds
      BY <2>1, <3>1 DEF RunsAreQuiet
    <3> QED
      BY <3>1, <3>2 DEF Quiet, RunsAreQuiet, Active, RunsOf
  <2> QED
    BY <2>1, <2>2
<1> QED
  BY <1>1, <1>2

LEMMA QuietKeepsOrder ==
  ASSUME HistoryInv, Quiet, RunsAreQuiet, HistoryTypeOK'
  PROVE  RunsInOrder'
<1>1. ASSUME NEW t \in Sources, NEW r \in Active(t)'
      PROVE  runs'[r].saved = None /\ \A q \in RunsOf(t)' : q <= r
  <2>1. r \in RunIds' /\ runs'[r].source = t /\ runs'[r].status = "running"
    BY DEF Active, RunsOf
  <2>2. CASE r \in RunIds
    <3>1. r \in Active(t)
      BY <2>1, <2>2 DEF Quiet, RunsAreQuiet, Active, RunsOf
    <3>2. \A q \in RunsOf(t)' : q \in RunsOf(t)
      BY <3>1 DEF Quiet, RunsAreQuiet, RunsOf
    <3> QED
      BY <2>2, <3>1, <3>2 DEF HistoryInv, RunsInOrder, Quiet
  <2>3. CASE r \notin RunIds
    <3>1. /\ runs'[r].saved = None /\ \A o \in RunIds : o < r
          /\ \A q \in RunIds' : q \in RunIds \/ q = r
      BY <2>1, <2>3 DEF Quiet, RunsAreQuiet
    <3>2. \A o \in RunIds : o \in Nat
      BY RunsAreRows DEF HistoryInv
    <3>3. r \in Nat
      BY <2>1 DEF HistoryTypeOK, RunIds
    <3> QED
      BY <3>1, <3>2, <3>3 DEF RunsOf
  <2> QED
    BY <2>2, <2>3
<1>2. ASSUME NEW r \in RunIds', runs'[r].status \in {"completed", "partial"}
      PROVE  runs'[r].saved = runs'[r].status
  <2>1. r \in RunIds /\ runs'[r].status = runs[r].status
    BY <1>2 DEF RunsAreQuiet
  <2> QED
    BY <1>2, <2>1 DEF HistoryInv, RunsInOrder, Quiet
<1> QED
  BY <1>1, <1>2 DEF RunsInOrder

LEMMA QuietKeepsComplex ==
  ASSUME HistoryInv, Quiet, RunsAreQuiet
  PROVE  OneComplex'
<1> SUFFICES ASSUME NEW t \in Sources
             PROVE  /\ \A r \in SavedRuns(t)' : runs'[r].payload.complex = complexOf'[t]
                    /\ Reading(t, "store")' => \A r \in Active(t)' :
                         complexOf'[t] \in {None, runs'[r].payload.complex}
  BY DEF OneComplex
<1>0. HistoryTypeOK
  BY DEF HistoryInv
<1>1. complexOf' = complexOf /\ SavedRuns(t)' = SavedRuns(t)
  BY QuietFrame DEF HistoryInv, Quiet
<1>2. \A r \in RunIds : runs'[r].payload = runs[r].payload
  BY DEF Quiet
<1>3. \A r \in SavedRuns(t)' : runs'[r].payload.complex = complexOf'[t]
  <2>1. \A r \in SavedRuns(t) : r \in RunIds /\ runs[r].payload.complex = complexOf[t]
    BY SavedRunsAreRuns DEF HistoryInv, OneComplex
  <2> QED
    BY <1>1, <1>2, <2>1
<1>4. ASSUME Reading(t, "store")', NEW r \in Active(t)'
      PROVE  complexOf'[t] \in {None, runs'[r].payload.complex}
  <2>1. CASE LoadApartment(t)
    <3>1. PICK q \in Active(t) : complexOf[t] \in {None, runs[q].payload.complex}
      BY <2>1 DEF LoadApartment
    <3>2. runs' = runs
      BY <2>1 DEF LoadApartment, tables
    <3>3. r \in Active(t)
      BY <3>2 DEF Active, RunsOf, RunIds
    <3>4. r <= q /\ q <= r /\ r \in Nat /\ q \in Nat
      BY <3>1, <3>3, RunsAreRows DEF HistoryInv, RunsInOrder, Active, RunsOf
    <3> QED
      BY <1>1, <3>1, <3>2, <3>4
  <2>2. CASE Begin(t) \/ FindCompared(t)
    <3>1. tx'[t].at \in {"compare", "load"}
      BY <1>0, <2>2, SaveFields
    <3> QED
      BY <1>4, <3>1 DEF Reading
  <2>3. CASE ~Reads(t)
    <3>1. Reading(t, "store") /\ r \in Active(t)
      BY <1>4, <2>3, OpenSaves DEF Reading
    <3>2. complexOf[t] \in {None, runs[r].payload.complex} /\ r \in RunIds
      BY <3>1 DEF HistoryInv, OneComplex, Active, RunsOf
    <3> QED
      BY <1>1, <1>2, <3>2
  <2> QED
    BY <2>1, <2>2, <2>3 DEF Reads
<1> QED
  BY <1>3, <1>4

LEMMA QuietKeepsNotifications ==
  ASSUME HistoryInv, Quiet, RunsAreQuiet
  PROVE  NotificationsAreOfEvents' /\ SavesCompare' /\ ComparedWithLastComplete'
<1>0. HistoryTypeOK
  BY DEF HistoryInv
<1>1. /\ notifications' = notifications /\ events' = events
      /\ \A t \in Sources : SavedRuns(t)' = SavedRuns(t) /\ SavedRuns(t) \subseteq RunIds
      /\ \A r \in RunIds : runs'[r].saved = runs[r].saved /\ runs'[r].source = runs[r].source
      /\ \A t \in Sources : RunsOf(t) \subseteq RunsOf(t)' /\ RunsOf(t) \subseteq RunIds
  BY QuietFrame, SavedRunsAreRuns DEF HistoryInv, Quiet, RunsOf
<1>2. \A t \in Sources : SavedAs(t, "completed")' \subseteq SavedAs(t, "completed")
  BY OpenSaves
<1>3. \A n \in notifications :
        n.source \in Sources /\ n.run \in RunIds /\ n.compare \in RunIds \cup {None}
  BY DEF HistoryInv, HistoryTypeOK, NotificationRows
<1>4. NotificationsAreOfEvents'
  <2>1. \A n \in notifications' : /\ n.run \in SavedRuns(n.source)'
                                  /\ [run |-> n.run, group |-> n.group, type |-> n.type] \in events'
    BY <1>1, <1>3 DEF HistoryInv, NotificationsAreOfEvents
  <2> QED
    BY <2>1 DEF NotificationsAreOfEvents
<1>5. \A t \in Sources : \A r \in SavedAs(t, "completed") :
        r \in SavedRuns(t) /\ runs[r].saved = "completed"
  BY NoneIsNoRow DEF HistoryInv, RunsInOrder, SavedAs, SavedRuns, RunsOf
<1>6. SavesCompare'
  <2> SUFFICES ASSUME NEW t \in Sources, tx'[t] # None
               PROVE  /\ ~tx'[t].baseline => \E r \in SavedRuns(t)' : runs'[r].saved = "completed"
                      /\ tx'[t].compare # None =>
                           /\ tx'[t].compare \in SavedRuns(t)'
                           /\ runs'[tx'[t].compare].saved = "completed"
                      /\ tx'[t].at # "compare" => \A r \in SavedAs(t, "completed")' :
                           tx'[t].compare # None /\ r <= tx'[t].compare
    BY DEF SavesCompare
  <2>1. tx[t] # None =>
          /\ ~tx[t].baseline => \E r \in SavedRuns(t) : runs[r].saved = "completed"
          /\ tx[t].compare # None =>
               tx[t].compare \in SavedRuns(t) /\ runs[tx[t].compare].saved = "completed"
          /\ tx[t].at # "compare" => \A r \in SavedAs(t, "completed") :
               tx[t].compare # None /\ r <= tx[t].compare
    BY DEF HistoryInv, SavesCompare
  <2>2. CASE Begin(t)
    <3> DEFINE done == SavedAs(t, "completed")
               first == done = {}
    <3>1. (tx'[t].baseline <=> first) /\ tx'[t].compare = None /\ tx'[t].at = "compare"
      BY <1>0, <2>2, SaveFields
    <3>2. ASSUME ~tx'[t].baseline PROVE \E r \in SavedRuns(t)' : runs'[r].saved = "completed"
      <4>1. PICK r \in done : TRUE
        BY <3>1, <3>2
      <4> QED
        BY <1>1, <1>5, <4>1
    <3> QED
      BY <3>1, <3>2
  <2>3. CASE FindCompared(t)
    <3> DEFINE done == SavedAs(t, "completed")
    <3>1. /\ tx'[t].baseline = tx[t].baseline /\ tx[t] # None
          /\ tx'[t].compare = IF done = {} THEN None ELSE Latest(done)
      BY <1>0, <2>3, SaveFields
    <3>2. done # {} => Latest(done) \in done /\ \A r \in done : r <= Latest(done)
      <4>1. HistoryTypeOK /\ done \subseteq RunIds
        BY DEF HistoryInv, SavedAs, RunsOf
      <4> HIDE DEF done
      <4>2. done \in SUBSET Nat /\ Len(runs) \in Nat /\ \A r \in done : r <= Len(runs)
        BY <4>1, RunsAreRows
      <4> QED
        BY <4>2, LatestIsGreatest
    <3>3. \A r \in done : r # None
      BY RunsAreRows, NoneIsNoRow DEF HistoryInv, SavedAs, RunsOf
    <3>4. \A r \in SavedAs(t, "completed")' : r \in done
      BY <1>2
    <3>5. \A r \in done : r \in SavedRuns(t) /\ runs[r].saved = "completed"
      BY <1>5
    <3> HIDE DEF done
    <3> QED
      BY <1>1, <2>1, <3>1, <3>2, <3>3, <3>4, <3>5
  <2>4. CASE LoadApartment(t)
    <3>1. /\ tx'[t].baseline = tx[t].baseline /\ tx'[t].compare = tx[t].compare
          /\ tx[t] # None /\ tx[t].at = "load"
      BY <1>0, <2>4, SaveFields
    <3> QED
      BY <1>1, <1>2, <2>1, <3>1
  <2>5. CASE ~Reads(t)
    <3>1. tx'[t] = tx[t]
      BY <2>5, OpenSaves
    <3> QED
      BY <1>1, <1>2, <2>1, <3>1
  <2> QED
    BY <2>2, <2>3, <2>4, <2>5 DEF Reads
<1>7. ComparedWithLastComplete'
  BY <1>1, <1>2, <1>3 DEF HistoryInv, ComparedWithLastComplete
<1> QED
  BY <1>4, <1>6, <1>7


-----------------------------------------------------------------------------
(* The invariant                                                           *)

LEMMA HistoryInit ==
  Init => HistoryInv
<1> SUFFICES ASSUME Init PROVE HistoryInv
  OBVIOUS
<1> USE DEF Init
<1>1. RunIds = {} /\ \A s \in Sources : RunsOf(s) = {} /\ Active(s) = {} /\ SavedRuns(s) = {}
  BY DEF RunIds, RunsOf, Active, SavedRuns
<1>2. /\ snapshots = {} /\ events = {} /\ notifications = {} /\ IsFiniteSet(snapshots)
  BY FS_EmptySet
<1>3. HistoryTypeOK
  BY <1>1, <1>2, InitialAssumption, BoundsAssumption DEF HistoryTypeOK
<1>4. RunsInOrder /\ OneComplex
  BY <1>1 DEF RunsInOrder, OneComplex, Reading
<1>5. /\ SnapshotsAreOfRuns /\ EventsAreOfSnapshots /\ NotificationsAreOfEvents
      /\ SavesCompare /\ ComparedWithLastComplete /\ ArticleKeepsGroup
  BY <1>2 DEF SnapshotsAreOfRuns, EventsAreOfSnapshots, NotificationsAreOfEvents,
     SavesCompare, ComparedWithLastComplete, ArticleKeepsGroup
<1>6. StatesFollowEvents
  BY <1>2 DEF StatesFollowEvents, StateFollowsEvents, SnapshotsIn
<1>7. LastRunIsActive /\ GoneIsReported /\ StepsAreReported
  BY <1>1 DEF LastRunIsActive, GoneIsReported, StepsAreReported
<1>8. StatesAreJudged
  BY DEF StatesAreJudged
<1> QED
  BY <1>3, <1>4, <1>5, <1>6, <1>7, <1>8 DEF HistoryInv

LEMMA HistoryStep ==
  HistoryInv /\ [Next]_vars => HistoryInv'
<1> SUFFICES ASSUME HistoryInv, [Next]_vars PROVE HistoryInv'
  OBVIOUS
<1>1. ASSUME NEW s \in Sources, Store(s) PROVE HistoryInv'
  <2>1. PICK r, G, NS, NE : Effect(s, r, G, NS, NE)
    BY <1>1, StoreHasEffect DEF Store
  <2>2. HistoryTypeOK'
    BY <1>1, TypesOfSave
  <2>3. RunsInOrder' /\ OneComplex'
    BY <2>1, SaveKeepsOrder
  <2>4. SnapshotsAreOfRuns' /\ EventsAreOfSnapshots'
    BY <2>1, SaveKeepsSnapshots, SaveKeepsEvents
  <2>5. StatesFollowEvents' /\ LastRunIsActive'
    BY <2>1, SaveKeepsStates, SaveKeepsLastRun
  <2>6. GoneIsReported' /\ StepsAreReported'
    BY <2>1, SaveKeepsGone, SaveKeepsSteps
  <2>7. NotificationsAreOfEvents' /\ SavesCompare' /\ ComparedWithLastComplete'
    BY <2>1, SaveKeepsNotifications
  <2>8. ArticleKeepsGroup' /\ StatesAreJudged'
    BY <1>1, <2>1, SaveKeepsArticles, SaveKeepsJudged
  <2> QED
    BY <2>2, <2>3, <2>4, <2>5, <2>6, <2>7, <2>8 DEF HistoryInv
<1>2. ASSUME Quiet, RunsAreQuiet, HistoryTypeOK' PROVE HistoryInv'
  BY <1>2, QuietKeeps, QuietKeepsOrder, QuietKeepsComplex, QuietKeepsNotifications
  DEF HistoryInv
<1>3. ASSUME NEW s \in Sources,
             \/ \E p \in Payloads[s] : Capture(s, p)
             \/ Begin(s) \/ FindCompared(s) \/ LoadApartment(s)
             \/ Fails(s) \/ RejectComplex(s) \/ RejectListings(s)
             \/ \E wanted \in Preferences : UpdatePreference(s, wanted)
             \/ \E r \in RunIds : Withdraw(r)
      PROVE  HistoryInv'
  BY <1>2, <1>3, QuietSteps, OthersAreQuiet, TypesOfOthers DEF HistoryInv
<1>4. ASSUME NEW r \in RunIds, Withdraw(r) PROVE HistoryInv'
  <2>1. runs[r].source \in Sources
    BY RunsAreRows DEF HistoryInv, RunRows
  <2> QED
    BY <1>3, <1>4, <2>1
<1>5. ASSUME UNCHANGED vars PROVE HistoryInv'
  <2>1. Quiet /\ RunsAreQuiet
    BY <1>5 DEF vars, tables, Quiet, RunsAreQuiet, RunIds
  <2>2. \A t \in Sources : Active(t)' = Active(t)
    BY <1>5 DEF vars, tables, Active, RunsOf, RunIds
  <2>3. HistoryTypeOK'
    BY <1>5, <2>2 DEF HistoryInv, HistoryTypeOK, IsSave, RunIds, vars, tables
  <2> QED
    BY <1>2, <2>1, <2>3
<1> QED
  BY <1>1, <1>3, <1>4, <1>5 DEF Next

\* The invariant holds at all times: however the saves of the sources of one
\* complex interleave, fail and are cancelled, what persist wrote of the runs,
\* the state rows, the events and the notifications agree.
THEOREM HistoryInvariance ==
  Spec => []HistoryInv
<1>1. Init => HistoryInv
  BY HistoryInit
<1>2. HistoryInv /\ [Next]_vars => HistoryInv'
  BY HistoryStep
<1> QED
  BY <1>1, <1>2, PTL DEF Spec

\* A notification compares with the last complete crawl of its source before it,
\* even if runs are cancelled between the statements of the open save; it compares
\* with none only if all of them were, and one had been saved.
THEOREM ComparisonInvariance ==
  Spec => []ComparedWithLastComplete
BY HistoryInvariance, PTL DEF HistoryInv

\* An article stays with the group that the runs which showed it stored it under.
THEOREM ArticleInvariance ==
  Spec => []ArticleKeepsGroup
BY HistoryInvariance, PTL DEF HistoryInv

=============================================================================
