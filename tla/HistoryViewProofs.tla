------------------------- MODULE HistoryViewProofs -------------------------
(***************************************************************************)
(* What QueryService shows of the history, for every set of sources,       *)
(* payloads and preferences: each property that TLC checks of the views    *)
(* follows from HistoryInv, which HistoryProofs proves inductive. So does  *)
(* that every step of persist is a step of ListingWatch, or none.          *)
(*                                                                         *)
(* Of a source none of whose saved runs was overwritten by a cancel, the   *)
(* runs with results are the saved ones; the events through one of them,   *)
(* replayed, end with the newest one of the listing.                       *)
(***************************************************************************)
EXTENDS HistoryProofs

-----------------------------------------------------------------------------
(* The runs with results, and the replay                                   *)

\* The saved runs of s up to r.
SavedThrough(s, r) == {q \in SavedRuns(s) : q <= r}

LEMMA ResultsAreSaved ==
  ASSUME HistoryInv, NEW s \in Sources, Intact(s)
  PROVE  /\ ResultRuns(s) = SavedRuns(s)
         /\ \A r \in SavedRuns(s) :
              /\ runs[r].source = s /\ r \in RunIds /\ r \in RunsOf(s) /\ r \in Nat
              /\ Through(r) = SavedThrough(s, r)
              /\ r \in SavedThrough(s, r)
              /\ r \in SavedAs(s, "completed") <=> runs[r].saved = "completed"
         /\ SavedAs(s, "completed") \subseteq SavedRuns(s)
<1>1. \A r \in RunsOf(s) : /\ r \in RunIds /\ r \in Nat /\ runs[r].source = s
                           /\ runs[r].saved \in {None, "completed", "partial"}
  BY RunsAreRows DEF HistoryInv, RunsOf, RunRows
<1>2. \A r \in RunsOf(s) : runs[r].status \in {"completed", "partial"} => runs[r].saved = runs[r].status
  BY <1>1 DEF HistoryInv, RunsInOrder
<1>3. \A r \in RunsOf(s) : runs[r].saved # None => runs[r].status = runs[r].saved
  BY DEF Intact
<1>4. ResultRuns(s) = SavedRuns(s)
  BY <1>1, <1>2, <1>3, NoneIsNoRow DEF ResultRuns, SavedAs, SavedRuns
<1>5. \A r \in RunsOf(s) : r \in SavedRuns(s) =>
        (r \in SavedAs(s, "completed") <=> runs[r].saved = "completed")
  BY <1>3 DEF SavedAs, SavedRuns
<1>6. SavedAs(s, "completed") \subseteq SavedRuns(s)
  BY <1>4 DEF ResultRuns
<1>7. \A r \in SavedRuns(s) : r \in RunsOf(s) /\ Through(r) = SavedThrough(s, r) /\ r \in SavedThrough(s, r)
  BY <1>1, <1>4, SavedRunsAreRuns DEF Through, SavedThrough
<1> QED
  BY <1>1, <1>4, <1>5, <1>6, <1>7

\* The events of a listing through r are those heard of it up to r.
LEMMA HeardThrough ==
  ASSUME HistoryInv, NEW s \in Sources, Intact(s), NEW r \in SavedRuns(s), NEW g
  PROVE  {e \in events : e.run \in Through(r) /\ e.group = g} = {e \in Heard(s, g) : e.run <= r}
<1>1. \A e \in events : runs[e.run].saved # None /\ e.run \in RunIds
  BY DEF HistoryInv, EventsAreOfSnapshots, EventIsOfSnapshot, HistoryTypeOK
<1>2. \A e \in events : e.run \in RunsOf(s) <=> e.run \in SavedRuns(s)
  BY <1>1 DEF SavedRuns
<1> QED
  BY <1>2, ResultsAreSaved DEF SavedThrough, Heard

\* Replayed is the newest event of the listing through r, if that says that the
\* listing is not there.
LEMMA ReplayedIsNewest ==
  ASSUME HistoryInv, NEW s \in Sources, Intact(s), NEW r \in SavedRuns(s), NEW g,
         NEW e \in Heard(s, g), e.run <= r, \A o \in Heard(s, g) : o.run <= r => o.run <= e.run
  PROVE  Replayed(r, g) = IF e.type \in {"missing", "removed"} THEN e ELSE None
<1> DEFINE heard == {o \in Heard(s, g) : o.run <= r}
<1>1. {o \in events : o.run \in Through(r) /\ o.group = g} = heard
  BY HeardThrough
<1>2. e \in heard /\ \A o \in heard : o.run <= e.run
  OBVIOUS
<1>3. \A x \in heard : x \in events /\ x.group = g /\ x.run \in Nat
  BY DEF Heard, HistoryInv, HistoryTypeOK, EventRows
<1>4. ASSUME NEW x \in heard, \A o \in heard : o.run <= x.run PROVE x = e
  <2>1. x.run = e.run /\ x.group = e.group /\ x \in events /\ e \in events
    BY <1>2, <1>3, <1>4
  <2> QED
    BY <2>1 DEF HistoryInv, EventsAreOfSnapshots
<1> HIDE DEF heard
<1>5. LatestIn(heard) = e
  BY <1>2, <1>4 DEF LatestIn
<1>6. heard # {}
  BY <1>2
<1> QED
  BY <1>1, <1>5, <1>6 DEF Replayed

\* A saved run has one row of each group, and the status shown of it is that of
\* its event.
LEMMA RowOfRun ==
  ASSUME HistoryInv, NEW x \in snapshots
  PROVE  /\ LatestIn(SnapshotsIn({x.run}, x.group)) = x
         /\ RowStatus(x) \in EventTypes \cup {"active"}
         /\ \A e \in events : e.run = x.run /\ e.group = x.group =>
              RowStatus(x) = IF e.type = "restored" THEN "active" ELSE e.type
<1>1. /\ \A y \in SnapshotsIn({x.run}, x.group) : y = x
      /\ x \in SnapshotsIn({x.run}, x.group)
      /\ x \in SnapshotRows
  BY DEF HistoryInv, SnapshotsAreOfRuns, SnapshotsIn, HistoryTypeOK
<1>2. x.run <= x.run
  BY <1>1 DEF SnapshotRows
<1>3. LatestIn(SnapshotsIn({x.run}, x.group)) = x
  BY <1>1, <1>2 DEF LatestIn
<1> DEFINE type == {e.type : e \in EventOf(x.run, x.group)}
<1>4. type \subseteq EventTypes
  BY DEF EventOf, HistoryInv, HistoryTypeOK, EventRows
<1>5. ASSUME NEW e \in events, e.run = x.run, e.group = x.group
      PROVE  type = {e.type}
  BY <1>5 DEF EventOf, HistoryInv, EventsAreOfSnapshots
<1> HIDE DEF type
<1>6. RowStatus(x) = IF "restored" \in type THEN "active"
                     ELSE IF type # {} THEN CHOOSE t \in type : TRUE
                     ELSE IF x.status \in {"new", "changed"} THEN x.status
                     ELSE "active"
  BY DEF RowStatus, type
<1>7. RowStatus(x) \in EventTypes \cup {"active"}
  BY <1>4, <1>6 DEF EventTypes
<1>8. ASSUME NEW e \in events, e.run = x.run, e.group = x.group
      PROVE  RowStatus(x) = IF e.type = "restored" THEN "active" ELSE e.type
  <2>1. type = {e.type}
    BY <1>5, <1>8
  <2>2. (CHOOSE t \in type : TRUE) = e.type
    BY <2>1
  <2> QED
    BY <1>6, <2>1, <2>2
<1> QED
  BY <1>3, <1>7, <1>8

\* What is shown of a listing is a row of the table.
LEMMA DetailIsARow ==
  ASSUME HistoryInv, NEW x, NEW status \in EventTypes \cup {"active"}, x \in snapshots
  PROVE  [row |-> x, status |-> status] # None
<1>1. x \in SnapshotRows
  BY DEF HistoryInv, HistoryTypeOK
<1>2. [row |-> x, status |-> status] \in [row : SnapshotRows, status : EventTypes \cup {"active"}]
  BY <1>1
<1> QED
  BY <1>2, NoneAssumption

\* Of a set of rows there is a newest one.
LEMMA NewestRow ==
  ASSUME HistoryInv, NEW S \in SUBSET snapshots, S # {}
  PROVE  LatestIn(S) \in S /\ \A x \in S : x.run <= LatestIn(S).run
<1>1. \A x \in S : x.run \in Nat /\ x.run <= Len(runs)
  BY RunsAreRows DEF HistoryInv, HistoryTypeOK
<1>2. Len(runs) \in Nat
  BY RunsAreRows DEF HistoryInv
<1> QED
  BY <1>1, <1>2, LatestInIsNewest


-----------------------------------------------------------------------------
(* What can be opened                                                      *)

\* A listing that the run does not list, and whose newest event through it says
\* that it is gone, is shown as that event says.
LEMMA DetailOfGone ==
  ASSUME HistoryInv, NEW s \in Sources, Intact(s), NEW r \in SavedRuns(s), NEW g,
         ~Listed(r, g),
         NEW x \in snapshots, x.group = g, x.run \in SavedThrough(s, r),
         NEW e \in Heard(s, g), e.run <= r, e.type \in {"missing", "removed"},
         \A o \in Heard(s, g) : o.run <= r => o.run <= e.run
  PROVE  Detail(r, g) # None /\ Detail(r, g).status = e.type
<1>1. Replayed(r, g) = e /\ e # None /\ e.type \in EventTypes
  <2>1. e \in EventRows
    BY DEF Heard, HistoryInv, HistoryTypeOK
  <2> QED
    BY <2>1, ReplayedIsNewest, NoneIsNoRow DEF EventRows
<1> DEFINE S == SnapshotsIn(Through(r), g)
<1>2. S \in SUBSET snapshots /\ x \in S
  BY ResultsAreSaved DEF SnapshotsIn
<1>3. SnapshotsIn({r}, g) = {}
  BY DEF Listed
<1>4. Detail(r, g) = [row |-> LatestIn(S), status |-> e.type]
  BY <1>1, <1>2, <1>3 DEF Detail
<1> HIDE DEF S
<1>5. LatestIn(S) \in snapshots
  BY <1>2, NewestRow
<1>6. [row |-> LatestIn(S), status |-> e.type] # None
  BY <1>1, <1>5, DetailIsARow
<1> QED
  BY <1>4, <1>6

\* A listing of the run is shown with its row and the status of that.
LEMMA DetailOfListed ==
  ASSUME HistoryInv, NEW x \in snapshots
  PROVE  /\ Detail(x.run, x.group) = [row |-> x, status |-> RowStatus(x)]
         /\ Detail(x.run, x.group) # None
<1>1. x \in SnapshotsIn({x.run}, x.group)
  BY DEF SnapshotsIn
<1>2. Detail(x.run, x.group) = [row |-> x, status |-> RowStatus(x)]
  BY <1>1, RowOfRun DEF Detail
<1>3. RowStatus(x) \in EventTypes \cup {"active"}
  BY RowOfRun
<1> QED
  BY <1>2, <1>3, DetailIsARow

LEMMA NothingVanishesHolds ==
  HistoryInv => NothingVanishes
<1> SUFFICES ASSUME HistoryInv, NEW s \in Sources, NEW r \in SavedAs(s, "completed"), Intact(s),
                    NEW x \in snapshots, x.run \in Through(r)
             PROVE  Detail(r, x.group) # None
  BY DEF NothingVanishes
<1>1. r \in SavedRuns(s) /\ runs[r].saved = "completed" /\ x.run \in SavedThrough(s, r)
  BY ResultsAreSaved
<1>2. CASE Listed(r, x.group)
  <2>1. PICK y \in snapshots : y.run = r /\ y.group = x.group
    BY <1>2 DEF Listed, SnapshotsIn
  <2> QED
    BY <2>1, DetailOfListed
<1>3. CASE ~Listed(r, x.group)
  <2>1. x.run \in RunsOf(s) /\ x.run <= r
    BY <1>1, SavedRunsAreRuns DEF SavedThrough
  <2>2. PICK e \in Heard(s, x.group) :
          /\ e.run <= r /\ e.type \in {"missing", "removed"}
          /\ \A o \in Heard(s, x.group) : o.run <= r => o.run <= e.run
    BY <1>1, <1>3, <2>1 DEF HistoryInv, GoneIsReported
  <2> QED
    BY <1>1, <1>3, <2>2, DetailOfGone
<1> QED
  BY <1>2, <1>3

\* Every listing a source has shown can be opened as of each of its complete
\* crawls: no save, reject or failure of another lets one drop out of the history.
THEOREM NothingVanishesInvariance ==
  Spec => []NothingVanishes
BY HistoryInvariance, NothingVanishesHolds, PTL

LEMMA NotificationOpensHolds ==
  HistoryInv => NotificationOpens
<1> SUFFICES ASSUME HistoryInv, NEW n \in notifications, Intact(n.source)
             PROVE  /\ Detail(n.run, n.group) # None
                    /\ Detail(n.run, n.group).status = IF n.type = "restored" THEN "active" ELSE n.type
  BY DEF NotificationOpens
<1> DEFINE s == n.source
<1>1. s \in Sources /\ n.run \in SavedRuns(s)
  BY DEF HistoryInv, HistoryTypeOK, NotificationRows, NotificationsAreOfEvents
<1>2. PICK e \in events : e = [run |-> n.run, group |-> n.group, type |-> n.type]
  BY DEF HistoryInv, NotificationsAreOfEvents
<1>3. EventIsOfSnapshot(e) /\ e.run = n.run /\ e.group = n.group /\ e.type = n.type
  BY <1>2 DEF HistoryInv, EventsAreOfSnapshots
<1>4. runs[n.run].source = s /\ n.run \in RunsOf(s) /\ n.run \in Nat
  BY <1>1, ResultsAreSaved
<1> HIDE DEF s
<1>5. CASE n.type \in {"missing", "removed"}
  <2>1. PICK q \in SavedRuns(s) : q < n.run /\ Listed(q, n.group)
    BY <1>3, <1>4, <1>5 DEF EventIsOfSnapshot
  <2>2. PICK x \in snapshots : x.run = q /\ x.group = n.group
    BY <2>1 DEF Listed, SnapshotsIn
  <2>3. q \in Nat
    BY <1>1, <2>1, ResultsAreSaved DEF s
  <2>4. x.run \in SavedThrough(s, n.run)
    BY <1>4, <2>1, <2>2, <2>3 DEF SavedThrough
  <2>5. e \in Heard(s, n.group) /\ e.run <= n.run /\ ~Listed(n.run, n.group)
        /\ e.type \in {"missing", "removed"}
        /\ \A o \in Heard(s, n.group) : o.run <= n.run => o.run <= e.run
    BY <1>3, <1>4, <1>5 DEF Heard, EventIsOfSnapshot
  <2>6. Detail(n.run, n.group) # None /\ Detail(n.run, n.group).status = e.type
    BY <1>1, <2>2, <2>4, <2>5, DetailOfGone DEF s
  <2> QED
    BY <1>3, <1>5, <2>6
<1>6. CASE n.type \notin {"missing", "removed"}
  <2>1. PICK x \in SnapshotsIn({n.run}, n.group) : x.status = n.type
    BY <1>3, <1>6 DEF EventIsOfSnapshot
  <2>2. x \in snapshots /\ x.run = n.run /\ x.group = n.group
    BY <2>1 DEF SnapshotsIn
  <2>3. RowStatus(x) = IF n.type = "restored" THEN "active" ELSE n.type
    BY <1>3, <2>2, RowOfRun
  <2>4. Detail(n.run, n.group) = [row |-> x, status |-> RowStatus(x)] /\ Detail(n.run, n.group) # None
    BY <2>2, DetailOfListed
  <2>5. Detail(n.run, n.group).status = RowStatus(x)
    BY <2>4
  <2> QED
    BY <2>3, <2>4, <2>5
<1> QED
  BY <1>5, <1>6

\* A notification opens what it speaks of, with the status that it announces.
THEOREM NotificationOpensInvariance ==
  Spec => []NotificationOpens
BY HistoryInvariance, NotificationOpensHolds, PTL


-----------------------------------------------------------------------------
(* The replay and the state rows                                           *)

LEMMA ReplayMatchesStatesHolds ==
  HistoryInv => ReplayMatchesStates
<1> SUFFICES ASSUME HistoryInv, NEW s \in Sources, ResultRuns(s) # {}, Intact(s)
             PROVE  {<<a.group, a.status>> : a \in View(LatestResult(s)).absent} =
                    {<<g, states[s][g].state>> :
                       g \in {h \in GroupKeys : states[s][h] # None /\ states[s][h].state # "active"}}
  BY DEF ReplayMatchesStates
<1> DEFINE r == LatestResult(s)
           gone == {h \in Known(runs[r].payload.complex) :
                      /\ Replayed(r, h) # None
                      /\ SnapshotsIn({r}, h) = {}
                      /\ SnapshotsIn(Through(r), h) # {}}
           absent == {h \in GroupKeys : states[s][h] # None /\ states[s][h].state # "active"}
<1>1. r \in SavedRuns(s) /\ \A q \in SavedRuns(s) : q <= r
  <2>1. SavedRuns(s) # {} /\ ResultRuns(s) = SavedRuns(s)
    BY ResultsAreSaved
  <2>2. SavedRuns(s) \in SUBSET Nat /\ Len(runs) \in Nat /\ \A q \in SavedRuns(s) : q <= Len(runs)
    BY SavedRunsAreRuns, RunsAreRows DEF HistoryInv
  <2> QED
    BY <2>1, <2>2, LatestIsGreatest DEF LatestResult
<1>2. {<<a.group, a.status>> : a \in View(r).absent} = {<<g, Replayed(r, g).type>> : g \in gone}
  <2> DEFINE row(g) == [group |-> g, status |-> Replayed(r, g).type, detected |-> Replayed(r, g).run,
                        last |-> LatestIn(SnapshotsIn(Through(r), g)).listing]
  <2>1. View(r).absent = {row(g) : g \in gone}
    BY DEF View, Absences
  <2>2. \A g : row(g).group = g /\ row(g).status = Replayed(r, g).type
    OBVIOUS
  <2> HIDE DEF row, gone
  <2> QED
    BY <2>1, <2>2
<1> HIDE DEF r
<1>3. Through(r) = SavedRuns(s) /\ runs[r].source = s /\ r \in RunsOf(s)
  BY <1>1, ResultsAreSaved DEF SavedThrough
<1>4. \A x \in snapshots : /\ x.run \in RunIds /\ x.group \in GroupKeys
                           /\ x.run \in RunsOf(s) => x.run \in SavedRuns(s)
                           /\ x.group.complex = runs[x.run].payload.complex
  BY DEF HistoryInv, HistoryTypeOK, SnapshotRows, SnapshotsAreOfRuns, SavedRuns
<1>5. \A g : SnapshotsIn(RunsOf(s), g) = SnapshotsIn(Through(r), g)
  BY <1>3, <1>4, SavedRunsAreRuns DEF SnapshotsIn
<1>6. \A g : \A e \in Heard(s, g) : e.run <= r
  <2>1. \A e \in events : runs[e.run].saved # None
    BY DEF HistoryInv, EventsAreOfSnapshots, EventIsOfSnapshot
  <2> QED
    BY <1>1, <2>1 DEF Heard, SavedRuns
<1>7. \A g \in gone : g \in GroupKeys
  BY DEF Known
<1>8. ASSUME NEW g \in GroupKeys
      PROVE  /\ g \in gone <=> g \in absent
             /\ g \in absent => Replayed(r, g).type = states[s][g].state
  <2>1. StateFollowsEvents(s, g)
    BY DEF HistoryInv, StatesFollowEvents
  <2>2. CASE states[s][g] = None
    BY <1>5, <2>1, <2>2 DEF StateFollowsEvents
  <2>3. CASE states[s][g] # None
    <3>1. PICK e \in Heard(s, g) :
            /\ \A o \in Heard(s, g) : o.run <= e.run
            /\ IF states[s][g].state = "active" THEN e.type \notin {"missing", "removed"}
               ELSE e.type = states[s][g].state
      BY <2>1, <2>3 DEF StateFollowsEvents
    <3>2. Replayed(r, g) = IF e.type \in {"missing", "removed"} THEN e ELSE None
      BY <1>1, <1>6, <3>1, ReplayedIsNewest
    <3>3. states[s][g].state \in {"active", "missing", "removed"} /\ e # None
      <4>1. states[s][g] \in CountedRows
        BY <2>1, <2>3 DEF StateFollowsEvents
      <4>2. e \in EventRows
        BY DEF Heard, HistoryInv, HistoryTypeOK
      <4> QED
        BY <4>1, <4>2, NoneIsNoRow DEF CountedRows
    <3>4. CASE states[s][g].state = "active"
      BY <3>1, <3>2, <3>4
    <3>5. CASE states[s][g].state # "active"
      <4>1. Replayed(r, g) = e /\ e.type = states[s][g].state
        BY <3>1, <3>2, <3>3, <3>5
      <4>2. SnapshotsIn({r}, g) = {}
        <5>1. Listed(r, g) => states[s][g] = [state |-> "active", count |-> 0]
          BY <1>1 DEF HistoryInv, LastRunIsActive
        <5>2. ~Listed(r, g)
          BY <3>5, <5>1
        <5> QED
          BY <5>2 DEF Listed
      <4>3. PICK x : x \in SnapshotsIn(RunsOf(s), g)
        BY <2>1, <2>3 DEF StateFollowsEvents
      <4>4. g \in Known(runs[r].payload.complex)
        <5>1. x \in snapshots /\ x.run \in SavedRuns(s) /\ x.group = g
          BY <1>4, <4>3 DEF SnapshotsIn
        <5>2. g.complex = runs[x.run].payload.complex
          BY <1>4, <5>1
        <5>3. runs[x.run].payload.complex = runs[r].payload.complex
          BY <1>1, <5>1 DEF HistoryInv, OneComplex
        <5> QED
          BY <1>4, <5>1, <5>2, <5>3 DEF Known, SnapshotsIn
      <4> QED
        BY <1>5, <2>3, <3>3, <3>5, <4>1, <4>2, <4>3, <4>4
    <3> QED
      BY <3>4, <3>5
  <2> QED
    BY <2>2, <2>3
<1> HIDE DEF gone, absent
<1>9. gone = absent
  <2>1. absent \subseteq GroupKeys
    BY DEF absent
  <2> QED
    BY <1>7, <1>8, <2>1
<1>10. {<<g, Replayed(r, g).type>> : g \in gone} = {<<g, states[s][g].state>> : g \in absent}
  <2>1. \A g \in absent : Replayed(r, g).type = states[s][g].state
    BY <1>7, <1>8, <1>9
  <2> QED
    BY <1>9, <2>1
<1> QED
  BY <1>2, <1>10 DEF r, absent

\* What the API replays from the events as of the last run of a source is what
\* the state rows say, from which the next save decides.
THEOREM ReplayInvariance ==
  Spec => []ReplayMatchesStates
BY HistoryInvariance, ReplayMatchesStatesHolds, PTL


-----------------------------------------------------------------------------
(* The chart                                                               *)

\* Rows of distinct groups are as many as their groups.
LEMMA AsManyAsGroups ==
  ASSUME NEW S, NEW G, G = {x.group : x \in S}, IsFiniteSet(S) \/ IsFiniteSet(G),
         \A x, y \in S : x.group = y.group => x = y
  PROVE  IsFiniteSet(S) /\ IsFiniteSet(G) /\ Cardinality(S) = Cardinality(G)
<1> DEFINE f == [x \in S |-> x.group]
<1>1. f \in [S -> G] /\ \A x \in S : f[x] = x.group
  OBVIOUS
<1>2. \A g \in G : \E x \in S : f[x] = g
  OBVIOUS
<1>3. \A x, y \in S : f[x] = f[y] => x = y
  OBVIOUS
<1> HIDE DEF f
<1>4. f \in Injection(S, G) /\ f \in Bijection(S, G)
  BY <1>1, <1>2, <1>3 DEF Bijection, Injection, Surjection, IsInjective
<1>5. IsFiniteSet(S)
  BY <1>4, FS_Injection
<1>6. ExistsBijection(S, G)
  BY <1>4 DEF ExistsBijection
<1> QED
  BY <1>5, <1>6, FS_Bijection

\* What r lists and q does not, and the other way round, accounts for the
\* difference between them.
LEMMA SizesAddUp ==
  ASSUME NEW Q, NEW R, IsFiniteSet(Q), IsFiniteSet(R)
  PROVE  Cardinality(R) + Cardinality(Q \ R) = Cardinality(Q) + Cardinality(R \ Q)
<1>1. /\ IsFiniteSet(Q \ R) /\ IsFiniteSet(R \ Q)
      /\ Cardinality(Q \ R) = Cardinality(Q) - Cardinality(Q \cap R)
      /\ Cardinality(R \ Q) = Cardinality(R) - Cardinality(R \cap Q)
  BY FS_Difference
<1>2. Q \cap R = R \cap Q /\ IsFiniteSet(Q \cap R)
  BY FS_Intersection
<1>3. /\ Cardinality(Q) \in Nat /\ Cardinality(R) \in Nat
      /\ Cardinality(Q \cap R) \in Nat
  BY <1>2, FS_CardinalityType
<1> DEFINE a == Cardinality(Q)
           b == Cardinality(R)
           c == Cardinality(Q \cap R)
<1>4. Cardinality(Q \ R) = a - c /\ Cardinality(R \ Q) = b - c
  BY <1>1, <1>2
<1>5. a \in Nat /\ b \in Nat /\ c \in Nat
  BY <1>3
<1> HIDE DEF a, b, c
<1>6. b + (a - c) = a + (b - c)
  BY <1>5
<1> QED
  BY <1>4, <1>6 DEF a, b

LEMMA HistoryAddsUpHolds ==
  HistoryInv => HistoryAddsUp
<1> SUFFICES ASSUME HistoryInv, NEW s \in Sources,
                    NEW q \in SavedAs(s, "completed"), NEW r \in SavedAs(s, "completed"),
                    Intact(s), q < r, \A o \in ResultRuns(s) : ~(q < o /\ o < r)
             PROVE  Point(r).listed + Cardinality({e \in events : e.run = r /\ e.type = "missing"})
                      = Point(q).listed + Point(r).added
  BY DEF HistoryAddsUp
<1> DEFINE rows(o) == {x \in snapshots : x.run = o}
           listed(o) == {x.group : x \in rows(o)}
<1>1. /\ q \in SavedRuns(s) /\ runs[q].saved = "completed"
      /\ r \in SavedRuns(s) /\ runs[r].saved = "completed"
      /\ \A o \in SavedRuns(s) : ~(q < o /\ o < r)
  BY ResultsAreSaved
<1>2. \A o, g : g \in listed(o) <=> Listed(o, g)
  BY DEF Listed, SnapshotsIn
<1>3. \A o : IsFiniteSet(listed(o)) /\ Cardinality(rows(o)) = Cardinality(listed(o))
  <2> TAKE o
  <2>1. IsFiniteSet(rows(o))
    BY FS_Subset DEF HistoryInv, SnapshotsAreOfRuns
  <2>2. \A x, y \in rows(o) : x.group = y.group => x = y
    BY DEF HistoryInv, SnapshotsAreOfRuns
  <2> HIDE DEF rows
  <2> QED
    BY <2>1, <2>2, AsManyAsGroups
<1>4. \A o, g : Listed(o, g) => g \in GroupKeys
  BY DEF Listed, SnapshotsIn, HistoryInv, HistoryTypeOK, SnapshotRows
<1>5. \A g \in GroupKeys :
        /\ (\E e \in Heralds(r, {"new", "restored"}) : e.group = g) <=> Listed(r, g) /\ ~Listed(q, g)
        /\ (\E e \in Heralds(r, {"missing"}) : e.group = g) <=> Listed(q, g) /\ ~Listed(r, g)
  BY <1>1 DEF HistoryInv, StepsAreReported
<1>6. \A types : \A e \in Heralds(r, types) : e.group \in GroupKeys
  BY DEF Heralds, HistoryInv, HistoryTypeOK, EventRows
<1>7. \A types : \A e, o \in Heralds(r, types) : e.group = o.group => e = o
  BY DEF Heralds, HistoryInv, EventsAreOfSnapshots
<1> DEFINE added == Heralds(r, {"new", "restored"})
           dropped == Heralds(r, {"missing"})
<1>8. Point(r).listed = Cardinality(rows(r)) /\ Point(q).listed = Cardinality(rows(q))
      /\ Point(r).added = Cardinality(added)
      /\ {e \in events : e.run = r /\ e.type = "missing"} = dropped
  BY DEF Point, Heralds
<1> HIDE DEF rows, listed
<1>9. {e.group : e \in added} = listed(r) \ listed(q)
  BY <1>2, <1>4, <1>5, <1>6
<1>10. {e.group : e \in dropped} = listed(q) \ listed(r)
  BY <1>2, <1>4, <1>5, <1>6
<1>11. IsFiniteSet(listed(r) \ listed(q)) /\ IsFiniteSet(listed(q) \ listed(r))
  BY <1>3, FS_Difference
<1>12. /\ \A e, o \in added : e.group = o.group => e = o
       /\ \A e, o \in dropped : e.group = o.group => e = o
  BY <1>7
<1> HIDE DEF added, dropped
<1>13. Cardinality(added) = Cardinality(listed(r) \ listed(q))
  BY <1>9, <1>11, <1>12, AsManyAsGroups
<1>14. Cardinality(dropped) = Cardinality(listed(q) \ listed(r))
  BY <1>10, <1>11, <1>12, AsManyAsGroups
<1>15. Cardinality(listed(r)) + Cardinality(listed(q) \ listed(r))
         = Cardinality(listed(q)) + Cardinality(listed(r) \ listed(q))
  BY <1>3, SizesAddUp
<1> QED
  BY <1>3, <1>8, <1>13, <1>14, <1>15

\* The points of the history chart add up from one complete crawl to the next.
THEOREM HistoryAddsUpInvariance ==
  Spec => []HistoryAddsUp
BY HistoryInvariance, HistoryAddsUpHolds, PTL


-----------------------------------------------------------------------------
(* The state rows implement ListingWatch                                   *)

\* What ListingWatch says of a listing after the crawls c is what its row says.
LEMMA JudgementOfRow ==
  ASSUME NEW c \in Seq(CrawlRows), NEW g, NEW row \in CountedRows \cup {None},
         IF row = None THEN \A i \in DOMAIN c : g \notin c[i].seen
         ELSE /\ \E i \in DOMAIN c : g \in c[i].seen
              /\ row.count = IF Watch!Misses(c, g) < 2 THEN Watch!Misses(c, g) ELSE 2
  PROVE  Watch!Judge(c, g) = IF row = None THEN None ELSE row.state
<1> DEFINE k == Watch!Misses(c, g)
           shown == \E i \in DOMAIN c : g \in c[i].seen
<1>1. IF row = None THEN ~shown ELSE shown /\ row.count = IF k < 2 THEN k ELSE 2
  OBVIOUS
<1>2. row # None => row \in CountedRows
  OBVIOUS
<1>3. k \in Nat
  <2>1. [complete |-> TRUE, seen |-> {}] \in CrawlRows
    BY DEF CrawlRows
  <2> QED
    BY <2>1, MissesOfNext
<1>4. Watch!Judge(c, g) = IF ~shown THEN None
                          ELSE IF k = 0 THEN "active" ELSE IF k = 1 THEN "missing" ELSE "removed"
  BY DEF Watch!Judge
<1> HIDE DEF k, shown
<1>5. CASE row = None
  BY <1>1, <1>4, <1>5
<1>6. CASE row # None
  <2>1. row.state = IF row.count = 0 THEN "active" ELSE IF row.count = 1 THEN "missing" ELSE "removed"
    BY <1>2, <1>6 DEF CountedRows
  <2>2. row.state = IF k = 0 THEN "active" ELSE IF k = 1 THEN "missing" ELSE "removed"
    BY <1>1, <1>3, <1>6, <2>1
  <2> QED
    BY <1>1, <1>4, <1>6, <2>2
<1> QED
  BY <1>5, <1>6

LEMMA WatchInit ==
  Init => Watch!Init
BY DEF Init, Watch!Init

LEMMA WatchStep ==
  HistoryInv /\ HistoryInv' /\ [Next]_vars => [Watch!Next]_Watch!vars
<1> SUFFICES ASSUME HistoryInv, HistoryInv', [Next]_vars
             PROVE  [Watch!Next]_Watch!vars
  OBVIOUS
<1>1. ASSUME NEW s \in Sources, Store(s) PROVE Watch!Save(s)
  <2>1. PICK r, G, NS, NE : Effect(s, r, G, NS, NE)
    BY <1>1, StoreHasEffect DEF Store
  <2> DEFINE x == [complete |-> runs[r].payload.status = "completed", seen |-> G]
             verdict == [t \in Sources |-> [g \in GroupKeys |->
                           IF states[t][g] = None THEN None ELSE states[t][g].state]]
  <2>2. /\ crawls' = [crawls EXCEPT ![s] = Append(crawls[s], x)]
        /\ x \in CrawlRows /\ crawls \in [Sources -> Seq(CrawlRows)]
        /\ \A t \in Sources \ {s} : states'[t] = states[t]
    BY <2>1 DEF Effect, HistoryInv, HistoryTypeOK, CrawlRows
  <2> HIDE DEF x
  <2>3. crawls'[s] = Append(crawls[s], x) /\ crawls[s] \in Seq(CrawlRows)
    BY <2>2
  <2>4. /\ crawls'[s] # <<>> /\ Watch!Front(crawls'[s]) = crawls[s]
        /\ Watch!Last(crawls'[s]) \in Watch!Crawls
    <3>1. crawls'[s] # <<>>
      BY <2>3
    <3>2. Watch!Front(crawls'[s]) = crawls[s]
      BY <2>2, <2>3 DEF Watch!Front
    <3>3. Watch!Last(crawls'[s]) \in Watch!Crawls
      BY <2>2, <2>3 DEF Watch!Last, Watch!Crawls, CrawlRows
    <3> QED
      BY <3>1, <3>2, <3>3
  <2>5. crawls' = [crawls EXCEPT ![s] = crawls'[s]]
    BY <2>2, <2>3
  <2>6. verdict' = [verdict EXCEPT ![s] = [g \in GroupKeys |-> Watch!Judge(crawls'[s], g)]]
    <3>1. \A g \in GroupKeys : Watch!Judge(crawls'[s], g)
                                 = IF states'[s][g] = None THEN None ELSE states'[s][g].state
      <4> TAKE g \in GroupKeys
      <4>1. states'[s][g] \in CountedRows \cup {None}
        BY DEF HistoryInv, StatesFollowEvents, StateFollowsEvents
      <4>2. LET c == crawls'[s] IN
            IF states'[s][g] = None THEN \A i \in DOMAIN c : g \notin c[i].seen
            ELSE /\ \E i \in DOMAIN c : g \in c[i].seen
                 /\ states'[s][g].count = IF Watch!Misses(c, g) < 2 THEN Watch!Misses(c, g) ELSE 2
        BY DEF HistoryInv, StatesAreJudged, Watch!Misses, Watch!MissedIn
      <4>3. crawls'[s] \in Seq(CrawlRows)
        BY <2>2, <2>3, AppendProperties
      <4> QED
        BY <4>1, <4>2, <4>3, JudgementOfRow
    <3>2. verdict'[s] = [g \in GroupKeys |-> Watch!Judge(crawls'[s], g)]
      BY <3>1
    <3>3. \A t \in Sources \ {s} : verdict'[t] = verdict[t]
      BY <2>2
    <3> QED
      BY <3>2, <3>3
  <2> QED
    BY <2>4, <2>5, <2>6 DEF Watch!Save
<1>2. ASSUME Quiet PROVE UNCHANGED Watch!vars
  BY <1>2 DEF Quiet, Watch!vars
<1>3. ASSUME NEW s \in Sources,
             \/ \E p \in Payloads[s] : Capture(s, p)
             \/ Begin(s) \/ FindCompared(s) \/ LoadApartment(s)
             \/ Fails(s) \/ RejectComplex(s) \/ RejectListings(s)
             \/ \E wanted \in Preferences : UpdatePreference(s, wanted)
             \/ \E r \in RunIds : Withdraw(r)
      PROVE  UNCHANGED Watch!vars
  BY <1>2, <1>3, QuietSteps DEF HistoryInv
<1>4. ASSUME NEW r \in RunIds, Withdraw(r) PROVE UNCHANGED Watch!vars
  <2>1. runs[r].source \in Sources
    BY RunsAreRows DEF HistoryInv, RunRows
  <2> QED
    BY <1>3, <1>4, <2>1
<1>5. ASSUME UNCHANGED vars PROVE UNCHANGED Watch!vars
  BY <1>5 DEF vars, tables, Watch!vars
<1> QED
  BY <1>1, <1>3, <1>4, <1>5 DEF Next, Watch!Next

\* persist implements ListingWatch: whether a listing is shown, missing or removed
\* is what the crawls of its source, counted one by one, say it is, however the
\* saves of the sources, the failures and the cancels interleave.
THEOREM WatchRefinement ==
  Spec => WatchSpec
<1>1. Init => Watch!Init
  BY WatchInit
<1>2. HistoryInv /\ HistoryInv' /\ [Next]_vars => [Watch!Next]_Watch!vars
  BY WatchStep
<1> QED
  BY <1>1, <1>2, HistoryInvariance, PTL DEF Spec, WatchSpec, Watch!Spec


-----------------------------------------------------------------------------
(* What a save leaves of the views of the other runs                       *)

\* What is read of a run other than the one that is saved.
ReadsOf(r) ==
  /\ Through(r)' = Through(r)
  /\ runs'[r].payload = runs[r].payload
  /\ {x \in snapshots : x.run = r}' = {x \in snapshots : x.run = r}
  /\ \A g : SnapshotsIn(Through(r), g)' = SnapshotsIn(Through(r), g)
  /\ \A g : SnapshotsIn(Through(r) \ {r}, g)' = SnapshotsIn(Through(r) \ {r}, g)
  /\ \A g : \A q \in Through(r) \cup {r} : SnapshotsIn({q}, g)' = SnapshotsIn({q}, g)
  /\ \A g : EventOf(r, g)' = EventOf(r, g)
  /\ \A g : {e \in events : e.run \in Through(r) /\ e.group = g}'
              = {e \in events : e.run \in Through(r) /\ e.group = g}

LEMMA SaveKeepsReads ==
  ASSUME HistoryInv, NEW s \in Sources, NEW o, NEW G, NEW NS, NEW NE, Effect(s, o, G, NS, NE),
         NEW r \in RunIds, r # o
  PROVE  ReadsOf(r)
<1>1. /\ o \in RunsOf(s) /\ o \in RunIds /\ o \in Nat
      /\ \A q \in RunsOf(s) : q \in Nat /\ q <= o
      /\ RunIds' = RunIds
      /\ \A q \in RunIds \ {o} : runs'[q] = runs[q]
      /\ \A q \in RunIds : runs'[q].source = runs[q].source /\ runs'[q].payload = runs[q].payload
  BY SaveOfRun DEF RunEffect
<1>2. /\ snapshots' = snapshots \cup NS /\ events' = events \cup NE
      /\ \A x \in NS : x.run = o
      /\ \A e \in NE : e.run = o
  BY DEF Effect
<1>3. Through(r)' = Through(r) /\ o \notin Through(r)
  <2> DEFINE t == runs[r].source
  <2>1. runs'[r].source = t /\ t \in Sources /\ r \in Nat
    BY <1>1, RunsAreRows DEF HistoryInv, RunRows
  <2>2. \A q : q \in ResultRuns(t)' /\ q # o <=> q \in ResultRuns(t) /\ q # o
    BY <1>1 DEF ResultRuns, SavedAs, RunsOf
  <2>3. o \in ResultRuns(t) \/ o \in ResultRuns(t)' => ~(o <= r)
    <3>1. o \in ResultRuns(t) \/ o \in ResultRuns(t)' => t = s
      BY <1>1 DEF ResultRuns, SavedAs, RunsOf
    <3>2. t = s => r \in RunsOf(s)
      BY DEF RunsOf
    <3> QED
      BY <1>1, <2>1, <3>1, <3>2
  <2> QED
    BY <2>1, <2>2, <2>3 DEF Through
<1>4. {x \in snapshots : x.run = r}' = {x \in snapshots : x.run = r}
  BY <1>2
<1>5. \A g : SnapshotsIn(Through(r), g)' = SnapshotsIn(Through(r), g)
  BY <1>2, <1>3 DEF SnapshotsIn
<1>6. \A g : SnapshotsIn(Through(r) \ {r}, g)' = SnapshotsIn(Through(r) \ {r}, g)
  BY <1>2, <1>3 DEF SnapshotsIn
<1>7. \A g : \A q \in Through(r) \cup {r} : SnapshotsIn({q}, g)' = SnapshotsIn({q}, g)
  BY <1>2, <1>3 DEF SnapshotsIn
<1>8. \A g : EventOf(r, g)' = EventOf(r, g)
  BY <1>2 DEF EventOf
<1>9. \A g : {e \in events : e.run \in Through(r) /\ e.group = g}'
               = {e \in events : e.run \in Through(r) /\ e.group = g}
  BY <1>2, <1>3
<1> QED
  BY <1>1, <1>3, <1>4, <1>5, <1>6, <1>7, <1>8, <1>9 DEF ReadsOf

LEMMA ReplayIsKept ==
  ASSUME NEW r, ReadsOf(r), NEW g
  PROVE  Replayed(r, g)' = Replayed(r, g)
<1>1. {e \in events : e.run \in Through(r) /\ e.group = g}'
        = {e \in events : e.run \in Through(r) /\ e.group = g}
  BY DEF ReadsOf
<1> QED
  BY <1>1 DEF Replayed

LEMMA SummaryIsKept ==
  ASSUME NEW x, ReadsOf(x.run)
  PROVE  Summary(x)' = Summary(x)
<1>1. RowStatus(x)' = RowStatus(x)
  <2>1. EventOf(x.run, x.group)' = EventOf(x.run, x.group)
    BY DEF ReadsOf
  <2> QED
    BY <2>1 DEF RowStatus
<1>2. PriceBefore(x)' = PriceBefore(x)
  <2>1. SnapshotsIn(Through(x.run) \ {x.run}, x.group)' = SnapshotsIn(Through(x.run) \ {x.run}, x.group)
    BY DEF ReadsOf
  <2> QED
    BY <2>1 DEF PriceBefore
<1>3. DiscoveredIn(x)' = DiscoveredIn(x)
  <2>1. {q \in Through(x.run) : SnapshotsIn({q}, x.group) # {}}'
          = {q \in Through(x.run) : SnapshotsIn({q}, x.group) # {}}
    BY DEF ReadsOf
  <2> QED
    BY <2>1 DEF DiscoveredIn
<1> QED
  BY <1>1, <1>2, <1>3 DEF Summary

\* A group of the complex that has rows through r is known; which other groups the
\* complex has is not read.
LEMMA AbsencesAreKept ==
  ASSUME NEW r, ReadsOf(r), RunIds' = RunIds, snapshots \subseteq snapshots'
  PROVE  Absences(r)' = Absences(r)
<1> DEFINE c == runs[r].payload.complex
           gone == {h \in Known(c) : /\ Replayed(r, h) # None
                                     /\ SnapshotsIn({r}, h) = {}
                                     /\ SnapshotsIn(Through(r), h) # {}}
           row(g) == [group |-> g, status |-> Replayed(r, g).type, detected |-> Replayed(r, g).run,
                      last |-> LatestIn(SnapshotsIn(Through(r), g)).listing]
<1>1. c' = c
  BY DEF ReadsOf
<1>2. \A h : /\ Replayed(r, h)' = Replayed(r, h)
             /\ SnapshotsIn({r}, h)' = SnapshotsIn({r}, h)
             /\ SnapshotsIn(Through(r), h)' = SnapshotsIn(Through(r), h)
  BY ReplayIsKept DEF ReadsOf
<1>3. Through(r) \subseteq RunIds
  BY DEF Through, ResultRuns, SavedAs, RunsOf
<1>4. \A h : SnapshotsIn(Through(r), h) # {} => (h \in Known(c) <=> h \in GroupKeys /\ h.complex = c)
  BY <1>3 DEF Known, SnapshotsIn
<1>5. \A h : SnapshotsIn(Through(r), h) # {} => (h \in Known(c)' <=> h \in GroupKeys /\ h.complex = c)
  <2>1. \A h : SnapshotsIn(Through(r), h) # {} => SnapshotsIn(RunIds, h)' # {}
    BY <1>3 DEF SnapshotsIn
  <2> QED
    BY <1>1, <2>1 DEF Known
<1>6. gone' = gone
  <2>1. \A h : h \in gone <=> /\ h \in Known(c) /\ Replayed(r, h) # None
                             /\ SnapshotsIn({r}, h) = {} /\ SnapshotsIn(Through(r), h) # {}
    OBVIOUS
  <2>2. \A h : h \in gone' <=> /\ h \in Known(c)' /\ Replayed(r, h)' # None
                              /\ SnapshotsIn({r}, h)' = {} /\ SnapshotsIn(Through(r), h)' # {}
    OBVIOUS
  <2> HIDE DEF gone, c
  <2>3. \A h : h \in gone' <=> h \in gone
    BY <1>2, <1>4, <1>5, <2>1, <2>2
  <2> QED
    BY <2>3
<1>7. \A g : row(g)' = row(g)
  BY <1>2
<1>8. Absences(r) = {row(g) : g \in gone}
  BY DEF Absences
<1>9. Absences(r)' = {row(g) : g \in gone}'
  BY DEF Absences
<1> HIDE DEF gone, row
<1> QED
  BY <1>6, <1>7, <1>8, <1>9

LEMMA ViewIsKept ==
  ASSUME NEW r, ReadsOf(r), RunIds' = RunIds, snapshots \subseteq snapshots'
  PROVE  View(r)' = View(r)
<1>1. {y \in snapshots : y.run = r}' = {y \in snapshots : y.run = r}
  BY DEF ReadsOf
<1>2. \A x : x.run = r => Summary(x)' = Summary(x)
  BY SummaryIsKept
<1>3. {Summary(x) : x \in {y \in snapshots : y.run = r}}' = {Summary(x) : x \in {y \in snapshots : y.run = r}}
  BY <1>1, <1>2
<1> QED
  BY <1>3, AbsencesAreKept DEF View

\* The registrations of a listing are the articles that its run showed and that
\* belong to it today: those of the run are still with it.
LEMMA RegistrationsAreKept ==
  ASSUME ArticleKeepsGroup, ArticleKeepsGroup',
         NEW x \in snapshots, ReadsOf(x.run), snapshots \subseteq snapshots'
  PROVE  Registrations(x)' = Registrations(x)
<1> DEFINE shows(q, a) == \E y \in snapshots : y.run = q /\ a \in y.listing.articles
           first(a) == Earliest({q \in Through(x.run) : shows(q, a)})
           shown == {b \in ArticlesOf(x.group) : shows(x.run, b)}
<1>1. {y \in snapshots : y.run = x.run}' = {y \in snapshots : y.run = x.run}
  BY DEF ReadsOf
<1>2. \A a : shows(x.run, a)' <=> shows(x.run, a)
  BY <1>1
<1>3. \A a \in Articles : shows(x.run, a) => (a \in ArticlesOf(x.group)' <=> a \in ArticlesOf(x.group))
  BY DEF ArticleKeepsGroup, ArticlesOf
<1>4. shown' = shown
  <2>1. \A a : a \in ArticlesOf(x.group)' \/ a \in ArticlesOf(x.group) => a \in Articles
    BY DEF ArticlesOf
  <2> QED
    BY <1>2, <1>3, <2>1
<1>5. \A a : first(a)' = first(a)
  <2> TAKE a
  <2>1. Through(x.run)' = Through(x.run)
    BY DEF ReadsOf
  <2>2. \A q \in Through(x.run) : shows(q, a)' <=> shows(q, a)
    <3> TAKE q \in Through(x.run)
    <3>1. \A y : SnapshotsIn({q}, y.group)' = SnapshotsIn({q}, y.group)
      BY DEF ReadsOf
    <3>2. \A y : /\ y \in snapshots /\ y.run = q <=> y \in SnapshotsIn({q}, y.group)
                 /\ y \in snapshots' /\ y.run = q <=> y \in SnapshotsIn({q}, y.group)'
      BY DEF SnapshotsIn
    <3>3. \A y : y \in snapshots' /\ y.run = q <=> y \in snapshots /\ y.run = q
      BY <3>1, <3>2
    <3> QED
      BY <3>3
  <2>3. {q \in Through(x.run) : shows(q, a)}' = {q \in Through(x.run) : shows(q, a)}
    BY <2>1, <2>2
  <2> QED
    BY <2>3
<1>6. Registrations(x) = {[article |-> a, first |-> first(a)] : a \in shown}
  BY DEF Registrations
<1>7. Registrations(x)' = {[article |-> a, first |-> first(a)'] : a \in shown'}
  BY DEF Registrations
<1> HIDE DEF shown, first
<1> QED
  BY <1>4, <1>5, <1>6, <1>7

\* A save leaves every run with results as it was shown.
LEMMA SaveKeepsViews ==
  ASSUME HistoryInv, HistoryInv', NEW s \in Sources, Store(s),
         NEW r \in RunIds, r \in ResultRuns(runs[r].source)
  PROVE  /\ View(r)' = View(r)
         /\ \A x \in snapshots : x.run = r => Registrations(x)' = Registrations(x)
<1>1. PICK o, G, NS, NE : Effect(s, o, G, NS, NE)
  BY StoreHasEffect DEF Store
<1>2. r # o
  <2>1. runs[o].status = "running"
    BY <1>1 DEF Effect, Active
  <2> QED
    BY <2>1 DEF ResultRuns, SavedAs
<1>3. ReadsOf(r)
  BY <1>1, <1>2, SaveKeepsReads
<1>4. RunIds' = RunIds /\ snapshots \subseteq snapshots'
  <2>1. RunIds' = RunIds
    BY <1>1, SaveOfRun DEF RunEffect
  <2> QED
    BY <1>1, <2>1 DEF Effect
<1>5. ArticleKeepsGroup /\ ArticleKeepsGroup'
  BY DEF HistoryInv
<1> QED
  BY <1>3, <1>4, <1>5, ViewIsKept, RegistrationsAreKept

LEMMA HistoryIsKeptStep ==
  HistoryInv /\ HistoryInv' /\ [Next]_vars =>
    [\/ UNCHANGED <<crawls, snapshots, events>>
     \/ \A r \in RunIds :
          r \in ResultRuns(runs[r].source) /\ r \in ResultRuns(runs[r].source)' =>
            /\ View(r)' = View(r)
            /\ \A x \in snapshots : x.run = r => Registrations(x)' = Registrations(x)
    ]_vars
<1> SUFFICES ASSUME HistoryInv, HistoryInv', [Next]_vars
             PROVE  \/ UNCHANGED <<crawls, snapshots, events>>
                    \/ \A r \in RunIds : r \in ResultRuns(runs[r].source) =>
                         /\ View(r)' = View(r)
                         /\ \A x \in snapshots : x.run = r => Registrations(x)' = Registrations(x)
  OBVIOUS
<1>1. CASE \E s \in Sources : Store(s)
  BY <1>1, SaveKeepsViews
<1>2. ASSUME NEW s \in Sources,
             \/ \E p \in Payloads[s] : Capture(s, p)
             \/ Begin(s) \/ FindCompared(s) \/ LoadApartment(s)
             \/ Fails(s) \/ RejectComplex(s) \/ RejectListings(s)
             \/ \E wanted \in Preferences : UpdatePreference(s, wanted)
             \/ \E r \in RunIds : Withdraw(r)
      PROVE  UNCHANGED <<crawls, snapshots, events>>
  BY <1>2, QuietSteps DEF HistoryInv, Quiet
<1>3. ASSUME NEW r \in RunIds, Withdraw(r) PROVE UNCHANGED <<crawls, snapshots, events>>
  BY <1>3 DEF Withdraw
<1>4. ASSUME UNCHANGED vars PROVE UNCHANGED <<crawls, snapshots, events>>
  BY <1>4 DEF vars, tables
<1> QED
  BY <1>1, <1>2, <1>3, <1>4 DEF Next

\* What the API shows of a run, down to the registrations of its listings, is not
\* rewritten by any later save, of its source or another one of the complex.
THEOREM HistoryIsKeptAlways ==
  Spec => HistoryIsKept
BY HistoryInvariance, HistoryIsKeptStep, PTL DEF Spec, HistoryIsKept

=============================================================================
