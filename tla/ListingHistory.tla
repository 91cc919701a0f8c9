--------------------------- MODULE ListingHistory ---------------------------
(***************************************************************************)
(* What is kept of the crawls: PersistenceService.persist, which matches   *)
(* the listings of a crawl with the groups of earlier ones, records what   *)
(* changed and notifies the owner of the source, and QueryService, which   *)
(* shows the history as of any run.                                        *)
(*                                                                         *)
(* Sources save concurrently (Docker) and meet in the rows of a complex:   *)
(* its apartment, its groups and its broker articles. Every save writes    *)
(* the apartment row before it reads the groups (the autoflush of          *)
(* _existing_records sends the UPDATE; the INSERT waits on the unique      *)
(* key), and so holds it until it commits: saves of one complex are serial *)
(* from there on, and are one step. What was read before the row was held  *)
(* (the baseline, the compared run and the apartment itself, a statement   *)
(* each that reads what is committed when it starts) is kept in tx and may *)
(* be stale.                                                               *)
(*                                                                         *)
(* A run is its index in runs, the order in which the pages were captured; *)
(* one run of a source is active at a time, so that created_at, captured_at*)
(* and finished_at order the runs of a source alike. A listing             *)
(* group is its identity key, an article its number. Wording, prices other *)
(* than the asking price and the parsed text are abstracted to facets,     *)
(* price and detail.                                                       *)
(***************************************************************************)
EXTENDS Naturals, Sequences, FiniteSets, FiniteSetsExt, SequencesExt, TLC

CONSTANTS
  Sources,         \* the tracked URLs
  Payloads,        \* what the crawls of each source may bring home
  Preferences,     \* the notification preferences a user may set
  InitialPreferences,  \* those set at the start
  None,
  MaxRuns,         \* bound on the crawls of each source
  MaxDisturbances  \* bound on failures, cancels and changes of a preference

EventTypes == {"new", "changed", "missing", "removed", "restored"}

ASSUME BoundsAssumption ==
  MaxRuns \in [Sources -> Nat] /\ MaxDisturbances \in Nat
ASSUME PreferencesAssumption ==
  Preferences \subseteq SUBSET {"new", "changed", "removed", "restored"}
ASSUME InitialAssumption == InitialPreferences \in [Sources -> Preferences]
ASSUME PayloadsAssumption == \A s \in Sources : \A p \in Payloads[s] :
  /\ p.status \in {"completed", "partial"}
  /\ p.collect \in BOOLEAN
  /\ p.listings \in Seq(Range(p.listings))
  /\ \A l \in Range(p.listings) :
       /\ l = [facets |-> l.facets, price |-> l.price, detail |-> l.detail,
               articles |-> l.articles]
       /\ IsFiniteSet(l.articles)

VARIABLES
  runs,           \* crawl_runs, with what was captured
  tx,             \* what the open save of a source has read
  complexOf,      \* tracked_sources.naver_complex_id
  apartments,     \* apartments.details_json
  articleGroup,   \* broker_articles.listing_group_id
  snapshots,      \* listing_snapshots with their aggregate and their articles
  states,         \* source_listing_states
  events,         \* change_events
  prefs,          \* source_notification_preferences
  notifications,
  crawls,         \* history: the crawls saved for each source, with the groups seen
  disturbances    \* failures, cancels and changes of a preference so far

tables == <<runs, complexOf, apartments, articleGroup, snapshots, states, events,
            notifications, crawls>>
vars   == <<tables, tx, prefs, disturbances>>

-----------------------------------------------------------------------------
(* Listings and their identity                                             *)

AllPayloads == UNION {Payloads[s] : s \in Sources}
Complexes == {p.complex : p \in AllPayloads}
Listings  == UNION {Range(p.listings) : p \in AllPayloads}
Articles  == UNION {l.articles : l \in Listings}

\* build_identity_key: the digest is the tuple it is taken of.
IdentityKey(c, l) ==
  [complex |-> c, facets |-> l.facets, price |-> l.price, articles |-> l.articles]

GroupKeys == UNION {{IdentityKey(p.complex, l) : l \in Range(p.listings)} : p \in AllPayloads}

\* _collect_broker_details_enabled, and what is stored of a listing: a crawl
\* that skips the broker details has nothing to store for them.
Stored(p, l) == IF p.collect THEN l ELSE [l EXCEPT !.detail = None]

\* Rows of the tables.
SnapshotRows ==
  [run : Nat, group : GroupKeys, listing : {Stored(p, l) : p \in AllPayloads, l \in Listings},
   status : {"active", "new", "changed", "restored"}]
StateRows == [state : {"active", "missing", "removed"}, count : 0..2]
EventRows == [run : Nat, group : GroupKeys, type : EventTypes]
NotificationRows ==
  [source : Sources, run : Nat, group : GroupKeys, type : EventTypes,
   compare : Nat \cup {None}]

ASSUME NoneAssumption == None \notin
  Nat \cup Complexes \cup GroupKeys \cup StateRows \cup EventRows \cup EventTypes \cup
  {"completed", "partial"} \cup [row : SnapshotRows, status : EventTypes \cup {"active"}]

Statuses == {"running", "completed", "partial", "failed", "cancelled"}
RunRecord(s, p) == [source |-> s, status |-> "running", saved |-> None, payload |-> p]
RunIds == DOMAIN runs
RunsOf(s) == {r \in RunIds : runs[r].source = s}
Latest(S) == CHOOSE x \in S : \A y \in S : y <= x

\* The run a source is at, if any: one run of a source is active at a time.
Active(s) == {r \in RunsOf(s) : runs[r].status = "running"}

SavedAs(s, status) == {r \in RunsOf(s) : runs[r].status = status}

-----------------------------------------------------------------------------
(* What a save reads                                                       *)

SnapshotsIn(R, g) == {x \in snapshots : x.run \in R /\ x.group = g}
LatestIn(S) == CHOOSE x \in S : \A y \in S : y.run <= x.run

\* _latest_complete_snapshot
Complete(s, r, g) == SnapshotsIn(SavedAs(s, "completed") \ {r}, g)

\* identity_snapshot of _existing_records
IdentitySnapshot(s, r, g) ==
  LatestIn(IF Complete(s, r, g) # {} THEN Complete(s, r, g) ELSE SnapshotsIn(RunIds, g))

\* The groups of the apartment (a group is stored with its first snapshot).
Known(c) == {g \in GroupKeys : g.complex = c /\ SnapshotsIn(RunIds, g) # {}}

\* _all_article_ids
ArticlesOf(g) == {a \in Articles : articleGroup[a] = g}

\* choose_existing_listing: the group that shares most articles, else the one
\* with this very key, else the only one of this building, area, floor and
\* direction, else none. The candidates are those of before the save.
Match(s, r, c, l) ==
  LET shared(g) == Cardinality(ArticlesOf(g) \cap l.articles)
      best      == {g \in Known(c) : /\ shared(g) > 0
                                     /\ \A h \in Known(c) : shared(h) <= shared(g)}
      auxiliary == {g \in Known(c) : IdentitySnapshot(s, r, g).listing.facets = l.facets}
  IN  IF best # {} THEN CHOOSE g \in best : TRUE
      ELSE IF IdentityKey(c, l) \in Known(c) THEN IdentityKey(c, l)
      ELSE IF Cardinality(auxiliary) = 1 THEN CHOOSE g \in auxiliary : TRUE
      ELSE None

\* The group of each listing: the matched one, or a new one with its key.
GroupsOf(s, r, p) == [i \in DOMAIN p.listings |->
  LET match == Match(s, r, p.complex, p.listings[i])
  IN  IF match = None THEN IdentityKey(p.complex, p.listings[i]) ELSE match]

\* Two listings of the crawl are taken for one group.
SameGroupTwice(m) == \E i, j \in DOMAIN m : i # j /\ m[i] = m[j]

ArticleConflict_Twice(p, m) ==   \* mutant: an article of another group is overlooked
  \E i, j \in DOMAIN m : m[i] # m[j] /\ p.listings[i].articles \cap p.listings[j].articles # {}

\* _store_brokers: an article of the crawl belongs to another group.
ArticleConflict(p, m) ==
  \E i \in DOMAIN m : \E a \in p.listings[i].articles :
    \/ articleGroup[a] \notin {None, m[i]}
    \/ \E j \in DOMAIN m : a \in p.listings[j].articles /\ m[j] # m[i]

ListingAt(p, m, g) == Stored(p, p.listings[CHOOSE i \in DOMAIN m : m[i] = g])

\* compare_listings: details count only when both crawls collected them.
Differs(old, oldCollect, new, newCollect) ==
  \/ old.facets # new.facets
  \/ old.price # new.price
  \/ old.articles # new.articles
  \/ oldCollect /\ newCollect /\ old.detail # new.detail

PresenceEvent_Removed(s, r, p, l, g) ==   \* mutant: only what was removed is restored
  IF states[s][g] = None THEN "new"
  ELSE IF states[s][g].state = "removed" THEN "restored" ELSE None

\* The event of a listing that is there: transition_presence, else a change
\* against the latest complete crawl of the source.
PresenceEvent(s, r, p, l, g) ==
  IF states[s][g] = None THEN "new"
  ELSE IF states[s][g].state \in {"missing", "removed"} THEN "restored"
  ELSE LET old == LatestIn(Complete(s, r, g))
       IN  IF /\ Complete(s, r, g) # {}
              /\ Differs(old.listing, runs[old.run].payload.collect, l, p.collect)
           THEN "changed" ELSE None

Absence_Partial(old, status) ==   \* mutant: a partial crawl counts
  IF old.state = "removed" THEN old
  ELSE IF old.count + 1 >= 2 THEN [state |-> "removed", count |-> 2]
  ELSE [state |-> "missing", count |-> 1]

Absence_Counting(old, status) ==   \* mutant: what is removed is counted on
  IF status # "completed" THEN old
  ELSE IF old.count + 1 >= 2 THEN [state |-> "removed", count |-> old.count + 1]
  ELSE [state |-> "missing", count |-> 1]

\* transition_absence
Absence(old, status) ==
  IF status # "completed" \/ old.state = "removed" THEN old
  ELSE IF old.count + 1 >= 2 THEN [state |-> "removed", count |-> 2]
  ELSE [state |-> "missing", count |-> 1]

\* The listings of the source that the crawl did not show.
Absent(s, c, present) == {g \in Known(c) : states[s][g] # None} \ present

\* The state rows after the save.
NextStates(s, p, m) ==
  [g \in GroupKeys |->
     IF g \in Range(m) THEN [state |-> "active", count |-> 0]
     ELSE IF g \in Absent(s, p.complex, Range(m)) THEN Absence(states[s][g], p.status)
     ELSE states[s][g]]

NewSnapshots(s, r, p, m) ==
  {LET l == ListingAt(p, m, g)
       e == PresenceEvent(s, r, p, l, g)
   IN  [run |-> r, group |-> g, listing |-> l,
        status |-> IF e = None THEN "active" ELSE e] : g \in Range(m)}

\* _add_event, for the listings that are there and for the absent ones whose
\* state moves.
NewEvents(s, r, p, m) ==
  {[run |-> x.run, group |-> x.group, type |-> x.status] :
     x \in {y \in NewSnapshots(s, r, p, m) : y.status # "active"}} \cup
  {[run |-> r, group |-> g, type |-> NextStates(s, p, m)[g].state] :
     g \in {h \in Absent(s, p.complex, Range(m)) : NextStates(s, p, m)[h] # states[s][h]}}

\* _store_brokers
NewArticles(p, m) == [a \in Articles |->
  IF \E i \in DOMAIN m : a \in p.listings[i].articles
  THEN m[CHOOSE i \in DOMAIN m : a \in p.listings[i].articles]
  ELSE articleGroup[a]]

\* create_from_change_event: nothing before the first complete crawl of the
\* source, and only what the owner asked for.
Notified(s, new) ==
  {[source |-> s, run |-> e.run, group |-> e.group, type |-> e.type,
    compare |-> tx[s].compare] :
     e \in {x \in new : ~tx[s].baseline /\ x.type \in prefs[s]}}

\* The details_json a save leaves: its own, or merged with what it loaded; an
\* insert that lost to another save loads the row again. An unchanged value is
\* not written.
Merged(loaded, c, incoming) ==
  LET current == IF loaded = None THEN apartments[c] ELSE loaded
      merged  == incoming @@ current
  IN  IF current = None THEN incoming
      ELSE IF merged = current THEN apartments[c] ELSE merged

-----------------------------------------------------------------------------
(* The behaviour                                                           *)

Init ==
  /\ runs = <<>>
  /\ tx = [s \in Sources |-> None]
  /\ complexOf = [s \in Sources |-> None]
  /\ apartments = [c \in Complexes |-> None]
  /\ articleGroup = [a \in Articles |-> None]
  /\ snapshots = {}
  /\ states = [s \in Sources |-> [g \in GroupKeys |-> None]]
  /\ events = {}
  /\ prefs = InitialPreferences
  /\ notifications = {}
  /\ crawls = [s \in Sources |-> <<>>]
  /\ disturbances = 0

Disturb ==
  /\ disturbances < MaxDisturbances
  /\ disturbances' = disturbances + 1

\* A crawl of s comes back with p.
Capture(s, p) ==
  /\ Cardinality(RunsOf(s)) < MaxRuns[s]
  /\ Active(s) = {}
  /\ runs' = Append(runs, RunRecord(s, p))
  /\ UNCHANGED <<complexOf, apartments, articleGroup, snapshots, states, events,
                 notifications, crawls, tx, prefs, disturbances>>

\* persist opens a save; has_completed_baseline.
Begin(s) ==
  /\ tx[s] = None /\ Active(s) # {}
  /\ tx' = [tx EXCEPT ![s] = [at |-> "compare", baseline |-> SavedAs(s, "completed") = {},
                              compare |-> None, loaded |-> None]]
  /\ UNCHANGED <<tables, prefs, disturbances>>

Reading(s, at) == tx[s] # None /\ tx[s].at = at

FindCompared_AnyResult(s) ==   \* mutant: a partial run is compared with
  LET done == SavedAs(s, "completed") \cup SavedAs(s, "partial") IN
  /\ Reading(s, "compare")
  /\ tx' = [tx EXCEPT ![s].at = "load",
                      ![s].compare = IF done = {} THEN None ELSE Latest(done)]
  /\ UNCHANGED <<tables, prefs, disturbances>>

\* previous_successful_run_id: a cancel may have taken back what was found before.
FindCompared(s) ==
  LET done == SavedAs(s, "completed") IN
  /\ Reading(s, "compare")
  /\ tx' = [tx EXCEPT ![s].at = "load",
                      ![s].compare = IF done = {} THEN None ELSE Latest(done)]
  /\ UNCHANGED <<tables, prefs, disturbances>>

\* The apartment row of the complex, which has to be that of the earlier crawls.
LoadApartment(s) == \E r \in Active(s) :
  LET c == runs[r].payload.complex IN
  /\ Reading(s, "load") /\ complexOf[s] \in {None, c}
  /\ tx' = [tx EXCEPT ![s].at = "store", ![s].loaded = apartments[c]]
  /\ UNCHANGED <<tables, prefs, disturbances>>

\* The rest of persist, and its commit.
StoreAs(s, r, p, m) ==
  /\ ~SameGroupTwice(m) /\ ~ArticleConflict(p, m)
  /\ runs' = [runs EXCEPT ![r].status = p.status, ![r].saved = p.status]
  /\ complexOf' = [complexOf EXCEPT ![s] = p.complex]
  /\ apartments' = [apartments EXCEPT
                      ![p.complex] = Merged(tx[s].loaded, p.complex, p.details)]
  /\ articleGroup' = NewArticles(p, m)
  /\ snapshots' = snapshots \cup NewSnapshots(s, r, p, m)
  /\ states' = [states EXCEPT ![s] = NextStates(s, p, m)]
  /\ events' = events \cup NewEvents(s, r, p, m)
  /\ notifications' = notifications \cup Notified(s, NewEvents(s, r, p, m))
  /\ crawls' = [crawls EXCEPT ![s] =
                  Append(@, [complete |-> p.status = "completed", seen |-> Range(m)])]
  /\ tx' = [tx EXCEPT ![s] = None]
  /\ UNCHANGED <<prefs, disturbances>>

Store(s) == \E r \in Active(s) :
  Reading(s, "store") /\ StoreAs(s, r, runs[r].payload, GroupsOf(s, r, runs[r].payload))

\* The rollback of a save, and mark_run_terminal. (A crawl that never comes to
\* a save, failed or cancelled, leaves nothing here and is not a run here.)
Failed(s) == \E r \in Active(s) :
  /\ runs' = [runs EXCEPT ![r].status = "failed"]
  /\ tx' = [tx EXCEPT ![s] = None]
  /\ UNCHANGED <<complexOf, apartments, articleGroup, snapshots, states, events,
                 notifications, crawls, prefs>>

\* The database, or the process, fails under an open save.
Fails(s) == tx[s] # None /\ Failed(s) /\ Disturb

\* SourceComplexMismatchError
RejectComplex(s) ==
  /\ Reading(s, "load")
  /\ \E r \in Active(s) : complexOf[s] \notin {None, runs[r].payload.complex}
  /\ Failed(s) /\ UNCHANGED disturbances

\* PersistenceError and ArticleGroupConflictError
RejectListings(s) ==
  /\ Reading(s, "store")
  /\ \E r \in Active(s) : LET p == runs[r].payload
                              m == GroupsOf(s, r, p)
                          IN  SameGroupTwice(m) \/ ArticleConflict(p, m)
  /\ Failed(s) /\ UNCHANGED disturbances

\* A cancel that read the run while it was active overwrites it after it has
\* been saved.
Withdraw(r) ==
  /\ runs[r].status \in {"completed", "partial"}
  /\ runs' = [runs EXCEPT ![r].status = "cancelled"]
  /\ Disturb
  /\ UNCHANGED <<complexOf, apartments, articleGroup, snapshots, states, events,
                 notifications, crawls, tx, prefs>>

\* update_preference
UpdatePreference(s, wanted) ==
  /\ wanted # prefs[s]
  /\ prefs' = [prefs EXCEPT ![s] = wanted]
  /\ Disturb
  /\ UNCHANGED <<tables, tx>>

Next ==
  \/ \E s \in Sources :
       \/ \E p \in Payloads[s] : Capture(s, p)
       \/ Begin(s) \/ FindCompared(s) \/ LoadApartment(s) \/ Store(s)
       \/ Fails(s) \/ RejectComplex(s) \/ RejectListings(s)
       \/ \E wanted \in Preferences : UpdatePreference(s, wanted)
  \/ \E r \in RunIds : Withdraw(r)

Spec == Init /\ [][Next]_vars

-----------------------------------------------------------------------------
(* What the API shows (QueryService)                                       *)

\* RESULT_STATUSES
ResultRuns(s) == SavedAs(s, "completed") \cup SavedAs(s, "partial")

Through_All(r) == ResultRuns(runs[r].source)   \* mutant: later runs are read too

\* _source_run_ids_through
Through(r) == {q \in ResultRuns(runs[r].source) : q <= r}

Earliest(S) == CHOOSE x \in S : \A y \in S : x <= y

EventOf(r, g) == {e \in events : e.run = r /\ e.group = g}

\* _listing_rows_for_run and _last_listing_rows_for_groups: the price before,
\* and the run that discovered the listing.
PriceBefore(x) ==
  LET before == SnapshotsIn(Through(x.run) \ {x.run}, x.group)
  IN  IF before = {} THEN None ELSE LatestIn(before).listing.price

DiscoveredIn(x) == Earliest({q \in Through(x.run) : SnapshotsIn({q}, x.group) # {}})

\* _listing_summary of a row of the selected run
RowStatus(x) ==
  LET type == {e.type : e \in EventOf(x.run, x.group)}
  IN  IF "restored" \in type THEN "active"
      ELSE IF type # {} THEN CHOOSE t \in type : TRUE
      ELSE IF x.status \in {"new", "changed"} THEN x.status
      ELSE "active"

Summary(x) ==
  [group |-> x.group, listing |-> x.listing, status |-> RowStatus(x),
   before |-> PriceBefore(x), discovered |-> DiscoveredIn(x)]

Replayed_ThisRun(r, g) ==   \* mutant: only the events of the run itself
  LET heard == {e \in events : e.run = r /\ e.group = g}
  IN  IF \E e \in heard : e.type \in {"missing", "removed"}
      THEN CHOOSE e \in heard : e.type \in {"missing", "removed"} ELSE None

\* _absence_states_as_of_run: the events of the source through r, replayed.
Replayed(r, g) ==
  LET heard == {e \in events : e.run \in Through(r) /\ e.group = g}
      last  == LatestIn(heard)
  IN  IF heard = {} \/ last.type \notin {"missing", "removed"} THEN None ELSE last

Absences(r) ==
  {[group |-> g, status |-> Replayed(r, g).type, detected |-> Replayed(r, g).run,
    last |-> LatestIn(SnapshotsIn(Through(r), g)).listing] :
     g \in {h \in Known(runs[r].payload.complex) :
              /\ Replayed(r, h) # None
              /\ SnapshotsIn({r}, h) = {}
              /\ SnapshotsIn(Through(r), h) # {}}}

\* listings, as of a run with results
View(r) == [items |-> {Summary(x) : x \in {y \in snapshots : y.run = r}},
            absent |-> Absences(r)]

\* _broker_registrations_for_run: the articles of the run that belong to the
\* group today, and the run that showed each first.
Registrations(x) ==
  LET shows(q, a) == \E y \in snapshots : y.run = q /\ a \in y.listing.articles
  IN  {[article |-> a, first |-> Earliest({q \in Through(x.run) : shows(q, a)})] :
        a \in {b \in ArticlesOf(x.group) : shows(x.run, b)}}

\* listing, as of a run with results: the row of the run, else the one it was
\* last seen with if it is reported absent.
Detail(r, g) ==
  IF SnapshotsIn({r}, g) # {}
  THEN LET x == LatestIn(SnapshotsIn({r}, g)) IN [row |-> x, status |-> RowStatus(x)]
  ELSE IF Replayed(r, g) # None /\ SnapshotsIn(Through(r), g) # {}
  THEN [row |-> LatestIn(SnapshotsIn(Through(r), g)), status |-> Replayed(r, g).type]
  ELSE None

\* _latest_result: what the list of apartments and the dashboard start from.
LatestResult(s) == Latest(ResultRuns(s))

\* history: one point for each run with results
Point(r) ==
  LET count(types) == Cardinality({e \in events : e.run = r /\ e.type \in types})
  IN  [listed  |-> Cardinality({x \in snapshots : x.run = r}),
       added   |-> count({"new", "restored"}),
       removed |-> count({"removed"})]

-----------------------------------------------------------------------------
(* Properties                                                              *)

\* What an open save has read.
IsSave(x) ==
  /\ x = [at |-> x.at, baseline |-> x.baseline, compare |-> x.compare, loaded |-> x.loaded]
  /\ x.at \in {"compare", "load", "store"}
  /\ x.baseline \in BOOLEAN
  /\ x.compare \in RunIds \cup {None}

\* The tables hold what their columns say, and only runs that exist; a save is
\* open for a run that is active.
HistoryTypeOK ==
  /\ runs \in Seq([source : Sources, status : Statuses,
                   saved : {None, "completed", "partial"}, payload : AllPayloads])
  /\ complexOf \in [Sources -> Complexes \cup {None}]
  /\ articleGroup \in [Articles -> GroupKeys \cup {None}]
  /\ snapshots \subseteq {x \in SnapshotRows : x.run \in RunIds}
  /\ states \in [Sources -> [GroupKeys -> StateRows \cup {None}]]
  /\ events \subseteq {e \in EventRows : e.run \in RunIds}
  /\ prefs \in [Sources -> Preferences]
  /\ notifications \subseteq
       {n \in NotificationRows : n.run \in RunIds /\ n.compare \in RunIds \cup {None}}
  /\ crawls \in [Sources -> Seq([complete : BOOLEAN, seen : SUBSET GroupKeys])]
  /\ disturbances \in 0..MaxDisturbances
  /\ DOMAIN tx = Sources /\ \A s \in Sources : tx[s] # None =>
       Active(s) # {} /\ IsSave(tx[s])

\* No saved run of the source was overwritten by a cancel.
Intact(s) == \A r \in RunsOf(s) : runs[r].saved # None => runs[r].status = runs[r].saved

\* The crawls that were saved for a source and the state rows they leave
\* implement the promise of ListingWatch: a listing is missing after one
\* complete crawl in a row without it and removed after two, whatever partial,
\* failed and cancelled runs come between, whichever other source shares it.
Watch == INSTANCE ListingWatch WITH
  verdict <- [s \in Sources |-> [g \in GroupKeys |->
                IF states[s][g] = None THEN None ELSE states[s][g].state]]

WatchSpec == Watch!Spec

\* The state rows, which the next save starts from, and the events, from which
\* the API replays what is missing or removed, are written apart and agree as
\* of the last run of a source.
ReplayMatchesStates ==
  \A s \in Sources : ResultRuns(s) # {} /\ Intact(s) =>
    {<<a.group, a.status>> : a \in View(LatestResult(s)).absent} =
    {<<g, states[s][g].state>> :
       g \in {h \in GroupKeys : states[s][h] # None /\ states[s][h].state # "active"}}

\* As of a complete crawl every listing the source has ever shown can be
\* opened, listed or reported absent: none drops out of the history unexplained.
NothingVanishes ==
  \A s \in Sources : \A r \in SavedAs(s, "completed") : Intact(s) =>
    \A x \in snapshots : x.run \in Through(r) => Detail(r, x.group) # None

\* The history chart adds up: from one complete crawl to the next the number
\* of listings grows by what was added and shrinks by what went missing.
HistoryAddsUp ==
  \A s \in Sources : \A q, r \in SavedAs(s, "completed") :
    /\ Intact(s)
    /\ q < r
    /\ \A o \in ResultRuns(s) : ~(q < o /\ o < r)
    => Point(r).listed + Cardinality({e \in events : e.run = r /\ e.type = "missing"})
         = Point(q).listed + Point(r).added

\* What the API shows of a run, down to the registrations of a listing, is never
\* rewritten by what is saved later, for this source or another. (Nor can the
\* several statements of one request disagree about a run.)
HistoryIsKept ==
  [][\/ UNCHANGED <<crawls, snapshots, events>>
     \/ \A r \in RunIds :
          r \in ResultRuns(runs[r].source) /\ r \in ResultRuns(runs[r].source)' =>
            /\ View(r)' = View(r)
            /\ \A x \in snapshots : x.run = r => Registrations(x)' = Registrations(x)
    ]_vars

\* A notification opens the listing it speaks of, as of the run it is about and
\* with the status it announces.
NotificationOpens ==
  \A n \in notifications : Intact(n.source) =>
    /\ Detail(n.run, n.group) # None
    /\ Detail(n.run, n.group).status = IF n.type = "restored" THEN "active" ELSE n.type

\* Nobody is notified before the first complete crawl of a source. A notification
\* compares with the last complete crawl before it, even while a cancel overwrites
\* runs under an open save; it compares with none only if all of those crawls were
\* taken back.
ComparedWithLastComplete ==
  \A n \in notifications :
    /\ \E r \in RunsOf(n.source) : r < n.run /\ runs[r].saved = "completed"
    /\ n.compare # None =>
         /\ runs[n.compare].source = n.source
         /\ runs[n.compare].saved = "completed"
         /\ n.compare < n.run
    /\ \A r \in SavedAs(n.source, "completed") :
         r < n.run => n.compare # None /\ r <= n.compare

\* One article is one listing for every source: what a run stored of it stays
\* with the group it was stored under.
ArticleKeepsGroup ==
  \A x \in snapshots : \A a \in x.listing.articles : articleGroup[a] = x.group

\* A save in which no article appears twice does not take two of its listings
\* for one.
DistinctListingsAreSaved ==
  \A s \in Sources : \A r \in Active(s) :
    LET ls == runs[r].payload.listings
    IN  /\ Reading(s, "store")
        /\ \A i, j \in DOMAIN ls : i # j => ls[i].articles \cap ls[j].articles = {}
        => ~SameGroupTwice(GroupsOf(s, r, runs[r].payload))
-----------------------------------------------------------------------------
(* What the tables of a source have in common at all times                 *)

SavedRuns(s) == {r \in RunsOf(s) : runs[r].saved # None}
Heard(s, g)  == {e \in events : e.run \in RunsOf(s) /\ e.group = g}
Listed(r, g) == SnapshotsIn({r}, g) # {}
Heralds(r, types) == {e \in events : e.run = r /\ e.type \in types}

\* A source is at its newest run, which has not been saved; what a run says of
\* its result is what was saved.
RunsInOrder ==
  /\ \A s \in Sources : \A r \in Active(s) :
       runs[r].saved = None /\ \A q \in RunsOf(s) : q <= r
  /\ \A r \in RunIds : runs[r].status \in {"completed", "partial"} => runs[r].saved = runs[r].status

\* A source stays with one complex.
OneComplex == \A s \in Sources :
  /\ \A r \in SavedRuns(s) : runs[r].payload.complex = complexOf[s]
  /\ Reading(s, "store") =>
       \A r \in Active(s) : complexOf[s] \in {None, runs[r].payload.complex}

\* A saved run has one snapshot of each group it lists.
SnapshotsAreOfRuns ==
  /\ IsFiniteSet(snapshots)
  /\ \A x \in snapshots :
       /\ runs[x.run].saved # None
       /\ x.group.complex = runs[x.run].payload.complex
  /\ \A x, y \in snapshots : x.run = y.run /\ x.group = y.group => x = y

\* A saved run has at most one event of each group: that of its snapshot, or
\* that the group, which an earlier run of the source listed, is not there.
EventIsOfSnapshot(e) ==
  /\ runs[e.run].saved # None
  /\ IF e.type \in {"missing", "removed"}
     THEN /\ ~Listed(e.run, e.group)
          /\ \E q \in SavedRuns(runs[e.run].source) : q < e.run /\ Listed(q, e.group)
     ELSE \E x \in SnapshotsIn({e.run}, e.group) : x.status = e.type

EventsAreOfSnapshots ==
  /\ \A e, o \in events : e.run = o.run /\ e.group = o.group => e = o
  /\ \A e \in events : EventIsOfSnapshot(e)

\* A source has a state row for what it has ever shown, and the last event it
\* has of a listing says what the state row says.
CountedRows == {[state |-> "active", count |-> 0], [state |-> "missing", count |-> 1],
                [state |-> "removed", count |-> 2]}

StateFollowsEvents(s, g) ==
  /\ states[s][g] = None => SnapshotsIn(RunsOf(s), g) = {}
  /\ states[s][g] # None =>
       /\ SnapshotsIn(RunsOf(s), g) # {}
       /\ states[s][g] \in CountedRows
       /\ \E e \in Heard(s, g) :
            /\ \A o \in Heard(s, g) : o.run <= e.run
            /\ IF states[s][g].state = "active" THEN e.type \notin {"missing", "removed"}
               ELSE e.type = states[s][g].state

StatesFollowEvents == \A s \in Sources : \A g \in GroupKeys : StateFollowsEvents(s, g)

\* What the last saved run lists is active, and nothing else if it is complete.
LastRunIsActive == \A s \in Sources : \A r \in SavedRuns(s) :
  (\A q \in SavedRuns(s) : q <= r) =>
    \A g \in GroupKeys :
      /\ Listed(r, g) => states[s][g] = [state |-> "active", count |-> 0]
      /\ runs[r].saved = "completed" /\ ~Listed(r, g) =>
           states[s][g] = None \/ states[s][g].state # "active"

\* What a complete run does not list, and an earlier one did, was reported
\* missing or removed, and nothing has been heard of it since.
GoneIsReported == \A s \in Sources : \A r \in SavedRuns(s) :
  runs[r].saved = "completed" =>
    \A x \in snapshots : x.run \in RunsOf(s) /\ x.run <= r /\ ~Listed(r, x.group) =>
      \E e \in Heard(s, x.group) :
        /\ e.run <= r /\ e.type \in {"missing", "removed"}
        /\ \A o \in Heard(s, x.group) : o.run <= r => o.run <= e.run

\* Between two complete runs in a row what comes up is new or restored, and what
\* drops out is missing.
StepsAreReported == \A s \in Sources : \A q, r \in SavedRuns(s) :
  /\ runs[q].saved = "completed" /\ runs[r].saved = "completed" /\ q < r
  /\ \A o \in SavedRuns(s) : ~(q < o /\ o < r)
  => \A g \in GroupKeys :
       /\ (\E e \in Heralds(r, {"new", "restored"}) : e.group = g) <=> Listed(r, g) /\ ~Listed(q, g)
       /\ (\E e \in Heralds(r, {"missing"}) : e.group = g) <=> Listed(q, g) /\ ~Listed(r, g)

\* A notification is of an event of its source.
NotificationsAreOfEvents == \A n \in notifications :
  /\ n.run \in SavedRuns(n.source)
  /\ [run |-> n.run, group |-> n.group, type |-> n.type] \in events

\* An open save that may notify has seen a complete run of its source, and what it
\* has found to compare with was the last one when it looked: runs were only taken
\* back since.
SavesCompare == \A s \in Sources : tx[s] # None =>
  /\ ~tx[s].baseline => \E r \in SavedRuns(s) : runs[r].saved = "completed"
  /\ tx[s].compare # None =>
       tx[s].compare \in SavedRuns(s) /\ runs[tx[s].compare].saved = "completed"
  /\ tx[s].at # "compare" =>
       \A r \in SavedAs(s, "completed") : tx[s].compare # None /\ r <= tx[s].compare

\* The state rows are what the crawls of the source, judged by ListingWatch,
\* make of them.
StatesAreJudged == \A s \in Sources : \A g \in GroupKeys :
  LET c == crawls[s] IN
  IF states[s][g] = None THEN \A i \in DOMAIN c : g \notin c[i].seen
  ELSE /\ \E i \in DOMAIN c : g \in c[i].seen
       /\ states[s][g].count = IF Watch!Misses(c, g) < 2 THEN Watch!Misses(c, g) ELSE 2

\* The invariant that the proofs rest on: the tables have their types and agree
\* with one another, whatever order the sources save in.
HistoryInv ==
  /\ HistoryTypeOK
  /\ RunsInOrder
  /\ OneComplex
  /\ SnapshotsAreOfRuns
  /\ EventsAreOfSnapshots
  /\ StatesFollowEvents
  /\ LastRunIsActive
  /\ GoneIsReported
  /\ StepsAreReported
  /\ NotificationsAreOfEvents
  /\ SavesCompare
  /\ ComparedWithLastComplete
  /\ ArticleKeepsGroup
  /\ StatesAreJudged
=============================================================================
