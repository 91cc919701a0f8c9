------------------------------ MODULE Collector ------------------------------
(***************************************************************************)
(* The collection of a complex by PlaywrightNaverLandCollector: for each   *)
(* trade type it scans a list that scrolls, opens the card of every group, *)
(* reads the rows of its brokers, visits their articles and counts what it *)
(* has found.                                                              *)
(*                                                                         *)
(* The page lives on meanwhile. A list renders the cards of a window, and  *)
(* late: the waits for it to settle give up after half a second. Listings  *)
(* come, go and change their price. A card is a locator, the n-th card of  *)
(* the window: every await may find another card in that place. Whatever   *)
(* the code awaits may also raise: a timeout, a blocked page, a selector   *)
(* that does not match.                                                    *)
(*                                                                         *)
(* A card is what it is (id), what it looks like (face), the articles of   *)
(* its brokers and the number of brokers it displays. HTML, money and      *)
(* addresses are left out. Sampled scopes are those of the live check;     *)
(* the analysis runs collect in full, with or without details.             *)
(***************************************************************************)
EXTENDS Naturals, Sequences, FiniteSets, SequencesExt

CONSTANTS
  Trades,    \* the trade types, in the order of a scope
  Pages,     \* the lists a crawl may find: what each trade type lists
  NewCards,  \* the cards that may be inserted meanwhile
  Faces,     \* what cards look like
  Scopes,    \* the scopes of a crawl
  Window,    \* how many cards are rendered at a time
  Stride,    \* how far the list scrolls at a time
  MaxEdits,  \* bound on what happens to the lists during a crawl
  MostBrokers,  \* how many brokers a card has at most
  None

ASSUME NoneAssumption == None \notin Nat
ASSUME BrokersAssumption == MostBrokers \in Nat
ASSUME ScrollAssumption == {Window, Stride} \subseteq Nat \ {0}

VARIABLES
  lists,     \* the cards of each trade type, as the site has them
  edits,     \* how often they have changed since the crawl began
  tab,       \* the trade type that is listed
  top, view, \* where the list is scrolled to, and where it is rendered
  pc, scope,
  counts,    \* trade_counts: None of a trade type that the panel has not displayed
  turn,      \* how many trade types have been taken up
  seen, groups, passStart, latest,  \* of _scan_listing_groups
  cur,       \* the group that is being collected
  articles,  \* seen_article_ids
  listings, partial,                \* what goes into the payload
  atEnd      \* history: the list when its count was last read

site == <<lists, edits>>
screen == <<tab, top, view>>
scan == <<seen, groups, passStart, latest>>
payload == <<listings, partial>>
vars == <<site, screen, pc, scope, counts, turn, scan, cur, articles, payload, atEnd>>

TradeTypes == Range(Trades)
List == lists[tab]
Visible == SubSeq(List, view + 1, IF view + Window < Len(List) THEN view + Window ELSE Len(List))

\* How far a list can be scrolled.
End(list) == IF Len(list) > Window THEN Len(list) - Window ELSE 0

Brokers(card) == Range(card.brokers)

\* _card_key: the text without the brokers' rows, and the link of a single one.
Key(card) == <<card.face, IF card.grouped THEN None ELSE card.brokers[1]>>

IsFull == scope.limit = None /\ scope.expected = {}
ShouldScan == scope.limit # None => Len(groups) < scope.limit
ShouldVisit(a) == scope.expected = {} \/ a \in scope.expected

Running == pc \notin {"done", "failed"}

-----------------------------------------------------------------------------
Init ==
  /\ lists \in Pages
  /\ edits = 0
  /\ tab = Trades[1] /\ top = 0 /\ view = 0
  /\ pc = "panel"
  /\ scope \in Scopes
  /\ counts = [t \in TradeTypes |-> None]
  /\ turn = 0
  /\ seen = {} /\ groups = <<>> /\ passStart = 0 /\ latest = 0
  /\ cur = None
  /\ articles = {}
  /\ listings = <<>> /\ partial = FALSE
  /\ atEnd = [t \in TradeTypes |-> <<>>]

\* The panel displays how many listings each trade type has. It is taken as soon as
\* one of these counts is there: what is rendered later is not waited for.
ReadPanel ==
  /\ pc = "panel"
  /\ \E displayed \in SUBSET TradeTypes \ {{}} :
       counts' = [t \in TradeTypes |-> IF t \in displayed THEN Len(lists[t]) ELSE None]
  /\ pc' = "switch"
  /\ UNCHANGED <<site, screen, scope, turn, scan, cur, articles, payload, atEnd>>

\* A trade type without a count is one without listings, like one that displays 0.
IsListed(t) == counts[t] \notin {None, 0}

\* The next trade type that is listed: its first card must show up.
SwitchTradeType ==
  LET left == {i \in DOMAIN Trades : i > turn /\ IsListed(Trades[i])} IN
  /\ pc = "switch"
  /\ \E i \in left :
       /\ \A j \in left : i <= j
       /\ lists[Trades[i]] # <<>>
       /\ turn' = i
       /\ tab' = Trades[i]
       /\ latest' = counts[Trades[i]]
  /\ top' = 0 /\ view' = 0
  /\ seen' = {} /\ groups' = <<>> /\ passStart' = 0
  /\ pc' = "look"
  /\ UNCHANGED <<site, scope, counts, cur, articles, payload, atEnd>>

-----------------------------------------------------------------------------
(* A group                                                                 *)

Unseen == {i \in DOMAIN Visible : Key(Visible[i]) \notin seen}

\* The first visible card that has not been seen.
TakeCard ==
  /\ pc = "look" /\ ShouldScan
  /\ \E i \in Unseen :
       /\ \A j \in Unseen : i <= j
       /\ seen' = seen \cup {Key(Visible[i])}
       /\ cur' = [key |-> Key(Visible[i]), at |-> i, html |-> None, attached |-> 0,
                  rows |-> {}, todo |-> {}, found |-> <<>>, warned |-> FALSE]
  /\ pc' = "card"
  /\ UNCHANGED <<site, screen, scope, counts, turn, groups, passStart, latest, articles,
                 payload, atEnd>>

NothingToTake ==
  /\ pc = "look" /\ (~ShouldScan \/ Unseen = {})
  /\ pc' = IF ShouldScan THEN "scroll" ELSE "check"
  /\ UNCHANGED <<site, screen, scope, counts, turn, scan, cur, articles, payload, atEnd>>

\* The HTML of the card that is in that place now; a single one is its own row.
ReadCard ==
  /\ pc = "card" /\ cur.at \in DOMAIN Visible
  /\ LET card == Visible[cur.at] IN
     \/ /\ card.grouped
        /\ cur' = [cur EXCEPT !.html = card]
        /\ pc' = "rows"
     \/ /\ ~card.grouped
        /\ cur' = [cur EXCEPT !.html = card, !.rows = Brokers(card), !.todo = Brokers(card)]
        /\ pc' = "visit"
  /\ UNCHANGED <<site, screen, scope, counts, turn, scan, articles, payload, atEnd>>

\* The rows that are attached, by article (rows_by_article_id), until there are as
\* many as the card displays: each time more of them than before, or the wait for
\* the next one gives up. They are visited in the order they were read, here in
\* any order.
ReadRows ==
  /\ pc = "rows" /\ cur.at \in DOMAIN Visible
  /\ LET card == Visible[cur.at] IN
     /\ card.grouped
     /\ \E k \in cur.attached + 1 .. Len(card.brokers) :
          LET rows   == cur.rows \cup Range(SubSeq(card.brokers, 1, k))
              enough == cur.html.shown = None \/ Cardinality(rows) >= cur.html.shown
          IN /\ cur' = [cur EXCEPT !.attached = k, !.rows = rows, !.todo = rows]
             /\ pc' = IF enough THEN "visit" ELSE "rows"
  /\ UNCHANGED <<site, screen, scope, counts, turn, scan, articles, payload, atEnd>>

\* The rows of articles that are out of scope or have been collected before.
SkipArticle ==
  /\ pc = "visit"
  /\ \E a \in cur.todo :
       /\ ~ShouldVisit(a) \/ a \in articles
       /\ cur' = [cur EXCEPT !.todo = @ \ {a}]
  /\ UNCHANGED <<site, screen, pc, scope, counts, turn, scan, articles, payload, atEnd>>

\* _current_card_for_target: the link is on one of the cards there are now.
OnScreen(a) == \E i \in DOMAIN Visible : a \in Brokers(Visible[i])

\* mutant: seen_article_ids is kept for each group only
CollectArticleAnew ==
  /\ pc = "visit"
  /\ \E a \in cur.todo :
       /\ ShouldVisit(a) /\ a \notin Range(cur.found)
       /\ scope.details => OnScreen(a)
       /\ articles' = articles \cup {a}
       /\ cur' = [cur EXCEPT !.todo = @ \ {a}, !.found = Append(@, a)]
  /\ UNCHANGED <<site, screen, pc, scope, counts, turn, scan, payload, atEnd>>

\* _collect_slide_article with details, _minimal_broker_article without.
CollectArticle ==
  /\ pc = "visit"
  /\ \E a \in cur.todo :
       /\ ShouldVisit(a) /\ a \notin articles
       /\ scope.details => OnScreen(a)
       /\ articles' = articles \cup {a}
       /\ cur' = [cur EXCEPT !.todo = @ \ {a}, !.found = Append(@, a)]
  /\ UNCHANGED <<site, screen, pc, scope, counts, turn, scan, payload, atEnd>>

\* The slide was opened and closed again, but it cannot be parsed.
DetailParseFails ==
  /\ pc = "visit"
  /\ \E a \in cur.todo :
       /\ ShouldVisit(a) /\ a \notin articles
       /\ scope.details /\ OnScreen(a)
       /\ cur' = [cur EXCEPT !.todo = @ \ {a}, !.warned = TRUE]
  /\ UNCHANGED <<site, screen, pc, scope, counts, turn, scan, articles, payload, atEnd>>

\* A sampled crawl stops at the first group that has an expected article.
CloseGroup ==
  /\ pc = "visit" /\ cur.todo = {}
  /\ groups' = Append(groups,
       [card |-> cur.html, rows |-> cur.rows, articles |-> cur.found, warned |-> cur.warned])
  /\ cur' = None
  /\ pc' = IF scope.expected \cap cur.rows # {} THEN "check" ELSE "look"
  /\ UNCHANGED <<site, screen, scope, counts, turn, seen, passStart, latest, articles,
                 payload, atEnd>>

-----------------------------------------------------------------------------
(* Scrolling                                                               *)

Bottom == End(List)
Scrolled(n) == IF n < Bottom THEN n ELSE Bottom

ScrollOn ==
  /\ pc = "scroll" /\ top < Bottom
  /\ top' = Scrolled(top + Stride)
  /\ pc' = "settle"
  /\ UNCHANGED <<site, tab, view, scope, counts, turn, scan, cur, articles, payload, atEnd>>

\* mutant: the list is complete when its end has been reached
EndOfListReached ==
  /\ pc = "scroll" /\ top >= Bottom
  /\ latest' = Len(groups)
  /\ atEnd' = [atEnd EXCEPT ![tab] = List]
  /\ pc' = "check"
  /\ UNCHANGED <<site, screen, scope, counts, turn, seen, groups, passStart, cur, articles,
                 payload>>

\* mutant: a pass that found nothing is followed by another one
EndOfListPatient ==
  /\ pc = "scroll" /\ top >= Bottom
  /\ latest' = Len(List)
  /\ atEnd' = [atEnd EXCEPT ![tab] = List]
  /\ \/ /\ Len(groups) >= Len(List)
        /\ pc' = "check"
        /\ UNCHANGED <<passStart, top>>
     \/ /\ Len(groups) < Len(List)
        /\ passStart' = Len(groups)
        /\ top' = 0
        /\ pc' = "settle"
  /\ UNCHANGED <<site, tab, view, scope, counts, turn, seen, groups, cur, articles, payload>>

\* At the end: as many groups as are displayed, a pass that found nothing new,
\* or one more pass from the top.
EndOfList ==
  /\ pc = "scroll" /\ top >= Bottom
  /\ \/ /\ ~IsFull
        /\ pc' = "check"
        /\ UNCHANGED <<latest, passStart, top, atEnd>>
     \/ /\ IsFull
        /\ latest' = Len(List)
        /\ atEnd' = [atEnd EXCEPT ![tab] = List]
        /\ \/ /\ Len(groups) >= Len(List)
              /\ pc' = "check"
              /\ UNCHANGED <<passStart, top>>
           \/ /\ Len(groups) < Len(List) /\ Len(groups) = passStart
              /\ pc' = "failed"
              /\ UNCHANGED <<passStart, top>>
           \/ /\ Len(groups) < Len(List) /\ Len(groups) # passStart
              /\ passStart' = Len(groups)
              /\ top' = 0
              /\ pc' = "settle"
  /\ UNCHANGED <<site, tab, view, scope, counts, turn, seen, groups, cur, articles, payload>>

\* The wait for the list to settle is over, whether it has moved or not.
Settle ==
  /\ pc = "settle"
  /\ pc' = "look"
  /\ UNCHANGED <<site, screen, scope, counts, turn, scan, cur, articles, payload, atEnd>>

-----------------------------------------------------------------------------
(* The payload                                                             *)

ExpectedBrokers(g) == IF g.card.shown # None THEN g.card.shown ELSE Cardinality(g.rows)

\* mutant: a group is complete when every detail was read
CompleteUnlessWarned(g) == ~g.warned

Complete(g) == Len(g.articles) = ExpectedBrokers(g) /\ ~g.warned

CheckGroups ==
  /\ pc = "check"
  /\ counts' = [counts EXCEPT ![tab] = latest]
  /\ \/ /\ IsFull => Len(groups) >= latest /\ \A i \in DOMAIN groups : Complete(groups[i])
        /\ listings' = listings \o [i \in DOMAIN groups |-> [trade |-> tab, group |-> groups[i]]]
        /\ partial' = (partial \/ \E i \in DOMAIN groups : groups[i].warned)
        /\ pc' = "switch"
     \/ /\ IsFull
        /\ Len(groups) < latest \/ \E i \in DOMAIN groups : ~Complete(groups[i])
        /\ pc' = "failed"
        /\ UNCHANGED payload
  /\ UNCHANGED <<site, screen, scope, turn, scan, cur, articles, atEnd>>

Collected == UNION {Range(listings[i].group.articles) : i \in DOMAIN listings}

\* Every trade type has had its turn; what was expected and not found makes the
\* payload partial.
Finish ==
  /\ pc = "switch" /\ \A i \in DOMAIN Trades : i > turn => ~IsListed(Trades[i])
  /\ partial' = (partial \/ ~(scope.expected \subseteq Collected))
  /\ pc' = "done"
  /\ UNCHANGED <<site, screen, scope, counts, turn, scan, cur, articles, listings, atEnd>>

\* Whatever is awaited may raise, and every wait has a timeout.
Raise ==
  /\ Running
  /\ pc' = "failed"
  /\ UNCHANGED <<site, screen, scope, counts, turn, scan, cur, articles, payload, atEnd>>

-----------------------------------------------------------------------------
(* The page                                                                *)

\* The list catches up with its scroll bar.
Render ==
  /\ Running /\ view # top
  /\ view' = top
  /\ UNCHANGED <<site, tab, top, pc, scope, counts, turn, scan, cur, articles, payload, atEnd>>

\* A listing comes, goes, or changes its price; a list that gets shorter than
\* where it is scrolled to moves up.
Edited(t, list) ==
  /\ Running /\ edits < MaxEdits
  /\ lists' = [lists EXCEPT ![t] = list]
  /\ edits' = edits + 1
  /\ IF t = tab
     THEN /\ top' = IF top < End(list) THEN top ELSE End(list)
          /\ view' = IF view < End(list) THEN view ELSE End(list)
     ELSE UNCHANGED <<top, view>>
  /\ UNCHANGED <<tab, pc, scope, counts, turn, scan, cur, articles, payload, atEnd>>

ListingComes == \E t \in TradeTypes, card \in NewCards :
  /\ \A u \in TradeTypes : card \notin Range(lists[u])
  /\ \E i \in 1 .. Len(lists[t]) + 1 : Edited(t, InsertAt(lists[t], i, card))

ListingGoes == \E t \in TradeTypes : \E i \in DOMAIN lists[t] :
  Edited(t, RemoveAt(lists[t], i))

ListingChanges == \E t \in TradeTypes : \E i \in DOMAIN lists[t], face \in Faces :
  /\ face # lists[t][i].face
  /\ Edited(t, [lists[t] EXCEPT ![i].face = face])

-----------------------------------------------------------------------------
Collect ==
  \/ ReadPanel \/ SwitchTradeType
  \/ TakeCard \/ NothingToTake \/ ReadCard \/ ReadRows
  \/ SkipArticle \/ CollectArticle \/ DetailParseFails \/ CloseGroup
  \/ ScrollOn \/ EndOfList \/ Settle
  \/ CheckGroups \/ Finish
  \/ Raise

Page == Render \/ ListingComes \/ ListingGoes \/ ListingChanges

Next == Collect \/ Page

\* The collector goes on as long as it can: its waits are bounded, and its loops
\* must end by themselves.
Spec == Init /\ [][Next]_vars /\ WF_vars(Collect)

-----------------------------------------------------------------------------
(* Properties                                                              *)

InHand == {"card", "rows", "visit"}
Scanning == InHand \cup {"look", "scroll", "settle", "check"}

IsCard(card) ==
  /\ card = [id |-> card.id, face |-> card.face, grouped |-> card.grouped,
             brokers |-> card.brokers, shown |-> card.shown]
  /\ card.brokers \in Seq(Brokers(card)) /\ card.brokers # <<>>
  /\ IsInjective(card.brokers) /\ Len(card.brokers) <= MostBrokers
  /\ card.shown # 0

IsList(list) == list \in Seq(Range(list)) /\ \A i \in DOMAIN list : IsCard(list[i])

ASSUME PageAssumption ==
  /\ Trades \in Seq(TradeTypes) /\ Trades # <<>>
  /\ \A page \in Pages :
       page = [t \in TradeTypes |-> page[t]] /\ \A t \in TradeTypes : IsList(page[t])
  /\ \A card \in NewCards : IsCard(card)

\* The list is scrolled and rendered within its bounds, and a group is in hand
\* only while it is being collected: one was for every key that has been seen.
CollectorTypeOK ==
  /\ lists = [t \in TradeTypes |-> lists[t]] /\ \A t \in TradeTypes : IsList(lists[t])
  /\ edits \in Nat /\ tab \in TradeTypes
  /\ {top, view} \subseteq 0 .. Bottom
  /\ pc \in Scanning \cup {"panel", "switch", "done", "failed"}
  /\ turn \in 0 .. Len(Trades)
  /\ groups \in Seq(Range(groups)) /\ listings \in Seq(Range(listings))
  /\ IsFiniteSet(seen)
  /\ pc # "failed" => Cardinality(seen) = Len(groups) + (IF pc \in InHand THEN 1 ELSE 0)
  /\ pc \in InHand =>
       /\ cur = [key |-> cur.key, at |-> cur.at, html |-> cur.html, attached |-> cur.attached,
                 rows |-> cur.rows, todo |-> cur.todo, found |-> cur.found,
                 warned |-> cur.warned]
       /\ cur.key \in seen
       /\ cur.found \in Seq(cur.rows) /\ cur.todo \subseteq cur.rows
  /\ pc = "card" => cur.rows = {}
  /\ pc \notin InHand \cup {"failed"} => cur = None

\* No article is handed over twice, though cards share articles, come back with
\* another price or change places while they are read.
ArticlesOnce ==
  /\ \A i \in DOMAIN listings : IsInjective(listings[i].group.articles)
  /\ \A i, j \in DOMAIN listings : i # j =>
       Range(listings[i].group.articles) \cap Range(listings[j].group.articles) = {}

\* A completed payload has what its scope asked for: in a full one, every listing
\* has as many articles as it displays brokers; in a sampled one, what was
\* expected has been found and every detail was read.
CompletedIsComplete == ~partial =>
  /\ \A i \in DOMAIN listings : ~listings[i].group.warned
  /\ IsFull => \A i \in DOMAIN listings : Complete(listings[i].group)
  /\ scope.expected \subseteq Collected

\* Every card displays how many brokers it has, and the page has stood still.
Still == edits = 0 /\ \A t \in TradeTypes : \A card \in Range(lists[t]) :
  card.shown = Len(card.brokers)

Own(group) == Range(group.articles) = Brokers(group.card)

\* The articles of a full payload are, listing by listing, the brokers of the card,
\* if the page stood still. (One change suffices to leave a listing with the
\* brokers of another card: a card with a new price is taken once more, and the
\* next one, which it now looks like, moves into its place between the two reads.)
ArticlesAreItsOwn == IsFull /\ Still => \A i \in DOMAIN listings : Own(listings[i].group)

IsHandedOver(t, card) == \E i \in DOMAIN listings :
  listings[i].trade = t /\ listings[i].group.card = card

\* ... and there is a listing for every card of a trade type whose count the panel
\* displayed: a list that renders late, cards that look alike and cards that share
\* articles make the collection raise, not come back short. (A count that renders
\* late does not: its trade type is passed over, and the payload called completed.)
NothingIsMissed == IsFull /\ Still =>
  \A t \in TradeTypes : counts[t] # None =>
    \A card \in Range(lists[t]) : IsHandedOver(t, card)

\* What collect returns can be relied on.
PayloadIsSound == pc = "done" =>
  ArticlesOnce /\ CompletedIsComplete /\ ArticlesAreItsOwn /\ NothingIsMissed

\* The articles of a trade type that have been handed over, and those of a list.
HandedOver(t) == UNION {Range(listings[i].group.articles) :
  i \in {j \in DOMAIN listings : listings[j].trade = t}}
Offered(list) == UNION {Brokers(card) : card \in Range(list)}

\* The cards of the list, when its count was last read, without an article in the
\* payload; and the articles in the payload that the list did not have any more.
Missed(t) == {card \in Range(atEnd[t]) : Brokers(card) \cap HandedOver(t) = {}}
Outdated(t) == HandedOver(t) \ Offered(atEnd[t])

\* A full collection can miss a listing of a page that changes: it hands over as
\* many listings as are displayed at the end of the list. If each of those has one
\* broker, a listing is missed only where an article that has gone was handed over
\* in its place, and a change makes no more articles go than a card has brokers.
MissedAreOutweighed == pc = "done" /\ IsFull => \A t \in TradeTypes :
  /\ Cardinality(Outdated(t)) <= MostBrokers * edits
  /\ (\A card \in Range(atEnd[t]) : Len(card.brokers) = 1) =>
       Cardinality(Missed(t)) <= Cardinality(Outdated(t))

\* The scan ends, whatever the page does: every pass finds a group or is the last.
CollectEnds == <>(~Running)
-----------------------------------------------------------------------------
(* What holds at every step of a collection                                *)

Disjoint(g, h) == Range(g.articles) \cap Range(h.articles) = {}

\* An article belongs to one listing, one group or the one in hand.
ArticlesAreHeldOnce ==
  /\ ArticlesOnce
  /\ \A i \in DOMAIN listings : Range(listings[i].group.articles) \subseteq articles
  /\ \A i \in DOMAIN groups :
       IsInjective(groups[i].articles) /\ Range(groups[i].articles) \subseteq articles
  /\ \A i, j \in DOMAIN groups : i # j => Disjoint(groups[i], groups[j])
  /\ pc \in Scanning => \A i \in DOMAIN groups, j \in DOMAIN listings :
       Disjoint(groups[i], listings[j].group)
  /\ pc \in InHand =>
       /\ IsInjective(cur.found) /\ Range(cur.found) \subseteq articles
       /\ \A i \in DOMAIN groups : Range(cur.found) \cap Range(groups[i].articles) = {}
       /\ \A j \in DOMAIN listings : Range(cur.found) \cap Range(listings[j].group.articles) = {}

\* What has been handed over was checked.
ListingsAreChecked ==
  /\ ~partial => \A i \in DOMAIN listings : ~listings[i].group.warned
  /\ IsFull => \A i \in DOMAIN listings : Complete(listings[i].group)
  /\ pc = "done" /\ ~partial => scope.expected \subseteq Collected

\* The counts, where one was displayed, and the keys of a page that has stood still
\* are those of its cards.
CountsAreCurrent == edits = 0 =>
  /\ \A t \in TradeTypes : counts[t] \in {None, Len(lists[t])}
  /\ pc = "panel" => \A t \in TradeTypes : counts[t] = None
  /\ pc \in Scanning => latest = Len(List) /\ seen \subseteq {Key(card) : card \in Range(List)}

Alike == \E i, j \in DOMAIN List : i # j /\ Key(List[i]) = Key(List[j])

\* Another card that is on the screen and still to be taken has lost an article.
Robbed ==
  /\ pc \in InHand \cup {"look"} /\ view = top
  /\ \E i \in Unseen : Brokers(Visible[i]) \cap articles # {}

\* The one in hand has.
InHandRobbed ==
  /\ pc \in InHand /\ view = top /\ cur.at \in DOMAIN Visible
  /\ LET card == Visible[cur.at] IN
     /\ (Brokers(card) \cap articles) \ Range(cur.found) # {}
     /\ pc # "card" => cur.html = card /\ cur.rows \subseteq Brokers(card)

\* One of these, and the collection of a list cannot succeed any more: there are
\* more cards than keys, or a group that is not complete or will not be.
Doomed == Alike \/ Robbed \/ InHandRobbed \/ \E i \in DOMAIN groups : ~Complete(groups[i])

\* The rows are those of the card whose HTML was read, and perhaps those of the
\* card that the rendering has moved into its place.
RowsOfCard ==
  /\ cur.html \in Range(List) /\ Key(cur.html) = cur.key
  /\ Range(cur.found) \subseteq Brokers(cur.html)
  /\ cur.rows \subseteq Brokers(cur.html) \cup
       (IF cur.at \in DOMAIN Visible THEN Brokers(Visible[cur.at]) ELSE {})

\* The card had been moved already when its HTML was read.
RowsOfAnother ==
  /\ view = top /\ cur.at \in DOMAIN Visible
  /\ cur.html = Visible[cur.at] /\ Key(cur.html) \notin seen
  /\ cur.rows \subseteq Brokers(cur.html) /\ cur.found = <<>>

OnItsWay ==
  /\ \A i \in DOMAIN groups : groups[i].card \in Range(List) /\ Own(groups[i])
  /\ seen \subseteq {Key(groups[i].card) : i \in DOMAIN groups} \cup
       (IF pc \in InHand THEN {cur.key} ELSE {})
  /\ pc \in InHand =>
       /\ view # top => cur.at \in DOMAIN Visible /\ Key(Visible[cur.at]) = cur.key
       /\ pc = "card" /\ cur.at \in DOMAIN Visible =>
            Key(Visible[cur.at]) \in {cur.key} \cup ({Key(card) : card \in Range(List)} \ seen)
       /\ pc # "card" => RowsOfCard \/ RowsOfAnother

\* A page that stands still hands over the right articles, list after list, or it
\* will not hand over the one that is being scanned.
ListingsAreRight == IsFull /\ Still =>
  /\ \A i \in DOMAIN listings : Own(listings[i].group)
  /\ pc \in Scanning => Doomed \/ OnItsWay

\* Of the trade types whose count was displayed, those that have had their turn are
\* handed over as a whole, and those that never get one are empty.
TurnsAreWhole == IsFull /\ Still /\ pc # "failed" =>
  /\ pc = "panel" => turn = 0
  /\ pc \in Scanning => turn \in DOMAIN Trades /\ tab = Trades[turn]
  /\ \A k \in 1..turn : (pc \in Scanning => k # turn) /\ counts[Trades[k]] # None =>
       \A card \in Range(lists[Trades[k]]) : IsHandedOver(Trades[k], card)
  /\ pc = "done" => \A k \in DOMAIN Trades :
       k > turn /\ counts[Trades[k]] # None => lists[Trades[k]] = <<>>

\* A group has been read from a card that has brokers.
IsRead(group) == group.articles \in Seq(group.rows) /\ ExpectedBrokers(group) # 0

GroupsAreRead ==
  /\ pc \in {"rows", "visit"} => cur.html.shown # 0
  /\ pc \in InHand => cur.attached \in Nat /\ IsFiniteSet(cur.rows)
  /\ pc = "visit" => cur.rows # {}
  /\ \A i \in DOMAIN groups : IsRead(groups[i])
  /\ \A i \in DOMAIN listings : IsRead(listings[i].group)

\* As many listings are handed over as the list had at its end.
EndsAreMet ==
  /\ atEnd = [t \in TradeTypes |-> atEnd[t]] /\ \A t \in TradeTypes : IsList(atEnd[t])
  /\ IsFull /\ pc # "failed" =>
       /\ pc = "check" => latest = Len(atEnd[tab])
       /\ \A t \in TradeTypes : ~(pc \in Scanning /\ t = tab) =>
            Len(atEnd[t]) <= Cardinality({i \in DOMAIN listings : listings[i].trade = t})

\* What has been read of the trade type in turn, and of any: handed over, or may be.
OfGroups(gs) == UNION {Range(gs[i].articles) : i \in DOMAIN gs}
ReadOf == OfGroups(groups) \cup (IF pc \in InHand THEN cur.rows ELSE {})
Gathered(t) == HandedOver(t) \cup (IF pc \in Scanning /\ t = tab THEN ReadOf ELSE {})

IsFew(S) == IsFiniteSet(S) /\ Cardinality(S) <= MostBrokers * edits

\* Few of these articles have gone from the list since, and from the list that was
\* there at the end.
Ended(t) == pc \in Scanning /\ t = tab => pc = "check"

FewHaveGone ==
  /\ \A t \in TradeTypes : IsFew(Gathered(t) \ Offered(lists[t]))
  /\ IsFull /\ pc # "failed" =>
       \A t \in TradeTypes : Ended(t) => IsFew(Gathered(t) \ Offered(atEnd[t]))

CollectorInv ==
  /\ CollectorTypeOK
  /\ ArticlesAreHeldOnce
  /\ ListingsAreChecked
  /\ CountsAreCurrent
  /\ ListingsAreRight
  /\ TurnsAreWhole
  /\ GroupsAreRead
  /\ EndsAreMet
  /\ FewHaveGone
=============================================================================
