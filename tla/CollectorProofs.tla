-------------------------- MODULE CollectorProofs --------------------------
(***************************************************************************)
(* What a collection returns is sound, for every page, scope and window,   *)
(* however late the list is rendered and however often it changes: no      *)
(* article is handed over twice, a completed payload is complete, and the  *)
(* articles of a page that stood still are those of its cards. Of a page   *)
(* that changes it misses no more than has gone, where a card has one      *)
(* broker.                                                                 *)
(***************************************************************************)
EXTENDS Collector, FiniteSetTheorems, SequenceTheorems, TLAPS

-----------------------------------------------------------------------------
(* Lists and windows                                                       *)

LEMMA Listed ==
  ASSUME NEW list, IsList(list)
  PROVE  /\ Len(list) \in Nat /\ DOMAIN list = 1..Len(list)
         /\ \A i \in 1..Len(list) : list[i] \in Range(list) /\ IsCard(list[i])
BY LenProperties DEF IsList, Range

LEMMA ListOfCards ==
  ASSUME NEW S, NEW list \in Seq(S), \A i \in 1..Len(list) : IsCard(list[i])
  PROVE  IsList(list)
<1>1. list \in [1..Len(list) -> S] /\ Len(list) \in Nat /\ DOMAIN list = 1..Len(list)
  BY LenProperties
<1>2. list \in [1..Len(list) -> Range(list)]
  BY <1>1 DEF Range
<1>3. list \in Seq(Range(list))
  BY <1>1, <1>2, SeqDef
<1> QED BY <1>1, <1>3 DEF IsList

LEMMA ConcatOfCards ==
  ASSUME NEW a, IsList(a), NEW b, IsList(b)
  PROVE  IsList(a \o b)
<1> DEFINE S == Range(a) \cup Range(b)
<1>1. a \in Seq(S) /\ b \in Seq(S)
  BY SeqMonotonic DEF IsList
<1>2. /\ a \o b \in Seq(S) /\ Len(a \o b) = Len(a) + Len(b)
      /\ \A i \in 1..Len(a) + Len(b) : (a \o b)[i] = IF i <= Len(a) THEN a[i] ELSE b[i - Len(a)]
  BY <1>1, ConcatProperties
<1> HIDE DEF S
<1>3. \A i \in 1..Len(a \o b) : IsCard((a \o b)[i])
  <2> TAKE i \in 1..Len(a \o b)
  <2>1. CASE i <= Len(a)
    BY <1>2, <2>1, Listed
  <2>2. CASE ~(i <= Len(a))
    <3>1. i - Len(a) \in 1..Len(b)
      BY <1>2, <2>2, Listed
    <3> QED BY <1>2, <2>2, <3>1, Listed
  <2> QED BY <2>1, <2>2
<1> QED BY <1>2, <1>3, ListOfCards

LEMMA PartOfList ==
  ASSUME NEW list, IsList(list), NEW m \in Nat \ {0}, NEW n \in Int, n <= Len(list)
  PROVE  IsList(SubSeq(list, m, n))
<1>1. \A i \in m..n : i \in 1..Len(list)
  BY Listed
<1>2. \A i \in m..n : list[i] \in Range(list) /\ IsCard(list[i])
  BY <1>1, Listed
<1>3. /\ SubSeq(list, m, n) \in Seq(Range(list))
      /\ Len(SubSeq(list, m, n)) = IF m <= n THEN n - m + 1 ELSE 0
      /\ \A i \in 1..n - m + 1 : SubSeq(list, m, n)[i] = list[m + i - 1]
  BY <1>2, SubSeqProperties DEF Range
<1>4. \A i \in 1..Len(SubSeq(list, m, n)) : IsCard(SubSeq(list, m, n)[i])
  <2> TAKE i \in 1..Len(SubSeq(list, m, n))
  <2>1. i \in 1..n - m + 1 /\ m + i - 1 \in m..n
    BY <1>3
  <2> QED BY <1>2, <1>3, <2>1
<1> QED BY <1>3, <1>4, ListOfCards

\* A list stays one when a card comes, ...
LEMMA Inserted ==
  ASSUME NEW list, IsList(list), NEW card, IsCard(card), NEW i \in 1..Len(list) + 1
  PROVE  IsList(InsertAt(list, i, card))
<1>1. IsList(<<card>>)
  <2>1. <<card>> = Append(<<>>, card) /\ <<>> \in Seq({card})
    OBVIOUS
  <2>2. Append(<<>>, card) \in Seq({card}) /\ Len(Append(<<>>, card)) = 1
        /\ Append(<<>>, card)[1] = card
    OBVIOUS
  <2>3. \A k \in 1..Len(Append(<<>>, card)) : IsCard(Append(<<>>, card)[k])
    BY <2>2
  <2> QED BY <2>1, <2>2, <2>3, ListOfCards
<1>2. Len(list) \in Nat
  BY Listed
<1>3. IsList(SubSeq(list, 1, i - 1)) /\ IsList(SubSeq(list, i, Len(list)))
  BY <1>2, PartOfList
<1> QED BY <1>1, <1>3, ConcatOfCards DEF InsertAt

\* ... goes ...
LEMMA Removed ==
  ASSUME NEW list, IsList(list), NEW i \in 1..Len(list)
  PROVE  IsList(RemoveAt(list, i))
<1>2. Len(list) \in Nat
  BY Listed
<1>3. IsList(SubSeq(list, 1, i - 1)) /\ IsList(SubSeq(list, i + 1, Len(list)))
  BY <1>2, PartOfList
<1> QED BY <1>3, ConcatOfCards DEF RemoveAt

\* ... or looks different.
LEMMA Changed ==
  ASSUME NEW list, IsList(list), NEW i \in 1..Len(list), NEW face
  PROVE  IsList([list EXCEPT ![i].face = face])
<1> DEFINE new == [list[i] EXCEPT !.face = face]
           next == [list EXCEPT ![i] = new]
           S == Range(list) \cup {new}
<1>1. IsCard(new)
  <2>1. IsCard(list[i])
    BY Listed
  <2>2. new = [id |-> list[i].id, face |-> face, grouped |-> list[i].grouped,
               brokers |-> list[i].brokers, shown |-> list[i].shown]
    BY <2>1 DEF IsCard
  <2> HIDE DEF new
  <2> QED BY <2>1, <2>2 DEF IsCard, Brokers
<1> HIDE DEF new
<1>2. list \in Seq(S)
  BY SeqMonotonic DEF IsList
<1>3. /\ next \in Seq(S) /\ Len(next) = Len(list)
      /\ \A j \in 1..Len(list) : next[j] = IF j = i THEN new ELSE list[j]
  BY <1>2, ExceptSeq
<1>4. next = [list EXCEPT ![i].face = face]
  BY DEF new
<1> HIDE DEF next
<1>5. \A j \in 1..Len(next) : IsCard(next[j])
  BY <1>1, <1>3, Listed
<1> QED BY <1>3, <1>4, <1>5, ListOfCards

\* The n-th card on the screen is a card of the list.
LEMMA OnTheScreen ==
  ASSUME NEW list, IsList(list), NEW v \in Nat, NEW n,
         n = IF v + Window < Len(list) THEN v + Window ELSE Len(list),
         NEW shown, shown = SubSeq(list, v + 1, n)
  PROVE  \A i \in DOMAIN shown :
           i \in Nat /\ v + i \in 1..Len(list) /\ shown[i] = list[v + i]
<1> DEFINE m == v + 1
<1>1. Len(list) \in Nat /\ Window \in Nat
  BY Listed, ScrollAssumption
<1>2. n \in Nat /\ n <= Len(list) /\ n \in Int /\ m \in Nat \ {0} /\ m \in Int /\ m = v + 1
  BY <1>1
<1>3. shown = SubSeq(list, m, n)
  OBVIOUS
<1> HIDE DEF m
<1>4. IsList(shown)
  BY <1>2, <1>3, PartOfList
<1>5. \A i \in m .. n : i \in 1..Len(list)
  BY <1>1, <1>2
<1>6. \A i \in m .. n : list[i] \in Range(list)
  BY <1>5, Listed
<1>7. /\ Len(SubSeq(list, m, n)) = IF m <= n THEN n - m + 1 ELSE 0
      /\ \A i \in 1 .. n - m + 1 : SubSeq(list, m, n)[i] = list[m + i - 1]
  BY <1>2, <1>6, SubSeqProperties
<1> TAKE i \in DOMAIN shown
<1>8. i \in 1..Len(shown)
  BY <1>4, Listed
<1>9. i \in 1 .. n - m + 1
  <2>1. i \in 1..Len(SubSeq(list, m, n))
    BY <1>3, <1>8
  <2>2. CASE m <= n
    BY <1>2, <1>7, <2>1, <2>2
  <2>3. CASE ~(m <= n)
    BY <1>2, <1>7, <2>1, <2>3
  <2> QED BY <2>2, <2>3
<1>10. m + i - 1 = v + i /\ i \in Nat /\ v + i \in 1..Len(list)
  BY <1>1, <1>2, <1>9
<1> QED BY <1>3, <1>7, <1>9, <1>10

\* A sequence that grows by one keeps what it has.
LEMMA Grown ==
  ASSUME NEW s, s \in Seq(Range(s)), NEW x
  PROVE  /\ Append(s, x) \in Seq(Range(Append(s, x)))
         /\ Len(s) \in Nat /\ DOMAIN s = 1..Len(s)
         /\ Len(Append(s, x)) = Len(s) + 1 /\ DOMAIN Append(s, x) = 1..Len(s) + 1
         /\ \A i \in 1..Len(s) : Append(s, x)[i] = s[i]
         /\ Append(s, x)[Len(s) + 1] = x
         /\ Range(Append(s, x)) = Range(s) \cup {x}
<1> DEFINE S == Range(s) \cup {x}
           t == Append(s, x)
<1>1. s \in Seq(S)
  BY SeqMonotonic
<1> HIDE DEF S
<1>2. /\ t \in Seq(S) /\ Len(t) = Len(s) + 1 /\ t[Len(s) + 1] = x
      /\ \A i \in 1..Len(s) : t[i] = s[i]
      /\ Len(s) \in Nat /\ DOMAIN s = 1..Len(s)
  <2>1. x \in S
    BY DEF S
  <2> QED BY <1>1, <2>1
<1> HIDE DEF t
<1>3. t \in [1..Len(t) -> S] /\ DOMAIN t = 1..Len(t)
  BY <1>2, LenProperties
<1>4. t \in [1..Len(t) -> Range(t)]
  BY <1>3 DEF Range
<1>5. t \in Seq(Range(t))
  BY <1>2, <1>4, SeqDef
<1>6. Range(t) = Range(s) \cup {x}
  BY <1>2, <1>3 DEF Range
<1> QED BY <1>2, <1>3, <1>5, <1>6 DEF t

\* As many different brokers as there are: all of them.
LEMMA AllOrSomeMissing ==
  ASSUME NEW card, IsCard(card), NEW s \in Seq(Brokers(card)), IsInjective(s),
         Len(s) = Len(card.brokers)
  PROVE  Range(s) = Brokers(card)
<1> DEFINE n == Len(s)
           B == Brokers(card)
<1>1. /\ n \in Nat /\ s \in [1..n -> B] /\ DOMAIN s = 1..n
      /\ card.brokers \in [1..n -> B] /\ DOMAIN card.brokers = 1..n
  BY LenProperties DEF IsCard
<1>2. card.brokers \in Bijection(1..n, B)
  BY <1>1 DEF IsCard, Bijection, Injection, Surjection, IsInjective, Brokers, Range
<1> HIDE DEF n, B
<1>3. ExistsBijection(1..n, B)
  BY <1>2 DEF ExistsBijection
<1>4a. IsFiniteSet(1..n) /\ Cardinality(1..n) = n
  BY <1>1, FS_Interval
<1>4. IsFiniteSet(B) /\ Cardinality(B) = n
  BY <1>3, <1>4a, FS_Bijection
<1>5. s \in Injection(1..n, B)
  BY <1>1 DEF Injection, IsInjective
<1>6. s \in Surjection(1..n, B)
  BY <1>4a, <1>4, <1>5, FS_Injection
<1> QED BY <1>1, <1>6 DEF B, Surjection, Range

-----------------------------------------------------------------------------
(* Types                                                                   *)

LEMMA CollectorInit == Init => CollectorInv
<1> SUFFICES ASSUME Init PROVE CollectorInv
  OBVIOUS
<1>1. Len(Trades) \in Nat \ {0} /\ DOMAIN Trades = 1..Len(Trades)
  BY PageAssumption, EmptySeq, LenProperties
<1>2. tab \in TradeTypes
  BY <1>1 DEF Init, TradeTypes, Range
<1>3. \A t \in TradeTypes : IsList(lists[t])
  BY PageAssumption DEF Init
<1>4. lists = [t \in TradeTypes |-> lists[t]]
  BY PageAssumption DEF Init
<1>5. Bottom \in Nat
  BY <1>2, <1>3, Listed, ScrollAssumption DEF Bottom, End, List
<1>6. CollectorTypeOK
  BY <1>1, <1>2, <1>3, <1>4, <1>5, FS_EmptySet DEF Init, CollectorTypeOK, Scanning, InHand
<1>7. ArticlesAreHeldOnce /\ ListingsAreChecked /\ CountsAreCurrent /\ ListingsAreRight
      /\ TurnsAreWhole
  BY DEF TurnsAreWhole, Init, ArticlesAreHeldOnce, ArticlesOnce, ListingsAreChecked, CountsAreCurrent,
    ListingsAreRight, Scanning, InHand
<1>8. /\ atEnd = [t \in TradeTypes |-> atEnd[t]] /\ \A t \in TradeTypes : atEnd[t] = <<>>
      /\ groups = <<>> /\ listings = <<>> /\ pc = "panel" /\ edits = 0
      /\ pc \notin Scanning /\ pc \notin InHand
  BY DEF Init, Scanning, InHand
<1>9. /\ IsList(<<>>) /\ Len(<<>>) = 0 /\ DOMAIN groups = {} /\ DOMAIN listings = {}
      /\ IsFiniteSet({}) /\ Cardinality({}) = 0
  <2>1. <<>> \in Seq(Range(<<>>)) /\ Len(<<>>) = 0 /\ 1..0 = {}
    BY EmptySeq
  <2> QED BY <1>8, <2>1, FS_EmptySet DEF IsList
<1>10. GroupsAreRead
  BY <1>8, <1>9 DEF GroupsAreRead, InHand
<1>11. EndsAreMet
  BY <1>8, <1>9 DEF EndsAreMet
<1>12. FewHaveGone
  <2>1. \A t : Gathered(t) = {}
    BY <1>8, <1>9 DEF Gathered, HandedOver
  <2>2. IsFew({})
    BY <1>8, <1>9, BrokersAssumption DEF IsFew
  <2>3. \A t : Gathered(t) \ Offered(lists[t]) = {} /\ Gathered(t) \ Offered(atEnd[t]) = {}
    BY <2>1
  <2> QED BY <2>2, <2>3 DEF FewHaveGone
<1> QED BY <1>6, <1>7, <1>10, <1>11, <1>12 DEF CollectorInv

\* The page as the types have it.
LEMMA ThePage ==
  ASSUME CollectorTypeOK
  PROVE  /\ IsList(List) /\ Len(List) \in Nat /\ DOMAIN List = 1..Len(List)
         /\ Bottom \in Nat /\ top \in Nat /\ view \in Nat /\ top <= Bottom /\ view <= Bottom
         /\ \A i \in DOMAIN Visible :
              i \in Nat /\ view + i \in 1..Len(List) /\ Visible[i] = List[view + i]
              /\ Visible[i] \in Range(List) /\ IsCard(Visible[i])
<1>1. IsList(List)
  BY DEF CollectorTypeOK, List
<1>2. Len(List) \in Nat /\ DOMAIN List = 1..Len(List)
  BY <1>1, Listed
<1>3. Bottom \in Nat
  BY <1>2, ScrollAssumption DEF Bottom, End
<1>4. top \in Nat /\ view \in Nat /\ top <= Bottom /\ view <= Bottom
  BY <1>3 DEF CollectorTypeOK
<1>5. \A i \in DOMAIN Visible :
        i \in Nat /\ view + i \in 1..Len(List) /\ Visible[i] = List[view + i]
  <2> DEFINE n == IF view + Window < Len(List) THEN view + Window ELSE Len(List)
  <2>1. Visible = SubSeq(List, view + 1, n)
    BY DEF Visible
  <2>2. n = IF view + Window < Len(List) THEN view + Window ELSE Len(List)
    OBVIOUS
  <2>3. view \in Nat
    BY <1>4
  <2> HIDE DEF n
  <2> QED BY ONLY <1>1, <2>1, <2>2, <2>3, OnTheScreen
<1>6. \A i \in DOMAIN Visible : Visible[i] \in Range(List) /\ IsCard(Visible[i])
  BY <1>1, <1>5, Listed
<1> QED BY <1>1, <1>2, <1>3, <1>4, <1>5, <1>6

\* What CheckGroups hands over (all) comes after what has been handed over before.
Handed(l, g, t, all) ==
  /\ all \in Seq(Range(all))
  /\ Len(l) \in Nat /\ DOMAIN l = 1..Len(l)
  /\ \A i \in DOMAIN l : i \in DOMAIN all /\ all[i] = l[i]
  /\ \A i \in DOMAIN all : i \notin DOMAIN l =>
       i - Len(l) \in DOMAIN g /\ all[i].group = g[i - Len(l)] /\ all[i].trade = t
  /\ \A k \in DOMAIN g : Len(l) + k \in DOMAIN all /\ all[Len(l) + k].trade = t
  /\ \A k \in DOMAIN g : \E i \in DOMAIN all : all[i].trade = t /\ all[i].group = g[k]

LEMMA WhatIsHandedOver ==
  ASSUME NEW l, l \in Seq(Range(l)), NEW g, g \in Seq(Range(g)),
         NEW t, NEW new, new \in [DOMAIN g -> Range(new)],
         \A i \in DOMAIN g : new[i].group = g[i] /\ new[i].trade = t,
         NEW all, all = l \o new
  PROVE  Handed(l, g, t, all)
<1> DEFINE S == Range(l) \cup Range(new)
<1>1. Len(l) \in Nat /\ Len(g) \in Nat /\ DOMAIN l = 1..Len(l) /\ DOMAIN g = 1..Len(g)
  BY LenProperties
<1>2. /\ DOMAIN new = 1..Len(g) /\ new \in [1..Len(g) -> Range(new)]
      /\ \A i \in 1..Len(g) : new[i].group = g[i] /\ new[i].trade = t
  BY <1>1 DEF Range
<1>3. new \in Seq(Range(new))
  BY ONLY <1>1, <1>2, SeqDef
<1>4. l \in Seq(S) /\ new \in Seq(S)
  BY <1>3, SeqMonotonic
<1>5. Len(new) = Len(g)
  BY <1>1, <1>2, <1>3, LenProperties
<1> HIDE DEF S
<1>6. /\ l \o new \in Seq(S) /\ Len(l \o new) = Len(l) + Len(new)
      /\ \A i \in 1..Len(l) + Len(new) :
           (l \o new)[i] = IF i <= Len(l) THEN l[i] ELSE new[i - Len(l)]
  BY <1>4, ConcatProperties
<1>7. all = l \o new
  OBVIOUS
<1>8. /\ all \in [1..Len(all) -> S] /\ DOMAIN all = 1..Len(all) /\ Len(all) = Len(l) + Len(g)
      /\ Len(all) \in Nat
  BY <1>1, <1>5, <1>6, <1>7, LenProperties
<1>9. all \in Seq(Range(all))
  <2>1. all \in [1..Len(all) -> Range(all)]
    BY ONLY <1>8 DEF Range
  <2> QED BY ONLY <1>8, <2>1, SeqDef
<1>10. \A i \in 1..Len(l) : all[i] = l[i]
  BY <1>1, <1>5, <1>6, <1>7
<1>11. \A i \in DOMAIN all : i \notin 1..Len(l) =>
         i - Len(l) \in DOMAIN g /\ all[i].group = g[i - Len(l)] /\ all[i].trade = t
  <2> SUFFICES ASSUME NEW i \in DOMAIN all, i \notin 1..Len(l)
               PROVE  i - Len(l) \in DOMAIN g /\ all[i].group = g[i - Len(l)] /\ all[i].trade = t
    OBVIOUS
  <2>1. i - Len(l) \in 1..Len(g) /\ ~(i <= Len(l)) /\ i \in 1..Len(l) + Len(new)
    BY <1>1, <1>5, <1>8
  <2>2. all[i] = new[i - Len(l)]
    BY <1>6, <1>7, <2>1
  <2> QED BY <1>1, <1>2, <2>1, <2>2
<1>12. \A k \in DOMAIN g :
         Len(l) + k \in DOMAIN all /\ all[Len(l) + k].trade = t /\ all[Len(l) + k].group = g[k]
  <2> SUFFICES ASSUME NEW k \in DOMAIN g
               PROVE  /\ Len(l) + k \in DOMAIN all
                      /\ all[Len(l) + k].trade = t /\ all[Len(l) + k].group = g[k]
    OBVIOUS
  <2>1. k \in 1..Len(g) /\ Len(l) + k \in 1..Len(l) + Len(new) /\ ~(Len(l) + k <= Len(l))
        /\ Len(l) + k - Len(l) = k
    BY <1>1, <1>5
  <2>2. all[Len(l) + k] = new[k]
    BY <1>6, <1>7, <2>1
  <2>3. Len(l) + k \in DOMAIN all
    BY <1>5, <1>8, <2>1
  <2>4. new[k].group = g[k] /\ new[k].trade = t
    BY <1>2, <2>1
  <2> QED BY ONLY <2>2, <2>3, <2>4
<1>13. \A k \in DOMAIN g : \E i \in DOMAIN all : all[i].trade = t /\ all[i].group = g[k]
  <2> TAKE k \in DOMAIN g
  <2> WITNESS Len(l) + k \in DOMAIN all
  <2> QED BY <1>12
<1>14. \A k \in DOMAIN g : Len(l) + k \in DOMAIN all /\ all[Len(l) + k].trade = t
  BY <1>12
<1> QED BY ONLY <1>1, <1>8, <1>9, <1>10, <1>11, <1>13, <1>14 DEF Handed

HandsOver == Handed(listings, groups, tab, listings')

LEMMA ChecksHandOver ==
  ASSUME CollectorTypeOK, CheckGroups
  PROVE  \/ UNCHANGED payload /\ pc' = "failed"
         \/ HandsOver /\ pc' = "switch"
              /\ (IsFull => Len(groups) >= latest /\ \A i \in DOMAIN groups : Complete(groups[i]))
<1> DEFINE new == [i \in DOMAIN groups |-> [trade |-> tab, group |-> groups[i]]]
<1>1. \/ UNCHANGED payload /\ pc' = "failed"
      \/ listings' = listings \o new /\ pc' = "switch"
           /\ (IsFull => Len(groups) >= latest /\ \A i \in DOMAIN groups : Complete(groups[i]))
  BY DEF CheckGroups
<1>2. /\ new \in [DOMAIN groups -> Range(new)]
      /\ \A i \in DOMAIN groups : new[i].group = groups[i] /\ new[i].trade = tab
  BY DEF Range
<1>3. listings \in Seq(Range(listings)) /\ groups \in Seq(Range(groups))
  BY DEF CollectorTypeOK
<1> HIDE DEF new
<1>4. ASSUME listings' = listings \o new PROVE HandsOver
  BY <1>2, <1>3, <1>4, WhatIsHandedOver DEF HandsOver
<1> QED BY <1>1, <1>4

\* The collector does not move the site, nor does it leave what has been rendered.
ListStays == lists' = lists /\ tab' = tab /\ List' = List /\ Bottom' = Bottom

LEMMA SameList == UNCHANGED <<lists, tab>> => ListStays
BY DEF ListStays, List, Bottom

LEMMA TypeOfScan ==
  ASSUME CollectorTypeOK,
         ReadPanel \/ NothingToTake \/ ScrollOn \/ EndOfList \/ Settle \/ CheckGroups \/ Finish
  PROVE  CollectorTypeOK'
<1>1. ListStays /\ edits' = edits /\ turn' = turn /\ seen' = seen /\ groups' = groups
      /\ cur' = cur
  BY SameList DEF ReadPanel, NothingToTake, ScrollOn, EndOfList, Settle, CheckGroups, Finish,
    scan, site, screen
<1>2. view' = view /\ top' \in {top, 0, Scrolled(top + Stride)}
  BY DEF ReadPanel, NothingToTake, ScrollOn, EndOfList, Settle, CheckGroups, Finish, screen
<1>3. {top', view'} \subseteq 0..Bottom'
  <2>1. Scrolled(top + Stride) \in 0..Bottom
    BY ThePage, ScrollAssumption DEF Scrolled
  <2> QED BY <1>1, <1>2, <2>1, ThePage DEF ListStays
<1>4. pc \notin InHand \cup {"failed"}
      /\ pc' \in (Scanning \ InHand) \cup {"panel", "switch", "done", "failed"}
  BY DEF ReadPanel, NothingToTake, ScrollOn, EndOfList, Settle, CheckGroups, Finish,
    InHand, Scanning
<1>5. listings' \in Seq(Range(listings'))
  <2>1. CASE UNCHANGED listings
    BY <2>1 DEF CollectorTypeOK
  <2>2. CASE CheckGroups
    BY <2>2, ChecksHandOver DEF CollectorTypeOK, HandsOver, Handed, payload
  <2> QED BY <2>1, <2>2
        DEF ReadPanel, NothingToTake, ScrollOn, EndOfList, Settle, Finish, payload
<1> QED BY <1>1, <1>3, <1>4, <1>5 DEF CollectorTypeOK, ListStays, InHand, Scanning

LEMMA TypeOfSwitch ==
  ASSUME CollectorTypeOK, SwitchTradeType
  PROVE  CollectorTypeOK'
<1>1. UNCHANGED <<lists, edits, cur, listings>> /\ top' = 0 /\ view' = 0 /\ seen' = {}
      /\ groups' = <<>> /\ pc = "switch" /\ pc' = "look"
  BY DEF SwitchTradeType, site, payload
<1>2. turn' \in DOMAIN Trades /\ tab' = Trades[turn']
  BY DEF SwitchTradeType
<1>3. DOMAIN Trades = 1..Len(Trades) /\ Len(Trades) \in Nat
  BY PageAssumption, LenProperties
<1>4. tab' \in TradeTypes
  BY <1>2 DEF TradeTypes, Range
<1>5. IsList(List')
  BY <1>1, <1>4 DEF CollectorTypeOK, List
<1>6. Bottom' \in Nat
  BY <1>5, Listed, ScrollAssumption DEF Bottom, End
<1>7. <<>> \in Seq(Range(<<>>)) /\ Len(<<>>) = 0
  BY EmptySeq
<1> QED BY <1>1, <1>2, <1>3, <1>4, <1>6, <1>7, FS_EmptySet
        DEF CollectorTypeOK, InHand, Scanning

LEMMA TypeOfTake ==
  ASSUME CollectorTypeOK, TakeCard
  PROVE  CollectorTypeOK'
<1>1. UNCHANGED <<lists, edits, tab, top, view, turn, groups, listings>>
      /\ pc = "look" /\ pc' = "card"
  BY DEF TakeCard, site, screen, payload
<1>2. PICK i \in Unseen :
        /\ seen' = seen \cup {Key(Visible[i])}
        /\ cur' = [key |-> Key(Visible[i]), at |-> i, html |-> None, attached |-> 0,
                   rows |-> {}, todo |-> {}, found |-> <<>>, warned |-> FALSE]
  BY DEF TakeCard
<1>3. Key(Visible[i]) \notin seen
  BY DEF Unseen
<1>4. IsFiniteSet(seen') /\ Cardinality(seen') = Cardinality(seen) + 1
  BY <1>2, <1>3, FS_AddElement DEF CollectorTypeOK
<1>5. Cardinality(seen) = Len(groups) /\ Len(groups) \in Nat
  BY <1>1, FS_CardinalityType DEF CollectorTypeOK, InHand
<1>6. ListStays
  BY <1>1, SameList
<1> HIDE DEF Key
<1>7. <<>> \in Seq({})
  OBVIOUS
<1> QED BY <1>1, <1>2, <1>4, <1>5, <1>6, <1>7 DEF CollectorTypeOK, InHand, Scanning, ListStays

Handling == ReadCard \/ ReadRows \/ SkipArticle \/ CollectArticle \/ DetailParseFails

LEMMA TypeOfHandling ==
  ASSUME CollectorTypeOK, Handling
  PROVE  CollectorTypeOK'
<1>1. UNCHANGED <<lists, edits, tab, top, view, turn, seen, groups, listings>>
      /\ pc \in InHand /\ pc' \in InHand \ {"card"}
  BY DEF Handling, ReadCard, ReadRows, SkipArticle, CollectArticle, DetailParseFails, site,
    screen, scan, payload, InHand
<1>2. ListStays
  BY <1>1, SameList
<1>3. cur.found \in Seq(cur.rows) /\ cur.todo \subseteq cur.rows /\ cur.key \in seen
  BY <1>1 DEF CollectorTypeOK
<1>4. cur = [key |-> cur.key, at |-> cur.at, html |-> cur.html, attached |-> cur.attached,
             rows |-> cur.rows, todo |-> cur.todo, found |-> cur.found, warned |-> cur.warned]
  BY <1>1 DEF CollectorTypeOK
<1>5. /\ cur' = [key |-> cur'.key, at |-> cur'.at, html |-> cur'.html,
                 attached |-> cur'.attached, rows |-> cur'.rows, todo |-> cur'.todo,
                 found |-> cur'.found, warned |-> cur'.warned]
      /\ cur'.key = cur.key
      /\ cur'.found \in Seq(cur'.rows) /\ cur'.todo \subseteq cur'.rows
  <2>1. CASE ReadCard
    <3>1. cur.rows = {}
      BY <2>1 DEF ReadCard, CollectorTypeOK
    <3>2. cur.found \in Seq(Brokers(Visible[cur.at]))
      BY <1>3, <3>1, SeqMonotonic
    <3> QED BY <1>3, <1>4, <2>1, <3>1, <3>2 DEF ReadCard
  <2>2. CASE ReadRows
    <3>1. PICK k : LET rows == cur.rows \cup Range(SubSeq(Visible[cur.at].brokers, 1, k)) IN
                   cur' = [cur EXCEPT !.attached = k, !.rows = rows, !.todo = rows]
      BY <2>2 DEF ReadRows
    <3> DEFINE rows == cur.rows \cup Range(SubSeq(Visible[cur.at].brokers, 1, k))
    <3>2. cur.rows \subseteq rows /\ cur' = [cur EXCEPT !.attached = k, !.rows = rows, !.todo = rows]
      BY <3>1
    <3> HIDE DEF rows
    <3>3. cur.found \in Seq(rows)
      BY <1>3, <3>2, SeqMonotonic
    <3> QED BY <1>4, <3>2, <3>3
  <2>3. CASE SkipArticle
    BY <1>3, <1>4, <2>3 DEF SkipArticle
  <2>4. CASE CollectArticle
    <3>1. PICK a \in cur.todo : cur' = [cur EXCEPT !.todo = @ \ {a}, !.found = Append(@, a)]
      BY <2>4 DEF CollectArticle
    <3>2. Append(cur.found, a) \in Seq(cur.rows)
      <4> DEFINE S == cur.rows
                 f == cur.found
      <4>1. f \in Seq(S) /\ a \in S
        BY <1>3, <3>1
      <4> HIDE DEF S, f
      <4>2. Append(f, a) \in Seq(S)
        BY <4>1
      <4> QED BY <4>2 DEF S, f
    <3> QED BY <1>3, <1>4, <3>1, <3>2
  <2>5. CASE DetailParseFails
    BY <1>3, <1>4, <2>5 DEF DetailParseFails
  <2> QED BY <2>1, <2>2, <2>3, <2>4, <2>5 DEF Handling
<1> QED BY <1>1, <1>2, <1>3, <1>5 DEF CollectorTypeOK, ListStays, InHand, Scanning

LEMMA TypeOfClose ==
  ASSUME CollectorTypeOK, CloseGroup
  PROVE  CollectorTypeOK'
<1>1. UNCHANGED <<lists, edits, tab, top, view, turn, seen, listings>> /\ cur' = None
      /\ pc = "visit" /\ pc' \in {"check", "look"}
  BY DEF CloseGroup, site, screen, payload
<1>2. ListStays
  BY <1>1, SameList
<1>3. PICK g : groups' = Append(groups, g)
  BY DEF CloseGroup
<1>4. groups' \in Seq(Range(groups')) /\ Len(groups') = Len(groups) + 1
  BY <1>3, Grown DEF CollectorTypeOK
<1>5. Cardinality(seen) = Len(groups) + 1
  BY <1>1 DEF CollectorTypeOK, InHand
<1> QED BY <1>1, <1>2, <1>4, <1>5 DEF CollectorTypeOK, ListStays, InHand, Scanning

LEMMA TypeOfRaise ==
  ASSUME CollectorTypeOK, Raise
  PROVE  CollectorTypeOK'
BY SameList DEF CollectorTypeOK, Raise, ListStays, InHand, Scanning, site, screen, scan, payload

LEMMA TypeOfRender ==
  ASSUME CollectorTypeOK, Render
  PROVE  CollectorTypeOK'
BY SameList DEF CollectorTypeOK, Render, ListStays, InHand, Scanning, site, scan, payload

LEMMA TypeOfEdit ==
  ASSUME CollectorTypeOK, NEW t \in TradeTypes, NEW list, IsList(list), Edited(t, list)
  PROVE  CollectorTypeOK'
<1> DEFINE last == End(list)
<1>1. /\ UNCHANGED <<tab, pc, turn, seen, groups, cur, listings>>
      /\ lists' = [lists EXCEPT ![t] = list] /\ edits' = edits + 1
      /\ IF t = tab
         THEN /\ top' = IF top < last THEN top ELSE last
              /\ view' = IF view < last THEN view ELSE last
         ELSE UNCHANGED <<top, view>>
  BY DEF Edited, scan, payload
<1>2. /\ lists' = [u \in TradeTypes |-> lists'[u]]
      /\ \A u \in TradeTypes : lists'[u] = IF u = t THEN list ELSE lists[u]
  BY <1>1 DEF CollectorTypeOK
<1>3. \A u \in TradeTypes : IsList(lists'[u])
  BY <1>2 DEF CollectorTypeOK
<1>4. tab \in TradeTypes /\ edits \in Nat
  BY DEF CollectorTypeOK
<1>5. top \in Nat /\ view \in Nat /\ top <= Bottom /\ view <= Bottom
  BY ThePage
<1>6. {top', view'} \subseteq 0..Bottom'
  <2>1. CASE t = tab
    <3>1. Bottom' = last /\ last \in Nat
      BY <1>1, <1>2, <1>4, <2>1, Listed, ScrollAssumption DEF Bottom, End, List
    <3> HIDE DEF last
    <3> QED BY <1>1, <1>5, <2>1, <3>1
  <2>2. CASE t # tab
    <3>1. Bottom' = Bottom
      BY <1>1, <1>2, <1>4, <2>2 DEF Bottom, List
    <3> QED BY <1>1, <1>5, <2>2, <3>1, ThePage
  <2> QED BY <2>1, <2>2
<1> HIDE DEF last
<1>7. edits' \in Nat /\ tab' \in TradeTypes
  BY <1>1, <1>4
<1> QED BY <1>1, <1>2, <1>3, <1>6, <1>7 DEF CollectorTypeOK

\* What comes, goes or changes is a list of cards again.
LEMMA EditsOfLists ==
  ASSUME CollectorTypeOK, ListingComes \/ ListingGoes \/ ListingChanges
  PROVE  \E t \in TradeTypes : \E list : IsList(list) /\ Edited(t, list)
<1>1. \A t \in TradeTypes : IsList(lists[t]) /\ DOMAIN lists[t] = 1..Len(lists[t])
  BY Listed DEF CollectorTypeOK
<1>2. CASE ListingComes
  <2>1. PICK t \in TradeTypes, card \in NewCards :
          \E i \in 1..Len(lists[t]) + 1 : Edited(t, InsertAt(lists[t], i, card))
    BY <1>2 DEF ListingComes
  <2>2. PICK i \in 1..Len(lists[t]) + 1 : Edited(t, InsertAt(lists[t], i, card))
    BY <2>1
  <2>3. IsList(InsertAt(lists[t], i, card))
    BY <1>1, Inserted, PageAssumption
  <2> QED BY <2>2, <2>3
<1>3. CASE ListingGoes
  <2>1. PICK t \in TradeTypes : \E i \in DOMAIN lists[t] : Edited(t, RemoveAt(lists[t], i))
    BY <1>3 DEF ListingGoes
  <2>2. PICK i \in DOMAIN lists[t] : Edited(t, RemoveAt(lists[t], i))
    BY <2>1
  <2>3. IsList(RemoveAt(lists[t], i))
    BY <1>1, Removed
  <2> QED BY <2>2, <2>3
<1>4. CASE ListingChanges
  <2>1. PICK t \in TradeTypes : \E i \in DOMAIN lists[t], face \in Faces :
          Edited(t, [lists[t] EXCEPT ![i].face = face])
    BY <1>4 DEF ListingChanges
  <2>2. PICK i \in DOMAIN lists[t], face \in Faces : Edited(t, [lists[t] EXCEPT ![i].face = face])
    BY <2>1
  <2>3. IsList([lists[t] EXCEPT ![i].face = face])
    BY <1>1, Changed
  <2> QED BY <2>2, <2>3
<1> QED BY <1>2, <1>3, <1>4

Scan == ReadPanel \/ NothingToTake \/ ScrollOn \/ EndOfList \/ Settle \/ CheckGroups \/ Finish

\* The cases of a step.
LEMMA StepCases ==
  ASSUME CollectorTypeOK, [Next]_vars
  PROVE  \/ UNCHANGED vars
         \/ Scan \/ SwitchTradeType \/ TakeCard \/ Handling \/ CloseGroup \/ Raise \/ Render
         \/ \E t \in TradeTypes : \E list : IsList(list) /\ Edited(t, list)
BY EditsOfLists DEF Next, Collect, Page, Scan, Handling

LEMMA TypeStep ==
  ASSUME CollectorTypeOK, [Next]_vars
  PROVE  CollectorTypeOK'
<1>1. CASE UNCHANGED vars
  <2>1. ListStays
    BY <1>1, SameList DEF vars, site, screen
  <2> QED BY <1>1, <2>1
    DEF vars, site, screen, scan, payload, CollectorTypeOK, ListStays
<1>2. CASE Scan
  BY <1>2, TypeOfScan DEF Scan
<1>3. CASE SwitchTradeType \/ TakeCard \/ Handling \/ CloseGroup \/ Raise \/ Render
  BY <1>3, TypeOfSwitch, TypeOfTake, TypeOfHandling, TypeOfClose, TypeOfRaise, TypeOfRender
<1>4. CASE \E t \in TradeTypes : \E list : IsList(list) /\ Edited(t, list)
  BY <1>4, TypeOfEdit
<1> QED BY <1>1, <1>2, <1>3, <1>4, StepCases

-----------------------------------------------------------------------------
(* Every article once                                                      *)

\* Nothing is collected, closed or handed over.
Idle ==
  /\ UNCHANGED <<listings, groups, articles>>
  /\ pc' \in Scanning => pc \in Scanning
  /\ pc' \in InHand => pc \in InHand /\ cur'.found = cur.found

LEMMA HandlingOrCollecting ==
  ASSUME CollectorTypeOK, Handling
  PROVE  Idle \/ CollectArticle
<1>1. cur = [key |-> cur.key, at |-> cur.at, html |-> cur.html, attached |-> cur.attached,
             rows |-> cur.rows, todo |-> cur.todo, found |-> cur.found, warned |-> cur.warned]
      /\ pc \in InHand
  BY DEF CollectorTypeOK, Handling, ReadCard, ReadRows, SkipArticle, CollectArticle,
    DetailParseFails, InHand
<1>2. ASSUME ReadCard \/ ReadRows \/ SkipArticle \/ DetailParseFails
      PROVE  cur'.found = cur.found /\ UNCHANGED <<listings, groups, articles>>
  <2>1. UNCHANGED <<listings, groups, articles>>
    BY <1>2 DEF ReadCard, ReadRows, SkipArticle, DetailParseFails, payload, scan
  <2>2. CASE ReadCard
    BY <1>1, <2>1, <2>2 DEF ReadCard
  <2>3. CASE ReadRows
    <3>1. PICK k : LET rows == cur.rows \cup Range(SubSeq(Visible[cur.at].brokers, 1, k)) IN
                   cur' = [cur EXCEPT !.attached = k, !.rows = rows, !.todo = rows]
      BY <2>3 DEF ReadRows
    <3> QED BY <1>1, <2>1, <3>1
  <2>4. CASE SkipArticle
    BY <1>1, <2>1, <2>4 DEF SkipArticle
  <2>5. CASE DetailParseFails
    BY <1>1, <2>1, <2>5 DEF DetailParseFails
  <2> QED BY <1>2, <2>1, <2>2, <2>3, <2>4, <2>5
<1>3. pc \in Scanning
  BY <1>1 DEF Scanning
<1> QED BY <1>1, <1>2, <1>3 DEF Handling, Idle

LEMMA MostlyIdle ==
  ASSUME CollectorTypeOK, [Next]_vars
  PROVE  \/ Idle
         \/ SwitchTradeType \/ TakeCard \/ CollectArticle \/ CloseGroup
         \/ CheckGroups /\ HandsOver
<1>1. CASE UNCHANGED vars
  BY <1>1 DEF vars, scan, payload, Idle
<1>2. CASE Scan
  <2>1. CASE CheckGroups
    BY <2>1, ChecksHandOver DEF CheckGroups, Idle, payload, scan, InHand, Scanning
  <2>2. CASE ~CheckGroups
    BY <1>2, <2>2 DEF Scan, ReadPanel, NothingToTake, ScrollOn, EndOfList, Settle, Finish,
      Idle, payload, scan, InHand, Scanning
  <2> QED BY <2>1, <2>2
<1>3. CASE Handling
  BY <1>3, HandlingOrCollecting
<1>4. CASE Raise \/ Render
  BY <1>4 DEF Raise, Render, Idle, scan, payload, InHand, Scanning
<1>5. CASE \E t \in TradeTypes : \E list : IsList(list) /\ Edited(t, list)
  BY <1>5 DEF Edited, Idle, scan, payload
<1> QED BY <1>1, <1>2, <1>3, <1>4, <1>5, StepCases

LEMMA HeldStep ==
  ASSUME CollectorTypeOK, ArticlesAreHeldOnce, [Next]_vars
  PROVE  ArticlesAreHeldOnce'
<1>1. CASE Idle
  BY <1>1 DEF Idle, ArticlesAreHeldOnce, ArticlesOnce, Disjoint
<1>2. CASE SwitchTradeType
  <2>1. UNCHANGED <<listings, articles>> /\ groups' = <<>> /\ pc' = "look"
    BY <1>2 DEF SwitchTradeType, payload
  <2>2. DOMAIN groups' = {}
    BY <2>1
  <2> QED BY <2>1, <2>2 DEF ArticlesAreHeldOnce, ArticlesOnce, Disjoint, InHand
<1>3. CASE TakeCard
  <2>1. UNCHANGED <<listings, groups, articles>> /\ pc = "look" /\ cur'.found = <<>>
    BY <1>3 DEF TakeCard, payload
  <2>2. IsInjective(<<>>) /\ Range(<<>>) = {}
    BY DEF IsInjective, Range
  <2> QED BY <2>1, <2>2 DEF ArticlesAreHeldOnce, ArticlesOnce, Disjoint, Scanning
<1>4. CASE CollectArticle
  <2>1. UNCHANGED <<listings, groups>> /\ pc = "visit" /\ pc' = "visit"
    BY <1>4 DEF CollectArticle, payload, scan
  <2>2. PICK a \in cur.todo :
          /\ a \notin articles /\ articles' = articles \cup {a}
          /\ cur' = [cur EXCEPT !.todo = @ \ {a}, !.found = Append(@, a)]
    BY <1>4 DEF CollectArticle
  <2>3. cur.found \in Seq(cur.rows)
        /\ cur = [key |-> cur.key, at |-> cur.at, html |-> cur.html, attached |-> cur.attached,
             rows |-> cur.rows, todo |-> cur.todo, found |-> cur.found, warned |-> cur.warned]
    BY <2>1 DEF CollectorTypeOK, InHand
  <2> DEFINE f == cur.found
  <2>4. cur'.found = Append(f, a)
    BY <2>2, <2>3
  <2>5. f \in Seq(Range(f))
    <3>1. Len(f) \in Nat /\ f \in [1..Len(f) -> Range(f)]
      BY <2>3, LenProperties DEF Range
    <3> QED BY <3>1, SeqDef
  <2>6. IsInjective(f) /\ Range(f) \subseteq articles
    BY <2>1 DEF ArticlesAreHeldOnce, InHand
  <2> HIDE DEF f
  <2>7. Range(Append(f, a)) = Range(f) \cup {a}
    BY <2>5, Grown
  <2>8. IsInjective(Append(f, a))
    <3>1. \A i \in DOMAIN f : f[i] # a
      BY <2>2, <2>6 DEF Range
    <3> QED BY <2>5, <2>6, <3>1, Grown DEF IsInjective
  <2>9. \A i \in DOMAIN groups : a \notin Range(groups[i].articles)
    BY <2>2 DEF ArticlesAreHeldOnce
  <2>10. \A j \in DOMAIN listings : a \notin Range(listings[j].group.articles)
    BY <2>2 DEF ArticlesAreHeldOnce
  <2> QED BY <2>1, <2>2, <2>4, <2>6, <2>7, <2>8, <2>9, <2>10
          DEF f, ArticlesAreHeldOnce, ArticlesOnce, Disjoint, InHand, Scanning
<1>5. CASE CloseGroup
  <2>1. UNCHANGED <<listings, articles>> /\ pc = "visit" /\ pc' \in {"look", "check"}
    BY <1>5 DEF CloseGroup, payload
  <2> DEFINE g == [card |-> cur.html, rows |-> cur.rows, articles |-> cur.found,
                   warned |-> cur.warned]
  <2>2. groups' = Append(groups, g)
    BY <1>5 DEF CloseGroup
  <2>3. g.articles = cur.found
    OBVIOUS
  <2> HIDE DEF g
  <2>4. groups \in Seq(Range(groups))
    BY DEF CollectorTypeOK
  <2>5. /\ DOMAIN groups = 1..Len(groups) /\ DOMAIN groups' = 1..Len(groups) + 1
        /\ Len(groups) \in Nat
        /\ \A i \in 1..Len(groups) : groups'[i] = groups[i]
        /\ groups'[Len(groups) + 1] = g
    BY <2>2, <2>4, Grown
  <2>6. \A i \in DOMAIN groups' : (i \in DOMAIN groups /\ groups'[i] = groups[i]) \/ groups'[i] = g
    BY <2>5
  <2>7. \A i \in DOMAIN groups' : i \notin DOMAIN groups => i = Len(groups) + 1
    BY <2>5
  <2>8. /\ IsInjective(g.articles) /\ Range(g.articles) \subseteq articles
        /\ \A i \in DOMAIN groups : Range(g.articles) \cap Range(groups[i].articles) = {}
        /\ \A j \in DOMAIN listings : Range(g.articles) \cap Range(listings[j].group.articles) = {}
    BY <2>1, <2>3 DEF ArticlesAreHeldOnce, InHand
  <2>9. ArticlesOnce'
    BY <2>1 DEF ArticlesAreHeldOnce, ArticlesOnce
  <2>10. \A i \in DOMAIN listings' : Range(listings'[i].group.articles) \subseteq articles'
    BY <2>1 DEF ArticlesAreHeldOnce
  <2>11. \A i \in DOMAIN groups' :
           IsInjective(groups'[i].articles) /\ Range(groups'[i].articles) \subseteq articles'
    BY <2>1, <2>6, <2>8 DEF ArticlesAreHeldOnce
  <2>12. \A i, j \in DOMAIN groups' : i # j => Disjoint(groups'[i], groups'[j])
    <3> TAKE i, j \in DOMAIN groups'
    <3>1. CASE i \in DOMAIN groups /\ j \in DOMAIN groups
      BY <2>5, <3>1 DEF ArticlesAreHeldOnce, Disjoint
    <3>2. CASE i \in DOMAIN groups /\ j \notin DOMAIN groups
      BY <2>5, <2>7, <2>8, <3>2 DEF Disjoint
    <3>3. CASE i \notin DOMAIN groups /\ j \in DOMAIN groups
      BY <2>5, <2>7, <2>8, <3>3 DEF Disjoint
    <3>4. CASE i \notin DOMAIN groups /\ j \notin DOMAIN groups
      BY <2>7, <3>4
    <3> QED BY <3>1, <3>2, <3>3, <3>4
  <2>13. \A i \in DOMAIN groups', j \in DOMAIN listings' :
           Disjoint(groups'[i], listings'[j].group)
    BY <2>1, <2>6, <2>8 DEF ArticlesAreHeldOnce, Disjoint, Scanning, InHand
  <2>14. pc' \notin InHand
    BY <2>1 DEF InHand
  <2> QED BY <2>9, <2>10, <2>11, <2>12, <2>13, <2>14 DEF ArticlesAreHeldOnce, Disjoint
<1>6. CASE CheckGroups /\ HandsOver
  <2>1. UNCHANGED <<groups, articles>> /\ pc = "check" /\ pc' \notin Scanning
    BY <1>6 DEF CheckGroups, scan, Scanning, InHand
  <2>2. /\ Len(listings) \in Nat /\ DOMAIN listings = 1..Len(listings)
        /\ \A i \in DOMAIN listings : i \in DOMAIN listings' /\ listings'[i] = listings[i]
        /\ \A i \in DOMAIN listings' : i \notin DOMAIN listings =>
             i - Len(listings) \in DOMAIN groups
             /\ listings'[i].group = groups[i - Len(listings)]
        /\ listings' \in Seq(Range(listings'))
    BY <1>6 DEF HandsOver, Handed
  <2>3. \A i \in DOMAIN listings' : i \in Nat
    BY <2>2, LenProperties
  <2>4. \A i \in DOMAIN listings' : IsInjective(listings'[i].group.articles)
          /\ Range(listings'[i].group.articles) \subseteq articles
    BY <2>2 DEF ArticlesAreHeldOnce, ArticlesOnce
  <2>5. \A i, j \in DOMAIN listings' : i # j =>
          Range(listings'[i].group.articles) \cap Range(listings'[j].group.articles) = {}
    <3> TAKE i, j \in DOMAIN listings'
    <3> SUFFICES ASSUME i # j
                 PROVE  Range(listings'[i].group.articles) \cap Range(listings'[j].group.articles) = {}
      OBVIOUS
    <3>1. CASE i \in DOMAIN listings /\ j \in DOMAIN listings
      BY <2>2, <3>1 DEF ArticlesAreHeldOnce, ArticlesOnce
    <3>2. CASE i \in DOMAIN listings /\ j \notin DOMAIN listings
      <4>1. j - Len(listings) \in DOMAIN groups /\ listings'[j].group = groups[j - Len(listings)]
            /\ listings'[i] = listings[i]
        BY <2>2, <3>2
      <4>2. Disjoint(groups[j - Len(listings)], listings[i].group)
        BY <2>1, <3>2, <4>1 DEF ArticlesAreHeldOnce, Scanning
      <4> QED BY <4>1, <4>2 DEF Disjoint
    <3>3. CASE i \notin DOMAIN listings /\ j \in DOMAIN listings
      BY <2>1, <2>2, <3>3 DEF ArticlesAreHeldOnce, Disjoint, Scanning
    <3>4. CASE i \notin DOMAIN listings /\ j \notin DOMAIN listings
      <4>1. i - Len(listings) # j - Len(listings)
        BY <2>2, <2>3
      <4> QED BY <2>2, <3>4, <4>1 DEF ArticlesAreHeldOnce, Disjoint
    <3> QED BY <3>1, <3>2, <3>3, <3>4
  <2>6. pc' \notin InHand
    BY <2>1 DEF Scanning
  <2> QED BY <2>1, <2>4, <2>5, <2>6 DEF ArticlesAreHeldOnce, ArticlesOnce, Disjoint
<1> QED BY <1>1, <1>2, <1>3, <1>4, <1>5, <1>6, MostlyIdle

-----------------------------------------------------------------------------
(* What is handed over was checked, and counts are current                 *)

LEMMA ScopeStays ==
  ASSUME CollectorTypeOK, [Next]_vars
  PROVE  scope' = scope /\ IsFull' = IsFull
<1>1. scope' = scope
  BY StepCases DEF vars, Scan, ReadPanel, NothingToTake, ScrollOn, EndOfList, Settle, CheckGroups,
    Finish, SwitchTradeType, TakeCard, Handling, ReadCard, ReadRows, SkipArticle, CollectArticle,
    DetailParseFails, CloseGroup, Raise, Render, Edited
<1> QED BY <1>1 DEF IsFull

LEMMA CheckedStep ==
  ASSUME CollectorTypeOK, ListingsAreChecked, [Next]_vars
  PROVE  ListingsAreChecked'
<1>1. scope' = scope /\ IsFull' = IsFull
  BY ScopeStays
<1>2. CASE UNCHANGED payload /\ (pc' = "done" => pc = "done")
  BY <1>1, <1>2 DEF ListingsAreChecked, Collected, payload
<1>3. CASE CheckGroups
  <2>1. CASE UNCHANGED payload
    BY <1>2, <1>3, <2>1 DEF CheckGroups
  <2>2. CASE HandsOver /\ ~UNCHANGED payload
    <3>1. /\ pc' = "switch"
          /\ IsFull => \A i \in DOMAIN groups : Complete(groups[i])
          /\ partial' = (partial \/ \E i \in DOMAIN groups : groups[i].warned)
      BY <1>3, <2>2 DEF CheckGroups
    <3>2. \A i \in DOMAIN listings' :
            \/ i \in DOMAIN listings /\ listings'[i] = listings[i]
            \/ \E k \in DOMAIN groups : listings'[i].group = groups[k]
      BY <2>2 DEF HandsOver, Handed
    <3>3. ~partial' => \A i \in DOMAIN listings' : ~listings'[i].group.warned
      BY <3>1, <3>2 DEF ListingsAreChecked
    <3>4. IsFull => \A i \in DOMAIN listings' : Complete(listings'[i].group)
      BY <3>1, <3>2 DEF ListingsAreChecked
    <3> QED BY <1>1, <3>1, <3>3, <3>4 DEF ListingsAreChecked
  <2> QED BY <1>3, <2>1, <2>2, ChecksHandOver
<1>4. CASE Finish
  <2>1. UNCHANGED listings /\ partial' = (partial \/ ~(scope.expected \subseteq Collected))
        /\ Collected' = Collected
    BY <1>4 DEF Finish, Collected
  <2> QED BY <1>1, <2>1 DEF ListingsAreChecked
<1>5. ASSUME ~CheckGroups, ~Finish PROVE UNCHANGED payload /\ (pc' = "done" => pc = "done")
  BY <1>5, StepCases DEF vars, Scan, ReadPanel, NothingToTake, ScrollOn, EndOfList, Settle,
    SwitchTradeType, TakeCard, Handling, ReadCard, ReadRows, SkipArticle, CollectArticle,
    DetailParseFails, CloseGroup, Raise, Render, Edited
<1> QED BY <1>2, <1>3, <1>4, <1>5

\* The site stands still unless it is edited.
LEMMA SiteStays ==
  ASSUME CollectorTypeOK, [Next]_vars, edits' = 0
  PROVE  edits = 0 /\ lists' = lists
<1>1. edits \in Nat
  BY DEF CollectorTypeOK
<1>2. edits' = edits + 1 \/ (edits' = edits /\ lists' = lists)
  BY StepCases DEF vars, Scan, ReadPanel, NothingToTake, ScrollOn, EndOfList, Settle, CheckGroups,
    Finish, SwitchTradeType, TakeCard, Handling, ReadCard, ReadRows, SkipArticle, CollectArticle,
    DetailParseFails, CloseGroup, Raise, Render, Edited, site
<1> QED BY <1>1, <1>2

LEMMA CountsStep ==
  ASSUME CollectorTypeOK, CountsAreCurrent, [Next]_vars
  PROVE  CountsAreCurrent'
<1> SUFFICES ASSUME edits' = 0
             PROVE  /\ \A t \in TradeTypes : counts'[t] \in {None, Len(lists'[t])}
                    /\ pc' = "panel" => \A t \in TradeTypes : counts'[t] = None
                    /\ pc' \in Scanning =>
                         latest' = Len(List') /\ seen' \subseteq {Key(card) : card \in Range(List')}
  BY DEF CountsAreCurrent
<1>1. edits = 0 /\ lists' = lists
  BY SiteStays
<1>2. CASE /\ UNCHANGED <<counts, tab, latest, seen>>
           /\ pc' = "panel" => pc = "panel"
           /\ pc' \in Scanning => pc \in Scanning
  <2>1. List' = List
    BY <1>1, <1>2 DEF List
  <2> QED BY <1>1, <1>2, <2>1 DEF CountsAreCurrent
<1>3. CASE ReadPanel
  BY <1>1, <1>3 DEF ReadPanel, Scanning, InHand
<1>4. CASE SwitchTradeType
  <2>1. PICK i \in DOMAIN Trades :
          latest' = counts[Trades[i]] /\ tab' = Trades[i] /\ IsListed(Trades[i])
    BY <1>4 DEF SwitchTradeType
  <2>2. Trades[i] \in TradeTypes
    BY <2>1 DEF TradeTypes, Range
  <2>3. pc' = "look" /\ seen' = {} /\ counts' = counts
    BY <1>4 DEF SwitchTradeType
  <2> QED BY <1>1, <2>1, <2>2, <2>3 DEF CountsAreCurrent, List, IsListed
<1>5. CASE TakeCard
  <2>1. PICK i \in DOMAIN Visible : seen' = seen \cup {Key(Visible[i])}
    BY <1>5 DEF TakeCard, Unseen
  <2>2. UNCHANGED <<counts, tab, latest>> /\ pc = "look" /\ pc' = "card" /\ List' = List
    BY <1>1, <1>5 DEF TakeCard, screen, List
  <2>3. Visible[i] \in Range(List)
    BY ThePage
  <2> QED BY <1>1, <2>1, <2>2, <2>3 DEF CountsAreCurrent, Scanning, InHand
<1>6. CASE EndOfList
  <2>1. /\ UNCHANGED <<counts, tab, seen>> /\ pc = "scroll" /\ pc' # "panel"
        /\ latest' \in {latest, Len(List)} /\ List' = List
    BY <1>1, <1>6 DEF EndOfList, List
  <2> QED BY <1>1, <2>1 DEF CountsAreCurrent, Scanning, InHand
<1>7. CASE CheckGroups
  <2>1. /\ UNCHANGED <<tab, latest, seen>> /\ pc = "check"
        /\ pc' \notin Scanning \cup {"panel"}
        /\ counts' = [counts EXCEPT ![tab] = latest]
    BY <1>7 DEF CheckGroups, screen, scan, Scanning, InHand
  <2>2. latest = Len(List) /\ \A t \in TradeTypes : counts[t] \in {None, Len(lists[t])}
    BY <1>1, <2>1 DEF CountsAreCurrent, Scanning
  <2>3. \A t \in TradeTypes : counts'[t] \in {counts[t], Len(lists[t])}
    BY <2>1, <2>2 DEF List
  <2> QED BY <1>1, <2>1, <2>2, <2>3
<1>8. CASE UNCHANGED vars
  BY <1>2, <1>8 DEF vars, screen, scan
<1>9. CASE NothingToTake \/ ScrollOn \/ Settle \/ Finish \/ Handling \/ CloseGroup
  <2>1. UNCHANGED <<counts, tab, latest, seen>>
    BY <1>9 DEF NothingToTake, ScrollOn, Settle, Finish, Handling, ReadCard, ReadRows,
      SkipArticle, CollectArticle, DetailParseFails, CloseGroup, screen, scan
  <2>2. pc' # "panel" /\ (pc \in Scanning \/ pc' \notin Scanning)
    BY <1>9 DEF NothingToTake, ScrollOn, Settle, Finish, Handling, ReadCard, ReadRows,
      SkipArticle, CollectArticle, DetailParseFails, CloseGroup, Scanning, InHand
  <2> QED BY <1>2, <2>1, <2>2
<1>10. CASE Raise \/ Render \/ \E t \in TradeTypes : \E list : IsList(list) /\ Edited(t, list)
  BY <1>2, <1>10 DEF Raise, Render, Edited, screen, scan, Scanning, InHand
<1> QED BY <1>3, <1>4, <1>5, <1>6, <1>7, <1>8, <1>9, <1>10, StepCases DEF Scan

-----------------------------------------------------------------------------
(* A page that stands still                                                *)

\* What the handling of a card does to the group in hand.
Opened == /\ pc = "card" /\ cur.at \in DOMAIN Visible /\ articles' = articles
          /\ cur'.html = Visible[cur.at] /\ cur'.found = <<>> /\ Range(cur'.found) = {}
          /\ cur.found = <<>> /\ Range(cur.found) = {}
          /\ cur'.rows \subseteq Brokers(Visible[cur.at])
          /\ IsCard(Visible[cur.at]) /\ cur'.attached = cur.attached
          /\ pc' = "visit" => cur'.rows = Brokers(Visible[cur.at])

Read == /\ pc = "rows" /\ cur.at \in DOMAIN Visible /\ articles' = articles
        /\ cur'.html = cur.html /\ cur'.found = cur.found
        /\ cur'.rows \subseteq cur.rows \cup Brokers(Visible[cur.at])
        /\ IsCard(Visible[cur.at])
        /\ cur.attached \in Nat => cur'.attached \in Nat /\ cur'.rows # {}

Passed == /\ pc = "visit" /\ articles' = articles
          /\ cur'.html = cur.html /\ cur'.found = cur.found /\ cur'.rows = cur.rows
          /\ cur'.attached = cur.attached /\ pc' = pc

Visited(a) == /\ pc = "visit" /\ a \in cur.rows /\ a \notin articles
              /\ articles' = articles \cup {a}
              /\ cur'.html = cur.html /\ cur'.rows = cur.rows
              /\ cur'.attached = cur.attached /\ pc' = pc
              /\ Range(cur'.found) = Range(cur.found) \cup {a}

LEMMA WhatHandlingDoes ==
  ASSUME CollectorTypeOK, Handling
  PROVE  /\ UNCHANGED <<site, screen, groups, seen, listings>> /\ Visible' = Visible
         /\ Unseen' = Unseen
         /\ pc \in InHand /\ pc' \in InHand \ {"card"}
         /\ cur'.key = cur.key /\ cur'.at = cur.at
         /\ Opened \/ Read \/ Passed \/ \E a : Visited(a)
<1>1. UNCHANGED <<site, screen, groups, seen, listings>>
      /\ pc \in InHand /\ pc' \in InHand \ {"card"}
  BY DEF Handling, ReadCard, ReadRows, SkipArticle, CollectArticle, DetailParseFails, scan,
    payload, InHand
<1>2. Visible' = Visible /\ Unseen' = Unseen
  BY <1>1 DEF Visible, Unseen, List, site, screen
<1>3. cur = [key |-> cur.key, at |-> cur.at, html |-> cur.html, attached |-> cur.attached,
             rows |-> cur.rows, todo |-> cur.todo, found |-> cur.found, warned |-> cur.warned]
      /\ cur.found \in Seq(cur.rows) /\ cur.todo \subseteq cur.rows
  BY <1>1 DEF CollectorTypeOK
<1> DEFINE f == cur.found
<1>4. f \in Seq(Range(f))
  <2>1. Len(f) \in Nat /\ f \in [1..Len(f) -> Range(f)]
    BY <1>3, LenProperties DEF Range
  <2> QED BY <2>1, SeqDef
<1> HIDE DEF f
<1>5. CASE ReadCard
  <2>1. pc = "card" /\ cur.at \in DOMAIN Visible /\ articles' = articles
    BY <1>5 DEF ReadCard
  <2>2. cur.rows = {}
    BY <2>1 DEF CollectorTypeOK
  <2>3. f = <<>>
    <3>1. f \in Seq({})
      BY <1>3, <2>2 DEF f
    <3>2. Len(f) \in Nat /\ f \in [1..Len(f) -> {}]
      BY <3>1, LenProperties
    <3>3. Len(f) = 0
      BY <3>2
    <3> QED BY <3>1, <3>3, EmptySeq
  <2>4. Range(<<>>) = {}
    BY DEF Range
  <2>5. \/ cur' = [cur EXCEPT !.html = Visible[cur.at]]
        \/ cur' = [cur EXCEPT !.html = Visible[cur.at], !.rows = Brokers(Visible[cur.at]),
                              !.todo = Brokers(Visible[cur.at])]
    BY <1>5 DEF ReadCard
  <2>6. /\ cur'.key = cur.key /\ cur'.at = cur.at /\ cur'.html = Visible[cur.at]
        /\ cur'.found = cur.found /\ cur'.rows \subseteq Brokers(Visible[cur.at])
        /\ cur'.attached = cur.attached
    BY <1>3, <2>2, <2>5
  <2>7. IsCard(Visible[cur.at])
    BY <2>1, ThePage
  <2>8. pc' = "visit" => cur'.rows = Brokers(Visible[cur.at])
    BY <1>3, <1>5 DEF ReadCard
  <2> QED BY <1>1, <1>2, <2>1, <2>3, <2>4, <2>6, <2>7, <2>8 DEF f, Opened
<1>6. CASE ReadRows
  <2>1. PICK k \in cur.attached + 1 .. Len(Visible[cur.at].brokers) :
          LET rows == cur.rows \cup Range(SubSeq(Visible[cur.at].brokers, 1, k)) IN
          cur' = [cur EXCEPT !.attached = k, !.rows = rows, !.todo = rows]
    BY <1>6 DEF ReadRows
  <2> DEFINE part == Range(SubSeq(Visible[cur.at].brokers, 1, k))
  <2>2. cur' = [cur EXCEPT !.attached = k, !.rows = cur.rows \cup part,
                           !.todo = cur.rows \cup part]
    BY <2>1
  <2>3. pc = "rows" /\ cur.at \in DOMAIN Visible /\ articles' = articles
    BY <1>6 DEF ReadRows
  <2>4. part \subseteq Brokers(Visible[cur.at])
    <3> DEFINE b == Visible[cur.at].brokers
    <3>1. b \in Seq(Range(b))
      BY <2>3, ThePage DEF IsCard, Brokers
    <3> HIDE DEF b
    <3>2. SubSeq(b, 1, k) \in Seq(Range(b)) \/ k \notin Int \/ ~(k <= Len(b))
      <4> SUFFICES ASSUME k \in Int, k <= Len(b) PROVE SubSeq(b, 1, k) \in Seq(Range(b))
        OBVIOUS
      <4>1. Len(b) \in Nat /\ DOMAIN b = 1..Len(b)
        BY <3>1, LenProperties
      <4>2. \A i \in 1..k : b[i] \in Range(b)
        BY <4>1 DEF Range
      <4> QED BY <4>2, SubSeqProperties
    <3>3. k \in Int /\ k <= Len(b)
      BY <2>1 DEF b
    <3>4. Range(SubSeq(b, 1, k)) \subseteq Range(b)
      BY <3>2, <3>3, LenProperties DEF Range
    <3> QED BY <3>4 DEF b, Brokers
  <2> HIDE DEF part
  <2>5. /\ cur'.key = cur.key /\ cur'.at = cur.at /\ cur'.html = cur.html
        /\ cur'.found = cur.found /\ cur'.rows = cur.rows \cup part /\ cur'.attached = k
    BY <1>3, <2>2
  <2>6. IsCard(Visible[cur.at])
    BY <2>3, ThePage
  <2>7. ASSUME cur.attached \in Nat PROVE k \in Nat /\ part # {}
    <3> DEFINE b == Visible[cur.at].brokers
    <3>1. b \in Seq(Range(b))
      BY <2>6 DEF IsCard, Brokers
    <3> HIDE DEF b
    <3>2. k \in Nat /\ 1 <= k /\ k <= Len(b) /\ Len(b) \in Nat /\ DOMAIN b = 1..Len(b)
      <4>1. k \in cur.attached + 1 .. Len(b) /\ Len(b) \in Nat /\ DOMAIN b = 1..Len(b)
        BY <2>1, <3>1, LenProperties DEF b
      <4> QED BY <2>7, <4>1
    <3>3. \A i \in 1..k : b[i] \in Range(b)
      BY <3>2 DEF Range
    <3>4. SubSeq(b, 1, k) \in Seq(Range(b)) /\ Len(SubSeq(b, 1, k)) = k
      BY <3>2, <3>3, SubSeqProperties
    <3>5. 1 \in DOMAIN SubSeq(b, 1, k)
      BY <3>2, <3>4, LenProperties
    <3>6. Range(SubSeq(b, 1, k)) # {}
      BY <3>5 DEF Range
    <3> QED BY <3>2, <3>6 DEF part, b
  <2> QED BY <1>1, <1>2, <2>3, <2>4, <2>5, <2>6, <2>7 DEF Read
<1>7. CASE SkipArticle \/ DetailParseFails
  <2>1. pc = "visit" /\ articles' = articles
    BY <1>7 DEF SkipArticle, DetailParseFails
  <2>2. /\ cur'.key = cur.key /\ cur'.at = cur.at /\ cur'.html = cur.html
        /\ cur'.found = cur.found /\ cur'.rows = cur.rows
        /\ cur'.attached = cur.attached /\ pc' = pc
    BY <1>3, <1>7 DEF SkipArticle, DetailParseFails
  <2> QED BY <1>1, <1>2, <2>1, <2>2 DEF Passed
<1>8. CASE CollectArticle
  <2>1. PICK a \in cur.todo :
          /\ a \notin articles /\ articles' = articles \cup {a}
          /\ cur' = [cur EXCEPT !.todo = @ \ {a}, !.found = Append(@, a)]
    BY <1>8 DEF CollectArticle
  <2>2. /\ cur'.key = cur.key /\ cur'.at = cur.at /\ cur'.html = cur.html
        /\ cur'.found = Append(f, a) /\ cur'.rows = cur.rows
        /\ cur'.attached = cur.attached /\ pc' = pc
    BY <1>3, <1>8, <2>1 DEF f, CollectArticle
  <2>3. Range(Append(f, a)) = Range(f) \cup {a}
    BY <1>4, Grown
  <2>4. pc = "visit" /\ a \in cur.rows
    BY <1>3, <1>8, <2>1 DEF CollectArticle
  <2> QED BY <1>1, <1>2, <2>1, <2>2, <2>3, <2>4 DEF f, Visited
<1> QED BY <1>5, <1>6, <1>7, <1>8 DEF Handling

\* What CloseGroup adds, and that a full collection goes on.
LEMMA WhatClosingDoes ==
  ASSUME CollectorTypeOK, ArticlesAreHeldOnce, CloseGroup
  PROVE  /\ UNCHANGED <<site, screen, seen, articles>> /\ Visible' = Visible /\ Unseen' = Unseen
         /\ pc = "visit" /\ (IsFull => pc' = "look")
         /\ IsInjective(cur.found) /\ cur.found \in Seq(cur.rows)
         /\ \E n, g : /\ n \in DOMAIN groups' /\ groups'[n] = g
                      /\ g.card = cur.html /\ g.articles = cur.found /\ g.rows = cur.rows
                      /\ \A i \in DOMAIN groups' :
                           (i \in DOMAIN groups /\ groups'[i] = groups[i]) \/ i = n
                      /\ \A i \in DOMAIN groups : i \in DOMAIN groups' /\ groups'[i] = groups[i]
<1>1. UNCHANGED <<site, screen, seen, articles>> /\ pc = "visit" /\ (IsFull => pc' = "look")
  BY DEF CloseGroup, IsFull
<1>2. Visible' = Visible /\ Unseen' = Unseen
  BY <1>1 DEF Visible, Unseen, List, site, screen
<1>3. IsInjective(cur.found) /\ cur.found \in Seq(cur.rows)
  BY <1>1 DEF CollectorTypeOK, ArticlesAreHeldOnce, InHand
<1> DEFINE g == [card |-> cur.html, rows |-> cur.rows, articles |-> cur.found,
                 warned |-> cur.warned]
<1>4. groups' = Append(groups, g)
  BY DEF CloseGroup
<1>5. g.card = cur.html /\ g.articles = cur.found /\ g.rows = cur.rows
  OBVIOUS
<1> HIDE DEF g
<1>6. groups \in Seq(Range(groups))
  BY DEF CollectorTypeOK
<1>7. /\ DOMAIN groups = 1..Len(groups) /\ DOMAIN groups' = 1..Len(groups) + 1
      /\ Len(groups) \in Nat
      /\ \A i \in 1..Len(groups) : groups'[i] = groups[i]
      /\ groups'[Len(groups) + 1] = g
  BY <1>4, <1>6, Grown
<1>8. /\ Len(groups) + 1 \in DOMAIN groups' /\ groups'[Len(groups) + 1] = g
      /\ \A i \in DOMAIN groups' :
           (i \in DOMAIN groups /\ groups'[i] = groups[i]) \/ i = Len(groups) + 1
      /\ \A i \in DOMAIN groups : i \in DOMAIN groups' /\ groups'[i] = groups[i]
  BY <1>7
<1> QED BY <1>1, <1>2, <1>3, <1>5, <1>8

\* Two cards that look alike: there are more cards than keys.
LEMMA FewerKeys ==
  ASSUME NEW list, IsList(list), NEW i \in DOMAIN list, NEW j \in DOMAIN list, i # j,
         Key(list[i]) = Key(list[j]), NEW S, S \subseteq {Key(card) : card \in Range(list)}
  PROVE  Cardinality(S) < Len(list)
<1> DEFINE n == Len(list)
           T == {Key(card) : card \in Range(list)}
           f == [k \in 1..n |-> Key(list[k])]
<1>1. n \in Nat /\ DOMAIN list = 1..n
  BY Listed
<1>2. T = {Key(list[k]) : k \in 1..n}
  BY <1>1 DEF Range
<1>3. f \in [1..n -> T] /\ \A t \in T : \E k \in 1..n : f[k] = t
  BY <1>2
<1>4. f[i] = f[j] /\ i \in 1..n /\ j \in 1..n
  BY <1>1
<1> HIDE DEF n, f, T
<1>5. f \in Surjection(1..n, T)
  BY <1>3 DEF Surjection
<1>6. f \notin Injection(1..n, T)
  BY <1>4 DEF Injection, IsInjective
<1>7. IsFiniteSet(1..n) /\ Cardinality(1..n) = n
  BY <1>1, FS_Interval
<1>8. IsFiniteSet(T) /\ Cardinality(T) <= n /\ Cardinality(T) # n
  BY <1>5, <1>6, <1>7, FS_Surjection
<1>9. Cardinality(S) <= Cardinality(T) /\ Cardinality(S) \in Nat /\ Cardinality(T) \in Nat
  BY <1>8, FS_Subset, FS_CardinalityType DEF T
<1> QED BY <1>1, <1>8, <1>9 DEF n

\* A list that was scanned to its end, group by group complete, is on its way.
LEMMA NotDoomedAtTheEnd ==
  ASSUME CollectorTypeOK, CountsAreCurrent, IsFull, edits = 0, pc = "check", Doomed,
         Len(groups) >= latest, \A i \in DOMAIN groups : Complete(groups[i])
  PROVE  FALSE
<1>1. Alike
  BY DEF Doomed, Robbed, InHandRobbed, InHand
<1>2. Cardinality(seen) = Len(groups) /\ IsFiniteSet(seen)
  BY DEF CollectorTypeOK, InHand
<1>3. latest = Len(List) /\ seen \subseteq {Key(card) : card \in Range(List)}
  BY DEF CountsAreCurrent, Scanning
<1>4. Cardinality(seen) < Len(List)
  BY <1>1, <1>3, ThePage, FewerKeys DEF Alike
<1>5. Len(List) \in Nat /\ Cardinality(seen) \in Nat
  BY <1>2, ThePage, FS_CardinalityType
<1> QED BY <1>2, <1>3, <1>4, <1>5

LEMMA StillOne ==
  ASSUME CollectorTypeOK, [Next]_vars, Still', IsFull'
  PROVE  Still /\ IsFull /\ edits = 0 /\ lists' = lists
<1>1. edits = 0 /\ lists' = lists
  BY SiteStays DEF Still
<1> QED BY <1>1, ScopeStays DEF Still

\* A complete group whose articles are brokers of its card has them all.
LEMMA OwnWhenComplete ==
  ASSUME NEW g, IsCard(g.card), g.card.shown = Len(g.card.brokers),
         g.articles \in Seq(Brokers(g.card)), IsInjective(g.articles), Complete(g)
  PROVE  Own(g)
<1>1. Len(g.card.brokers) \in Nat
  BY LenProperties DEF IsCard
<1>2. Complete(g) => Len(g.articles) = ExpectedBrokers(g)
  BY DEF Complete
<1>3. ExpectedBrokers(g) = Len(g.card.brokers)
  BY <1>1, NoneAssumption DEF ExpectedBrokers
<1> QED BY <1>2, <1>3, AllOrSomeMissing DEF Own

\* The step leaves no way out: what dooms a list stays so, in this form or another.
LEMMA DoomedStays ==
  ASSUME CollectorTypeOK, ArticlesAreHeldOnce, [Next]_vars, Still', IsFull',
         pc \in Scanning, pc' \in Scanning, Doomed
  PROVE  Doomed'
<1>1. Still /\ IsFull /\ edits = 0 /\ lists' = lists
  BY StillOne
<1>2. ShouldScan /\ pc # "switch" /\ pc' \notin {"switch", "failed", "panel", "done"}
  BY <1>1 DEF IsFull, ShouldScan, Scanning, InHand
<1>3. tab' = tab /\ List' = List
  BY <1>1, <1>2, StepCases DEF vars, Scan, ReadPanel, NothingToTake, ScrollOn, EndOfList, Settle,
    CheckGroups, Finish, SwitchTradeType, TakeCard, Handling, ReadCard, ReadRows, SkipArticle,
    CollectArticle, DetailParseFails, CloseGroup, Raise, Render, Edited, screen, List
<1>4. CASE Alike
  BY <1>3, <1>4 DEF Alike, Doomed
<1>5. \/ UNCHANGED vars
      \/ NothingToTake \/ ScrollOn \/ EndOfList \/ Settle
      \/ TakeCard \/ Handling \/ CloseGroup \/ Render
  <2>1. ~ReadPanel /\ ~CheckGroups /\ ~Finish /\ ~SwitchTradeType /\ ~Raise
    BY <1>2 DEF ReadPanel, CheckGroups, Finish, SwitchTradeType, Raise, Scanning, InHand
  <2>2. ~\E t \in TradeTypes : \E list : IsList(list) /\ Edited(t, list)
    BY <1>1 DEF Edited, Still
  <2> QED BY <2>1, <2>2, StepCases DEF Scan
<1>6. CASE \E i \in DOMAIN groups : ~Complete(groups[i])
  <2>1. \A i \in DOMAIN groups : i \in DOMAIN groups' /\ groups'[i] = groups[i]
    <3>1. CASE CloseGroup
      BY <3>1, WhatClosingDoes
    <3>2. CASE ~CloseGroup
      BY <1>5, <3>2 DEF vars, NothingToTake, ScrollOn, EndOfList, Settle, TakeCard, Handling,
        ReadCard, ReadRows, SkipArticle, CollectArticle, DetailParseFails, Render, scan
    <3> QED BY <3>1, <3>2
  <2> QED BY <1>6, <2>1 DEF Doomed
<1>7. CASE Robbed
  <2>1. PICK i \in Unseen : Brokers(Visible[i]) \cap articles # {}
    BY <1>7 DEF Robbed
  <2>2. pc \in InHand \cup {"look"} /\ view = top /\ i \in DOMAIN Visible
        /\ Key(Visible[i]) \notin seen
    BY <1>7, <2>1 DEF Robbed, Unseen
  <2>3. CASE UNCHANGED vars
    BY <1>3, <2>1, <2>2, <2>3
      DEF vars, screen, scan, Visible, Unseen, Robbed, Doomed
  <2>4. CASE NothingToTake
    BY <1>2, <2>1, <2>4 DEF NothingToTake, Scanning, InHand
  <2>5. CASE ScrollOn \/ EndOfList \/ Settle \/ Render
    BY <2>2, <2>5 DEF ScrollOn, EndOfList, Settle, Render, InHand
  <2>6. CASE TakeCard
    <3>1. UNCHANGED <<view, top, articles>> /\ Visible' = Visible /\ pc' = "card"
      BY <1>3, <2>6 DEF TakeCard, screen, Visible
    <3>2. PICK k \in Unseen :
            /\ seen' = seen \cup {Key(Visible[k])}
            /\ cur' = [key |-> Key(Visible[k]), at |-> k, html |-> None, attached |-> 0,
                       rows |-> {}, todo |-> {}, found |-> <<>>, warned |-> FALSE]
      BY <2>6 DEF TakeCard
    <3>3. cur'.at = k /\ Range(cur'.found) = {}
      BY <3>2 DEF Range
    <3>4. CASE Key(Visible[i]) = Key(Visible[k])
      <4>1. CASE Visible[i] = Visible[k]
        <5>1. InHandRobbed'
          BY <2>1, <2>2, <3>1, <3>2, <3>3, <4>1 DEF InHandRobbed, InHand, Unseen
        <5> QED BY <5>1 DEF Doomed
      <4>2. CASE Visible[i] # Visible[k]
        <5>1. /\ Visible[i] = List[view + i] /\ Visible[k] = List[view + k]
              /\ view + i \in DOMAIN List /\ view + k \in DOMAIN List
          BY <2>2, ThePage DEF Unseen
        <5>2. Alike
          BY <3>4, <4>2, <5>1 DEF Alike
        <5> QED BY <1>4, <5>2
      <4> QED BY <4>1, <4>2
    <3>5. CASE Key(Visible[i]) # Key(Visible[k])
      <4>1. i \in Unseen'
        BY <2>2, <3>1, <3>2, <3>5 DEF Unseen
      <4>2. Robbed'
        BY <2>1, <2>2, <3>1, <4>1 DEF Robbed, InHand
      <4> QED BY <4>2 DEF Doomed
    <3> QED BY <3>4, <3>5
  <2>7. CASE Handling
    <3>1. UNCHANGED screen /\ Visible' = Visible /\ Unseen' = Unseen /\ pc' \in InHand
          /\ articles \subseteq articles'
      BY <2>7, WhatHandlingDoes DEF Opened, Read, Passed, Visited
    <3>2. Robbed'
      BY <2>1, <2>2, <3>1 DEF Robbed, screen
    <3> QED BY <3>2 DEF Doomed
  <2>8. CASE CloseGroup
    <3>1. UNCHANGED <<screen, articles>> /\ Visible' = Visible /\ Unseen' = Unseen /\ pc' = "look"
      BY <1>1, <2>8, WhatClosingDoes
    <3>2. Robbed'
      BY <2>1, <2>2, <3>1 DEF Robbed, screen
    <3> QED BY <3>2 DEF Doomed
  <2> QED BY <1>5, <2>3, <2>4, <2>5, <2>6, <2>7, <2>8
<1>8. CASE InHandRobbed
  <2>1. pc \in InHand /\ view = top /\ cur.at \in DOMAIN Visible
    BY <1>8 DEF InHandRobbed
  <2> DEFINE card == Visible[cur.at]
  <2>2. PICK b \in Brokers(card) : b \in articles /\ b \notin Range(cur.found)
    BY <1>8 DEF InHandRobbed
  <2>3. pc # "card" => cur.html = card /\ cur.rows \subseteq Brokers(card)
    BY <1>8 DEF InHandRobbed
  <2>4. CASE UNCHANGED vars
    BY <1>8, <1>3, <2>4 DEF vars, screen, Visible, InHandRobbed, Doomed
  <2>5. CASE NothingToTake \/ ScrollOn \/ EndOfList \/ Settle \/ Render \/ TakeCard
    BY <2>1, <2>5 DEF NothingToTake, ScrollOn, EndOfList, Settle, Render, TakeCard, InHand
  <2>6. CASE Handling
    <3>1. /\ UNCHANGED <<view, top>> /\ Visible' = Visible /\ pc' \in InHand \ {"card"}
          /\ cur'.at = cur.at
          /\ Opened \/ Read \/ Passed \/ \E a : Visited(a)
      BY <2>6, WhatHandlingDoes DEF screen
    <3>2. b \in articles' /\ b \notin Range(cur'.found)
      BY <2>2, <3>1 DEF Opened, Read, Passed, Visited
    <3>3. cur'.html = card /\ cur'.rows \subseteq Brokers(card)
      BY <2>3, <3>1 DEF Opened, Read, Passed, Visited
    <3>4. Visible'[cur'.at] = card /\ cur'.at \in DOMAIN Visible'
          /\ view' = top' /\ pc' \in InHand
      BY <2>1, <3>1
    <3>5. (Brokers(card) \cap articles') \ Range(cur'.found) # {}
      BY <2>2, <3>2
    <3> HIDE DEF card
    <3>6. InHandRobbed'
      BY <3>3, <3>4, <3>5 DEF InHandRobbed
    <3> QED BY <3>6 DEF Doomed
  <2>7. CASE CloseGroup
    <3>1. /\ pc = "visit" /\ IsInjective(cur.found) /\ cur.found \in Seq(cur.rows)
          /\ \E n, g : /\ n \in DOMAIN groups' /\ groups'[n] = g
                       /\ g.card = cur.html /\ g.articles = cur.found
      BY <2>7, WhatClosingDoes
    <3>2. PICK n, g : /\ n \in DOMAIN groups' /\ groups'[n] = g
                      /\ g.card = cur.html /\ g.articles = cur.found
      BY <3>1
    <3>3. g.card = card /\ cur.rows \subseteq Brokers(card)
      BY <2>3, <3>1, <3>2
    <3>4. g.articles \in Seq(Brokers(g.card)) /\ IsInjective(g.articles)
      BY <3>1, <3>2, <3>3, SeqMonotonic
    <3>5. IsCard(g.card) /\ g.card \in Range(List)
      BY <2>1, <3>3, ThePage
    <3>6. g.card.shown = Len(g.card.brokers)
      BY <1>1, <3>5 DEF Still, List, CollectorTypeOK
    <3>7. ~Own(g)
      BY <2>2, <3>2, <3>3 DEF Own
    <3>8. ~Complete(g)
      BY <3>4, <3>5, <3>6, <3>7, OwnWhenComplete
    <3> QED BY <3>2, <3>8 DEF Doomed
  <2> QED BY <1>5, <2>4, <2>5, <2>6, <2>7
<1> QED BY <1>4, <1>6, <1>7, <1>8 DEF Doomed

LEMMA SomeBroker ==
  ASSUME NEW card, IsCard(card)
  PROVE  Brokers(card) # {}
<1> DEFINE b == card.brokers
<1>1. b \in Seq(Range(b)) /\ b # <<>>
  BY DEF IsCard, Brokers
<1> HIDE DEF b
<1>2. Len(b) \in Nat \ {0} /\ DOMAIN b = 1..Len(b)
  BY <1>1, EmptySeq, LenProperties
<1>3. b[1] \in Range(b)
  BY <1>2 DEF Range
<1> QED BY <1>3 DEF b, Brokers

\* Without two that look alike, a key tells the card.
LEMMA KeyTellsCard ==
  ASSUME CollectorTypeOK, ~Alike, NEW c \in Range(List), NEW d \in Range(List), Key(c) = Key(d)
  PROVE  c = d
BY DEF Alike, Range

\* A card whose key has been seen, other than that of the card in hand, is the card
\* of a group: its brokers' articles have been collected.
LEMMA SeenIsCollected ==
  ASSUME CollectorTypeOK, ArticlesAreHeldOnce, ~Alike, OnItsWay, NEW c \in Range(List),
         Key(c) \in seen, pc \in InHand => Key(c) # cur.key
  PROVE  Brokers(c) \subseteq articles
           /\ (pc \in InHand => Range(cur.found) \cap Brokers(c) = {})
<1>1. PICK k \in DOMAIN groups : Key(c) = Key(groups[k].card)
  BY DEF OnItsWay
<1>2. groups[k].card \in Range(List) /\ Range(groups[k].articles) = Brokers(groups[k].card)
  BY <1>1 DEF OnItsWay, Own
<1>3. groups[k].card = c
  BY <1>1, <1>2, KeyTellsCard
<1> QED BY <1>2, <1>3 DEF ArticlesAreHeldOnce

\* The handling of the card in hand.
LEMMA HandlingOnItsWay ==
  ASSUME CollectorTypeOK, ArticlesAreHeldOnce, Handling, Still, OnItsWay, ~Alike,
         lists' = lists
  PROVE  Robbed' \/ OnItsWay'
<1>1. /\ UNCHANGED <<site, screen, groups, seen>> /\ Visible' = Visible /\ Unseen' = Unseen
      /\ pc \in InHand /\ pc' \in InHand \ {"card"}
      /\ cur'.key = cur.key /\ cur'.at = cur.at
      /\ Opened \/ Read \/ Passed \/ \E a : Visited(a)
  BY WhatHandlingDoes
<1>2. UNCHANGED <<tab, top, view>> /\ List' = List
  BY <1>1 DEF screen, site, List
<1>3. /\ \A i \in DOMAIN groups : groups[i].card \in Range(List) /\ Own(groups[i])
      /\ seen \subseteq {Key(groups[i].card) : i \in DOMAIN groups} \cup {cur.key}
      /\ view # top => cur.at \in DOMAIN Visible /\ Key(Visible[cur.at]) = cur.key
  BY <1>1 DEF OnItsWay
<1>4. SUFFICES Robbed' \/ RowsOfCard' \/ RowsOfAnother'
  <2>1. ASSUME RowsOfCard' \/ RowsOfAnother' PROVE OnItsWay'
    BY <1>1, <1>2, <1>3, <2>1 DEF OnItsWay
  <2> QED BY <2>1
<1>5. \A i \in DOMAIN Visible : Visible[i] \in Range(List) /\ IsCard(Visible[i])
  BY ThePage
<1> DEFINE card == Visible[cur.at]
<1>6. CASE Opened
  <2>1. /\ cur.at \in DOMAIN Visible /\ cur'.html = card /\ cur'.found = <<>>
        /\ Range(cur'.found) = {} /\ cur'.rows \subseteq Brokers(card)
    BY <1>6 DEF Opened
  <2>2. card \in Range(List) /\ (Key(card) = cur.key \/ (view = top /\ Key(card) \notin seen))
    <3>1. Key(card) \in {cur.key} \cup ({Key(c) : c \in Range(List)} \ seen)
      BY <1>1, <1>6, <2>1 DEF OnItsWay, Opened
    <3>2. view = top \/ Key(card) = cur.key
      BY <1>3
    <3> QED BY <1>5, <2>1, <3>1, <3>2
  <2> HIDE DEF card
  <2>3. CASE Key(card) = cur.key
    <3>1. RowsOfCard'
      BY <1>1, <1>2, <2>1, <2>2, <2>3 DEF RowsOfCard
    <3> QED BY <3>1
  <2>4. CASE view = top /\ Key(card) \notin seen
    <3>1. Visible'[cur'.at] = card
      BY <1>1 DEF card
    <3>2. RowsOfAnother'
      BY <1>1, <1>2, <2>1, <2>4, <3>1 DEF RowsOfAnother
    <3> QED BY <3>2
  <2> QED BY <2>2, <2>3, <2>4
<1>7. ASSUME pc # "card" PROVE RowsOfCard \/ RowsOfAnother
  BY <1>1, <1>7 DEF OnItsWay
<1>8. CASE Read
  <2>1. /\ pc # "card" /\ cur.at \in DOMAIN Visible /\ cur'.html = cur.html
        /\ cur'.found = cur.found /\ cur'.rows \subseteq cur.rows \cup Brokers(card)
    BY <1>8 DEF Read
  <2>2. CASE RowsOfCard
    <3>1. RowsOfCard'
      BY <1>1, <1>2, <2>1, <2>2 DEF RowsOfCard
    <3> QED BY <3>1
  <2>3. CASE RowsOfAnother
    <3>1. RowsOfAnother'
      BY <1>1, <1>2, <2>1, <2>3 DEF RowsOfAnother
    <3> QED BY <3>1
  <2> QED BY <1>7, <2>1, <2>2, <2>3
<1>9. CASE Passed
  <2>1. /\ pc # "card" /\ cur'.html = cur.html /\ cur'.found = cur.found /\ cur'.rows = cur.rows
    BY <1>9 DEF Passed
  <2>2. CASE RowsOfCard
    <3>1. RowsOfCard'
      BY <1>1, <1>2, <2>1, <2>2 DEF RowsOfCard
    <3> QED BY <3>1
  <2>3. CASE RowsOfAnother
    <3>1. RowsOfAnother'
      BY <1>1, <1>2, <2>1, <2>3 DEF RowsOfAnother
    <3> QED BY <3>1
  <2> QED BY <1>7, <2>1, <2>2, <2>3
<1>10. CASE \E a : Visited(a)
  <2>1. PICK a : /\ pc = "visit" /\ a \in cur.rows /\ a \notin articles
                 /\ articles' = articles \cup {a}
                 /\ cur'.html = cur.html /\ cur'.rows = cur.rows
                 /\ Range(cur'.found) = Range(cur.found) \cup {a}
    BY <1>10 DEF Visited
  \* an article of a card on the screen that is still to be taken
  <2>2. ASSUME view = top, cur.at \in DOMAIN Visible, a \in Brokers(card), Key(card) \notin seen
        PROVE  Robbed'
    <3>1. cur.at \in Unseen'
      BY <1>1, <2>2 DEF Unseen
    <3>2. Brokers(Visible'[cur.at]) \cap articles' # {}
      BY <1>1, <2>1, <2>2
    <3>3. view' = top' /\ pc' \in InHand \cup {"look"}
      BY <1>1, <1>2, <2>2
    <3> QED BY <3>1, <3>2, <3>3 DEF Robbed
  <2>3. CASE RowsOfCard
    <3>1. CASE a \in Brokers(cur.html)
      <4>1. RowsOfCard'
        BY <1>1, <1>2, <2>1, <2>3, <3>1 DEF RowsOfCard
      <4> QED BY <4>1
    <3>2. CASE a \notin Brokers(cur.html)
      <4>1. cur.at \in DOMAIN Visible /\ a \in Brokers(card)
        BY <2>1, <2>3, <3>2 DEF RowsOfCard
      <4>2. card \in Range(List)
        BY <1>5, <4>1
      <4>3. cur.html \in Range(List) /\ Key(cur.html) = cur.key
        BY <2>3 DEF RowsOfCard
      <4> HIDE DEF card
      <4>4. Key(card) # cur.key
        BY <3>2, <4>1, <4>2, <4>3, KeyTellsCard
      <4>5. view = top
        BY <1>3, <4>4 DEF card
      <4>6. Key(card) \notin seen
        BY <1>1, <2>1, <4>1, <4>2, <4>4, SeenIsCollected
      <4> QED BY <2>2, <4>1, <4>5, <4>6
    <3> QED BY <3>1, <3>2
  <2>4. CASE RowsOfAnother
    BY <2>1, <2>2, <2>4 DEF RowsOfAnother
  <2> QED BY <1>7, <2>1, <2>3, <2>4
<1> QED BY <1>1, <1>6, <1>8, <1>9, <1>10

\* A group that is closed is complete with the brokers of its card, or it is not.
LEMMA ClosingOnItsWay ==
  ASSUME CollectorTypeOK, ArticlesAreHeldOnce, CloseGroup, Still, IsFull, OnItsWay
  PROVE  Doomed' \/ OnItsWay'
<1>1. /\ UNCHANGED <<site, screen, seen, articles>>
      /\ pc = "visit" /\ pc' = "look"
      /\ IsInjective(cur.found) /\ cur.found \in Seq(cur.rows)
      /\ \E n, g : /\ n \in DOMAIN groups' /\ groups'[n] = g
                   /\ g.card = cur.html /\ g.articles = cur.found
                   /\ \A i \in DOMAIN groups' :
                        (i \in DOMAIN groups /\ groups'[i] = groups[i]) \/ i = n
                   /\ \A i \in DOMAIN groups : i \in DOMAIN groups' /\ groups'[i] = groups[i]
  BY WhatClosingDoes
<1>2. PICK n, g : /\ n \in DOMAIN groups' /\ groups'[n] = g
                  /\ g.card = cur.html /\ g.articles = cur.found
                  /\ \A i \in DOMAIN groups' :
                       (i \in DOMAIN groups /\ groups'[i] = groups[i]) \/ i = n
                  /\ \A i \in DOMAIN groups : i \in DOMAIN groups' /\ groups'[i] = groups[i]
  BY <1>1
<1>3. List' = List /\ pc \in InHand /\ pc' \notin InHand
  BY <1>1 DEF List, site, screen, InHand
<1>4. RowsOfCard \/ RowsOfAnother
  BY <1>1, <1>3 DEF OnItsWay
<1>5. cur.html \in Range(List)
  BY <1>4, ThePage DEF RowsOfCard, RowsOfAnother
<1>6. IsCard(g.card)
  BY <1>2, <1>5, ThePage, Listed DEF Range
<1>7. g.card.shown = Len(g.card.brokers)
  BY <1>2, <1>5 DEF Still, List, CollectorTypeOK
<1>8. Range(cur.found) \subseteq Brokers(cur.html)
  BY <1>4 DEF RowsOfCard, RowsOfAnother, Range
<1>9. g.articles \in Seq(Brokers(g.card))
  <2>1. Len(cur.found) \in Nat /\ cur.found \in [1..Len(cur.found) -> Range(cur.found)]
    BY <1>1, LenProperties DEF Range
  <2>2. cur.found \in [1..Len(cur.found) -> Brokers(cur.html)]
    BY <1>8, <2>1
  <2>3. cur.found \in Seq(Brokers(cur.html))
    BY <2>1, <2>2, SeqDef
  <2> QED BY <1>2, <2>3
<1>10. CASE ~Complete(g)
  BY <1>2, <1>10 DEF Doomed
<1>11. CASE Complete(g)
  <2>1. Own(g)
    BY <1>1, <1>2, <1>6, <1>7, <1>9, <1>11, OwnWhenComplete
  <2>2. ~RowsOfAnother
    <3>1. Brokers(g.card) # {}
      BY <1>6, SomeBroker
    <3>2. cur.found # <<>>
      BY <1>2, <2>1, <3>1 DEF Own, Range
    <3> QED BY <3>2 DEF RowsOfAnother
  <2>3. Key(g.card) = cur.key
    BY <1>2, <1>4, <2>2 DEF RowsOfCard
  <2>4. \A i \in DOMAIN groups' : groups'[i].card \in Range(List) /\ Own(groups'[i])
    BY <1>2, <1>5, <2>1 DEF OnItsWay
  <2>5. seen \subseteq {Key(groups'[i].card) : i \in DOMAIN groups'}
    <3>1. seen \subseteq {Key(groups[i].card) : i \in DOMAIN groups} \cup {cur.key}
      BY <1>3 DEF OnItsWay
    <3>2. {Key(groups[i].card) : i \in DOMAIN groups} \subseteq
            {Key(groups'[i].card) : i \in DOMAIN groups'}
      BY <1>2
    <3>3. cur.key \in {Key(groups'[i].card) : i \in DOMAIN groups'}
      BY <1>2, <2>3
    <3> QED BY <3>1, <3>2, <3>3
  <2>6. OnItsWay'
    BY <1>1, <1>3, <2>4, <2>5 DEF OnItsWay
  <2> QED BY <2>6
<1> QED BY <1>10, <1>11

\* A card is taken.
LEMMA TakingOnItsWay ==
  ASSUME CollectorTypeOK, TakeCard, OnItsWay
  PROVE  OnItsWay'
<1>1. UNCHANGED <<site, screen, groups>> /\ pc = "look" /\ pc' = "card"
  BY DEF TakeCard
<1>2. List' = List /\ Visible' = Visible /\ view' = view /\ top' = top
  BY <1>1 DEF List, Visible, site, screen
<1>3. PICK i \in Unseen :
        /\ seen' = seen \cup {Key(Visible[i])}
        /\ cur' = [key |-> Key(Visible[i]), at |-> i, html |-> None, attached |-> 0,
                   rows |-> {}, todo |-> {}, found |-> <<>>, warned |-> FALSE]
  BY DEF TakeCard
<1>4. i \in DOMAIN Visible /\ cur'.key = Key(Visible[i]) /\ cur'.at = i
  BY <1>3 DEF Unseen
<1>5. Visible'[cur'.at] = Visible[i] /\ cur'.at \in DOMAIN Visible'
  BY <1>2, <1>4
<1>6. seen \subseteq {Key(groups[k].card) : k \in DOMAIN groups}
  BY <1>1 DEF OnItsWay, InHand
<1>7. seen' \subseteq {Key(groups'[k].card) : k \in DOMAIN groups'} \cup {cur'.key}
  BY <1>1, <1>3, <1>4, <1>6
<1>8. \A k \in DOMAIN groups' : groups'[k].card \in Range(List') /\ Own(groups'[k])
  BY <1>1, <1>2 DEF OnItsWay
<1>9. Key(Visible'[cur'.at]) = cur'.key
  BY <1>4, <1>5
<1> QED BY <1>1, <1>5, <1>7, <1>8, <1>9 DEF OnItsWay, InHand

\* The list is rendered while a card is in hand: another one is in its place.
LEMMA RenderingOnItsWay ==
  ASSUME CollectorTypeOK, ArticlesAreHeldOnce, Render, OnItsWay, ~Alike, CollectorTypeOK'
  PROVE  Doomed' \/ OnItsWay'
<1>1. UNCHANGED <<site, tab, top, pc, groups, seen, cur, articles>> /\ view # top /\ view' = top'
  BY DEF Render, scan
<1>2. List' = List
  BY <1>1 DEF List, site
<1>3. /\ \A i \in DOMAIN groups : groups[i].card \in Range(List) /\ Own(groups[i])
      /\ seen \subseteq {Key(groups[i].card) : i \in DOMAIN groups} \cup
           (IF pc \in InHand THEN {cur.key} ELSE {})
  BY DEF OnItsWay
<1>4. CASE pc \notin InHand
  BY <1>1, <1>2, <1>3, <1>4 DEF OnItsWay
<1>5. CASE pc \in InHand /\ pc # "card"
  <2>1. cur.at \in DOMAIN Visible /\ Key(Visible[cur.at]) = cur.key
    BY <1>1, <1>5 DEF OnItsWay
  <2>2. RowsOfCard
    BY <1>1, <1>5 DEF OnItsWay, RowsOfAnother
  <2>3. Visible[cur.at] = cur.html
    BY <2>1, <2>2, ThePage, KeyTellsCard DEF RowsOfCard
  <2>4. cur.rows \subseteq Brokers(cur.html)
    BY <2>1, <2>2, <2>3 DEF RowsOfCard
  <2>5. RowsOfCard'
    BY <1>1, <1>2, <2>2, <2>4 DEF RowsOfCard
  <2> QED BY <1>1, <1>2, <1>3, <1>5, <2>5 DEF OnItsWay
<1>6. CASE pc = "card"
  <2> DEFINE moved == Visible'[cur.at]
  <2>1. CASE cur.at \notin DOMAIN Visible'
    BY <1>1, <1>2, <1>3, <1>6, <2>1 DEF OnItsWay
  <2>2. CASE cur.at \in DOMAIN Visible'
    <3>1. \A i \in DOMAIN Visible' : Visible'[i] \in Range(List') /\ IsCard(Visible'[i])
      <4> DEFINE m == IF view' + Window < Len(List') THEN view' + Window ELSE Len(List')
      <4>1. IsList(List') /\ view' \in Nat
        BY <1>1, <1>2, ThePage
      <4>2. Visible' = SubSeq(List', view' + 1, m)
        BY DEF Visible
      <4>3. m = IF view' + Window < Len(List') THEN view' + Window ELSE Len(List')
        OBVIOUS
      <4> HIDE DEF m
      <4>4. \A i \in DOMAIN Visible' : view' + i \in 1..Len(List') /\ Visible'[i] = List'[view' + i]
        BY ONLY <4>1, <4>2, <4>3, OnTheScreen
      <4> QED BY <4>1, <4>4, Listed
    <3>2. moved \in Range(List) /\ IsCard(moved)
      BY <1>2, <2>2, <3>1
    <3>3. CASE Key(moved) = cur.key \/ Key(moved) \notin seen
      <4>1. Key(Visible'[cur'.at]) \in
              {cur'.key} \cup ({Key(card) : card \in Range(List')} \ seen')
        BY <1>1, <1>2, <3>2, <3>3
      <4> HIDE DEF moved
      <4> QED BY <1>1, <1>2, <1>3, <1>6, <4>1 DEF OnItsWay
    <3>4. CASE Key(moved) # cur.key /\ Key(moved) \in seen
      <4> HIDE DEF moved
      <4>1. Brokers(moved) \subseteq articles /\ Range(cur.found) \cap Brokers(moved) = {}
        BY <1>6, <3>2, <3>4, SeenIsCollected DEF InHand
      <4>2. (Brokers(moved) \cap articles) \ Range(cur.found) # {}
        BY <3>2, <4>1, SomeBroker
      <4>3. InHandRobbed'
        BY <1>1, <1>6, <2>2, <4>2 DEF moved, InHandRobbed, InHand
      <4> QED BY <4>3 DEF Doomed
    <3> QED BY <3>3, <3>4
  <2> QED BY <2>1, <2>2
<1> QED BY <1>4, <1>5, <1>6 DEF InHand

\* The step of a list that is on its way.
LEMMA OnItsWayStays ==
  ASSUME CollectorTypeOK, ArticlesAreHeldOnce, [Next]_vars, Still', IsFull',
         pc \in Scanning, pc' \in Scanning, OnItsWay, ~Alike
  PROVE  Doomed' \/ OnItsWay'
<1>1. Still /\ IsFull /\ edits = 0 /\ lists' = lists
  BY StillOne
<1>2. \/ UNCHANGED vars
      \/ NothingToTake \/ ScrollOn \/ EndOfList \/ Settle
      \/ TakeCard \/ Handling \/ CloseGroup \/ Render
  <2>1. ~ReadPanel /\ ~CheckGroups /\ ~Finish /\ ~SwitchTradeType /\ ~Raise
    BY DEF ReadPanel, CheckGroups, Finish, SwitchTradeType, Raise, Scanning, InHand
  <2>2. ~\E t \in TradeTypes : \E list : IsList(list) /\ Edited(t, list)
    BY <1>1 DEF Edited, Still
  <2> QED BY <2>1, <2>2, StepCases DEF Scan
<1>3. CASE NothingToTake \/ ScrollOn \/ EndOfList \/ Settle
  <2>1. UNCHANGED <<site, tab, groups, seen>> /\ pc \notin InHand /\ pc' \notin InHand
    BY <1>3 DEF NothingToTake, ScrollOn, EndOfList, Settle, InHand, screen, scan
  <2>2. List' = List
    BY <2>1 DEF List, site
  <2>3. OnItsWay'
    BY <2>1, <2>2 DEF OnItsWay
  <2> QED BY <2>3
<1>4. CASE UNCHANGED vars
  <2>1. OnItsWay'
    BY <1>4 DEF vars, site, screen, scan, OnItsWay, RowsOfCard, RowsOfAnother, Visible, List
  <2> QED BY <2>1
<1>5. CASE TakeCard
  BY <1>5, TakingOnItsWay
<1>6. CASE Handling
  <2>1. Robbed' \/ OnItsWay'
    BY <1>1, <1>6, HandlingOnItsWay
  <2> QED BY <2>1 DEF Doomed
<1>7. CASE CloseGroup
  BY <1>1, <1>7, ClosingOnItsWay
<1>8. CASE Render
  BY <1>8, RenderingOnItsWay, TypeStep
<1> QED BY <1>2, <1>3, <1>4, <1>5, <1>6, <1>7, <1>8

LEMMA RightStep ==
  ASSUME CollectorInv, [Next]_vars
  PROVE  ListingsAreRight'
<1> USE DEF CollectorInv
<1> SUFFICES ASSUME IsFull', Still'
             PROVE  /\ \A i \in DOMAIN listings' : Own(listings'[i].group)
                    /\ pc' \in Scanning => Doomed' \/ OnItsWay'
  BY DEF ListingsAreRight
<1>1. Still /\ IsFull /\ edits = 0 /\ lists' = lists
  BY StillOne
<1>2. /\ \A i \in DOMAIN listings : Own(listings[i].group)
      /\ pc \in Scanning => Doomed \/ OnItsWay
  BY <1>1 DEF ListingsAreRight
<1>3. \A i \in DOMAIN listings' : Own(listings'[i].group)
  <2>1. CASE UNCHANGED listings
    BY <1>2, <2>1
  <2>2. CASE CheckGroups /\ ~UNCHANGED listings
    <3>1. HandsOver
      BY <2>2, ChecksHandOver DEF payload
    <3>2. /\ pc = "check" /\ Len(groups) >= latest /\ \A i \in DOMAIN groups : Complete(groups[i])
      BY <1>1, <2>2 DEF CheckGroups, payload
    <3>3. OnItsWay
      BY <1>1, <1>2, <3>2, NotDoomedAtTheEnd DEF Scanning
    <3>4. \A i \in DOMAIN groups : Own(groups[i])
      BY <3>3 DEF OnItsWay
    <3> QED BY <1>2, <3>1, <3>4 DEF HandsOver, Handed
  <2>3. CheckGroups \/ UNCHANGED listings
    BY StepCases DEF vars, Scan, ReadPanel, NothingToTake, ScrollOn, EndOfList, Settle, Finish,
      SwitchTradeType, TakeCard, Handling, ReadCard, ReadRows, SkipArticle, CollectArticle,
      DetailParseFails, CloseGroup, Raise, Render, Edited, payload
  <2> QED BY <2>1, <2>2, <2>3
<1>4. ASSUME pc' \in Scanning PROVE Doomed' \/ OnItsWay'
  <2>1. CASE pc \in Scanning
    <3>1. CASE Doomed
      BY <1>4, <2>1, <3>1, DoomedStays
    <3>2. CASE ~Doomed
      <4>1. OnItsWay /\ ~Alike
        BY <1>2, <2>1, <3>2 DEF Doomed
      <4> QED BY <1>4, <2>1, <4>1, OnItsWayStays
    <3> QED BY <3>1, <3>2
  <2>2. CASE pc \notin Scanning
    <3>1. SwitchTradeType
      BY <1>4, <2>2, StepCases DEF vars, Scan, ReadPanel, NothingToTake, ScrollOn, EndOfList,
        Settle, CheckGroups, Finish, TakeCard, Handling, ReadCard, ReadRows, SkipArticle,
        CollectArticle, DetailParseFails, CloseGroup, Raise, Render, Edited, Scanning, InHand
    <3>2. groups' = <<>> /\ seen' = {} /\ pc' = "look" /\ DOMAIN groups' = {}
      BY <3>1 DEF SwitchTradeType
    <3>3. OnItsWay'
      BY <3>2 DEF OnItsWay, InHand
    <3> QED BY <3>3
  <2> QED BY <2>1, <2>2
<1> QED BY <1>3, <1>4

\* As many groups as cards, each of another card: every card has its group.
LEMMA EveryCardHasItsGroup ==
  ASSUME CollectorTypeOK, ArticlesAreHeldOnce, OnItsWay, Len(groups) >= Len(List)
  PROVE  \A card \in Range(List) : \E k \in DOMAIN groups : groups[k].card = card
<1> DEFINE n == Len(groups)
           C == Range(List)
           f == [k \in 1..n |-> groups[k].card]
<1>1. n \in Nat /\ DOMAIN groups = 1..n
  BY LenProperties DEF CollectorTypeOK
<1>2. \A k \in DOMAIN groups : groups[k].card \in C /\ Own(groups[k]) /\ IsCard(groups[k].card)
  BY ThePage, Listed DEF OnItsWay, Range
<1>3. \A i, j \in DOMAIN groups : i # j => groups[i].card # groups[j].card
  <2> SUFFICES ASSUME NEW i \in DOMAIN groups, NEW j \in DOMAIN groups, i # j
               PROVE  groups[i].card # groups[j].card
    OBVIOUS
  <2>1. Brokers(groups[i].card) \cap Brokers(groups[j].card) = {}
    BY <1>2 DEF ArticlesAreHeldOnce, Disjoint, Own
  <2>2. Brokers(groups[i].card) # {}
    BY <1>2, SomeBroker
  <2> QED BY <2>1, <2>2
<1>4. f \in [1..n -> C] /\ \A i, j \in 1..n : f[i] = f[j] => i = j
  BY <1>1, <1>2, <1>3
<1>5. \A k \in 1..n : f[k] = groups[k].card
  OBVIOUS
<1>6. IsFiniteSet(C) /\ Cardinality(C) <= Len(List) /\ Cardinality(C) \in Nat
  <2>1. List \in Surjection(1..Len(List), C) /\ Len(List) \in Nat
    BY ThePage, LenProperties DEF IsList, Surjection, Range
  <2> DEFINE m == Len(List)
  <2> HIDE DEF m
  <2>2. IsFiniteSet(1..m) /\ Cardinality(1..m) = m
    <3>1. m \in Nat
      BY <2>1 DEF m
    <3> QED BY <3>1, FS_Interval
  <2> USE DEF m
  <2> HIDE DEF C
  <2> QED BY <2>1, <2>2, FS_Surjection, FS_CardinalityType
<1> HIDE DEF f, C, n
<1>7. f \in Injection(1..n, C)
  BY <1>4 DEF Injection, IsInjective
<1>8. IsFiniteSet(1..n) /\ Cardinality(1..n) = n
  BY <1>1, FS_Interval
<1>9. n <= Cardinality(C) /\ (n = Cardinality(C) => f \in Surjection(1..n, C))
  BY <1>6, <1>7, <1>8, FS_Injection
<1>10. f \in Surjection(1..n, C)
  <2>1. n >= Len(List) /\ Len(List) \in Nat
    BY ThePage DEF n
  <2> QED BY <1>1, <1>6, <1>9, <2>1
<1>11. \A card \in C : \E k \in 1..n : f[k] = card
  BY <1>10 DEF Surjection
<1> QED BY <1>1, <1>5, <1>11 DEF C

\* What has been handed over stays.
LEMMA HandedOverStays ==
  ASSUME CollectorTypeOK, [Next]_vars, NEW t, NEW card, IsHandedOver(t, card)
  PROVE  IsHandedOver(t, card)'
<1>1. CASE UNCHANGED listings
  BY <1>1 DEF IsHandedOver
<1>2. CASE CheckGroups
  <2>1. CASE HandsOver
    BY <2>1 DEF HandsOver, Handed, IsHandedOver
  <2> QED BY <1>1, <1>2, <2>1, ChecksHandOver DEF payload
<1>3. CheckGroups \/ UNCHANGED listings
  BY StepCases DEF vars, Scan, ReadPanel, NothingToTake, ScrollOn, EndOfList, Settle, Finish,
    SwitchTradeType, TakeCard, Handling, ReadCard, ReadRows, SkipArticle, CollectArticle,
    DetailParseFails, CloseGroup, Raise, Render, Edited, payload
<1> QED BY <1>1, <1>2, <1>3

LEMMA TurnsStep ==
  ASSUME CollectorInv, [Next]_vars
  PROVE  TurnsAreWhole'
<1> USE DEF CollectorInv
<1> SUFFICES ASSUME IsFull', Still', pc' # "failed"
             PROVE  /\ pc' = "panel" => turn' = 0
                    /\ pc' \in Scanning => turn' \in DOMAIN Trades /\ tab' = Trades[turn']
                    /\ \A k \in 1..turn' :
                         (pc' \in Scanning => k # turn') /\ counts'[Trades[k]] # None =>
                           \A card \in Range(lists'[Trades[k]]) : IsHandedOver(Trades[k], card)'
                    /\ pc' = "done" => \A k \in DOMAIN Trades :
                         k > turn' /\ counts'[Trades[k]] # None => lists'[Trades[k]] = <<>>
  BY DEF TurnsAreWhole
<1>1. Still /\ IsFull /\ edits = 0 /\ lists' = lists
  BY StillOne
<1>2. pc # "failed"
  BY StepCases DEF vars, Scan, ReadPanel, NothingToTake, ScrollOn, EndOfList, Settle, CheckGroups,
    Finish, SwitchTradeType, TakeCard, Handling, ReadCard, ReadRows, SkipArticle, CollectArticle,
    DetailParseFails, CloseGroup, Raise, Render, Edited, Running
<1>3. /\ pc = "panel" => turn = 0
      /\ pc \in Scanning => turn \in DOMAIN Trades /\ tab = Trades[turn]
      /\ \A k \in 1..turn : (pc \in Scanning => k # turn) /\ counts[Trades[k]] # None =>
           \A card \in Range(lists[Trades[k]]) : IsHandedOver(Trades[k], card)
      /\ pc = "done" => \A k \in DOMAIN Trades :
           k > turn /\ counts[Trades[k]] # None => lists[Trades[k]] = <<>>
  BY <1>1, <1>2 DEF TurnsAreWhole
<1>4. DOMAIN Trades = 1..Len(Trades) /\ Len(Trades) \in Nat /\ turn \in Nat
      /\ \A k \in DOMAIN Trades : Trades[k] \in TradeTypes
  BY PageAssumption, LenProperties DEF CollectorTypeOK, TradeTypes, Range
<1>5. ASSUME NEW t \in TradeTypes, ~IsListed(t), counts[t] # None
      PROVE  lists[t] = <<>>
  <2>1. Len(lists[t]) = 0
    BY <1>1, <1>5 DEF CountsAreCurrent, IsListed
  <2> QED BY <2>1, EmptySeq DEF CollectorTypeOK, IsList
<1>6. CASE UNCHANGED <<turn, tab, counts>> /\ (pc \in Scanning <=> pc' \in Scanning)
           /\ (pc' = "done" => pc = "done") /\ (pc' = "panel" => pc = "panel")
  BY <1>1, <1>3, <1>6, HandedOverStays
<1>7. CASE SwitchTradeType
  <2>1. PICK i \in DOMAIN Trades :
          /\ i > turn /\ turn' = i /\ tab' = Trades[i]
          /\ \A j \in DOMAIN Trades : j > turn /\ IsListed(Trades[j]) => i <= j
    BY <1>7 DEF SwitchTradeType
  <2>2. pc = "switch" /\ pc' = "look" /\ counts' = counts
    BY <1>7 DEF SwitchTradeType
  <2>3. ASSUME NEW k \in 1..i, k # i, counts[Trades[k]] # None,
               NEW card \in Range(lists[Trades[k]])
        PROVE  IsHandedOver(Trades[k], card)
    <3>1. CASE k \in 1..turn
      BY <1>3, <2>2, <2>3, <3>1 DEF Scanning, InHand
    <3>2. CASE k \notin 1..turn
      <4>1. k \in DOMAIN Trades /\ k > turn /\ ~(i <= k)
        BY <1>4, <2>1, <2>3, <3>2
      <4>2. Trades[k] \in TradeTypes /\ ~IsListed(Trades[k])
        BY <1>4, <2>1, <4>1
      <4>3. lists[Trades[k]] = <<>>
        BY <1>5, <2>3, <4>2
      <4>4. Range(lists[Trades[k]]) = {}
        BY <4>3 DEF Range
      <4> QED BY <2>3, <4>4
    <3> QED BY <3>1, <3>2
  <2>4. \A k \in 1..turn' : k # turn' /\ counts'[Trades[k]] # None =>
          \A card \in Range(lists'[Trades[k]]) : IsHandedOver(Trades[k], card)'
    BY <1>1, <2>1, <2>2, <2>3, HandedOverStays
  <2> QED BY <2>1, <2>2, <2>4 DEF Scanning, InHand
<1>8. CASE CheckGroups
  <2>1. /\ UNCHANGED <<turn, tab>> /\ pc = "check" /\ pc' = "switch" /\ HandsOver
        /\ Len(groups) >= latest /\ \A i \in DOMAIN groups : Complete(groups[i])
    BY <1>1, <1>8, ChecksHandOver DEF CheckGroups, screen
  <2>2. pc \in Scanning /\ pc' \notin Scanning \cup {"done", "panel"}
    BY <2>1 DEF Scanning, InHand
  <2>3. OnItsWay
    BY <1>1, <2>1, <2>2, NotDoomedAtTheEnd DEF ListingsAreRight
  <2>4. latest = Len(List)
    BY <1>1, <2>2 DEF CountsAreCurrent
  <2>5. \A card \in Range(List) : \E k \in DOMAIN groups : groups[k].card = card
    BY <2>1, <2>3, <2>4, EveryCardHasItsGroup
  <2>6. ASSUME NEW card \in Range(List) PROVE IsHandedOver(tab, card)'
    <3>1. PICK k \in DOMAIN groups : groups[k].card = card
      BY <2>5, <2>6
    <3>2. PICK i \in DOMAIN listings' : listings'[i].trade = tab /\ listings'[i].group = groups[k]
      BY <2>1 DEF HandsOver, Handed
    <3> QED BY <2>1, <3>1, <3>2 DEF IsHandedOver
  <2>7. ASSUME NEW k \in 1..turn, counts'[Trades[k]] # None, NEW card \in Range(lists[Trades[k]])
        PROVE  IsHandedOver(Trades[k], card)'
    <3>1. CASE Trades[k] = tab
      <4>1. IsHandedOver(tab, card)'
        BY <2>6, <2>7, <3>1 DEF List
      <4> QED BY <2>1, <3>1, <4>1 DEF IsHandedOver
    <3>2. CASE Trades[k] # tab
      <4>1. counts[Trades[k]] # None /\ k # turn
        BY <1>3, <1>8, <2>2, <2>7, <3>2 DEF CheckGroups
      <4>2. IsHandedOver(Trades[k], card)
        BY <1>3, <2>7, <4>1
      <4> QED BY <4>2, HandedOverStays
    <3> QED BY <3>1, <3>2
  <2> QED BY <1>1, <2>1, <2>2, <2>7
<1>9. CASE Finish
  <2>1. /\ UNCHANGED <<turn, counts>> /\ pc = "switch" /\ pc' = "done"
        /\ \A i \in DOMAIN Trades : i > turn => ~IsListed(Trades[i])
    BY <1>9 DEF Finish
  <2>2. \A i \in DOMAIN Trades : i > turn /\ counts[Trades[i]] # None => lists[Trades[i]] = <<>>
    BY <1>4, <1>5, <2>1
  <2>3. pc \notin Scanning /\ pc' \notin Scanning
    BY <2>1 DEF Scanning, InHand
  <2> QED BY <1>1, <1>3, <2>1, <2>2, <2>3, HandedOverStays
<1>10. CASE ReadPanel
  <2>1. pc = "panel" /\ pc' = "switch" /\ turn' = turn
    BY <1>10 DEF ReadPanel
  <2>2. turn' = 0 /\ 1..turn' = {}
    BY <1>3, <2>1
  <2> QED BY <2>1, <2>2 DEF Scanning, InHand
<1>11. CASE \/ UNCHANGED vars \/ NothingToTake \/ ScrollOn \/ EndOfList \/ Settle
            \/ TakeCard \/ Handling \/ CloseGroup \/ Render
  <2>1. UNCHANGED <<turn, tab, counts>>
    BY <1>11 DEF vars, NothingToTake, ScrollOn, EndOfList, Settle, TakeCard, Handling, ReadCard,
      ReadRows, SkipArticle, CollectArticle, DetailParseFails, CloseGroup, Render, screen
  <2>2. /\ pc \in Scanning <=> pc' \in Scanning
        /\ (pc' = "done" => pc = "done") /\ (pc' = "panel" => pc = "panel")
    BY <1>2, <1>11 DEF vars, NothingToTake, ScrollOn, EndOfList, Settle, TakeCard, Handling,
      ReadCard, ReadRows, SkipArticle, CollectArticle, DetailParseFails, CloseGroup, Render,
      Scanning, InHand
  <2> QED BY <1>6, <2>1, <2>2
<1>12. ~Raise /\ ~\E t \in TradeTypes : \E list : IsList(list) /\ Edited(t, list)
  BY <1>1 DEF Raise, Edited, Still
<1> QED BY <1>7, <1>8, <1>9, <1>10, <1>11, <1>12, StepCases DEF Scan

-----------------------------------------------------------------------------
(* A page that changes                                                     *)

\* The groups stay as they are, and so does the one in hand.
Resting ==
  /\ UNCHANGED <<groups, listings>>
  /\ pc' \in InHand => pc' = pc /\ cur' = cur
  /\ pc' \in Scanning => pc \in Scanning /\ tab' = tab

LEMMA MostlyResting ==
  ASSUME CollectorTypeOK, [Next]_vars
  PROVE  \/ Resting
         \/ SwitchTradeType \/ TakeCard \/ Handling \/ CloseGroup
         \/ CheckGroups /\ HandsOver
<1>1. CASE UNCHANGED vars
  BY <1>1 DEF vars, scan, screen, payload, Resting
<1>2. CASE Scan
  <2>1. CASE CheckGroups
    BY <2>1, ChecksHandOver DEF CheckGroups, Resting, payload, scan, screen, InHand, Scanning
  <2>2. CASE ~CheckGroups
    BY <1>2, <2>2 DEF Scan, ReadPanel, NothingToTake, ScrollOn, EndOfList, Settle, Finish,
      Resting, payload, scan, screen, InHand, Scanning
  <2> QED BY <2>1, <2>2
<1>3. CASE Raise \/ Render
  BY <1>3 DEF Raise, Render, Resting, scan, screen, payload, InHand, Scanning
<1>4. CASE \E t \in TradeTypes : \E list : IsList(list) /\ Edited(t, list)
  BY <1>4 DEF Edited, Resting, scan, payload
<1> QED BY <1>1, <1>2, <1>3, <1>4, StepCases

\* A card has brokers, and not too many of them.
LEMMA FewBrokers ==
  ASSUME NEW card, IsCard(card)
  PROVE  /\ IsFiniteSet(Brokers(card)) /\ Brokers(card) # {}
         /\ Cardinality(Brokers(card)) \in Nat
         /\ Cardinality(Brokers(card)) <= Len(card.brokers)
         /\ Len(card.brokers) \in Nat /\ Len(card.brokers) <= MostBrokers
<1> DEFINE b == card.brokers
           n == Len(b)
           B == Brokers(card)
<1>1. n \in Nat /\ n <= MostBrokers
  BY LenProperties DEF IsCard
<1>2. b \in Surjection(1..n, B)
  BY LenProperties DEF IsCard, Surjection, Brokers, Range
<1>3. B # {}
  BY SomeBroker
<1> HIDE DEF n, B, b
<1>4. IsFiniteSet(1..n) /\ Cardinality(1..n) = n
  BY <1>1, FS_Interval
<1>5. IsFiniteSet(B) /\ Cardinality(B) <= n /\ Cardinality(B) \in Nat
  BY <1>2, <1>4, FS_Surjection, FS_CardinalityType
<1> QED BY <1>1, <1>3, <1>5 DEF n, b, B

LEMMA ReadStep ==
  ASSUME CollectorInv, [Next]_vars
  PROVE  GroupsAreRead'
<1> USE DEF CollectorInv
<1>1. CASE Resting
  BY <1>1 DEF Resting, GroupsAreRead, InHand
<1>2. CASE SwitchTradeType
  <2>1. UNCHANGED listings /\ DOMAIN groups' = {} /\ pc' \notin InHand
    BY <1>2 DEF SwitchTradeType, payload, InHand
  <2> QED BY <2>1 DEF GroupsAreRead, InHand
<1>3. CASE TakeCard
  <2>1. UNCHANGED <<groups, listings>> /\ pc' = "card" /\ cur'.attached = 0 /\ cur'.rows = {}
    BY <1>3 DEF TakeCard, payload
  <2> QED BY <2>1, FS_EmptySet DEF GroupsAreRead
<1>4. CASE Handling
  <2>1. /\ UNCHANGED <<groups, listings>> /\ pc \in InHand /\ pc' \in InHand \ {"card"}
        /\ Opened \/ Read \/ Passed \/ \E a : Visited(a)
    BY <1>4, WhatHandlingDoes
  <2>2. cur.attached \in Nat /\ IsFiniteSet(cur.rows)
    BY <2>1 DEF GroupsAreRead
  <2>3. CASE Opened
    <3> DEFINE card == Visible[cur.at]
    <3>1. /\ cur'.html = card /\ cur'.attached = cur.attached /\ cur'.rows \subseteq Brokers(card)
          /\ pc' = "visit" => cur'.rows = Brokers(card)
          /\ IsCard(card)
      BY <2>3 DEF Opened
    <3> HIDE DEF card
    <3>2. IsFiniteSet(cur'.rows) /\ Brokers(card) # {}
      BY <3>1, FewBrokers, FS_Subset
    <3>3. cur'.html.shown # 0
      BY <3>1 DEF IsCard
    <3> QED BY <2>1, <2>2, <3>1, <3>2, <3>3 DEF GroupsAreRead
  <2>4. CASE Read
    <3> DEFINE card == Visible[cur.at]
    <3>1. /\ pc = "rows" /\ cur'.html = cur.html /\ cur'.rows \subseteq cur.rows \cup Brokers(card)
          /\ IsCard(card) /\ cur'.attached \in Nat /\ cur'.rows # {}
      BY <2>2, <2>4 DEF Read
    <3> HIDE DEF card
    <3>2. IsFiniteSet(cur.rows \cup Brokers(card))
      BY <2>2, <3>1, FewBrokers, FS_Union
    <3>3. IsFiniteSet(cur'.rows)
      BY <3>1, <3>2, FS_Subset
    <3> QED BY <2>1, <3>1, <3>3 DEF GroupsAreRead
  <2>5. CASE Passed \/ \E a : Visited(a)
    <3>1. /\ pc' = pc /\ cur'.html = cur.html /\ cur'.rows = cur.rows
          /\ cur'.attached = cur.attached
      BY <2>5 DEF Passed, Visited
    <3> QED BY <2>1, <2>2, <3>1 DEF GroupsAreRead
  <2> QED BY <2>1, <2>3, <2>4, <2>5
<1>5. CASE CloseGroup
  <2>1. UNCHANGED listings /\ pc' \notin InHand
    BY <1>5 DEF CloseGroup, payload, InHand
  <2>2. /\ pc = "visit" /\ cur.found \in Seq(cur.rows)
        /\ \E n, g : /\ g.card = cur.html /\ g.articles = cur.found /\ g.rows = cur.rows
                     /\ groups'[n] = g
                     /\ \A i \in DOMAIN groups' :
                          (i \in DOMAIN groups /\ groups'[i] = groups[i]) \/ i = n
    BY <1>5, WhatClosingDoes
  <2>3. PICK n, g : /\ g.card = cur.html /\ g.articles = cur.found /\ g.rows = cur.rows
                    /\ groups'[n] = g
                    /\ \A i \in DOMAIN groups' :
                         (i \in DOMAIN groups /\ groups'[i] = groups[i]) \/ i = n
    BY <2>2
  <2>4. cur.html.shown # 0 /\ IsFiniteSet(cur.rows) /\ cur.rows # {}
    BY <2>2 DEF GroupsAreRead, InHand
  <2>5. IsRead(g)
    BY <2>2, <2>3, <2>4, FS_EmptySet DEF IsRead, ExpectedBrokers
  <2> QED BY <2>1, <2>3, <2>5 DEF GroupsAreRead, InHand
<1>6. CASE CheckGroups /\ HandsOver
  <2>1. UNCHANGED groups /\ pc' \notin InHand
    BY <1>6 DEF CheckGroups, scan, InHand
  <2>2. \A i \in DOMAIN listings' :
          \/ i \in DOMAIN listings /\ listings'[i] = listings[i]
          \/ \E k \in DOMAIN groups : listings'[i].group = groups[k]
    BY <1>6 DEF HandsOver, Handed
  <2> QED BY <2>1, <2>2 DEF GroupsAreRead, InHand
<1> QED BY <1>1, <1>2, <1>3, <1>4, <1>5, <1>6, MostlyResting

\* The end of the list is where a full collection comes to the check.
LEMMA EndsAreKept ==
  ASSUME CollectorTypeOK, [Next]_vars
  PROVE  /\ atEnd' = atEnd \/ (EndOfList /\ atEnd' = [atEnd EXCEPT ![tab] = List])
         /\ IsFull /\ pc' = "check" =>
              \/ pc = "check" /\ latest' = latest /\ atEnd' = atEnd
              \/ EndOfList /\ latest' = Len(List) /\ atEnd' = [atEnd EXCEPT ![tab] = List]
<1>1. CASE EndOfList
  BY <1>1 DEF EndOfList
<1>2. CASE NothingToTake \/ CloseGroup
  <2>1. IsFull => pc' # "check"
    BY <1>2 DEF NothingToTake, CloseGroup, IsFull, ShouldScan
  <2> QED BY <1>2, <2>1 DEF NothingToTake, CloseGroup
<1>3. CASE \/ UNCHANGED vars \/ Raise \/ Render
           \/ \E t \in TradeTypes : \E list : IsList(list) /\ Edited(t, list)
  BY <1>3 DEF vars, Raise, Render, Edited, scan
<1>4. CASE \/ ReadPanel \/ SwitchTradeType \/ TakeCard \/ ScrollOn \/ Settle \/ CheckGroups
           \/ Finish
  BY <1>4 DEF ReadPanel, SwitchTradeType, TakeCard, ScrollOn, Settle, CheckGroups, Finish
<1>5. CASE Handling
  BY <1>5 DEF Handling, ReadCard, ReadRows, SkipArticle, CollectArticle, DetailParseFails
<1> QED BY <1>1, <1>2, <1>3, <1>4, <1>5, StepCases DEF Scan

Of(t) == {i \in DOMAIN listings : listings[i].trade = t}

\* Listings are only added: of the type that is checked, as many as there are groups.
LEMMA ListingsAreAdded ==
  ASSUME CollectorTypeOK, CollectorTypeOK', [Next]_vars, NEW t
  PROVE  /\ Cardinality(Of(t)) \in Nat /\ Cardinality(Of(t)') \in Nat
         /\ Cardinality(Of(t)) <= Cardinality(Of(t)')
         /\ CheckGroups /\ HandsOver /\ t = tab => Len(groups) <= Cardinality(Of(t)')
<1>1. IsFiniteSet(Of(t)) /\ IsFiniteSet(Of(t)')
  <2>1. /\ DOMAIN listings = 1..Len(listings) /\ Len(listings) \in Nat
        /\ DOMAIN listings' = 1..Len(listings') /\ Len(listings') \in Nat
    BY LenProperties DEF CollectorTypeOK
  <2>2. IsFiniteSet(DOMAIN listings) /\ IsFiniteSet(DOMAIN listings')
    BY <2>1, FS_Interval
  <2> QED BY <2>2, FS_Subset DEF Of
<1>2. Of(t) \subseteq Of(t)'
  <2>1. CASE UNCHANGED listings
    BY <2>1 DEF Of
  <2>2. CASE HandsOver
    BY <2>2 DEF HandsOver, Handed, Of
  <2>3. UNCHANGED listings \/ HandsOver
    <3>1. CASE SwitchTradeType \/ TakeCard \/ CloseGroup
      BY <3>1 DEF SwitchTradeType, TakeCard, CloseGroup, payload
    <3>2. CASE Handling
      BY <3>2, WhatHandlingDoes
    <3> QED BY <3>1, <3>2, MostlyResting DEF Resting
  <2> QED BY <2>1, <2>2, <2>3
<1>3. ASSUME HandsOver, t = tab PROVE Len(groups) <= Cardinality(Of(t)')
  <2> DEFINE n == Len(groups)
             l == Len(listings)
             f == [k \in 1..n |-> l + k]
             S == Of(t)'
  <2>1. n \in Nat /\ DOMAIN groups = 1..n /\ l \in Nat
    BY LenProperties DEF CollectorTypeOK
  <2>2. \A k \in 1..n : l + k \in S
    BY <1>3, <2>1 DEF HandsOver, Handed, Of
  <2>3. IsFiniteSet(S)
    BY <1>1
  <2> HIDE DEF n, l, S
  <2>4. f \in Injection(1..n, S)
    <3>1. f \in [1..n -> S]
      BY <2>2
    <3>2. \A i, j \in 1..n : f[i] = f[j] => i = j
      BY <2>1
    <3> HIDE DEF f
    <3> QED BY <3>1, <3>2 DEF Injection, IsInjective
  <2>5. Cardinality(1..n) = n
    BY <2>1, FS_Interval
  <2> HIDE DEF f
  <2> QED BY <2>3, <2>4, <2>5, FS_Injection DEF n, S
<1> QED BY <1>1, <1>2, <1>3, FS_CardinalityType, FS_Subset

LEMMA EndsStep ==
  ASSUME CollectorInv, CollectorTypeOK', [Next]_vars
  PROVE  EndsAreMet'
<1> USE DEF CollectorInv
<1>1. /\ atEnd' = [t \in TradeTypes |-> atEnd'[t]]
      /\ \A t \in TradeTypes : IsList(atEnd'[t])
      /\ \A t \in TradeTypes : (t = tab /\ EndOfList) \/ atEnd'[t] = atEnd[t]
      /\ EndOfList /\ atEnd' # atEnd => atEnd'[tab] = List
  <2>1. /\ atEnd = [t \in TradeTypes |-> atEnd[t]] /\ \A t \in TradeTypes : IsList(atEnd[t])
        /\ tab \in TradeTypes /\ IsList(List)
    BY ThePage DEF EndsAreMet, CollectorTypeOK
  <2>2. CASE atEnd' = atEnd
    BY <2>1, <2>2
  <2>3. CASE EndOfList /\ atEnd' = [atEnd EXCEPT ![tab] = List]
    BY <2>1, <2>3
  <2> QED BY <2>2, <2>3, EndsAreKept
<1>2. SUFFICES ASSUME IsFull', pc' # "failed"
               PROVE  /\ pc' = "check" => latest' = Len(atEnd'[tab'])
                      /\ \A t \in TradeTypes : ~(pc' \in Scanning /\ t = tab') =>
                           Len(atEnd'[t]) <= Cardinality(Of(t)')
  BY <1>1 DEF EndsAreMet, Of
<1>3. IsFull
  BY <1>2, ScopeStays
<1>4. pc # "failed"
  BY <1>2, StepCases DEF vars, Scan, ReadPanel, NothingToTake, ScrollOn, EndOfList, Settle,
    CheckGroups, Finish, SwitchTradeType, TakeCard, Handling, ReadCard, ReadRows, SkipArticle,
    CollectArticle, DetailParseFails, CloseGroup, Raise, Render, Edited, Running
<1>5. /\ pc = "check" => latest = Len(atEnd[tab])
      /\ \A t \in TradeTypes : ~(pc \in Scanning /\ t = tab) => Len(atEnd[t]) <= Cardinality(Of(t))
  BY <1>3, <1>4 DEF EndsAreMet, Of
<1>6. tab' = tab \/ SwitchTradeType
  BY StepCases DEF vars, Scan, ReadPanel, NothingToTake, ScrollOn, EndOfList, Settle,
    CheckGroups, Finish, TakeCard, Handling, ReadCard, ReadRows, SkipArticle,
    CollectArticle, DetailParseFails, CloseGroup, Raise, Render, Edited, screen
<1>7. pc' = "check" => latest' = Len(atEnd'[tab'])
  <2> SUFFICES ASSUME pc' = "check" PROVE latest' = Len(atEnd'[tab'])
    OBVIOUS
  <2>1. tab' = tab
    BY <1>6 DEF SwitchTradeType
  <2>2. tab \in TradeTypes /\ atEnd = [t \in TradeTypes |-> atEnd[t]]
    BY DEF CollectorTypeOK, EndsAreMet
  <2> QED BY <1>3, <1>5, <2>1, <2>2, EndsAreKept
<1>8. ASSUME NEW t \in TradeTypes, ~(pc' \in Scanning /\ t = tab')
      PROVE  Len(atEnd'[t]) <= Cardinality(Of(t)')
  <2>1. Len(atEnd[t]) \in Nat
    BY Listed DEF EndsAreMet
  <2>2. CASE pc \in Scanning /\ t = tab
    <3>1. CheckGroups /\ HandsOver
      <4>1. pc' \notin Scanning
        BY <1>6, <1>8, <2>2 DEF SwitchTradeType, Scanning, InHand
      <4>2. CheckGroups
        BY <1>2, <2>2, <4>1, StepCases DEF vars, Scan, ReadPanel, NothingToTake, ScrollOn,
          EndOfList, Settle, Finish, SwitchTradeType, TakeCard, Handling, ReadCard, ReadRows,
          SkipArticle, CollectArticle, DetailParseFails, CloseGroup, Raise, Render, Edited,
          Scanning, InHand
      <4> QED BY <1>2, <4>2, ChecksHandOver
    <3>2. Len(groups) >= latest /\ pc = "check" /\ atEnd' = atEnd
      BY <1>2, <1>3, <3>1, ChecksHandOver DEF CheckGroups
    <3>3. Len(groups) \in Nat
      BY LenProperties DEF CollectorTypeOK
    <3> QED BY <1>5, <2>1, <2>2, <3>1, <3>2, <3>3, ListingsAreAdded
  <2>3. CASE ~(pc \in Scanning /\ t = tab)
    <3>1. Len(atEnd[t]) <= Cardinality(Of(t))
      BY <1>5, <2>3
    <3>2. ~(t = tab /\ EndOfList)
      BY <2>3 DEF EndOfList, Scanning
    <3> QED BY <1>1, <2>1, <3>1, <3>2, ListingsAreAdded
  <2> QED BY <2>2, <2>3
<1> QED BY <1>2, <1>7, <1>8

LEMMA RangeOfPart ==
  ASSUME NEW list, IsList(list), NEW m \in Nat \ {0}, NEW n \in Int, n <= Len(list)
  PROVE  /\ SubSeq(list, m, n) \in Seq(Range(list))
         /\ \A i \in m..n : list[i] \in Range(SubSeq(list, m, n))
<1>1. \A i \in m..n : i \in 1..Len(list) /\ list[i] \in Range(list)
  BY Listed
<1>2. /\ SubSeq(list, m, n) \in Seq(Range(list))
      /\ Len(SubSeq(list, m, n)) = IF m <= n THEN n - m + 1 ELSE 0
      /\ \A i \in 1..n - m + 1 : SubSeq(list, m, n)[i] = list[m + i - 1]
  BY <1>1, SubSeqProperties
<1>3. DOMAIN SubSeq(list, m, n) = 1..Len(SubSeq(list, m, n))
  BY <1>2, LenProperties
<1> DEFINE part == SubSeq(list, m, n)
<1>4. /\ Len(part) = IF m <= n THEN n - m + 1 ELSE 0
      /\ \A i \in 1..n - m + 1 : part[i] = list[m + i - 1]
      /\ DOMAIN part = 1..Len(part)
  BY <1>2, <1>3
<1> HIDE DEF part
<1>5. ASSUME NEW i \in m..n PROVE list[i] \in Range(part)
  <2>1. i - m + 1 \in 1..n - m + 1 /\ m <= n /\ m + (i - m + 1) - 1 = i
    OBVIOUS
  <2>2. i - m + 1 \in DOMAIN part /\ part[i - m + 1] = list[i]
    BY <1>4, <2>1
  <2> QED BY <2>2 DEF Range
<1> QED BY <1>2, <1>5 DEF part

\* What a list offers when a card comes, ...
LEMMA OfferedWhenInserted ==
  ASSUME NEW list, IsList(list), NEW card, NEW i \in 1..Len(list) + 1
  PROVE  Offered(list) \subseteq Offered(InsertAt(list, i, card))
<1> DEFINE a == SubSeq(list, 1, i - 1)
           b == SubSeq(list, i, Len(list))
           S == Range(list) \cup {card}
<1>1. Len(list) \in Nat /\ DOMAIN list = 1..Len(list)
  BY Listed
<1>2. /\ a \in Seq(Range(list)) /\ \A k \in 1..i - 1 : list[k] \in Range(a)
      /\ b \in Seq(Range(list)) /\ \A k \in i..Len(list) : list[k] \in Range(b)
  BY <1>1, RangeOfPart
<1>3. a \in Seq(S) /\ b \in Seq(S) /\ <<card>> \in Seq(S)
  <2>1. card \in S
    OBVIOUS
  <2>2. a \in Seq(S) /\ b \in Seq(S)
    BY <1>2, SeqMonotonic
  <2> HIDE DEF S, a, b
  <2> QED BY <2>1, <2>2
<1>4. InsertAt(list, i, card) = (a \o <<card>>) \o b
  BY DEF InsertAt
<1> HIDE DEF a, b, S
<1>5. a \o <<card>> \in Seq(S)
  BY <1>3, ConcatProperties
<1>6. Range((a \o <<card>>) \o b) = Range(a) \cup Range(<<card>>) \cup Range(b)
  <2> DEFINE c == <<card>>
             ac == a \o c
  <2>1. c \in Seq(S) /\ ac \in Seq(S)
    BY <1>3, <1>5
  <2> HIDE DEF c
  <2>2. Range(ac) = Range(a) \cup Range(c)
    BY <1>3, <2>1, RangeConcatenation
  <2> HIDE DEF ac
  <2>3. Range(ac \o b) = Range(ac) \cup Range(b)
    BY <1>3, <2>1, RangeConcatenation
  <2> QED BY <2>2, <2>3 DEF ac, c
<1>7. Range(list) \subseteq Range(InsertAt(list, i, card))
  <2> SUFFICES ASSUME NEW k \in 1..Len(list) PROVE list[k] \in Range(a) \cup Range(b)
    BY <1>1, <1>4, <1>6 DEF Range
  <2>1. k \in 1..i - 1 \/ k \in i..Len(list)
    BY <1>1
  <2> QED BY <1>2, <2>1
<1> QED BY <1>7 DEF Offered

\* ... when one goes ...
LEMMA OfferedWhenRemoved ==
  ASSUME NEW list, IsList(list), NEW i \in 1..Len(list)
  PROVE  Offered(list) \subseteq Offered(RemoveAt(list, i)) \cup Brokers(list[i])
<1> DEFINE a == SubSeq(list, 1, i - 1)
           b == SubSeq(list, i + 1, Len(list))
<1>1. Len(list) \in Nat /\ DOMAIN list = 1..Len(list)
  BY Listed
<1>2. /\ a \in Seq(Range(list)) /\ \A k \in 1..i - 1 : list[k] \in Range(a)
      /\ b \in Seq(Range(list)) /\ \A k \in i + 1..Len(list) : list[k] \in Range(b)
  BY <1>1, RangeOfPart
<1>3. RemoveAt(list, i) = a \o b
  BY DEF RemoveAt
<1> HIDE DEF a, b
<1>4. Range(a \o b) = Range(a) \cup Range(b)
  BY <1>2, RangeConcatenation
<1>5. Range(list) \subseteq Range(RemoveAt(list, i)) \cup {list[i]}
  <2> SUFFICES ASSUME NEW k \in 1..Len(list) PROVE list[k] \in Range(a) \cup Range(b) \cup {list[i]}
    BY <1>1, <1>3, <1>4 DEF Range
  <2>1. k \in 1..i - 1 \/ k = i \/ k \in i + 1..Len(list)
    BY <1>1
  <2> QED BY <1>2, <2>1
<1> QED BY <1>5 DEF Offered

\* ... or looks different.
LEMMA OfferedWhenChanged ==
  ASSUME NEW list, IsList(list), NEW i \in 1..Len(list), NEW face
  PROVE  Offered(list) \subseteq Offered([list EXCEPT ![i].face = face])
<1> DEFINE new == [list[i] EXCEPT !.face = face]
           next == [list EXCEPT ![i] = new]
<1>1. DOMAIN list = 1..Len(list) /\ IsCard(list[i])
  BY Listed
<1>2. new.brokers = list[i].brokers
  <2>1. new = [id |-> list[i].id, face |-> face, grouped |-> list[i].grouped,
               brokers |-> list[i].brokers, shown |-> list[i].shown]
    BY <1>1 DEF IsCard
  <2> HIDE DEF new
  <2> QED BY <2>1
<1>3. next = [list EXCEPT ![i].face = face]
  OBVIOUS
<1> HIDE DEF new
<1>4. DOMAIN next = DOMAIN list
      /\ \A k \in DOMAIN list : next[k] = IF k = i THEN new ELSE list[k]
  <2>1. list = [k \in DOMAIN list |-> list[k]]
    <3>1. list \in Seq(Range(list))
      BY DEF IsList
    <3> QED BY <3>1, LenProperties
  <2> QED BY <2>1
<1> HIDE DEF next
<1>5. \A k \in DOMAIN list : k \in DOMAIN next /\ Brokers(next[k]) = Brokers(list[k])
  BY <1>2, <1>4 DEF Brokers
<1> QED BY <1>3, <1>5 DEF Offered, Range

\* A change makes no more articles go than a card has brokers.
LEMMA CostOfEdit ==
  ASSUME CollectorTypeOK, ListingComes \/ ListingGoes \/ ListingChanges
  PROVE  /\ edits' = edits + 1
         /\ \A u \in TradeTypes : \E S :
              /\ IsFiniteSet(S) /\ Cardinality(S) <= MostBrokers
              /\ Offered(lists[u]) \subseteq Offered(lists'[u]) \cup S
<1>1. \A t \in TradeTypes : IsList(lists[t]) /\ DOMAIN lists[t] = 1..Len(lists[t])
  BY Listed DEF CollectorTypeOK
<1>2. ASSUME NEW t \in TradeTypes, NEW list, Edited(t, list),
             NEW S, IsFiniteSet(S), Cardinality(S) <= MostBrokers,
             Offered(lists[t]) \subseteq Offered(list) \cup S
      PROVE  /\ edits' = edits + 1
             /\ \A u \in TradeTypes : \E T :
                  /\ IsFiniteSet(T) /\ Cardinality(T) <= MostBrokers
                  /\ Offered(lists[u]) \subseteq Offered(lists'[u]) \cup T
  <2>1. edits' = edits + 1 /\ \A u \in TradeTypes : lists'[u] = IF u = t THEN list ELSE lists[u]
    BY <1>2 DEF Edited, CollectorTypeOK
  <2>2. \A u \in TradeTypes : Offered(lists[u]) \subseteq Offered(lists'[u]) \cup S
    BY <1>2, <2>1
  <2> QED BY <1>2, <2>1, <2>2
<1>3. IsFiniteSet({}) /\ Cardinality({}) <= MostBrokers
  BY FS_EmptySet, BrokersAssumption
<1>4. CASE ListingComes
  <2>1. PICK t \in TradeTypes, card \in NewCards :
          \E i \in 1..Len(lists[t]) + 1 : Edited(t, InsertAt(lists[t], i, card))
    BY <1>4 DEF ListingComes
  <2>2. PICK i \in 1..Len(lists[t]) + 1 : Edited(t, InsertAt(lists[t], i, card))
    BY <2>1
  <2>3. Offered(lists[t]) \subseteq Offered(InsertAt(lists[t], i, card)) \cup {}
    BY <1>1, OfferedWhenInserted
  <2> QED BY <1>2, <1>3, <2>2, <2>3
<1>5. CASE ListingGoes
  <2>1. PICK t \in TradeTypes : \E i \in DOMAIN lists[t] : Edited(t, RemoveAt(lists[t], i))
    BY <1>5 DEF ListingGoes
  <2>2. PICK i \in DOMAIN lists[t] : Edited(t, RemoveAt(lists[t], i))
    BY <2>1
  <2>3. Offered(lists[t]) \subseteq Offered(RemoveAt(lists[t], i)) \cup Brokers(lists[t][i])
    BY <1>1, OfferedWhenRemoved
  <2>4. /\ IsFiniteSet(Brokers(lists[t][i]))
        /\ Cardinality(Brokers(lists[t][i])) <= MostBrokers
    <3>1. IsCard(lists[t][i])
      BY <1>1, Listed
    <3> QED BY <3>1, FewBrokers, BrokersAssumption
  <2> QED BY <1>2, <2>2, <2>3, <2>4
<1>6. CASE ListingChanges
  <2>1. PICK t \in TradeTypes : \E i \in DOMAIN lists[t], face \in Faces :
          Edited(t, [lists[t] EXCEPT ![i].face = face])
    BY <1>6 DEF ListingChanges
  <2>2. PICK i \in DOMAIN lists[t], face \in Faces : Edited(t, [lists[t] EXCEPT ![i].face = face])
    BY <2>1
  <2>3. Offered(lists[t]) \subseteq Offered([lists[t] EXCEPT ![i].face = face]) \cup {}
    BY <1>1, OfferedWhenChanged
  <2> QED BY <1>2, <1>3, <2>2, <2>3
<1> QED BY <1>4, <1>5, <1>6

LEMMA GatheredIs ==
  /\ \A t : Gathered(t) = HandedOver(t) \cup (IF pc \in Scanning /\ t = tab THEN ReadOf ELSE {})
  /\ \A t : Gathered(t)' = HandedOver(t)' \cup
       (IF pc' \in Scanning /\ t = tab' THEN ReadOf' ELSE {})
  /\ ReadOf = OfGroups(groups) \cup (IF pc \in InHand THEN cur.rows ELSE {})
  /\ ReadOf' = OfGroups(groups') \cup (IF pc' \in InHand THEN cur'.rows ELSE {})
BY DEF Gathered, ReadOf

\* What a step adds to what has been gathered is on the list; only the handling of a
\* card adds to it.
LEMMA GatheredStep ==
  ASSUME CollectorInv, [Next]_vars, NEW t
  PROVE  \/ Gathered(t)' \subseteq Gathered(t)
         \/ /\ t = tab /\ Handling
            /\ Gathered(t)' \subseteq Gathered(t) \cup Offered(lists[t])
<1> USE DEF CollectorInv
<1>1. ASSUME UNCHANGED listings PROVE HandedOver(t)' = HandedOver(t)
  BY <1>1 DEF HandedOver
<1>2. CASE Resting
  <2>1. HandedOver(t)' = HandedOver(t)
    BY <1>1, <1>2 DEF Resting
  <2>2. ReadOf' \subseteq ReadOf
    BY <1>2 DEF Resting, ReadOf
  <2> QED BY <1>2, <2>1, <2>2, GatheredIs DEF Resting
<1>3. CASE SwitchTradeType
  <2>1. UNCHANGED listings /\ DOMAIN groups' = {} /\ pc' \notin InHand
    BY <1>3 DEF SwitchTradeType, payload, InHand
  <2>2. ReadOf' = {}
    BY <2>1, GatheredIs DEF OfGroups
  <2> QED BY <1>1, <2>1, <2>2, GatheredIs
<1>4. CASE TakeCard
  <2>1. UNCHANGED <<listings, groups, tab>> /\ pc = "look" /\ cur'.rows = {}
    BY <1>4 DEF TakeCard, payload, screen
  <2>2. ReadOf' \subseteq ReadOf
    BY <2>1 DEF ReadOf
  <2> QED BY <1>1, <2>1, <2>2, GatheredIs DEF Scanning
<1>5. CASE Handling
  <2>1. /\ UNCHANGED <<groups, listings, tab>> /\ pc \in InHand /\ pc' \in InHand
        /\ Opened \/ Read \/ Passed \/ \E a : Visited(a)
    BY <1>5, WhatHandlingDoes DEF screen
  <2>2. pc \in Scanning /\ pc' \in Scanning
    BY <2>1 DEF Scanning
  <2>3. cur'.rows \subseteq cur.rows \cup Offered(lists[tab])
    <3>1. CASE Opened \/ Read
      <4>1. cur.at \in DOMAIN Visible
        BY <3>1 DEF Opened, Read
      <4>2. Visible[cur.at] \in Range(List)
        BY <4>1, ThePage
      <4>3. Brokers(Visible[cur.at]) \subseteq Offered(lists[tab])
        BY <4>2 DEF Offered, List
      <4> QED BY <3>1, <4>3 DEF Opened, Read
    <3>2. CASE Passed \/ \E a : Visited(a)
      BY <3>2 DEF Passed, Visited
    <3> QED BY <2>1, <3>1, <3>2
  <2>4. ReadOf' \subseteq ReadOf \cup Offered(lists[tab])
    <3>1. groups' = groups
      BY <2>1
    <3>2. ReadOf = OfGroups(groups) \cup cur.rows
      BY <2>1, GatheredIs
    <3>3. ReadOf' = OfGroups(groups) \cup cur'.rows
      BY <2>1, <3>1, GatheredIs
    <3> QED BY <2>3, <3>2, <3>3
  <2> QED BY <1>1, <1>5, <2>1, <2>2, <2>4, GatheredIs
<1>6. CASE CloseGroup
  <2>1. /\ UNCHANGED <<listings, tab>> /\ pc = "visit" /\ pc' \in {"look", "check"}
    BY <1>6 DEF CloseGroup, payload, screen
  <2>2. /\ cur.found \in Seq(cur.rows)
        /\ \E n, g : /\ g.articles = cur.found /\ groups'[n] = g
                     /\ \A i \in DOMAIN groups' :
                          (i \in DOMAIN groups /\ groups'[i] = groups[i]) \/ i = n
    BY <1>6, WhatClosingDoes
  <2>3. Range(cur.found) \subseteq cur.rows
    BY <2>2, RangeOfSeq
  <2>4. \A i \in DOMAIN groups' : Range(groups'[i].articles) \subseteq cur.rows
          \/ (i \in DOMAIN groups /\ groups'[i] = groups[i])
    BY <2>2, <2>3
  <2>5. ReadOf' \subseteq ReadOf
    <3>1. ReadOf = OfGroups(groups) \cup cur.rows
      BY <2>1, GatheredIs DEF InHand
    <3>2. ReadOf' = OfGroups(groups')
      BY <2>1, GatheredIs DEF InHand
    <3>3. \A i \in DOMAIN groups' : Range(groups'[i].articles) \subseteq OfGroups(groups) \cup cur.rows
      BY <2>4 DEF OfGroups
    <3>4. OfGroups(groups') \subseteq OfGroups(groups) \cup cur.rows
      BY <3>3 DEF OfGroups
    <3> QED BY <3>1, <3>2, <3>4
  <2> QED BY <1>1, <2>1, <2>5, GatheredIs DEF Scanning, InHand
<1>7. CASE CheckGroups /\ HandsOver
  <2>1. pc = "check" /\ pc' \notin Scanning
    BY <1>7 DEF CheckGroups, Scanning, InHand
  <2>2. \A i \in DOMAIN listings' :
          \/ i \in DOMAIN listings /\ listings'[i] = listings[i]
          \/ listings'[i].trade = tab /\ \E k \in DOMAIN groups : listings'[i].group = groups[k]
    BY <1>7 DEF HandsOver, Handed
  <2>3. HandedOver(t)' \subseteq HandedOver(t) \cup (IF t = tab THEN ReadOf ELSE {})
    BY <2>2 DEF HandedOver, ReadOf, OfGroups
  <2> QED BY <2>1, <2>3, GatheredIs DEF Scanning
<1> QED BY <1>2, <1>3, <1>4, <1>5, <1>6, <1>7, MostlyResting

\* Few stay few: fewer of them, later, or as many more as a change lets go.
FewAt(S, e) == IsFiniteSet(S) /\ Cardinality(S) <= MostBrokers * e

LEMMA FewerAreFew ==
  ASSUME NEW e \in Nat, NEW f \in Nat, e <= f, NEW S, FewAt(S, e), NEW T, T \subseteq S
  PROVE  FewAt(T, f)
<1>1. IsFiniteSet(S) /\ Cardinality(S) <= MostBrokers * e
  BY DEF FewAt
<1>2. IsFiniteSet(T) /\ Cardinality(T) <= Cardinality(S)
  BY <1>1, FS_Subset
<1>3. Cardinality(S) \in Nat /\ Cardinality(T) \in Nat
  BY <1>1, <1>2, FS_CardinalityType
<1>4. PICK d \in Nat : f = e + d
  <2>1. f - e \in Nat /\ f = e + (f - e)
    OBVIOUS
  <2> QED BY <2>1
<1>5. MostBrokers * f = MostBrokers * e + MostBrokers * d
  BY <1>4, BrokersAssumption
<1>6. MostBrokers * e \in Nat /\ MostBrokers * d \in Nat
  BY BrokersAssumption
<1>7. Cardinality(T) <= MostBrokers * f
  BY <1>1, <1>2, <1>3, <1>5, <1>6
<1> QED BY <1>2, <1>7 DEF FewAt

LEMMA FewAndMore ==
  ASSUME NEW e \in Nat, NEW S, FewAt(S, e),
         NEW T, IsFiniteSet(T), Cardinality(T) <= MostBrokers
  PROVE  FewAt(S \cup T, e + 1)
<1>1. IsFiniteSet(S) /\ Cardinality(S) <= MostBrokers * e
  BY DEF FewAt
<1>2. /\ IsFiniteSet(S \cup T)
      /\ Cardinality(S \cup T) = Cardinality(S) + Cardinality(T) - Cardinality(S \cap T)
  BY <1>1, FS_Union
<1>3. Cardinality(S) \in Nat /\ Cardinality(T) \in Nat /\ Cardinality(S \cap T) \in Nat
  BY <1>1, FS_CardinalityType, FS_Intersection
<1>4. MostBrokers * (e + 1) = MostBrokers * e + MostBrokers /\ MostBrokers * e \in Int
  BY BrokersAssumption
<1>5. Cardinality(S \cup T) <= MostBrokers * (e + 1)
  BY <1>1, <1>2, <1>3, <1>4, BrokersAssumption
<1> QED BY <1>2, <1>5 DEF FewAt

LEMMA FewIs ==
  /\ \A S : IsFew(S) <=> FewAt(S, edits)
  /\ FewHaveGone <=>
       /\ \A t \in TradeTypes : FewAt(Gathered(t) \ Offered(lists[t]), edits)
       /\ IsFull /\ pc # "failed" =>
            \A t \in TradeTypes : Ended(t) => FewAt(Gathered(t) \ Offered(atEnd[t]), edits)
  /\ FewHaveGone' <=>
       /\ \A t \in TradeTypes : FewAt(Gathered(t)' \ Offered(lists'[t]), edits')
       /\ IsFull' /\ pc' # "failed" =>
            \A t \in TradeTypes : Ended(t)' => FewAt(Gathered(t)' \ Offered(atEnd'[t]), edits')
BY DEF IsFew, FewAt, FewHaveGone, Offered

LEMMA FewStep ==
  ASSUME CollectorInv, CollectorTypeOK', [Next]_vars
  PROVE  FewHaveGone'
<1> USE DEF CollectorInv
<1>1. edits \in Nat /\ edits' \in Nat /\ tab \in TradeTypes
  BY DEF CollectorTypeOK
<1>2. /\ \A t \in TradeTypes : FewAt(Gathered(t) \ Offered(lists[t]), edits)
      /\ IsFull /\ pc # "failed" =>
           \A t \in TradeTypes : Ended(t) => FewAt(Gathered(t) \ Offered(atEnd[t]), edits)
  BY FewIs
<1>3. \/ edits' = edits /\ lists' = lists
      \/ ListingComes \/ ListingGoes \/ ListingChanges
  BY DEF Next, Collect, Page, vars, ReadPanel, NothingToTake, ScrollOn, EndOfList, Settle,
    CheckGroups, Finish, SwitchTradeType, TakeCard, ReadCard, ReadRows, SkipArticle,
    CollectArticle, DetailParseFails, CloseGroup, Raise, Render, site
<1>4. edits <= edits'
  BY <1>1, <1>3, CostOfEdit
<1>5. ASSUME NEW t \in TradeTypes
      PROVE  FewAt(Gathered(t)' \ Offered(lists'[t]), edits')
  <2>1. Gathered(t)' \subseteq Gathered(t) \cup Offered(lists[t])
    BY GatheredStep
  <2>2. CASE edits' = edits /\ lists' = lists
    <3>1. Offered(lists'[t]) = Offered(lists[t])
      BY <2>2 DEF Offered
    <3>2. Gathered(t)' \ Offered(lists'[t]) \subseteq Gathered(t) \ Offered(lists[t])
      BY <2>1, <3>1
    <3>3. FewAt(Gathered(t) \ Offered(lists[t]), edits)
      BY <1>2
    <3> QED BY <1>1, <1>4, <3>2, <3>3, FewerAreFew
  <2>3. CASE ListingComes \/ ListingGoes \/ ListingChanges
    <3>1. PICK S : /\ IsFiniteSet(S) /\ Cardinality(S) <= MostBrokers
                   /\ Offered(lists[t]) \subseteq Offered(lists'[t]) \cup S
      BY <2>3, CostOfEdit
    <3>2. edits' = edits + 1
      BY <2>3, CostOfEdit
    <3>3. FewAt((Gathered(t) \ Offered(lists[t])) \cup S, edits')
      BY <1>1, <1>2, <3>1, <3>2, FewAndMore
    <3>4. Gathered(t)' \ Offered(lists'[t]) \subseteq (Gathered(t) \ Offered(lists[t])) \cup S
      BY <2>1, <3>1
    <3>5. edits' <= edits'
      BY <1>1
    <3> QED BY <1>1, <3>3, <3>4, <3>5, FewerAreFew
  <2> QED BY <1>3, <2>2, <2>3
<1>6. ASSUME IsFull', pc' # "failed", NEW t \in TradeTypes, Ended(t)'
      PROVE  FewAt(Gathered(t)' \ Offered(atEnd'[t]), edits')
  <2>1. IsFull
    BY <1>6, ScopeStays
  <2>2. pc # "failed"
    BY <1>6, StepCases DEF vars, Scan, ReadPanel, NothingToTake, ScrollOn, EndOfList, Settle,
      CheckGroups, Finish, SwitchTradeType, TakeCard, Handling, ReadCard, ReadRows, SkipArticle,
      CollectArticle, DetailParseFails, CloseGroup, Raise, Render, Edited, Running
  <2>3. Gathered(t)' \subseteq Gathered(t)
    <3>1. CASE t = tab /\ Handling
      <4>1. tab' = tab /\ pc' \in Scanning /\ pc' # "check"
        BY <3>1, WhatHandlingDoes DEF screen, Scanning, InHand
      <4> QED BY <1>6, <3>1, <4>1 DEF Ended
    <3> QED BY <3>1, GatheredStep
  <2>4. \/ Ended(t) /\ atEnd'[t] = atEnd[t]
        \/ EndOfList /\ t = tab /\ atEnd'[t] = List
    <3>1. atEnd = [u \in TradeTypes |-> atEnd[u]]
      BY DEF EndsAreMet
    <3>2. atEnd'[t] = atEnd[t] \/ (EndOfList /\ t = tab /\ atEnd'[t] = List)
      BY <3>1, EndsAreKept
    <3>3. ASSUME ~Ended(t), ~(EndOfList /\ t = tab) PROVE FALSE
      <4>1. pc \in Scanning /\ t = tab /\ pc # "check" /\ ~EndOfList
        BY <3>3 DEF Ended
      <4>2. pc' # "check"
        BY <2>1, <4>1, EndsAreKept
      <4>3. pc' \in Scanning /\ tab' = tab
        BY <1>6, <4>1, StepCases DEF vars, Scan, ReadPanel, NothingToTake, ScrollOn, Settle,
          CheckGroups, Finish, SwitchTradeType, TakeCard, Handling, ReadCard, ReadRows,
          SkipArticle, CollectArticle, DetailParseFails, CloseGroup, Raise, Render, Edited,
          Scanning, InHand, screen
      <4> QED BY <1>6, <4>1, <4>2, <4>3 DEF Ended
    <3>4. ASSUME EndOfList, t = tab, atEnd'[t] # List PROVE FALSE
      <4>1. atEnd'[t] = List
        BY <2>1, <3>1, <3>4 DEF EndOfList
      <4> QED BY <3>4, <4>1
    <3> QED BY <3>2, <3>3, <3>4
  <2>5. CASE Ended(t) /\ atEnd'[t] = atEnd[t]
    <3>1. FewAt(Gathered(t) \ Offered(atEnd[t]), edits)
      BY <1>2, <2>1, <2>2, <2>5
    <3>2. Gathered(t)' \ Offered(atEnd'[t]) \subseteq Gathered(t) \ Offered(atEnd[t])
      BY <2>3, <2>5
    <3> QED BY <1>1, <1>4, <3>1, <3>2, FewerAreFew
  <2>6. CASE EndOfList /\ t = tab /\ atEnd'[t] = List
    <3>1. Offered(atEnd'[t]) = Offered(lists[t])
      BY <2>6 DEF List
    <3>2. Gathered(t)' \ Offered(atEnd'[t]) \subseteq Gathered(t) \ Offered(lists[t])
      BY <2>3, <3>1
    <3>3. FewAt(Gathered(t) \ Offered(lists[t]), edits)
      BY <1>2
    <3> QED BY <1>1, <1>4, <3>2, <3>3, FewerAreFew
  <2> QED BY <2>4, <2>5, <2>6
<1> QED BY <1>5, <1>6, FewIs

-----------------------------------------------------------------------------
(* As many as are displayed                                                *)

LEMMA CardsOfList ==
  ASSUME NEW list, IsList(list)
  PROVE  /\ IsFiniteSet(Range(list)) /\ Cardinality(Range(list)) <= Len(list)
         /\ IsFiniteSet(Offered(list))
<1> DEFINE n == Len(list)
           R == Range(list)
           f == [i \in 1..n |-> list[i]]
           B == {Brokers(card) : card \in Range(list)}
           g == [card \in Range(list) |-> Brokers(card)]
<1>1. n \in Nat /\ DOMAIN list = 1..n /\ \A i \in 1..n : list[i] \in R /\ IsCard(list[i])
  BY Listed
<1>2. f \in [1..n -> R] /\ \A card \in R : \E i \in 1..n : f[i] = card
  BY <1>1 DEF Range
<1>3. g \in [R -> B] /\ \A b \in B : \E card \in R : g[card] = b
  OBVIOUS
<1>4. \A card \in R : IsCard(card)
  BY <1>1 DEF Range
<1>5. \A b \in B : IsFiniteSet(b)
  BY <1>4, FewBrokers
<1>6. Offered(list) = UNION B
  BY DEF Offered
<1> HIDE DEF n, R, f, B, g
<1>7. f \in Surjection(1..n, R) /\ g \in Surjection(R, B)
  BY <1>2, <1>3 DEF Surjection
<1>8. IsFiniteSet(1..n) /\ Cardinality(1..n) = n
  BY <1>1, FS_Interval
<1>9. IsFiniteSet(R) /\ Cardinality(R) <= n
  BY <1>7, <1>8, FS_Surjection
<1>10. IsFiniteSet(UNION B)
  <2>1. IsFiniteSet(B)
    BY <1>7, <1>9, FS_Surjection
  <2> QED BY <1>5, <2>1, FS_UNION
<1> QED BY <1>6, <1>9, <1>10 DEF n, R

\* Every listing of a full payload has an article of its own.
LEMMA AnArticleEach ==
  ASSUME CollectorInv, IsFull, NEW t, IsFiniteSet(HandedOver(t))
  PROVE  Cardinality(Of(t)) <= Cardinality(HandedOver(t))
<1> DEFINE Articles(i) == listings[i].group.articles
           f == [i \in Of(t) |-> Articles(i)[1]]
<1>1. \A i \in Of(t) : i \in DOMAIN listings /\ Range(Articles(i)) \subseteq HandedOver(t)
  BY DEF Of, HandedOver
<1>2. ASSUME NEW i \in Of(t) PROVE Articles(i)[1] \in Range(Articles(i))
  <2> DEFINE g == listings[i].group
  <2>1. Complete(g) /\ IsRead(g)
    BY <1>1 DEF CollectorInv, ListingsAreChecked, GroupsAreRead
  <2> HIDE DEF g
  <2>2. Len(g.articles) # 0 /\ g.articles \in Seq(g.rows)
    BY <2>1 DEF Complete, IsRead
  <2>3. 1 \in DOMAIN g.articles
    BY <2>2, LenProperties
  <2>4. g.articles[1] \in Range(g.articles)
    BY <2>3 DEF Range
  <2> QED BY <2>4 DEF g
<1>3. \A i, j \in Of(t) : i # j => Range(Articles(i)) \cap Range(Articles(j)) = {}
  BY <1>1 DEF CollectorInv, ArticlesAreHeldOnce, ArticlesOnce
<1> HIDE DEF Articles
<1>4. f \in [Of(t) -> HandedOver(t)] /\ \A i, j \in Of(t) : f[i] = f[j] => i = j
  BY <1>1, <1>2, <1>3
<1> HIDE DEF f
<1>5. f \in Injection(Of(t), HandedOver(t))
  BY <1>4 DEF Injection, IsInjective
<1> QED BY <1>5, FS_Injection

\* Where every card has one broker, an article that is on the list and was handed
\* over stands for a card.
LEMMA ACardEach ==
  ASSUME NEW list, IsList(list), \A card \in Range(list) : Len(card.brokers) = 1, NEW H
  PROVE  Cardinality(H \cap Offered(list)) <=
           Cardinality({card \in Range(list) : Brokers(card) \cap H # {}})
<1> DEFINE On == H \cap Offered(list)
           Kept == {card \in Range(list) : Brokers(card) \cap H # {}}
           f == [a \in On |-> CHOOSE card \in Range(list) : a \in Brokers(card)]
<1>1. \A a \in On : f[a] \in Range(list) /\ a \in Brokers(f[a])
  BY DEF Offered
<1>2. ASSUME NEW card \in Range(list), NEW a \in Brokers(card), NEW b \in Brokers(card)
      PROVE  a = b
  <2>1. IsCard(card) /\ Len(card.brokers) = 1
    BY Listed DEF Range
  <2>2. DOMAIN card.brokers = 1..1
    BY <2>1, LenProperties DEF IsCard
  <2> QED BY <2>2 DEF Brokers, Range
<1>3. f \in [On -> Kept]
  <2>1. \A a \in On : f[a] \in Kept
    BY <1>1
  <2> QED BY <2>1
<1>4. \A a, b \in On : f[a] = f[b] => a = b
  BY <1>1, <1>2
<1>5. IsFiniteSet(Kept)
  BY CardsOfList, FS_Subset
<1> HIDE DEF f, On, Kept
<1>6. f \in Injection(On, Kept)
  BY <1>3, <1>4 DEF Injection, IsInjective
<1>7. Cardinality(On) <= Cardinality(Kept)
  BY <1>5, <1>6, FS_Injection
<1> QED BY <1>7 DEF On, Kept

-----------------------------------------------------------------------------
(* Theorems                                                                *)

\* What CollectorInv says of the list, the articles, the groups and the counts the
\* panel displayed holds at every step of every collection.
THEOREM CollectorInvariance == Spec => []CollectorInv
<1>1. CollectorInv /\ [Next]_vars => CollectorInv'
  <2> SUFFICES ASSUME CollectorInv, [Next]_vars PROVE CollectorInv'
    OBVIOUS
  <2>1. CollectorTypeOK' /\ ArticlesAreHeldOnce' /\ ListingsAreChecked' /\ CountsAreCurrent'
    BY TypeStep, HeldStep, CheckedStep, CountsStep DEF CollectorInv
  <2>2. ListingsAreRight' /\ TurnsAreWhole'
    BY RightStep, TurnsStep
  <2>3. GroupsAreRead' /\ EndsAreMet' /\ FewHaveGone'
    BY <2>1, ReadStep, EndsStep, FewStep
  <2> QED BY <2>1, <2>2, <2>3 DEF CollectorInv
<1> QED BY <1>1, CollectorInit, PTL DEF Spec

\* What a collection returns can be relied on (PlaywrightNaverLandCollector.collect):
\* no article twice, complete unless it is called partial, and, where the page stood
\* still, the brokers of each card and a listing for every card of a trade type whose
\* count the panel displayed.
THEOREM PayloadInvariance == Spec => []PayloadIsSound
<1>1. CollectorInv => PayloadIsSound
  <2> SUFFICES ASSUME CollectorInv, pc = "done"
               PROVE  ArticlesOnce /\ CompletedIsComplete /\ ArticlesAreItsOwn /\ NothingIsMissed
    BY DEF PayloadIsSound
  <2>1. ArticlesOnce
    BY DEF CollectorInv, ArticlesAreHeldOnce
  <2>2. CompletedIsComplete
    BY DEF CollectorInv, ListingsAreChecked, CompletedIsComplete
  <2>3. ArticlesAreItsOwn
    BY DEF CollectorInv, ListingsAreRight, ArticlesAreItsOwn
  <2>4. NothingIsMissed
    <3> SUFFICES ASSUME IsFull, Still, NEW t \in TradeTypes, counts[t] # None,
                        NEW card \in Range(lists[t])
                 PROVE  IsHandedOver(t, card)
      BY DEF NothingIsMissed
    <3>1. PICK k \in DOMAIN Trades : Trades[k] = t
      BY DEF TradeTypes, Range
    <3>2. DOMAIN Trades = 1..Len(Trades) /\ Len(Trades) \in Nat /\ turn \in Nat
      BY PageAssumption, LenProperties DEF CollectorInv, CollectorTypeOK
    <3>3. lists[t] # <<>>
      BY DEF Range
    <3>4. k \in 1..turn
      BY <3>1, <3>2, <3>3 DEF CollectorInv, TurnsAreWhole
    <3>5. pc \notin Scanning
      BY DEF Scanning, InHand
    <3> QED BY <3>1, <3>4, <3>5 DEF CollectorInv, TurnsAreWhole
  <2> QED BY <2>1, <2>2, <2>3, <2>4
<1> QED BY <1>1, CollectorInvariance, PTL

\* What a full collection of a page that changes can miss: it hands over as many
\* listings as the list displays at its end, so where each of those has one broker,
\* what it misses is made up for by articles that have gone; and a change of the page
\* lets few of those go (_require_complete_listing_coverage,
\* _raise_if_full_pass_made_no_progress).
THEOREM MissedInvariance == Spec => []MissedAreOutweighed
<1>1. CollectorInv => MissedAreOutweighed
  <2> SUFFICES ASSUME CollectorInv, pc = "done", IsFull, NEW t \in TradeTypes
               PROVE  /\ Cardinality(Outdated(t)) <= MostBrokers * edits
                      /\ (\A card \in Range(atEnd[t]) : Len(card.brokers) = 1) =>
                           Cardinality(Missed(t)) <= Cardinality(Outdated(t))
    BY DEF MissedAreOutweighed
  <2> DEFINE list == atEnd[t]
             H == HandedOver(t)
             On == H \cap Offered(list)
             Kept == {card \in Range(list) : Brokers(card) \cap H # {}}
  <2>1. pc \notin Scanning
    BY DEF Scanning, InHand
  <2>2. IsList(list) /\ Len(list) <= Cardinality(Of(t)) /\ Len(list) \in Nat
    BY <2>1, Listed DEF CollectorInv, EndsAreMet, Of
  <2>3. IsFiniteSet(Outdated(t)) /\ Cardinality(Outdated(t)) <= MostBrokers * edits
    <3>1. Gathered(t) = H /\ Ended(t)
      BY <2>1, GatheredIs DEF Ended
    <3>2. IsFew(Gathered(t) \ Offered(list))
      BY <3>1 DEF CollectorInv, FewHaveGone
    <3> QED BY <3>1, <3>2 DEF IsFew, Outdated
  <2>4. ASSUME \A card \in Range(list) : Len(card.brokers) = 1
        PROVE  Cardinality(Missed(t)) <= Cardinality(Outdated(t))
    <3>1. /\ Outdated(t) = H \ Offered(list)
          /\ H = Outdated(t) \cup On
          /\ Missed(t) = Range(list) \ Kept /\ Kept \subseteq Range(list)
      BY DEF Outdated, Missed
    <3>2. IsFiniteSet(On) /\ IsFiniteSet(H)
      <4>1. IsFiniteSet(On)
        BY <2>2, CardsOfList, FS_Subset
      <4>2. IsFiniteSet(Outdated(t) \cup On)
        BY <2>3, <4>1, FS_Union
      <4> QED BY <3>1, <4>1, <4>2
    <3>3. Cardinality(Of(t)) <= Cardinality(H) /\ Cardinality(Of(t)) \in Nat
      <4>1. IsFiniteSet(Of(t))
        <5>1. DOMAIN listings = 1..Len(listings) /\ Len(listings) \in Nat
          BY LenProperties DEF CollectorInv, CollectorTypeOK
        <5>2. IsFiniteSet(DOMAIN listings)
          BY <5>1, FS_Interval
        <5> QED BY <5>2, FS_Subset DEF Of
      <4> QED BY <3>2, <4>1, AnArticleEach, FS_CardinalityType
    <3>4. Cardinality(On) <= Cardinality(Kept)
      BY <2>2, <2>4, ACardEach
    <3>5. IsFiniteSet(Range(list)) /\ Cardinality(Range(list)) <= Len(list) /\ IsFiniteSet(Kept)
      BY <2>2, CardsOfList, FS_Subset
    <3>6. On = H \cap Offered(list)
      OBVIOUS
    <3> HIDE DEF On, Kept, H, list
    <3>7. Cardinality(Missed(t)) = Cardinality(Range(list)) - Cardinality(Kept)
      <4>1. Cardinality(Range(list) \ Kept)
              = Cardinality(Range(list)) - Cardinality(Range(list) \cap Kept)
        BY <3>5, FS_Difference
      <4>2. Range(list) \cap Kept = Kept /\ Missed(t) = Range(list) \ Kept
        BY <3>1
      <4> QED BY <4>1, <4>2
    <3>8. Cardinality(Outdated(t)) = Cardinality(H) - Cardinality(On)
      <4>1. Cardinality(H \ Offered(list)) = Cardinality(H) - Cardinality(H \cap Offered(list))
        BY <3>2, FS_Difference
      <4>2. H \cap Offered(list) = On /\ Outdated(t) = H \ Offered(list)
        BY <3>1, <3>6
      <4> QED BY <4>1, <4>2
    <3>9. /\ Cardinality(Range(list)) \in Nat /\ Cardinality(Kept) \in Nat
          /\ Cardinality(H) \in Nat /\ Cardinality(On) \in Nat
      BY <3>2, <3>5, FS_CardinalityType
    <3> QED BY <2>2, <3>3, <3>4, <3>5, <3>7, <3>8, <3>9
  <2> QED BY <2>3, <2>4
<1> QED BY <1>1, CollectorInvariance, PTL
=============================================================================
