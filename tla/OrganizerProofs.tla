-------------------------- MODULE OrganizerProofs --------------------------
(***************************************************************************)
(* Proofs about Organizer, for any notebooks and browsers, any initial     *)
(* notes, and any number of requests, failures and edits of the device: a  *)
(* move or a reorder, stopped anywhere, loses no ink but that of an edit   *)
(* it has not read, and footers stay with the pages they are attached to.  *)
(***************************************************************************)
EXTENDS Organizer, FiniteSetTheorems, TLAPS

(***************************************************************************)
(* Facts about the operations on pages.                                    *)
(***************************************************************************)

LEMMA LeastNatural ==
  ASSUME NEW S \in SUBSET Nat, S # {}
  PROVE  Min(S) \in S /\ \A i \in S : Min(S) <= i
<1>1. PICK k \in S : \A i \in S : <<i, k>> \notin OpToRel(<, Nat)
  BY WFMin, NatLessThanWellFounded, Zenon
<1>2. \A i \in S : ~(i < k)
  BY <1>1, Zenon DEF OpToRel
<1>3. \A i \in S : k <= i
  BY <1>2
<1>4. QED
  BY <1>3 DEF Min

\* The pages and footers of a note.
LEMMA NoteParts ==
  ASSUME NEW n \in Notes
  PROVE  /\ n.pages \in Seq(Pages) /\ n.footers \in SUBSET Footers
         /\ n = [pages |-> n.pages, footers |-> n.footers]
         /\ Len(n.pages) \in Nat /\ DOMAIN n.pages = 1..Len(n.pages)
         /\ \A p \in DOMAIN n.pages : n.pages[p] \in Pages
<1>1. n.pages \in Seq(Pages) /\ n.footers \in SUBSET Footers
  BY DEF Notes
<1>2. n = [pages |-> n.pages, footers |-> n.footers]
  BY DEF Notes
<1>3. QED
  BY <1>1, <1>2

\* The first position of a page ID is one of its positions.
LEMMA PositionIsOfThePage ==
  ASSUME NEW n \in Notes, NEW id \in ToSet(PageIds(n))
  PROVE  /\ PositionOf(n, id) \in DOMAIN n.pages
         /\ n.pages[PositionOf(n, id)].id = id
<1> DEFINE I == {i \in 1..Len(n.pages) : n.pages[i].id = id}
<1>1. /\ DOMAIN n.pages = 1..Len(n.pages) /\ Len(n.pages) \in Nat
      /\ PageIds(n) = [i \in DOMAIN n.pages |-> n.pages[i].id]
  BY NoteParts DEF PageIds
<1>2. I # {} /\ I \in SUBSET Nat
  BY <1>1 DEF ToSet
<1>3. PositionOf(n, id) = Min(I)
  BY <1>2 DEF PositionOf, SelectInSeq
<1>4. Min(I) \in I
  BY <1>2, LeastNatural
<1>5. QED
  BY <1>1, <1>3, <1>4

LEMMA AppendedPage ==
  ASSUME NEW n \in Notes, NEW page \in Pages
  PROVE  LET new == [n EXCEPT !.pages = Append(@, page)]
         IN  /\ new \in Notes
             /\ Inks(n) \subseteq Inks(new)
             /\ page.ink # Blank => page.ink \in Inks(new)
             /\ FootersFit(n) => FootersFit(new)
<1> DEFINE new == [n EXCEPT !.pages = Append(@, page)]
<1>1. PICK s \in Seq(Pages) : s = n.pages
  BY NoteParts
<1>2. /\ Append(s, page) \in Seq(Pages) /\ Len(s) \in Nat
      /\ DOMAIN s = 1..Len(s) /\ DOMAIN Append(s, page) = 1..(Len(s) + 1)
      /\ \A i \in 1..Len(s) : Append(s, page)[i] = s[i]
      /\ Append(s, page)[Len(s) + 1] = page
  OBVIOUS
<1>3. new = [pages |-> Append(s, page), footers |-> n.footers]
  <2>1. ASSUME NEW w
        PROVE  [n EXCEPT !.pages = w] = [pages |-> w, footers |-> n.footers]
    BY NoteParts
  <2>2. new = [n EXCEPT !.pages = Append(s, page)]
    BY <1>1
  <2> HIDE DEF new
  <2>3. QED
    BY <2>1, <2>2, Zenon
<1> HIDE DEF new
<1>4. new.pages = Append(s, page) /\ new.footers = n.footers
  BY <1>3, Zenon
<1>5. new \in Notes
  BY <1>2, <1>3, NoteParts DEF Notes
<1>6. Inks(n) \subseteq Inks(new)
  BY <1>1, <1>2, <1>4 DEF Inks
<1>7. page.ink # Blank => page.ink \in Inks(new)
  BY <1>2, <1>4 DEF Inks
<1>8. FootersFit(n) => FootersFit(new)
  BY <1>1, <1>2, <1>4 DEF FootersFit
<1>9. QED
  BY <1>5, <1>6, <1>7, <1>8 DEF new

LEMMA CopiedPage ==
  ASSUME NEW source \in Notes, NEW target \in Notes, NEW p \in DOMAIN source.pages
  PROVE  LET new == CopyPagesToEnd(source, target, <<p>>)
         IN  /\ new \in Notes
             /\ Inks(target) \subseteq Inks(new)
             /\ source.pages[p].ink # Blank => source.pages[p].ink \in Inks(new)
             /\ FootersFit(target) => FootersFit(new)
<1> DEFINE copy == [source.pages[p] EXCEPT !.star = FALSE]
           new == CopyPagesToEnd(source, target, <<p>>)
<1>1. /\ source.pages \in Seq(Pages) /\ target.pages \in Seq(Pages)
      /\ source.pages[p] \in Pages
  BY NoteParts
<1>2. copy \in Pages /\ copy.ink = source.pages[p].ink
  BY <1>1 DEF Pages
<1>3. [i \in DOMAIN <<p>> |-> [source.pages[<<p>>[i]] EXCEPT !.star = FALSE]] = <<copy>>
  <2>1. DOMAIN <<p>> = {1} /\ <<p>>[1] = p
    OBVIOUS
  <2>2. DOMAIN <<copy>> = {1} /\ <<copy>>[1] = copy
    OBVIOUS
  <2> HIDE DEF copy
  <2>3. [i \in {1} |-> copy] = <<copy>>
    BY <2>2
  <2>4. QED
    BY <2>1, <2>3 DEF copy
<1> HIDE DEF copy
<1>4. new = [target EXCEPT !.pages = @ \o <<copy>>]
  BY <1>3 DEF CopyPagesToEnd
<1>5. new = [pages |-> target.pages \o <<copy>>, footers |-> target.footers]
  BY <1>4, NoteParts
<1>6. target.pages \o <<copy>> \in Seq(Pages)
  BY <1>1, <1>2
<1>7. new \in Notes
  BY <1>5, <1>6, NoteParts DEF Notes
<1>8. /\ \A i \in DOMAIN target.pages : i \in DOMAIN new.pages /\ new.pages[i] = target.pages[i]
      /\ Len(target.pages) + 1 \in DOMAIN new.pages
      /\ new.pages[Len(target.pages) + 1] = copy
  <2>1. PICK s \in Seq(Pages) : s = target.pages
    BY <1>1
  <2>2. /\ DOMAIN s = 1..Len(s) /\ Len(s) \in Nat
        /\ DOMAIN (s \o <<copy>>) = 1..(Len(s) + 1)
        /\ \A i \in 1..Len(s) : (s \o <<copy>>)[i] = s[i]
        /\ (s \o <<copy>>)[Len(s) + 1] = copy
    BY <1>2, <2>1
  <2> HIDE DEF new
  <2>3. new.pages = s \o <<copy>>
    BY <1>5, <2>1, Zenon
  <2>4. QED
    BY <2>1, <2>2, <2>3
<1> HIDE DEF new
<1>9. Inks(target) \subseteq Inks(new)
  BY <1>8 DEF Inks
<1>10. source.pages[p].ink # Blank => source.pages[p].ink \in Inks(new)
  BY <1>2, <1>8 DEF Inks
<1>11. FootersFit(target) => FootersFit(new)
  BY <1>5, <1>8 DEF FootersFit
<1>12. QED
  BY <1>7, <1>9, <1>10, <1>11 DEF new

\* Every position of a finite set has its turn, and every turn a position.
LEMMA IthCounts ==
  ASSUME NEW n \in Nat, NEW stay \in SUBSET (1..n)
  PROVE  /\ IsFiniteSet(stay) /\ Cardinality(stay) \in Nat
         /\ \A i \in 1..Cardinality(stay) : Ith(stay, i) \in stay
         /\ \A p \in stay : \E i \in 1..Cardinality(stay) : Ith(stay, i) = p
<1> DEFINE Below(p) == {q \in stay : q <= p}
           rank == [p \in stay |-> Cardinality(Below(p))]
           m == Cardinality(stay)
<1>1. IsFiniteSet(stay) /\ m \in Nat
  <2>1. IsFiniteSet(1..n)
    BY FS_Interval
  <2>2. IsFiniteSet(stay)
    BY <2>1, FS_Subset
  <2>3. QED
    BY <2>2, FS_CardinalityType
<1>2. ASSUME NEW p \in stay
      PROVE  rank[p] \in 1..m
  <2>1. Below(p) \in SUBSET stay /\ p \in Below(p)
    OBVIOUS
  <2>2. IsFiniteSet(Below(p)) /\ Cardinality(Below(p)) <= m
    BY <1>1, <2>1, FS_Subset
  <2>3. Cardinality(Below(p)) \in Nat /\ Cardinality(Below(p)) # 0
    BY <2>1, <2>2, FS_CardinalityType, FS_EmptySet
  <2>4. QED
    BY <1>1, <2>2, <2>3
<1>3. ASSUME NEW p \in stay, NEW q \in stay, p < q
      PROVE  rank[p] # rank[q]
  <2>1. Below(p) \in SUBSET Below(q) /\ q \in Below(q) /\ q \notin Below(p)
    <3>1. p \in Nat /\ q \in Nat /\ \A r \in stay : r \in Nat
      OBVIOUS
    <3>2. \A r \in stay : r <= p => r <= q
      BY <1>3, <3>1
    <3>3. ~(q <= p) /\ q <= q
      BY <1>3, <3>1
    <3>4. QED
      BY <3>2, <3>3
  <2>2. IsFiniteSet(Below(q))
    BY <1>1, FS_Subset
  <2>3. Cardinality(Below(p)) # Cardinality(Below(q))
    BY <2>1, <2>2, FS_Subset
  <2>4. QED
    BY <2>3
<1>4. rank \in Injection(stay, 1..m)
  <2>1. \A p, q \in stay : rank[p] = rank[q] => p = q
    BY <1>3
  <2>2. rank \in [stay -> 1..m]
    BY <1>2
  <2> HIDE DEF rank, m
  <2>3. DOMAIN rank = stay
    BY <2>2
  <2>4. QED
    BY <2>1, <2>2, <2>3 DEF Injection, IsInjective
<1>5. \A i \in 1..m : \E p \in stay : rank[p] = i
  <2>1. IsFiniteSet(1..m) /\ Cardinality(1..m) = m
    BY <1>1, FS_Interval
  <2> HIDE DEF rank
  <2>2. rank \in Surjection(stay, 1..m)
    BY <1>4, <2>1, FS_Injection
  <2>3. QED
    BY <2>2 DEF Surjection
<1>6. ASSUME NEW i \in 1..m
      PROVE  Ith(stay, i) \in stay /\ rank[Ith(stay, i)] = i
  BY <1>5 DEF Ith
<1>7. ASSUME NEW p \in stay
      PROVE  \E i \in 1..m : Ith(stay, i) = p
  <2>1. rank[p] \in 1..m
    BY <1>2
  <2>2. Ith(stay, rank[p]) \in stay /\ rank[Ith(stay, rank[p])] = rank[p]
    BY <1>6, <2>1
  <2>3. Ith(stay, rank[p]) = p
    <3>1. \A q \in stay : q \in Nat
      OBVIOUS
    <3> HIDE DEF rank
    <3>2. PICK q \in stay : q = Ith(stay, rank[p])
      BY <2>2
    <3>3. ~(p < q) /\ ~(q < p)
      BY <1>3, <2>2, <3>2
    <3>4. QED
      BY <3>1, <3>2, <3>3
  <2>4. QED
    BY <2>1, <2>3
<1>8. QED
  BY <1>1, <1>6, <1>7

LEMMA RemovedPages ==
  ASSUME NEW source \in Notes, NEW positions
  PROVE  /\ source.pages # <<>> => RemovePages(source, positions) \in Notes
         /\ \A p \in DOMAIN source.pages \ positions :
              source.pages[p].ink # Blank =>
                source.pages[p].ink \in Inks(RemovePages(source, positions))
<1> DEFINE stay == DOMAIN source.pages \ positions
           kept == [i \in 1..Cardinality(stay) |-> source.pages[Ith(stay, i)]]
           blank == <<[source.pages[1] EXCEPT !.ink = Blank]>>
           new == RemovePages(source, positions)
<1>1. /\ source.pages \in Seq(Pages)
      /\ Len(source.pages) \in Nat /\ DOMAIN source.pages = 1..Len(source.pages)
      /\ \A p \in DOMAIN source.pages : source.pages[p] \in Pages
  BY NoteParts
<1>2. new = [source EXCEPT !.pages = IF kept = <<>> THEN blank ELSE kept]
  BY DEF RemovePages
<1> HIDE DEF stay
<1>3. /\ Cardinality(stay) \in Nat /\ stay \in SUBSET DOMAIN source.pages
      /\ \A i \in 1..Cardinality(stay) : Ith(stay, i) \in stay
      /\ \A p \in stay : \E i \in 1..Cardinality(stay) : Ith(stay, i) = p
  <2>1. stay \in SUBSET (1..Len(source.pages))
    BY <1>1 DEF stay
  <2>2. QED
    BY <1>1, <2>1, IthCounts
<1>4. kept \in Seq(Pages)
  BY <1>1, <1>3
<1>5. source.pages # <<>> => blank \in Seq(Pages)
  <2>1. ASSUME source.pages # <<>>
        PROVE  source.pages[1] \in Pages
    BY <1>1, <2>1
  <2>2. QED
    BY <2>1 DEF Pages, Names
<1>6. source.pages # <<>> => new \in Notes
  BY <1>2, <1>4, <1>5, NoteParts DEF Notes
<1>7. ASSUME NEW p \in stay, source.pages[p].ink # Blank
      PROVE  source.pages[p].ink \in Inks(new)
  <2>1. PICK i \in 1..Cardinality(stay) : Ith(stay, i) = p
    BY <1>3
  <2>2. i \in DOMAIN kept /\ kept[i] = source.pages[p]
    BY <2>1
  <2>3. kept # <<>>
    BY <2>2
  <2>4. new.pages = kept
    BY <1>2, <2>3, NoteParts
  <2>5. QED
    BY <1>7, <2>2, <2>4 DEF Inks
<1>8. QED
  BY <1>6, <1>7 DEF stay

LEMMA ReorderedPages ==
  ASSUME NEW n \in Notes, NEW k \in Nat, NEW order \in [1..k -> ToSet(PageIds(n))],
         CanReorder(n, order)
  PROVE  LET new == ReorderPages(n, order)
         IN  /\ new \in Notes
             /\ Inks(n) \subseteq Inks(new)
             /\ FootersFit(n) => FootersFit(new)
<1> DEFINE new == ReorderPages(n, order)
           Place(id) == CHOOSE i \in DOMAIN order : order[i] = id
<1>1. /\ n.pages \in Seq(Pages)
      /\ \A p \in DOMAIN n.pages : n.pages[p] \in Pages
      /\ n.footers \in SUBSET Footers
  BY NoteParts
<1>2. /\ \A p, q \in DOMAIN n.pages : n.pages[p].id = n.pages[q].id => p = q
      /\ \A p \in DOMAIN n.pages : \E i \in DOMAIN order : order[i] = n.pages[p].id
  <2>1. /\ DOMAIN PageIds(n) = DOMAIN n.pages
        /\ \A p \in DOMAIN n.pages : PageIds(n)[p] = n.pages[p].id
    BY DEF PageIds
  <2>2. IsInjective(PageIds(n)) /\ ToSet(order) = ToSet(PageIds(n))
    BY DEF CanReorder, ValidPageOrder
  <2>3. QED
    BY <2>1, <2>2 DEF IsInjective, ToSet
<1>3. new.pages = [i \in 1..k |-> n.pages[PositionOf(n, order[i])]]
  BY DEF ReorderPages
<1>4. \A i \in 1..k : /\ PositionOf(n, order[i]) \in DOMAIN n.pages
                      /\ n.pages[PositionOf(n, order[i])].id = order[i]
  BY PositionIsOfThePage
<1>5. ASSUME NEW p \in DOMAIN n.pages
      PROVE  /\ Place(n.pages[p].id) \in 1..k
             /\ new.pages[Place(n.pages[p].id)] = n.pages[p]
  <2>1. Place(n.pages[p].id) \in 1..k /\ order[Place(n.pages[p].id)] = n.pages[p].id
    BY <1>2
  <2>2. PositionOf(n, n.pages[p].id) = p
    BY <1>2, <1>4, <2>1
  <2>3. QED
    BY <1>3, <2>1, <2>2
<1>6. new.footers = {IF f.at \in DOMAIN n.pages
                       THEN [f EXCEPT !.at = Place(n.pages[f.at].id)] ELSE f : f \in n.footers}
  BY DEF ReorderPages, RemappedFooters
<1> HIDE DEF Place
<1>7. new \in Notes
  <2>1. new.pages \in Seq(Pages)
    BY <1>1, <1>3, <1>4
  <2>2. new.footers \in SUBSET Footers
    <3>1. ASSUME NEW f \in n.footers, f.at \in DOMAIN n.pages
          PROVE  [f EXCEPT !.at = Place(n.pages[f.at].id)] \in Footers
      BY <1>1, <1>5, <3>1 DEF Footers
    <3>2. QED
      BY <1>1, <1>6, <3>1
  <2>3. new = [pages |-> new.pages, footers |-> new.footers]
    BY DEF ReorderPages
  <2> HIDE DEF new
  <2>4. QED
    BY <2>1, <2>2, <2>3 DEF Notes
<1>8. DOMAIN new.pages = 1..k
  BY <1>3
<1> HIDE DEF new
<1>9. Inks(n) \subseteq Inks(new)
  BY <1>5, <1>8 DEF Inks
<1>10. ASSUME FootersFit(n), NEW g \in new.footers
       PROVE  g.at \in DOMAIN new.pages /\ new.pages[g.at].ink = g.of
  <2>1. PICK f \in n.footers : g = IF f.at \in DOMAIN n.pages
                                     THEN [f EXCEPT !.at = Place(n.pages[f.at].id)] ELSE f
    BY <1>6
  <2>2. f.at \in DOMAIN n.pages /\ n.pages[f.at].ink = f.of
    BY <1>10 DEF FootersFit
  <2>3. g.at = Place(n.pages[f.at].id) /\ g.of = f.of
    BY <1>1, <2>1, <2>2 DEF Footers
  <2>4. QED
    BY <1>5, <1>8, <2>2, <2>3
<1>11. QED
  BY <1>7, <1>9, <1>10 DEF new, FootersFit

(***************************************************************************)
(* The invariant.  A request that is about to remove a page from its       *)
(* source either has read what is there now, and then the target has the   *)
(* page, or has not, and then it never will: updateTime only grows.        *)
(***************************************************************************)

Requests ==
  {Answered}
  \cup [pc: {"target"}, from: Notebooks, to: Notebooks, source: Notes, seen: Nat, at: Nat]
  \cup [pc: {"reorder"}, from: Notebooks, seen: Nat, new: Notes]
  \cup [pc: {"move", "source"}, from: Notebooks, to: Notebooks, seen: Nat,
        seenTarget: Nat, newTarget: Notes, newSource: Notes]

OrganizerTyped ==
  /\ cloud \in [Notebooks -> Notes]
  /\ updateTime \in [Notebooks -> Nat]
  /\ request \in [Clients -> Requests]
  /\ Blank \notin written

\* A request that read notebook n at t has read what is there.
IsFresh(n, t) == updateTime[n] = t

RequestOK(r) ==
  /\ r # Answered => r.seen <= updateTime[r.from]
  /\ r.pc = "target" =>
       /\ r.from # r.to /\ r.at \in DOMAIN r.source.pages
       /\ IsFresh(r.from, r.seen) => r.source = cloud[r.from]
  /\ r.pc = "reorder" =>
       /\ IsFresh(r.from, r.seen) => Inks(cloud[r.from]) \subseteq Inks(r.new)
       /\ r.from \notin shifted => FootersFit(r.new)
  /\ r.pc \in {"move", "source"} => r.from # r.to
  /\ r.pc = "move" =>
       /\ r.seenTarget <= updateTime[r.to]
       /\ IsFresh(r.from, r.seen) =>
            Inks(cloud[r.from]) \subseteq Inks(r.newSource) \cup Inks(r.newTarget)
       /\ IsFresh(r.to, r.seenTarget) => Inks(cloud[r.to]) \subseteq Inks(r.newTarget)
       /\ r.to \notin shifted => FootersFit(r.newTarget)

\* Request r is not about to remove the ink from notebook n.
WillKeep(r, n, ink) ==
  r.pc = "source" /\ r.from = n /\ IsFresh(n, r.seen) => ink \in Inks(r.newSource)

\* Ink is on a page of a notebook that no request is about to remove.
IsOn(n, ink) == ink \in Inks(cloud[n]) /\ \A c \in Clients : WillKeep(request[c], n, ink)

InkIsKept(ink) == ink \in dropped \/ \E n \in Notebooks : IsOn(n, ink)

OrganizerInv ==
  /\ OrganizerTyped
  /\ \A c \in Clients : RequestOK(request[c])
  /\ \A ink \in written : InkIsKept(ink)
  /\ FootersFollowTheirPages

(***************************************************************************)
(* What a step does to the notebooks: one that changes gets a new time.    *)
(***************************************************************************)

TimesGrow ==
  /\ cloud' \in [Notebooks -> Notes] /\ updateTime' \in [Notebooks -> Nat]
  /\ \A m \in Notebooks : \/ cloud'[m] = cloud[m] /\ updateTime'[m] = updateTime[m]
                          \/ updateTime'[m] > updateTime[m]
  /\ shifted \subseteq shifted' /\ dropped \subseteq dropped'

\* Notebook n gets new contents.
Becomes(n, new) ==
  /\ cloud' = [cloud EXCEPT ![n] = new]
  /\ updateTime' = [updateTime EXCEPT ![n] = @ + 1]

LEMMA RequestParts ==
  ASSUME NEW r \in Requests
  PROVE  /\ r.pc \in {"none", "target", "reorder", "move", "source"}
         /\ r = Answered <=> r.pc = "none"
         /\ r # Answered => r.from \in Notebooks /\ r.seen \in Nat
         /\ r.pc = "target" => r.to \in Notebooks /\ r.source \in Notes /\ r.at \in Nat
         /\ r.pc = "reorder" => r.new \in Notes
         /\ r.pc \in {"move", "source"} =>
              /\ r.to \in Notebooks /\ r.seenTarget \in Nat
              /\ r.newTarget \in Notes /\ r.newSource \in Notes
<1>1. CASE r = Answered
  BY <1>1 DEF Answered
<1>2. CASE r \in [pc: {"target"}, from: Notebooks, to: Notebooks, source: Notes,
                  seen: Nat, at: Nat]
  BY <1>2 DEF Answered
<1>3. CASE r \in [pc: {"reorder"}, from: Notebooks, seen: Nat, new: Notes]
  BY <1>3 DEF Answered
<1>4. CASE r \in [pc: {"move", "source"}, from: Notebooks, to: Notebooks, seen: Nat,
                  seenTarget: Nat, newTarget: Notes, newSource: Notes]
  BY <1>4 DEF Answered
<1>5. QED
  BY <1>1, <1>2, <1>3, <1>4 DEF Requests

\* A request that waits stays right.
LEMMA RequestsStayOK ==
  ASSUME OrganizerTyped, TimesGrow, NEW r \in Requests, RequestOK(r)
  PROVE  RequestOK(r)'
<1>1. ASSUME NEW m \in Notebooks, NEW t \in Nat, t <= updateTime[m]
      PROVE  /\ t <= updateTime'[m]
             /\ updateTime'[m] = t => updateTime[m] = t /\ cloud'[m] = cloud[m]
  BY <1>1 DEF OrganizerTyped, TimesGrow
<1>2. shifted \subseteq shifted'
  BY DEF TimesGrow
<1>3. r # Answered => (r.seen <= updateTime[r.from])'
  BY <1>1, RequestParts DEF RequestOK
<1>4. CASE r.pc = "target"
  BY <1>1, <1>3, <1>4, RequestParts DEF RequestOK, IsFresh
<1>5. CASE r.pc = "reorder"
  BY <1>1, <1>2, <1>3, <1>5, RequestParts DEF RequestOK, IsFresh
<1>6. CASE r.pc = "move"
  BY <1>1, <1>2, <1>3, <1>6, RequestParts DEF RequestOK, IsFresh
<1>7. CASE r.pc \in {"none", "source"}
  BY <1>3, <1>7, RequestParts DEF RequestOK
<1>8. QED
  BY <1>4, <1>5, <1>6, <1>7, RequestParts

\* Ink stays where it is, when no request is brought closer to removing it.
LEMMA InkStays ==
  ASSUME OrganizerTyped, TimesGrow, \A c \in Clients : RequestOK(request[c]),
         NEW n \in Notebooks, NEW ink, IsOn(n, ink),
         cloud'[n] = cloud[n],
         \A c \in Clients : request'[c] = request[c] \/ request'[c].pc # "source"
  PROVE  IsOn(n, ink)'
<1>1. ASSUME NEW c \in Clients
      PROVE  WillKeep(request[c], n, ink)'
  <2>1. CASE request'[c].pc # "source"
    BY <2>1 DEF WillKeep
  <2>2. CASE request'[c] = request[c] /\ request[c].pc = "source" /\ request[c].from = n
    <3>1. PICK r \in Requests : r = request[c]
      BY DEF OrganizerTyped
    <3>2. r.seen \in Nat /\ r.seen <= updateTime[n] /\ WillKeep(r, n, ink)
      BY <2>2, <3>1, RequestParts DEF RequestOK, IsOn
    <3>3. (updateTime[n] = r.seen)' => updateTime[n] = r.seen
      BY <3>2 DEF TimesGrow, OrganizerTyped
    <3>4. WillKeep(r, n, ink)'
      BY <3>2, <3>3 DEF WillKeep, IsFresh
    <3>5. QED
      BY <2>2, <3>1, <3>4
  <2>3. CASE request'[c] = request[c] /\ (request[c].pc # "source" \/ request[c].from # n)
    BY <2>3 DEF WillKeep
  <2>4. QED
    BY <2>1, <2>2, <2>3
<1>2. QED
  BY <1>1 DEF IsOn

\* Nobody who read notebook n has read what it becomes.
LEMMA NewInkIsOn ==
  ASSUME OrganizerTyped, \A c \in Clients : RequestOK(request[c]),
         NEW n \in Notebooks, NEW new \in Notes, Becomes(n, new), NEW ink \in Inks(new),
         \A c \in Clients : \/ request'[c] = request[c]
                            \/ request'[c].pc # "source"
                            \/ request'[c].from # n
  PROVE  IsOn(n, ink)'
<1>1. updateTime[n] \in Nat /\ updateTime'[n] = updateTime[n] + 1 /\ cloud'[n] = new
  BY DEF Becomes, OrganizerTyped
<1>2. ASSUME NEW c \in Clients
      PROVE  WillKeep(request[c], n, ink)'
  <2>1. CASE request'[c].pc # "source" \/ request'[c].from # n
    BY <2>1 DEF WillKeep
  <2>2. CASE request'[c] = request[c] /\ request[c].pc = "source" /\ request[c].from = n
    <3>1. PICK r \in Requests : r = request[c]
      BY DEF OrganizerTyped
    <3>2. r.seen \in Nat /\ r.seen <= updateTime[n]
      BY <2>2, <3>1, RequestParts DEF RequestOK
    <3>3. updateTime'[n] # r.seen
      BY <1>1, <3>2
    <3>4. QED
      BY <2>2, <3>1, <3>3 DEF WillKeep, IsFresh
  <2>3. QED
    BY <2>1, <2>2
<1>3. QED
  BY <1>1, <1>2 DEF IsOn

LEMMA BecomingGrows ==
  ASSUME OrganizerTyped, NEW n \in Notebooks, NEW new \in Notes, Becomes(n, new),
         shifted \subseteq shifted', dropped \subseteq dropped'
  PROVE  TimesGrow
<1>1. cloud' \in [Notebooks -> Notes] /\ updateTime' \in [Notebooks -> Nat]
  BY DEF OrganizerTyped, Becomes
<1>2. \A m \in Notebooks : m # n => cloud'[m] = cloud[m] /\ updateTime'[m] = updateTime[m]
  BY DEF OrganizerTyped, Becomes
<1>3. updateTime'[n] > updateTime[n]
  BY DEF OrganizerTyped, Becomes
<1>4. QED
  BY <1>1, <1>2, <1>3 DEF TimesGrow

\* What an upload, failed or not, may do.
Outcome(n, seen, new) ==
  Upload(n, seen, new) \/ DeleteNotebook(n) \/ UNCHANGED <<noteVars, dropped>>

\* A request that is answered after an upload, failed or not, that keeps all
\* the ink it has read.
LEMMA LastUploadKeepsInv ==
  ASSUME OrganizerInv, NEW c \in Clients, NEW n \in Notebooks, NEW new \in Notes, NEW seen,
         Outcome(n, seen, new),
         IsFresh(n, seen) => \A ink : IsOn(n, ink) => ink \in Inks(new),
         \/ n \in shifted' \/ FootersFit(new) \/ cloud' = cloud,
         shifted \subseteq shifted', written' = written, Goes(c, Answered)
  PROVE  OrganizerInv'
<1> USE DEF OrganizerInv
<1>1. /\ request' \in [Clients -> Requests]
      /\ \A d \in Clients : request'[d] = request[d] \/ request'[d] = Answered
      /\ \A d \in Clients : request'[d] = request[d] \/ request'[d].pc # "source"
  BY DEF Goes, OrganizerTyped, Requests, Answered
<1>2. /\ NoNote \in Notes /\ Inks(NoNote) = {} /\ FootersFit(NoNote)
      /\ dropped \subseteq dropped'
  <2>1. NoNote.pages = <<>> /\ NoNote.footers = {} /\ NoNote \in Notes
    BY DEF NoNote, Notes
  <2>2. DOMAIN NoNote.pages = {}
    BY <2>1
  <2>3. Inks(NoNote) = {} /\ FootersFit(NoNote)
    BY <2>1, <2>2 DEF Inks, FootersFit
  <2>4. dropped \subseteq dropped'
    BY DEF Outcome, Upload, DeleteNotebook
  <2>5. QED
    BY <2>1, <2>3, <2>4
<1>3. PICK note \in Notes : \/ Becomes(n, note) /\ note \in {new, NoNote}
                            \/ UNCHANGED noteVars
  BY <1>2 DEF Outcome, Upload, DeleteNotebook, Becomes
<1>4. TimesGrow
  <2>1. CASE Becomes(n, note)
    BY <1>2, <2>1, BecomingGrows
  <2>2. CASE UNCHANGED noteVars
    BY <1>2, <2>2 DEF noteVars, TimesGrow, OrganizerTyped
  <2>3. QED
    BY <1>3, <2>1, <2>2
<1>5. OrganizerTyped'
  BY <1>1, <1>4 DEF OrganizerTyped, TimesGrow
<1>6. ASSUME NEW d \in Clients
      PROVE  RequestOK(request[d])'
  <2>1. CASE request'[d] = Answered
    BY <2>1 DEF RequestOK, Answered
  <2>2. CASE request'[d] = request[d]
    <3>1. PICK r \in Requests : r = request[d]
      BY DEF OrganizerTyped
    <3>2. RequestOK(r)'
      BY <1>4, <3>1, RequestsStayOK
    <3>3. QED
      BY <2>2, <3>1, <3>2
  <2>3. QED
    BY <1>1, <2>1, <2>2
<1>7. ASSUME NEW ink \in written
      PROVE  InkIsKept(ink)'
  <2>1. CASE ink \in dropped
    BY <1>2, <2>1 DEF InkIsKept
  <2>2. ASSUME NEW m \in Notebooks, IsOn(m, ink)
        PROVE  InkIsKept(ink)'
    <3>1. CASE cloud'[m] = cloud[m]
      <4>1. IsOn(m, ink)'
        BY <1>1, <1>4, <2>2, <3>1, InkStays
      <4>2. QED
        BY <4>1 DEF InkIsKept
    <3>2. CASE m = n /\ DeleteNotebook(n)
      BY <2>2, <3>2 DEF DeleteNotebook, IsOn, InkIsKept
    <3>3. CASE m = n /\ Upload(n, seen, new)
      <4>1. CASE ink \in Inks(new)
        <5>1. Becomes(n, new)
          BY <3>3 DEF Upload, Becomes
        <5>2. IsOn(n, ink)'
          BY <1>1, <4>1, <5>1, NewInkIsOn
        <5>3. QED
          BY <5>2 DEF InkIsKept
      <4>2. CASE ink \notin Inks(new)
        <5>1. updateTime[n] # seen
          BY <2>2, <3>3, <4>2 DEF IsFresh
        <5>2. ink \in dropped'
          BY <2>2, <3>3, <4>2, <5>1 DEF Upload, IsOn
        <5>3. QED
          BY <5>2 DEF InkIsKept
      <4>3. QED
        BY <4>1, <4>2
    <3>4. QED
      <4>1. CASE m = n
        BY <3>1, <3>2, <3>3, <4>1 DEF Outcome, noteVars
      <4>2. CASE m # n
        <5>1. cloud'[m] = cloud[m]
          BY <1>3, <4>2 DEF Becomes, noteVars, OrganizerTyped
        <5>2. QED
          BY <3>1, <5>1
      <4>3. QED
        BY <4>1, <4>2
  <2>3. QED
    BY <2>1, <2>2 DEF InkIsKept
<1>8. ASSUME NEW m \in Notebooks \ shifted'
      PROVE  FootersFit(cloud'[m])
  <2>1. CASE cloud'[m] = cloud[m]
    BY <1>8, <2>1 DEF FootersFollowTheirPages
  <2>2. CASE Becomes(n, note) /\ note \in {new, NoNote} /\ m = n
    <3>1. cloud'[n] = note
      BY <2>2 DEF Becomes, OrganizerTyped
    <3>2. CASE note = NoNote
      BY <1>2, <2>2, <3>1, <3>2
    <3>3. CASE note = new
      BY <1>8, <2>1, <2>2, <3>1, <3>3
    <3>4. QED
      BY <2>2, <3>2, <3>3
  <2>3. QED
    BY <1>3, <2>1, <2>2 DEF Becomes, noteVars, OrganizerTyped
<1>9. QED
  BY <1>5, <1>6, <1>7, <1>8 DEF FootersFollowTheirPages

\* A request that only goes on: no notebook changes, and nothing is removed yet.
LEMMA ReadingKeepsInv ==
  ASSUME OrganizerInv, NEW c \in Clients, NEW r \in Requests, r.pc # "source", RequestOK(r)',
         request' = [request EXCEPT ![c] = r], UNCHANGED <<noteVars, written, dropped, shifted>>
  PROVE  OrganizerInv'
<1> USE DEF OrganizerInv
<1>1. TimesGrow
  BY DEF TimesGrow, OrganizerTyped, noteVars
<1>2. OrganizerTyped'
  BY DEF OrganizerTyped, noteVars
<1>3. ASSUME NEW d \in Clients
      PROVE  RequestOK(request[d])'
  <2>1. PICK q \in Requests : q = request[d]
    BY DEF OrganizerTyped
  <2>2. RequestOK(q)'
    BY <1>1, <2>1, RequestsStayOK
  <2>3. request'[d] = IF d = c THEN r ELSE q
    BY <2>1 DEF OrganizerTyped
  <2>4. QED
    BY <2>2, <2>3
<1>4. \A d \in Clients : request'[d] = request[d] \/ request'[d].pc # "source"
  BY DEF OrganizerTyped
<1>5. ASSUME NEW ink \in written
      PROVE  InkIsKept(ink)'
  <2>1. ASSUME NEW m \in Notebooks, IsOn(m, ink)
        PROVE  IsOn(m, ink)'
    <3>1. cloud'[m] = cloud[m]
      BY DEF noteVars
    <3>2. QED
      BY <1>1, <1>4, <2>1, <3>1, InkStays
  <2>2. QED
    BY <2>1 DEF InkIsKept
<1>6. FootersFollowTheirPages'
  BY DEF FootersFollowTheirPages, noteVars
<1>7. QED
  BY <1>2, <1>3, <1>5, <1>6

(***************************************************************************)
(* The steps.                                                              *)
(***************************************************************************)

LEMMA DeviceAddsPageKeepsInv ==
  ASSUME OrganizerInv, NEW n \in Notebooks, NEW new \in NewInks, DeviceAddsPage(n, new)
  PROVE  OrganizerInv'
<1> USE DEF OrganizerInv
<1> DEFINE note == [cloud[n] EXCEPT !.pages = Append(@, Page(new, new, FALSE))]
<1>1. PICK old \in Notes : old = cloud[n]
  BY DEF OrganizerTyped
<1>2. PICK page \in Pages : page = Page(new, new, FALSE) /\ page.ink = new
  <2>1. new \in Names
    BY DEF Names
  <2>2. Page(new, new, FALSE) \in Pages
    BY <2>1 DEF Page, Pages
  <2>3. Page(new, new, FALSE).ink = new
    BY DEF Page
  <2>4. QED
    BY <2>2, <2>3
<1>3. new # Blank
  BY BlankIsNoInk
<1>4. note = [cloud[n] EXCEPT !.pages = Append(@, page)]
  BY <1>2
<1>5. note = [old EXCEPT !.pages = Append(@, page)]
  BY <1>1, <1>4
<1> HIDE DEF note
<1>6. note \in Notes
  BY <1>5, AppendedPage
<1>7. /\ new \in Inks(note) /\ Inks(cloud[n]) \subseteq Inks(note)
      /\ FootersFit(cloud[n]) => FootersFit(note)
  BY <1>1, <1>2, <1>3, <1>5, AppendedPage
<1> USE DEF note
<1>8. Becomes(n, note)
  BY DEF DeviceAddsPage, Becomes, OrganizerTyped
<1> HIDE DEF note
<1>9. UNCHANGED <<request, dropped, shifted>> /\ written' = written \cup {new}
  BY DEF DeviceAddsPage
<1>10. TimesGrow
  BY <1>6, <1>8, <1>9, BecomingGrows
<1>11. OrganizerTyped'
  BY <1>3, <1>9, <1>10 DEF OrganizerTyped, TimesGrow
<1>12. ASSUME NEW d \in Clients
       PROVE  RequestOK(request[d])'
  <2>1. PICK r \in Requests : r = request[d]
    BY DEF OrganizerTyped
  <2>2. RequestOK(r)'
    BY <1>10, <2>1, RequestsStayOK
  <2>3. QED
    BY <1>9, <2>1, <2>2
<1>13. ASSUME NEW ink \in Inks(note)
       PROVE  IsOn(n, ink)'
  BY <1>6, <1>8, <1>9, NewInkIsOn
<1>14. ASSUME NEW ink \in written'
       PROVE  InkIsKept(ink)'
  <2>1. CASE ink = new
    BY <1>7, <1>13, <2>1 DEF InkIsKept
  <2>2. ASSUME NEW m \in Notebooks, IsOn(m, ink)
        PROVE  IsOn(m, ink)'
    <3>1. CASE m = n
      BY <1>7, <1>13, <2>2, <3>1 DEF IsOn
    <3>2. CASE m # n
      <4>1. cloud'[m] = cloud[m]
        BY <1>8, <3>2 DEF Becomes, OrganizerTyped
      <4>2. QED
        BY <1>9, <1>10, <2>2, <4>1, InkStays
    <3>3. QED
      BY <3>1, <3>2
  <2>3. QED
    BY <1>9, <2>1, <2>2 DEF InkIsKept
<1>15. FootersFollowTheirPages'
  <2>1. \A m \in Notebooks : cloud'[m] = IF m = n THEN note ELSE cloud[m]
    BY <1>8 DEF Becomes, OrganizerTyped
  <2>2. QED
    BY <1>7, <1>9, <2>1 DEF FootersFollowTheirPages
<1>16. QED
  BY <1>11, <1>12, <1>14, <1>15

LEMMA StartMoveKeepsInv ==
  ASSUME OrganizerInv, NEW c \in Clients, NEW n \in Notebooks, NEW t \in Notebooks, NEW id,
         StartMove(c, n, id, t)
  PROVE  OrganizerInv'
<1> DEFINE r == [pc |-> "target", from |-> n, to |-> t, source |-> cloud[n],
                 seen |-> updateTime[n], at |-> PositionOf(cloud[n], id)]
<1>1. /\ request' = [request EXCEPT ![c] = r] /\ UNCHANGED <<noteVars, written, dropped, shifted>>
      /\ t # n /\ id \in ToSet(PageIds(cloud[n]))
  BY DEF StartMove, Begin
<1>2. cloud[n] \in Notes /\ updateTime[n] \in Nat
  BY DEF OrganizerInv, OrganizerTyped
<1>3. PositionOf(cloud[n], id) \in DOMAIN cloud[n].pages
  BY <1>1, <1>2, PositionIsOfThePage
<1>4. PositionOf(cloud[n], id) \in Nat
  BY <1>2, <1>3, NoteParts
<1>5. r \in Requests
  BY <1>2, <1>4 DEF Requests
<1>6. /\ r # Answered /\ r.pc = "target" /\ r.from = n /\ r.to = t /\ r.source = cloud[n]
      /\ r.seen = updateTime[n] /\ r.at = PositionOf(cloud[n], id)
  BY DEF Answered
<1>7. PICK q \in Requests : q = r
  BY <1>5
<1> HIDE DEF r
<1>8. updateTime' = updateTime /\ cloud' = cloud
  BY <1>1 DEF noteVars
<1>9. RequestOK(q)'
  BY <1>1, <1>2, <1>3, <1>6, <1>7, <1>8 DEF RequestOK
<1>10. QED
  BY <1>1, <1>6, <1>7, <1>9, ReadingKeepsInv

LEMMA StartReorderKeepsInv ==
  ASSUME OrganizerInv, NEW c \in Clients, NEW n \in Notebooks, NEW order \in Orders(n),
         StartReorder(c, n, order)
  PROVE  OrganizerInv'
<1> DEFINE note == ReorderPages(cloud[n], order)
           r == [pc |-> "reorder", from |-> n, seen |-> updateTime[n], new |-> note]
<1>1. /\ request' = [request EXCEPT ![c] = r] /\ UNCHANGED <<noteVars, written, dropped, shifted>>
      /\ CanReorder(cloud[n], order)
  BY DEF StartReorder, Begin
<1>2. cloud[n] \in Notes /\ updateTime[n] \in Nat
      /\ (n \notin shifted => FootersFit(cloud[n]))
  BY DEF OrganizerInv, OrganizerTyped, FootersFollowTheirPages
<1>3. /\ note \in Notes
      /\ Inks(cloud[n]) \subseteq Inks(note)
      /\ FootersFit(cloud[n]) => FootersFit(note)
  <2>1. IsFiniteSet(ToSet(PageIds(cloud[n])))
    <3>1. /\ DOMAIN cloud[n].pages = 1..Len(cloud[n].pages) /\ Len(cloud[n].pages) \in Nat
      BY <1>2, NoteParts
    <3>2. IsFiniteSet(DOMAIN cloud[n].pages)
      <4>1. PICK last \in Int : last = Len(cloud[n].pages)
        BY <3>1
      <4>2. IsFiniteSet(1..last)
        BY FS_Interval
      <4>3. QED
        BY <3>1, <4>1, <4>2
    <3>3. PageIds(cloud[n]) \in Surjection(DOMAIN cloud[n].pages, ToSet(PageIds(cloud[n])))
      BY DEF Surjection, ToSet, PageIds
    <3>4. QED
      BY <3>2, <3>3, FS_Surjection
  <2>2. PICK k \in Nat : order \in [1..k -> ToSet(PageIds(cloud[n]))]
    BY <2>1, FS_CardinalityType DEF Orders, SetToSeqs
  <2>3. QED
    BY <1>1, <1>2, <2>2, ReorderedPages
<1> HIDE DEF note
<1>4. r \in Requests
  BY <1>2, <1>3 DEF Requests
<1>5. /\ r # Answered /\ r.pc = "reorder" /\ r.from = n
      /\ r.seen = updateTime[n] /\ r.new = note
  BY DEF Answered
<1>6. PICK q \in Requests : q = r
  BY <1>4
<1> HIDE DEF r
<1>7. updateTime' = updateTime /\ cloud' = cloud /\ shifted' = shifted
  BY <1>1 DEF noteVars
<1>8. RequestOK(q)'
  BY <1>2, <1>3, <1>5, <1>6, <1>7 DEF RequestOK
<1>9. QED
  BY <1>1, <1>5, <1>6, <1>8, ReadingKeepsInv

LEMMA DownloadTargetKeepsInv ==
  ASSUME OrganizerInv, NEW c \in Clients, DownloadTarget(c)
  PROVE  OrganizerInv'
<1>1. PICK r \in Requests : /\ r = request[c] /\ r.pc = "target" /\ RequestOK(r)
                            /\ r.from \in Notebooks /\ r.to \in Notebooks /\ r.source \in Notes
                            /\ r.seen \in Nat /\ r # Answered
  BY RequestParts DEF DownloadTarget, OrganizerInv, OrganizerTyped
<1> DEFINE target == CopyPagesToEnd(r.source, cloud[r.to], <<r.at>>)
           source == RemovePages(r.source, {r.at})
           next == [pc |-> "move", from |-> r.from, to |-> r.to, seen |-> r.seen,
                    seenTarget |-> updateTime[r.to], newTarget |-> target, newSource |-> source]
<1>2. /\ UNCHANGED <<noteVars, written, dropped, shifted>>
      /\ \/ request' = [request EXCEPT ![c] = Answered]
         \/ request' = [request EXCEPT ![c] = next]
  BY <1>1 DEF DownloadTarget, Goes
<1>3. /\ cloud[r.to] \in Notes /\ updateTime[r.to] \in Nat
      /\ r.to \notin shifted => FootersFit(cloud[r.to])
  BY <1>1 DEF OrganizerInv, OrganizerTyped, FootersFollowTheirPages
<1>4. r.at \in DOMAIN r.source.pages /\ r.from # r.to /\ r.seen <= updateTime[r.from]
  BY <1>1 DEF RequestOK
<1>5. /\ target \in Notes
      /\ Inks(cloud[r.to]) \subseteq Inks(target)
      /\ r.source.pages[r.at].ink # Blank => r.source.pages[r.at].ink \in Inks(target)
      /\ FootersFit(cloud[r.to]) => FootersFit(target)
  BY <1>1, <1>3, <1>4, CopiedPage
<1>6. source \in Notes
  <2>1. r.source.pages # <<>>
    BY <1>4
  <2>2. QED
    BY <1>1, <2>1, RemovedPages
<1>7. Inks(r.source) \subseteq Inks(source) \cup Inks(target)
  <2>1. ASSUME NEW p \in DOMAIN r.source.pages, r.source.pages[p].ink # Blank
        PROVE  r.source.pages[p].ink \in Inks(source) \cup Inks(target)
    <3>1. CASE p = r.at
      BY <1>5, <2>1, <3>1
    <3>2. CASE p # r.at
      <4>1. p \in DOMAIN r.source.pages \ {r.at}
        BY <3>2
      <4>2. QED
        BY <1>1, <2>1, <4>1, RemovedPages
    <3>3. QED
      BY <3>1, <3>2
  <2> HIDE DEF source, target
  <2>2. QED
    BY <2>1 DEF Inks
<1> HIDE DEF target, source
<1>8. next \in Requests
  BY <1>1, <1>3, <1>5, <1>6 DEF Requests
<1>9. /\ next # Answered /\ next.pc = "move" /\ next.from = r.from /\ next.to = r.to
      /\ next.seen = r.seen /\ next.seenTarget = updateTime[r.to]
      /\ next.newTarget = target /\ next.newSource = source
  BY DEF Answered
<1>10. PICK q \in Requests : q = next
  BY <1>8
<1> HIDE DEF next
<1>11. updateTime' = updateTime /\ cloud' = cloud /\ shifted' = shifted
  BY <1>2 DEF noteVars
<1>12. IsFresh(r.from, r.seen) => r.source = cloud[r.from]
  BY <1>1 DEF RequestOK
<1>13. RequestOK(q)'
  BY <1>3, <1>4, <1>5, <1>7, <1>9, <1>10, <1>11, <1>12 DEF RequestOK, IsFresh
<1>14. Answered \in Requests /\ Answered.pc # "source" /\ RequestOK(Answered)'
  BY DEF Requests, Answered, RequestOK
<1>15. QED
  BY <1>2, <1>9, <1>10, <1>13, <1>14, ReadingKeepsInv

LEMMA UploadTargetKeepsInv ==
  ASSUME OrganizerInv, NEW c \in Clients, UploadTarget(c)
  PROVE  OrganizerInv'
<1> USE DEF OrganizerInv
<1>1. PICK r \in Requests :
        /\ r = request[c] /\ r.pc = "move" /\ RequestOK(r)
        /\ r.from \in Notebooks /\ r.to \in Notebooks /\ r.from # r.to
        /\ r.seen \in Nat /\ r.seenTarget \in Nat
        /\ r.newTarget \in Notes /\ r.newSource \in Notes /\ r # Answered
  <2>1. PICK r \in Requests : r = request[c] /\ r.pc = "move" /\ RequestOK(r)
    BY DEF UploadTarget, OrganizerTyped
  <2>2. r.from # r.to
    BY <2>1 DEF RequestOK
  <2>3. QED
    BY <2>1, <2>2, RequestParts
<1> DEFINE next == [r EXCEPT !.pc = "source"]
<1>2. /\ Upload(r.to, r.seenTarget, r.newTarget) /\ UNCHANGED <<written, shifted>>
      /\ request' = [request EXCEPT ![c] = next]
  BY <1>1 DEF UploadTarget, Goes
<1>3. Becomes(r.to, r.newTarget) /\ dropped \subseteq dropped'
  BY <1>2 DEF Upload, Becomes
<1>4. TimesGrow
  BY <1>1, <1>2, <1>3, BecomingGrows
<1>5. /\ next \in Requests /\ next.pc = "source" /\ next.from = r.from /\ next.to = r.to
      /\ next.seen = r.seen /\ next.newSource = r.newSource /\ next # Answered
  <2>1. r \in [pc: {"move", "source"}, from: Notebooks, to: Notebooks, seen: Nat,
               seenTarget: Nat, newTarget: Notes, newSource: Notes]
    BY <1>1 DEF Requests, Answered
  <2>2. next \in [pc: {"move", "source"}, from: Notebooks, to: Notebooks, seen: Nat,
                  seenTarget: Nat, newTarget: Notes, newSource: Notes]
    BY <2>1
  <2>3. QED
    BY <2>1, <2>2 DEF Requests, Answered
<1> HIDE DEF next
<1>6. PICK q \in Requests : q = next
  BY <1>5
<1>7. RequestOK(q)'
  <2>1. (r.seen <= updateTime[r.from])'
    BY <1>1, <1>4, RequestsStayOK DEF RequestOK
  <2>2. QED
    BY <1>1, <1>5, <1>6, <2>1 DEF RequestOK
<1>8. \A d \in Clients : request'[d] = IF d = c THEN q ELSE request[d]
  BY <1>2, <1>6 DEF OrganizerTyped
<1>9. OrganizerTyped'
  <2>1. request' \in [Clients -> Requests]
    BY <1>2, <1>5 DEF OrganizerTyped
  <2>2. QED
    BY <1>2, <1>4, <2>1 DEF OrganizerTyped, TimesGrow
<1>10. ASSUME NEW d \in Clients
       PROVE  RequestOK(request[d])'
  <2>1. PICK s \in Requests : s = request[d]
    BY DEF OrganizerTyped
  <2>2. RequestOK(s)'
    BY <1>4, <2>1, RequestsStayOK
  <2>3. QED
    BY <1>7, <1>8, <2>1, <2>2
<1>11. ASSUME NEW ink \in Inks(r.newTarget)
       PROVE  InkIsKept(ink)'
  <2>1. \A d \in Clients : request'[d] = request[d] \/ request'[d].from # r.to
    BY <1>1, <1>5, <1>6, <1>8
  <2>2. IsOn(r.to, ink)'
    BY <1>1, <1>3, <2>1, NewInkIsOn
  <2>3. QED
    BY <1>1, <2>2 DEF InkIsKept
<1>12. ASSUME NEW ink \in written
       PROVE  InkIsKept(ink)'
  <2>1. CASE ink \in dropped
    BY <1>3, <2>1 DEF InkIsKept
  <2>2. CASE IsOn(r.to, ink) /\ ink \notin Inks(r.newTarget)
    <3>1. updateTime[r.to] # r.seenTarget
      BY <1>1, <2>2 DEF RequestOK, IsFresh, IsOn
    <3>2. ink \in dropped'
      BY <1>2, <2>2, <3>1 DEF Upload, IsOn
    <3>3. QED
      BY <3>2 DEF InkIsKept
  <2>3. ASSUME NEW n \in Notebooks, n # r.to, IsOn(n, ink), ink \notin Inks(r.newTarget)
        PROVE  InkIsKept(ink)'
    <3>1. cloud'[n] = cloud[n] /\ updateTime'[n] = updateTime[n]
      BY <1>3, <2>3 DEF Becomes, OrganizerTyped
    <3>2. ASSUME NEW d \in Clients
          PROVE  WillKeep(request[d], n, ink)'
      <4>1. CASE d = c
        <5>1. WillKeep(q, n, ink)'
          BY <1>1, <1>5, <1>6, <2>3, <3>1 DEF WillKeep, IsOn, RequestOK, IsFresh
        <5>2. QED
          BY <1>8, <4>1, <5>1
      <4>2. CASE d # c
        BY <1>8, <2>3, <3>1, <4>2 DEF IsOn, WillKeep, IsFresh
      <4>3. QED
        BY <4>1, <4>2
    <3>3. IsOn(n, ink)'
      BY <2>3, <3>1, <3>2 DEF IsOn
    <3>4. QED
      BY <3>3 DEF InkIsKept
  <2>4. QED
    BY <1>11, <2>1, <2>2, <2>3 DEF InkIsKept
<1>13. FootersFollowTheirPages'
  <2>1. \A m \in Notebooks : cloud'[m] = IF m = r.to THEN r.newTarget ELSE cloud[m]
    BY <1>3 DEF Becomes, OrganizerTyped
  <2>2. r.to \notin shifted => FootersFit(r.newTarget)
    BY <1>1 DEF RequestOK
  <2>3. QED
    BY <1>2, <2>1, <2>2 DEF FootersFollowTheirPages
<1>14. QED
  BY <1>2, <1>9, <1>10, <1>12, <1>13

LEMMA UploadTargetFailsKeepsInv ==
  ASSUME OrganizerInv, NEW c \in Clients, UploadTargetFails(c)
  PROVE  OrganizerInv'
<1>1. PICK r \in Requests : r = request[c] /\ r.pc = "move" /\ RequestOK(r)
  BY DEF OrganizerInv, OrganizerTyped, UploadTargetFails
<1>2. r.to \in Notebooks /\ r.newTarget \in Notes
  BY <1>1, RequestParts
<1>3. IsFresh(r.to, r.seenTarget) => \A ink : IsOn(r.to, ink) => ink \in Inks(r.newTarget)
  BY <1>1 DEF RequestOK, IsOn
<1>4. r.to \in shifted \/ FootersFit(r.newTarget)
  BY <1>1 DEF RequestOK
<1>5. Outcome(r.to, r.seenTarget, r.newTarget)
  BY <1>1 DEF UploadTargetFails, UploadFails, Outcome
<1>6. shifted' = shifted /\ written' = written /\ Goes(c, Answered)
  BY DEF UploadTargetFails
<1>7. QED
  BY <1>2, <1>3, <1>4, <1>5, <1>6, LastUploadKeepsInv

LEMMA UploadReorderedKeepsInv ==
  ASSUME OrganizerInv, NEW c \in Clients, UploadReordered(c)
  PROVE  OrganizerInv'
<1>1. PICK r \in Requests : r = request[c] /\ r.pc = "reorder" /\ RequestOK(r)
  BY DEF OrganizerInv, OrganizerTyped, UploadReordered
<1>2. r.from \in Notebooks /\ r.new \in Notes
  BY <1>1, RequestParts
<1>3. IsFresh(r.from, r.seen) => \A ink : IsOn(r.from, ink) => ink \in Inks(r.new)
  BY <1>1 DEF RequestOK, IsOn
<1>4. r.from \in shifted \/ FootersFit(r.new)
  BY <1>1 DEF RequestOK
<1>5. Outcome(r.from, r.seen, r.new)
  BY <1>1 DEF UploadReordered, UploadFails, Outcome
<1>6. shifted' = shifted /\ written' = written /\ Goes(c, Answered)
  BY DEF UploadReordered
<1>7. QED
  BY <1>2, <1>3, <1>4, <1>5, <1>6, LastUploadKeepsInv

LEMMA UploadSourceKeepsInv ==
  ASSUME OrganizerInv, NEW c \in Clients, UploadSource(c)
  PROVE  OrganizerInv'
<1>1. PICK r \in Requests : r = request[c] /\ r.pc = "source"
  BY DEF OrganizerInv, OrganizerTyped, UploadSource
<1>2. r.from \in Notebooks /\ r.newSource \in Notes
  BY <1>1, RequestParts
<1>3. IsFresh(r.from, r.seen) => \A ink : IsOn(r.from, ink) => ink \in Inks(r.newSource)
  BY <1>1 DEF IsOn, WillKeep
<1>4. r.from \in shifted' \/ cloud' = cloud
  BY <1>1 DEF UploadSource
<1>5. Outcome(r.from, r.seen, r.newSource)
  BY <1>1 DEF UploadSource, UploadFails, Outcome
<1>6. shifted \subseteq shifted' /\ written' = written /\ Goes(c, Answered)
  BY DEF UploadSource
<1>7. QED
  BY <1>2, <1>3, <1>4, <1>5, <1>6, LastUploadKeepsInv

LEMMA StopServerKeepsInv ==
  ASSUME OrganizerInv, StopServer
  PROVE  OrganizerInv'
<1> USE DEF OrganizerInv
<1>1. UNCHANGED <<noteVars, written, dropped, shifted>> /\ request' = [c \in Clients |-> Answered]
  BY DEF StopServer
<1>2. TimesGrow /\ OrganizerTyped'
  BY <1>1 DEF noteVars, TimesGrow, OrganizerTyped, Requests
<1>3. \A c \in Clients : RequestOK(request[c])' /\ request'[c].pc # "source"
  BY <1>1 DEF RequestOK, Answered
<1>4. ASSUME NEW n \in Notebooks, NEW ink, IsOn(n, ink)
      PROVE  IsOn(n, ink)'
  <2>1. cloud'[n] = cloud[n]
    BY <1>1 DEF noteVars
  <2>2. QED
    BY <1>2, <1>3, <1>4, <2>1, InkStays
<1>5. \A ink \in written : InkIsKept(ink)'
  BY <1>1, <1>4 DEF InkIsKept
<1>6. FootersFollowTheirPages'
  BY <1>1 DEF FootersFollowTheirPages, noteVars
<1>7. QED
  BY <1>1, <1>2, <1>3, <1>5, <1>6

LEMMA OrganizerStutterKeepsInv ==
  ASSUME OrganizerInv, UNCHANGED organizerVars
  PROVE  OrganizerInv'
<1>1. UNCHANGED <<cloud, updateTime, request, written, dropped, shifted>>
  BY DEF organizerVars
<1>2. OrganizerTyped' /\ FootersFollowTheirPages'
  BY <1>1 DEF OrganizerInv, OrganizerTyped, FootersFollowTheirPages
<1>3. \A r : RequestOK(r)' <=> RequestOK(r)
  BY <1>1 DEF RequestOK, IsFresh
<1>4. \A ink : InkIsKept(ink)' <=> InkIsKept(ink)
  BY <1>1 DEF InkIsKept, IsOn, WillKeep, IsFresh
<1>5. QED
  BY <1>1, <1>2, <1>3, <1>4 DEF OrganizerInv

LEMMA OrganizerInitHolds == OrganizerInit => OrganizerInv
<1> SUFFICES ASSUME OrganizerInit
             PROVE  OrganizerInv
  OBVIOUS
<1>1. \A c \in Clients : request[c] = Answered /\ RequestOK(Answered)
  BY DEF OrganizerInit, RequestOK, Answered
<1>2. OrganizerTyped
  BY InitialNotesAreNotes DEF OrganizerInit, OrganizerTyped, Requests, InksOf, Inks
<1>3. ASSUME NEW ink \in written
      PROVE  InkIsKept(ink)
  <2>1. PICK n \in Notebooks : ink \in Inks(cloud[n])
    BY DEF OrganizerInit, InksOf
  <2>2. IsOn(n, ink)
    BY <1>1, <2>1 DEF IsOn, WillKeep, Answered
  <2>3. QED
    BY <2>2 DEF InkIsKept
<1>4. FootersFollowTheirPages
  BY InitialNotesAreNotes DEF OrganizerInit, FootersFollowTheirPages
<1>5. QED
  BY <1>1, <1>2, <1>3, <1>4 DEF OrganizerInv

LEMMA OrganizerInvHolds == OrganizerSpec => []OrganizerInv
<1>1. ASSUME OrganizerInv, [OrganizerNext]_organizerVars
      PROVE  OrganizerInv'
  BY <1>1, DeviceAddsPageKeepsInv, StartMoveKeepsInv, StartReorderKeepsInv,
     DownloadTargetKeepsInv, UploadTargetKeepsInv, UploadTargetFailsKeepsInv,
     UploadSourceKeepsInv, UploadReorderedKeepsInv, StopServerKeepsInv,
     OrganizerStutterKeepsInv DEF OrganizerNext
<1>2. QED
  BY <1>1, OrganizerInitHolds, PTL DEF OrganizerSpec

\* A page is lost only when an upload goes over an edit that its request has not
\* read, or fails after it has deleted the notebook: moves and reorders of any
\* number of browsers, stopped anywhere, lose no other.
THEOREM InkIsNeverLost == OrganizerSpec => []NoInkLost
<1>1. OrganizerInv => NoInkLost
  BY DEF OrganizerInv, NoInkLost, InkIsKept, IsOn, InksOf
<1>2. QED
  BY <1>1, OrganizerInvHolds, PTL

\* The titles, keywords and links of a notebook from which no page was moved are
\* on the pages to which the user attached them, however its pages are reordered.
THEOREM FootersStayOnTheirPages == OrganizerSpec => []FootersFollowTheirPages
<1>1. OrganizerInv => FootersFollowTheirPages
  BY DEF OrganizerInv
<1>2. QED
  BY <1>1, OrganizerInvHolds, PTL

=============================================================================
