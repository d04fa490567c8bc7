--------------------------- MODULE OpayRowsProofs ---------------------------
(***************************************************************************)
(* Proofs about OpayRows for statements of any number of pages and rows:   *)
(* what is booked of a statement laid out as the bank lays it out, what    *)
(* the checks make of it, and how its redacted copy reads (OpayStatement). *)
(***************************************************************************)
EXTENDS OpayStatement, FiniteSetTheorems, WellFoundedInduction, TLAPS

(* The first of a set of rows is one of them, and no row is before it.     *)
LEMMA FirstIs ==
    ASSUME NEW S, S \subseteq Nat, S # {}
    PROVE  First(S) \in S /\ \A k \in S : First(S) <= k
<1>1. PICK m \in S : \A k \in S : <<k, m>> \notin OpToRel(<, Nat)
  BY WFMin, NatLessThanWellFounded, Zenon
<1>2. ASSUME NEW k \in S, k < m
      PROVE  FALSE
  <2>1. <<k, m>> \in OpToRel(<, Nat)
    BY <1>2 DEF OpToRel
  <2> QED
    BY <1>1, <2>1
<1>3. \A k \in S : m <= k
  BY <1>2
<1> QED
  BY <1>3 DEF First

(* A lower row has a higher rank, and every rank is taken.                 *)
LEMMA RankIs ==
    ASSUME NEW N \in Nat, NEW S, S \subseteq 1..N
    PROVE  /\ IsFiniteSet(S) /\ Cardinality(S) \in Nat
           /\ \A k \in S : Rank(S, k) \in 1..Cardinality(S)
           /\ \A j, k \in S : j < k => Rank(S, j) < Rank(S, k)
<1> DEFINE Upto(k) == {m \in S : m <= k}
<1>0. \A k \in S : k \in Int
  OBVIOUS
<1>1. IsFiniteSet(S) /\ Cardinality(S) \in Nat
  <2>1. IsFiniteSet(1..N)
    BY FS_Interval
  <2>2. IsFiniteSet(S)
    BY <2>1, FS_Subset
  <2> QED
    BY <2>2, FS_CardinalityType
<1>2. ASSUME NEW k \in S
      PROVE  /\ IsFiniteSet(Upto(k)) /\ Cardinality(Upto(k)) \in 1..Cardinality(S)
             /\ Rank(S, k) = Cardinality(Upto(k))
  <2>1. Upto(k) \in SUBSET S /\ k \in Upto(k)
    OBVIOUS
  <2> HIDE DEF Upto
  <2>2. IsFiniteSet(Upto(k)) /\ Cardinality(Upto(k)) <= Cardinality(S)
    BY <1>1, <2>1, FS_Subset
  <2>3. Cardinality(Upto(k)) \in Nat /\ Cardinality(Upto(k)) # 0
    BY <2>1, <2>2, FS_CardinalityType, FS_EmptySet
  <2>4. Rank(S, k) = Cardinality(Upto(k))
    BY DEF Rank, Upto
  <2> QED
    BY <1>1, <2>2, <2>3, <2>4
<1>3. ASSUME NEW j \in S, NEW k \in S, j < k
      PROVE  Rank(S, j) < Rank(S, k)
  <2>1. Upto(j) \in SUBSET Upto(k) /\ k \in Upto(k) /\ k \notin Upto(j)
    <3>1. j \in Int /\ k \in Int /\ \A m \in S : m <= j => m <= k
      BY <1>0, <1>3
    <3>2. k <= k /\ ~(k <= j)
      BY <1>3, <3>1
    <3> QED
      BY <3>1, <3>2
  <2> HIDE DEF Upto
  <2>2. /\ Cardinality(Upto(j)) <= Cardinality(Upto(k))
        /\ Cardinality(Upto(j)) # Cardinality(Upto(k))
    BY <1>2, <2>1, FS_Subset
  <2>3. Cardinality(Upto(j)) \in Nat /\ Cardinality(Upto(k)) \in Nat
    BY <1>1, <1>2
  <2> QED
    BY <1>2, <2>2, <2>3
<1> QED
  BY <1>1, <1>2, <1>3

LEMMA RankTaken ==
    ASSUME NEW N \in Nat, NEW S, S \subseteq 1..N, NEW n \in 1..Cardinality(S)
    PROVE  \E k \in S : Rank(S, k) = n
<1> DEFINE T == 1..Cardinality(S)
           f == [k \in S |-> Rank(S, k)]
<1>1. IsFiniteSet(T) /\ Cardinality(T) = Cardinality(S)
  <2>1. Cardinality(S) \in Nat
    BY RankIs
  <2> QED
    BY <2>1, FS_Interval
<1>2. f \in [S -> T]
  BY RankIs
<1>3. \A j, k \in S : f[j] = f[k] => j = k
  <2> SUFFICES ASSUME NEW j \in S, NEW k \in S, Rank(S, j) = Rank(S, k)
               PROVE  j = k
    OBVIOUS
  <2>1. Rank(S, j) \in 1..Cardinality(S) /\ Cardinality(S) \in Nat
    BY RankIs
  <2>2. j < k => Rank(S, j) < Rank(S, k)
    BY RankIs
  <2>3. k < j => Rank(S, k) < Rank(S, j)
    BY RankIs
  <2>4. j \in Int /\ k \in Int
    OBVIOUS
  <2> QED
    BY <2>1, <2>2, <2>3, <2>4
<1>4. f \in Injection(S, T)
  BY <1>2, <1>3 DEF Injection, IsInjective
<1>5. f \in Surjection(S, T)
  BY <1>1, <1>4, FS_Injection
<1> QED
  BY <1>5 DEF Surjection

(* Places lists each row of a set once, from top to bottom.                *)
Lists(s, p, S) ==
    /\ DOMAIN s = 1..Cardinality(S) /\ Cardinality(S) \in Nat
    /\ \A n \in DOMAIN s : \E k \in S : s[n] = <<p, k>>
    /\ \A k \in S : \E n \in DOMAIN s : s[n] = <<p, k>>
    /\ \A j, n \in DOMAIN s : j < n => s[j][2] < s[n][2]

LEMMA PlacesAre ==
    ASSUME NEW N \in Nat, NEW S, S \subseteq 1..N, NEW p
    PROVE  Lists(Places(p, S), p, S)
<1> SUFFICES ASSUME NEW s, s = Places(p, S)
             PROVE  Lists(s, p, S)
  OBVIOUS
<1> DEFINE g(n) == CHOOSE k \in S : Rank(S, k) = n
<1>1. DOMAIN s = 1..Cardinality(S) /\ Cardinality(S) \in Nat /\ \A n \in DOMAIN s : s[n] = <<p, g(n)>>
  BY RankIs DEF Places
<1>2. \A n \in DOMAIN s : g(n) \in S /\ Rank(S, g(n)) = n
  BY <1>1, RankTaken
<1> HIDE DEF g
<1>r. ASSUME NEW j \in S, NEW k \in S
      PROVE  /\ j \in Int /\ Rank(S, j) \in Int
             /\ j < k => Rank(S, j) < Rank(S, k)
             /\ k < j => Rank(S, k) < Rank(S, j)
  <2>1. Rank(S, j) \in 1..Cardinality(S) /\ Cardinality(S) \in Nat
    BY RankIs
  <2>2. j < k => Rank(S, j) < Rank(S, k)
    BY RankIs
  <2>3. k < j => Rank(S, k) < Rank(S, j)
    BY RankIs
  <2>4. j \in Int
    OBVIOUS
  <2> QED
    BY <2>1, <2>2, <2>3, <2>4
<1>3. ASSUME NEW k \in S
      PROVE  \E n \in DOMAIN s : s[n] = <<p, k>>
  <2>1. PICK n \in DOMAIN s : n = Rank(S, k)
    BY <1>1, RankIs
  <2>2. PICK m \in S : m = g(n) /\ Rank(S, m) = n
    BY <1>2
  <2>3. m = k
    BY <1>r, <2>1, <2>2
  <2> QED
    BY <1>1, <2>2, <2>3
<1>4. ASSUME NEW j \in DOMAIN s, NEW n \in DOMAIN s, j < n
      PROVE  s[j][2] < s[n][2]
  <2>1. PICK a \in S : a = g(j) /\ Rank(S, a) = j
    BY <1>2
  <2>2. PICK b \in S : b = g(n) /\ Rank(S, b) = n
    BY <1>2
  <2>3. a < b
    BY <1>r, <1>4, <2>1, <2>2
  <2> QED
    BY <1>1, <2>1, <2>2, <2>3
<1> QED
  BY <1>1, <1>2, <1>3, <1>4 DEF Lists

-----------------------------------------------------------------------------
(* The inductive invariant                                                 *)

PlacesOf == {pos \in Positions : IsPlace(pos)}
Drafts == [head : PlacesOf, lines : Seq(PlacesOf)]
Ended == {"built", "no_transactions", "result"}

InputOK ==
    /\ format \in {"pdf", "xlsx", "unknown"} /\ sheet \in BOOLEAN
    /\ pages \in Seq(Seq(Rows)) /\ (format = "xlsx" => Len(pages) = 1)

(* Where the loops are, for each format.                                   *)
LoopsOK ==
    /\ pc \in Ends \cup {"start", "walk", "sheet", "sheet_read", "built"}
    /\ page \in 1..(Len(pages) + 1) /\ row \in Nat \ {0} /\ walked \in Nat
    /\ transactions \in Seq(Drafts)
    /\ format = "pdf" => walked = page - 1 /\ pc \notin {"sheet", "sheet_read"}
    /\ format # "pdf" => page = 1 /\ pc # "walk"
    /\ format = "xlsx" /\ pc \notin {"start", "drift"} => row \in (HeaderRows + 1)..(Len(pages[1]) + 1)
    /\ format = "xlsx" => walked = IF pc \in Ended THEN 1 ELSE 0
    /\ format = "unknown" => pc \in {"start", "unknown_format"} /\ walked = 0
    /\ pc = "start" => page = 1 /\ row = HeaderRows + 1
    /\ pc \in Ended => walked >= 1
    /\ pc = "walk" => pages # <<>>
    /\ pc = "result" => transactions # <<>>

(* The rows behind the loops that are transactions, and no other, are      *)
(* booked, in the order of print.                                          *)
Behind(pos) ==
    \/ format = "pdf" /\ pos[1] < page /\ pos[2] \in TxRows(pos[1])
    \/ format = "xlsx" /\ pos[2] > HeaderRows /\ pos[2] < row /\ At(pos).date = "stamp"
Sorted ==
    \A j, k \in DOMAIN transactions :
        j < k => Before(transactions[j].head, transactions[k].head)
HeadsSoFar == Heads = {pos \in PlacesOf : Behind(pos)} /\ Sorted

(* Each with the lines of its page that are closest to it.                 *)
Nearby(h) == {pos \in PlacesOf : /\ pos[1] = h[1] /\ pos[2] \in Lines(h[1])
                                 /\ Closest(h[1], pos[2]) = h[2]}
LinesOf(t) == {t.lines[m] : m \in DOMAIN t.lines}
LinesSoFar ==
    format = "pdf" => \A k \in DOMAIN transactions :
                         LinesOf(transactions[k]) = Nearby(transactions[k].head)

(* The loops go on until the section ends, or the rows they know.          *)
SectionSoFar ==
    /\ format = "pdf" =>
         /\ \A p \in DOMAIN pages : HitsSectionEnd(p) => p >= page - 1
         /\ pc = "walk" => \A p \in DOMAIN pages : HitsSectionEnd(p) => p >= page
         /\ pc \in Ended => page > Len(pages) \/ HitsSectionEnd(page - 1)
    /\ format = "xlsx" /\ pc \notin {"start", "drift"} =>
         /\ \A k \in (HeaderRows + 1)..(row - 1) : pages[1][k].date # "other"
         /\ pc \in Ended \cup {"sheet_read"} => row > Len(pages[1]) \/ pages[1][row].date = "other"

IInv == InputOK /\ LoopsOK /\ HeadsSoFar /\ LinesSoFar /\ SectionSoFar

-----------------------------------------------------------------------------
(* What is on a page                                                       *)

LEMMA PagesType ==
    ASSUME InputOK, NEW p \in DOMAIN pages
    PROVE  /\ DOMAIN pages = 1..Len(pages) /\ Len(pages) \in Nat /\ p \in Nat \ {0}
           /\ DOMAIN pages[p] = 1..Len(pages[p]) /\ Len(pages[p]) \in Nat
<1>1. DOMAIN pages = 1..Len(pages) /\ Len(pages) \in Nat /\ pages[p] \in Seq(Rows)
  BY DEF InputOK
<1> QED
  BY <1>1

LEMMA PlaceIs ==
    /\ \A p \in DOMAIN pages : \A k \in DOMAIN pages[p] : <<p, k>> \in PlacesOf
    /\ \A pos \in PlacesOf : /\ pos = <<pos[1], pos[2]>> /\ pos[1] \in DOMAIN pages
                             /\ pos[2] \in DOMAIN pages[pos[1]]
BY DEF PlacesOf, Positions, IsPlace

LEMMA KindIs ==
    ASSUME NEW kind
    PROVE  OfKind(kind) = {pos \in PlacesOf : At(pos).is = kind}
BY DEF OfKind, PlacesOf

(* The section is what lies between the anchor and the first title.        *)
LEMMA SectionIs ==
    ASSUME InputOK, NEW p \in DOMAIN pages
    PROVE  /\ FirstRow(p) \in Nat \ {0} /\ LastRow(p) \in Int
           /\ Boundaries(p) \subseteq DOMAIN pages[p]
           /\ FirstRow(p)..LastRow(p)
                = {k \in DOMAIN pages[p] : FirstRow(p) <= k /\ \A b \in Boundaries(p) : k < b}
<1>1. DOMAIN pages[p] = 1..Len(pages[p]) /\ Len(pages[p]) \in Nat /\ p \in Nat
  BY PagesType
<1>2. FirstRow(p) \in Nat \ {0}
  <2>1. Anchors(p) \subseteq Nat
    BY <1>1 DEF Anchors
  <2>2. Anchors(p) # {} => First(Anchors(p)) \in Nat
    BY <2>1, FirstIs
  <2> QED
    BY <1>1, <2>2 DEF FirstRow
<1>3. Boundaries(p) \subseteq DOMAIN pages[p]
  BY <1>1, <1>2 DEF Boundaries
<1>4. CASE Boundaries(p) = {}
  <2>1. LastRow(p) = Len(pages[p])
    BY <1>4 DEF LastRow, HitsSectionEnd
  <2> QED
    BY <1>1, <1>2, <1>3, <1>4, <2>1
<1>5. CASE Boundaries(p) # {}
  <2>1. PICK f \in Boundaries(p) : f = First(Boundaries(p)) /\ \A b \in Boundaries(p) : f <= b
    <3>1. Boundaries(p) \subseteq Nat
      BY <1>1, <1>3
    <3> QED
      BY <1>5, <3>1, FirstIs
  <2>2. LastRow(p) = f - 1
    BY <1>5, <2>1 DEF LastRow, HitsSectionEnd
  <2>3. f \in 1..Len(pages[p]) /\ \A b \in Boundaries(p) : b \in Int
    BY <1>1, <1>3
  <2>4. \A k \in Int : k <= f - 1 <=> \A b \in Boundaries(p) : k < b
    BY <2>1, <2>3
  <2> QED
    BY <1>1, <1>2, <1>3, <2>2, <2>3, <2>4
<1> QED
  BY <1>4, <1>5

LEMMA TxRowsIn ==
    ASSUME InputOK, NEW p \in DOMAIN pages
    PROVE  TxRows(p) \subseteq DOMAIN pages[p] /\ Lines(p) \subseteq DOMAIN pages[p]
<1>1. FirstRow(p)..LastRow(p) \subseteq DOMAIN pages[p]
  BY SectionIs
<1> QED
  BY <1>1 DEF TxRows, Lines

-----------------------------------------------------------------------------
(* What a page books                                                       *)

LEMMA LinesListed ==
    ASSUME InputOK, NEW p \in DOMAIN pages, NEW S, S \subseteq DOMAIN pages[p]
    PROVE  /\ Places(p, S) \in Seq(PlacesOf)
           /\ {Places(p, S)[m] : m \in DOMAIN Places(p, S)} = {pos \in PlacesOf : pos[1] = p /\ pos[2] \in S}
<1> SUFFICES ASSUME NEW s, s = Places(p, S)
             PROVE  s \in Seq(PlacesOf)
                    /\ {s[m] : m \in DOMAIN s} = {pos \in PlacesOf : pos[1] = p /\ pos[2] \in S}
  OBVIOUS
<1>0. PICK N \in Nat : S \subseteq 1..N
  BY PagesType
<1>1. /\ DOMAIN s = 1..Cardinality(S) /\ Cardinality(S) \in Nat
      /\ \A n \in DOMAIN s : \E k \in S : s[n] = <<p, k>>
      /\ \A k \in S : \E n \in DOMAIN s : s[n] = <<p, k>>
  <2>1. Lists(s, p, S)
    BY <1>0, PlacesAre
  <2> QED
    BY <2>1 DEF Lists
<1>2. \A k \in S : <<p, k>> \in PlacesOf
  BY PlaceIs
<1>3. \A n \in DOMAIN s : s[n] \in PlacesOf
  BY <1>1, <1>2
<1>4. s \in Seq(PlacesOf)
  <2>1. s = [n \in 1..Cardinality(S) |-> s[n]]
    BY <1>1 DEF Places
  <2> QED
    BY <1>1, <1>3, <2>1
<1>5. ASSUME NEW pos \in PlacesOf, pos[1] = p, pos[2] \in S
      PROVE  \E m \in DOMAIN s : s[m] = pos
  <2>1. pos = <<p, pos[2]>>
    BY <1>5, PlaceIs
  <2> QED
    BY <1>1, <1>5, <2>1
<1>6. \A n \in DOMAIN s : s[n][1] = p /\ s[n][2] \in S
  BY <1>1
<1> QED
  BY <1>3, <1>4, <1>5, <1>6

LEMMA BookedAre ==
    ASSUME InputOK, NEW p \in DOMAIN pages, NEW b, b = Booked(p)
    PROVE  /\ b \in Seq(Drafts)
           /\ {b[k].head : k \in DOMAIN b} = {pos \in PlacesOf : pos[1] = p /\ pos[2] \in TxRows(p)}
           /\ \A j, k \in DOMAIN b : j < k => Before(b[j].head, b[k].head)
           /\ \A k \in DOMAIN b : LinesOf(b[k]) = Nearby(b[k].head)
<1> DEFINE heads == Places(p, TxRows(p))
           near(r) == {m \in Lines(p) : Closest(p, m) = r}
<1>0. PICK N \in Nat : TxRows(p) \subseteq 1..N
  BY PagesType, TxRowsIn
<1>1. /\ heads \in Seq(PlacesOf)
      /\ {heads[m] : m \in DOMAIN heads} = {pos \in PlacesOf : pos[1] = p /\ pos[2] \in TxRows(p)}
  BY TxRowsIn, LinesListed
<1>2. \A j, n \in DOMAIN heads : j < n => heads[j][2] < heads[n][2]
  BY <1>0, PlacesAre DEF Lists
<1>3. \A r : /\ Places(p, near(r)) \in Seq(PlacesOf)
             /\ {Places(p, near(r))[m] : m \in DOMAIN Places(p, near(r))}
                  = {pos \in PlacesOf : pos[1] = p /\ pos[2] \in near(r)}
  <2> TAKE r
  <2>1. near(r) \subseteq DOMAIN pages[p]
    BY TxRowsIn
  <2> HIDE DEF near
  <2> QED
    BY <2>1, LinesListed
<1>4. b = [k \in DOMAIN heads |-> [head |-> heads[k], lines |-> Places(p, near(heads[k][2]))]]
  BY DEF Booked
<1>h. \A k \in DOMAIN heads : heads[k] \in PlacesOf /\ heads[k][1] = p
  <2> TAKE k \in DOMAIN heads
  <2> HIDE DEF heads
  <2>1. heads[k] \in {heads[m] : m \in DOMAIN heads}
    OBVIOUS
  <2> QED
    BY <1>1, <2>1
<1>5. ASSUME NEW k \in DOMAIN b
      PROVE  LinesOf(b[k]) = Nearby(b[k].head)
  <2>1. /\ k \in DOMAIN heads /\ b[k].head = heads[k]
        /\ b[k].lines = Places(p, near(heads[k][2]))
    BY <1>4, <1>5
  <2>2. LinesOf(b[k]) = {pos \in PlacesOf : pos[1] = p /\ pos[2] \in near(heads[k][2])}
    <3> HIDE DEF heads, near
    <3>1. PICK r : r = heads[k][2]
      OBVIOUS
    <3>2. {Places(p, near(r))[m] : m \in DOMAIN Places(p, near(r))}
            = {pos \in PlacesOf : pos[1] = p /\ pos[2] \in near(r)}
      BY <1>3, Zenon
    <3>3. b[k].lines = Places(p, near(r))
      BY <2>1, <3>1
    <3>4. PICK u : u = b[k].lines
      OBVIOUS
    <3>5. LinesOf(b[k]) = {u[m] : m \in DOMAIN u}
      BY <3>4 DEF LinesOf
    <3> QED
      BY <3>1, <3>2, <3>3, <3>4, <3>5
  <2>3. heads[k][1] = p
    BY <1>h, <2>1
  <2>4. Nearby(heads[k]) = {pos \in PlacesOf : pos[1] = p /\ pos[2] \in near(heads[k][2])}
    BY <2>3 DEF Nearby
  <2> QED
    BY <2>1, <2>2, <2>4
<1> HIDE DEF heads, near
<1>6. \A k \in DOMAIN heads : b[k].head = heads[k]
  BY <1>4
<1>7. DOMAIN b = DOMAIN heads /\ DOMAIN heads = 1..Len(heads) /\ Len(heads) \in Nat
  BY <1>1, <1>4
<1>8. \A k \in DOMAIN heads : b[k] \in Drafts
  BY <1>3, <1>4, <1>h DEF Drafts
<1>9. b \in Seq(Drafts)
  <2>1. b = [k \in 1..Len(heads) |-> b[k]]
    BY <1>4, <1>7
  <2> QED
    BY <1>7, <1>8, <2>1
<1>10. {b[k].head : k \in DOMAIN b} = {heads[m] : m \in DOMAIN heads}
  BY <1>6, <1>7
<1>11. \A j, k \in DOMAIN b : j < k => Before(b[j].head, b[k].head)
  BY <1>2, <1>6, <1>7, <1>h DEF Before
<1> QED
  BY <1>1, <1>5, <1>9, <1>10, <1>11

-----------------------------------------------------------------------------
(* What is booked page by page                                             *)

HeadsIn(s) == {s[k].head : k \in DOMAIN s}
SortedIn(s) == \A j, k \in DOMAIN s : j < k => Before(s[j].head, s[k].head)
NearIn(s) == \A k \in DOMAIN s : LinesOf(s[k]) = Nearby(s[k].head)

(* Later rows booked after earlier ones keep the order.                    *)
LEMMA JoinedBooks ==
    ASSUME NEW s \in Seq(Drafts), NEW b \in Seq(Drafts), SortedIn(s), SortedIn(b),
           \A h \in HeadsIn(s), g \in HeadsIn(b) : Before(h, g)
    PROVE  /\ s \o b \in Seq(Drafts) /\ HeadsIn(s \o b) = HeadsIn(s) \cup HeadsIn(b)
           /\ SortedIn(s \o b) /\ (NearIn(s) /\ NearIn(b) => NearIn(s \o b))
<1> SUFFICES ASSUME NEW u, u = s \o b
             PROVE  /\ u \in Seq(Drafts) /\ HeadsIn(u) = HeadsIn(s) \cup HeadsIn(b)
                    /\ SortedIn(u) /\ (NearIn(s) /\ NearIn(b) => NearIn(u))
  OBVIOUS
<1>1. /\ DOMAIN s = 1..Len(s) /\ DOMAIN b = 1..Len(b) /\ Len(s) \in Nat /\ Len(b) \in Nat
      /\ u \in Seq(Drafts) /\ DOMAIN u = 1..(Len(s) + Len(b))
      /\ \A k \in 1..Len(s) : u[k] = s[k]
      /\ \A k \in 1..Len(b) : u[Len(s) + k] = b[k]
  OBVIOUS
<1>2. ASSUME NEW k \in DOMAIN u
      PROVE  \/ k \in DOMAIN s /\ u[k] = s[k]
             \/ \E m \in DOMAIN b : k = Len(s) + m /\ u[k] = b[m]
  <2>1. CASE k <= Len(s)
    BY <1>1, <2>1
  <2>2. CASE k > Len(s)
    <3>1. k - Len(s) \in 1..Len(b) /\ k = Len(s) + (k - Len(s))
      BY <1>1, <2>2
    <3> QED
      BY <1>1, <3>1
  <2> QED
    BY <1>1, <2>1, <2>2
<1>3. /\ \A k \in DOMAIN s : k \in DOMAIN u /\ u[k] = s[k]
      /\ \A m \in DOMAIN b : Len(s) + m \in DOMAIN u /\ u[Len(s) + m] = b[m]
  BY <1>1
<1>4. HeadsIn(u) = HeadsIn(s) \cup HeadsIn(b)
  <2>1. \A k \in DOMAIN u : u[k].head \in HeadsIn(s) \cup HeadsIn(b)
    BY <1>2 DEF HeadsIn
  <2>2. \A k \in DOMAIN s : s[k].head \in HeadsIn(u)
    BY <1>3 DEF HeadsIn
  <2>3. \A m \in DOMAIN b : b[m].head \in HeadsIn(u)
    BY <1>3 DEF HeadsIn
  <2>4. HeadsIn(u) \subseteq HeadsIn(s) \cup HeadsIn(b)
    BY <2>1 DEF HeadsIn
  <2>5. HeadsIn(s) \subseteq HeadsIn(u)
    BY <2>2 DEF HeadsIn
  <2>6. HeadsIn(b) \subseteq HeadsIn(u)
    BY <2>3 DEF HeadsIn
  <2> QED
    BY <2>4, <2>5, <2>6
<1>5. ASSUME NEW j \in DOMAIN u, NEW k \in DOMAIN u, j < k
      PROVE  Before(u[j].head, u[k].head)
  <2>1. CASE k \in DOMAIN s
    <3>1. j \in DOMAIN s
      BY <1>1, <1>5, <2>1
    <3> QED
      BY <1>3, <1>5, <2>1, <3>1 DEF SortedIn
  <2>2. CASE k \notin DOMAIN s
    <3>1. PICK m \in DOMAIN b : k = Len(s) + m /\ u[k] = b[m]
      BY <1>2, <2>2
    <3>2. CASE j \in DOMAIN s
      BY <1>3, <3>1, <3>2 DEF HeadsIn
    <3>3. CASE j \notin DOMAIN s
      <4>1. PICK n \in DOMAIN b : j = Len(s) + n /\ u[j] = b[n]
        BY <1>2, <3>3
      <4>2. n < m
        BY <1>1, <1>5, <3>1, <4>1
      <4> QED
        BY <3>1, <4>1, <4>2 DEF SortedIn
    <3> QED
      BY <3>2, <3>3
  <2> QED
    BY <2>1, <2>2
<1>6. NearIn(s) /\ NearIn(b) => NearIn(u)
  BY <1>2 DEF NearIn
<1> QED
  BY <1>1, <1>4, <1>5, <1>6 DEF SortedIn

LEMMA HeadsAre ==
    /\ Heads = HeadsIn(transactions) /\ (Sorted <=> SortedIn(transactions))
    /\ LinesSoFar <=> (format = "pdf" => NearIn(transactions))
BY DEF Heads, HeadsIn, Sorted, SortedIn, LinesSoFar, NearIn

(* What the file holds does not change.                                    *)
LEMMA InputStays == ASSUME [Next]_vars PROVE UNCHANGED input
BY DEF Next, vars, input, Dispatch, WalkPage, PageFails, EndWalk, BlankRow, SheetRow,
       SheetRowFails, SheetStops, SheetRead, Conclude, Over

LEMMA PageStays ==
    ASSUME UNCHANGED input
    PROVE  /\ InputOK' = InputOK /\ PlacesOf' = PlacesOf /\ Drafts' = Drafts
           /\ \A p : TxRows(p)' = TxRows(p) /\ Lines(p)' = Lines(p)
           /\ \A p : HitsSectionEnd(p)' = HitsSectionEnd(p)
           /\ \A pos : At(pos)' = At(pos)
           /\ \A h : Nearby(h)' = Nearby(h)
<1> USE DEF input
<1>1. InputOK' = InputOK
  BY DEF InputOK
<1>2. PlacesOf' = PlacesOf /\ Drafts' = Drafts
  BY DEF PlacesOf, Drafts, Positions, IsPlace
<1>3. \A p : Boundaries(p)' = Boundaries(p) /\ FirstRow(p)' = FirstRow(p)
  BY DEF Boundaries, FirstRow, Anchors
<1>4. \A p : LastRow(p)' = LastRow(p) /\ HitsSectionEnd(p)' = HitsSectionEnd(p)
  BY <1>3 DEF LastRow, HitsSectionEnd
<1>5. \A p : TxRows(p)' = TxRows(p) /\ Lines(p)' = Lines(p)
  BY <1>3, <1>4 DEF TxRows, Lines
<1>6. \A pos : At(pos)' = At(pos)
  BY DEF At
<1>7. \A p, k : Closest(p, k)' = Closest(p, k)
  BY <1>5 DEF Closest, Distance
<1>8. \A h : Nearby(h)' = Nearby(h)
  BY <1>2, <1>5, <1>7 DEF Nearby
<1> QED
  BY <1>1, <1>2, <1>4, <1>5, <1>6, <1>8

(* A step that books nothing and turns no page leaves what was booked.     *)
LEMMA NothingBooked ==
    ASSUME IInv, UNCHANGED <<input, page, row, transactions>>
    PROVE  InputOK' /\ HeadsSoFar' /\ LinesSoFar'
<1>1. UNCHANGED input /\ page' = page /\ row' = row /\ transactions' = transactions /\ format' = format
  BY DEF input
<1>2. \A pos : Behind(pos)' = Behind(pos)
  BY <1>1, PageStays DEF Behind
<1>3. Heads' = Heads /\ Sorted' = Sorted /\ LinesSoFar' = LinesSoFar
  BY <1>1, PageStays DEF Heads, Sorted, Before, LinesSoFar, LinesOf
<1> QED
  BY <1>1, <1>2, <1>3, PageStays DEF IInv, HeadsSoFar

(* The loop over the pages: the rows of one more page.                     *)
LEMMA WalkPageBooks ==
    ASSUME IInv, WalkPage
    PROVE  InputOK' /\ transactions' \in Seq(Drafts') /\ HeadsSoFar' /\ LinesSoFar'
<1>1. /\ format = "pdf" /\ InputOK /\ page \in DOMAIN pages /\ transactions \in Seq(Drafts)
      /\ page \in Nat
  BY DEF IInv, LoopsOK, InputOK, WalkPage
<1>2. PICK b : b = Booked(page)
  OBVIOUS
<1>3. /\ UNCHANGED input /\ transactions' = transactions \o b /\ page' = page + 1 /\ format' = format
  BY <1>2 DEF WalkPage, input
<1>4. /\ b \in Seq(Drafts) /\ SortedIn(b) /\ NearIn(b)
      /\ HeadsIn(b) = {pos \in PlacesOf : pos[1] = page /\ pos[2] \in TxRows(page)}
  BY <1>1, <1>2, BookedAre DEF HeadsIn, SortedIn, NearIn
<1>5. /\ HeadsIn(transactions) = {pos \in PlacesOf : pos[1] < page /\ pos[2] \in TxRows(pos[1])}
      /\ SortedIn(transactions) /\ NearIn(transactions)
  BY <1>1, HeadsAre DEF IInv, HeadsSoFar, Behind
<1>6. \A h \in HeadsIn(transactions), g \in HeadsIn(b) : Before(h, g)
  BY <1>4, <1>5 DEF Before
<1>7. PICK u : u = transactions \o b
  OBVIOUS
<1>8. /\ u \in Seq(Drafts) /\ HeadsIn(u) = HeadsIn(transactions) \cup HeadsIn(b)
      /\ SortedIn(u) /\ NearIn(u)
  BY <1>1, <1>4, <1>5, <1>6, <1>7, JoinedBooks
<1>9. /\ Heads' = HeadsIn(u) /\ (Sorted' <=> SortedIn(u)) /\ (NearIn(u) => LinesSoFar')
  <2>1. transactions' = u
    BY <1>3, <1>7
  <2>2. Heads' = HeadsIn(u)
    BY <2>1 DEF Heads, HeadsIn
  <2>3. Sorted' <=> SortedIn(u)
    BY <2>1 DEF Sorted, SortedIn, Before
  <2>4. \A h : Nearby(h)' = Nearby(h)
    BY <1>3, PageStays
  <2>5. NearIn(u) => LinesSoFar'
    BY <2>1, <2>4 DEF NearIn, LinesSoFar, LinesOf
  <2> QED
    BY <2>2, <2>3, <2>5
<1>10. \A pos \in PlacesOf : Behind(pos)' <=> pos[1] < page + 1 /\ pos[2] \in TxRows(pos[1])
  BY <1>1, <1>3, PageStays DEF Behind
<1>11. \A pos \in PlacesOf : pos[1] < page + 1 <=> pos[1] < page \/ pos[1] = page
  <2>1. \A pos \in PlacesOf : pos[1] \in Nat
    BY <1>1, PlaceIs, PagesType
  <2> QED
    BY <1>1, <2>1
<1>12. HeadsIn(u) = {pos \in PlacesOf : Behind(pos)'}
  BY <1>4, <1>5, <1>8, <1>10, <1>11
<1>13. HeadsSoFar'
  BY <1>3, <1>8, <1>9, <1>12, PageStays DEF HeadsSoFar
<1> QED
  BY <1>1, <1>3, <1>7, <1>8, <1>9, <1>13, PageStays

LEMMA SheetLoop ==
    ASSUME IInv, pc = "sheet"
    PROVE  /\ format = "xlsx" /\ InputOK /\ transactions \in Seq(Drafts)
           /\ row \in Nat /\ row > 7 /\ 1 \in DOMAIN pages /\ Len(pages[1]) \in Nat
           /\ row <= Len(pages[1]) => row \in DOMAIN pages[1]
<1>1. format = "xlsx" /\ InputOK /\ transactions \in Seq(Drafts)
  BY DEF IInv, LoopsOK, InputOK
<1>2. 1 \in DOMAIN pages
  BY <1>1 DEF InputOK
<1>3. Len(pages[1]) \in Nat /\ DOMAIN pages[1] = 1..Len(pages[1])
  BY <1>1, <1>2, PagesType
<1>4. row \in 8..(Len(pages[1]) + 1)
  BY <1>1 DEF IInv, LoopsOK, HeaderRows
<1> QED
  BY <1>1, <1>2, <1>3, <1>4

(* The loop over a sheet: one more row, or a row passed over.              *)
LEMMA BlankRowBooks ==
    ASSUME IInv, BlankRow
    PROVE  InputOK' /\ HeadsSoFar' /\ LinesSoFar'
<1>1. /\ format = "xlsx" /\ UNCHANGED input /\ row' = row + 1 /\ transactions' = transactions
      /\ format' = "xlsx" /\ Cell.date = "none" /\ row \in Nat
  <2>1. pc = "sheet" /\ UNCHANGED input /\ row' = row + 1 /\ transactions' = transactions /\ Cell.date = "none"
    BY DEF BlankRow, InSheet
  <2> QED
    BY <2>1, SheetLoop DEF input
<1>2. \A pos \in PlacesOf : pos[1] = 1 /\ pos[2] \in Int
  BY <1>1, PlaceIs, PagesType DEF IInv, InputOK
<1>3. \A pos \in PlacesOf : Behind(pos)' <=> Behind(pos)
  <2> TAKE pos \in PlacesOf
  <2>1. pos[2] = row => At(pos).date = "none"
    BY <1>1, <1>2 DEF At, Cell
  <2>2. pos[2] < row + 1 <=> pos[2] < row \/ pos[2] = row
    BY <1>1, <1>2
  <2> QED
    BY <1>1, <2>1, <2>2, PageStays DEF Behind
<1>4. Heads' = Heads /\ Sorted' = Sorted
  BY <1>1 DEF Heads, Sorted, Before
<1> QED
  BY <1>1, <1>3, <1>4, PageStays DEF IInv, HeadsSoFar, LinesSoFar

LEMMA SheetRowBooks ==
    ASSUME IInv, SheetRow
    PROVE  InputOK' /\ transactions' \in Seq(Drafts') /\ HeadsSoFar' /\ LinesSoFar'
<1>1. /\ format = "xlsx" /\ UNCHANGED input /\ row' = row + 1 /\ format' = "xlsx"
      /\ transactions' = Append(transactions, [head |-> <<1, row>>, lines |-> <<>>])
      /\ Cell.date = "stamp" /\ row \in Nat /\ transactions \in Seq(Drafts) /\ InputOK
      /\ row > HeaderRows /\ row \in DOMAIN pages[1] /\ 1 \in DOMAIN pages
  <2>1. /\ pc = "sheet" /\ UNCHANGED input /\ row' = row + 1 /\ Cell.date = "stamp"
        /\ transactions' = Append(transactions, [head |-> <<1, row>>, lines |-> <<>>])
        /\ row <= Len(pages[1])
    BY DEF SheetRow, InSheet
  <2>2. format' = format
    BY <2>1 DEF input
  <2> QED
    BY <2>1, <2>2, SheetLoop DEF HeaderRows
<1>2. \A pos \in PlacesOf : pos = <<1, pos[2]>> /\ pos[1] = 1 /\ pos[2] \in Int
  BY <1>1, PlaceIs, PagesType DEF InputOK
<1>3. <<1, row>> \in PlacesOf
  BY <1>1, PlaceIs
<1>4. PICK d : d = [head |-> <<1, row>>, lines |-> <<>>]
  OBVIOUS
<1>5. d \in Drafts /\ d.head = <<1, row>>
  <2>1. <<>> \in Seq(PlacesOf)
    OBVIOUS
  <2> QED
    BY <1>3, <1>4, <2>1 DEF Drafts
<1>6. PICK b : b = <<d>>
  OBVIOUS
<1>7. /\ b \in Seq(Drafts) /\ HeadsIn(b) = {<<1, row>>} /\ SortedIn(b)
  <2>1. b \in Seq(Drafts) /\ DOMAIN b = {1} /\ b[1] = d
    BY <1>5, <1>6
  <2>2. HeadsIn(b) = {d.head}
    BY <2>1 DEF HeadsIn
  <2>3. SortedIn(b)
    BY <2>1 DEF SortedIn
  <2> QED
    BY <1>5, <2>1, <2>2, <2>3
<1>8. HeadsIn(transactions) = {pos \in PlacesOf : Behind(pos)} /\ SortedIn(transactions)
  BY HeadsAre DEF IInv, HeadsSoFar
<1>9. \A h \in HeadsIn(transactions), g \in HeadsIn(b) : Before(h, g)
  BY <1>1, <1>2, <1>7, <1>8 DEF Before, Behind
<1>10. PICK u : u = transactions \o b
  OBVIOUS
<1>11. /\ u \in Seq(Drafts) /\ HeadsIn(u) = HeadsIn(transactions) \cup HeadsIn(b) /\ SortedIn(u)
  BY <1>1, <1>7, <1>8, <1>9, <1>10, JoinedBooks
<1>12. transactions' = u
  <2>1. PICK t \in Seq(Drafts) : t = transactions
    BY <1>1
  <2>2. Append(t, d) = t \o <<d>>
    BY <1>5
  <2> QED
    BY <1>1, <1>4, <1>6, <1>10, <2>1, <2>2
<1>13. Heads' = HeadsIn(u) /\ (Sorted' <=> SortedIn(u))
  BY <1>12 DEF Heads, HeadsIn, Sorted, SortedIn, Before
<1>14. \A pos \in PlacesOf : Behind(pos)' <=> Behind(pos) \/ pos = <<1, row>>
  <2> TAKE pos \in PlacesOf
  <2>1. pos[2] = row <=> pos = <<1, row>>
    BY <1>2
  <2>2. pos[2] = row => At(pos).date = "stamp"
    BY <1>1, <1>2 DEF At, Cell
  <2>3. pos[2] < row + 1 <=> pos[2] < row \/ pos[2] = row
    BY <1>1, <1>2
  <2> QED
    BY <1>1, <2>1, <2>2, <2>3, PageStays DEF Behind
<1>15. HeadsIn(u) = {pos \in PlacesOf : Behind(pos)'}
  BY <1>3, <1>7, <1>8, <1>11, <1>14
<1> QED
  BY <1>1, <1>11, <1>12, <1>13, <1>15, PageStays DEF HeadsSoFar, LinesSoFar

-----------------------------------------------------------------------------
(* Where the loops are after each step                                     *)

LEMMA LoopsStep ==
    ASSUME IInv, Next, transactions' \in Seq(Drafts)
    PROVE  LoopsOK'
<1> DEFINE n == Len(pages[1])
<1>1. /\ UNCHANGED input /\ format' = format /\ pages' = pages /\ Drafts' = Drafts
      /\ format \in {"pdf", "xlsx", "unknown"} /\ Len(pages) \in Nat
      /\ (format = "xlsx" => Len(pages) = 1)
  <2>1. UNCHANGED input
    BY InputStays
  <2>2. Drafts' = Drafts
    BY <2>1, PageStays
  <2> QED
    BY <2>1, <2>2 DEF input, IInv, InputOK
<1>2. format = "xlsx" => n \in Nat
  BY <1>1, PagesType DEF IInv, InputOK
<1> HIDE DEF n
<1>3. LoopsOK
  BY DEF IInv
<1>4. CASE Dispatch
  <2>1. /\ pc = "start" /\ UNCHANGED <<page, row, transactions, walked>>
        /\ format = "unknown" => pc' = "unknown_format"
        /\ format = "pdf" => pc' \in {"empty_pdf", "walk"} /\ (pc' = "walk" => pages # <<>>)
        /\ format = "xlsx" => pc' \in {"drift", "sheet"} /\ (pc' = "sheet" => ~(n < HeaderRows + 1))
    BY <1>1, <1>4 DEF Dispatch, n
  <2> QED
    BY <1>1, <1>2, <1>3, <2>1 DEF LoopsOK, HeaderRows, Ends, Ended, n
<1>5. CASE WalkPage
  <2>1. /\ pc = "walk" /\ page <= Len(pages) /\ walked' = walked + 1 /\ page' = page + 1
        /\ row' = row /\ pc' \in {"built", "walk"}
    BY <1>5 DEF WalkPage
  <2>2. format = "pdf" /\ walked' \in Nat /\ walked' >= 1 /\ page' \in 1..(Len(pages) + 1)
    BY <1>1, <1>3, <2>1 DEF LoopsOK
  <2> QED
    BY <1>1, <1>3, <2>1, <2>2 DEF LoopsOK, Ends, Ended
<1>6. CASE PageFails
  BY <1>1, <1>3, <1>6 DEF LoopsOK, PageFails, Ends, Ended
<1>7. CASE EndWalk
  <2>1. /\ pc = "walk" /\ page > Len(pages) /\ pc' = "built"
        /\ UNCHANGED <<page, row, transactions, walked>>
    BY <1>7 DEF EndWalk
  <2>2. format = "pdf" /\ pages # <<>> /\ walked = page - 1
    BY <1>1, <1>3, <2>1 DEF LoopsOK
  <2>3. Len(pages) >= 1
    BY <2>2 DEF IInv, InputOK
  <2>4. walked >= 1
    BY <1>1, <1>3, <2>1, <2>2, <2>3 DEF LoopsOK
  <2> QED
    BY <1>1, <1>3, <2>1, <2>2, <2>4 DEF LoopsOK, Ends, Ended
<1>8. CASE BlankRow \/ SheetRow
  <2>1. /\ pc = "sheet" /\ row <= n /\ row' = row + 1 /\ pc' = "sheet"
        /\ UNCHANGED <<page, walked>>
    BY <1>8 DEF BlankRow, SheetRow, InSheet, n
  <2>2. format = "xlsx"
    BY <2>1, SheetLoop
  <2>3. row' \in (HeaderRows + 1)..(n + 1)
    BY <1>2, <1>3, <2>1, <2>2 DEF LoopsOK, HeaderRows, n
  <2> QED
    BY <1>1, <1>3, <2>1, <2>2, <2>3 DEF LoopsOK, HeaderRows, Ends, Ended, n
<1>9. CASE SheetRowFails
  <2>1. pc = "sheet" /\ pc' = "bad_row" /\ UNCHANGED <<page, row, walked>>
    BY <1>9 DEF SheetRowFails, InSheet
  <2> QED
    BY <1>1, <1>3, <2>1, SheetLoop DEF LoopsOK, Ends, Ended
<1>10. CASE SheetStops
  <2>1. pc = "sheet" /\ pc' = "sheet_read" /\ UNCHANGED <<page, row, walked>>
    BY <1>10 DEF SheetStops, InSheet
  <2> QED
    BY <1>1, <1>3, <2>1, SheetLoop DEF LoopsOK, Ends, Ended
<1>11. CASE SheetRead
  <2>1. pc = "sheet_read" /\ pc' = "built" /\ walked' = 1 /\ UNCHANGED <<page, row>>
    BY <1>11 DEF SheetRead
  <2>2. format = "xlsx"
    BY <1>1, <1>3, <2>1 DEF LoopsOK
  <2> QED
    BY <1>1, <1>3, <2>1, <2>2 DEF LoopsOK, Ends, Ended
<1>12. CASE Conclude
  <2>1. /\ pc = "built" /\ pc' \in {"no_transactions", "result"}
        /\ pc' = "result" => transactions' # <<>>
        /\ UNCHANGED <<page, row, transactions, walked>>
    BY <1>12 DEF Conclude
  <2> QED
    BY <1>1, <1>3, <2>1 DEF LoopsOK, Ends, Ended
<1>13. CASE Over
  BY <1>1, <1>3, <1>13 DEF Over, vars, LoopsOK, Ends, Ended
<1> QED
  BY <1>4, <1>5, <1>6, <1>7, <1>8, <1>9, <1>10, <1>11, <1>12, <1>13 DEF Next

(* No page before the last one read ends the section, no row of a sheet    *)
(* before the last one read is unknown.                                    *)
LEMMA SectionStep ==
    ASSUME IInv, Next
    PROVE  SectionSoFar'
<1>1. /\ UNCHANGED input /\ format' = format /\ pages' = pages
      /\ format \in {"pdf", "xlsx", "unknown"} /\ Len(pages) \in Nat
      /\ (format = "xlsx" => Len(pages) = 1) /\ DOMAIN pages = 1..Len(pages)
  <2>1. UNCHANGED input
    BY InputStays
  <2> QED
    BY <2>1 DEF input, IInv, InputOK
<1>2. \A p : HitsSectionEnd(p)' = HitsSectionEnd(p)
  BY <1>1, PageStays
<1>3. LoopsOK /\ SectionSoFar /\ InputOK
  BY DEF IInv
<1>4. /\ format = "pdf" => page \in Int
      /\ format = "xlsx" /\ pc \notin {"start", "drift"} => row \in Int
  BY <1>3 DEF LoopsOK
<1>p. CASE format = "pdf"
  <2>0. \A p \in DOMAIN pages : p \in Int
    BY <1>1
  <2>1. /\ page \in Int /\ pc \notin {"sheet", "sheet_read"}
        /\ \A p \in DOMAIN pages : HitsSectionEnd(p) => p >= page - 1
        /\ pc = "walk" => \A p \in DOMAIN pages : HitsSectionEnd(p) => p >= page
        /\ pc \in Ended => page > Len(pages) \/ HitsSectionEnd(page - 1)
        /\ pc = "start" => page = 1
    BY <1>3, <1>p DEF LoopsOK, SectionSoFar
  <2>2. /\ \A p \in DOMAIN pages : HitsSectionEnd(p) => p >= page' - 1
        /\ pc' = "walk" => \A p \in DOMAIN pages : HitsSectionEnd(p) => p >= page'
        /\ pc' \in Ended => page' > Len(pages) \/ HitsSectionEnd(page' - 1)
    <3>1. CASE Dispatch
      <4>1. page' = page /\ page = 1 /\ pc' \notin Ended
        BY <1>p, <2>1, <3>1 DEF Dispatch, Ended
      <4> QED
        BY <1>1, <2>1, <4>1
    <3>2. CASE WalkPage
      <4>1. /\ pc = "walk" /\ page' = page + 1
            /\ pc' = IF HitsSectionEnd(page) THEN "built" ELSE "walk"
        BY <3>2 DEF WalkPage
      <4>2. page' - 1 = page
        BY <2>1, <4>1
      <4>3. CASE HitsSectionEnd(page)
        BY <2>1, <4>1, <4>2, <4>3
      <4>4. CASE ~HitsSectionEnd(page)
        <5>1. \A p \in DOMAIN pages : HitsSectionEnd(p) => p >= page /\ p # page
          BY <2>1, <4>1, <4>4
        <5>2. \A p \in DOMAIN pages : HitsSectionEnd(p) => p >= page'
          BY <2>0, <2>1, <4>1, <5>1
        <5> QED
          BY <2>1, <4>1, <4>2, <4>4, <5>2 DEF Ended
      <4> QED
        BY <4>3, <4>4
    <3>3. CASE PageFails
      BY <2>1, <3>3 DEF PageFails, Ended
    <3>4. CASE EndWalk
      BY <2>1, <3>4 DEF EndWalk, Ended
    <3>5. CASE Conclude
      BY <2>1, <3>5 DEF Conclude, Ended
    <3>6. CASE Over
      BY <2>1, <3>6 DEF Over, vars
    <3> QED
      BY <2>1, <3>1, <3>2, <3>3, <3>4, <3>5, <3>6
      DEF Next, BlankRow, SheetRow, SheetRowFails, SheetStops, SheetRead, InSheet
  <2>3. \A p \in DOMAIN pages : HitsSectionEnd(p)' = HitsSectionEnd(p)
    BY <1>2
  <2>4. HitsSectionEnd(page - 1)' = HitsSectionEnd(page' - 1)
    BY <1>1 DEF input, HitsSectionEnd, Boundaries, FirstRow, Anchors
  <2> QED
    BY <1>1, <1>p, <2>2, <2>3, <2>4 DEF SectionSoFar
<1>x. CASE format = "xlsx"
  <2>1. 1 \in DOMAIN pages /\ Len(pages[1]) \in Nat
    BY <1>1, <1>3, <1>x, PagesType
  <2>2. /\ pc # "walk" /\ (pc = "start" => row = HeaderRows + 1)
        /\ pc \notin {"start", "drift"} =>
             /\ row \in Int
             /\ \A k \in (HeaderRows + 1)..(row - 1) : pages[1][k].date # "other"
             /\ pc \in Ended \cup {"sheet_read"} => row > Len(pages[1]) \/ pages[1][row].date = "other"
    BY <1>3, <1>4, <1>x DEF LoopsOK, SectionSoFar
  <2>3. pc' \notin {"start", "drift"} =>
             /\ \A k \in (HeaderRows + 1)..(row' - 1) : pages[1][k].date # "other"
             /\ pc' \in Ended \cup {"sheet_read"} => row' > Len(pages[1]) \/ pages[1][row'].date = "other"
    <3>1. CASE Dispatch
      <4>1. row' = 8 /\ pc' \in {"drift", "sheet"} /\ HeaderRows = 7
        BY <1>x, <2>2, <3>1 DEF Dispatch, HeaderRows
      <4> QED
        BY <4>1 DEF Ended
    <3>2. CASE BlankRow \/ SheetRow
      <4>1. pc = "sheet" /\ pc' = "sheet" /\ row' = row + 1 /\ pages[1][row].date # "other"
        BY <3>2 DEF BlankRow, SheetRow, InSheet, Cell
      <4>2. row \in Int /\ HeaderRows = 7
        BY <2>2, <4>1 DEF HeaderRows
      <4>3. \A k \in (HeaderRows + 1)..(row' - 1) : k = row \/ k \in (HeaderRows + 1)..(row - 1)
        BY <4>1, <4>2
      <4> QED
        BY <2>2, <4>1, <4>3 DEF Ended
    <3>3. CASE SheetRowFails
      BY <2>2, <3>3 DEF SheetRowFails, InSheet, Ended
    <3>4. CASE SheetStops
      <4>1. /\ pc = "sheet" /\ pc' = "sheet_read" /\ row' = row
            /\ row > Len(pages[1]) \/ pages[1][row].date = "other"
        BY <3>4 DEF SheetStops, InSheet, Cell
      <4> QED
        BY <2>2, <4>1
    <3>5. CASE SheetRead
      BY <2>2, <3>5 DEF SheetRead, Ended
    <3>6. CASE Conclude
      BY <2>2, <3>6 DEF Conclude, Ended
    <3>7. CASE Over
      BY <2>2, <3>7 DEF Over, vars
    <3> QED
      BY <2>2, <3>1, <3>2, <3>3, <3>4, <3>5, <3>6, <3>7
      DEF Next, WalkPage, PageFails, EndWalk
  <2> QED
    BY <1>1, <1>x, <2>3 DEF SectionSoFar, Ended
<1>u. CASE format = "unknown"
  BY <1>1, <1>u DEF SectionSoFar
<1> QED
  BY <1>1, <1>p, <1>x, <1>u

LEMMA IInvInit == Init => IInv
<1> SUFFICES ASSUME Init PROVE IInv
  OBVIOUS
<1>1. InputOK
  BY DEF Init, InputOK
<1>2. page = 1 /\ row = 8 /\ transactions = <<>> /\ walked = 0 /\ pc = "start" /\ Len(pages) \in Nat
  BY <1>1 DEF Init, HeaderRows, InputOK
<1>3. transactions \in Seq(Drafts) /\ DOMAIN transactions = {}
  BY <1>2
<1>4. LoopsOK
  BY <1>1, <1>2, <1>3 DEF LoopsOK, InputOK, Ended, HeaderRows
<1>5. \A pos \in PlacesOf : ~Behind(pos)
  <2>1. \A pos \in PlacesOf : pos[1] \in Nat \ {0} /\ pos[2] \in Int
    BY <1>1, PlaceIs, PagesType
  <2>2. \A pos \in PlacesOf : ~(pos[1] < page) /\ ~(pos[2] > HeaderRows /\ pos[2] < row)
    BY <1>2, <2>1 DEF HeaderRows
  <2> QED
    BY <2>2 DEF Behind
<1>6. HeadsSoFar /\ LinesSoFar
  BY <1>3, <1>5 DEF HeadsSoFar, LinesSoFar, Heads, Sorted
<1>7. SectionSoFar
  <2>1. \A p \in DOMAIN pages : p >= page - 1 /\ p >= page
    BY <1>1, <1>2, PagesType
  <2> QED
    BY <1>2, <2>1 DEF SectionSoFar, Ended
<1> QED
  BY <1>1, <1>4, <1>6, <1>7 DEF IInv

LEMMA IInvStep == IInv /\ [Next]_vars => IInv'
<1> SUFFICES ASSUME IInv, [Next]_vars PROVE IInv'
  OBVIOUS
<1>1. LoopsOK /\ SectionSoFar /\ transactions \in Seq(Drafts)
  BY DEF IInv, LoopsOK
<1>2. UNCHANGED input /\ Drafts' = Drafts
  BY InputStays, PageStays
<1>3. CASE UNCHANGED <<input, page, row, transactions>> /\ Next
  <2>1. transactions' \in Seq(Drafts)
    BY <1>1, <1>3
  <2> QED
    BY <1>3, <2>1, NothingBooked, LoopsStep, SectionStep DEF IInv
<1>4. CASE WalkPage
  <2>1. Next
    BY <1>4 DEF Next
  <2> QED
    BY <1>2, <1>4, <2>1, WalkPageBooks, LoopsStep, SectionStep DEF IInv
<1>5. CASE BlankRow
  <2>1. Next /\ transactions' \in Seq(Drafts)
    BY <1>1, <1>5 DEF Next, BlankRow
  <2> QED
    BY <1>5, <2>1, BlankRowBooks, LoopsStep, SectionStep DEF IInv
<1>6. CASE SheetRow
  <2>1. Next
    BY <1>6 DEF Next
  <2> QED
    BY <1>2, <1>6, <2>1, SheetRowBooks, LoopsStep, SectionStep DEF IInv
<1>7. CASE UNCHANGED vars
  <2>1. UNCHANGED <<input, page, row, transactions>> /\ Drafts' = Drafts
    BY <1>2, <1>7 DEF vars, input
  <2>2. InputOK' /\ HeadsSoFar' /\ LinesSoFar'
    BY <2>1, NothingBooked
  <2>3. LoopsOK'
    BY <1>1, <1>7, <2>1 DEF vars, LoopsOK
  <2>4. SectionSoFar'
    <3>1. \A p \in DOMAIN pages : HitsSectionEnd(p)' = HitsSectionEnd(p)
      BY <1>2, PageStays
    <3>2. HitsSectionEnd(page - 1)' = HitsSectionEnd(page - 1)
      BY <1>7 DEF vars, HitsSectionEnd, Boundaries, FirstRow, Anchors
    <3> QED
      BY <1>1, <1>7, <3>1, <3>2 DEF vars, SectionSoFar
  <2> QED
    BY <2>2, <2>3, <2>4 DEF IInv
<1> QED
  BY <1>3, <1>4, <1>5, <1>6, <1>7
  DEF Next, Dispatch, PageFails, EndWalk, SheetRowFails, SheetStops, SheetRead, Conclude, Over, vars, input

THEOREM Invariance == Spec => []IInv
BY IInvInit, IInvStep, PTL DEF Spec

(* What holds of the places booked is what TypeOK says of them.            *)
THEOREM OpayTypes == Spec => []TypeOK
<1>1. IInv => TypeOK
  <2> SUFFICES ASSUME IInv PROVE TypeOK
    OBVIOUS
  <2>1. LoopsOK /\ InputOK
    BY DEF IInv
  <2>2. \A k \in DOMAIN transactions :
          /\ IsPlace(transactions[k].head)
          /\ \A m \in DOMAIN transactions[k].lines : IsPlace(transactions[k].lines[m])
    <3> TAKE k \in DOMAIN transactions
    <3>1. PICK t \in Drafts : t = transactions[k]
      BY <2>1 DEF LoopsOK
    <3>2. t.head \in PlacesOf /\ t.lines \in Seq(PlacesOf)
      BY DEF Drafts
    <3>3. PICK s \in Seq(PlacesOf) : s = t.lines
      BY <3>2
    <3>4. \A m \in DOMAIN s : s[m] \in PlacesOf
      OBVIOUS
    <3> QED
      BY <3>1, <3>2, <3>3, <3>4 DEF PlacesOf
  <2>3. walked \in 0..Len(pages)
    BY <2>1 DEF LoopsOK, InputOK
  <2>4. pc = "result" => walked >= 1 /\ transactions # <<>>
    BY <2>1 DEF LoopsOK, Ended
  <2> QED
    BY <2>1, <2>2, <2>3, <2>4 DEF LoopsOK, TypeOK
<1> QED
  BY <1>1, Invariance, PTL

-----------------------------------------------------------------------------
(* A statement laid out as the bank lays it out                            *)

LEMMA LayoutStays == LaidOut /\ [Next]_vars => LaidOut'
<1> SUFFICES ASSUME LaidOut, [Next]_vars PROVE LaidOut'
  OBVIOUS
<1>1. format' = format /\ pages' = pages
  BY InputStays DEF input
<1>2. \A p : FirstRow(p)' = FirstRow(p) /\ Boundaries(p)' = Boundaries(p)
  BY <1>1 DEF FirstRow, Boundaries, Anchors
<1>3. Positions' = Positions /\ \A pos : At(pos)' = At(pos) /\ (IsPlace(pos)' <=> IsPlace(pos))
  BY <1>1 DEF Positions, At, IsPlace
<1>4. Titles' = Titles /\ \A kind : OfKind(kind)' = OfKind(kind)
  BY <1>2, <1>3 DEF Titles, OfKind
<1>5. \A pos, m : OwnLine(pos, m)' <=> OwnLine(pos, m)
  BY <1>1, <1>3, <1>4 DEF OwnLine, Distance
<1>6. LaidOutPdf' <=> LaidOutPdf
  BY <1>2, <1>3, <1>4, <1>5 DEF LaidOutPdf, Before
<1>7. LaidOutSheet' <=> LaidOutSheet
  BY <1>3, <1>4 DEF LaidOutSheet
<1> QED
  BY <1>1, <1>6, <1>7 DEF LaidOut

(* A row of the section on a page that was read comes before any title.    *)
LEMMA BeforeTitles ==
    ASSUME IInv, format = "pdf", NEW pos \in PlacesOf, pos[1] < page,
           pos[2] \in FirstRow(pos[1])..LastRow(pos[1]), NEW t \in Titles
    PROVE  t # pos /\ ~Before(t, pos)
<1>1. InputOK /\ pos[1] \in DOMAIN pages /\ pos[2] \in DOMAIN pages[pos[1]]
  BY PlaceIs DEF IInv
<1>2. t[1] \in DOMAIN pages /\ t[2] \in Boundaries(t[1]) /\ t[2] \in DOMAIN pages[t[1]]
  BY DEF Titles, IsPlace
<1>3. pos[1] \in Nat /\ t[1] \in Nat /\ page \in Nat /\ pos[2] \in Int /\ t[2] \in Int
  BY <1>1, <1>2, PagesType DEF IInv, LoopsOK
<1>4. t[1] >= page - 1
  BY <1>2 DEF IInv, SectionSoFar, HitsSectionEnd
<1>5. ~(t[1] < pos[1])
  BY <1>3, <1>4
<1>6. t[1] = pos[1] => pos[2] < t[2]
  BY <1>1, <1>2, SectionIs
<1> QED
  BY <1>3, <1>5, <1>6 DEF Before

LEMMA RowIs ==
    ASSUME InputOK, NEW pos \in PlacesOf
    PROVE  /\ At(pos) \in Rows /\ At(pos).top \in Int /\ At(pos).date \in Stamps
           /\ \/ pos \in OfKind("move") \/ pos \in OfKind("line")
              \/ pos \in OfKind("furniture") \/ pos \in OfKind("saving")
<1>1. pos[1] \in DOMAIN pages /\ pos[2] \in DOMAIN pages[pos[1]]
  BY PlaceIs
<1>2. PICK rows \in Seq(Rows) : rows = pages[pos[1]]
  BY <1>1 DEF InputOK
<1>3. PICK r \in Rows : r = At(pos)
  BY <1>1, <1>2 DEF At
<1>4. r.is \in {"move", "line", "furniture", "saving"} /\ r.top \in Int /\ r.date \in Stamps
  BY DEF Rows
<1> QED
  BY <1>3, <1>4, KindIs

(* Every row booked is a movement.                                         *)
LEMMA BehindIsMove ==
    ASSUME IInv, LaidOut, NEW pos \in PlacesOf, Behind(pos)
    PROVE  pos \in OfKind("move")
<1>0. InputOK
  BY DEF IInv
<1>1. CASE format = "pdf"
  <2>1. LaidOutPdf /\ pos[1] < page /\ pos[2] \in TxRows(pos[1])
    BY <1>1 DEF LaidOut, Behind
  <2>2. IsTxRow(At(pos)) /\ pos[2] \in FirstRow(pos[1])..LastRow(pos[1])
    BY <2>1 DEF TxRows, At
  <2>3. pos \notin OfKind("line")
    BY <2>1, <2>2 DEF LaidOutPdf
  <2>4. \A t \in Titles : t # pos /\ ~Before(t, pos)
    BY <1>1, <2>1, <2>2, BeforeTitles
  <2>5. pos[2] \in DOMAIN pages[pos[1]] /\ pos[1] \in DOMAIN pages
    BY PlaceIs
  <2>6. ~(pos[2] < FirstRow(pos[1]))
    <3>1. FirstRow(pos[1]) \in Nat
      BY <1>0, <2>5, SectionIs
    <3> QED
      BY <2>2, <3>1
  <2>7. pos \notin OfKind("furniture") \cup OfKind("saving")
    BY <2>1, <2>2, <2>4, <2>6 DEF LaidOutPdf
  <2> QED
    BY <1>0, <2>3, <2>7, RowIs
<1>2. CASE format # "pdf"
  <2>1. format = "xlsx" /\ pos[2] > HeaderRows /\ At(pos).date = "stamp"
    BY <1>2 DEF Behind
  <2>2. LaidOutSheet /\ pos \in Positions /\ IsPlace(pos)
    BY <2>1 DEF LaidOut, PlacesOf
  <2> QED
    BY <2>1, <2>2 DEF LaidOutSheet, OfKind
<1> QED
  BY <1>1, <1>2

(* Of a statement laid out as the bank does, nothing but movements of the  *)
(* first section is booked, each once, in the order of print: whatever     *)
(* stands on the pages after the title, and however many they are.         *)
THEOREM OneSectionBooked == Spec /\ LaidOut => []FirstSectionOnly
<1>1. IInv /\ LaidOut => FirstSectionOnly
  <2> SUFFICES ASSUME IInv, LaidOut PROVE FirstSectionOnly
    OBVIOUS
  <2>1. \A k \in DOMAIN transactions : transactions[k].head \in Heads
    BY DEF Heads
  <2>2. \A h \in Heads : h \in PlacesOf /\ Behind(h)
    BY DEF IInv, HeadsSoFar
  <2>3. \A h \in Heads : h \in OfKind("move")
    BY <2>2, BehindIsMove
  <2>4. \A k \in DOMAIN transactions : At(transactions[k].head).is = "move"
    BY <2>1, <2>3 DEF OfKind
  <2> QED
    BY <2>4 DEF FirstSectionOnly, IInv, HeadsSoFar, Sorted
<1> QED
  BY <1>1, LayoutStays, Invariance, PTL DEF Spec

-----------------------------------------------------------------------------
(* What is read when the walk has ended                                    *)

LEMMA ClosestIs ==
    ASSUME InputOK, NEW p \in DOMAIN pages, NEW k \in DOMAIN pages[p], NEW x \in TxRows(p),
           \A n \in TxRows(p) : n # x => Distance(p, x, k) < Distance(p, n, k)
    PROVE  Closest(p, k) = x
<1>1. \A n \in TxRows(p) : n \in Nat /\ Distance(p, n, k) \in Int
  <2> TAKE n \in TxRows(p)
  <2>1. n \in DOMAIN pages[p] /\ n \in Nat
    BY TxRowsIn, PagesType
  <2>2. pages[p][n].top \in Int /\ pages[p][k].top \in Int
    <3>1. PICK a \in PlacesOf : a = <<p, n>>
      BY <2>1, PlaceIs
    <3>2. PICK b \in PlacesOf : b = <<p, k>>
      BY PlaceIs
    <3>3. At(a).top \in Int /\ At(b).top \in Int
      BY RowIs
    <3> QED
      BY <3>1, <3>2, <3>3 DEF At
  <2> QED
    BY <2>1, <2>2 DEF Distance
<1>2. {m \in TxRows(p) : \A n \in TxRows(p) : Distance(p, m, k) <= Distance(p, n, k)} = {x}
  <2>1. \A n \in TxRows(p) : Distance(p, x, k) <= Distance(p, n, k)
    BY <1>1
  <2>2. \A m \in TxRows(p) : m # x => ~(Distance(p, m, k) <= Distance(p, x, k))
    BY <1>1
  <2> QED
    BY <2>1, <2>2
<1>3. First({x}) = x
  BY <1>1, FirstIs
<1> QED
  BY <1>2, <1>3 DEF Closest

(* No title stands before a movement or one of its lines: they are in the  *)
(* section of their page, and on a page that was read.                     *)
LEMMA PrintedInSection ==
    ASSUME IInv, LaidOut, ReadsAsPrinted, format = "pdf",
           NEW pos \in OfKind("move") \cup OfKind("line")
    PROVE  /\ pos \in PlacesOf /\ pos[2] \in FirstRow(pos[1])..LastRow(pos[1])
           /\ pc \in Ended => pos[1] < page
<1>1. InputOK /\ LoopsOK /\ SectionSoFar /\ LaidOutPdf
  BY DEF IInv, LaidOut
<1>2. pos \in PlacesOf
  BY KindIs
<1>3. pos[1] \in DOMAIN pages /\ pos[2] \in DOMAIN pages[pos[1]]
  BY <1>2, PlaceIs
<1>4. pos[1] \in Nat /\ pos[2] \in Nat /\ page \in Nat /\ DOMAIN pages = 1..Len(pages) /\ Len(pages) \in Nat
  BY <1>1, <1>3, PagesType DEF LoopsOK
<1>5. ASSUME NEW t \in Titles
      PROVE  Before(pos, t)
  <2>1. t \in PlacesOf
    BY DEF Titles, PlacesOf
  <2>2. t \notin OfKind("move") \cup OfKind("line")
    BY DEF ReadsAsPrinted
  <2>3. t \in OfKind("furniture") \cup OfKind("saving")
    BY <1>1, <2>1, <2>2, RowIs
  <2> QED
    BY <1>1, <2>3 DEF LaidOutPdf
<1>6. ASSUME NEW p \in DOMAIN pages, NEW b \in Boundaries(p)
      PROVE  <<p, b>> \in Titles
  <2>1. b \in DOMAIN pages[p]
    BY <1>1, SectionIs
  <2>2. <<p, b>> \in PlacesOf
    BY <2>1, PlaceIs
  <2> QED
    BY <2>2 DEF Titles, PlacesOf
<1>7. \A b \in Boundaries(pos[1]) : pos[2] < b
  <2> TAKE b \in Boundaries(pos[1])
  <2>1. PICK t \in Titles : t = <<pos[1], b>>
    BY <1>3, <1>6
  <2>2. t[1] = pos[1] /\ t[2] = b /\ Before(pos, t)
    BY <1>5, <2>1
  <2> QED
    BY <1>4, <2>2 DEF Before
<1>8. pos[2] >= FirstRow(pos[1])
  BY <1>1 DEF LaidOutPdf
<1>9. pos[2] \in FirstRow(pos[1])..LastRow(pos[1])
  <2>1. FirstRow(pos[1]) \in Nat
    BY <1>1, <1>3, SectionIs
  <2>2. FirstRow(pos[1]) <= pos[2]
    BY <1>4, <1>8, <2>1
  <2> QED
    BY <1>1, <1>3, <1>7, <2>2, SectionIs
<1>10. ASSUME pc \in Ended
       PROVE  pos[1] < page
  <2>1. CASE page > Len(pages)
    BY <1>3, <1>4, <2>1
  <2>2. CASE page <= Len(pages)
    <3>1. HitsSectionEnd(page - 1)
      BY <1>1, <1>4, <1>10, <2>2 DEF SectionSoFar
    <3>2. page - 1 \in DOMAIN pages
      BY <1>1, <1>4, <1>10, <2>2 DEF LoopsOK
    <3>3. PICK b \in Boundaries(page - 1) : TRUE
      BY <3>1 DEF HitsSectionEnd
    <3>4. PICK t \in Titles : t = <<page - 1, b>>
      BY <1>6, <3>2
    <3>5. t[1] = page - 1 /\ Before(pos, t)
      BY <1>5, <3>4
    <3> QED
      BY <1>4, <3>5 DEF Before
  <2> QED
    BY <1>4, <2>1, <2>2
<1> QED
  BY <1>2, <1>9, <1>10

(* The movements of the statement are what was booked.                     *)
LEMMA MovesBooked ==
    ASSUME IInv, LaidOut, ReadsAsPrinted, pc = "result"
    PROVE  Heads = OfKind("move")
<1>1. InputOK /\ LoopsOK /\ SectionSoFar /\ pc \in Ended
  BY DEF IInv, Ended
<1>2. Heads = {pos \in PlacesOf : Behind(pos)}
  BY DEF IInv, HeadsSoFar
<1>3. ASSUME NEW pos \in OfKind("move")
      PROVE  pos \in PlacesOf /\ Behind(pos)
  <2>1. pos \in PlacesOf
    BY KindIs
  <2>2. CASE format = "pdf"
    <3>1. pos[1] < page /\ pos[2] \in FirstRow(pos[1])..LastRow(pos[1])
      BY <1>1, <2>2, PrintedInSection
    <3>2. IsTxRow(At(pos))
      BY <2>2 DEF LaidOut, LaidOutPdf
    <3> QED
      BY <2>1, <2>2, <3>1, <3>2 DEF Behind, TxRows, At
  <2>3. CASE format = "xlsx"
    <3>1. pos[2] > HeaderRows /\ At(pos).date # "none" /\ \A k \in 1..pos[2] : pages[1][k].date # "other"
      BY <2>3 DEF LaidOut, LaidOutSheet, ReadsAsPrinted
    <3>2. pos[1] = 1 /\ pos[2] \in 1..Len(pages[1]) /\ Len(pages[1]) \in Nat
      <4>1. pos[1] = 1
        BY <1>1, <2>1, <2>3, PlaceIs DEF InputOK
      <4> QED
        BY <1>1, <2>1, <4>1, PlaceIs, PagesType
    <3>3. At(pos).date = "stamp"
      <4>1. At(pos).date \in Stamps
        BY <1>1, <2>1, RowIs
      <4>2. At(pos).date # "other"
        BY <3>1, <3>2 DEF At
      <4> QED
        BY <3>1, <4>1, <4>2 DEF Stamps
    <3>4. pos[2] < row
      <4>1. row \in Nat \ {0} /\ (row > Len(pages[1]) \/ pages[1][row].date = "other")
        BY <1>1, <2>3 DEF LoopsOK, SectionSoFar, Ended
      <4> QED
        BY <3>1, <3>2, <4>1
    <3> QED
      BY <2>1, <2>3, <3>1, <3>3, <3>4 DEF Behind
  <2>4. CASE format = "unknown"
    BY <1>1, <2>4 DEF LoopsOK
  <2> QED
    BY <1>1, <2>2, <2>3, <2>4 DEF InputOK
<1>4. \A pos \in PlacesOf : Behind(pos) => pos \in OfKind("move")
  BY BehindIsMove
<1> QED
  BY <1>2, <1>3, <1>4

(* A narration line is closest to the movement it was printed with.        *)
LEMMA LineIsNear ==
    ASSUME IInv, LaidOut, ReadsAsPrinted, format = "pdf", pc = "result",
           NEW pos \in OfKind("line")
    PROVE  /\ pos[2] \in Lines(pos[1])
           /\ \E m \in OfKind("move") : /\ m[1] = pos[1] /\ At(m).owner = At(pos).owner
                                        /\ Closest(pos[1], pos[2]) = m[2]
<1>1. InputOK /\ LaidOutPdf /\ pc \in Ended
  BY DEF IInv, LaidOut, Ended
<1>2. pos \in PlacesOf /\ pos[2] \in FirstRow(pos[1])..LastRow(pos[1]) /\ pos[1] < page
  BY <1>1, PrintedInSection
<1>3. ~IsTxRow(At(pos)) /\ At(pos).narr # {} /\ \E m \in OfKind("move") : OwnLine(pos, m)
  BY <1>1 DEF LaidOutPdf
<1>4. pos[2] \in Lines(pos[1])
  BY <1>2, <1>3 DEF Lines, At
<1>5. PICK m \in OfKind("move") : OwnLine(pos, m)
  BY <1>3
<1>6. m[1] = pos[1] /\ At(m).owner = At(pos).owner /\ m \in PlacesOf
  BY <1>5, KindIs DEF OwnLine
<1>7. pos[1] \in DOMAIN pages /\ pos[2] \in DOMAIN pages[pos[1]]
  BY <1>2, PlaceIs
<1>8. m[2] \in TxRows(pos[1])
  <2>1. m[2] \in FirstRow(m[1])..LastRow(m[1])
    BY PrintedInSection
  <2>2. IsTxRow(At(m))
    BY <1>1 DEF LaidOutPdf
  <2> QED
    BY <1>6, <2>1, <2>2 DEF TxRows, At
<1>9. \A n \in TxRows(pos[1]) : n # m[2] => Distance(pos[1], m[2], pos[2]) < Distance(pos[1], n, pos[2])
  <2> SUFFICES ASSUME NEW n \in TxRows(pos[1]), n # m[2]
               PROVE  Distance(pos[1], m[2], pos[2]) < Distance(pos[1], n, pos[2])
    OBVIOUS
  <2>1. <<pos[1], n>> \in PlacesOf
    BY <1>1, <1>7, TxRowsIn, PlaceIs
  <2>2. PICK q \in PlacesOf : q = <<pos[1], n>>
    BY <2>1
  <2>3. q[1] = pos[1] /\ q[2] = n /\ Behind(q)
    BY <1>2, <2>2 DEF Behind
  <2>4. q \in OfKind("move") /\ q # m /\ q[1] = m[1]
    BY <1>6, <2>3, BehindIsMove
  <2>5. Distance(m[1], m[2], pos[2]) < Distance(m[1], q[2], pos[2])
    BY <1>5, <2>4 DEF OwnLine
  <2> QED
    BY <1>6, <2>3, <2>5
<1>10. Closest(pos[1], pos[2]) = m[2]
  BY <1>1, <1>7, <1>8, <1>9, ClosestIs
<1> QED
  BY <1>4, <1>6, <1>10

(* Nothing but the narration of movements is a line of the section.        *)
LEMMA NearIsLine ==
    ASSUME IInv, LaidOut, format = "pdf",
           NEW pos \in PlacesOf, pos[1] < page, pos[2] \in Lines(pos[1])
    PROVE  pos \in OfKind("line")
<1>1. InputOK /\ LaidOutPdf
  BY DEF IInv, LaidOut
<1>2. /\ pos[2] \in FirstRow(pos[1])..LastRow(pos[1]) /\ ~IsTxRow(At(pos))
      /\ At(pos).narr # {} \/ At(pos).ref
  BY DEF Lines, At
<1>3. pos \notin OfKind("move")
  BY <1>1, <1>2 DEF LaidOutPdf
<1>4. \A t \in Titles : t # pos /\ ~Before(t, pos)
  BY <1>2, BeforeTitles
<1>5. ~(pos[2] < FirstRow(pos[1]))
  <2>1. FirstRow(pos[1]) \in Nat
    BY <1>1, PlaceIs, SectionIs
  <2> QED
    BY <1>2, <2>1
<1>6. pos \notin OfKind("furniture") \cup OfKind("saving")
  BY <1>1, <1>2, <1>4, <1>5 DEF LaidOutPdf
<1> QED
  BY <1>1, <1>3, <1>6, RowIs

(* Every movement of a statement laid out as the bank does is booked, and  *)
(* each of its narration lines, above or below it, joins it and no other.  *)
THEOREM StatementBooked == Spec /\ LaidOut => []BookedAsPrinted
<1>1. IInv /\ LaidOut => BookedAsPrinted
  <2> SUFFICES ASSUME IInv, LaidOut, ReadsAsPrinted, pc = "result"
               PROVE  /\ Heads = OfKind("move")
                      /\ format = "pdf" => \A k \in DOMAIN transactions :
                           LinesOf(transactions[k])
                             = {pos \in OfKind("line") : /\ pos[1] = transactions[k].head[1]
                                                         /\ At(pos).owner = At(transactions[k].head).owner}
    BY DEF BookedAsPrinted, LinesOf
  <2>1. Heads = OfKind("move")
    BY MovesBooked
  <2>2. ASSUME format = "pdf", NEW k \in DOMAIN transactions
        PROVE  LinesOf(transactions[k])
                 = {pos \in OfKind("line") : /\ pos[1] = transactions[k].head[1]
                                             /\ At(pos).owner = At(transactions[k].head).owner}
    <3>1. PICK h \in Heads : h = transactions[k].head
      BY DEF Heads
    <3>2. h \in OfKind("move") /\ Behind(h) /\ h \in PlacesOf
      BY <2>1 DEF IInv, HeadsSoFar
    <3>3. LinesOf(transactions[k]) = Nearby(h)
      BY <2>2, <3>1 DEF IInv, LinesSoFar
    <3>4. LaidOutPdf /\ h[1] < page
      BY <2>2, <3>2 DEF LaidOut, Behind
    <3>5. ASSUME NEW pos \in Nearby(h)
          PROVE  pos \in OfKind("line") /\ pos[1] = h[1] /\ At(pos).owner = At(h).owner
      <4>1. /\ pos \in PlacesOf /\ pos[1] = h[1] /\ pos[2] \in Lines(pos[1])
            /\ Closest(pos[1], pos[2]) = h[2]
        BY DEF Nearby
      <4>2. pos \in OfKind("line")
        BY <2>2, <3>4, <4>1, NearIsLine
      <4>3. PICK m \in OfKind("move") : /\ m[1] = pos[1] /\ At(m).owner = At(pos).owner
                                        /\ Closest(pos[1], pos[2]) = m[2]
        BY <2>2, <4>2, LineIsNear
      <4>4. m = h
        <5>1. m[1] = h[1] /\ m[2] = h[2] /\ m \in PlacesOf
          BY <4>1, <4>3, KindIs
        <5> QED
          BY <3>2, <5>1, PlaceIs
      <4> QED
        BY <4>1, <4>2, <4>3, <4>4
    <3>6. ASSUME NEW pos \in OfKind("line"), pos[1] = h[1], At(pos).owner = At(h).owner
          PROVE  pos \in Nearby(h)
      <4>1. /\ pos[2] \in Lines(pos[1])
            /\ \E m \in OfKind("move") : /\ m[1] = pos[1] /\ At(m).owner = At(pos).owner
                                         /\ Closest(pos[1], pos[2]) = m[2]
        BY <2>2, LineIsNear
      <4>2. PICK m \in OfKind("move") : /\ m[1] = pos[1] /\ At(m).owner = At(pos).owner
                                        /\ Closest(pos[1], pos[2]) = m[2]
        BY <4>1
      <4>3. m = h
        BY <3>2, <3>4, <3>6, <4>2 DEF LaidOutPdf
      <4>4. pos \in PlacesOf
        BY KindIs
      <4> QED
        BY <3>6, <4>1, <4>2, <4>3, <4>4 DEF Nearby
    <3> QED
      BY <3>1, <3>3, <3>5, <3>6
  <2> QED
    BY <2>1, <2>2
<1> QED
  BY <1>1, LayoutStays, Invariance, PTL DEF Spec

-----------------------------------------------------------------------------
(* The checks decide about the booked movements                            *)

R == INSTANCE ReconcileProofs WITH pc <- cpc, case <- 0

(* A statement has finitely many movements, of amounts that are numbers.   *)
LEMMA MovesFinite ==
    ASSUME InputOK
    PROVE  /\ IsFiniteSet(MoveRows)
           /\ \A pos \in MoveRows : At(pos).debit \in Nat /\ At(pos).credit \in Nat
<1>1. DOMAIN pages = 1..Len(pages) /\ Len(pages) \in Nat
  BY DEF InputOK
<1>2. IsFiniteSet(DOMAIN pages)
  BY <1>1, FS_Interval
<1>3. PICK lens : lens = {DOMAIN pages[q] : q \in DOMAIN pages}
  OBVIOUS
<1>4. IsFiniteSet(lens)
  <2>1. [q \in DOMAIN pages |-> DOMAIN pages[q]] \in Surjection(DOMAIN pages, lens)
    BY <1>3 DEF Surjection
  <2> QED
    BY <1>2, <2>1, FS_Surjection
<1>5. \A d \in lens : IsFiniteSet(d)
  <2> SUFFICES ASSUME NEW q \in DOMAIN pages PROVE IsFiniteSet(DOMAIN pages[q])
    BY <1>3
  <2>1. DOMAIN pages[q] = 1..Len(pages[q]) /\ Len(pages[q]) \in Nat
    BY PagesType
  <2> QED
    BY <2>1, FS_Interval
<1>6. IsFiniteSet(UNION lens)
  BY <1>4, <1>5, FS_UNION
<1>7. IsFiniteSet((DOMAIN pages) \X (UNION lens))
  BY <1>2, <1>6, FS_Product
<1>8. MoveRows \in SUBSET ((DOMAIN pages) \X (UNION lens))
  BY <1>3 DEF MoveRows, OfKind, Positions
<1>9. ASSUME NEW pos \in MoveRows
      PROVE  At(pos).debit \in Nat /\ At(pos).credit \in Nat
  <2>1. At(pos) \in Rows
    BY RowIs, KindIs DEF MoveRows
  <2> QED
    BY <2>1 DEF Rows
<1> QED
  BY <1>7, <1>8, <1>9, FS_Subset

(* Finite sets are the same to either module.                              *)
LEMMA FiniteAlike ==
    ASSUME NEW S
    PROVE  R!IsFiniteSet(S) = IsFiniteSet(S) /\ R!Cardinality(S) = Cardinality(S)
<1>1. R!IsFiniteSet(S) = IsFiniteSet(S)
  BY DEF IsFiniteSet, R!IsFiniteSet
<1>2. R!Cardinality(S) = Cardinality(S)
  BY DEF Cardinality, R!Cardinality, IsFiniteSet, R!IsFiniteSet
<1> QED
  BY <1>1, <1>2

(* The amounts of the movements in the two columns.                        *)
Out == [pos \in MoveRows |-> At(pos).debit]
In == [pos \in MoveRows |-> At(pos).credit]

(* The units of some movements are what they weigh.                        *)
LEMMA Weighed ==
    ASSUME InputOK, NEW S \in SUBSET MoveRows
    PROVE  /\ R!Weighs(S, Out) /\ Debits(S) = R!Weight(S, Out) /\ Debits(S) \in Nat
           /\ R!Weighs(S, In) /\ Credits(S) = R!Weight(S, In) /\ Credits(S) \in Nat
<1>1. IsFiniteSet(S)
  BY MovesFinite, FS_Subset
<1>2. PICK f, g : f = Out /\ g = In
  OBVIOUS
<1>3. \A pos \in S : /\ f[pos] = At(pos).debit /\ g[pos] = At(pos).credit
                     /\ f[pos] \in Nat /\ g[pos] \in Nat
  BY <1>2, MovesFinite DEF Out, In
<1>4. R!Weighs(S, f) /\ R!Weighs(S, g)
  BY <1>1, <1>3, FiniteAlike DEF R!Weighs
<1>5. R!Units(S, f) = UNION {{<<pos, n>> : n \in 1..At(pos).debit} : pos \in S}
  BY <1>3 DEF R!Units
<1>6. R!Units(S, g) = UNION {{<<pos, n>> : n \in 1..At(pos).credit} : pos \in S}
  BY <1>3 DEF R!Units
<1>7. Debits(S) = R!Weight(S, f) /\ Credits(S) = R!Weight(S, g)
  BY <1>5, <1>6, FiniteAlike DEF R!Weight, Debits, Credits
<1>8. R!Weight(S, f) \in Nat /\ R!Weight(S, g) \in Nat
  BY <1>4, StatementAssumption, R!UnitsFinite
<1> QED
  BY <1>2, <1>4, <1>7, <1>8

(* What is booked is movements, each once.                                 *)
LEMMA BookedMoves ==
    ASSUME IInv, LaidOut
    PROVE  /\ InputOK /\ Len(transactions) \in Nat /\ DOMAIN transactions = 1..Len(transactions)
           /\ Heads \in SUBSET MoveRows
           /\ \A k \in DOMAIN transactions : \A j \in 1..(k - 1) :
                transactions[j].head # transactions[k].head
<1>1. InputOK /\ Sorted /\ transactions \in Seq(Drafts)
  BY DEF IInv, LoopsOK, HeadsSoFar
<1>2. Len(transactions) \in Nat /\ DOMAIN transactions = 1..Len(transactions)
  BY <1>1
<1>3. Heads \in SUBSET MoveRows
  BY BehindIsMove DEF IInv, HeadsSoFar, MoveRows
<1>4. ASSUME NEW k \in DOMAIN transactions, NEW j \in 1..(k - 1)
      PROVE  transactions[j].head # transactions[k].head
  <2>1. j \in DOMAIN transactions /\ j < k
    BY <1>2
  <2>2. PICK g, h : g = transactions[j].head /\ h = transactions[k].head
    OBVIOUS
  <2>3. Before(g, h)
    BY <1>1, <2>1, <2>2 DEF Sorted
  <2>4. h \in PlacesOf
    BY <1>3, <2>2, KindIs DEF Heads, MoveRows
  <2>5. h[1] \in DOMAIN pages /\ h[2] \in DOMAIN pages[h[1]]
    BY <2>4, PlaceIs
  <2>6. h[1] \in Nat /\ h[2] \in Nat
    BY <1>1, <2>5, PagesType
  <2> QED
    BY <2>2, <2>3, <2>6 DEF Before
<1> QED
  BY <1>1, <1>2, <1>3, <1>4

(* The rows of the result are the booked movements.                        *)
LEMMA ResultRows ==
    ASSUME IInv, LaidOut, result = ResultOf
    PROVE  /\ DOMAIN R!rows = DOMAIN transactions /\ Len(R!rows) = Len(transactions)
           /\ \A k \in DOMAIN transactions :
                /\ R!rows[k].debit = At(transactions[k].head).debit
                /\ R!rows[k].credit = At(transactions[k].head).credit
<1>1. R!rows = [k \in DOMAIN transactions |->
                  [debit |-> At(transactions[k].head).debit, credit |-> At(transactions[k].head).credit,
                   balance |-> Absent]]
  BY DEF R!rows, ResultOf
<1> QED
  BY <1>1, BookedMoves

(* What the parser hands over is a result the checks may begin with.       *)
LEMMA ResultTyped ==
    ASSUME IInv, LaidOut
    PROVE  ResultOf \in R!ParseResults
<1>1. Debits(MoveRows) \in Nat /\ Credits(MoveRows) \in Nat
  BY BookedMoves, Weighed
<1>2. ASSUME NEW k \in DOMAIN transactions
      PROVE  At(transactions[k].head).debit \in Nat /\ At(transactions[k].head).credit \in Nat
  <2>1. transactions[k].head \in MoveRows
    BY BookedMoves DEF Heads
  <2> QED
    BY <2>1, BookedMoves, MovesFinite
<1>3. ResultOf.rows \in Seq(R!Transactions)
  <2>1. \A k \in DOMAIN transactions :
           [debit |-> At(transactions[k].head).debit, credit |-> At(transactions[k].head).credit,
            balance |-> Absent] \in R!Transactions
    BY <1>2 DEF R!Transactions, R!Balances
  <2> QED
    BY <2>1, BookedMoves DEF ResultOf
<1>4. ResultOf.totalDebit \in R!Headers /\ ResultOf.totalCredit \in R!Headers
  BY <1>1 DEF ResultOf, R!Headers
<1> QED
  BY <1>3, <1>4 DEF ResultOf, R!ParseResults

(* The sums of the checks are those of the booked movements.               *)
LEMMA TotalsOfHeads ==
    ASSUME IInv, LaidOut, result = ResultOf
    PROVE  R!Total(R!Debits(R!rows)) = Debits(Heads) /\ R!Total(R!Credits(R!rows)) = Credits(Heads)
<1>1. PICK n, rs : n = Len(transactions) /\ rs = R!rows
  OBVIOUS
<1>2. PICK hs : hs = [k \in 1..n |-> transactions[k].head]
  OBVIOUS
<1>3. InputOK /\ n \in Nat /\ DOMAIN transactions = 1..n /\ DOMAIN rs = 1..n /\ Len(rs) = n
  BY <1>1, BookedMoves, ResultRows
<1>4. PICK H : H = Heads
  OBVIOUS
<1>5. H \in SUBSET MoveRows /\ (\A k \in 1..n : hs[k] \in H) /\ \A x \in H : \E k \in 1..n : x = hs[k]
  BY <1>2, <1>3, <1>4, BookedMoves DEF Heads
<1>6. \A k \in 1..n : \A j \in 1..(k - 1) : hs[j] # hs[k]
  <2> SUFFICES ASSUME NEW k \in 1..n, NEW j \in 1..(k - 1) PROVE hs[j] # hs[k]
    OBVIOUS
  <2>1. j \in 1..n
    BY <1>3
  <2> QED
    BY <1>2, <1>3, <2>1, BookedMoves
<1>7. PICK f, g : f = Out /\ g = In
  OBVIOUS
<1>8. \A k \in 1..n : /\ rs[k].debit = f[hs[k]] /\ f[hs[k]] \in Nat
                      /\ rs[k].credit = g[hs[k]] /\ g[hs[k]] \in Nat
  <2> SUFFICES ASSUME NEW k \in 1..n
               PROVE  /\ rs[k].debit = f[hs[k]] /\ f[hs[k]] \in Nat
                      /\ rs[k].credit = g[hs[k]] /\ g[hs[k]] \in Nat
    OBVIOUS
  <2>1. PICK h \in MoveRows : h = hs[k] /\ h = transactions[k].head
    BY <1>2, <1>5
  <2>2. rs[k].debit = At(h).debit /\ rs[k].credit = At(h).credit
    BY <1>1, <1>3, <2>1, ResultRows
  <2>3. f[h] = At(h).debit /\ g[h] = At(h).credit
    BY <1>7, <2>1 DEF Out, In
  <2> QED
    BY <1>3, <2>1, <2>2, <2>3, MovesFinite
<1>9. PICK d, c : d = R!Debits(rs) /\ c = R!Credits(rs)
  OBVIOUS
<1>10. /\ d \in Seq(Int) /\ Len(d) = n /\ c \in Seq(Int) /\ Len(c) = n
       /\ \A k \in 1..n : d[k] = f[hs[k]] /\ c[k] = g[hs[k]]
  BY <1>3, <1>8, <1>9 DEF R!Debits, R!Credits
<1>11. R!Lists(d, f, hs, H) /\ R!Lists(c, g, hs, H)
  BY <1>5, <1>6, <1>8, <1>10 DEF R!Lists
<1>12. R!Total(d) = R!Weight(H, f) /\ R!Total(c) = R!Weight(H, g)
  BY <1>11, StatementAssumption, R!WeightOfSequence
<1>13. Debits(H) = R!Weight(H, f) /\ Credits(H) = R!Weight(H, g)
  BY <1>3, <1>5, <1>7, Weighed
<1> QED
  BY <1>1, <1>4, <1>9, <1>12, <1>13

(* Totals that match leave little lost: what is not booked is what the     *)
(* booked movements fall short of the printed ones by.                     *)
LEMMA LittleLost ==
    ASSUME IInv, LaidOut, result = ResultOf, R!HeaderTotals, R!TotalsMatch
    PROVE  Debits(MoveRows \ Heads) <= Tolerance /\ Credits(MoveRows \ Heads) <= Tolerance
<1>1. result.totalDebit = Debits(MoveRows) /\ result.totalCredit = Credits(MoveRows)
  BY DEF R!HeaderTotals, ResultOf
<1>2. PICK H, L, P, f, g : /\ H = Heads /\ L = MoveRows \ Heads /\ P = MoveRows
                           /\ f = Out /\ g = In
  OBVIOUS
<1>3. InputOK /\ H \in SUBSET P /\ L = P \ H
  BY <1>2, BookedMoves
<1>4. /\ R!Weighs(P, f) /\ R!Weighs(P, g)
      /\ Debits(P) = R!Weight(P, f) /\ Debits(H) = R!Weight(H, f) /\ Debits(L) = R!Weight(L, f)
      /\ Credits(P) = R!Weight(P, g) /\ Credits(H) = R!Weight(H, g) /\ Credits(L) = R!Weight(L, g)
  BY <1>2, <1>3, Weighed
<1>5. /\ Debits(H) \in Nat /\ Debits(L) \in Nat /\ Debits(P) = Debits(H) + Debits(L)
      /\ Credits(H) \in Nat /\ Credits(L) \in Nat /\ Credits(P) = Credits(H) + Credits(L)
  BY <1>3, <1>4, StatementAssumption, R!WeightLeft
<1>6. PICK dh, ch, dl, cl : dh = Debits(H) /\ ch = Credits(H) /\ dl = Debits(L) /\ cl = Credits(L)
  OBVIOUS
<1>7. R!Distance(ch, ch + cl) <= Tolerance /\ R!Distance(dh, dh + dl) <= Tolerance
  BY <1>1, <1>2, <1>5, <1>6, TotalsOfHeads DEF R!TotalsMatch
<1>8. dl <= Tolerance /\ cl <= Tolerance
  BY <1>5, <1>6, <1>7, StatementAssumption DEF R!Distance
<1> QED
  BY <1>2, <1>6, <1>8

(* The walk of a statement, and after it the checks of what it returned.   *)
SInv ==
    /\ IInv
    /\ cpc = "idle" => ChecksIdle
    /\ cpc # "idle" => pc = "result" /\ result = ResultOf /\ R!Judged

(* The walk goes on, or the checks do and it stands still.                 *)
LEMMA WalkStep ==
    ASSUME [StatementNext]_all
    PROVE  [Next]_vars
BY DEF StatementNext, Walks, HandOver, ChecksStep, all

(* The verdict is proved of the checks alone; here they begin where it does. *)
LEMMA Begun == R!Init => R!Judged
BY StatementAssumption, R!JudgedInit

(* The checks of the composition are those the verdict is proved of.       *)
LEMMA ChecksNext == Checks!Next => R!Next
BY DEF Checks!Next, R!Next, Checks!StartChecks, R!StartChecks, Checks!SumRow, R!SumRow,
       Checks!CompareTotals, R!CompareTotals, Checks!RowWiseDisabled, R!RowWiseDisabled,
       Checks!NoBalanceColumn, R!NoBalanceColumn, Checks!PartialBalances, R!PartialBalances,
       Checks!StartChain, R!StartChain, Checks!ChainRow, R!ChainRow, Checks!ChainHolds, R!ChainHolds,
       Checks!Decide, R!Decide, Checks!Over, R!Over, Checks!vars, R!vars,
       Checks!rows, R!rows, Checks!Missing, R!Missing, Checks!HeaderTotals, R!HeaderTotals,
       Checks!Chains, R!Chains, Checks!Expected, R!Expected, Checks!Distance, R!Distance,
       Checks!Raise, R!Raise, Checks!IsFirst, R!IsFirst

(* Nothing is walked, nothing checked.                                     *)
LEMMA SInvInit == StatementInit => SInv
BY IInvInit DEF StatementInit, SInv, ChecksIdle

(* Each step of the walk, the hand-over and each check keep the invariant. *)
LEMMA SInvStep ==
    ASSUME SInv, LaidOut, [StatementNext]_all
    PROVE  SInv'
<1>1. IInv /\ IInv'
  BY WalkStep, IInvStep DEF SInv
<1>2. ASSUME UNCHANGED <<vars, header>>
      PROVE  ResultOf' = ResultOf /\ pc' = pc
  BY <1>2 DEF ResultOf, vars, Debits, Credits, MoveRows, OfKind, Positions, IsPlace, At
<1>3. ASSUME UNCHANGED <<header, checks>>, [Next]_vars
      PROVE  SInv'
  <2>1. CASE cpc = "idle"
    BY <1>1, <1>3, <2>1 DEF SInv, checks, ChecksIdle
  <2>2. CASE cpc # "idle"
    <3>1. pc = "result" /\ result = ResultOf /\ R!Judged
      BY <2>2 DEF SInv
    <3>2. UNCHANGED <<vars, header>>
      BY <1>3, <3>1 DEF Next, Dispatch, WalkPage, PageFails, EndWalk, BlankRow, SheetRow,
                        SheetRowFails, SheetStops, SheetRead, Conclude, Over, InSheet
    <3>3. UNCHANGED R!vars /\ cpc' = cpc /\ result' = result
      BY <1>3 DEF checks, R!vars
    <3>4. R!Judged'
      BY <3>1, <3>3, StatementAssumption, R!JudgedStep
    <3> QED
      BY <1>1, <1>2, <2>2, <3>1, <3>2, <3>3, <3>4 DEF SInv
  <2> QED
    BY <2>1, <2>2
<1>4. CASE HandOver
  <2>1. UNCHANGED <<vars, header>> /\ pc = "result" /\ result' = ResultOf /\ cpc' = "start"
    BY <1>4 DEF HandOver
  <2>2. ChecksIdle
    BY <1>4 DEF HandOver, SInv
  <2>3. ResultOf \in R!ParseResults
    BY <1>1, ResultTyped
  <2>4. (R!Init)'
    BY <1>4, <2>1, <2>2, <2>3 DEF HandOver, ChecksIdle, R!Init, R!NoError
  <2>5. (R!Init)' => (R!Judged)'
    BY Begun, PTL
  <2> QED
    BY <1>1, <1>2, <2>1, <2>4, <2>5 DEF SInv
<1>5. CASE ChecksStep
  <2>1. cpc # "idle" /\ R!Next /\ UNCHANGED <<vars, header>>
    BY <1>5, ChecksNext DEF ChecksStep
  <2>2. pc = "result" /\ result = ResultOf /\ R!Judged
    BY <2>1 DEF SInv
  <2>3. R!Judged'
    BY <2>1, <2>2, StatementAssumption, R!JudgedStep
  <2>4. result' = result
    BY <2>1, StatementAssumption, R!ResultStays
  <2>5. cpc' # "idle"
    BY <2>3 DEF R!Judged, R!IInv, R!TypeOK
  <2> QED
    BY <1>1, <1>2, <2>1, <2>2, <2>3, <2>4, <2>5 DEF SInv
<1> QED
  BY <1>3, <1>4, <1>5 DEF StatementNext, Walks, all, checks

(* Once a report is out, the invariant leaves no loss unseen.              *)
LEMMA SInvShows ==
    ASSUME SInv, LaidOut
    PROVE  LossShows
<1> SUFFICES ASSUME cpc = "reported"
             PROVE  /\ Debits(MoveRows \ Heads) <= Tolerance
                    /\ Credits(MoveRows \ Heads) <= Tolerance
  BY DEF LossShows
<1>1. IInv /\ result = ResultOf /\ R!Judged
  BY DEF SInv
<1>2. R!Accepts /\ result.optOut = TRUE
  BY <1>1 DEF R!Judged, R!VerdictRight, ResultOf
<1>3. R!HeaderTotals /\ R!TotalsMatch
  BY <1>2 DEF R!Accepts
<1> QED
  BY <1>1, <1>3, LittleLost

(* Of a statement laid out as the bank does, of any number of pages and    *)
(* rows, whatever the parser takes for the end of its section: convert()   *)
(* returns a report only when the movements not booked come to TOLERANCE   *)
(* at most in either column.                                               *)
THEOREM LossesShow == StatementSpec /\ LaidOut => []LossShows
<1>1. (SInv /\ LaidOut) /\ [StatementNext]_all => (SInv /\ LaidOut)'
  <2> SUFFICES ASSUME SInv, LaidOut, [StatementNext]_all
               PROVE  (SInv /\ LaidOut)'
    OBVIOUS
  <2> QED
    BY WalkStep, LayoutStays, SInvStep
<1> QED
  BY <1>1, SInvInit, SInvShows, PTL DEF StatementSpec

(* The composition adds nothing to the parser: what is proved of OpayRows  *)
(* holds of it.                                                            *)
THEOREM ParserOfStatement == StatementSpec => Spec
<1>1. StatementInit => Init
  BY DEF StatementInit
<1> QED
  BY <1>1, WalkStep, PTL DEF StatementSpec, Spec

-----------------------------------------------------------------------------
(* The redacted copy reads alike                                           *)

(* The copy of a page has its rows, which keep their amounts; nothing is   *)
(* added to what they hold.                                                *)
LEMMA CopyPage ==
    ASSUME InputOK, format = "pdf", NEW p \in DOMAIN pages
    PROVE  /\ DOMAIN copy = DOMAIN pages /\ DOMAIN copy[p] = DOMAIN pages[p] /\ Len(copy[p]) = Len(pages[p])
           /\ \A k \in DOMAIN pages[p] :
                /\ copy[p][k].debit = pages[p][k].debit /\ copy[p][k].credit = pages[p][k].credit
                /\ Edit!WordsOf(copy[p][k]) \subseteq Edit!WordsOf(pages[p][k])
<1>1. PICK c, s : c = copy[p] /\ s = pages[p]
  OBVIOUS
<1>2. s \in Seq(Rows) /\ DOMAIN s = 1..Len(s) /\ Len(s) \in Nat /\ DOMAIN copy = DOMAIN pages
  BY <1>1, PagesType DEF InputOK, copy
<1>3. c = Edit!OpayPage(p, s)
  BY <1>1 DEF copy
<1>4. DOMAIN c = DOMAIN s
  BY <1>3 DEF Edit!OpayPage
<1>5. Len(c) = Len(s)
  <2>1. c = [k \in DOMAIN s |-> c[k]]
    BY <1>3 DEF Edit!OpayPage
  <2> QED
    BY <1>2, <2>1
<1>6. ASSUME NEW k \in DOMAIN s
      PROVE  /\ c[k].debit = s[k].debit /\ c[k].credit = s[k].credit
             /\ Edit!WordsOf(c[k]) \subseteq Edit!WordsOf(s[k])
  <2>1. PICK r \in Rows : r = s[k]
    BY <1>2
  <2>2. \/ c[k] = [r EXCEPT !.words = {}, !.narr = {}, !.date = "none", !.balance = FALSE]
        \/ c[k] = [r EXCEPT !.narr = {}]
        \/ c[k] = r
    BY <1>3, <2>1 DEF Edit!OpayPage, Edit!DescZone, Edit!Blanked
  <2>3. /\ c[k].debit = r.debit /\ c[k].credit = r.credit
        /\ c[k].words \subseteq r.words /\ c[k].narr \subseteq r.narr
    BY <2>2 DEF Rows
  <2> QED
    BY <2>1, <2>3 DEF Edit!WordsOf
<1> QED
  BY <1>1, <1>2, <1>4, <1>5, <1>6

(* In the body a row loses its narration and nothing else.                 *)
LEMMA CopyRow ==
    ASSUME InputOK, format = "pdf", LaidOutToRedact, Anchors(1) # {},
           NEW p \in DOMAIN pages, NEW k \in DOMAIN pages[p], k >= FirstRow(p)
    PROVE  copy[p][k] = [pages[p][k] EXCEPT !.narr = {}]
<1>1. PICK s : s = pages[p]
  OBVIOUS
<1>2. DOMAIN s = 1..Len(s) /\ Len(s) \in Nat /\ p \in Nat \ {0} /\ 1 \in DOMAIN pages /\ FirstRow(p) \in Nat
      /\ pages # <<>>
  BY <1>1, PagesType, SectionIs DEF InputOK
<1>3. ASSUME NEW label \in DOMAIN s, {"Account", "Name"} \subseteq Edit!WordsOf(s[label])
      PROVE  label + 1 # k
  <2>1. PICK pos : pos = <<p, label>>
    OBVIOUS
  <2>2. pos \in Positions /\ IsPlace(pos)
    BY <1>1, <2>1, PlaceIs DEF PlacesOf
  <2>3. {"Account", "Name"} \subseteq WordsOf(At(pos))
    BY <1>1, <1>3, <2>1 DEF At, WordsOf, Edit!WordsOf
  <2>4. p = 1 /\ label + 2 < FirstRow(1)
    BY <1>2, <2>1, <2>2, <2>3 DEF LaidOutToRedact
  <2> QED
    BY <1>2, <2>4
<1>4. k \notin Edit!Under({l \in DOMAIN s : {"Account", "Name"} \subseteq Edit!WordsOf(s[l])}, 1)
  BY <1>2, <1>3 DEF Edit!Under
<1>5. k \in Edit!OpayBody(p, s)
  <2>1. CASE p # 1
    BY <1>1, <2>1 DEF Edit!OpayBody
  <2>2. CASE p = 1
    <3>1. PICK a : a = First(Anchors(1))
      OBVIOUS
    <3>2. Anchors(1) \subseteq Nat
      BY <1>1, <1>2, <2>2 DEF Anchors
    <3>3. a \in Anchors(1)
      BY <3>1, <3>2, FirstIs
    <3>4. FirstRow(p) = a + 1 /\ a \in Nat
      BY <2>2, <3>1, <3>2, <3>3 DEF FirstRow
    <3>5. a < k
      BY <1>1, <1>2, <3>4
    <3>6. a \in DOMAIN s /\ {"Trans."} \subseteq Edit!WordsOf(s[a])
      BY <1>1, <2>2, <3>3 DEF Anchors, WordsOf, Edit!WordsOf
    <3> QED
      BY <1>1, <2>2, <3>5, <3>6 DEF Edit!OpayBody, Edit!Below
  <2> QED
    BY <2>1, <2>2
<1> QED
  BY <1>1, <1>4, <1>5 DEF copy, Edit!OpayPage, Edit!DescZone, Edit!Blanked

(* The first anchor of page 1 is where it was.                             *)
LEMMA CopyAnchor ==
    ASSUME InputOK, format = "pdf", LaidOutToRedact, Anchors(1) # {}, NEW p \in DOMAIN pages
    PROVE  Again!FirstRow(p) = FirstRow(p)
<1>1. CASE p > 1
  BY <1>1 DEF Again!FirstRow, FirstRow
<1>2. CASE p = 1
  <2>1. PICK a, s : a = First(Anchors(1)) /\ s = pages[1]
    OBVIOUS
  <2>2. /\ DOMAIN s = 1..Len(s) /\ Len(s) \in Nat /\ s \in Seq(Rows)
        /\ DOMAIN copy[1] = DOMAIN s /\ pages # <<>>
    BY <1>2, <2>1, PagesType, CopyPage DEF InputOK
  <2>3. Anchors(1) \subseteq Nat
    BY <2>1, <2>2 DEF Anchors
  <2>4. a \in Anchors(1) /\ \A k \in Anchors(1) : a <= k
    BY <2>1, <2>3, FirstIs
  <2>5. Again!Anchors(1) \subseteq Anchors(1)
    <3> SUFFICES ASSUME NEW k \in DOMAIN s, "Trans." \in Again!WordsOf(copy[1][k])
                 PROVE  "Trans." \in WordsOf(s[k])
      BY <2>1, <2>2 DEF Again!Anchors, Anchors
    <3>1. Edit!WordsOf(copy[1][k]) \subseteq Edit!WordsOf(s[k])
      BY <1>2, <2>1, CopyPage
    <3> QED
      BY <3>1 DEF Again!WordsOf, WordsOf, Edit!WordsOf
  <2>6. a \in DOMAIN s /\ a \in Nat /\ FirstRow(1) = a + 1
    <3>1. a \in DOMAIN s
      BY <2>1, <2>4 DEF Anchors
    <3>2. FirstRow(1) = a + 1
      BY <2>1, <2>4 DEF FirstRow
    <3> QED
      BY <2>3, <2>4, <3>1, <3>2
  <2>7. "Trans." \in s[a].words
    BY <2>1, <2>2 DEF LaidOutToRedact, At
  <2>8. a \notin Edit!Under({l \in DOMAIN s : {"Account", "Name"} \subseteq Edit!WordsOf(s[l])}, 1)
    <3> SUFFICES ASSUME NEW l \in DOMAIN s, {"Account", "Name"} \subseteq Edit!WordsOf(s[l])
                 PROVE  l + 1 # a
      BY <2>2, <2>6 DEF Edit!Under
    <3>1. PICK pos : pos = <<1, l>>
      OBVIOUS
    <3>2. pos \in Positions /\ IsPlace(pos)
      BY <1>2, <2>1, <3>1, PlaceIs DEF PlacesOf
    <3>3. {"Account", "Name"} \subseteq WordsOf(At(pos))
      BY <2>1, <3>1 DEF At, WordsOf, Edit!WordsOf
    <3>4. l + 2 < FirstRow(1)
      BY <2>2, <3>1, <3>2, <3>3 DEF LaidOutToRedact
    <3> QED
      BY <2>2, <2>6, <3>4
  <2>9. "Trans." \in copy[1][a].words
    <3>1. PICK r \in Rows : r = s[a]
      BY <2>2, <2>6
    <3>2. copy[1][a] = r \/ copy[1][a] = [r EXCEPT !.narr = {}]
      BY <1>2, <2>1, <2>6, <2>8, <3>1 DEF copy, Edit!OpayPage, Edit!DescZone, Edit!Blanked
    <3> QED
      BY <2>7, <3>1, <3>2 DEF Rows
  <2>10. a \in Again!Anchors(1)
    BY <2>2, <2>6, <2>9 DEF Again!Anchors, Again!WordsOf
  <2>11. Again!First(Again!Anchors(1)) = a
    <3>1. PICK S : S = Again!Anchors(1)
      OBVIOUS
    <3>2. S \subseteq Nat /\ a \in S /\ \A k \in S : a <= k
      BY <2>3, <2>4, <2>5, <2>10, <3>1
    <3>3. \A b \in S : (\A k \in S : b <= k) => b = a
      BY <3>2
    <3> QED
      BY <3>1, <3>2, <3>3 DEF Again!First
  <2>12. Again!FirstRow(1) = a + 1
    BY <2>10, <2>11 DEF Again!FirstRow
  <2> QED
    BY <1>2, <2>6, <2>12
<1> QED
  BY <1>1, <1>2, PagesType

(* The section ends where it did and holds the same movements.             *)
LEMMA CopySection ==
    ASSUME InputOK, format = "pdf", LaidOutToRedact, ReadsAsPrinted, NEW p \in DOMAIN pages
    PROVE  Again!TxRows(p) = TxRows(p) /\ Again!HitsSectionEnd(p) = HitsSectionEnd(p)
<1>1. PICK f, n : f = FirstRow(p) /\ n = Len(pages[p])
  OBVIOUS
<1>2. Anchors(1) # {}
  BY DEF ReadsAsPrinted
<1>3. /\ f \in Nat \ {0} /\ n \in Nat /\ DOMAIN pages[p] = 1..n /\ pages[p] \in Seq(Rows)
      /\ Again!FirstRow(p) = f /\ Len(copy[p]) = n /\ pages # <<>>
  BY <1>1, <1>2, SectionIs, PagesType, CopyAnchor, CopyPage DEF InputOK
<1>4. ASSUME NEW k \in f..n
      PROVE  /\ copy[p][k] = [pages[p][k] EXCEPT !.narr = {}]
             /\ pages[p][k] \in Rows /\ k \in DOMAIN pages[p]
  <2>1. k \in DOMAIN pages[p] /\ k >= FirstRow(p)
    BY <1>1, <1>3
  <2> QED
    BY <1>2, <1>3, <2>1, CopyRow
<1>5. ASSUME NEW k \in f..n
      PROVE  /\ {"Savings", "Account"} \subseteq Again!WordsOf(copy[p][k])
                  <=> {"Savings", "Account"} \subseteq WordsOf(pages[p][k])
             /\ Again!IsTxRow(copy[p][k]) <=> IsTxRow(pages[p][k])
  <2>1. PICK r \in Rows : r = pages[p][k] /\ copy[p][k] = [r EXCEPT !.narr = {}]
    BY <1>4
  <2>2. PICK c : c = copy[p][k]
    OBVIOUS
  <2>3. c.words = r.words /\ c.narr = {} /\ c.date = r.date /\ c.balance = r.balance
    BY <2>1, <2>2 DEF Rows
  <2>4. Again!WordsOf(c) = r.words
    BY <2>3 DEF Again!WordsOf
  <2>5. ASSUME {"Savings", "Account"} \subseteq WordsOf(r)
        PROVE  {"Savings", "Account"} \subseteq r.words
    <3>1. PICK pos : pos = <<p, k>>
      OBVIOUS
    <3>2. pos \in PlacesOf /\ pos[1] = p /\ pos[2] = k /\ At(pos) = r
      BY <1>4, <2>1, <3>1, PlaceIs DEF At
    <3>3. k \in Boundaries(p)
      BY <1>1, <2>1, <2>5 DEF Boundaries
    <3>4. pos \in Titles
      BY <3>2, <3>3 DEF Titles, PlacesOf
    <3>5. pos \notin OfKind("move") \cup OfKind("line")
      BY <3>4 DEF ReadsAsPrinted
    <3>6. At(pos).is \in {"furniture", "saving"}
      BY <3>2, <3>5, RowIs, KindIs
    <3> QED
      BY <1>3, <3>2, <3>4, <3>6 DEF LaidOutToRedact
  <2>6. r.words \subseteq WordsOf(r)
    BY DEF WordsOf
  <2>7. Again!IsTxRow(c) <=> IsTxRow(r)
    BY <2>3 DEF Again!IsTxRow, IsTxRow
  <2> QED
    BY <2>1, <2>2, <2>4, <2>5, <2>6, <2>7
<1>6. Again!Boundaries(p) = Boundaries(p)
  BY <1>1, <1>3, <1>5 DEF Again!Boundaries, Boundaries
<1>7. Again!HitsSectionEnd(p) = HitsSectionEnd(p) /\ Again!LastRow(p) = LastRow(p)
  BY <1>1, <1>3, <1>6 DEF Again!HitsSectionEnd, HitsSectionEnd, Again!LastRow, LastRow, Again!First, First
<1>8. \A k : k \in f..LastRow(p) => k \in f..n
  <2>1. FirstRow(p)..LastRow(p) \subseteq DOMAIN pages[p] /\ LastRow(p) \in Int
    BY SectionIs
  <2> QED
    BY <1>1, <1>3, <2>1
<1>9. Again!TxRows(p) = TxRows(p)
  BY <1>1, <1>3, <1>5, <1>7, <1>8 DEF Again!TxRows, TxRows
<1> QED
  BY <1>7, <1>9

(* A movement and its lines lose the narration and keep the amounts.       *)
LEMMA CopyMoves ==
    ASSUME IInv, LaidOut, LaidOutToRedact, pc = "result", ReadsAsPrinted,
           NEW pos \in Positions, IsPlace(pos), At(pos).is \in {"move", "line"}
    PROVE  /\ copy[pos[1]][pos[2]].debit = At(pos).debit
           /\ copy[pos[1]][pos[2]].credit = At(pos).credit
           /\ Reached(pos) => copy[pos[1]][pos[2]].narr = {}
<1>0. InputOK /\ format \in {"pdf", "xlsx"}
  BY DEF IInv, InputOK, LoopsOK
<1>1. pos \in PlacesOf /\ pos[1] \in DOMAIN pages /\ pos[2] \in DOMAIN pages[pos[1]]
      /\ (pos \in OfKind("move") \/ pos \in OfKind("line"))
  BY DEF PlacesOf, IsPlace, OfKind
<1>2. PICK r \in Rows : r = At(pos) /\ r = pages[pos[1]][pos[2]]
  BY <1>0, <1>1, RowIs DEF At
<1>3. CASE format = "pdf"
  <2>1. pos[2] >= FirstRow(pos[1]) /\ Anchors(1) # {}
    BY <1>1, <1>3 DEF LaidOut, LaidOutPdf, ReadsAsPrinted
  <2>2. copy[pos[1]][pos[2]] = [r EXCEPT !.narr = {}]
    BY <1>0, <1>1, <1>2, <1>3, <2>1, CopyRow
  <2> QED
    BY <1>2, <2>2 DEF Rows
<1>4. CASE format = "xlsx"
  <2>1. pos[2] > HeaderRows /\ pos[1] = 1
    BY <1>0, <1>1, <1>4 DEF LaidOut, LaidOutSheet, LaidOutToRedact, InputOK
  <2>2. PICK s : s = pages[1]
    OBVIOUS
  <2>3. s \in Seq(Rows) /\ pos[2] \in DOMAIN s /\ pos[2] \in Nat /\ pos[2] >= 8 /\ r = s[pos[2]]
    BY <1>0, <1>1, <1>2, <2>1, <2>2, PagesType DEF InputOK, HeaderRows
  <2>4. copy[1][pos[2]] = IF \A m \in 8..pos[2] : s[m].date # "none" THEN [r EXCEPT !.narr = {}] ELSE r
    BY <1>4, <2>2, <2>3 DEF copy, Edit!OpaySheet, Edit!Blanked
  <2>5. Reached(pos) => \A m \in 8..pos[2] : s[m].date # "none"
    BY <1>4, <2>2 DEF Reached, HeaderRows, At
  <2> QED
    BY <1>2, <2>1, <2>4, <2>5 DEF Rows
<1> QED
  BY <1>0, <1>3, <1>4

(* Of a statement laid out as the bank does, of any number of pages and    *)
(* rows, the redacted copy holds the movements where the parser looks for  *)
(* them, with their amounts, and none of their narrations.                 *)
THEOREM CopyReadsAlike == Spec /\ LaidOut /\ LaidOutToRedact => []RedactedAlike
<1>1. LaidOutToRedact /\ [Next]_vars => LaidOutToRedact'
  <2> SUFFICES ASSUME LaidOutToRedact, [Next]_vars PROVE LaidOutToRedact'
    OBVIOUS
  <2>1. format' = format /\ pages' = pages
    BY InputStays DEF input
  <2>2. \A p : FirstRow(p)' = FirstRow(p) /\ Boundaries(p)' = Boundaries(p) /\ Anchors(p)' = Anchors(p)
    BY <2>1 DEF FirstRow, Boundaries, Anchors
  <2>3. Positions' = Positions /\ \A pos : At(pos)' = At(pos) /\ (IsPlace(pos)' <=> IsPlace(pos))
    BY <2>1 DEF Positions, At, IsPlace
  <2>4. Titles' = Titles /\ \A kind : OfKind(kind)' = OfKind(kind)
    BY <2>2, <2>3 DEF Titles, OfKind
  <2> QED
    BY <2>1, <2>2, <2>3, <2>4 DEF LaidOutToRedact
<1>2. IInv /\ LaidOut /\ LaidOutToRedact => RedactedAlike
  <2> SUFFICES ASSUME IInv, LaidOut, LaidOutToRedact, pc = "result", ReadsAsPrinted
               PROVE  RedactedAlike
    BY DEF RedactedAlike
  <2>1. ASSUME format = "pdf", NEW p \in DOMAIN pages
        PROVE  Again!TxRows(p) = TxRows(p) /\ Again!HitsSectionEnd(p) = HitsSectionEnd(p)
    BY <2>1, CopySection DEF IInv
  <2> QED
    BY <2>1, CopyMoves DEF RedactedAlike
<1> QED
  BY <1>1, <1>2, LayoutStays, Invariance, PTL DEF Spec
=============================================================================
