--------------------------- MODULE WalkRowsProofs ---------------------------
(***************************************************************************)
(* Proofs about WalkRows, and about Statement, for every statement: any    *)
(* number of pages, any rows on them, and any words in the rows.           *)
(*                                                                         *)
(* A step leaves the bank and the pages alone and moves the loop; so the   *)
(* facts about rows and positions are stated for a bank, a statement and a *)
(* place of the loop, and used for the places before and after a step.     *)
(***************************************************************************)
EXTENDS Statement, FiniteSetTheorems, SequenceTheorems, TLAPS

PositionsOf(ps) == {<<p, r>> : p \in DOMAIN ps, r \in UNION {DOMAIN ps[q] : q \in DOMAIN ps}}
RowAt(ps, pos) == ps[pos[1]][pos[2]]

ChromeOf(b, r) == \/ b = "fbn" /\ FbnChrome(r)
                  \/ b = "zenith" /\ ZenithChrome(r)
TxOf(b, r) == IF b = "palmpay" THEN RowKind(r) = "tx"
              ELSE ~ChromeOf(b, r) /\ HasDateAndBalance(r)
ContinuesOf(b, r) == /\ IF b = "palmpay" THEN RowKind(r) = "continuation"
                        ELSE ~ChromeOf(b, r) /\ ~TxOf(b, r)
                     /\ r.narr # {}
EndsOf(b, r) == ChromeOf(b, r) \/ TxOf(b, r)

PassedAt(ps, here, pos) ==
    /\ pos \in PositionsOf(ps) /\ pos[2] \in DOMAIN ps[pos[1]] /\ Before(pos, here)

OwnsAt(b, ps, here, h, pos) ==
    /\ Before(h, pos) /\ ContinuesOf(b, RowAt(ps, pos))
    /\ \A q \in PositionsOf(ps) :
         PassedAt(ps, here, q) /\ Before(h, q) /\ Before(q, pos) =>
            ~ChromeOf(b, RowAt(ps, q)) /\ ~TxOf(b, RowAt(ps, q))

CollectedAt(b, ps, here, h, t) ==
    /\ {t[n] : n \in DOMAIN t} =
         {pos \in PositionsOf(ps) : PassedAt(ps, here, pos) /\ OwnsAt(b, ps, here, h, pos)}
    /\ \A m, n \in DOMAIN t : m < n => Before(t[m], t[n])

-----------------------------------------------------------------------------
(* A position is a page of the statement and a number.                     *)
LEMMA PositionPairs ==
    ASSUME NEW ps \in Seq(Seq(Rows)), NEW pos \in PositionsOf(ps)
    PROVE  /\ pos[1] \in DOMAIN ps /\ pos[1] \in Nat \ {0} /\ pos[2] \in Nat \ {0}
           /\ pos = <<pos[1], pos[2]>> /\ pos # Nobody
<1>1. PICK p \in DOMAIN ps, r \in UNION {DOMAIN ps[q] : q \in DOMAIN ps} : pos = <<p, r>>
  BY DEF PositionsOf
<1>2. PICK q \in DOMAIN ps : r \in DOMAIN ps[q]
  BY <1>1
<1>3. p \in Nat \ {0}
  OBVIOUS
<1>4. ps[q] \in Seq(Rows)
  OBVIOUS
<1>5. r \in Nat \ {0}
  BY <1>2, <1>4
<1> QED
  BY <1>1, <1>3, <1>5 DEF Nobody

(* Reading order is a strict order.                                        *)
LEMMA ReadingOrder ==
    ASSUME NEW ps \in Seq(Seq(Rows)),
           NEW x \in PositionsOf(ps), NEW y \in PositionsOf(ps), NEW z \in PositionsOf(ps)
    PROVE  /\ ~Before(x, x)
           /\ Before(x, y) => ~Before(y, x)
           /\ Before(x, y) /\ Before(y, z) => Before(x, z)
<1>1. /\ x[1] \in Nat /\ x[2] \in Nat /\ y[1] \in Nat /\ y[2] \in Nat
      /\ z[1] \in Nat /\ z[2] \in Nat
  BY PositionPairs
<1> QED
  BY <1>1 DEF Before

(* The place of the loop is a position while there is a row to read.       *)
LEMMA HereIsPosition ==
    ASSUME NEW ps \in Seq(Seq(Rows)), NEW p \in DOMAIN ps, NEW r \in DOMAIN ps[p]
    PROVE  <<p, r>> \in PositionsOf(ps)
BY DEF PositionsOf

(* One row on, that row is behind the loop and no other.                   *)
LEMMA RowPassed ==
    ASSUME NEW ps \in Seq(Seq(Rows)), NEW p \in DOMAIN ps, NEW r \in DOMAIN ps[p], NEW pos
    PROVE  PassedAt(ps, <<p, r + 1>>, pos) <=> PassedAt(ps, <<p, r>>, pos) \/ pos = <<p, r>>
<1>1. p \in Nat /\ r \in Nat /\ <<p, r>> \in PositionsOf(ps)
  <2>1. ps[p] \in Seq(Rows)
    OBVIOUS
  <2> QED
    BY <2>1, HereIsPosition
<1>2. CASE pos \in PositionsOf(ps)
  <2>1. pos[1] \in Nat /\ pos[2] \in Nat /\ pos = <<pos[1], pos[2]>>
    BY <1>2, PositionPairs
  <2>2. Before(pos, <<p, r + 1>>) <=> Before(pos, <<p, r>>) \/ pos = <<p, r>>
    BY <1>1, <2>1 DEF Before
  <2> QED
    BY <1>1, <1>2, <2>2 DEF PassedAt
<1>3. CASE pos \notin PositionsOf(ps)
  BY <1>1, <1>3 DEF PassedAt
<1> QED
  BY <1>2, <1>3

(* One page on, nothing more is behind the loop than all of that page.     *)
LEMMA PagePassed ==
    ASSUME NEW ps \in Seq(Seq(Rows)), NEW p \in DOMAIN ps, NEW r \in Nat, r > Len(ps[p]), NEW pos
    PROVE  PassedAt(ps, <<p + 1, 1>>, pos) <=> PassedAt(ps, <<p, r>>, pos)
<1>1. p \in Nat /\ ps[p] \in Seq(Rows) /\ Len(ps[p]) \in Nat
  OBVIOUS
<1>2. CASE pos \in PositionsOf(ps) /\ pos[2] \in DOMAIN ps[pos[1]]
  <2>1. pos[1] \in Nat /\ pos[2] \in Nat \ {0} /\ pos[1] \in DOMAIN ps
    BY <1>2, PositionPairs
  <2>2. pos[1] = p => pos[2] <= Len(ps[p])
    BY <1>1, <1>2
  <2>3. Before(pos, <<p + 1, 1>>) <=> Before(pos, <<p, r>>)
    BY <1>1, <2>1, <2>2 DEF Before
  <2> QED
    BY <1>2, <2>3 DEF PassedAt
<1>3. CASE ~(pos \in PositionsOf(ps) /\ pos[2] \in DOMAIN ps[pos[1]])
  BY <1>3 DEF PassedAt
<1> QED
  BY <1>2, <1>3

(* At the first row nothing is behind the loop.                            *)
LEMMA NonePassed ==
    ASSUME NEW ps \in Seq(Seq(Rows)), NEW pos
    PROVE  ~PassedAt(ps, <<1, 1>>, pos)
<1> SUFFICES ASSUME PassedAt(ps, <<1, 1>>, pos) PROVE FALSE
  OBVIOUS
<1>1. pos[1] \in Nat \ {0} /\ pos[2] \in Nat \ {0}
  BY PositionPairs DEF PassedAt
<1> QED
  BY <1>1 DEF PassedAt, Before

-----------------------------------------------------------------------------
(* What a row further on adds to the lines of a transaction: nothing if it *)
(* is not one of its own, itself at the end if it is.                      *)
LEMMA OwnedFurther ==
    ASSUME NEW b, NEW ps \in Seq(Seq(Rows)), NEW here \in PositionsOf(ps), NEW next, NEW h,
           NEW pos, PassedAt(ps, here, pos),
           \A q : PassedAt(ps, next, q) <=> PassedAt(ps, here, q) \/ q = here
    PROVE  OwnsAt(b, ps, next, h, pos) <=> OwnsAt(b, ps, here, h, pos)
<1>1. pos \in PositionsOf(ps) /\ ~Before(here, pos)
  BY ReadingOrder DEF PassedAt
<1> QED
  BY <1>1 DEF OwnsAt

LEMMA CollectedKept ==
    ASSUME NEW b, NEW ps \in Seq(Seq(Rows)), NEW here \in PositionsOf(ps), NEW next,
           NEW h, NEW t, CollectedAt(b, ps, here, h, t), ~OwnsAt(b, ps, next, h, here),
           \A q : PassedAt(ps, next, q) <=> PassedAt(ps, here, q) \/ q = here
    PROVE  CollectedAt(b, ps, next, h, t)
<1>1. \A pos \in PositionsOf(ps) :
        PassedAt(ps, next, pos) /\ OwnsAt(b, ps, next, h, pos)
          <=> PassedAt(ps, here, pos) /\ OwnsAt(b, ps, here, h, pos)
  BY OwnedFurther
<1>2. {pos \in PositionsOf(ps) : PassedAt(ps, next, pos) /\ OwnsAt(b, ps, next, h, pos)}
        = {pos \in PositionsOf(ps) : PassedAt(ps, here, pos) /\ OwnsAt(b, ps, here, h, pos)}
  BY <1>1
<1> QED
  BY <1>2 DEF CollectedAt

LEMMA CollectedMore ==
    ASSUME NEW b, NEW ps \in Seq(Seq(Rows)), NEW here \in PositionsOf(ps), NEW next,
           NEW h, NEW t \in Seq(PositionsOf(ps)), CollectedAt(b, ps, here, h, t),
           OwnsAt(b, ps, next, h, here),
           \A q : PassedAt(ps, next, q) <=> PassedAt(ps, here, q) \/ q = here
    PROVE  CollectedAt(b, ps, next, h, Append(t, here))
<1> DEFINE u == Append(t, here)
           Old == {pos \in PositionsOf(ps) : PassedAt(ps, here, pos) /\ OwnsAt(b, ps, here, h, pos)}
           New == {pos \in PositionsOf(ps) : PassedAt(ps, next, pos) /\ OwnsAt(b, ps, next, h, pos)}
<1>1. /\ u \in Seq(PositionsOf(ps)) /\ DOMAIN u = 1..(Len(t) + 1) /\ DOMAIN t = 1..Len(t)
      /\ Len(t) \in Nat /\ u[Len(t) + 1] = here /\ \A n \in 1..Len(t) : u[n] = t[n]
  OBVIOUS
<1> HIDE DEF u
<1>2. New = Old \cup {here}
  <2>1. \A pos \in PositionsOf(ps) :
          PassedAt(ps, next, pos) /\ OwnsAt(b, ps, next, h, pos)
            <=> (PassedAt(ps, here, pos) /\ OwnsAt(b, ps, here, h, pos)) \/ pos = here
    BY OwnedFurther
  <2> QED
    BY <2>1
<1>3. {t[n] : n \in DOMAIN t} = Old
  BY DEF CollectedAt
<1>4. {u[n] : n \in DOMAIN u} = New
  <2>1. DOMAIN u = DOMAIN t \cup {Len(t) + 1}
    BY <1>1
  <2>2. {u[n] : n \in DOMAIN u} = {u[n] : n \in DOMAIN t} \cup {u[Len(t) + 1]}
    BY <2>1
  <2>3. {u[n] : n \in DOMAIN t} = {t[n] : n \in DOMAIN t}
    BY <1>1
  <2> QED
    BY <1>1, <1>2, <1>3, <2>2, <2>3
<1>5. \A m, n \in DOMAIN u : m < n => Before(u[m], u[n])
  <2> SUFFICES ASSUME NEW m \in DOMAIN u, NEW n \in DOMAIN u, m < n PROVE Before(u[m], u[n])
    OBVIOUS
  <2>1. m \in DOMAIN t /\ u[m] = t[m]
    BY <1>1
  <2>2. CASE n \in DOMAIN t
    BY <1>1, <2>1, <2>2 DEF CollectedAt
  <2>3. CASE n = Len(t) + 1
    <3>1. t[m] \in Old
      BY <1>3, <2>1
    <3> QED
      BY <1>1, <2>1, <2>3, <3>1 DEF PassedAt
  <2> QED
    BY <1>1, <2>2, <2>3
<1> HIDE DEF New, Old
<1>6. {u[n] : n \in DOMAIN u} = {pos \in PositionsOf(ps) : PassedAt(ps, next, pos) /\ OwnsAt(b, ps, next, h, pos)}
  BY <1>4 DEF New
<1>7. CollectedAt(b, ps, next, h, u)
  BY <1>5, <1>6 DEF CollectedAt
<1> QED
  BY <1>7 DEF u

(* No row behind the loop comes after the one it has just read.            *)
LEMMA CollectedNone ==
    ASSUME NEW b, NEW ps \in Seq(Seq(Rows)), NEW here \in PositionsOf(ps), NEW next,
           \A q : PassedAt(ps, next, q) <=> PassedAt(ps, here, q) \/ q = here
    PROVE  CollectedAt(b, ps, next, here, <<>>)
<1>1. \A pos \in PositionsOf(ps) : ~(PassedAt(ps, next, pos) /\ OwnsAt(b, ps, next, here, pos))
  BY ReadingOrder DEF PassedAt, OwnsAt
<1>2. DOMAIN <<>> = {}
  OBVIOUS
<1> QED
  BY <1>1, <1>2 DEF CollectedAt

(* The same rows behind the loop, the same lines.                          *)
LEMMA CollectedSame ==
    ASSUME NEW b, NEW ps, NEW here, NEW next, NEW h, NEW t,
           CollectedAt(b, ps, here, h, t),
           \A q : PassedAt(ps, next, q) <=> PassedAt(ps, here, q)
    PROVE  CollectedAt(b, ps, next, h, t)
<1>1. \A pos \in PositionsOf(ps) :
        PassedAt(ps, next, pos) /\ OwnsAt(b, ps, next, h, pos)
          <=> PassedAt(ps, here, pos) /\ OwnsAt(b, ps, here, h, pos)
  BY DEF OwnsAt
<1>2. {pos \in PositionsOf(ps) : PassedAt(ps, next, pos) /\ OwnsAt(b, ps, next, h, pos)}
        = {pos \in PositionsOf(ps) : PassedAt(ps, here, pos) /\ OwnsAt(b, ps, here, h, pos)}
  BY <1>1
<1> QED
  BY <1>2 DEF CollectedAt

-----------------------------------------------------------------------------
(* The invariants of WalkRows for a bank, a statement and a place of the   *)
(* loop: RowsKept is EachRowOnce, LastKept is PendingLast and TailsKept is *)
(* TailsSoFar, when they are given the values of the state.                *)
Drafts(ps) == [head : PositionsOf(ps), tail : Seq(PositionsOf(ps))]
HeadsOf(trs) == {trs[k].head : k \in DOMAIN trs}
OpenOne(pend) == IF pend = Nobody THEN {} ELSE {pend}
Draft(h, t) == [head |-> h, tail |-> t]
Flushed(pend, tl, trs) == IF pend = Nobody THEN trs ELSE Append(trs, Draft(pend, tl))

Found(b, ps, here) ==
    {pos \in PositionsOf(ps) : PassedAt(ps, here, pos) /\ TxOf(b, RowAt(ps, pos)) /\ Opens(RowAt(ps, pos))}

InOrder(trs) == \A j, k \in DOMAIN trs : j < k => Before(trs[j].head, trs[k].head)
AllBefore(trs, pend) == pend # Nobody => \A k \in DOMAIN trs : Before(trs[k].head, pend)
OpenTail(b, ps, here, pend, tl) ==
    pend # Nobody =>
      /\ CollectedAt(b, ps, here, pend, tl)
      /\ \A q \in PositionsOf(ps) : PassedAt(ps, here, q) /\ Before(pend, q) => ~EndsOf(b, RowAt(ps, q))
BuiltTails(b, ps, here, trs) ==
    \A k \in DOMAIN trs : CollectedAt(b, ps, here, trs[k].head, trs[k].tail)
Closed(b, ps, here, trs) ==
    \A k \in DOMAIN trs :
      \E q \in PositionsOf(ps) : PassedAt(ps, here, q) /\ Before(trs[k].head, q) /\ EndsOf(b, RowAt(ps, q))

(* What flush() leaves: the pending transaction after the others.          *)
LEMMA FlushParts ==
    ASSUME NEW ps, NEW trs \in Seq(Drafts(ps)), NEW pend \in PositionsOf(ps), pend # Nobody,
           NEW tl \in Seq(PositionsOf(ps))
    PROVE  /\ Flushed(pend, tl, trs) \in Seq(Drafts(ps))
           /\ Len(trs) \in Nat /\ DOMAIN trs = 1..Len(trs)
           /\ DOMAIN Flushed(pend, tl, trs) = DOMAIN trs \cup {Len(trs) + 1}
           /\ \A k \in DOMAIN trs : Flushed(pend, tl, trs)[k] = trs[k] /\ k < Len(trs) + 1
<1> DEFINE d == Draft(pend, tl)
           f == Append(trs, d)
<1>1. d \in Drafts(ps)
  BY DEF Draft, Drafts
<1>2. Flushed(pend, tl, trs) = f
  BY DEF Flushed
<1> HIDE DEF d
<1>3. /\ f \in Seq(Drafts(ps)) /\ Len(trs) \in Nat /\ DOMAIN trs = 1..Len(trs)
      /\ DOMAIN f = 1..(Len(trs) + 1) /\ \A k \in 1..Len(trs) : f[k] = trs[k]
  BY <1>1
<1> HIDE DEF f
<1>4. DOMAIN f = DOMAIN trs \cup {Len(trs) + 1} /\ \A k \in 1..Len(trs) : k < Len(trs) + 1
  BY <1>3
<1> QED
  BY <1>2, <1>3, <1>4, Zenon

LEMMA FlushFields ==
    ASSUME NEW ps, NEW trs \in Seq(Drafts(ps)), NEW pend \in PositionsOf(ps), pend # Nobody,
           NEW tl \in Seq(PositionsOf(ps))
    PROVE  /\ Flushed(pend, tl, trs)[Len(trs) + 1].head = pend
           /\ Flushed(pend, tl, trs)[Len(trs) + 1].tail = tl
<1> DEFINE d == Draft(pend, tl)
<1>1. d \in Drafts(ps) /\ d.head = pend /\ d.tail = tl
  BY DEF Draft, Drafts
<1>2. Flushed(pend, tl, trs) = Append(trs, d)
  BY DEF Flushed
<1> HIDE DEF d
<1>3. Append(trs, d)[Len(trs) + 1] = d
  BY <1>1
<1> QED
  BY <1>1, <1>2, <1>3

LEMMA FlushTyped ==
    ASSUME NEW ps, NEW trs \in Seq(Drafts(ps)), NEW pend \in PositionsOf(ps) \cup {Nobody},
           NEW tl \in Seq(PositionsOf(ps))
    PROVE  Flushed(pend, tl, trs) \in Seq(Drafts(ps))
<1>1. CASE pend = Nobody
  BY <1>1 DEF Flushed
<1>2. CASE pend # Nobody
  BY <1>2, FlushParts
<1> QED
  BY <1>1, <1>2

LEMMA FlushedHeads ==
    ASSUME NEW ps, NEW trs \in Seq(Drafts(ps)), NEW pend \in PositionsOf(ps) \cup {Nobody},
           NEW tl \in Seq(PositionsOf(ps))
    PROVE  HeadsOf(Flushed(pend, tl, trs)) = HeadsOf(trs) \cup OpenOne(pend)
<1>1. CASE pend = Nobody
  <2>1. Flushed(pend, tl, trs) = trs /\ OpenOne(pend) = {}
    BY <1>1 DEF Flushed, OpenOne
  <2> QED
    BY <2>1
<1>2. CASE pend # Nobody
  <2> SUFFICES ASSUME NEW f, f = Flushed(pend, tl, trs)
               PROVE  HeadsOf(f) = HeadsOf(trs) \cup {pend}
    BY <1>2 DEF OpenOne
  <2>0. pend \in PositionsOf(ps) /\ f = Flushed(pend, tl, trs)
    BY <1>2
  <2>1. /\ DOMAIN f = DOMAIN trs \cup {Len(trs) + 1} /\ \A k \in DOMAIN trs : f[k] = trs[k]
    <3>1. /\ Flushed(pend, tl, trs) \in Seq(Drafts(ps))
          /\ Len(trs) \in Nat /\ DOMAIN trs = 1..Len(trs)
          /\ DOMAIN Flushed(pend, tl, trs) = DOMAIN trs \cup {Len(trs) + 1}
          /\ \A k \in DOMAIN trs : Flushed(pend, tl, trs)[k] = trs[k] /\ k < Len(trs) + 1
      BY <1>2, <2>0, FlushParts, Zenon
    <3> QED
      BY <2>0, <3>1
  <2>2. f[Len(trs) + 1].head = pend
    <3>1. /\ Flushed(pend, tl, trs)[Len(trs) + 1].head = pend
          /\ Flushed(pend, tl, trs)[Len(trs) + 1].tail = tl
      BY <1>2, <2>0, FlushFields, Zenon
    <3> QED
      BY <2>0, <3>1
  <2>3. {f[k].head : k \in DOMAIN f} = {f[k].head : k \in DOMAIN trs} \cup {f[Len(trs) + 1].head}
    BY <2>1
  <2>4. {f[k].head : k \in DOMAIN trs} = {trs[k].head : k \in DOMAIN trs}
    BY <2>1
  <2> QED
    BY <2>2, <2>3, <2>4 DEF HeadsOf
<1> QED
  BY <1>1, <1>2

(* The built ones stay in order, and each keeps the lines it has.          *)
LEMMA FlushedOrder ==
    ASSUME NEW b, NEW ps, NEW here, NEW trs \in Seq(Drafts(ps)),
           NEW pend \in PositionsOf(ps) \cup {Nobody}, NEW tl \in Seq(PositionsOf(ps)),
           InOrder(trs), AllBefore(trs, pend),
           OpenTail(b, ps, here, pend, tl), BuiltTails(b, ps, here, trs)
    PROVE  /\ InOrder(Flushed(pend, tl, trs))
           /\ BuiltTails(b, ps, here, Flushed(pend, tl, trs))
<1> SUFFICES ASSUME NEW f, f = Flushed(pend, tl, trs)
             PROVE  InOrder(f) /\ BuiltTails(b, ps, here, f)
  OBVIOUS
<1>1. CASE pend = Nobody
  <2>1. Flushed(pend, tl, trs) = trs
    BY <1>1 DEF Flushed
  <2> QED
    BY <2>1
<1>2. CASE pend # Nobody
  <2>0. pend \in PositionsOf(ps) /\ f = Flushed(pend, tl, trs)
    BY <1>2
  <2>1. /\ DOMAIN f = DOMAIN trs \cup {Len(trs) + 1} /\ Len(trs) \in Nat /\ DOMAIN trs = 1..Len(trs)
        /\ \A k \in DOMAIN trs : f[k] = trs[k]
    <3>1. /\ Flushed(pend, tl, trs) \in Seq(Drafts(ps))
          /\ Len(trs) \in Nat /\ DOMAIN trs = 1..Len(trs)
          /\ DOMAIN Flushed(pend, tl, trs) = DOMAIN trs \cup {Len(trs) + 1}
          /\ \A k \in DOMAIN trs : Flushed(pend, tl, trs)[k] = trs[k] /\ k < Len(trs) + 1
      BY <1>2, <2>0, FlushParts, Zenon
    <3> QED
      BY <2>0, <3>1
  <2>4. f[Len(trs) + 1].head = pend /\ f[Len(trs) + 1].tail = tl
    <3>1. /\ Flushed(pend, tl, trs)[Len(trs) + 1].head = pend
          /\ Flushed(pend, tl, trs)[Len(trs) + 1].tail = tl
      BY <1>2, <2>0, FlushFields, Zenon
    <3> QED
      BY <2>0, <3>1
  <2>2. InOrder(f)
    <3> SUFFICES ASSUME NEW j \in DOMAIN f, NEW k \in DOMAIN f, j < k
                 PROVE  Before(f[j].head, f[k].head)
      BY DEF InOrder
    <3>2. j \in DOMAIN trs
      BY <2>1
    <3>3. CASE k \in DOMAIN trs
      BY <2>1, <3>2, <3>3 DEF InOrder
    <3>4. CASE k = Len(trs) + 1
      BY <1>2, <2>1, <2>4, <3>2, <3>4 DEF AllBefore
    <3> QED
      BY <2>1, <3>3, <3>4
  <2>3. BuiltTails(b, ps, here, f)
    <3> SUFFICES ASSUME NEW k \in DOMAIN f
                 PROVE  CollectedAt(b, ps, here, f[k].head, f[k].tail)
      BY DEF BuiltTails
    <3>1. CASE k \in DOMAIN trs
      BY <2>1, <3>1 DEF BuiltTails
    <3>2. CASE k = Len(trs) + 1
      BY <1>2, <2>4, <3>2 DEF OpenTail
    <3> QED
      BY <2>1, <3>1, <3>2
  <2> QED
    BY <2>2, <2>3
<1> QED
  BY <1>1, <1>2

-----------------------------------------------------------------------------
(* What the loop finds of the row it stands on.                            *)
LEMMA FoundNext ==
    ASSUME NEW b, NEW ps \in Seq(Seq(Rows)), NEW here \in PositionsOf(ps), NEW next,
           \A q : PassedAt(ps, next, q) <=> PassedAt(ps, here, q) \/ q = here,
           TxOf(b, RowAt(ps, here)), Opens(RowAt(ps, here))
    PROVE  Found(b, ps, next) = Found(b, ps, here) \cup {here}
BY DEF Found

LEMMA FoundNoMore ==
    ASSUME NEW b, NEW ps \in Seq(Seq(Rows)), NEW here \in PositionsOf(ps), NEW next,
           \A q : PassedAt(ps, next, q) <=> PassedAt(ps, here, q) \/ q = here,
           ~(TxOf(b, RowAt(ps, here)) /\ Opens(RowAt(ps, here)))
    PROVE  Found(b, ps, next) = Found(b, ps, here)
BY DEF Found

LEMMA FoundSame ==
    ASSUME NEW b, NEW ps, NEW here, NEW next,
           \A q : PassedAt(ps, next, q) <=> PassedAt(ps, here, q)
    PROVE  Found(b, ps, next) = Found(b, ps, here)
BY DEF Found

LEMMA FoundPassed ==
    ASSUME NEW b, NEW ps, NEW here, NEW trs, NEW pend,
           Found(b, ps, here) = HeadsOf(trs) \cup OpenOne(pend)
    PROVE  /\ \A k \in DOMAIN trs : PassedAt(ps, here, trs[k].head)
           /\ pend # Nobody => PassedAt(ps, here, pend)
<1>1. \A pos \in HeadsOf(trs) \cup OpenOne(pend) : PassedAt(ps, here, pos)
  BY DEF Found
<1>2. \A k \in DOMAIN trs : trs[k].head \in HeadsOf(trs)
  BY DEF HeadsOf
<1>3. pend # Nobody => pend \in OpenOne(pend)
  BY DEF OpenOne
<1> QED
  BY <1>1, <1>2, <1>3

(* A row that ends a narration is no line of one, and furniture is no      *)
(* transaction row.                                                        *)
LEMMA EndsNoLine ==
    ASSUME NEW b, NEW r
    PROVE  /\ EndsOf(b, r) => ~ContinuesOf(b, r)
           /\ ChromeOf(b, r) => ~TxOf(b, r)
BY DEF EndsOf, ContinuesOf, ChromeOf, TxOf, RowKind

(* Furniture or a transaction row behind them closes the built ones.       *)
LEMMA EnderRow ==
    ASSUME NEW b, NEW ps \in Seq(Seq(Rows)), NEW here \in PositionsOf(ps), NEW next,
           \A q : PassedAt(ps, next, q) <=> PassedAt(ps, here, q) \/ q = here,
           EndsOf(b, RowAt(ps, here)), NEW trs, BuiltTails(b, ps, here, trs),
           \A k \in DOMAIN trs : PassedAt(ps, here, trs[k].head)
    PROVE  BuiltTails(b, ps, next, trs) /\ Closed(b, ps, next, trs)
<1>1. \A h : ~OwnsAt(b, ps, next, h, here)
  BY EndsNoLine DEF OwnsAt
<1>2. BuiltTails(b, ps, next, trs)
  BY <1>1, CollectedKept DEF BuiltTails
<1>3. \A k \in DOMAIN trs : PassedAt(ps, next, here) /\ Before(trs[k].head, here)
  BY DEF PassedAt
<1>4. Closed(b, ps, next, trs)
  BY <1>3 DEF Closed
<1> QED
  BY <1>2, <1>4

(* Any other row adds nothing to them, for one that ends stands between.   *)
LEMMA LineRow ==
    ASSUME NEW b, NEW ps \in Seq(Seq(Rows)), NEW here \in PositionsOf(ps), NEW next,
           \A q : PassedAt(ps, next, q) <=> PassedAt(ps, here, q) \/ q = here,
           NEW trs, BuiltTails(b, ps, here, trs), Closed(b, ps, here, trs)
    PROVE  BuiltTails(b, ps, next, trs) /\ Closed(b, ps, next, trs)
<1>1. ASSUME NEW k \in DOMAIN trs
      PROVE  ~OwnsAt(b, ps, next, trs[k].head, here)
  <2>1. PICK q \in PositionsOf(ps) :
          PassedAt(ps, here, q) /\ Before(trs[k].head, q) /\ EndsOf(b, RowAt(ps, q))
    BY DEF Closed
  <2>2. PassedAt(ps, next, q) /\ Before(q, here)
    BY <2>1 DEF PassedAt
  <2> QED
    BY <2>1, <2>2 DEF OwnsAt, EndsOf
<1>2. BuiltTails(b, ps, next, trs)
  BY <1>1, CollectedKept DEF BuiltTails
<1>3. Closed(b, ps, next, trs)
  BY DEF Closed
<1> QED
  BY <1>2, <1>3

(* The pending one takes it if it continues.                               *)
LEMMA OpenTakes ==
    ASSUME NEW b, NEW ps \in Seq(Seq(Rows)), NEW here \in PositionsOf(ps), NEW next,
           \A q : PassedAt(ps, next, q) <=> PassedAt(ps, here, q) \/ q = here,
           ~EndsOf(b, RowAt(ps, here)),
           NEW pend, pend # Nobody => PassedAt(ps, here, pend), NEW tl \in Seq(PositionsOf(ps)),
           OpenTail(b, ps, here, pend, tl)
    PROVE  OpenTail(b, ps, next, pend,
             IF pend # Nobody /\ ContinuesOf(b, RowAt(ps, here)) THEN Append(tl, here) ELSE tl)
<1> SUFFICES ASSUME pend # Nobody
             PROVE  OpenTail(b, ps, next, pend,
                      IF ContinuesOf(b, RowAt(ps, here)) THEN Append(tl, here) ELSE tl)
  BY DEF OpenTail
<1>1. \A q \in PositionsOf(ps) : PassedAt(ps, next, q) /\ Before(pend, q) => ~EndsOf(b, RowAt(ps, q))
  BY DEF OpenTail
<1>2. CASE ContinuesOf(b, RowAt(ps, here))
  <2>1. OwnsAt(b, ps, next, pend, here)
    BY <1>1, <1>2 DEF OwnsAt, EndsOf, PassedAt
  <2>2. CollectedAt(b, ps, next, pend, Append(tl, here))
    BY <2>1, CollectedMore DEF OpenTail
  <2> QED
    BY <1>1, <1>2, <2>2 DEF OpenTail
<1>3. CASE ~ContinuesOf(b, RowAt(ps, here))
  <2>1. ~OwnsAt(b, ps, next, pend, here)
    BY <1>3 DEF OwnsAt
  <2>2. CollectedAt(b, ps, next, pend, tl)
    BY <2>1, CollectedKept DEF OpenTail
  <2> QED
    BY <1>1, <1>3, <2>2 DEF OpenTail
<1> QED
  BY <1>2, <1>3

(* A new one starts with no line, and nothing after it.                    *)
LEMMA OpenStarts ==
    ASSUME NEW b, NEW ps \in Seq(Seq(Rows)), NEW here \in PositionsOf(ps), NEW next,
           \A q : PassedAt(ps, next, q) <=> PassedAt(ps, here, q) \/ q = here
    PROVE  OpenTail(b, ps, next, here, <<>>)
<1>1. CollectedAt(b, ps, next, here, <<>>)
  BY CollectedNone
<1>2. \A q \in PositionsOf(ps) : PassedAt(ps, next, q) => ~Before(here, q)
  BY ReadingOrder DEF PassedAt
<1> QED
  BY <1>1, <1>2 DEF OpenTail

-----------------------------------------------------------------------------
(* EachRowOnce, PendingLast and TailsSoFar in these terms.                 *)
RowsKept(b, ps, here, pend, trs, at) ==
    /\ InOrder(trs)
    /\ at # "start" => Found(b, ps, here) = HeadsOf(trs) \cup OpenOne(pend)
    /\ at = "result" => pend = Nobody /\ trs # <<>>

LastKept(here, pend, trs, at) ==
    /\ AllBefore(trs, pend)
    /\ at \notin {"walk", "bad_row"} => pend = Nobody
    /\ at = "start" => here = <<1, 1>> /\ trs = <<>>

TailsKept(b, ps, here, pend, tl, trs, at) ==
    /\ OpenTail(b, ps, here, pend, tl)
    /\ BuiltTails(b, ps, here, trs)
    /\ at = "walk" => Closed(b, ps, here, trs)

InputOK == bank \in {"fbn", "zenith", "palmpay"} /\ pages \in Seq(Seq(Rows)) /\ header \in BOOLEAN

LEMMA RowsMirror ==
    EachRowOnce <=> RowsKept(bank, pages, Here, pending, transactions, pc)
BY DEF EachRowOnce, RowsKept, InOrder, Found, HeadsOf, OpenOne, Heads, Positions, PositionsOf,
   Passed, PassedAt, IsTx, TxOf, IsChrome, ChromeOf, At, RowAt

LEMMA RowsMirrorNext ==
    EachRowOnce' <=> RowsKept(bank', pages', <<page', row'>>, pending', transactions', pc')
BY DEF EachRowOnce, RowsKept, InOrder, Found, HeadsOf, OpenOne, Heads, Positions, PositionsOf,
   Passed, PassedAt, IsTx, TxOf, IsChrome, ChromeOf, At, RowAt, Here

LEMMA TailsMirror ==
    TailsSoFar <=> TailsKept(bank, pages, Here, pending, tail, transactions, pc)
BY DEF TailsSoFar, TailsKept, OpenTail, BuiltTails, Closed, Collected, CollectedAt, Owns, OwnsAt,
   Ends, EndsOf, Positions, PositionsOf, Passed, PassedAt, Continues, ContinuesOf,
   IsTx, TxOf, IsChrome, ChromeOf, At, RowAt

LEMMA TailsMirrorNext ==
    TailsSoFar' <=> TailsKept(bank', pages', <<page', row'>>, pending', tail', transactions', pc')
BY DEF TailsSoFar, TailsKept, OpenTail, BuiltTails, Closed, Collected, CollectedAt, Owns, OwnsAt,
   Ends, EndsOf, Positions, PositionsOf, Passed, PassedAt, Continues, ContinuesOf,
   IsTx, TxOf, IsChrome, ChromeOf, At, RowAt, Here

LEMMA LastMirror ==
    ASSUME TypeOK
    PROVE  PendingLast <=> LastKept(Here, pending, transactions, pc)
BY DEF PendingLast, LastKept, AllBefore, Here

LEMMA LastMirrorNext ==
    PendingLast' <=> LastKept(<<page', row'>>, pending', transactions', pc')
BY DEF PendingLast, LastKept, AllBefore

-----------------------------------------------------------------------------
(* The inductive invariant.                                                *)
WInv == TypeOK /\ InputOK /\ EachRowOnce /\ PendingLast /\ TailsSoFar

(* WInv after a step, for a bank and a statement the step leaves alone.    *)
WInvAfter ==
    /\ UNCHANGED input /\ TypeOK'
    /\ RowsKept(bank, pages, <<page', row'>>, pending', transactions', pc')
    /\ LastKept(<<page', row'>>, pending', transactions', pc')
    /\ TailsKept(bank, pages, <<page', row'>>, pending', tail', transactions', pc')

LEMMA AfterIsInv ==
    ASSUME InputOK, WInvAfter
    PROVE  WInv'
<1>1. bank' = bank /\ pages' = pages /\ header' = header
  BY DEF WInvAfter, input
<1>2. EachRowOnce'
  BY <1>1, RowsMirrorNext DEF WInvAfter
<1>3. PendingLast'
  BY <1>1, LastMirrorNext DEF WInvAfter
<1>4. TailsSoFar'
  BY <1>1, TailsMirrorNext DEF WInvAfter
<1>5. InputOK'
  BY <1>1 DEF InputOK
<1> QED
  BY <1>2, <1>3, <1>4, <1>5 DEF WInv, WInvAfter

LEMMA InvParts ==
    ASSUME WInv
    PROVE  /\ pages \in Seq(Seq(Rows))
           /\ pending \in PositionsOf(pages) \cup {Nobody}
           /\ tail \in Seq(PositionsOf(pages))
           /\ transactions \in Seq(Drafts(pages))
           /\ pending = Nobody => tail = <<>>
           /\ RowsKept(bank, pages, <<page, row>>, pending, transactions, pc)
           /\ LastKept(<<page, row>>, pending, transactions, pc)
           /\ TailsKept(bank, pages, <<page, row>>, pending, tail, transactions, pc)
<1>1. Positions = PositionsOf(pages)
  BY DEF Positions, PositionsOf
<1>2. TypeOK /\ InputOK /\ EachRowOnce /\ PendingLast /\ TailsSoFar
  BY DEF WInv
<1>3. /\ pending \in PositionsOf(pages) \cup {Nobody} /\ tail \in Seq(PositionsOf(pages))
      /\ transactions \in Seq(Drafts(pages))
      /\ pending = Nobody => tail = <<>>
  BY <1>1, <1>2 DEF TypeOK, Drafts
<1>4. Here = <<page, row>>
  BY DEF Here
<1>5. RowsKept(bank, pages, <<page, row>>, pending, transactions, pc)
  BY <1>2, <1>4, RowsMirror, Zenon
<1>6. LastKept(<<page, row>>, pending, transactions, pc)
  BY <1>2, <1>4, LastMirror, Zenon
<1>7. TailsKept(bank, pages, <<page, row>>, pending, tail, transactions, pc)
  BY <1>2, <1>4, TailsMirror, Zenon
<1>8. pages \in Seq(Seq(Rows))
  BY <1>2 DEF InputOK
<1> QED
  BY <1>3, <1>5, <1>6, <1>7, <1>8, Zenon

(* TypeOK after a step that leaves the statement alone.                    *)
LEMMA TypesAfter ==
    ASSUME pages' = pages, page' \in 1..(Len(pages) + 1), row' \in Nat \ {0},
           pending' \in PositionsOf(pages) \cup {Nobody}, tail' \in Seq(PositionsOf(pages)),
           transactions' \in Seq(Drafts(pages)), walked' = page' - 1,
           pending' = Nobody => tail' = <<>>,
           pc' \in {"start", "walk", "built", "empty_pdf", "drift", "no_transactions", "bad_row", "result"}
    PROVE  TypeOK'
<1>1. Positions' = PositionsOf(pages)
  BY DEF Positions, PositionsOf
<1>2. transactions' \in Seq([head : Positions', tail : Seq(Positions')])
  BY <1>1 DEF Drafts
<1> QED
  BY <1>1, <1>2 DEF TypeOK

(* A row further on.                                                       *)
LEMMA RowFurther ==
    ASSUME WInv, InRow, Advance
    PROVE  /\ <<page, row>> \in PositionsOf(pages) /\ bank' = bank /\ pages' = pages /\ UNCHANGED input
           /\ page' = page /\ page' \in 1..(Len(pages) + 1) /\ row' \in Nat \ {0} /\ walked' = page' - 1
           /\ \A q : PassedAt(pages, <<page', row'>>, q)
                       <=> PassedAt(pages, <<page, row>>, q) \/ q = <<page, row>>
<1>1. /\ pages \in Seq(Seq(Rows)) /\ page \in 1..(Len(pages) + 1) /\ row \in Nat \ {0}
      /\ walked = page - 1 /\ page <= Len(pages) /\ row <= Len(pages[page])
  BY DEF WInv, TypeOK, InputOK, InRow
<1>2. page \in DOMAIN pages /\ row \in DOMAIN pages[page]
  <2>1. page \in DOMAIN pages
    BY <1>1
  <2>2. pages[page] \in Seq(Rows)
    BY <1>1, <2>1
  <2> QED
    BY <1>1, <2>1, <2>2
<1>3. page' = page /\ row' = row + 1 /\ walked' = walked /\ UNCHANGED input /\ bank' = bank /\ pages' = pages
  BY DEF Advance, input
<1>4. <<page, row>> \in PositionsOf(pages)
  BY <1>1, <1>2, HereIsPosition
<1>5. \A q : PassedAt(pages, <<page, row + 1>>, q)
               <=> PassedAt(pages, <<page, row>>, q) \/ q = <<page, row>>
  BY <1>1, <1>2, RowPassed
<1>6. <<page', row'>> = <<page, row + 1>>
  BY <1>3
<1>7. page' \in 1..(Len(pages) + 1) /\ row' \in Nat \ {0} /\ walked' = page' - 1
  BY <1>1, <1>3
<1>8. \A q : PassedAt(pages, <<page', row'>>, q)
               <=> PassedAt(pages, <<page, row>>, q) \/ q = <<page, row>>
  BY <1>5, <1>6, Zenon
<1> QED
  BY <1>3, <1>4, <1>7, <1>8, Zenon

-----------------------------------------------------------------------------
(* One lemma for each kind of step.                                        *)
LEMMA BeginKeeps ==
    ASSUME WInv, Begin
    PROVE  WInvAfter
<1>1. /\ pages \in Seq(Seq(Rows)) /\ pending = Nobody /\ tail = <<>> /\ transactions = <<>>
      /\ <<page, row>> = <<1, 1>> /\ TailsKept(bank, pages, <<page, row>>, pending, tail, transactions, pc)
      /\ RowsKept(bank, pages, <<page, row>>, pending, transactions, pc)
  BY InvParts DEF WInv, TypeOK, LastKept, Begin
<1>2. UNCHANGED <<bank, pages, header, page, row, pending, tail, transactions, walked>> /\ UNCHANGED input
  BY DEF Begin, input
<1>3. pc' \in {"empty_pdf", "drift", "walk"}
  BY DEF Begin
<1>4. TypeOK'
  <2>1. /\ page \in 1..(Len(pages) + 1) /\ row \in Nat \ {0} /\ pending \in PositionsOf(pages) \cup {Nobody}
        /\ tail \in Seq(PositionsOf(pages)) /\ transactions \in Seq(Drafts(pages)) /\ walked = page - 1
    BY InvParts DEF WInv, TypeOK
  <2> QED
    BY <1>1, <1>2, <1>3, <2>1, TypesAfter
<1>5. DOMAIN transactions = {}
  BY <1>1
<1>6. RowsKept(bank, pages, <<page, row>>, pending, transactions, pc')
  <2>1. Found(bank, pages, <<page, row>>) = {}
    BY <1>1, NonePassed DEF Found
  <2>2. HeadsOf(transactions) \cup OpenOne(pending) = {}
    BY <1>1, <1>5 DEF HeadsOf, OpenOne
  <2> QED
    BY <1>1, <1>3, <2>1, <2>2 DEF RowsKept
<1>7. LastKept(<<page, row>>, pending, transactions, pc')
  BY <1>1, <1>3 DEF LastKept, AllBefore
<1>8. TailsKept(bank, pages, <<page, row>>, pending, tail, transactions, pc')
  BY <1>1, <1>5 DEF TailsKept, Closed
<1> QED
  BY <1>2, <1>4, <1>6, <1>7, <1>8 DEF WInvAfter

(* What flush() makes of the state, at a row or after the last.            *)
LEMMA FlushKeeps ==
    ASSUME WInv, Flush, pc = "walk"
    PROVE  /\ transactions' = Flushed(pending, tail, transactions) /\ tail' = <<>>
           /\ transactions' \in Seq(Drafts(pages)) /\ InOrder(transactions')
           /\ BuiltTails(bank, pages, <<page, row>>, transactions')
           /\ Found(bank, pages, <<page, row>>) = HeadsOf(transactions')
           /\ \A k \in DOMAIN transactions' : PassedAt(pages, <<page, row>>, transactions'[k].head)
<1>1. /\ pending \in PositionsOf(pages) \cup {Nobody} /\ tail \in Seq(PositionsOf(pages))
      /\ transactions \in Seq(Drafts(pages))
      /\ pending = Nobody => tail = <<>>
  BY InvParts
<1>2. /\ InOrder(transactions) /\ AllBefore(transactions, pending)
      /\ OpenTail(bank, pages, <<page, row>>, pending, tail)
      /\ BuiltTails(bank, pages, <<page, row>>, transactions)
      /\ Found(bank, pages, <<page, row>>) = HeadsOf(transactions) \cup OpenOne(pending)
  BY InvParts DEF RowsKept, LastKept, TailsKept
<1>3. transactions' = Flushed(pending, tail, transactions) /\ tail' = <<>>
  BY <1>1 DEF Flush, Flushed, Draft
<1>4. transactions' \in Seq(Drafts(pages))
  BY <1>1, <1>3, FlushTyped
<1>5. InOrder(transactions') /\ BuiltTails(bank, pages, <<page, row>>, transactions')
  BY <1>1, <1>2, <1>3, FlushedOrder
<1>6. Found(bank, pages, <<page, row>>) = HeadsOf(transactions')
  BY <1>1, <1>2, <1>3, FlushedHeads
<1>7. \A k \in DOMAIN transactions' : PassedAt(pages, <<page, row>>, transactions'[k].head)
  <2>1. Found(bank, pages, <<page, row>>) = HeadsOf(transactions') \cup OpenOne(Nobody)
    BY <1>6 DEF OpenOne
  <2> QED
    BY <2>1, FoundPassed
<1> QED
  BY <1>3, <1>4, <1>5, <1>6, <1>7

LEMMA ChromeRowKeeps ==
    ASSUME WInv, ChromeRow
    PROVE  WInvAfter
<1> DEFINE here == <<page, row>>
           next == <<page', row'>>
<1>1. /\ here \in PositionsOf(pages) /\ pages' = pages /\ UNCHANGED input
      /\ page' \in 1..(Len(pages) + 1) /\ row' \in Nat \ {0} /\ walked' = page' - 1
      /\ \A q : PassedAt(pages, next, q) <=> PassedAt(pages, here, q) \/ q = here
  BY RowFurther DEF ChromeRow
<1>2. pc = "walk" /\ pc' = "walk" /\ pending' = Nobody /\ ChromeOf(bank, RowAt(pages, here))
  BY DEF ChromeRow, InRow, IsChrome, ChromeOf, At, RowAt, Here
<1>3. /\ tail' = <<>> /\ transactions' \in Seq(Drafts(pages)) /\ InOrder(transactions')
      /\ BuiltTails(bank, pages, here, transactions')
      /\ Found(bank, pages, here) = HeadsOf(transactions')
      /\ \A k \in DOMAIN transactions' : PassedAt(pages, here, transactions'[k].head)
  BY <1>2, FlushKeeps DEF ChromeRow
<1>4. pages \in Seq(Seq(Rows))
  BY InvParts
<1> HIDE DEF here, next
<1>5. BuiltTails(bank, pages, next, transactions') /\ Closed(bank, pages, next, transactions')
  BY <1>1, <1>2, <1>3, <1>4, EnderRow DEF EndsOf
<1>6. Found(bank, pages, next) = HeadsOf(transactions') \cup OpenOne(pending')
  <2>1. ~TxOf(bank, RowAt(pages, here))
    BY <1>2, EndsNoLine
  <2>2. Found(bank, pages, next) = Found(bank, pages, here)
    BY <1>1, <1>4, <2>1, FoundNoMore
  <2> QED
    BY <1>2, <1>3, <2>2 DEF OpenOne
<1>7. TypeOK'
  BY <1>1, <1>2, <1>3, TypesAfter
<1>8. RowsKept(bank, pages, next, pending', transactions', pc')
  BY <1>2, <1>3, <1>6 DEF RowsKept
<1>9. LastKept(next, pending', transactions', pc')
  BY <1>2 DEF LastKept, AllBefore
<1>10. TailsKept(bank, pages, next, pending', tail', transactions', pc')
  BY <1>2, <1>5 DEF TailsKept, OpenTail
<1> QED
  BY <1>1, <1>7, <1>8, <1>9, <1>10 DEF WInvAfter, next

LEMMA TxRowKeeps ==
    ASSUME WInv, TxRow
    PROVE  WInvAfter
<1> DEFINE here == <<page, row>>
           next == <<page', row'>>
<1>1. /\ here \in PositionsOf(pages) /\ pages' = pages /\ UNCHANGED input
      /\ page' \in 1..(Len(pages) + 1) /\ row' \in Nat \ {0} /\ walked' = page' - 1
      /\ \A q : PassedAt(pages, next, q) <=> PassedAt(pages, here, q) \/ q = here
  BY RowFurther DEF TxRow
<1>2. /\ pc = "walk" /\ pc' = "walk" /\ TxOf(bank, RowAt(pages, here))
      /\ pending' = IF Opens(RowAt(pages, here)) THEN here ELSE Nobody
  BY DEF TxRow, InRow, IsTx, TxOf, IsChrome, ChromeOf, At, RowAt, Here
<1>3. /\ tail' = <<>> /\ transactions' \in Seq(Drafts(pages)) /\ InOrder(transactions')
      /\ BuiltTails(bank, pages, here, transactions')
      /\ Found(bank, pages, here) = HeadsOf(transactions')
      /\ \A k \in DOMAIN transactions' : PassedAt(pages, here, transactions'[k].head)
  BY <1>2, FlushKeeps DEF TxRow
<1>4. pages \in Seq(Seq(Rows)) /\ here # Nobody
  BY <1>1, InvParts, PositionPairs
<1> HIDE DEF here, next
<1>5. BuiltTails(bank, pages, next, transactions') /\ Closed(bank, pages, next, transactions')
  BY <1>1, <1>2, <1>3, <1>4, EnderRow DEF EndsOf
<1>6. Found(bank, pages, next) = HeadsOf(transactions') \cup OpenOne(pending')
  <2>1. CASE Opens(RowAt(pages, here))
    <3>1. Found(bank, pages, next) = Found(bank, pages, here) \cup {here}
      BY <1>1, <1>2, <1>4, <2>1, FoundNext
    <3>2. OpenOne(pending') = {here}
      BY <1>2, <1>4, <2>1 DEF OpenOne
    <3> QED
      BY <1>3, <3>1, <3>2
  <2>2. CASE ~Opens(RowAt(pages, here))
    <3>1. Found(bank, pages, next) = Found(bank, pages, here)
      BY <1>1, <1>4, <2>2, FoundNoMore
    <3>2. OpenOne(pending') = {}
      BY <1>2, <2>2 DEF OpenOne
    <3> QED
      BY <1>3, <3>1, <3>2
  <2> QED
    BY <2>1, <2>2
<1>7. TypeOK'
  <2>1. pending' \in PositionsOf(pages) \cup {Nobody}
    BY <1>1, <1>2
  <2> QED
    BY <1>1, <1>2, <1>3, <2>1, TypesAfter
<1>8. RowsKept(bank, pages, next, pending', transactions', pc')
  BY <1>2, <1>3, <1>6 DEF RowsKept
<1>9. LastKept(next, pending', transactions', pc')
  <2>1. \A k \in DOMAIN transactions' : Before(transactions'[k].head, here)
    BY <1>3 DEF PassedAt
  <2> QED
    BY <1>2, <2>1 DEF LastKept, AllBefore
<1>10. TailsKept(bank, pages, next, pending', tail', transactions', pc')
  <2>1. OpenTail(bank, pages, next, here, <<>>)
    BY <1>1, <1>4, OpenStarts
  <2>2. OpenTail(bank, pages, next, pending', tail')
    BY <1>2, <1>3, <2>1 DEF OpenTail
  <2> QED
    BY <1>2, <1>5, <2>2 DEF TailsKept
<1> QED
  BY <1>1, <1>7, <1>8, <1>9, <1>10 DEF WInvAfter, next

LEMMA OtherRowKeeps ==
    ASSUME WInv, OtherRow
    PROVE  WInvAfter
<1> DEFINE here == <<page, row>>
           next == <<page', row'>>
<1>1. /\ here \in PositionsOf(pages) /\ pages' = pages /\ UNCHANGED input
      /\ page' \in 1..(Len(pages) + 1) /\ row' \in Nat \ {0} /\ walked' = page' - 1
      /\ \A q : PassedAt(pages, next, q) <=> PassedAt(pages, here, q) \/ q = here
  BY RowFurther DEF OtherRow
<1>2. /\ pc = "walk" /\ pc' = "walk" /\ ~EndsOf(bank, RowAt(pages, here))
      /\ ~TxOf(bank, RowAt(pages, here))
      /\ pending' = pending /\ transactions' = transactions
  BY DEF OtherRow, InRow, EndsOf, IsTx, TxOf, IsChrome, ChromeOf, At, RowAt, Here
<1>3. tail' = IF pending # Nobody /\ ContinuesOf(bank, RowAt(pages, here)) THEN Append(tail, here) ELSE tail
  BY DEF OtherRow, Continues, ContinuesOf, IsTx, TxOf, IsChrome, ChromeOf, At, RowAt, Here
<1>4. /\ pages \in Seq(Seq(Rows)) /\ pending \in PositionsOf(pages) \cup {Nobody}
      /\ tail \in Seq(PositionsOf(pages)) /\ transactions \in Seq(Drafts(pages))
      /\ pending = Nobody => tail = <<>>
  BY InvParts
<1>5. /\ RowsKept(bank, pages, here, pending, transactions, pc)
      /\ LastKept(here, pending, transactions, pc)
      /\ TailsKept(bank, pages, here, pending, tail, transactions, pc)
  BY InvParts
<1> HIDE DEF here, next
<1>6. BuiltTails(bank, pages, next, transactions) /\ Closed(bank, pages, next, transactions)
  BY <1>1, <1>2, <1>4, <1>5, LineRow DEF TailsKept
<1>7. Found(bank, pages, here) = HeadsOf(transactions) \cup OpenOne(pending)
  BY <1>2, <1>5 DEF RowsKept
<1>8. Found(bank, pages, next) = HeadsOf(transactions) \cup OpenOne(pending)
  <2>1. Found(bank, pages, next) = Found(bank, pages, here)
    BY <1>1, <1>2, <1>4, FoundNoMore
  <2> QED
    BY <1>7, <2>1
<1>9. OpenTail(bank, pages, next, pending, tail')
  <2>1. pending # Nobody => PassedAt(pages, here, pending)
    BY <1>7, FoundPassed
  <2>2. OpenTail(bank, pages, here, pending, tail)
    BY <1>5 DEF TailsKept
  <2> QED
    BY <1>1, <1>2, <1>3, <1>4, <2>1, <2>2, OpenTakes
<1>10. TypeOK'
  <2>1. tail' \in Seq(PositionsOf(pages)) /\ (pending' = Nobody => tail' = <<>>)
    BY <1>1, <1>2, <1>3, <1>4
  <2> QED
    BY <1>1, <1>2, <1>4, <2>1, TypesAfter
<1>11. RowsKept(bank, pages, next, pending', transactions', pc')
  BY <1>2, <1>5, <1>8 DEF RowsKept
<1>12. LastKept(next, pending', transactions', pc')
  BY <1>2, <1>5 DEF LastKept
<1>13. TailsKept(bank, pages, next, pending', tail', transactions', pc')
  BY <1>2, <1>6, <1>9 DEF TailsKept
<1> QED
  BY <1>1, <1>10, <1>11, <1>12, <1>13 DEF WInvAfter, next

LEMMA EndPageKeeps ==
    ASSUME WInv, EndPage
    PROVE  WInvAfter
<1> DEFINE here == <<page, row>>
           next == <<page', row'>>
<1>1. /\ pages \in Seq(Seq(Rows)) /\ pending \in PositionsOf(pages) \cup {Nobody}
      /\ tail \in Seq(PositionsOf(pages)) /\ transactions \in Seq(Drafts(pages))
      /\ pending = Nobody => tail = <<>>
  BY InvParts
<1>2. /\ RowsKept(bank, pages, here, pending, transactions, pc)
      /\ LastKept(here, pending, transactions, pc)
      /\ TailsKept(bank, pages, here, pending, tail, transactions, pc)
  BY InvParts
<1>3. /\ page \in 1..Len(pages) /\ row \in Nat /\ row > Len(pages[page]) /\ walked = page - 1
      /\ pc = "walk" /\ page' = page + 1 /\ row' = 1 /\ walked' = walked + 1
      /\ UNCHANGED <<pending, tail, transactions, pc>> /\ pages' = pages /\ UNCHANGED input
  BY DEF WInv, TypeOK, EndPage, input
<1>4. next = <<page + 1, 1>>
  BY <1>3
<1> HIDE DEF next
<1>5. \A q : PassedAt(pages, next, q) <=> PassedAt(pages, here, q)
  <2>1. page \in DOMAIN pages
    BY <1>1, <1>3
  <2> QED
    BY <1>1, <1>3, <1>4, <2>1, PagePassed
<1> HIDE DEF here
<1>6. TypeOK'
  <2>1. page' \in 1..(Len(pages) + 1) /\ row' \in Nat \ {0} /\ walked' = page' - 1
    BY <1>1, <1>3
  <2> QED
    BY <1>1, <1>3, <2>1, TypesAfter
<1>7. RowsKept(bank, pages, next, pending', transactions', pc')
  <2>1. Found(bank, pages, next) = Found(bank, pages, here)
    BY <1>5, FoundSame
  <2> QED
    BY <1>2, <1>3, <2>1 DEF RowsKept
<1>8. LastKept(next, pending', transactions', pc')
  BY <1>2, <1>3 DEF LastKept
<1>9. BuiltTails(bank, pages, next, transactions)
  BY <1>2, <1>5, CollectedSame DEF TailsKept, BuiltTails
<1>10. Closed(bank, pages, next, transactions)
  BY <1>2, <1>3, <1>5 DEF TailsKept, Closed
<1>11. OpenTail(bank, pages, next, pending, tail)
  BY <1>2, <1>5, CollectedSame DEF TailsKept, OpenTail
<1>12. TailsKept(bank, pages, next, pending', tail', transactions', pc')
  BY <1>3, <1>9, <1>10, <1>11 DEF TailsKept
<1> QED
  BY <1>3, <1>6, <1>7, <1>8, <1>12 DEF WInvAfter, next

LEMMA EndWalkKeeps ==
    ASSUME WInv, EndWalk
    PROVE  WInvAfter
<1> DEFINE here == <<page, row>>
<1>1. /\ pc = "walk" /\ pc' = "built" /\ pending' = Nobody /\ pages' = pages
      /\ UNCHANGED <<page, row, walked>> /\ UNCHANGED input /\ <<page', row'>> = here
  BY DEF EndWalk, input
<1>2. /\ tail' = <<>> /\ transactions' \in Seq(Drafts(pages)) /\ InOrder(transactions')
      /\ BuiltTails(bank, pages, here, transactions')
      /\ Found(bank, pages, here) = HeadsOf(transactions')
  BY <1>1, FlushKeeps DEF EndWalk
<1>3. page \in 1..(Len(pages) + 1) /\ row \in Nat \ {0} /\ walked = page - 1
  BY DEF WInv, TypeOK
<1> HIDE DEF here
<1>4. TypeOK'
  BY <1>1, <1>2, <1>3, TypesAfter
<1>5. RowsKept(bank, pages, here, pending', transactions', pc')
  <2>1. OpenOne(pending') = {}
    BY <1>1 DEF OpenOne
  <2> QED
    BY <1>1, <1>2, <2>1 DEF RowsKept
<1>6. LastKept(here, pending', transactions', pc')
  BY <1>1 DEF LastKept, AllBefore
<1>7. TailsKept(bank, pages, here, pending', tail', transactions', pc')
  BY <1>1, <1>2 DEF TailsKept, OpenTail
<1> QED
  BY <1>1, <1>4, <1>5, <1>6, <1>7 DEF WInvAfter

(* The steps that only end the parse, and those that change nothing.       *)
LEMMA EndingKeeps ==
    ASSUME WInv, BuildFails \/ Conclude \/ UNCHANGED vars
    PROVE  WInvAfter
<1> DEFINE here == <<page, row>>
<1>1. /\ pages \in Seq(Seq(Rows)) /\ pending \in PositionsOf(pages) \cup {Nobody}
      /\ tail \in Seq(PositionsOf(pages)) /\ transactions \in Seq(Drafts(pages))
      /\ pending = Nobody => tail = <<>>
  BY InvParts
<1>2. /\ RowsKept(bank, pages, here, pending, transactions, pc)
      /\ LastKept(here, pending, transactions, pc)
      /\ TailsKept(bank, pages, here, pending, tail, transactions, pc)
  BY InvParts
<1>3. /\ UNCHANGED <<pages, page, row, pending, tail, transactions, walked>> /\ UNCHANGED input
      /\ <<page', row'>> = here
  BY DEF BuildFails, Conclude, vars, input
<1>4. /\ page \in 1..(Len(pages) + 1) /\ row \in Nat \ {0} /\ walked = page - 1
      /\ pc \in {"start", "walk", "built", "empty_pdf", "drift", "no_transactions", "bad_row", "result"}
  BY DEF WInv, TypeOK
<1>5. \/ pc = "walk" /\ pc' = "bad_row"
      \/ pc = "built" /\ pc' = "no_transactions"
      \/ pc = "built" /\ pc' = "result" /\ transactions # <<>>
      \/ pc' = pc
  BY DEF BuildFails, Conclude, InRow, vars
<1> HIDE DEF here
<1>6. TypeOK'
  BY <1>1, <1>3, <1>4, <1>5, TypesAfter
<1>7. RowsKept(bank, pages, here, pending, transactions, pc')
  BY <1>2, <1>5 DEF RowsKept, LastKept
<1>8. LastKept(here, pending, transactions, pc')
  BY <1>2, <1>5 DEF LastKept
<1>9. TailsKept(bank, pages, here, pending, tail, transactions, pc')
  BY <1>2, <1>5 DEF TailsKept
<1> QED
  BY <1>3, <1>6, <1>7, <1>8, <1>9 DEF WInvAfter

LEMMA WInvInit ==
    ASSUME Init
    PROVE  WInv
<1>1. InputOK /\ page = 1 /\ row = 1 /\ pending = Nobody /\ tail = <<>> /\ transactions = <<>> /\ walked = 0 /\ pc = "start"
  BY DEF Init, InputOK
<1>2. DOMAIN transactions = {} /\ Len(pages) \in Nat
  BY <1>1 DEF InputOK
<1>3. TypeOK
  BY <1>1, <1>2 DEF TypeOK
<1>4. EachRowOnce
  BY <1>1, <1>2 DEF EachRowOnce
<1>5. PendingLast
  BY <1>1 DEF PendingLast
<1>6. TailsSoFar
  BY <1>1, <1>2 DEF TailsSoFar
<1> QED
  BY <1>1, <1>3, <1>4, <1>5, <1>6 DEF WInv

LEMMA WInvStep ==
    ASSUME WInv, [Next]_vars
    PROVE  WInv'
<1>1. WInvAfter
  BY BeginKeeps, ChromeRowKeeps, TxRowKeeps, OtherRowKeeps, EndPageKeeps, EndWalkKeeps,
     EndingKeeps, Zenon DEF Next, Over
<1>2. InputOK
  BY DEF WInv
<1> QED
  BY <1>1, <1>2, AfterIsInv

LEMMA WInvariant == Spec => []WInv
BY WInvInit, WInvStep, PTL DEF Spec

-----------------------------------------------------------------------------
(* The state of the walk always has its type.                              *)
THEOREM WalkTypes == Spec => []TypeOK
<1>1. WInv => TypeOK
  BY DEF WInv
<1> QED
  BY <1>1, WInvariant, PTL

(* No transaction row is lost, doubled or moved, in a statement of any     *)
(* number of pages and rows.                                               *)
THEOREM RowsCorrect == Spec => []EachRowOnce
<1>1. WInv => EachRowOnce
  BY DEF WInv
<1> QED
  BY <1>1, WInvariant, PTL

(* And every transaction of a result has all the lines of its narration,   *)
(* in order, and no other's.                                               *)
THEOREM TailsCorrect == Spec => []TailsOwned
<1>1. WInv => TailsOwned
  BY DEF WInv, TailsSoFar, TailsOwned
<1> QED
  BY <1>1, WInvariant, PTL

-----------------------------------------------------------------------------
(* A row of the statement.                                                 *)
Placed(pos) == pos \in Positions /\ pos[2] \in DOMAIN pages[pos[1]]

(* It is a row of its page.                                                *)
LEMMA RowTyped ==
    ASSUME InputOK, NEW pos, Placed(pos)
    PROVE  /\ pos[1] \in DOMAIN pages /\ pos[1] \in Nat /\ pos[2] \in Nat
           /\ pos[2] \in 1..Len(pages[pos[1]]) /\ At(pos) \in Rows
<1>1. pages \in Seq(Seq(Rows)) /\ pos \in PositionsOf(pages) /\ pos[2] \in DOMAIN pages[pos[1]]
  BY DEF InputOK, Placed, Positions, PositionsOf
<1>2. pos[1] \in DOMAIN pages /\ pos[1] \in Nat /\ pos[2] \in Nat
  BY <1>1, PositionPairs
<1>3. PICK s \in Seq(Rows) : s = pages[pos[1]]
  BY <1>1, <1>2
<1>4. pos[2] \in 1..Len(s) /\ s[pos[2]] \in Rows
  BY <1>1, <1>3
<1> QED
  BY <1>2, <1>3, <1>4 DEF At

(* What a laid out row is.                                                 *)
LEMMA RowLaidOut ==
    ASSUME InputOK, LaidOut, NEW pos, Placed(pos)
    PROVE  \/ At(pos).is = "move" /\ LaidOutMove(At(pos))
           \/ At(pos).is = "line" /\ ~At(pos).date
           \/ At(pos).is = "furniture" /\ LaidOutFurniture(pos)
<1>1. At(pos).is \in {"move", "line", "furniture"}
  BY RowTyped DEF Rows
<1>2. /\ At(pos).is = "move" => LaidOutMove(At(pos))
      /\ At(pos).is = "line" => ~At(pos).date
      /\ At(pos).is = "furniture" => LaidOutFurniture(pos)
  BY DEF LaidOut, Placed
<1> QED
  BY <1>1, <1>2

(* A row that opens a transaction is a movement.                           *)
LEMMA OnlyMovesOpen ==
    ASSUME InputOK, LaidOut, NEW pos, Placed(pos), IsTx(At(pos)), Opens(At(pos))
    PROVE  At(pos).is = "move"
<1>1. PICK r : r = At(pos)
  OBVIOUS
<1>2. r.date
  BY <1>1 DEF IsTx, RowKind, HasDateAndBalance
<1>3. CASE r.is = "furniture" /\ LaidOutFurniture(pos)
  <2>1. bank # "palmpay" /\ {"Opening", "Balance"} \subseteq r.words
    BY <1>1, <1>2, <1>3 DEF LaidOutFurniture
  <2>2. FbnChrome(r) /\ ZenithChrome(r)
    BY <2>1 DEF FbnChrome, FbnMarkers, HoldsOne, ZenithChrome, Holds
  <2>3. IsChrome(r)
    BY <2>1, <2>2 DEF IsChrome, InputOK
  <2> QED
    BY <1>1, <2>1, <2>3 DEF IsTx
<1> QED
  BY <1>1, <1>2, <1>3, RowLaidOut

(* A movement whose narration holds no mark opens one.                     *)
LEMMA MoveOpens ==
    ASSUME InputOK, LaidOut, ReadsAsPrinted, NEW pos \in Printed
    PROVE  Placed(pos) /\ IsTx(At(pos)) /\ Opens(At(pos))
<1>1. PICK r : r = At(pos)
  OBVIOUS
<1>2. Placed(pos) /\ r.is = "move"
  BY <1>1 DEF Printed, Placed
<1>3. LaidOutMove(r) /\ r.amount = "right" /\ r.date /\ r.lead # "Page"
  BY <1>1, <1>2, RowLaidOut DEF ReadsAsPrinted, LaidOutMove
<1>4. \A m \in Marks : m \cap r.words = {} /\ ~(m \subseteq r.narr)
  BY <1>1, <1>3 DEF ReadsAsPrinted, LaidOutMove
<1>5. \A m \in Marks : ~Holds(r, m)
  BY <1>4 DEF Holds
<1>6. ASSUME bank = "fbn"
      PROVE  ~FbnChrome(r)
  <2>1. Marks = {{w} : w \in FbnMarkers}
    BY <1>6 DEF Marks
  <2>2. \A w \in FbnMarkers : ~Holds(r, {w})
    BY <1>5, <2>1
  <2> QED
    BY <2>2 DEF FbnChrome, HoldsOne, Holds
<1>7. ASSUME bank = "zenith"
      PROVE  ~ZenithChrome(r)
  <2>1. Marks = {{"TOTALS"}, {"ALERTZ"}, {"DATE", "DESCRIPTION"},
                 {"Opening", "Balance"}, {"TOTAL", "(CLEARED"}}
    BY <1>7 DEF Marks
  <2>2. /\ ~Holds(r, {"TOTALS"}) /\ ~Holds(r, {"ALERTZ"}) /\ ~Holds(r, {"DATE", "DESCRIPTION"})
        /\ ~Holds(r, {"Opening", "Balance"}) /\ ~Holds(r, {"TOTAL", "(CLEARED"})
    BY <1>5, <2>1
  <2>3. ~HoldsOne(r, {"TOTALS", "ALERTZ"})
    BY <2>2 DEF Holds, HoldsOne
  <2> QED
    BY <1>3, <2>2, <2>3 DEF ZenithChrome
<1>8. ~IsChrome(r)
  BY <1>6, <1>7 DEF IsChrome
<1> QED
  BY <1>1, <1>2, <1>3, <1>8 DEF IsTx, Opens, RowKind, HasDateAndBalance

(* Both banks that test for furniture know a footer.                       *)
LEMMA FooterEnds ==
    ASSUME InputOK, bank # "palmpay", NEW r, IsFooter(r)
    PROVE  IsChrome(r)
<1>1. FbnChrome(r) /\ ZenithChrome(r)
  BY DEF IsFooter, FbnChrome, FbnMarkers, HoldsOne, ZenithChrome
<1> QED
  BY <1>1 DEF IsChrome, InputOK

(* Every booked row is a movement that was printed.                        *)
LEMMA HeadIsMove ==
    ASSUME WInv, LaidOut, NEW h \in Heads
    PROVE  Placed(h) /\ At(h).is = "move"
<1>1. InputOK /\ EachRowOnce /\ PendingLast
  BY DEF WInv
<1>2. pc # "start"
  BY <1>1 DEF PendingLast, Heads
<1>3. h \in {pos \in Positions : Passed(pos) /\ IsTx(At(pos)) /\ Opens(At(pos))}
  BY <1>1, <1>2 DEF EachRowOnce
<1>4. Placed(h) /\ IsTx(At(h)) /\ Opens(At(h))
  BY <1>3 DEF Passed, Placed
<1> QED
  BY <1>1, <1>4, OnlyMovesOpen

(* No furniture follows a movement but the footer of its page.             *)
LEMMA FooterBetween ==
    ASSUME InputOK, LaidOut, bank # "palmpay", page \in Nat,
           NEW h, Placed(h), At(h).is = "move",
           NEW q, Passed(q), Owns(h, q), At(q).is = "furniture"
    PROVE  FALSE
<1>1. Placed(q) /\ Before(q, Here) /\ Before(h, q) /\ Continues(At(q))
  BY DEF Passed, Placed, Owns
<1>2. /\ h[1] \in DOMAIN pages /\ h[1] \in Nat /\ h[2] \in Nat /\ h[2] \in 1..Len(pages[h[1]])
      /\ q[1] \in DOMAIN pages /\ q[1] \in Nat /\ q[2] \in Nat
  BY <1>1, RowTyped
<1>3. ~IsChrome(At(q))
  BY <1>1 DEF Continues
<1>4. ~IsFooter(At(q)) /\ LaidOutFurniture(q)
  BY <1>1, <1>3, FooterEnds, RowLaidOut
<1>5. h[1] # q[1]
  <2> SUFFICES ASSUME h[1] = q[1] PROVE FALSE
    OBVIOUS
  <2>1. h \in Printed
    BY DEF Placed, Printed
  <2>2. Before(q, h)
    BY <1>4, <2>1 DEF LaidOutFurniture
  <2> QED
    BY <1>1, <1>2, <2>2 DEF Before
<1>6. h[1] < q[1]
  BY <1>1, <1>2, <1>5 DEF Before
<1>7. PICK n : n = Len(pages[h[1]])
  OBVIOUS
<1>8. pages \in Seq(Seq(Rows)) /\ n \in Nat /\ DOMAIN pages[h[1]] = 1..n /\ n \in DOMAIN pages[h[1]]
      /\ pages[h[1]] # <<>>
  <2>1. pages[h[1]] \in Seq(Rows)
    BY <1>2 DEF InputOK
  <2> QED
    BY <1>2, <1>7, <2>1 DEF InputOK
<1>9. PICK f : f = <<h[1], n>>
  OBVIOUS
<1>10. f[1] = h[1] /\ f[2] = n
  BY <1>9
<1>11. Placed(f)
  BY <1>2, <1>8, <1>9 DEF Placed, Positions
<1>12. IsFooter(At(f))
  BY <1>2, <1>7, <1>8, <1>10 DEF LaidOut, At
<1>13. IsChrome(At(f))
  BY <1>12, FooterEnds
<1>14. h[2] # n
  BY <1>10, <1>12 DEF IsFooter, At
<1>15. Before(h, f) /\ Before(f, q)
  BY <1>2, <1>6, <1>7, <1>8, <1>10, <1>14 DEF Before
<1>16. Passed(f)
  <2>2. q[1] < page \/ q[1] = page
    BY <1>1 DEF Before, Here
  <2>3. f[1] < page
    BY <1>2, <1>6, <1>10, <2>2
  <2> QED
    BY <1>11, <2>3 DEF Passed, Placed, Before, Here
<1>17. f \in Positions
  BY <1>11 DEF Placed
<1> QED
  BY <1>13, <1>15, <1>16, <1>17 DEF Owns

(* A narration holds lines only.                                           *)
LEMMA TailIsLine ==
    ASSUME WInv, LaidOut, bank # "palmpay", NEW k \in DOMAIN transactions,
           NEW n \in DOMAIN transactions[k].tail
    PROVE  At(transactions[k].tail[n]).is = "line"
<1>1. PICK h, q : h = transactions[k].head /\ q = transactions[k].tail[n]
  OBVIOUS
<1>2. InputOK /\ h \in Heads /\ page \in Nat
  BY <1>1 DEF WInv, Heads, InputOK, TypeOK
<1>3. Placed(h) /\ At(h).is = "move"
  BY <1>2, HeadIsMove
<1>4. Collected(h, transactions[k].tail)
  BY <1>1 DEF WInv, TailsSoFar
<1>5. Passed(q) /\ Owns(h, q)
  BY <1>1, <1>4 DEF Collected
<1>6. Placed(q) /\ ~IsChrome(At(q)) /\ ~IsTx(At(q))
  BY <1>5 DEF Passed, Placed, Owns, Continues
<1>7. At(q).is # "furniture"
  BY <1>2, <1>3, <1>5, FooterBetween
<1>8. ~(At(q).is = "move" /\ LaidOutMove(At(q)))
  BY <1>6 DEF LaidOutMove, IsTx, HasDateAndBalance
<1> QED
  BY <1>1, <1>2, <1>6, <1>7, <1>8, RowLaidOut

(* A walk that came to its end has every row behind it.                    *)
AllWalked == pc \in {"built", "result", "no_transactions"} => page > Len(pages)

(* The loop over the pages ends past the last one.                         *)
LEMMA AllWalkedStep ==
    ASSUME AllWalked, [Next]_vars
    PROVE  AllWalked'
BY DEF AllWalked, Next, vars, input, Begin, ChromeRow, TxRow, OtherRow, EndPage, EndWalk,
       BuildFails, Conclude, Over, InRow, Advance, Flush

(* The bank and the statement are never written.                           *)
LEMMA InputStays ==
    ASSUME [Next]_vars
    PROVE  bank' = bank /\ pages' = pages
BY DEF Next, vars, input, Begin, ChromeRow, TxRow, OtherRow, EndPage, EndWalk,
       BuildFails, Conclude, Over, Advance

(* A statement that reads as printed has every movement booked.            *)
LEMMA PrintedIsHead ==
    ASSUME WInv, LaidOut, AllWalked, pc = "result", ReadsAsPrinted, NEW pos \in Printed
    PROVE  pos \in Heads
<1>1. InputOK /\ EachRowOnce /\ PendingLast /\ page \in 1..(Len(pages) + 1)
  BY DEF WInv, TypeOK
<1>2. Placed(pos) /\ IsTx(At(pos)) /\ Opens(At(pos))
  BY <1>1, MoveOpens
<1>3. page > Len(pages) /\ Len(pages) \in Nat
  BY <1>1 DEF AllWalked, InputOK
<1>4. pos[1] \in 1..Len(pages)
  BY <1>1, <1>2, RowTyped DEF InputOK
<1>5. Passed(pos) /\ pos \in Positions
  <2>1. pos[1] < page
    BY <1>1, <1>3, <1>4
  <2> QED
    BY <1>2, <2>1 DEF Passed, Placed, Before, Here
<1>6. pending = Nobody
  BY <1>1 DEF EachRowOnce
<1> QED
  BY <1>1, <1>2, <1>5, <1>6 DEF EachRowOnce

(* Of a statement laid out as the bank does, of any number of pages and    *)
(* rows: only movements are booked, only their lines join a narration, and *)
(* no movement is missing when the statement reads as it was printed.      *)
THEOREM StatementBooked == Spec /\ LaidOut => []BookedAsPrinted
<1>1. Init => WInv /\ AllWalked
  BY WInvInit DEF Init, AllWalked
<1>2. (WInv /\ AllWalked /\ LaidOut) /\ [Next]_vars => (WInv /\ AllWalked /\ LaidOut)'
  <2> SUFFICES ASSUME WInv, AllWalked, LaidOut, [Next]_vars
               PROVE  (WInv /\ AllWalked /\ LaidOut)'
    OBVIOUS
  <2>1. WInv' /\ AllWalked'
    BY WInvStep, AllWalkedStep
  <2>2. LaidOut'
    BY InputStays DEF LaidOut, LaidOutMove, LaidOutFurniture, Printed, Positions, At, Marks
  <2> QED
    BY <2>1, <2>2
<1>3. WInv /\ AllWalked /\ LaidOut => BookedAsPrinted
  <2> SUFFICES ASSUME WInv, AllWalked, LaidOut PROVE BookedAsPrinted
    OBVIOUS
  <2>1. ASSUME NEW k \in DOMAIN transactions
        PROVE  At(transactions[k].head).is = "move"
    BY HeadIsMove DEF Heads
  <2> QED
    BY <2>1, TailIsLine, PrintedIsHead DEF BookedAsPrinted
<1> QED
  BY <1>1, <1>2, <1>3, PTL DEF Spec

-----------------------------------------------------------------------------
(* The checks decide about the booked movements                            *)

R == INSTANCE ReconcileProofs WITH pc <- cpc, case <- 0

(* A statement has finitely many movements.                                *)
LEMMA PrintedFinite ==
    ASSUME InputOK
    PROVE  IsFiniteSet(Printed)
<1>1. pages \in Seq(Seq(Rows))
  BY DEF InputOK
<1>2. IsFiniteSet(DOMAIN pages)
  <2>1. DOMAIN pages = 1..Len(pages) /\ Len(pages) \in Int
    BY <1>1
  <2> QED
    BY <2>1, FS_Interval
<1>3. PICK lens : lens = {DOMAIN pages[q] : q \in DOMAIN pages}
  OBVIOUS
<1>4. IsFiniteSet(lens)
  <2>1. [q \in DOMAIN pages |-> DOMAIN pages[q]] \in Surjection(DOMAIN pages, lens)
    BY <1>3 DEF Surjection
  <2> QED
    BY <1>2, <2>1, FS_Surjection
<1>5. \A d \in lens : IsFiniteSet(d)
  <2> SUFFICES ASSUME NEW q \in DOMAIN pages PROVE IsFiniteSet(DOMAIN pages[q])
    BY <1>3
  <2>1. PICK s \in Seq(Rows) : s = pages[q]
    BY <1>1
  <2>2. DOMAIN s = 1..Len(s) /\ Len(s) \in Int
    OBVIOUS
  <2> QED
    BY <2>1, <2>2, FS_Interval
<1>6. IsFiniteSet(UNION lens)
  BY <1>4, <1>5, FS_UNION
<1>7. IsFiniteSet((DOMAIN pages) \X (UNION lens))
  BY <1>2, <1>6, FS_Product
<1>8. Printed \in SUBSET ((DOMAIN pages) \X (UNION lens))
  BY <1>3 DEF Printed, Positions
<1> QED
  BY <1>7, <1>8, FS_Subset

(* Finite sets are the same to either module.                              *)
LEMMA FiniteAlike ==
    ASSUME NEW S
    PROVE  R!IsFiniteSet(S) = IsFiniteSet(S) /\ R!Cardinality(S) = Cardinality(S)
<1>1. R!IsFiniteSet(S) = IsFiniteSet(S)
  BY DEF IsFiniteSet, R!IsFiniteSet
<1>2. R!Cardinality(S) = Cardinality(S)
  BY DEF Cardinality, R!Cardinality, IsFiniteSet, R!IsFiniteSet
<1> QED
  BY <1>1, <1>2

(* The amounts printed in the two columns.                                 *)
Out == [pos \in Printed |-> Debit(pos)]
In == [pos \in Printed |-> Credit(pos)]

(* They are numbers.                                                       *)
LEMMA AmountsTyped ==
    ASSUME InputOK, NEW pos \in Printed
    PROVE  Debit(pos) \in Nat /\ Credit(pos) \in Nat /\ Out[pos] = Debit(pos) /\ In[pos] = Credit(pos)
<1>1. PICK r \in Rows : r = At(pos)
  BY RowTyped DEF Printed, Placed, Positions
<1>2. r.units \in Nat
  BY DEF Rows
<1> QED
  BY <1>1, <1>2 DEF Debit, Credit, Out, In

(* The units of some movements are what they weigh.                        *)
LEMMA Weighed ==
    ASSUME InputOK, NEW S \in SUBSET Printed
    PROVE  /\ R!Weighs(S, Out) /\ Debits(S) = R!Weight(S, Out) /\ Debits(S) \in Nat
           /\ R!Weighs(S, In) /\ Credits(S) = R!Weight(S, In) /\ Credits(S) \in Nat
<1>1. IsFiniteSet(S)
  BY PrintedFinite, FS_Subset
<1>2. PICK f, g : f = Out /\ g = In
  OBVIOUS
<1>3. \A pos \in S : f[pos] = Debit(pos) /\ g[pos] = Credit(pos) /\ f[pos] \in Nat /\ g[pos] \in Nat
  BY <1>2, AmountsTyped
<1>4. R!Weighs(S, f) /\ R!Weighs(S, g)
  BY <1>1, <1>3, FiniteAlike DEF R!Weighs
<1>5. R!Units(S, f) = UNION {{<<pos, n>> : n \in 1..Debit(pos)} : pos \in S}
  BY <1>3 DEF R!Units
<1>6. R!Units(S, g) = UNION {{<<pos, n>> : n \in 1..Credit(pos)} : pos \in S}
  BY <1>3 DEF R!Units
<1>7. Debits(S) = R!Weight(S, f) /\ Credits(S) = R!Weight(S, g)
  BY <1>5, <1>6, FiniteAlike DEF R!Weight, Debits, Credits
<1>8. R!Weight(S, f) \in Nat /\ R!Weight(S, g) \in Nat
  BY <1>4, StatementAssumption, R!UnitsFinite
<1> QED
  BY <1>2, <1>4, <1>7, <1>8

(* Movements apart add up.                                                 *)
LEMMA SidesAdd ==
    ASSUME InputOK, NEW S \in SUBSET Printed, NEW T \in SUBSET Printed, S \cap T = {}
    PROVE  /\ Debits(S \cup T) = Debits(S) + Debits(T)
           /\ Credits(S \cup T) = Credits(S) + Credits(T)
<1>1. PICK W \in SUBSET Printed : W = S \cup T
  OBVIOUS
<1>2. PICK f, g : f = Out /\ g = In
  OBVIOUS
<1>3. R!Weighs(S, f) /\ R!Weighs(T, f) /\ R!Weighs(S, g) /\ R!Weighs(T, g)
  BY <1>2, Weighed
<1>4. R!Weight(W, f) = R!Weight(S, f) + R!Weight(T, f)
  BY <1>1, <1>3, StatementAssumption, R!WeightApart
<1>5. R!Weight(W, g) = R!Weight(S, g) + R!Weight(T, g)
  BY <1>1, <1>3, StatementAssumption, R!WeightApart
<1> QED
  BY <1>1, <1>2, <1>4, <1>5, Weighed

(* One movement counts with what it moves.                                 *)
LEMMA SidesOfOne ==
    ASSUME InputOK, NEW pos \in Printed
    PROVE  Debits({pos}) = Debit(pos) /\ Credits({pos}) = Credit(pos)
<1>1. Out[pos] \in Nat /\ In[pos] \in Nat /\ Out[pos] = Debit(pos) /\ In[pos] = Credit(pos)
  BY AmountsTyped
<1>2. R!Weight({pos}, Out) = Out[pos] /\ R!Weight({pos}, In) = In[pos]
  BY <1>1, StatementAssumption, R!WeightOfOne
<1>3. Debits({pos}) = R!Weight({pos}, Out) /\ Credits({pos}) = R!Weight({pos}, In)
  BY Weighed
<1> QED
  BY <1>1, <1>2, <1>3

(* The movements up to one, itself with them.                              *)
UpTo(pos) == {q \in Printed : q = pos \/ Before(q, pos)}

(* The balance moves by what lies between two movements and by the second. *)
LEMMA BalanceStep ==
    ASSUME InputOK, NEW g \in Printed, NEW h \in Printed, Before(g, h)
    PROVE  /\ Balance(g) \in Int /\ Debits(Lost(g, h)) \in Nat /\ Credits(Lost(g, h)) \in Nat
           /\ Balance(h) = Balance(g) + (Credits(Lost(g, h)) - Debits(Lost(g, h))) + (Credit(h) - Debit(h))
<1>1. PICK U, L, V : U = UpTo(g) /\ L = Lost(g, h) /\ V = UpTo(h)
  OBVIOUS
<1>2. U \in SUBSET Printed /\ L \in SUBSET Printed /\ {h} \in SUBSET Printed
  BY <1>1 DEF UpTo, Lost
<1>3. \A q \in Printed : q[1] \in Nat /\ q[2] \in Nat /\ q = <<q[1], q[2]>>
  BY RowTyped DEF Printed, Placed, Positions
<1>4. /\ U \cap L = {} /\ (U \cup L) \cap {h} = {} /\ V = (U \cup L) \cup {h}
  <2>1. \A q \in Printed : /\ ~((q = g \/ Before(q, g)) /\ Before(g, q))
                           /\ ~Before(h, h) /\ h # g /\ ~Before(h, g)
                           /\ (q = h \/ Before(q, h)) <=>
                                (q = g \/ Before(q, g) \/ (Before(g, q) /\ Before(q, h)) \/ q = h)
    <3> SUFFICES ASSUME NEW q \in Printed
                 PROVE  /\ ~((q = g \/ Before(q, g)) /\ Before(g, q))
                        /\ ~Before(h, h) /\ h # g /\ ~Before(h, g)
                        /\ (q = h \/ Before(q, h)) <=>
                             (q = g \/ Before(q, g) \/ (Before(g, q) /\ Before(q, h)) \/ q = h)
      OBVIOUS
    <3>1. PICK q1, q2, g1, g2, h1, h2 :
             /\ q1 = q[1] /\ q2 = q[2] /\ g1 = g[1] /\ g2 = g[2] /\ h1 = h[1] /\ h2 = h[2]
             /\ q1 \in Nat /\ q2 \in Nat /\ g1 \in Nat /\ g2 \in Nat /\ h1 \in Nat /\ h2 \in Nat
             /\ q = <<q1, q2>> /\ g = <<g1, g2>> /\ h = <<h1, h2>>
      BY <1>3
    <3> QED
      BY <3>1 DEF Before
  <2> QED
    BY <1>1, <2>1 DEF UpTo, Lost
<1>5. Debits({h}) = Debit(h) /\ Credits({h}) = Credit(h)
  BY SidesOfOne
<1>6. U \cup L \in SUBSET Printed
  BY <1>2
<1>7. Debits(U \cup L) = Debits(U) + Debits(L) /\ Credits(U \cup L) = Credits(U) + Credits(L)
  BY <1>2, <1>4, SidesAdd
<1>8. /\ Debits(V) = Debits(U \cup L) + Debits({h})
      /\ Credits(V) = Credits(U \cup L) + Credits({h})
  <2>1. PICK M : M = U \cup L
    OBVIOUS
  <2>2. M \in SUBSET Printed /\ M \cap {h} = {} /\ V = M \cup {h}
    BY <1>4, <1>6, <2>1
  <2>3. Debits(V) = Debits(M) + Debits({h}) /\ Credits(V) = Credits(M) + Credits({h})
    BY <1>2, <2>2, SidesAdd
  <2> QED
    BY <2>1, <2>3
<1>9. Balance(g) = Credits(U) - Debits(U) /\ Balance(h) = Credits(V) - Debits(V)
  BY <1>1 DEF Balance, UpTo
<1>10. PICK du, cu, dl, cl, dh, ch : /\ du = Debits(U) /\ cu = Credits(U) /\ dl = Debits(L)
                                     /\ cl = Credits(L) /\ dh = Debit(h) /\ ch = Credit(h)
  OBVIOUS
<1>11. du \in Nat /\ cu \in Nat /\ dl \in Nat /\ cl \in Nat /\ dh \in Nat /\ ch \in Nat
  <2>1. Debits(U) \in Nat /\ Credits(U) \in Nat /\ Debits(L) \in Nat /\ Credits(L) \in Nat
    BY <1>2, Weighed
  <2>2. Debit(h) \in Nat /\ Credit(h) \in Nat
    BY AmountsTyped
  <2> QED
    BY <1>10, <2>1, <2>2
<1>12. (cu + cl) + ch - ((du + dl) + dh) = (cu - du) + (cl - dl) + (ch - dh)
  BY <1>11
<1> QED
  BY <1>1, <1>5, <1>7, <1>8, <1>9, <1>10, <1>11, <1>12

(* The rows of the result are the booked movements.                        *)
LEMMA ResultRows ==
    ASSUME WInv, LaidOut, result = ResultOf
    PROVE  /\ Len(transactions) \in Nat /\ DOMAIN transactions = 1..Len(transactions)
           /\ DOMAIN R!rows = DOMAIN transactions /\ Len(R!rows) = Len(transactions)
           /\ \A k \in DOMAIN transactions :
                /\ transactions[k].head \in Printed
                /\ R!rows[k].debit = Debit(transactions[k].head)
                /\ R!rows[k].credit = Credit(transactions[k].head)
                /\ R!rows[k].balance = IF bank = "palmpay" THEN Absent ELSE Balance(transactions[k].head)
<1>1. transactions \in Seq([head : Positions, tail : Seq(Positions)])
  BY DEF WInv, TypeOK
<1>2. Len(transactions) \in Nat /\ DOMAIN transactions = 1..Len(transactions)
  BY <1>1
<1>3. R!rows = [k \in DOMAIN transactions |->
                  [debit |-> Debit(transactions[k].head), credit |-> Credit(transactions[k].head),
                   balance |-> IF bank = "palmpay" THEN Absent ELSE Balance(transactions[k].head)]]
  BY DEF R!rows, ResultOf
<1>4. Len(R!rows) = Len(transactions)
  BY <1>2, <1>3
<1>5. \A k \in DOMAIN transactions : transactions[k].head \in Printed
  BY HeadIsMove DEF Heads, Printed, Placed
<1> QED
  BY <1>2, <1>3, <1>4, <1>5

(* What the parser hands over is a result the checks may begin with.       *)
LEMMA ResultTyped ==
    ASSUME WInv, LaidOut
    PROVE  ResultOf \in R!ParseResults
<1>1. transactions \in Seq([head : Positions, tail : Seq(Positions)]) /\ InputOK
  BY DEF WInv, TypeOK
<1>2. Len(transactions) \in Nat /\ DOMAIN transactions = 1..Len(transactions)
  BY <1>1
<1>3. Debits(Printed) \in Nat /\ Credits(Printed) \in Nat
  BY <1>1, Weighed
<1>4. \A pos \in Printed : Debit(pos) \in Nat /\ Credit(pos) \in Nat
  BY <1>1, AmountsTyped
<1>5. ASSUME NEW pos
      PROVE  Balance(pos) \in Int
  <2>1. PICK U : U = UpTo(pos)
    OBVIOUS
  <2>2. U \in SUBSET Printed
    BY <2>1 DEF UpTo
  <2>3. Debits(U) \in Nat /\ Credits(U) \in Nat
    BY <1>1, <2>2, Weighed
  <2> QED
    BY <2>1, <2>3 DEF Balance, UpTo
<1>6. ResultOf.rows \in Seq(R!Transactions)
  <2>1. \A k \in DOMAIN transactions :
           [debit |-> Debit(transactions[k].head), credit |-> Credit(transactions[k].head),
            balance |-> IF bank = "palmpay" THEN Absent ELSE Balance(transactions[k].head)]
             \in R!Transactions
    <3>1. \A k \in DOMAIN transactions : transactions[k].head \in Printed
      BY HeadIsMove DEF Heads, Printed, Placed
    <3> QED
      BY <1>4, <1>5, <3>1 DEF R!Transactions, R!Balances
  <2> QED
    BY <1>2, <2>1 DEF ResultOf
<1>7. ResultOf.totalDebit \in R!Headers /\ ResultOf.totalCredit \in R!Headers
  BY <1>3 DEF ResultOf, R!Headers
<1> QED
  BY <1>6, <1>7 DEF ResultOf, R!ParseResults

(* The sums of the checks are those of the booked movements.               *)
LEMMA TotalsOfHeads ==
    ASSUME WInv, LaidOut, result = ResultOf
    PROVE  R!Total(R!Debits(R!rows)) = Debits(Heads) /\ R!Total(R!Credits(R!rows)) = Credits(Heads)
<1>1. PICK n, rs : n = Len(transactions) /\ rs = R!rows
  OBVIOUS
<1>2. PICK hs : hs = [k \in 1..n |-> transactions[k].head]
  OBVIOUS
<1>3. /\ n \in Nat /\ DOMAIN transactions = 1..n /\ DOMAIN rs = 1..n /\ Len(rs) = n
      /\ \A k \in 1..n : hs[k] \in Printed /\ rs[k].debit = Debit(hs[k]) /\ rs[k].credit = Credit(hs[k])
  BY <1>1, <1>2, ResultRows
<1>4. PICK d, c : d = R!Debits(rs) /\ c = R!Credits(rs)
  OBVIOUS
<1>5. InputOK
  BY DEF WInv
<1>6. \A k \in 1..n : Debit(hs[k]) \in Nat /\ Credit(hs[k]) \in Nat
  BY <1>3, <1>5, AmountsTyped
<1>7. /\ d \in Seq(Int) /\ Len(d) = n /\ c \in Seq(Int) /\ Len(c) = n
      /\ \A k \in 1..n : d[k] = Debit(hs[k]) /\ c[k] = Credit(hs[k])
  BY <1>3, <1>4, <1>6 DEF R!Debits, R!Credits
<1>8. PICK f, g : f = Out /\ g = In
  OBVIOUS
<1>9. \A k \in 1..n : /\ d[k] = f[hs[k]] /\ f[hs[k]] \in Nat
                      /\ c[k] = g[hs[k]] /\ g[hs[k]] \in Nat
  BY <1>3, <1>5, <1>7, <1>8, AmountsTyped
<1>10. ASSUME NEW k \in 1..n, NEW j \in 1..(k - 1)
       PROVE  hs[j] # hs[k]
  <2>1. j \in 1..n /\ j < k
    BY <1>3
  <2>2. Before(hs[j], hs[k])
    BY <1>2, <1>3, <2>1 DEF WInv, EachRowOnce
  <2>3. hs[k][1] \in Nat /\ hs[k][2] \in Nat
    BY <1>3, RowTyped DEF WInv, Printed, Placed
  <2> QED
    BY <2>2, <2>3 DEF Before
<1>11. \A k \in 1..n : \A j \in 1..(k - 1) : hs[j] # hs[k]
  BY <1>10
<1>12. PICK H : H = Heads
  OBVIOUS
<1>13. (\A k \in 1..n : hs[k] \in H) /\ \A x \in H : \E k \in 1..n : x = hs[k]
  BY <1>2, <1>3, <1>12 DEF Heads
<1>14. H \in SUBSET Printed
  BY <1>3, <1>13
<1>15. R!Lists(d, f, hs, H) /\ R!Lists(c, g, hs, H)
  BY <1>7, <1>9, <1>11, <1>13 DEF R!Lists
<1>16. R!Total(d) = R!Weight(H, f) /\ R!Total(c) = R!Weight(H, g)
  BY <1>15, StatementAssumption, R!WeightOfSequence
<1>17. Debits(H) = R!Weight(H, f) /\ Credits(H) = R!Weight(H, g)
  BY <1>5, <1>8, <1>14, Weighed
<1> QED
  BY <1>1, <1>4, <1>12, <1>15, <1>16, <1>17

(* Totals that match leave little lost: what is not booked is what the     *)
(* booked movements fall short of the printed ones by.                     *)
LEMMA LittleLost ==
    ASSUME WInv, LaidOut, result = ResultOf, R!HeaderTotals, R!TotalsMatch
    PROVE  Debits(Printed \ Heads) <= Tolerance /\ Credits(Printed \ Heads) <= Tolerance
<1>1. result.totalDebit = Debits(Printed) /\ result.totalCredit = Credits(Printed)
  BY DEF R!HeaderTotals, ResultOf
<1>2. PICK H, L, P : H = Heads /\ L = Printed \ Heads /\ P = Printed
  OBVIOUS
<1>3. InputOK /\ H \in SUBSET Printed /\ L \in SUBSET Printed /\ P \in SUBSET Printed
  BY <1>2, HeadIsMove DEF WInv, Printed, Placed
<1>4. H \cap L = {} /\ H \cup L = P
  BY <1>2, <1>3
<1>5. Debits(P) = Debits(H) + Debits(L) /\ Credits(P) = Credits(H) + Credits(L)
  <2>1. Debits(H \cup L) = Debits(H) + Debits(L) /\ Credits(H \cup L) = Credits(H) + Credits(L)
    BY <1>3, <1>4, SidesAdd
  <2> QED
    BY <1>4, <2>1
<1>6. PICK dh, ch, dl, cl : dh = Debits(H) /\ ch = Credits(H) /\ dl = Debits(L) /\ cl = Credits(L)
  OBVIOUS
<1>7. dh \in Nat /\ ch \in Nat /\ dl \in Nat /\ cl \in Nat
  BY <1>3, <1>6, Weighed
<1>8. R!Distance(ch, ch + cl) <= Tolerance /\ R!Distance(dh, dh + dl) <= Tolerance
  BY <1>1, <1>2, <1>5, <1>6, TotalsOfHeads DEF R!TotalsMatch
<1>9. dl <= Tolerance /\ cl <= Tolerance
  BY <1>7, <1>8, StatementAssumption DEF R!Distance
<1> QED
  BY <1>2, <1>6, <1>9

(* Rows that follow from each other leave little imbalance between them.   *)
LEMMA LossesCancel ==
    ASSUME WInv, LaidOut, result = ResultOf, R!Missing = {}, \A k \in 2..Len(R!rows) : R!Chains(k),
           NEW k \in 2..Len(transactions)
    PROVE  LET lost == Lost(transactions[k - 1].head, transactions[k].head)
           IN  Checks!Distance(Debits(lost), Credits(lost)) <= Tolerance
<1>1. PICK g, h, rs : g = transactions[k - 1].head /\ h = transactions[k].head /\ rs = R!rows
  OBVIOUS
<1>2. /\ Len(transactions) \in Nat /\ DOMAIN transactions = 1..Len(transactions)
      /\ DOMAIN rs = DOMAIN transactions /\ Len(rs) = Len(transactions)
  BY <1>1, ResultRows
<1>3. k - 1 \in DOMAIN transactions /\ k \in DOMAIN transactions /\ k - 1 < k
  BY <1>2
<1>4. /\ g \in Printed /\ h \in Printed
      /\ rs[k].debit = Debit(h) /\ rs[k].credit = Credit(h)
      /\ rs[k - 1].balance = IF bank = "palmpay" THEN Absent ELSE Balance(g)
      /\ rs[k].balance = IF bank = "palmpay" THEN Absent ELSE Balance(h)
  BY <1>1, <1>3, ResultRows
<1>5. bank # "palmpay"
  BY <1>1, <1>2, <1>3, <1>4 DEF R!Missing
<1>6. Before(g, h)
  BY <1>1, <1>3 DEF WInv, EachRowOnce
<1>7. PICK dl, cl, dh, ch, bg, bh :
         /\ dl = Debits(Lost(g, h)) /\ cl = Credits(Lost(g, h)) /\ dh = Debit(h) /\ ch = Credit(h)
         /\ bg = Balance(g) /\ bh = Balance(h)
  OBVIOUS
<1>8. bg \in Int /\ dl \in Nat /\ cl \in Nat /\ bh = bg + (cl - dl) + (ch - dh)
  BY <1>4, <1>6, <1>7, BalanceStep DEF WInv
<1>9. dh \in Nat /\ ch \in Nat
  BY <1>4, <1>7, AmountsTyped DEF WInv
<1>10. R!Distance(bg - dh + ch, bh) <= Tolerance
  BY <1>1, <1>2, <1>4, <1>5, <1>7 DEF R!Chains, R!Expected
<1>11. Checks!Distance(dl, cl) <= Tolerance
  BY <1>8, <1>9, <1>10, StatementAssumption DEF R!Distance, Checks!Distance
<1> QED
  BY <1>1, <1>7, <1>11

(* The walk of a statement, and after it the checks of what it returned.   *)
SInv ==
    /\ WInv
    /\ cpc = "idle" => ChecksIdle
    /\ cpc # "idle" => pc = "result" /\ result = ResultOf /\ R!Judged

(* The walk goes on, or the checks do and it stands still.                 *)
LEMMA WalkStep ==
    ASSUME [StatementNext]_all
    PROVE  [Next]_vars
BY DEF StatementNext, Walks, HandOver, ChecksStep, all

(* The verdict is proved of the checks alone; here they begin where it does. *)
LEMMA Begun == R!Init => R!Judged
BY StatementAssumption, R!JudgedInit

(* The checks of the composition are those the verdict is proved of.       *)
LEMMA ChecksNext == Checks!Next => R!Next
BY DEF Checks!Next, R!Next, Checks!StartChecks, R!StartChecks, Checks!SumRow, R!SumRow,
       Checks!CompareTotals, R!CompareTotals, Checks!RowWiseDisabled, R!RowWiseDisabled,
       Checks!NoBalanceColumn, R!NoBalanceColumn, Checks!PartialBalances, R!PartialBalances,
       Checks!StartChain, R!StartChain, Checks!ChainRow, R!ChainRow, Checks!ChainHolds, R!ChainHolds,
       Checks!Decide, R!Decide, Checks!Over, R!Over, Checks!vars, R!vars,
       Checks!rows, R!rows, Checks!Missing, R!Missing, Checks!HeaderTotals, R!HeaderTotals,
       Checks!Chains, R!Chains, Checks!Expected, R!Expected, Checks!Distance, R!Distance,
       Checks!Raise, R!Raise, Checks!IsFirst, R!IsFirst

(* Nothing is walked, nothing checked.                                     *)
LEMMA SInvInit == StatementInit => SInv
BY WInvInit DEF StatementInit, SInv, ChecksIdle

(* Each step of the walk, the hand-over and each check keep the invariant. *)
LEMMA SInvStep ==
    ASSUME SInv, LaidOut, [StatementNext]_all
    PROVE  SInv'
<1>1. WInv /\ WInv'
  BY WalkStep, WInvStep DEF SInv
<1>2. ASSUME UNCHANGED vars
      PROVE  ResultOf' = ResultOf /\ pc' = pc
  BY <1>2 DEF ResultOf, vars, input, Debits, Credits, Debit, Credit, Balance, Printed, Positions, At
<1>3. ASSUME UNCHANGED checks, [Next]_vars
      PROVE  SInv'
  <2>1. CASE cpc = "idle"
    BY <1>1, <1>3, <2>1 DEF SInv, checks, ChecksIdle
  <2>2. CASE cpc # "idle"
    <3>1. pc = "result" /\ result = ResultOf /\ R!Judged
      BY <2>2 DEF SInv
    <3>2. UNCHANGED vars
      BY <1>3, <3>1 DEF Next, Begin, ChromeRow, TxRow, OtherRow, EndPage, EndWalk,
                        BuildFails, Conclude, Over, InRow
    <3>3. UNCHANGED R!vars /\ cpc' = cpc /\ result' = result
      BY <1>3 DEF checks, R!vars
    <3>4. R!Judged'
      BY <3>1, <3>3, StatementAssumption, R!JudgedStep
    <3> QED
      BY <1>1, <1>2, <2>2, <3>1, <3>2, <3>3, <3>4 DEF SInv
  <2> QED
    BY <2>1, <2>2
<1>4. CASE HandOver
  <2>1. UNCHANGED vars /\ pc = "result" /\ result' = ResultOf /\ cpc' = "start"
    BY <1>4 DEF HandOver
  <2>2. ChecksIdle
    BY <1>4 DEF HandOver, SInv
  <2>3. ResultOf \in R!ParseResults
    BY <1>1, ResultTyped
  <2>4. (R!Init)'
    BY <1>4, <2>1, <2>2, <2>3 DEF HandOver, ChecksIdle, R!Init, R!NoError
  <2>5. (R!Init)' => (R!Judged)'
    BY Begun, PTL
  <2> QED
    BY <1>1, <1>2, <2>1, <2>4, <2>5 DEF SInv
<1>5. CASE ChecksStep
  <2>1. cpc # "idle" /\ R!Next /\ UNCHANGED vars
    BY <1>5, ChecksNext DEF ChecksStep
  <2>2. pc = "result" /\ result = ResultOf /\ R!Judged
    BY <2>1 DEF SInv
  <2>3. R!Judged'
    BY <2>1, <2>2, StatementAssumption, R!JudgedStep
  <2>4. result' = result
    BY <2>1, StatementAssumption, R!ResultStays
  <2>5. cpc' # "idle"
    BY <2>3 DEF R!Judged, R!IInv, R!TypeOK
  <2> QED
    BY <1>1, <1>2, <2>1, <2>2, <2>3, <2>4, <2>5 DEF SInv
<1> QED
  BY <1>3, <1>4, <1>5 DEF StatementNext, Walks, all, checks

(* Once a report is out, the invariant leaves no loss unseen.              *)
LEMMA SInvShows ==
    ASSUME SInv, LaidOut
    PROVE  LossShows
<1> SUFFICES ASSUME cpc = "reported"
             PROVE  /\ totals = "passed" => /\ Debits(Printed \ Heads) <= Tolerance
                                            /\ Credits(Printed \ Heads) <= Tolerance
                    /\ rowWise = "passed" => \A k \in 2..Len(transactions) :
                         LET lost == Lost(transactions[k - 1].head, transactions[k].head)
                         IN  Checks!Distance(Debits(lost), Credits(lost)) <= Tolerance
  BY DEF LossShows
<1>1. WInv /\ result = ResultOf /\ R!Judged
  BY DEF SInv
<1>2. R!Accepts /\ R!LoopHonest
  BY <1>1 DEF R!Judged, R!VerdictRight, R!IInv
<1>3. totals = "passed" => R!HeaderTotals /\ R!TotalsMatch
  BY <1>2 DEF R!Accepts, R!LoopHonest
<1>4. rowWise = "passed" => R!Missing = {} /\ \A k \in 2..Len(R!rows) : R!Chains(k)
  BY <1>2 DEF R!LoopHonest
<1> QED
  BY <1>1, <1>3, <1>4, LittleLost, LossesCancel

(* Of a statement laid out as the bank does, of any number of pages and    *)
(* rows: convert() returns a report whose totals passed only when the      *)
(* movements not booked come to TOLERANCE at most in either column, and    *)
(* one whose balances passed only when what is lost between two booked     *)
(* movements cancels out as closely.                                       *)
THEOREM LossesShow == StatementSpec /\ LaidOut => []LossShows
<1>1. (SInv /\ LaidOut) /\ [StatementNext]_all => (SInv /\ LaidOut)'
  <2> SUFFICES ASSUME SInv, LaidOut, [StatementNext]_all
               PROVE  (SInv /\ LaidOut)'
    OBVIOUS
  <2>1. LaidOut'
    BY WalkStep, InputStays DEF LaidOut, LaidOutMove, LaidOutFurniture, Printed, Positions, At, Marks
  <2> QED
    BY <2>1, SInvStep
<1> QED
  BY <1>1, SInvInit, SInvShows, PTL DEF StatementSpec

(* The composition adds nothing to the walk: what is proved of WalkRows    *)
(* holds of it.                                                            *)
THEOREM WalkOfStatement == StatementSpec => Spec
<1>1. StatementInit => Init
  BY DEF StatementInit
<1> QED
  BY <1>1, WalkStep, PTL DEF StatementSpec, Spec

-----------------------------------------------------------------------------
(* The redacted copy reads alike                                           *)

(* The rows of a page that lose what stands right of their words.          *)
Boxed(rows) ==
    CASE bank = "fbn" -> FbnHeader(rows)
      [] bank = "zenith" -> Labelled(rows, {"ACCOUNT No.:"})
      [] OTHER -> Labelled(rows, {"Name", "Address"}) \cup Under(Labelled(rows, {"Address"}), 1)

(* What is left of a row: its words and date, some of its narration, and   *)
(* the amount unless it is boxed.                                          *)
LeftOf(c, r, boxed) ==
    /\ c.words = r.words /\ c.lead = r.lead /\ c.date = r.date /\ c.narr \subseteq r.narr
    /\ c.amount = IF boxed THEN "none" ELSE r.amount

(* A row without its narration, a row without what stands right, a row.    *)
LEMMA BlankedLeaves ==
    ASSUME NEW r \in Rows
    PROVE  LeftOf(Blanked(r), r, FALSE) /\ LeftOf(RightErased(r), r, TRUE) /\ LeftOf(r, r, FALSE)
           /\ Blanked(r).narr = {} /\ RightErased(r).narr = {}
BY DEF LeftOf, Blanked, RightErased, Rows

(* FBNRedactor keeps no narration and boxes the rows of the address.       *)
LEMMA FbnLeaves ==
    ASSUME bank = "fbn", NEW s \in Seq(Rows), NEW k \in DOMAIN s
    PROVE  /\ DOMAIN FbnPage(s) = DOMAIN s
           /\ LeftOf(FbnPage(s)[k], s[k], k \in FbnHeader(s)) /\ FbnPage(s)[k].narr = {}
<1>1. PICK r \in Rows : r = s[k]
  OBVIOUS
<1>2. FbnPage(s)[k] = (IF k \in FbnHeader(s) THEN RightErased(r) ELSE Blanked(r)) /\ DOMAIN FbnPage(s) = DOMAIN s
  BY <1>1 DEF FbnPage, FbnDetail
<1>3. CASE k \in FbnHeader(s)
  BY <1>1, <1>2, <1>3, BlankedLeaves
<1>4. CASE k \notin FbnHeader(s)
  BY <1>1, <1>2, <1>4, BlankedLeaves DEF LeftOf
<1> QED
  BY <1>3, <1>4

(* ZenithRedactor lets the box of the account number take the amounts.     *)
LEMMA ZenithLeaves ==
    ASSUME bank = "zenith", NEW s \in Seq(Rows), NEW k \in DOMAIN s
    PROVE  /\ DOMAIN ZenithPage(s) = DOMAIN s
           /\ LeftOf(ZenithPage(s)[k], s[k], k \in Labelled(s, {"ACCOUNT No.:"}))
           /\ k \in Below(s, {"DATE", "DESCRIPTION"}) => ZenithPage(s)[k].narr = {}
<1>1. PICK r \in Rows : r = s[k]
  OBVIOUS
<1>2. PICK boxed, blank : /\ boxed = Labelled(s, {"ACCOUNT No.:"})
                          /\ blank = Labelled(s, {"ACCOUNT NAME:"})
                               \cup Under(Labelled(s, {"ACCOUNT NAME:"}), AddressLines)
                               \cup Below(s, {"DATE", "DESCRIPTION"})
  OBVIOUS
<1>3. DOMAIN ZenithPage(s) = DOMAIN s
  BY DEF ZenithPage
<1>4. k \in boxed => ZenithPage(s)[k] = RightErased(r)
  BY <1>1, <1>2 DEF ZenithPage
<1>5. k \notin boxed /\ k \in blank => ZenithPage(s)[k] = Blanked(r)
  BY <1>1, <1>2 DEF ZenithPage
<1>6. k \notin boxed /\ k \notin blank => ZenithPage(s)[k] = r
  BY <1>1, <1>2 DEF ZenithPage
<1>7. k \in Below(s, {"DATE", "DESCRIPTION"}) => k \in blank
  BY <1>2
<1>8. CASE k \in boxed
  BY <1>1, <1>2, <1>3, <1>4, <1>8, BlankedLeaves
<1>9. CASE k \notin boxed /\ k \in blank
  <2>1. PICK c : c = ZenithPage(s)[k] /\ c = Blanked(r)
    BY <1>5, <1>9
  <2>2. LeftOf(c, r, FALSE) /\ c.narr = {}
    BY <1>1, <2>1 DEF LeftOf, Blanked, Rows
  <2> QED
    BY <1>1, <1>2, <1>3, <1>9, <2>1, <2>2 DEF LeftOf
<1>10. CASE k \notin boxed /\ k \notin blank
  BY <1>1, <1>2, <1>3, <1>6, <1>7, <1>10, BlankedLeaves DEF LeftOf
<1> QED
  BY <1>8, <1>9, <1>10

(* PalmPayRedactor keeps the words of its lists.                           *)
LEMMA PalmPayLeaves ==
    ASSUME bank = "palmpay", NEW s \in Seq(Rows), NEW k \in DOMAIN s
    PROVE  /\ DOMAIN PalmPayPage(s) = DOMAIN s
           /\ LeftOf(PalmPayPage(s)[k], s[k], k \in Boxed(s)) /\ PalmPayPage(s)[k].narr \subseteq Kept
<1>1. PICK r \in Rows : r = s[k]
  OBVIOUS
<1>2. PICK boxed : boxed = Boxed(s)
  OBVIOUS
<1>3. boxed = Labelled(s, {"Name", "Address"}) \cup Under(Labelled(s, {"Address"}), 1)
  BY <1>2 DEF Boxed
<1>4. DOMAIN PalmPayPage(s) = DOMAIN s
      /\ PalmPayPage(s)[k] = IF k \in boxed THEN RightErased(r) ELSE PalmPayRow(r)
  BY <1>1, <1>3 DEF PalmPayPage
<1>5. CASE k \in boxed
  BY <1>1, <1>2, <1>4, <1>5, BlankedLeaves
<1>6. CASE k \notin boxed
  <2>1. \/ PalmPayRow(r) = r /\ r.narr \subseteq Phrases
        \/ PalmPayRow(r) = [r EXCEPT !.narr = r.narr \cap Anchors]
        \/ PalmPayRow(r) = [r EXCEPT !.narr = r.narr \cap ChromeWords]
    BY DEF PalmPayRow, PalmPayTx
  <2>2. Kept = Phrases \cup Anchors \cup ChromeWords
    BY DEF Kept
  <2>3. LeftOf(PalmPayRow(r), r, FALSE) /\ PalmPayRow(r).narr \subseteq Kept
    BY <2>1, <2>2 DEF LeftOf, Rows
  <2> QED
    BY <1>1, <1>2, <1>4, <1>6, <2>3 DEF LeftOf
<1> QED
  BY <1>5, <1>6

(* What the copy of a page leaves of a row.                                *)
LEMMA CopyLeaves ==
    ASSUME InputOK, NEW s \in Seq(Rows), NEW k \in DOMAIN s
    PROVE  /\ DOMAIN RedactedWalk(bank, s) = DOMAIN s
           /\ LeftOf(RedactedWalk(bank, s)[k], s[k], k \in Boxed(s))
           /\ (bank = "zenith" => k \in Below(s, {"DATE", "DESCRIPTION"}))
                => RedactedWalk(bank, s)[k].narr \subseteq Kept
<1>1. CASE bank = "fbn"
  <2>1. RedactedWalk(bank, s) = FbnPage(s) /\ Boxed(s) = FbnHeader(s)
    BY <1>1 DEF RedactedWalk, Boxed
  <2> QED
    BY <1>1, <2>1, FbnLeaves
<1>2. CASE bank = "zenith"
  <2>1. RedactedWalk(bank, s) = ZenithPage(s) /\ Boxed(s) = Labelled(s, {"ACCOUNT No.:"})
    BY <1>2 DEF RedactedWalk, Boxed
  <2> QED
    BY <1>2, <2>1, ZenithLeaves
<1>3. CASE bank = "palmpay"
  <2>1. RedactedWalk(bank, s) = PalmPayPage(s)
    BY <1>3 DEF RedactedWalk
  <2> QED
    BY <1>3, <2>1, PalmPayLeaves
<1> QED
  BY <1>1, <1>2, <1>3 DEF InputOK

(* No box of the header pass takes the amount of a movement.               *)
LEMMA MovesNotBoxed ==
    ASSUME InputOK, LaidOutToRedact, \A pos \in Printed : At(pos).narr \cap Labels = {},
           NEW pos \in Printed
    PROVE  pos[2] \notin Boxed(pages[pos[1]])
<1>1. PICK p, k, s : p = pos[1] /\ k = pos[2] /\ s = pages[p]
  OBVIOUS
<1>2. Placed(pos)
  BY DEF Printed, Placed
<1>3. p \in DOMAIN pages /\ k \in Nat /\ k \in DOMAIN s /\ s \in Seq(Rows) /\ DOMAIN s = 1..Len(s) /\ Len(s) \in Nat
  <2>1. p \in DOMAIN pages /\ k \in Nat /\ k \in 1..Len(s)
    BY <1>1, <1>2, RowTyped
  <2>2. s \in Seq(Rows)
    BY <1>1, <2>1 DEF InputOK
  <2> QED
    BY <2>1, <2>2
<1>4. ASSUME NEW q \in Printed
      PROVE  WordsOf(At(q)) \cap Labels = {}
  BY DEF LaidOutToRedact, Printed, WordsOf
<1>5. \A words : words \subseteq Labels => k \notin Labelled(s, words)
  BY <1>1, <1>3, <1>4 DEF Labelled, At
<1>6. ASSUME NEW label \in Labels, NEW d \in Labelled(s, {label}), d < k
      PROVE  /\ bank = "fbn" /\ label = "Dear" => d + AddressLines < k
             /\ bank = "palmpay" /\ label = "Address" => d + 1 < k
  <2>1. PICK q : q = <<p, d>>
    OBVIOUS
  <2>2. d \in DOMAIN s /\ label \in WordsOf(s[d])
    BY DEF Labelled
  <2>3. q[1] = p /\ q[2] = d /\ At(q) = s[d]
    BY <1>1, <2>1 DEF At
  <2>4. q \in Positions /\ q[2] \in DOMAIN pages[q[1]]
    BY <1>1, <1>3, <2>1, <2>2 DEF Positions
  <2>5. At(q).is # "move"
    BY <1>4, <2>2, <2>3, <2>4 DEF Printed
  <2> QED
    BY <1>1, <1>6, <2>2, <2>3, <2>4, <2>5 DEF LaidOutToRedact
<1>7. CASE bank = "fbn"
  <2>1. \A d \in Labelled(s, {"Dear"}) : k \notin (d + 1)..(d + AddressLines)
    <3> SUFFICES ASSUME NEW d \in Labelled(s, {"Dear"}), k \in (d + 1)..(d + AddressLines)
                 PROVE  FALSE
      OBVIOUS
    <3>1. d \in Nat
      BY <1>3 DEF Labelled
    <3>2. d < k
      BY <1>3, <3>1
    <3>3. "Dear" \in Labels
      BY DEF Labels
    <3>4. d + AddressLines < k
      BY <1>6, <1>7, <3>2, <3>3
    <3> QED
      BY <1>3, <3>1, <3>4 DEF AddressLines
  <2>2. k \notin Labelled(s, {"Dear"}) /\ k \notin Labelled(s, {"Account Name:", "Generated By"})
    BY <1>5 DEF Labels
  <2> QED
    BY <1>1, <1>7, <2>1, <2>2 DEF Boxed, FbnHeader, Under
<1>8. CASE bank = "zenith"
  BY <1>1, <1>5, <1>8 DEF Boxed, Labels
<1>9. CASE bank = "palmpay"
  <2>1. \A d \in Labelled(s, {"Address"}) : k \notin (d + 1)..(d + 1)
    <3> SUFFICES ASSUME NEW d \in Labelled(s, {"Address"}), k \in (d + 1)..(d + 1)
                 PROVE  FALSE
      OBVIOUS
    <3>1. d \in Nat
      BY <1>3 DEF Labelled
    <3>2. d < k
      BY <1>3, <3>1
    <3>3. "Address" \in Labels
      BY DEF Labels
    <3>4. d + 1 < k
      BY <1>6, <1>9, <3>2, <3>3
    <3> QED
      BY <1>3, <3>1, <3>4
  <2>2. k \notin Labelled(s, {"Name", "Address"})
    BY <1>5 DEF Labels
  <2> QED
    BY <1>1, <1>9, <2>1, <2>2 DEF Boxed, Under
<1> QED
  BY <1>7, <1>8, <1>9 DEF InputOK

(* What is left of a row plays the part the row played.                    *)
LEMMA CopyPlays ==
    ASSUME InputOK, LaidOut, ReadsAsPrinted, NEW pos, Placed(pos), NEW boxed \in BOOLEAN,
           NEW c, LeftOf(c, At(pos), boxed), pos \in Printed => ~boxed
    PROVE  IsTx(c) <=> IsTx(At(pos))
<1>1. PICK r : r = At(pos)
  OBVIOUS
<1>2. c.words = r.words /\ c.lead = r.lead /\ c.date = r.date /\ c.narr \subseteq r.narr
      /\ c.amount = IF boxed THEN "none" ELSE r.amount
  BY <1>1 DEF LeftOf
<1>3. CASE ~r.date
  BY <1>1, <1>2, <1>3 DEF IsTx, RowKind, HasDateAndBalance
<1>4. CASE r.is = "move"
  <2>1. pos \in Printed
    BY <1>1, <1>4 DEF Printed, Placed
  <2>2. IsTx(r) /\ c.amount = r.amount
    BY <1>1, <1>2, <2>1, MoveOpens
  <2>3. IsChrome(c) => IsChrome(r)
    BY <1>2 DEF IsChrome, FbnChrome, ZenithChrome, Holds, HoldsOne
  <2>4. IsTx(c)
    BY <1>2, <2>2, <2>3 DEF IsTx, RowKind, HasDateAndBalance
  <2> QED
    BY <1>1, <2>2, <2>4
<1>5. CASE r.is = "furniture" /\ r.date /\ LaidOutFurniture(pos)
  <2>1. bank # "palmpay" /\ {"Opening", "Balance"} \subseteq r.words
    BY <1>1, <1>5 DEF LaidOutFurniture
  <2>2. FbnChrome(r) /\ ZenithChrome(r) /\ FbnChrome(c) /\ ZenithChrome(c)
    BY <1>2, <2>1 DEF FbnChrome, FbnMarkers, HoldsOne, ZenithChrome, Holds
  <2>3. IsChrome(r) /\ IsChrome(c)
    BY <2>1, <2>2 DEF IsChrome, InputOK
  <2> QED
    BY <1>1, <2>1, <2>3 DEF IsTx
<1> QED
  BY <1>1, <1>3, <1>4, <1>5, RowLaidOut

(* So the copy of a statement holds the movements of the statement.        *)
LEMMA CopyAlike ==
    ASSUME InputOK, LaidOut, LaidOutToRedact
    PROVE  RedactedAlike
<1> SUFFICES ASSUME ReadsAsPrinted, \A pos \in Printed : At(pos).narr \cap Labels = {},
                    NEW p \in DOMAIN pages, NEW k \in DOMAIN RedactedWalk(bank, pages[p])
             PROVE  /\ IsTx(RedactedWalk(bank, pages[p])[k]) = IsTx(pages[p][k])
                    /\ pages[p][k].is \in {"move", "line"} =>
                         RedactedWalk(bank, pages[p])[k].narr \subseteq Kept
  BY DEF RedactedAlike
<1>1. PICK s, copy, pos : s = pages[p] /\ copy = RedactedWalk(bank, s) /\ pos = <<p, k>>
  OBVIOUS
<1>2. s \in Seq(Rows)
  BY <1>1 DEF InputOK
<1>3. DOMAIN copy = DOMAIN s
  <2>1. CASE s = <<>>
    <3>1. /\ bank = "fbn" => DOMAIN copy = DOMAIN s
          /\ bank = "zenith" => DOMAIN copy = DOMAIN s
          /\ bank = "palmpay" => DOMAIN copy = DOMAIN s
      BY <1>1 DEF RedactedWalk, FbnPage, ZenithPage, PalmPayPage
    <3> QED
      BY <3>1 DEF InputOK
  <2>2. CASE s # <<>>
    <3>1. Len(s) \in Nat /\ DOMAIN s = 1..Len(s) /\ Len(s) # 0
      BY <1>2, <2>2
    <3>2. PICK m : m \in DOMAIN s
      <4>1. 1 \in 1..Len(s)
        BY <3>1
      <4> QED
        BY <3>1, <4>1
    <3> QED
      BY <1>1, <1>2, <3>2, CopyLeaves
  <2> QED
    BY <2>1, <2>2
<1>4. k \in DOMAIN s /\ pos \in Positions /\ pos[1] = p /\ pos[2] = k /\ At(pos) = s[k] /\ Placed(pos)
  BY <1>1, <1>3 DEF Positions, Placed, At
<1>5. /\ LeftOf(copy[k], s[k], k \in Boxed(s))
      /\ (bank = "zenith" => k \in Below(s, {"DATE", "DESCRIPTION"})) => copy[k].narr \subseteq Kept
  BY <1>1, <1>2, <1>4, CopyLeaves
<1>6. pos \in Printed => k \notin Boxed(s)
  BY <1>1, <1>4, MovesNotBoxed
<1>7. PICK boxed : boxed = IF k \in Boxed(s) THEN TRUE ELSE FALSE
  OBVIOUS
<1>8. LeftOf(copy[k], At(pos), boxed) /\ (pos \in Printed => ~boxed)
  BY <1>4, <1>5, <1>6, <1>7 DEF LeftOf
<1>9. IsTx(copy[k]) <=> IsTx(s[k])
  <2>1. boxed \in BOOLEAN
    BY <1>7
  <2> QED
    BY <1>4, <1>8, <2>1, CopyPlays
<1>10. IsTx(copy[k]) = IsTx(s[k])
  <2>1. IsTx(copy[k]) \in BOOLEAN /\ IsTx(s[k]) \in BOOLEAN
    BY DEF IsTx, HasDateAndBalance
  <2> QED
    BY <1>9, <2>1
<1>11. s[k].is \in {"move", "line"} => copy[k].narr \subseteq Kept
  BY <1>1, <1>4, <1>5 DEF LaidOutToRedact
<1> QED
  BY <1>1, <1>10, <1>11

(* Of a statement laid out as the bank does, of any number of pages and    *)
(* rows, the redacted copy holds the movements where the parser looks for  *)
(* them, with their amounts, and of the narrations only known words.       *)
THEOREM CopyReadsAlike == StatementSpec /\ LaidOut /\ LaidOutToRedact => []RedactedAlike
<1>1. (WInv /\ LaidOut /\ LaidOutToRedact) /\ [StatementNext]_all => (WInv /\ LaidOut /\ LaidOutToRedact)'
  <2> SUFFICES ASSUME WInv, LaidOut, LaidOutToRedact, [StatementNext]_all
               PROVE  (WInv /\ LaidOut /\ LaidOutToRedact)'
    OBVIOUS
  <2>1. bank' = bank /\ pages' = pages /\ WInv'
    BY WalkStep, InputStays, WInvStep
  <2>2. LaidOut'
    BY <2>1 DEF LaidOut, LaidOutMove, LaidOutFurniture, Printed, Positions, At, Marks
  <2>3. LaidOutToRedact'
    BY <2>1 DEF LaidOutToRedact, Printed, Positions, At
  <2> QED
    BY <2>1, <2>2, <2>3
<1>2. WInv /\ LaidOut /\ LaidOutToRedact => RedactedAlike
  BY CopyAlike DEF WInv
<1>3. StatementInit => WInv
  BY WInvInit DEF StatementInit
<1> QED
  BY <1>1, <1>2, <1>3, PTL DEF StatementSpec
=============================================================================
