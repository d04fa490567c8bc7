-------------------------- MODULE ReconcileProofs --------------------------
(***************************************************************************)
(* Proofs about Reconcile for every statement: any number of rows, any     *)
(* amounts, any tolerance; and about Ledger, for ledgers of any length.    *)
(***************************************************************************)
EXTENDS Ledger, FiniteSetTheorems, TLAPS

USE ToleranceAssumption, AbsentAssumption

IInv == TypeOK /\ LoopHonest /\ FirstBreakNamed

(* Every balance the loop compares is a number.                            *)
LEMMA RowsTyped ==
    ASSUME TypeOK
    PROVE  /\ rows \in Seq(Transactions) /\ Len(rows) \in Nat /\ DOMAIN rows = 1..Len(rows)
           /\ \A k \in DOMAIN rows : rows[k].debit \in Nat /\ rows[k].credit \in Nat
<1>1. rows \in Seq(Transactions)
  BY DEF TypeOK, ParseResults, rows
<1>2. \A k \in DOMAIN rows : rows[k] \in Transactions
  BY <1>1
<1> QED
  BY <1>1, <1>2 DEF Transactions

(* Nothing is compared and nothing reported before the checks begin.       *)
LEMMA InitIInv == Init => IInv
BY DEF Init, IInv, TypeOK, LoopHonest, FirstBreakNamed, NoError

(* Each step of the checks keeps the invariant.                            *)
LEMMA NextIInv ==
    ASSUME IInv, [Next]_vars
    PROVE  IInv'
<1> USE DEF IInv, TypeOK, LoopHonest, FirstBreakNamed
<1>0. /\ rows \in Seq(Transactions) /\ Len(rows) \in Nat /\ DOMAIN rows = 1..Len(rows)
      /\ \A k \in DOMAIN rows : rows[k].debit \in Nat /\ rows[k].credit \in Nat
  BY RowsTyped
<1>r. result' = result
  BY DEF Next, Over, vars, StartChecks, SumRow, CompareTotals, RowWiseDisabled, NoBalanceColumn,
         PartialBalances, StartChain, ChainRow, ChainHolds, Decide
<1>s. /\ rows' = rows /\ Missing' = Missing /\ HeaderTotals' = HeaderTotals
      /\ \A k : Chains(k)' = Chains(k)
  BY <1>r DEF rows, Missing, HeaderTotals, Chains, Expected
<1>1. CASE StartChecks
  BY <1>1, <1>0, <1>s DEF StartChecks, Raise
<1>2. CASE SumRow
  <2>1. rows[i].debit \in Nat /\ rows[i].credit \in Nat
    BY <1>0, <1>2 DEF SumRow
  <2>2. /\ sumDebit' = sumDebit + rows[i].debit /\ sumCredit' = sumCredit + rows[i].credit
        /\ i' = i + 1 /\ pc = "sum"
        /\ UNCHANGED <<result, pc, totals, rowWise, error>>
    BY <1>2 DEF SumRow
  <2>n. sumDebit \in Nat /\ sumCredit \in Nat /\ i \in Nat \ {0}
    OBVIOUS
  <2>3. sumDebit' \in Nat /\ sumCredit' \in Nat /\ i' \in Nat \ {0}
    <3> HIDE DEF IInv, TypeOK, LoopHonest, FirstBreakNamed
    <3> QED
      BY <2>1, <2>2, <2>n
  <2> USE <1>s, <2>2
  <2>4. TypeOK'
    BY <1>r, <2>3
  <2>5. LoopHonest'
    OBVIOUS
  <2>6. FirstBreakNamed'
    OBVIOUS
  <2> QED
    BY <2>4, <2>5, <2>6
<1>3. CASE CompareTotals
  <2>1. \/ error' = [kind |-> "credits", row |-> 0] /\ pc' = "raised" /\ totals' = totals
        \/ error' = [kind |-> "debits", row |-> 0] /\ pc' = "raised" /\ totals' = totals
        \/ totals' = "passed" /\ pc' = "row_wise" /\ error' = error
    BY <1>3 DEF CompareTotals, Raise
  <2>2. pc = "sum" /\ UNCHANGED <<result, i, sumDebit, sumCredit, rowWise>>
    BY <1>3 DEF CompareTotals
  <2> QED
    BY <1>s, <2>1, <2>2
<1>4. CASE RowWiseDisabled
  BY <1>4, <1>0, <1>s DEF RowWiseDisabled, Raise
<1>5. CASE NoBalanceColumn
  BY <1>5, <1>0, <1>s DEF NoBalanceColumn, Raise
<1>6. CASE PartialBalances
  <2>1. PICK k \in DOMAIN rows : IsFirst(k, Missing) /\ Raise("missing", k)
    BY <1>6 DEF PartialBalances
  <2>2. rows[k].balance = Absent /\ k \in Nat
    BY <1>0, <2>1 DEF IsFirst, Missing
  <2>3. \A m \in 1..(k - 1) : rows[m].balance # Absent
    <3> SUFFICES ASSUME NEW m \in 1..(k - 1), rows[m].balance = Absent PROVE FALSE
      OBVIOUS
    <3>1. m \in DOMAIN rows /\ m < k
      BY <1>0, <2>1
    <3>2. k <= m
      BY <2>1, <3>1 DEF IsFirst, Missing
    <3> QED
      BY <2>2, <3>1, <3>2
  <2>4. pc = "row_wise" /\ UNCHANGED <<result, i, sumDebit, sumCredit, totals, rowWise>>
    BY <1>6 DEF PartialBalances
  <2>5. error' = [kind |-> "missing", row |-> k] /\ pc' = "raised"
    BY <2>1 DEF Raise
  <2> QED
    BY <1>s, <2>1, <2>2, <2>3, <2>4, <2>5
<1>7. CASE StartChain
  BY <1>7, <1>0, <1>s DEF StartChain, Raise
<1>8. CASE ChainRow
  <2>1. pc = "chain" /\ i \in 2..Len(rows) /\ \A k \in 2..(i - 1) : Chains(k)
    BY <1>0, <1>8 DEF ChainRow
  <2>2. CASE Chains(i)
    <3>1. i' = i + 1 /\ UNCHANGED <<pc, error, result, sumDebit, sumCredit, totals, rowWise>>
      BY <1>8, <2>2 DEF ChainRow
    <3>2. \A k \in 2..(i' - 1) : Chains(k)
      BY <2>1, <2>2, <3>1
    <3>3. i' \in 2..(Len(rows) + 1)
      BY <1>0, <2>1, <3>1
    <3> QED
      BY <1>s, <2>1, <3>1, <3>2, <3>3
  <2>3. CASE ~Chains(i)
    <3>1. /\ error' = [kind |-> "balance", row |-> i] /\ pc' = "raised" /\ i' = i
          /\ UNCHANGED <<result, sumDebit, sumCredit, totals, rowWise>>
      BY <1>8, <2>3 DEF ChainRow, Raise
    <3> QED
      BY <1>s, <2>1, <2>3, <3>1
  <2> QED
    BY <2>2, <2>3
<1>9. CASE ChainHolds
  BY <1>9, <1>0, <1>s DEF ChainHolds, Raise
<1>10. CASE Decide
  BY <1>10, <1>0, <1>s DEF Decide, Raise
<1>11. CASE UNCHANGED vars
  BY <1>11, <1>s DEF vars
<1> QED
  BY <1>1, <1>2, <1>3, <1>4, <1>5, <1>6, <1>7, <1>8, <1>9, <1>10, <1>11 DEF Next, Over

(* The statuses mean what they say in every state of the checks.           *)
LEMMA Invariant == Spec => []IInv
<1>1. IInv /\ [Next]_vars => IInv'
  BY NextIInv
<1> QED
  BY InitIInv, <1>1, PTL DEF Spec

(* The sums, the row and the statuses of reconcile_result keep their types *)
(* for a statement of any length and amounts of any size.                  *)
THEOREM TypeCorrect == Spec => []TypeOK
<1>1. IInv => TypeOK
  BY DEF IInv
<1> QED
  BY <1>1, Invariant, PTL

(* A report never overstates: for every statement and tolerance, row_wise  *)
(* passed means each row has a balance and follows from the one before,    *)
(* and a report comes only with a check that passed.                       *)
THEOREM ReportCorrect == Spec => []ReportHonest
<1>1. IInv => ReportHonest
  BY DEF IInv, LoopHonest, ReportHonest, Missing
<1> QED
  BY <1>1, Invariant, PTL

(* For every statement and tolerance, the row_index of an error is the     *)
(* first row that has no balance, or whose balance does not follow.        *)
THEOREM BreakCorrect == Spec => []FirstBreakNamed
<1>1. IInv => FirstBreakNamed
  BY DEF IInv
<1> QED
  BY <1>1, Invariant, PTL

-----------------------------------------------------------------------------
(* Sums of sequences of any length                                         *)

(* Induction, for a set of numbers instead of an operator.                 *)
LEMMA Induct ==
    ASSUME NEW n \in Nat, NEW T, 0 \in T, \A k \in 1..n : k - 1 \in T => k \in T
    PROVE  0..n \subseteq T
<1> SUFFICES ASSUME NEW F, F = {k \in 0..n : k \notin T}, F # {}
             PROVE  FALSE
  OBVIOUS
<1>1. F \subseteq Nat
  OBVIOUS
<1>2. PICK m \in F : \A k \in F : <<k, m>> \notin OpToRel(<, Nat)
  BY <1>1, WFMin, NatLessThanWellFounded, Zenon
<1>3. m \in 1..n /\ m - 1 \in 0..n /\ m - 1 \in Nat /\ m \in Nat /\ m - 1 < m
  OBVIOUS
<1>4. m - 1 \in F
  BY <1>3
<1>5. <<m - 1, m>> \in OpToRel(<, Nat)
  BY <1>3 DEF OpToRel
<1> QED
  BY <1>2, <1>4, <1>5

(* g holds the sums of the first numbers of s, up to n of them.            *)
SumsUpTo(g, s, n) ==
    /\ g \in [0..n -> Int] /\ g[0] = 0
    /\ \A k \in 1..n : g[k] = g[k - 1] + s[k]

(* Such a function exists for every sequence of numbers.                   *)
LEMMA SumsExist ==
    ASSUME NEW s \in Seq(Int)
    PROVE  \E g : SumsUpTo(g, s, Len(s))
<1> DEFINE T == {n \in 0..Len(s) : \E g : SumsUpTo(g, s, n)}
<1>0. Len(s) \in Nat /\ \A k \in 1..Len(s) : s[k] \in Int
  OBVIOUS
<1>1. 0 \in T
  <2>1. SumsUpTo([k \in 0..0 |-> 0], s, 0)
    BY DEF SumsUpTo
  <2> QED
    BY <1>0, <2>1
<1>2. ASSUME NEW n \in 1..Len(s), n - 1 \in T
      PROVE  n \in T
  <2>1. PICK g : SumsUpTo(g, s, n - 1)
    BY <1>2
  <2>2. n \in Nat /\ n - 1 \in 0..(n - 1) /\ 0 \in 0..(n - 1) /\ s[n] \in Int
    BY <1>0
  <2>3. PICK h : h = [k \in 0..n |-> IF k = n THEN g[n - 1] + s[n] ELSE g[k]]
    OBVIOUS
  <2>4. g \in [0..(n - 1) -> Int] /\ g[0] = 0 /\ \A k \in 1..(n - 1) : g[k] = g[k - 1] + s[k]
    BY <2>1 DEF SumsUpTo
  <2>5. \A k \in 0..n : k # n => k \in 0..(n - 1)
    BY <2>2
  <2>6. h \in [0..n -> Int]
    BY <2>2, <2>3, <2>4, <2>5
  <2>7. h[0] = 0
    BY <2>2, <2>3, <2>4
  <2>8. ASSUME NEW k \in 1..n
        PROVE  h[k] = h[k - 1] + s[k]
    <3>1. k - 1 \in 0..n /\ k - 1 # n /\ k \in 0..n
      BY <2>2
    <3>2. h[k - 1] = g[k - 1] /\ h[k] = IF k = n THEN g[n - 1] + s[n] ELSE g[k]
      BY <2>3, <3>1
    <3>3. k # n => k \in 1..(n - 1)
      BY <2>2
    <3> QED
      BY <2>4, <3>2, <3>3
  <2>9. SumsUpTo(h, s, n)
    BY <2>6, <2>7, <2>8 DEF SumsUpTo
  <2> QED
    BY <2>2, <2>9
<1>3. 0..Len(s) \subseteq T
  <2> HIDE DEF T
  <2> QED
    BY <1>0, <1>1, <1>2, Induct
<1> QED
  BY <1>0, <1>3

(* The recursive function of Sums is that function.                        *)
LEMMA SumsAre ==
    ASSUME NEW s \in Seq(Int)
    PROVE  SumsUpTo(Sums(s), s, Len(s))
<1>1. PICK g : SumsUpTo(g, s, Len(s))
  BY SumsExist
<1>2. Len(s) \in Nat /\ \A k \in 1..Len(s) : s[k] \in Int
  OBVIOUS
<1>3. g = [k \in 0..Len(s) |-> IF k = 0 THEN 0 ELSE g[k - 1] + s[k]]
  <2>1. \A k \in 0..Len(s) : g[k] = IF k = 0 THEN 0 ELSE g[k - 1] + s[k]
    BY <1>1, <1>2 DEF SumsUpTo
  <2>2. g = [k \in 0..Len(s) |-> g[k]]
    BY <1>1 DEF SumsUpTo
  <2> QED
    BY <2>1, <2>2
<1>4. Sums(s) = [k \in 0..Len(s) |-> IF k = 0 THEN 0 ELSE Sums(s)[k - 1] + s[k]]
  BY <1>3 DEF Sums
<1>5. PICK f : f = Sums(s)
  OBVIOUS
<1>6. /\ f = [k \in 0..Len(s) |-> IF k = 0 THEN 0 ELSE f[k - 1] + s[k]]
  BY <1>4, <1>5
<1>7. f[0] = 0 /\ \A k \in 1..Len(s) : f[k] = f[k - 1] + s[k]
  <2>1. 0 \in 0..Len(s)
    BY <1>2
  <2>2. f[0] = 0
    BY <1>6, <2>1
  <2>3. ASSUME NEW k \in 1..Len(s)
        PROVE  f[k] = f[k - 1] + s[k]
    <3>1. k \in 0..Len(s) /\ k # 0
      BY <1>2
    <3> QED
      BY <1>6, <3>1
  <2> QED
    BY <2>2, <2>3
<1>8. \A k \in 0..Len(s) : f[k] \in Int
  <2> DEFINE T == {k \in 0..Len(s) : f[k] \in Int}
  <2>1. 0 \in T
    BY <1>2, <1>7
  <2>3. ASSUME NEW k \in 1..Len(s), k - 1 \in T
        PROVE  k \in T
    <3>1. f[k - 1] \in Int /\ s[k] \in Int /\ k \in 0..Len(s) /\ f[k] = f[k - 1] + s[k]
      BY <1>2, <1>7, <2>3
    <3> QED
      BY <3>1
  <2>2. 0..Len(s) \subseteq T
    <3> HIDE DEF T
    <3> QED
      BY <1>2, <2>1, <2>3, Induct
  <2> QED
    BY <2>2
<1>9. f \in [0..Len(s) -> Int]
  BY <1>6, <1>8
<1> QED
  BY <1>5, <1>7, <1>9 DEF SumsUpTo

-----------------------------------------------------------------------------
(* What a set of things weighs, and the sum over a sequence of them        *)

(* f[x] units of each x of S.                                              *)
Units(S, f) == UNION {{<<x, n>> : n \in 1..f[x]} : x \in S}
Weight(S, f) == Cardinality(Units(S, f))
Weighs(S, f) == IsFiniteSet(S) /\ \A x \in S : f[x] \in Nat

(* The units are finitely many.                                            *)
LEMMA UnitsFinite ==
    ASSUME NEW S, NEW f, Weighs(S, f)
    PROVE  IsFiniteSet(Units(S, f)) /\ Weight(S, f) \in Nat
<1>1. PICK all : all = {{<<x, n>> : n \in 1..f[x]} : x \in S}
  OBVIOUS
<1>2. IsFiniteSet(all)
  <2>1. [x \in S |-> {<<x, n>> : n \in 1..f[x]}] \in Surjection(S, all)
    BY <1>1 DEF Surjection
  <2> QED
    BY <2>1, FS_Surjection DEF Weighs
<1>3. ASSUME NEW x \in S
      PROVE  IsFiniteSet({<<x, n>> : n \in 1..f[x]})
  <2>1. PICK m \in Nat : m = f[x]
    BY DEF Weighs
  <2>2. PICK U : U = {<<x, n>> : n \in 1..m}
    OBVIOUS
  <2>3. IsFiniteSet(1..m)
    BY FS_Interval
  <2>4. [n \in 1..m |-> <<x, n>>] \in Surjection(1..m, U)
    BY <2>2 DEF Surjection
  <2>5. IsFiniteSet(U)
    BY <2>3, <2>4, FS_Surjection
  <2> QED
    BY <2>1, <2>2, <2>5
<1>4. IsFiniteSet(UNION all)
  BY <1>1, <1>2, <1>3, FS_UNION
<1>5. IsFiniteSet(Units(S, f))
  BY <1>1, <1>4 DEF Units
<1> QED
  BY <1>5, FS_CardinalityType DEF Weight

(* Sets apart add up.                                                      *)
LEMMA WeightApart ==
    ASSUME NEW S, NEW T, NEW f, Weighs(S, f), Weighs(T, f), S \cap T = {}, NEW W, W = S \cup T
    PROVE  Weighs(W, f) /\ Weight(W, f) = Weight(S, f) + Weight(T, f)
<1>1. PICK U, V : U = Units(S, f) /\ V = Units(T, f)
  OBVIOUS
<1>2. IsFiniteSet(U) /\ IsFiniteSet(V)
  BY <1>1, UnitsFinite
<1>3. U \cap V = {} /\ Units(W, f) = U \cup V
  BY <1>1 DEF Units
<1>4. PICK c, s, t : c = Cardinality(U \cup V) /\ s = Cardinality(U) /\ t = Cardinality(V)
  OBVIOUS
<1>5. s \in Nat /\ t \in Nat
  BY <1>2, <1>4, FS_CardinalityType
<1>6. Cardinality(U \cap V) = 0
  BY <1>3, FS_EmptySet
<1>7. c = s + t - 0
  BY <1>2, <1>4, <1>6, FS_Union
<1>8. c = s + t
  BY <1>5, <1>7
<1>9. Weighs(W, f)
  BY FS_Union DEF Weighs
<1> QED
  BY <1>1, <1>3, <1>4, <1>8, <1>9 DEF Weight

(* What is left out weighs the difference.                                 *)
LEMMA WeightLeft ==
    ASSUME NEW S, NEW f, Weighs(S, f), NEW T \in SUBSET S
    PROVE  /\ Weighs(T, f) /\ Weighs(S \ T, f)
           /\ Weight(T, f) \in Nat /\ Weight(S \ T, f) \in Nat
           /\ Weight(S, f) = Weight(T, f) + Weight(S \ T, f)
<1>1. PICK L : L = S \ T
  OBVIOUS
<1>2. L \in SUBSET S /\ T \cap L = {}
  BY <1>1
<1>3. S = T \cup L
  BY <1>1
<1>4. Weighs(T, f) /\ Weighs(L, f)
  BY <1>2, FS_Subset DEF Weighs
<1>5. Weight(S, f) = Weight(T, f) + Weight(L, f)
  BY <1>2, <1>3, <1>4, WeightApart
<1> QED
  BY <1>1, <1>4, <1>5, UnitsFinite

(* One thing weighs what f says; nothing weighs nothing.                   *)
LEMMA WeightOfOne ==
    ASSUME NEW x, NEW f, f[x] \in Nat
    PROVE  Weighs({x}, f) /\ Weight({x}, f) = f[x]
<1>1. PICK m \in Nat : m = f[x]
  OBVIOUS
<1> PICK U : U = Units({x}, f)
  OBVIOUS
<1>2. U = {<<x, n>> : n \in 1..m}
  BY <1>1 DEF Units
<1>3. IsFiniteSet(1..m) /\ Cardinality(1..m) = m
  BY FS_Interval
<1>4. PICK g : g = [n \in 1..m |-> <<x, n>>]
  OBVIOUS
<1>5. g \in Surjection(1..m, U) /\ g \in Injection(1..m, U)
  <2>1. \A n \in 1..m : g[n] = <<x, n>>
    BY <1>4
  <2>2. g \in [1..m -> U]
    BY <1>2, <1>4
  <2>3. \A y \in U : \E n \in 1..m : g[n] = y
    BY <1>2, <2>1
  <2>4. \A j, k \in 1..m : g[j] = g[k] => j = k
    BY <2>1
  <2> QED
    BY <2>2, <2>3, <2>4 DEF Surjection, Injection, IsInjective
<1>6. Cardinality(U) = Cardinality(1..m)
  BY <1>3, <1>5, FS_Surjection
<1> QED
  BY <1>1, <1>3, <1>6, FS_Singleton DEF Weight, Weighs

LEMMA WeightOfNone ==
    ASSUME NEW f
    PROVE  Weighs({}, f) /\ Weight({}, f) = 0
<1>1. Units({}, f) = {}
  BY DEF Units
<1> QED
  BY <1>1, FS_EmptySet DEF Weight, Weighs

(* s lists what f says of the things hs goes through, each of S once.      *)
Lists(s, f, hs, S) ==
    /\ s \in Seq(Int) /\ \A k \in 1..Len(s) : s[k] = f[hs[k]] /\ f[hs[k]] \in Nat
    /\ \A k \in 1..Len(s) : \A j \in 1..(k - 1) : hs[j] # hs[k]
    /\ \A k \in 1..Len(s) : hs[k] \in S
    /\ \A x \in S : \E k \in 1..Len(s) : x = hs[k]

(* Its sum is what they weigh.                                             *)
LEMMA WeightOfSequence ==
    ASSUME NEW s, NEW f, NEW hs, NEW S, Lists(s, f, hs, S)
    PROVE  Total(s) = Weight(S, f)
<1>1. PICK n \in Nat : n = Len(s)
  BY DEF Lists
<1>2. PICK g : g = Sums(s)
  OBVIOUS
<1>3. g[0] = 0 /\ \A k \in 1..n : g[k] = g[k - 1] + f[hs[k]]
  <2>1. SumsUpTo(g, s, n)
    BY <1>1, <1>2, SumsAre DEF Lists
  <2> QED
    BY <1>1, <2>1 DEF SumsUpTo, Lists
<1>4. /\ \A k \in 1..n : f[hs[k]] \in Nat /\ hs[k] \in S
      /\ \A k \in 1..n : \A j \in 1..(k - 1) : hs[j] # hs[k]
      /\ \A x \in S : \E k \in 1..n : x = hs[k]
  BY <1>1 DEF Lists
<1> DEFINE U(m) == {hs[j] : j \in 1..m}
           T == {m \in 0..n : Weighs(U(m), f) /\ g[m] = Weight(U(m), f)}
<1>5. 0 \in T
  <2>1. U(0) = {}
    OBVIOUS
  <2>2. Weighs(U(0), f) /\ Weight(U(0), f) = 0
    BY <2>1, WeightOfNone
  <2> QED
    BY <1>3, <2>2
<1>6. ASSUME NEW k \in 1..n, k - 1 \in T
      PROVE  k \in T
  <2>1. PICK V, h : V = U(k - 1) /\ h = hs[k]
    OBVIOUS
  <2>2. Weighs(V, f) /\ g[k - 1] = Weight(V, f)
    BY <1>6, <2>1
  <2>3. \A j : j \in 1..k <=> j \in 1..(k - 1) \/ j = k
    OBVIOUS
  <2>4. PICK W : W = U(k)
    OBVIOUS
  <2>5. W = V \cup {h}
    <3>1. \A x : x \in W <=> x \in V \/ x = h
      BY <2>1, <2>3, <2>4
    <3> QED
      BY <3>1
  <2>6. V \cap {h} = {}
    <3>1. h \notin V
      BY <1>4, <2>1
    <3> QED
      BY <3>1
  <2>7. f[h] \in Nat
    BY <1>4, <2>1
  <2>8. Weighs({h}, f) /\ Weight({h}, f) = f[h]
    BY <2>7, WeightOfOne
  <2>9. Weighs(W, f) /\ Weight(W, f) = Weight(V, f) + Weight({h}, f)
    BY <2>2, <2>5, <2>6, <2>8, WeightApart
  <2>10. g[k] = g[k - 1] + f[h]
    BY <1>3, <2>1
  <2>11. Weighs(U(k), f) /\ g[k] = Weight(U(k), f)
    BY <2>2, <2>4, <2>8, <2>9, <2>10
  <2> HIDE DEF U
  <2> QED
    BY <2>11
<1>7. 0..n \subseteq T
  <2> HIDE DEF T
  <2> QED
    BY <1>5, <1>6, Induct
<1>8. g[n] = Weight(U(n), f)
  <2>1. n \in 0..n
    OBVIOUS
  <2>2. n \in T
    <3> HIDE DEF T
    <3> QED
      BY <1>7, <2>1
  <2> QED
    BY <2>2
<1>9. U(n) = S
  <2>1. \A x : x \in U(n) <=> x \in S
    BY <1>4
  <2> QED
    BY <2>1
<1> QED
  BY <1>1, <1>2, <1>8, <1>9 DEF Total

-----------------------------------------------------------------------------
(* What reconcile_result decides                                           *)

TotalsMatch ==
    /\ Distance(Total(Credits(rows)), result.totalCredit) <= Tolerance
    /\ Distance(Total(Debits(rows)), result.totalDebit) <= Tolerance
NoColumn == Missing = DOMAIN rows
AllChain == Missing = {} /\ \A k \in 2..Len(rows) : Chains(k)

(* Totals that were printed match; rows with balances, unless the bank     *)
(* opted out, have one each and follow from each other; and there is       *)
(* something of either kind to go by.                                      *)
Accepts ==
    /\ HeaderTotals => TotalsMatch
    /\ result.optOut \/ NoColumn \/ AllChain
    /\ HeaderTotals \/ (~result.optOut /\ ~NoColumn)

(* The sums are those of the rows behind the loop.                         *)
SumsSoFar ==
    pc \in {"start", "sum"} =>
        /\ i \in 1..(Len(rows) + 1)
        /\ sumDebit = Sums(Debits(rows))[i - 1] /\ sumCredit = Sums(Credits(rows))[i - 1]

(* What the steps so far have settled, and the verdict.                    *)
Settled ==
    /\ pc = "start" => i = 1
    /\ pc \in {"row_wise", "chain", "decide"} => (HeaderTotals <=> totals = "passed") /\ (HeaderTotals => TotalsMatch)
    /\ pc = "chain" => ~NoColumn
    /\ pc = "decide" /\ ~result.optOut =>
         IF NoColumn THEN rowWise # "passed" ELSE rowWise = "passed"
VerdictRight ==
    /\ pc = "reported" => Accepts
    /\ pc = "raised" => ~Accepts

Judged == IInv /\ SumsSoFar /\ Settled /\ VerdictRight

(* The two columns of amounts are sequences of numbers, row for row.       *)
LEMMA ColumnsTyped ==
    ASSUME TypeOK
    PROVE  /\ Debits(rows) \in Seq(Int) /\ Credits(rows) \in Seq(Int)
           /\ Len(Debits(rows)) = Len(rows) /\ Len(Credits(rows)) = Len(rows)
           /\ \A k \in DOMAIN rows : Debits(rows)[k] = rows[k].debit /\ Credits(rows)[k] = rows[k].credit
BY RowsTyped DEF Debits, Credits

(* The checks begin with nothing summed and nothing settled.               *)
LEMMA JudgedInit == Init => Judged
<1> SUFFICES ASSUME Init PROVE Judged
  OBVIOUS
<1>1. IInv /\ TypeOK
  BY InitIInv DEF IInv
<1>2. Sums(Debits(rows))[0] = 0 /\ Sums(Credits(rows))[0] = 0
  BY <1>1, ColumnsTyped, SumsAre DEF SumsUpTo
<1>3. Len(rows) \in Nat
  BY <1>1, RowsTyped
<1>4. pc = "start" /\ i = 1 /\ sumDebit = 0 /\ sumCredit = 0
  BY DEF Init
<1>5. i \in 1..(Len(rows) + 1) /\ i - 1 = 0
  BY <1>3, <1>4
<1>6. SumsSoFar
  BY <1>2, <1>4, <1>5 DEF SumsSoFar
<1> QED
  BY <1>1, <1>4, <1>6 DEF Judged, Settled, VerdictRight

(* No step writes the result, so nothing said of it alone changes.         *)
LEMMA ResultStays ==
    ASSUME [Next]_vars
    PROVE  /\ result' = result /\ rows' = rows /\ Missing' = Missing /\ HeaderTotals' = HeaderTotals
           /\ NoColumn' = NoColumn /\ AllChain' = AllChain /\ TotalsMatch' = TotalsMatch
           /\ Accepts' = Accepts /\ \A k : Chains(k)' = Chains(k)
<1>1. result' = result
  BY DEF Next, Over, vars, StartChecks, SumRow, CompareTotals, RowWiseDisabled, NoBalanceColumn,
         PartialBalances, StartChain, ChainRow, ChainHolds, Decide
<1>2. rows' = rows
  BY <1>1 DEF rows
<1>3. Missing' = Missing /\ HeaderTotals' = HeaderTotals /\ \A k : Chains(k)' = Chains(k)
  BY <1>1, <1>2 DEF Missing, HeaderTotals, Chains, Expected
<1>4. NoColumn' = NoColumn /\ AllChain' = AllChain /\ TotalsMatch' = TotalsMatch
  BY <1>1, <1>2, <1>3 DEF NoColumn, AllChain, TotalsMatch
<1> QED
  BY <1>1, <1>2, <1>3, <1>4 DEF Accepts

(* Each step keeps the sums and what has been settled.                     *)
LEMMA JudgedStep ==
    ASSUME Judged, [Next]_vars
    PROVE  Judged'
<1>0. IInv /\ IInv' /\ TypeOK /\ LoopHonest /\ LoopHonest' /\ Len(rows) \in Nat /\ i \in Nat \ {0}
  BY NextIInv, RowsTyped DEF Judged, IInv, TypeOK
<1>s. /\ result' = result /\ rows' = rows /\ HeaderTotals' = HeaderTotals /\ NoColumn' = NoColumn
      /\ TotalsMatch' = TotalsMatch /\ Accepts' = Accepts
  BY ResultStays
<1>u. Settled /\ SumsSoFar /\ VerdictRight
  BY DEF Judged
<1>n. Missing = {} /\ rows # <<>> => ~NoColumn
  BY <1>0, RowsTyped DEF NoColumn
<1> SUFFICES SumsSoFar' /\ Settled' /\ VerdictRight'
  BY <1>0 DEF Judged
<1>1. CASE StartChecks
  <2>1. /\ pc = "start" /\ pc' = IF HeaderTotals THEN "sum" ELSE "row_wise"
        /\ UNCHANGED <<i, sumDebit, sumCredit, totals, rowWise>>
    BY <1>1 DEF StartChecks
  <2>2. HeaderTotals \/ totals # "passed"
    BY <1>0 DEF LoopHonest
  <2> QED
    BY <1>s, <1>u, <2>1, <2>2 DEF SumsSoFar, Settled, VerdictRight
<1>2. CASE SumRow
  <2>1. /\ pc = "sum" /\ pc' = "sum" /\ i <= Len(rows) /\ i' = i + 1
        /\ sumDebit' = sumDebit + rows[i].debit /\ sumCredit' = sumCredit + rows[i].credit
    BY <1>2 DEF SumRow
  <2>2. i \in 1..Len(rows) /\ i \in DOMAIN rows /\ i' \in 1..(Len(rows) + 1) /\ i' - 1 = i
    BY <1>0, <2>1, RowsTyped
  <2>3. Sums(Debits(rows))[i] = Sums(Debits(rows))[i - 1] + rows[i].debit
    <3>1. PICK s : s = Debits(rows) /\ s \in Seq(Int) /\ Len(s) = Len(rows) /\ s[i] = rows[i].debit
      BY <1>0, <2>2, ColumnsTyped
    <3>2. SumsUpTo(Sums(s), s, Len(s))
      BY <3>1, SumsAre
    <3> QED
      BY <2>2, <3>1, <3>2 DEF SumsUpTo
  <2>4. Sums(Credits(rows))[i] = Sums(Credits(rows))[i - 1] + rows[i].credit
    <3>1. PICK s : s = Credits(rows) /\ s \in Seq(Int) /\ Len(s) = Len(rows) /\ s[i] = rows[i].credit
      BY <1>0, <2>2, ColumnsTyped
    <3>2. SumsUpTo(Sums(s), s, Len(s))
      BY <3>1, SumsAre
    <3> QED
      BY <2>2, <3>1, <3>2 DEF SumsUpTo
  <2>5. SumsSoFar'
    BY <1>s, <1>u, <2>1, <2>2, <2>3, <2>4 DEF SumsSoFar
  <2> QED
    BY <2>1, <2>5 DEF Settled, VerdictRight
<1>3. CASE CompareTotals
  <2>1. pc = "sum" /\ i > Len(rows) /\ rowWise' = rowWise /\ HeaderTotals
    BY <1>0, <1>3 DEF CompareTotals, LoopHonest
  <2>2. i - 1 = Len(rows) /\ Len(Debits(rows)) = Len(rows) /\ Len(Credits(rows)) = Len(rows)
    BY <1>0, <1>u, <2>1, ColumnsTyped DEF SumsSoFar
  <2>3. sumDebit = Total(Debits(rows)) /\ sumCredit = Total(Credits(rows))
    BY <1>u, <2>1, <2>2 DEF SumsSoFar, Total
  <2>d. /\ Distance(sumCredit, result.totalCredit) \in Int /\ Distance(sumDebit, result.totalDebit) \in Int
    <3>1. result.totalCredit \in Headers /\ result.totalDebit \in Headers
      BY <1>0 DEF TypeOK, ParseResults
    <3>2. result.totalCredit \in Int /\ result.totalDebit \in Int
      BY <2>1, <3>1 DEF Headers, HeaderTotals
    <3>3. sumDebit \in Int /\ sumCredit \in Int
      BY <1>0 DEF TypeOK
    <3>4. \A a, b \in Int : Distance(a, b) \in Int
      BY DEF Distance
    <3> QED
      BY <3>2, <3>3, <3>4
  <2>4. CASE TotalsMatch
    <3>1. totals' = "passed" /\ pc' = "row_wise"
      BY <1>3, <2>3, <2>4, <2>d DEF CompareTotals, TotalsMatch
    <3> QED
      BY <1>s, <2>1, <2>4, <3>1 DEF SumsSoFar, Settled, VerdictRight
  <2>5. CASE ~TotalsMatch
    <3>1. pc' = "raised"
      BY <1>3, <2>3, <2>5, <2>d DEF CompareTotals, TotalsMatch, Raise
    <3> QED
      BY <1>s, <2>1, <2>5, <3>1 DEF SumsSoFar, Settled, VerdictRight, Accepts
  <2> QED
    BY <2>4, <2>5
<1>4. CASE RowWiseDisabled
  <2>1. pc = "row_wise" /\ result.optOut /\ pc' = "decide" /\ totals' = totals
    BY <1>4 DEF RowWiseDisabled
  <2> QED
    BY <1>s, <1>u, <2>1 DEF SumsSoFar, Settled, VerdictRight
<1>5. CASE NoBalanceColumn
  <2>1. pc = "row_wise" /\ NoColumn /\ pc' = "decide" /\ totals' = totals /\ rowWise' = rowWise
    BY <1>5 DEF NoBalanceColumn, NoColumn
  <2>2. rowWise # "passed"
    BY <1>0, <2>1 DEF LoopHonest
  <2> QED
    BY <1>s, <1>u, <2>1, <2>2 DEF SumsSoFar, Settled, VerdictRight
<1>6. CASE PartialBalances
  <2>1. ~result.optOut /\ Missing # {} /\ ~NoColumn /\ pc' = "raised"
    BY <1>6 DEF PartialBalances, NoColumn, Raise
  <2> QED
    BY <1>s, <2>1 DEF SumsSoFar, Settled, VerdictRight, Accepts, AllChain
<1>7. CASE StartChain
  <2>1. pc = "row_wise" /\ Missing = {} /\ rows # <<>> /\ pc' = "chain" /\ totals' = totals
    BY <1>7 DEF StartChain
  <2> QED
    BY <1>n, <1>s, <1>u, <2>1 DEF SumsSoFar, Settled, VerdictRight
<1>8. CASE ChainRow
  <2>1. pc = "chain" /\ i <= Len(rows) /\ totals' = totals /\ i \in 2..Len(rows) /\ ~result.optOut
    BY <1>0, <1>8 DEF ChainRow, LoopHonest
  <2>2. CASE Chains(i)
    <3>1. pc' = pc
      BY <1>8, <2>2 DEF ChainRow
    <3> QED
      BY <1>s, <1>u, <2>1, <3>1 DEF SumsSoFar, Settled, VerdictRight
  <2>3. CASE ~Chains(i)
    <3>1. pc' = "raised"
      BY <1>8, <2>3 DEF ChainRow, Raise
    <3>2. ~AllChain /\ ~NoColumn
      BY <1>u, <2>1, <2>3 DEF AllChain, Settled
    <3> QED
      BY <1>s, <2>1, <3>1, <3>2 DEF SumsSoFar, Settled, VerdictRight, Accepts
  <2> QED
    BY <2>2, <2>3
<1>9. CASE ChainHolds
  <2>1. pc = "chain" /\ pc' = "decide" /\ rowWise' = "passed" /\ totals' = totals
    BY <1>9 DEF ChainHolds
  <2> QED
    BY <1>s, <1>u, <2>1 DEF SumsSoFar, Settled, VerdictRight
<1>10. CASE Decide
  <2>1. pc = "decide" /\ pc' = IF totals # "passed" /\ rowWise # "passed" THEN "raised" ELSE "reported"
    BY <1>10 DEF Decide, Raise
  <2>2. rowWise = "passed" => AllChain /\ ~result.optOut
    BY <1>0 DEF LoopHonest, AllChain
  <2>3. Accepts <=> totals = "passed" \/ rowWise = "passed"
    BY <1>u, <2>1, <2>2 DEF Settled, Accepts
  <2> QED
    BY <1>s, <2>1, <2>3 DEF SumsSoFar, Settled, VerdictRight
<1>11. CASE Over \/ UNCHANGED vars
  BY <1>s, <1>u, <1>11 DEF Over, vars, SumsSoFar, Settled, VerdictRight
<1> QED
  BY <1>1, <1>2, <1>3, <1>4, <1>5, <1>6, <1>7, <1>8, <1>9, <1>10, <1>11 DEF Next

(* reconcile_result decides what it should: it returns a report of exactly *)
(* the statements whose totals match, whose balances follow from each      *)
(* other and which give it something to go by, and raises for all others.  *)
THEOREM VerdictCorrect == Spec => []VerdictRight
<1>1. Judged /\ [Next]_vars => Judged'
  BY JudgedStep
<1>2. Judged => VerdictRight
  BY DEF Judged
<1> QED
  BY JudgedInit, <1>1, <1>2, PTL DEF Spec

(* t is s without its element at.                                          *)
Without(s, t, at) ==
    /\ at \in DOMAIN s /\ Len(t) = Len(s) - 1
    /\ \A k \in DOMAIN t : t[k] = IF k < at THEN s[k] ELSE s[k + 1]

(* RemoveAt takes one element out.                                         *)
LEMMA Removed ==
    ASSUME NEW S, NEW s \in Seq(S), NEW at \in 1..Len(s)
    PROVE  RemoveAt(s, at) \in Seq(S) /\ Without(s, RemoveAt(s, at), at)
<1>1. PICK a : a = SubSeq(s, 1, at - 1)
  OBVIOUS
<1>2. PICK b : b = SubSeq(s, at + 1, Len(s))
  OBVIOUS
<1>0. Len(s) \in Nat /\ \A k \in 1..Len(s) : s[k] \in S
  OBVIOUS
<1>3. a \in Seq(S) /\ Len(a) = at - 1 /\ \A k \in 1..(at - 1) : a[k] = s[k]
  <2>1. at - 1 \in 0..Len(s)
    BY <1>0
  <2>2. \A k \in 1..(at - 1) : k \in 1..Len(s)
    BY <1>0
  <2>3. a = [k \in 1..(at - 1) |-> s[k]]
    BY <1>0, <1>1, <2>1, <2>2
  <2> QED
    BY <1>0, <2>1, <2>2, <2>3
<1>4. b \in Seq(S) /\ Len(b) = Len(s) - at /\ \A k \in 1..(Len(s) - at) : b[k] = s[at + k]
  <2>1. Len(s) - at \in Nat
    BY <1>0
  <2>2. \A k \in 1..(Len(s) - at) : at + k \in 1..Len(s) /\ at + 1 + k - 1 = at + k
    BY <1>0
  <2>3. Len(s) - (at + 1) + 1 = Len(s) - at
    BY <1>0
  <2>4. b = [k \in 1..(Len(s) - at) |-> s[at + k]]
    BY <1>0, <1>2, <2>1, <2>2, <2>3
  <2> QED
    BY <1>0, <2>1, <2>2, <2>4
<1>5. PICK t : t = a \o b
  OBVIOUS
<1>6. t = RemoveAt(s, at)
  BY <1>1, <1>2, <1>5 DEF RemoveAt
<1>7. t \in Seq(S) /\ Len(t) = Len(s) - 1
  BY <1>0, <1>3, <1>4, <1>5
<1>8. ASSUME NEW k \in 1..Len(t)
      PROVE  t[k] = IF k < at THEN s[k] ELSE s[k + 1]
  <2>1. k <= Len(a) => t[k] = a[k]
    BY <1>3, <1>4, <1>5, <1>7
  <2>2. k > Len(a) => t[k] = b[k - Len(a)]
    BY <1>3, <1>4, <1>5, <1>7
  <2>3. CASE k < at
    BY <1>3, <2>1, <2>3
  <2>4. CASE k >= at
    <3>1. k - (at - 1) \in 1..(Len(s) - at) /\ at + (k - (at - 1)) = k + 1
      BY <1>0, <1>7, <2>4
    <3> QED
      BY <1>3, <1>4, <2>2, <2>4, <3>1
  <2> QED
    BY <2>3, <2>4
<1> QED
  BY <1>6, <1>7, <1>8 DEF Without

(* InsertAt of a copy: without the copy it is the sequence it was.         *)
LEMMA Inserted ==
    ASSUME NEW S, NEW s \in Seq(S), NEW at \in 1..Len(s)
    PROVE  /\ InsertAt(s, at, s[at]) \in Seq(S) /\ InsertAt(s, at, s[at])[at] = s[at]
           /\ Without(InsertAt(s, at, s[at]), s, at)
<1>1. PICK a : a = SubSeq(s, 1, at - 1)
  OBVIOUS
<1>2. PICK b : b = SubSeq(s, at, Len(s))
  OBVIOUS
<1>0. Len(s) \in Nat /\ (\A k \in 1..Len(s) : s[k] \in S) /\ s[at] \in S
  OBVIOUS
<1>3. a \in Seq(S) /\ Len(a) = at - 1 /\ \A k \in 1..(at - 1) : a[k] = s[k]
  <2>1. at - 1 \in 0..Len(s)
    BY <1>0
  <2>2. \A k \in 1..(at - 1) : k \in 1..Len(s)
    BY <1>0
  <2>3. a = [k \in 1..(at - 1) |-> s[k]]
    BY <1>0, <1>1, <2>1, <2>2
  <2> QED
    BY <1>0, <2>1, <2>2, <2>3
<1>4. b \in Seq(S) /\ Len(b) = Len(s) - at + 1 /\ \A k \in 1..(Len(s) - at + 1) : b[k] = s[at + k - 1]
  <2>1. Len(s) - at + 1 \in Nat
    BY <1>0
  <2>2. \A k \in 1..(Len(s) - at + 1) : at + k - 1 \in 1..Len(s)
    BY <1>0
  <2>4. b = [k \in 1..(Len(s) - at + 1) |-> s[at + k - 1]]
    BY <1>0, <1>2, <2>1, <2>2
  <2> QED
    BY <1>0, <2>1, <2>2, <2>4
<1>c. PICK c : c = a \o <<s[at]>>
  OBVIOUS
<1>d. c \in Seq(S) /\ Len(c) = at /\ c[at] = s[at] /\ \A k \in 1..(at - 1) : c[k] = s[k]
  BY <1>0, <1>3, <1>c
<1>5. PICK t : t = c \o b
  OBVIOUS
<1>6. t = InsertAt(s, at, s[at])
  BY <1>1, <1>2, <1>c, <1>5 DEF InsertAt
<1>7. t \in Seq(S) /\ Len(t) = Len(s) + 1 /\ DOMAIN t = 1..(Len(s) + 1)
  BY <1>0, <1>d, <1>4, <1>5
<1>9. t[at] = s[at]
  BY <1>0, <1>d, <1>4, <1>5, <1>7
<1>8. ASSUME NEW k \in 1..Len(s)
      PROVE  s[k] = IF k < at THEN t[k] ELSE t[k + 1]
  <2>1. CASE k < at
    <3>1. t[k] = c[k]
      BY <1>4, <1>5, <1>7, <1>d, <2>1
    <3> QED
      BY <1>d, <2>1, <3>1
  <2>2. CASE k >= at
    <3>1. k + 1 \in 1..Len(t) /\ k + 1 > Len(c) /\ k + 1 - at \in 1..(Len(s) - at + 1)
      BY <1>0, <1>7, <1>d, <2>2
    <3>2. t[k + 1] = b[k + 1 - at]
      BY <1>4, <1>5, <1>7, <1>d, <3>1
    <3>3. b[k + 1 - at] = s[k] /\ ~(k < at)
      BY <1>0, <1>4, <2>2, <3>1
    <3> QED
      BY <3>2, <3>3
  <2> QED
    BY <2>1, <2>2
<1>10. at \in DOMAIN t /\ Len(s) = Len(t) - 1 /\ DOMAIN s = 1..Len(s)
  BY <1>0, <1>7
<1>11. Without(t, s, at)
  BY <1>8, <1>10 DEF Without
<1> QED
  BY <1>6, <1>7, <1>9, <1>11

(* Taking an element out takes its amount off the total.                   *)
LEMMA TotalWithout ==
    ASSUME NEW s \in Seq(Int), NEW t \in Seq(Int), NEW at, Without(s, t, at)
    PROVE  Total(t) = Total(s) - s[at]
<1>0. Len(s) \in Nat /\ Len(t) \in Nat /\ at \in 1..Len(s) /\ Len(t) = Len(s) - 1 /\ s[at] \in Int
  BY DEF Without
<1>1. PICK f : f = Sums(s)
  OBVIOUS
<1>2. PICK g : g = Sums(t)
  OBVIOUS
<1>3. SumsUpTo(f, s, Len(s)) /\ SumsUpTo(g, t, Len(t))
  BY <1>1, <1>2, SumsAre
<1>4. \A k \in 0..Len(s) : f[k] \in Int
  BY <1>3 DEF SumsUpTo
<1> DEFINE T == {k \in 0..Len(t) : g[k] = IF k < at THEN f[k] ELSE f[k + 1] - s[at]}
<1>5. 0 \in T
  BY <1>0, <1>3 DEF SumsUpTo
<1>6. ASSUME NEW k \in 1..Len(t), k - 1 \in T
      PROVE  k \in T
  <2>1. g[k] = g[k - 1] + t[k]
    BY <1>3 DEF SumsUpTo
  <2>2. t[k] = IF k < at THEN s[k] ELSE s[k + 1]
    <3>1. k \in DOMAIN t
      OBVIOUS
    <3> QED
      BY <3>1 DEF Without
  <2>3. f[k] = f[k - 1] + s[k] /\ f[k + 1] = f[k] + s[k + 1]
    <3>1. k \in 1..Len(s) /\ k + 1 \in 1..Len(s) /\ (k + 1) - 1 = k
      BY <1>0
    <3> QED
      BY <1>3, <3>1 DEF SumsUpTo
  <2>4. f[k - 1] \in Int /\ f[k] \in Int /\ f[k + 1] \in Int /\ s[k] \in Int /\ s[k + 1] \in Int
    BY <1>0, <1>4
  <2>5. g[k - 1] = IF k - 1 < at THEN f[k - 1] ELSE f[k] - s[at]
    BY <1>0, <1>6
  <2>6. CASE k < at
    BY <1>0, <2>1, <2>2, <2>3, <2>5, <2>6
  <2>7. CASE k = at
    <3>1. g[k] = f[k - 1] + s[k + 1]
      BY <1>0, <2>1, <2>2, <2>5, <2>7
    <3>2. s[at] = s[k] /\ f[k] = f[k - 1] + s[k] /\ f[k + 1] = f[k] + s[k + 1]
      BY <2>3, <2>7
    <3>3. g[k] = f[k + 1] - s[at]
      <4>1. PICK a \in Int, b \in Int, c \in Int, d \in Int :
                a = f[k - 1] /\ b = f[k] /\ c = s[k] /\ d = s[k + 1]
        BY <2>4
      <4>2. g[k] = a + d /\ b = a + c
        BY <3>1, <3>2, <4>1
      <4>3. a + d = b + d - c
        BY <4>2
      <4>4. f[k + 1] = b + d /\ s[at] = c
        BY <3>2, <4>1
      <4> QED
        BY <4>2, <4>3, <4>4
    <3> QED
      BY <1>0, <2>7, <3>3
  <2>8. CASE k > at
    <3>1. g[k] = f[k] - s[at] + s[k + 1]
      BY <1>0, <2>1, <2>2, <2>5, <2>8
    <3>2. g[k] = f[k + 1] - s[at]
      <4>1. PICK a \in Int, b \in Int, c \in Int : a = f[k] /\ b = s[k + 1] /\ c = s[at]
        BY <1>0, <2>4
      <4>2. g[k] = a - c + b
        BY <3>1, <4>1
      <4>3. f[k + 1] = a + b
        BY <2>3, <4>1
      <4>4. a - c + b = a + b - c
        OBVIOUS
      <4> QED
        BY <4>1, <4>2, <4>3, <4>4
    <3> QED
      BY <1>0, <2>8, <3>2
  <2> QED
    BY <1>0, <2>6, <2>7, <2>8
<1>7. 0..Len(t) \subseteq T
  <2> HIDE DEF T
  <2> QED
    BY <1>0, <1>5, <1>6, Induct
<1>8. Len(t) \in T
  <2>1. Len(t) \in 0..Len(t)
    BY <1>0
  <2> HIDE DEF T
  <2> QED
    BY <1>7, <2>1
<1>9. CASE Len(t) < at
  <2>1. at = Len(s) /\ Len(t) = Len(s) - 1
    BY <1>0, <1>9
  <2>2. f[Len(s)] = f[Len(s) - 1] + s[at]
    BY <1>0, <1>3, <2>1 DEF SumsUpTo
  <2>3. g[Len(t)] = f[Len(s) - 1] /\ f[Len(s) - 1] \in Int
    BY <1>0, <1>4, <1>8, <1>9, <2>1
  <2> QED
    BY <1>0, <1>1, <1>2, <2>2, <2>3 DEF Total
<1>10. CASE ~(Len(t) < at)
  <2>1. Len(t) + 1 = Len(s)
    BY <1>0
  <2>2. g[Len(t)] = f[Len(s)] - s[at]
    BY <1>8, <1>10, <2>1
  <2> QED
    BY <1>1, <1>2, <2>2 DEF Total
<1> QED
  BY <1>9, <1>10

(* Changing one element changes the total by the difference.               *)
LEMMA TotalAltered ==
    ASSUME NEW s \in Seq(Int), NEW t \in Seq(Int), NEW at \in 1..Len(s), Len(t) = Len(s),
           \A k \in 1..Len(s) : k # at => t[k] = s[k]
    PROVE  Total(t) = Total(s) + (t[at] - s[at])
<1>0. Len(s) \in Nat /\ s[at] \in Int /\ t[at] \in Int
  OBVIOUS
<1>1. PICK f : f = Sums(s)
  OBVIOUS
<1>2. PICK g : g = Sums(t)
  OBVIOUS
<1>3. SumsUpTo(f, s, Len(s)) /\ SumsUpTo(g, t, Len(s))
  BY <1>1, <1>2, SumsAre
<1>4. \A k \in 0..Len(s) : f[k] \in Int
  BY <1>3 DEF SumsUpTo
<1> DEFINE T == {k \in 0..Len(s) : g[k] = IF k < at THEN f[k] ELSE f[k] + (t[at] - s[at])}
<1>5. 0 \in T
  BY <1>0, <1>3 DEF SumsUpTo
<1>6. ASSUME NEW k \in 1..Len(s), k - 1 \in T
      PROVE  k \in T
  <2>1. g[k] = g[k - 1] + t[k] /\ f[k] = f[k - 1] + s[k]
    BY <1>3 DEF SumsUpTo
  <2>2. f[k - 1] \in Int /\ f[k] \in Int /\ s[k] \in Int /\ t[k] \in Int
    BY <1>0, <1>4
  <2>3. g[k - 1] = IF k - 1 < at THEN f[k - 1] ELSE f[k - 1] + (t[at] - s[at])
    BY <1>6
  <2>4. CASE k < at
    <3>1. k - 1 < at /\ t[k] = s[k]
      BY <1>0, <2>4
    <3> QED
      BY <2>1, <2>3, <2>4, <3>1
  <2>5. CASE k = at
    <3>1. g[k] = f[k - 1] + t[at] /\ f[k] = f[k - 1] + s[at] /\ ~(k < at)
      BY <1>0, <2>1, <2>3, <2>5
    <3>2. PICK a \in Int, b \in Int, c \in Int : a = f[k - 1] /\ b = t[at] /\ c = s[at]
      BY <1>0, <2>2
    <3>3. a + b = a + c + (b - c)
      OBVIOUS
    <3>4. g[k] = f[k] + (t[at] - s[at])
      BY <3>1, <3>2, <3>3
    <3> QED
      BY <3>1, <3>4
  <2>6. CASE k > at
    <3>1. g[k] = f[k - 1] + (t[at] - s[at]) + s[k] /\ f[k] = f[k - 1] + s[k] /\ ~(k < at)
      BY <1>0, <2>1, <2>3, <2>6
    <3>2. PICK a \in Int, b \in Int, c \in Int, d \in Int :
              a = f[k - 1] /\ b = t[at] /\ c = s[at] /\ d = s[k]
      BY <1>0, <2>2
    <3>3. a + (b - c) + d = a + d + (b - c)
      OBVIOUS
    <3>4. g[k] = f[k] + (t[at] - s[at])
      BY <3>1, <3>2, <3>3
    <3> QED
      BY <3>1, <3>4
  <2> QED
    BY <1>0, <2>4, <2>5, <2>6
<1>7. 0..Len(s) \subseteq T
  <2> HIDE DEF T
  <2> QED
    BY <1>0, <1>5, <1>6, Induct
<1>8. Len(s) \in T
  <2>1. Len(s) \in 0..Len(s)
    BY <1>0
  <2> HIDE DEF T
  <2> QED
    BY <1>7, <2>1
<1>9. g[Len(s)] = f[Len(s)] + (t[at] - s[at])
  <2>1. ~(Len(s) < at)
    BY <1>0
  <2> QED
    BY <1>8, <2>1
<1> QED
  BY <1>1, <1>2, <1>9 DEF Total
-----------------------------------------------------------------------------
(* Statements as they are printed                                          *)

(* Rows whose balances are numbers.                                        *)
Numbered == [debit : Nat, credit : Nat, balance : Int]

(* The balance of row k is the one before it with the move of row k.       *)
Follows(p, k) == p[k].balance = p[k - 1].balance - p[k].debit + p[k].credit

(* A movement goes out or comes in, not both.                              *)
LEMMA MovesTyped ==
    ASSUME NEW l \in Seq(Moves)
    PROVE  /\ Len(l) \in Nat /\ DOMAIN l = 1..Len(l)
           /\ \A k \in 1..Len(l) : /\ l[k].debit \in Nat /\ l[k].credit \in Nat
                                   /\ l[k].debit = 0 \/ l[k].credit = 0
<1>1. \A k \in 1..Len(l) : l[k] \in Moves
  OBVIOUS
<1> QED
  BY <1>1 DEF Moves

(* Every printed row carries its movement, and the balance follows.        *)
LEMMA PrintedRows ==
    ASSUME NEW l \in Seq(Moves), NEW p, p = Printed(l)
    PROVE  /\ p \in Seq(Numbered) /\ Len(p) = Len(l)
           /\ \A k \in 1..Len(l) : p[k].debit = l[k].debit /\ p[k].credit = l[k].credit
           /\ \A k \in 2..Len(l) : Follows(p, k)
<1>0. /\ Len(l) \in Nat /\ DOMAIN l = 1..Len(l)
      /\ \A k \in 1..Len(l) : l[k].debit \in Nat /\ l[k].credit \in Nat
  BY MovesTyped
<1>1. PICK n : n = Nets(l)
  OBVIOUS
<1>2. n = [k \in 1..Len(l) |-> l[k].credit - l[k].debit]
  BY <1>0, <1>1 DEF Nets
<1>3. n \in Seq(Int) /\ Len(n) = Len(l)
  BY <1>0, <1>2
<1>4. PICK f : f = Sums(n)
  OBVIOUS
<1>5. SumsUpTo(f, n, Len(l))
  BY <1>3, <1>4, SumsAre
<1>6. \A k \in 0..Len(l) : f[k] \in Int
  BY <1>5 DEF SumsUpTo
<1>7. p = [k \in 1..Len(l) |-> [debit |-> l[k].debit, credit |-> l[k].credit, balance |-> f[k]]]
  BY <1>0, <1>1, <1>4 DEF Printed
<1>8. \A k \in 1..Len(l) : p[k] = [debit |-> l[k].debit, credit |-> l[k].credit, balance |-> f[k]]
  BY <1>7
<1>9. ASSUME NEW k \in 1..Len(l)
      PROVE  /\ p[k] \in Numbered /\ p[k].debit = l[k].debit /\ p[k].credit = l[k].credit
             /\ p[k].balance = f[k]
  <2>1. k \in 0..Len(l)
    BY <1>0
  <2>2. PICK a, b, c : a = l[k].debit /\ b = l[k].credit /\ c = f[k]
    OBVIOUS
  <2>3. a \in Nat /\ b \in Nat /\ c \in Int
    BY <1>0, <1>6, <2>1, <2>2
  <2>4. p[k] = [debit |-> a, credit |-> b, balance |-> c]
    BY <1>8, <2>2
  <2>5. p[k] \in Numbered
    BY <2>3, <2>4 DEF Numbered
  <2>6. p[k].debit = a /\ p[k].credit = b /\ p[k].balance = c
    BY <2>4
  <2> QED
    BY <2>2, <2>5, <2>6
<1>10. p \in Seq(Numbered) /\ Len(p) = Len(l)
  BY <1>0, <1>7, <1>9
<1>11. ASSUME NEW k \in 2..Len(l)
       PROVE  Follows(p, k)
  <2>1. k \in 1..Len(l) /\ k - 1 \in 1..Len(l)
    BY <1>0
  <2>2. f[k] = f[k - 1] + n[k] /\ n[k] = l[k].credit - l[k].debit
    BY <1>2, <1>5, <2>1 DEF SumsUpTo
  <2>3. /\ p[k].debit = l[k].debit /\ p[k].credit = l[k].credit /\ p[k].balance = f[k]
        /\ p[k - 1].balance = f[k - 1]
    BY <1>9, <2>1
  <2>4. f[k] \in Int /\ f[k - 1] \in Int /\ l[k].credit \in Int /\ l[k].debit \in Int
    BY <1>0, <1>6, <2>1
  <2>5. f[k] = f[k - 1] - l[k].debit + l[k].credit
    BY <2>2, <2>4
  <2> QED
    BY <2>3, <2>5 DEF Follows
<1> QED
  BY <1>9, <1>10, <1>11

(* A total of numbers is a number.                                         *)
LEMMA TotalTyped ==
    ASSUME NEW s \in Seq(Int)
    PROVE  Total(s) \in Int
BY SumsAre DEF SumsUpTo, Total

(* Two statements whose rows move the same have the same columns.          *)
LEMMA SameColumns ==
    ASSUME NEW s, NEW t, DOMAIN s = DOMAIN t,
           \A k \in DOMAIN s : s[k].debit = t[k].debit /\ s[k].credit = t[k].credit
    PROVE  Debits(s) = Debits(t) /\ Credits(s) = Credits(t)
BY DEF Debits, Credits

(* Rows with amounts.                                                      *)
Rowed(s) ==
    /\ Len(s) \in Nat /\ DOMAIN s = 1..Len(s)
    /\ \A k \in 1..Len(s) : s[k].debit \in Nat /\ s[k].credit \in Nat

(* The columns of a statement with typed rows.                             *)
LEMMA Columns ==
    ASSUME NEW s, Rowed(s)
    PROVE  /\ Debits(s) \in Seq(Int) /\ Credits(s) \in Seq(Int)
           /\ Len(Debits(s)) = Len(s) /\ Len(Credits(s)) = Len(s)
           /\ \A k \in 1..Len(s) : Debits(s)[k] = s[k].debit /\ Credits(s)[k] = s[k].credit
<1>1. /\ Debits(s) = [k \in 1..Len(s) |-> s[k].debit] /\ Credits(s) = [k \in 1..Len(s) |-> s[k].credit]
      /\ Len(s) \in Nat /\ \A k \in 1..Len(s) : s[k].debit \in Int /\ s[k].credit \in Int
  BY DEF Debits, Credits, Rowed
<1> QED
  BY <1>1

(* What a row taken out does to the totals of both columns.                *)
LEMMA ColumnsWithout ==
    ASSUME NEW s, NEW t, NEW at, Rowed(s), Rowed(t), Without(s, t, at)
    PROVE  /\ Total(Debits(t)) = Total(Debits(s)) - s[at].debit
           /\ Total(Credits(t)) = Total(Credits(s)) - s[at].credit
<1>n. PICK n, m : n = Len(s) /\ m = Len(t)
  OBVIOUS
<1>0. n \in Nat /\ m \in Nat /\ DOMAIN s = 1..n /\ DOMAIN t = 1..m
  BY <1>n DEF Rowed
<1>1. at \in 1..n /\ m = n - 1 /\ \A k \in 1..m : t[k] = IF k < at THEN s[k] ELSE s[k + 1]
  BY <1>n, <1>0 DEF Without
<1>2. PICK a, b : a = Debits(s) /\ b = Debits(t)
  OBVIOUS
<1>3. /\ a \in Seq(Int) /\ b \in Seq(Int) /\ Len(a) = n /\ Len(b) = m
      /\ \A k \in 1..n : a[k] = s[k].debit
      /\ \A k \in 1..m : b[k] = t[k].debit
  BY <1>n, <1>2, Columns
<1>4. Without(a, b, at)
  <2>1. ASSUME NEW k \in 1..m
        PROVE  b[k] = IF k < at THEN a[k] ELSE a[k + 1]
    <3>1. k \in 1..n /\ k + 1 \in 1..n
      BY <1>0, <1>1
    <3> QED
      BY <1>1, <1>3, <3>1
  <2>2. DOMAIN a = 1..n /\ DOMAIN b = 1..m
    BY <1>3
  <2> QED
    BY <1>1, <1>3, <2>1, <2>2 DEF Without
<1>5. PICK c, d : c = Credits(s) /\ d = Credits(t)
  OBVIOUS
<1>6. /\ c \in Seq(Int) /\ d \in Seq(Int) /\ Len(c) = n /\ Len(d) = m
      /\ \A k \in 1..n : c[k] = s[k].credit
      /\ \A k \in 1..m : d[k] = t[k].credit
  BY <1>n, <1>5, Columns
<1>7. Without(c, d, at)
  <2>1. ASSUME NEW k \in 1..m
        PROVE  d[k] = IF k < at THEN c[k] ELSE c[k + 1]
    <3>1. k \in 1..n /\ k + 1 \in 1..n
      BY <1>0, <1>1
    <3> QED
      BY <1>1, <1>6, <3>1
  <2>2. DOMAIN c = 1..n /\ DOMAIN d = 1..m
    BY <1>6
  <2> QED
    BY <1>1, <1>6, <2>1, <2>2 DEF Without
<1>8. Total(b) = Total(a) - a[at] /\ Total(d) = Total(c) - c[at]
  BY <1>3, <1>4, <1>6, <1>7, TotalWithout
<1>9. a[at] = s[at].debit /\ c[at] = s[at].credit
  BY <1>1, <1>3, <1>6
<1> QED
  BY <1>2, <1>5, <1>8, <1>9

(* s is p but for row at.                                                  *)
Altered(p, s, at) ==
    /\ at \in DOMAIN p /\ DOMAIN s = DOMAIN p /\ Len(s) = Len(p)
    /\ \A k \in DOMAIN p : k # at => s[k] = p[k]

(* s is p with q in place of row at.                                       *)
Puts(p, s, at, q) == s = [p EXCEPT ![at] = q]

(* Putting another row in place of one alters that row only.               *)
LEMMA OneRowAltered ==
    ASSUME NEW p \in Seq(Numbered), NEW at \in 1..Len(p), NEW q \in Transactions, NEW s, Puts(p, s, at, q)
    PROVE  /\ s \in Seq(Transactions) /\ Altered(p, s, at) /\ s[at] = q
           /\ q \in Numbered => s \in Seq(Numbered)
<1>0. Numbered \subseteq Transactions
  BY DEF Numbered, Transactions, Balances
<1>1. /\ Len(p) \in Nat /\ p = [k \in 1..Len(p) |-> p[k]] /\ DOMAIN p = 1..Len(p)
      /\ \A k \in 1..Len(p) : p[k] \in Numbered /\ p[k] \in Transactions
  BY <1>0
<1>2. s = [k \in 1..Len(p) |-> IF k = at THEN q ELSE p[k]]
  BY <1>1 DEF Puts
<1>3. s \in Seq(Transactions) /\ Len(s) = Len(p) /\ DOMAIN s = 1..Len(p)
  BY <1>1, <1>2
<1>4. q \in Numbered => s \in Seq(Numbered)
  BY <1>1, <1>2
<1>5. s[at] = q /\ \A k \in 1..Len(p) : k # at => s[k] = p[k]
  BY <1>1, <1>2
<1> QED
  BY <1>1, <1>3, <1>4, <1>5 DEF Altered

(* What rewriting one field of a row leaves of the others.                 *)
LEMMA Rewritten ==
    ASSUME NEW r \in Numbered, NEW x \in Nat
    PROVE  /\ [r EXCEPT !.debit = @ + x] \in Numbered
           /\ [r EXCEPT !.debit = @ + x].debit = r.debit + x
           /\ [r EXCEPT !.debit = @ + x].credit = r.credit
           /\ [r EXCEPT !.debit = @ + x].balance = r.balance
           /\ [r EXCEPT !.credit = @ + x] \in Numbered
           /\ [r EXCEPT !.credit = @ + x].debit = r.debit
           /\ [r EXCEPT !.credit = @ + x].credit = r.credit + x
           /\ [r EXCEPT !.credit = @ + x].balance = r.balance
           /\ [r EXCEPT !.balance = @ + x] \in Numbered
           /\ [r EXCEPT !.balance = @ + x].debit = r.debit
           /\ [r EXCEPT !.balance = @ + x].credit = r.credit
           /\ [r EXCEPT !.balance = @ + x].balance = r.balance + x
           /\ [r EXCEPT !.balance = Absent] \in Transactions
           /\ [r EXCEPT !.balance = Absent].balance = Absent
           /\ [r EXCEPT !.balance = Absent].debit = r.debit
           /\ [r EXCEPT !.balance = Absent].credit = r.credit
BY DEF Numbered, Transactions, Balances

(* What each distortion makes of the printed rows.                         *)
Shape(p, s, d) ==
    CASE d.kind = "none" -> s = p
      [] d.kind = "drop" -> s \in Seq(Numbered) /\ Without(p, s, d.at)
      [] d.kind = "repeat" -> s \in Seq(Numbered) /\ Without(s, p, d.at) /\ s[d.at] = p[d.at]
      [] d.kind = "blank" -> Altered(p, s, d.at) /\ s[d.at].balance = Absent
      [] d.kind = "debit" ->
           /\ s \in Seq(Numbered) /\ Altered(p, s, d.at) /\ s[d.at].debit = p[d.at].debit + d.by
           /\ s[d.at].credit = p[d.at].credit /\ s[d.at].balance = p[d.at].balance
      [] d.kind = "credit" ->
           /\ s \in Seq(Numbered) /\ Altered(p, s, d.at) /\ s[d.at].credit = p[d.at].credit + d.by
           /\ s[d.at].debit = p[d.at].debit /\ s[d.at].balance = p[d.at].balance
      [] d.kind = "balance" ->
           /\ s \in Seq(Numbered) /\ Altered(p, s, d.at) /\ s[d.at].balance = p[d.at].balance + d.by
           /\ s[d.at].debit = p[d.at].debit /\ s[d.at].credit = p[d.at].credit

(* Distorted makes of the printed rows what Shape says.                    *)
LEMMA DistortedShape ==
    ASSUME NEW p \in Seq(Numbered), NEW d \in Distortions, d.at \in 1..Len(p),
           NEW s, s = Distorted(p, d)
    PROVE  s \in Seq(Transactions) /\ Shape(p, s, d)
<1>0. d.kind \in {"none", "drop", "repeat", "blank", "debit", "credit", "balance"} /\ d.by \in Nat
  BY DEF Distortions
<1>1. Numbered \subseteq Transactions
  BY DEF Numbered, Transactions, Balances
<1>2. \A t : t \in Seq(Numbered) => t \in Seq(Transactions)
  BY <1>1
<1>3. p[d.at] \in Numbered
  OBVIOUS
<1>4. PICK r : r = p[d.at] /\ r \in Numbered
  BY <1>3
<1>a. PICK at \in 1..Len(p) : at = d.at
  OBVIOUS
<1>5. CASE d.kind = "none"
  BY <1>2, <1>5 DEF Distorted, Shape
<1>6. CASE d.kind = "drop"
  <2>1. s = RemoveAt(p, d.at)
    BY <1>6 DEF Distorted
  <2>2. s \in Seq(Numbered) /\ Without(p, s, d.at)
    BY <2>1, Removed
  <2> QED
    BY <1>2, <1>6, <2>2 DEF Shape
<1>7. CASE d.kind = "repeat"
  <2>1. s = InsertAt(p, d.at, p[d.at])
    BY <1>7 DEF Distorted
  <2>2. s \in Seq(Numbered) /\ Without(s, p, d.at) /\ s[d.at] = p[d.at]
    BY <2>1, Inserted
  <2> QED
    BY <1>2, <1>7, <2>2 DEF Shape
<1>8. CASE d.kind = "blank"
  <2>1. PICK q : q = [r EXCEPT !.balance = Absent]
    OBVIOUS
  <2>2. Puts(p, s, at, q)
    BY <1>4, <1>a, <1>8, <2>1 DEF Distorted, Puts
  <2>3. q \in Transactions /\ q.balance = Absent
    BY <1>4, <2>1, Rewritten
  <2>4. s \in Seq(Transactions) /\ Altered(p, s, at) /\ s[at] = q
    BY <2>2, <2>3, OneRowAltered
  <2> QED
    BY <1>a, <1>8, <2>3, <2>4 DEF Shape
<1>9. CASE d.kind = "debit"
  <2>1. PICK q : q = [r EXCEPT !.debit = @ + d.by]
    OBVIOUS
  <2>2. Puts(p, s, at, q)
    BY <1>4, <1>a, <1>9, <2>1 DEF Distorted, Puts
  <2>3. q \in Numbered /\ q.debit = r.debit + d.by /\ q.credit = r.credit /\ q.balance = r.balance
    BY <1>0, <1>4, <2>1, Rewritten
  <2>4. s \in Seq(Numbered) /\ Altered(p, s, at) /\ s[at] = q
    BY <1>1, <2>2, <2>3, OneRowAltered
  <2> QED
    BY <1>2, <1>4, <1>a, <1>9, <2>3, <2>4 DEF Shape
<1>10. CASE d.kind = "credit"
  <2>1. PICK q : q = [r EXCEPT !.credit = @ + d.by]
    OBVIOUS
  <2>2. Puts(p, s, at, q)
    BY <1>4, <1>a, <1>10, <2>1 DEF Distorted, Puts
  <2>3. q \in Numbered /\ q.debit = r.debit /\ q.credit = r.credit + d.by /\ q.balance = r.balance
    BY <1>0, <1>4, <2>1, Rewritten
  <2>4. s \in Seq(Numbered) /\ Altered(p, s, at) /\ s[at] = q
    BY <1>1, <2>2, <2>3, OneRowAltered
  <2> QED
    BY <1>2, <1>4, <1>a, <1>10, <2>3, <2>4 DEF Shape
<1>11. CASE d.kind = "balance"
  <2>1. PICK q : q = [r EXCEPT !.balance = @ + d.by]
    OBVIOUS
  <2>2. Puts(p, s, at, q)
    BY <1>4, <1>a, <1>11, <2>1 DEF Distorted, Puts
  <2>3. q \in Numbered /\ q.debit = r.debit /\ q.credit = r.credit /\ q.balance = r.balance + d.by
    BY <1>0, <1>4, <2>1, Rewritten
  <2>4. s \in Seq(Numbered) /\ Altered(p, s, at) /\ s[at] = q
    BY <1>1, <2>2, <2>3, OneRowAltered
  <2> QED
    BY <1>2, <1>4, <1>a, <1>11, <2>3, <2>4 DEF Shape
<1> QED
  BY <1>0, <1>5, <1>6, <1>7, <1>8, <1>9, <1>10, <1>11

(* The checks are under way on what was read of the case.                  *)
Given == case \in Cases /\ result = Parsed(case)

(* The parts of a case.                                                    *)
LEMMA CaseTyped ==
    ASSUME Given
    PROVE  /\ case.ledger \in Seq(Moves) /\ case.distortion \in Distortions
           /\ case.distortion.at \in 1..Len(case.ledger)
           /\ case.column \in BOOLEAN /\ case.optOut \in BOOLEAN
           /\ case.debitShown \in BOOLEAN /\ case.creditShown \in BOOLEAN
<1>1. /\ case \in [ledger : Seq(Moves), distortion : Distortions, column : BOOLEAN, optOut : BOOLEAN,
                   debitShown : BOOLEAN, creditShown : BOOLEAN]
      /\ case.distortion.at \in DOMAIN case.ledger
  BY DEF Given, Cases
<1> QED
  BY <1>1

(* The rows of the result are the distorted ones, with or without their    *)
(* balances.                                                               *)
LEMMA RowsRead ==
    ASSUME Given, NEW s \in Seq(Transactions), s = Distorted(Printed(case.ledger), case.distortion)
    PROVE  /\ DOMAIN rows = DOMAIN s
           /\ \A k \in DOMAIN s : rows[k].debit = s[k].debit /\ rows[k].credit = s[k].credit
           /\ case.column => rows = s
           /\ ~case.column => \A k \in DOMAIN s : rows[k].balance = Absent
<1>1. rows = IF case.column THEN s ELSE WithoutBalances(s)
  BY DEF Given, Parsed, rows
<1>2. CASE case.column
  BY <1>1, <1>2
<1>3. CASE ~case.column
  <2>1. rows = [k \in DOMAIN s |-> [s[k] EXCEPT !.balance = Absent]]
    BY <1>1, <1>3 DEF WithoutBalances
  <2>2. \A k \in DOMAIN s : s[k] \in Transactions
    OBVIOUS
  <2>3. ASSUME NEW r \in Transactions
        PROVE  /\ [r EXCEPT !.balance = Absent].debit = r.debit
               /\ [r EXCEPT !.balance = Absent].credit = r.credit
               /\ [r EXCEPT !.balance = Absent].balance = Absent
    BY DEF Transactions
  <2>4. ASSUME NEW k \in DOMAIN s
        PROVE  rows[k].debit = s[k].debit /\ rows[k].credit = s[k].credit /\ rows[k].balance = Absent
    <3>1. PICK r \in Transactions : r = s[k]
      BY <2>2
    <3>2. rows[k] = [r EXCEPT !.balance = Absent]
      BY <2>1, <3>1
    <3> QED
      BY <2>3, <3>1, <3>2
  <2> QED
    BY <1>3, <2>1, <2>4
<1> QED
  BY <1>2, <1>3

(* The header totals of the result are those of the true ledger.           *)
LEMMA HeadersRead ==
    ASSUME Given
    PROVE  /\ HeaderTotals <=> TotalsRun
           /\ TotalsRun => /\ result.totalDebit = Total(Debits(case.ledger))
                           /\ result.totalCredit = Total(Credits(case.ledger))
           /\ result.optOut = case.optOut
           /\ Total(Debits(case.ledger)) \in Int /\ Total(Credits(case.ledger)) \in Int
<1>1. PICK l : l = case.ledger
  OBVIOUS
<1>2. /\ Len(l) \in Nat /\ DOMAIN l = 1..Len(l)
      /\ \A k \in 1..Len(l) : l[k].debit \in Nat /\ l[k].credit \in Nat
  BY <1>1, CaseTyped, MovesTyped
<1>3. Debits(l) \in Seq(Int) /\ Credits(l) \in Seq(Int)
  BY <1>2, Columns DEF Rowed
<1>4. Total(Debits(l)) \in Int /\ Total(Credits(l)) \in Int
  BY <1>3, TotalTyped
<1>5. /\ result.totalDebit = IF case.debitShown THEN Total(Debits(l)) ELSE Absent
      /\ result.totalCredit = IF case.creditShown THEN Total(Credits(l)) ELSE Absent
      /\ result.optOut = case.optOut
  BY <1>1 DEF Given, Parsed
<1>6. PICK x \in Int, y \in Int : x = Total(Debits(l)) /\ y = Total(Credits(l))
  BY <1>4
<1>7. x # Absent /\ y # Absent
  OBVIOUS
<1>8. HeaderTotals <=> TotalsRun
  BY <1>5, <1>6, <1>7, CaseTyped DEF HeaderTotals, TotalsRun
<1>9. TotalsRun => result.totalDebit = Total(Debits(l)) /\ result.totalCredit = Total(Credits(l))
  BY <1>5 DEF TotalsRun
<1> QED
  BY <1>1, <1>4, <1>5, <1>8, <1>9

(* The columns read are those of the distorted rows, the true ones as      *)
(* printed.                                                                *)
LEMMA RowTotals ==
    ASSUME Given,
           NEW p, p = Printed(case.ledger), NEW s \in Seq(Transactions), s = Distorted(p, case.distortion)
    PROVE  /\ Debits(rows) = Debits(s) /\ Credits(rows) = Credits(s)
           /\ Debits(case.ledger) = Debits(p) /\ Credits(case.ledger) = Credits(p)
<1>1. PICK l : l = case.ledger /\ l \in Seq(Moves)
  BY CaseTyped
<1>2. DOMAIN p = DOMAIN l /\ \A k \in DOMAIN l : l[k].debit = p[k].debit /\ l[k].credit = p[k].credit
  BY <1>1, PrintedRows, MovesTyped
<1>3. Debits(l) = Debits(p) /\ Credits(l) = Credits(p)
  BY <1>2, SameColumns
<1>4. DOMAIN rows = DOMAIN s /\ \A k \in DOMAIN rows : rows[k].debit = s[k].debit /\ rows[k].credit = s[k].credit
  BY RowsRead
<1>5. Debits(rows) = Debits(s) /\ Credits(rows) = Credits(s)
  BY <1>4, SameColumns
<1> QED
  BY <1>1, <1>3, <1>5

(* The distance of two numbers that lie x apart.                           *)
LEMMA Apart ==
    ASSUME NEW a \in Int, NEW b \in Int, NEW x \in Nat, b = a + x
    PROVE  Distance(a, b) = x /\ Distance(b, a) = x
BY DEF Distance

(* The totals do not match after a distortion they can see, and match      *)
(* without one.                                                            *)
LEMMA TotalsDecide ==
    ASSUME Given, HeaderTotals
    PROVE  /\ TotalsSee(case.distortion, case.ledger) => ~TotalsMatch
           /\ case.distortion.kind = "none" => TotalsMatch
<1>1. PICK l : l = case.ledger /\ l \in Seq(Moves)
  BY CaseTyped
<1>2. PICK d : d = case.distortion /\ d \in Distortions /\ d.at \in 1..Len(l)
  BY <1>1, CaseTyped
<1>3. PICK p : p = Printed(l)
  OBVIOUS
<1>4. PICK s : s = Distorted(p, d)
  OBVIOUS
<1>5. /\ p \in Seq(Numbered) /\ Len(p) = Len(l)
      /\ \A k \in 1..Len(l) : p[k].debit = l[k].debit /\ p[k].credit = l[k].credit
  BY <1>1, <1>3, PrintedRows
<1>6. s \in Seq(Transactions) /\ Shape(p, s, d)
  BY <1>2, <1>4, <1>5, DistortedShape
<1>7. /\ Len(l) \in Nat /\ DOMAIN p = 1..Len(l) /\ Len(s) \in Nat /\ DOMAIN s = 1..Len(s)
      /\ \A k \in 1..Len(l) : /\ l[k].debit \in Nat /\ l[k].credit \in Nat
                              /\ l[k].debit = 0 \/ l[k].credit = 0
                              /\ p[k].debit \in Nat /\ p[k].credit \in Nat
  BY <1>1, <1>5, <1>6, MovesTyped
<1>8. \A k \in 1..Len(s) : s[k].debit \in Nat /\ s[k].credit \in Nat
  <2>1. \A k \in 1..Len(s) : s[k] \in Transactions
    BY <1>6
  <2> QED
    BY <2>1 DEF Transactions
<1>9. PICK D, C, SD, SC :
        D = Total(Debits(p)) /\ C = Total(Credits(p)) /\ SD = Total(Debits(s)) /\ SC = Total(Credits(s))
  OBVIOUS
<1>r. Rowed(p) /\ Rowed(s)
  BY <1>5, <1>7, <1>8 DEF Rowed
<1>10. D \in Int /\ C \in Int /\ SD \in Int /\ SC \in Int
  BY <1>r, <1>9, Columns, TotalTyped
<1>11. TotalsMatch <=> Distance(SC, C) <= Tolerance /\ Distance(SD, D) <= Tolerance
  <2>1. /\ Debits(rows) = Debits(s) /\ Credits(rows) = Credits(s)
        /\ Debits(case.ledger) = Debits(p) /\ Credits(case.ledger) = Credits(p)
    BY <1>1, <1>2, <1>3, <1>4, <1>6, RowTotals
  <2>2. result.totalDebit = D /\ result.totalCredit = C
    BY <1>9, <2>1, HeadersRead
  <2> QED
    BY <1>9, <2>1, <2>2 DEF TotalsMatch
<1>12. PICK a, b : a = l[d.at].debit /\ b = l[d.at].credit
  OBVIOUS
<1>13. a \in Nat /\ b \in Nat /\ (a = 0 \/ b = 0) /\ p[d.at].debit = a /\ p[d.at].credit = b
  BY <1>2, <1>5, <1>7, <1>12
<1>14. d.by \in Nat
  BY <1>2 DEF Distortions
<1>15. d.kind = "none" => TotalsMatch
  <2> SUFFICES ASSUME d.kind = "none" PROVE TotalsMatch
    OBVIOUS
  <2>1. s = p
    BY <1>6 DEF Shape
  <2> QED
    <3>1. SC = C /\ SD = D
      BY <1>9, <2>1
    <3>2. Distance(SC, C) = 0 /\ Distance(SD, D) = 0
      BY <1>10, <3>1 DEF Distance
    <3> QED
      BY <1>11, <3>2
<1>16. TotalsSee(d, l) => ~TotalsMatch
  <2> SUFFICES ASSUME TotalsSee(d, l) PROVE ~TotalsMatch
    OBVIOUS
  <2>1. CASE d.kind = "drop" /\ Size(l[d.at]) > Tolerance
    <3>1. Without(p, s, d.at)
      BY <1>6, <2>1 DEF Shape
    <3>2. SD = D - a /\ SC = C - b
      <4>1. Total(Debits(s)) = D - p[d.at].debit /\ Total(Credits(s)) = C - p[d.at].credit
        BY <1>r, <1>9, <3>1, ColumnsWithout
      <4> QED
        BY <1>9, <1>13, <4>1
    <3>3. a + b > Tolerance
      BY <1>12, <2>1 DEF Size
    <3>4. D = SD + a /\ C = SC + b
      BY <1>10, <1>13, <3>2
    <3>5. Distance(SD, D) = a
      BY <1>10, <1>13, <3>4, Apart
    <3>6. Distance(SC, C) = b
      BY <1>10, <1>13, <3>4, Apart
    <3> QED
      BY <1>11, <1>13, <3>3, <3>5, <3>6
  <2>2. CASE d.kind = "repeat" /\ Size(l[d.at]) > Tolerance
    <3>1. Without(s, p, d.at) /\ s[d.at] = p[d.at]
      BY <1>6, <2>2 DEF Shape
    <3>2. D = SD - a /\ C = SC - b
      <4>1. s[d.at].debit = a /\ s[d.at].credit = b
        BY <1>13, <3>1
      <4>2. Total(Debits(p)) = SD - s[d.at].debit /\ Total(Credits(p)) = SC - s[d.at].credit
        BY <1>r, <1>9, <3>1, ColumnsWithout
      <4> QED
        BY <1>9, <4>1, <4>2
    <3>3. a + b > Tolerance
      BY <1>12, <2>2 DEF Size
    <3>4. SD = D + a /\ SC = C + b
      BY <1>10, <1>13, <3>2
    <3>5. Distance(SD, D) = a
      BY <1>10, <1>13, <3>4, Apart
    <3>6. Distance(SC, C) = b
      BY <1>10, <1>13, <3>4, Apart
    <3> QED
      BY <1>11, <1>13, <3>3, <3>5, <3>6
  <2>3. CASE d.kind \in {"debit", "credit"} /\ d.by > Tolerance
    <3>1. /\ Altered(p, s, d.at)
          /\ \/ d.kind = "debit" /\ s[d.at].debit = a + d.by
             \/ d.kind = "credit" /\ s[d.at].credit = b + d.by
      BY <1>6, <1>13, <2>3 DEF Shape
    <3>2. PICK u, v : u = Debits(p) /\ v = Debits(s)
      OBVIOUS
    <3>3. PICK w, x : w = Credits(p) /\ x = Credits(s)
      OBVIOUS
    <3>4. Len(s) = Len(l)
      BY <1>5, <3>1 DEF Altered
    <3>5. /\ u \in Seq(Int) /\ Len(u) = Len(l) /\ v \in Seq(Int) /\ Len(v) = Len(l)
          /\ \A k \in 1..Len(l) : u[k] = p[k].debit /\ v[k] = s[k].debit
      <4>1. u \in Seq(Int) /\ Len(u) = Len(l) /\ \A k \in 1..Len(l) : u[k] = p[k].debit
        BY <1>r, <1>5, <3>2, Columns
      <4>2. v \in Seq(Int) /\ Len(v) = Len(l) /\ \A k \in 1..Len(l) : v[k] = s[k].debit
        BY <1>r, <3>2, <3>4, Columns
      <4> QED
        BY <4>1, <4>2
    <3>6. /\ w \in Seq(Int) /\ Len(w) = Len(l) /\ x \in Seq(Int) /\ Len(x) = Len(l)
          /\ \A k \in 1..Len(l) : w[k] = p[k].credit /\ x[k] = s[k].credit
      <4>1. w \in Seq(Int) /\ Len(w) = Len(l) /\ \A k \in 1..Len(l) : w[k] = p[k].credit
        BY <1>r, <1>5, <3>3, Columns
      <4>2. x \in Seq(Int) /\ Len(x) = Len(l) /\ \A k \in 1..Len(l) : x[k] = s[k].credit
        BY <1>r, <3>3, <3>4, Columns
      <4> QED
        BY <4>1, <4>2
    <3>7. \A k \in 1..Len(l) : k # d.at => u[k] = v[k] /\ w[k] = x[k]
      <4>1. \A k \in 1..Len(l) : k # d.at => s[k] = p[k]
        BY <1>7, <3>1 DEF Altered
      <4> QED
        BY <3>5, <3>6, <4>1
    <3>8. SD = D + (v[d.at] - u[d.at]) /\ SC = C + (x[d.at] - w[d.at])
      <4>1. PICK at \in 1..Len(l) : at = d.at
        BY <1>2
      <4>2. Total(v) = Total(u) + (v[at] - u[at])
        BY <3>5, <3>7, <4>1, TotalAltered
      <4>3. Total(x) = Total(w) + (x[at] - w[at])
        BY <3>6, <3>7, <4>1, TotalAltered
      <4> QED
        BY <1>9, <3>2, <3>3, <4>1, <4>2, <4>3
    <3>9. \/ v[d.at] = a + d.by /\ u[d.at] = a
          \/ x[d.at] = b + d.by /\ w[d.at] = b
      BY <1>2, <1>13, <3>1, <3>5, <3>6
    <3>10. SD = D + d.by \/ SC = C + d.by
      BY <1>10, <1>13, <1>14, <3>8, <3>9
    <3> QED
      <4>1. Distance(SD, D) = d.by \/ Distance(SC, C) = d.by
        BY <1>10, <1>14, <3>10, Apart
      <4> QED
        BY <1>11, <1>14, <2>3, <4>1
  <2> QED
    BY <2>1, <2>2, <2>3 DEF TotalsSee
<1> QED
  BY <1>1, <1>2, <1>15, <1>16

(* A balance that is not the one before it with the row's move.            *)
LEMMA Broken ==
    ASSUME NEW k, NEW a \in Int, NEW b \in Int, NEW x \in Nat, x > Tolerance,
           Expected(k) = a, rows[k].balance = b, a = b + x \/ b = a + x
    PROVE  ~Chains(k)
<1>1. Distance(a, b) = x
  BY Apart
<1> QED
  BY <1>1 DEF Chains

(* The fields of rows with balances.                                       *)
LEMMA NumberedRows ==
    ASSUME NEW s \in Seq(Numbered)
    PROVE  \A k \in 1..Len(s) : s[k].debit \in Nat /\ s[k].credit \in Nat /\ s[k].balance \in Int
<1>1. \A k \in 1..Len(s) : s[k] \in Numbered
  OBVIOUS
<1> QED
  BY <1>1 DEF Numbered

(* The chain breaks on a distortion it can see, and holds without one.     *)
LEMMA RowsDecide ==
    ASSUME Given, case.column
    PROVE  /\ RowWiseSees(case.distortion, case.ledger) => ~NoColumn /\ ~AllChain
           /\ case.distortion.kind = "none" => ~NoColumn /\ AllChain
<1>1. PICK l : l = case.ledger /\ l \in Seq(Moves)
  BY CaseTyped
<1>2. PICK d : d = case.distortion /\ d \in Distortions
  BY CaseTyped
<1>a. PICK at : at = d.at /\ at \in 1..Len(l)
  BY <1>1, <1>2, CaseTyped
<1>3. PICK p : p = Printed(l)
  OBVIOUS
<1>4. PICK s : s = Distorted(p, d)
  OBVIOUS
<1>5. /\ p \in Seq(Numbered) /\ Len(p) = Len(l)
      /\ \A k \in 1..Len(l) : p[k].debit = l[k].debit /\ p[k].credit = l[k].credit
      /\ \A k \in 2..Len(l) : Follows(p, k)
  BY <1>1, <1>3, PrintedRows
<1>6. s \in Seq(Transactions) /\ Shape(p, s, d)
  BY <1>2, <1>4, <1>5, <1>a, DistortedShape
<1>7. Len(l) \in Nat /\ DOMAIN p = 1..Len(l) /\ Len(s) \in Nat /\ DOMAIN s = 1..Len(s)
  BY <1>1, <1>5, <1>6, MovesTyped
<1>8. rows = s
  BY <1>1, <1>2, <1>3, <1>4, <1>6, RowsRead
<1>9. \A k \in 1..Len(l) : p[k].debit \in Nat /\ p[k].credit \in Nat /\ p[k].balance \in Int
  BY <1>5, NumberedRows
<1>10. PICK a, b : a = p[at].debit /\ b = p[at].credit
  OBVIOUS
<1>11. a \in Nat /\ b \in Nat /\ (a = 0 \/ b = 0) /\ Size(l[at]) = a + b
  BY <1>1, <1>5, <1>9, <1>10, <1>a, MovesTyped DEF Size
<1>12. d.by \in Nat
  BY <1>2 DEF Distortions
<1>13. ASSUME s \in Seq(Numbered), Len(s) >= 1
       PROVE  ~NoColumn /\ Missing = {}
  <2>1. \A k \in 1..Len(s) : s[k].balance \in Int /\ s[k].balance # Absent
    BY <1>13, NumberedRows
  <2> QED
    BY <1>7, <1>8, <1>13, <2>1 DEF NoColumn, Missing
<1>14. \A k \in 2..Len(s) : ~Chains(k) => ~AllChain
  BY <1>8 DEF AllChain
<1>15. ASSUME d.kind = "none"
       PROVE  ~NoColumn /\ AllChain
  <2>1. s = p
    BY <1>6, <1>15 DEF Shape
  <2>2. ~NoColumn /\ Missing = {}
    BY <1>5, <1>7, <1>13, <1>a, <2>1
  <2>3. ASSUME NEW k \in 2..Len(p)
        PROVE  Chains(k)
    <3>1. Follows(p, k) /\ k \in 1..Len(l) /\ k - 1 \in 1..Len(l)
      BY <1>5, <1>7
    <3>2. Expected(k) = p[k].balance
      BY <1>8, <2>1, <3>1 DEF Follows, Expected
    <3>3. p[k].balance \in Int
      BY <1>9, <3>1
    <3> QED
      BY <1>8, <2>1, <3>2, <3>3 DEF Chains, Distance
  <2> QED
    BY <1>8, <2>1, <2>2, <2>3 DEF AllChain
<1>16. ASSUME d.kind = "drop", at \in 2..(Len(l) - 1), a + b > Tolerance
       PROVE  ~NoColumn /\ ~AllChain
  <2>1. s \in Seq(Numbered) /\ Without(p, s, at)
    BY <1>6, <1>16, <1>a DEF Shape
  <2>2. Len(s) = Len(l) - 1 /\ \A k \in 1..Len(s) : s[k] = IF k < at THEN p[k] ELSE p[k + 1]
    BY <1>5, <1>7, <2>1 DEF Without
  <2>3. at \in 2..Len(s) /\ at - 1 \in 1..Len(s) /\ at - 1 < at /\ at + 1 \in 2..Len(l)
    BY <1>7, <1>16, <2>2
  <2>4. s[at - 1] = p[at - 1] /\ s[at] = p[at + 1]
    BY <2>2, <2>3
  <2>5. PICK x \in Int, y \in Int, z \in Int, m \in Nat, n \in Nat :
            x = p[at - 1].balance /\ y = p[at].balance /\ z = p[at + 1].balance
            /\ m = p[at + 1].debit /\ n = p[at + 1].credit
    <3>1. at - 1 \in 1..Len(l) /\ at \in 1..Len(l) /\ at + 1 \in 1..Len(l)
      BY <1>7, <1>16
    <3> QED
      BY <1>9, <3>1
  <2>6. y = x - a + b /\ z = y - m + n
    <3>1. Follows(p, at) /\ Follows(p, at + 1) /\ at + 1 - 1 = at
      BY <1>5, <1>7, <1>16, <2>3
    <3>2. y = x - a + b
      BY <1>10, <2>5, <3>1 DEF Follows
    <3>3. p[at + 1].balance = p[at].balance - p[at + 1].debit + p[at + 1].credit
      <4>0. PICK k : k = at + 1
        OBVIOUS
      <4>1. k = at + 1 /\ k - 1 = at
        BY <1>7, <1>a, <4>0
      <4>2. Follows(p, k)
        BY <3>1, <4>1
      <4>3. p[k].balance = p[at].balance - p[k].debit + p[k].credit
        BY <4>1, <4>2 DEF Follows
      <4> QED
        BY <4>1, <4>3
    <3> QED
      BY <2>5, <3>2, <3>3
  <2>7. Expected(at) = x - m + n /\ rows[at].balance = z
    BY <1>8, <2>4, <2>5 DEF Expected
  <2>8. x - m + n = z + (a + b) \/ z = (x - m + n) + (a + b)
    BY <1>11, <2>6
  <2>9. ~Chains(at)
    <3>1. x - m + n \in Int /\ a + b \in Nat
      BY <1>11
    <3> QED
      BY <1>16, <2>7, <2>8, <3>1, Broken
  <2> QED
    BY <1>13, <1>14, <2>1, <2>3, <2>9
<1>17. ASSUME d.kind = "repeat", a + b > Tolerance
       PROVE  ~NoColumn /\ ~AllChain
  <2>1. s \in Seq(Numbered) /\ Without(s, p, at) /\ s[at] = p[at]
    BY <1>6, <1>17, <1>a DEF Shape
  <2>2. Len(s) = Len(l) + 1 /\ p[at] = s[at + 1]
    BY <1>5, <1>7, <1>a, <2>1 DEF Without
  <2>3. at + 1 \in 2..Len(s) /\ at + 1 - 1 = at
    BY <1>7, <1>a, <2>2
  <2>4. PICK y \in Int : y = p[at].balance
    BY <1>9, <1>a
  <2>5. Expected(at + 1) = y - a + b /\ rows[at + 1].balance = y
    <3>1. s[at].balance = y /\ s[at + 1].balance = y /\ s[at + 1].debit = a /\ s[at + 1].credit = b
      BY <1>10, <2>1, <2>2, <2>4
    <3>2. Expected(at + 1) = s[at].balance - s[at + 1].debit + s[at + 1].credit
      <4>0. PICK k : k = at + 1
        OBVIOUS
      <4>1. k = at + 1 /\ k - 1 = at
        BY <1>7, <1>a, <4>0
      <4>2. Expected(k) = s[at].balance - s[k].debit + s[k].credit
        BY <1>8, <4>1 DEF Expected
      <4> QED
        BY <4>1, <4>2
    <3> QED
      BY <1>8, <3>1, <3>2
  <2>6. y - a + b = y + (a + b) \/ y = (y - a + b) + (a + b)
    BY <1>11
  <2>7. ~Chains(at + 1)
    <3>1. y - a + b \in Int /\ a + b \in Nat
      BY <1>11
    <3> QED
      BY <1>17, <2>5, <2>6, <3>1, Broken
  <2> QED
    BY <1>7, <1>13, <1>14, <2>1, <2>2, <2>3, <2>7
<1>18. ASSUME d.kind = "debit", at >= 2, d.by > Tolerance
       PROVE  ~NoColumn /\ ~AllChain
  <2>1. /\ s \in Seq(Numbered) /\ Altered(p, s, at) /\ s[at].debit = a + d.by
        /\ s[at].credit = b /\ s[at].balance = p[at].balance
    BY <1>6, <1>10, <1>18, <1>a DEF Shape
  <2>2. Len(s) = Len(l) /\ s[at - 1] = p[at - 1] /\ at - 1 \in 1..Len(l) /\ at \in 2..Len(l)
    BY <1>5, <1>7, <1>18, <1>a, <2>1 DEF Altered
  <2>3. PICK x \in Int, y \in Int : x = p[at - 1].balance /\ y = p[at].balance
    BY <1>9, <1>a, <2>2
  <2>4. y = x - a + b
    <3>1. Follows(p, at)
      BY <1>5, <2>2
    <3> QED
      BY <1>10, <2>3, <3>1 DEF Follows
  <2>5. Expected(at) = x - (a + d.by) + b /\ rows[at].balance = y
    BY <1>8, <2>1, <2>2, <2>3 DEF Expected
  <2>6. y = (x - (a + d.by) + b) + d.by /\ x - (a + d.by) + b \in Int
    BY <1>11, <1>12, <2>4
  <2>7. ~Chains(at)
    BY <1>12, <1>18, <2>5, <2>6, Broken
  <2> QED
    BY <1>13, <1>14, <2>1, <2>2, <2>7
<1>19. ASSUME d.kind = "credit", at >= 2, d.by > Tolerance
       PROVE  ~NoColumn /\ ~AllChain
  <2>1. /\ s \in Seq(Numbered) /\ Altered(p, s, at) /\ s[at].credit = b + d.by
        /\ s[at].debit = a /\ s[at].balance = p[at].balance
    BY <1>6, <1>10, <1>19, <1>a DEF Shape
  <2>2. Len(s) = Len(l) /\ s[at - 1] = p[at - 1] /\ at - 1 \in 1..Len(l) /\ at \in 2..Len(l)
    BY <1>5, <1>7, <1>19, <1>a, <2>1 DEF Altered
  <2>3. PICK x \in Int, y \in Int : x = p[at - 1].balance /\ y = p[at].balance
    BY <1>9, <1>a, <2>2
  <2>4. y = x - a + b
    <3>1. Follows(p, at)
      BY <1>5, <2>2
    <3> QED
      BY <1>10, <2>3, <3>1 DEF Follows
  <2>5. Expected(at) = x - a + (b + d.by) /\ rows[at].balance = y
    BY <1>8, <2>1, <2>2, <2>3 DEF Expected
  <2>6. x - a + (b + d.by) = y + d.by /\ x - a + (b + d.by) \in Int
    BY <1>11, <1>12, <2>4
  <2>7. ~Chains(at)
    BY <1>12, <1>19, <2>5, <2>6, Broken
  <2> QED
    BY <1>13, <1>14, <2>1, <2>2, <2>7
<1>20. ASSUME d.kind = "balance", Len(l) >= 2, d.by > Tolerance
       PROVE  ~NoColumn /\ ~AllChain
  <2>1. /\ s \in Seq(Numbered) /\ Altered(p, s, at) /\ s[at].balance = p[at].balance + d.by
        /\ s[at].debit = a /\ s[at].credit = b
    BY <1>6, <1>10, <1>20, <1>a DEF Shape
  <2>2. Len(s) = Len(l) /\ \A k \in 1..Len(l) : k # at => s[k] = p[k]
    BY <1>5, <1>7, <2>1 DEF Altered
  <2>3. CASE at >= 2
    <3>1. s[at - 1] = p[at - 1] /\ at - 1 \in 1..Len(l) /\ at \in 2..Len(l)
      BY <1>7, <1>a, <2>2, <2>3
    <3>2. PICK x \in Int, y \in Int : x = p[at - 1].balance /\ y = p[at].balance
      BY <1>9, <1>a, <3>1
    <3>3. y = x - a + b
      <4>1. Follows(p, at)
        BY <1>5, <3>1
      <4> QED
        BY <1>10, <3>2, <4>1 DEF Follows
    <3>4. Expected(at) = x - a + b /\ rows[at].balance = y + d.by
      BY <1>8, <2>1, <3>1, <3>2 DEF Expected
    <3>5. y + d.by = (x - a + b) + d.by /\ x - a + b \in Int /\ y + d.by \in Int
      BY <1>11, <1>12, <3>3
    <3>6. ~Chains(at)
      BY <1>12, <1>20, <3>4, <3>5, Broken
    <3> QED
      BY <1>13, <1>14, <1>20, <2>1, <2>2, <3>1, <3>6
  <2>4. CASE at = 1
    <3>1. s[2] = p[2] /\ 2 \in 2..Len(l) /\ 2 \in 1..Len(l) /\ 2 - 1 = at
      BY <1>7, <1>20, <2>2, <2>4
    <3>2. PICK x \in Int, y \in Int, m \in Nat, n \in Nat :
              x = p[at].balance /\ y = p[2].balance /\ m = p[2].debit /\ n = p[2].credit
      BY <1>9, <1>a, <3>1
    <3>3. y = x - m + n
      <4>1. Follows(p, 2)
        BY <1>5, <3>1
      <4> QED
        BY <2>4, <3>2, <4>1 DEF Follows
    <3>4. Expected(2) = (x + d.by) - m + n /\ rows[2].balance = y
      BY <1>8, <2>1, <2>4, <3>1, <3>2 DEF Expected
    <3>5. (x + d.by) - m + n = y + d.by /\ (x + d.by) - m + n \in Int
      BY <1>12, <3>2, <3>3
    <3>6. ~Chains(2)
      BY <1>12, <1>20, <3>2, <3>4, <3>5, Broken
    <3> QED
      BY <1>13, <1>14, <1>20, <2>1, <2>2, <3>1, <3>6
  <2> QED
    BY <1>a, <2>3, <2>4
<1>21. ASSUME d.kind = "blank", Len(l) >= 2
       PROVE  ~NoColumn /\ ~AllChain
  <2>1. Altered(p, s, at) /\ s[at].balance = Absent
    BY <1>6, <1>21, <1>a DEF Shape
  <2>2. DOMAIN s = 1..Len(l) /\ \A k \in 1..Len(l) : k # at => s[k] = p[k]
    BY <1>7, <2>1 DEF Altered
  <2>3. PICK k \in 1..Len(l) : k # at
    BY <1>7, <1>21
  <2>4. at \in Missing
    BY <1>8, <1>a, <2>1, <2>2 DEF Missing
  <2>5. s[k].balance \in Int /\ k \notin Missing /\ k \in DOMAIN rows
    BY <1>8, <1>9, <2>2, <2>3 DEF Missing
  <2> QED
    BY <2>4, <2>5 DEF NoColumn, AllChain
<1>22. RowWiseSees(d, l) => ~NoColumn /\ ~AllChain
  BY <1>11, <1>16, <1>17, <1>18, <1>19, <1>20, <1>21, <1>a DEF RowWiseSees
<1> QED
  BY <1>1, <1>2, <1>15, <1>22

(* Without a balance column no row has a balance.                          *)
LEMMA NoColumnRead ==
    ASSUME Given, ~case.column
    PROVE  NoColumn
<1>1. PICK l : l = case.ledger /\ l \in Seq(Moves)
  BY CaseTyped
<1>2. PICK s : s = Distorted(Printed(l), case.distortion)
  OBVIOUS
<1>3. PICK p : p = Printed(l)
  OBVIOUS
<1>4. p \in Seq(Numbered) /\ Len(p) = Len(l)
  BY <1>1, <1>3, PrintedRows
<1>5. s \in Seq(Transactions)
  BY <1>1, <1>2, <1>3, <1>4, CaseTyped, DistortedShape
<1>6. \A k \in DOMAIN rows : rows[k].balance = Absent
  BY <1>1, <1>2, <1>5, RowsRead
<1> QED
  BY <1>6 DEF NoColumn, Missing

(* The verdict of reconcile_result on a case.                              *)
LEMMA CaseDecided ==
    ASSUME Given, VerdictRight
    PROVE  DistortionCaught
<1>1. (HeaderTotals <=> TotalsRun) /\ result.optOut = case.optOut
  BY HeadersRead
<1>2. ASSUME pc = "reported", TotalsRun
      PROVE  ~TotalsSee(case.distortion, case.ledger)
  BY <1>1, <1>2, TotalsDecide DEF VerdictRight, Accepts
<1>3. ASSUME pc = "reported", RowWiseRuns
      PROVE  ~RowWiseSees(case.distortion, case.ledger)
  BY <1>1, <1>3, RowsDecide DEF VerdictRight, Accepts, RowWiseRuns
<1>4. ASSUME case.distortion.kind = "none", TotalsRun \/ RowWiseRuns
      PROVE  pc # "raised"
  <2>1. HeaderTotals => TotalsMatch
    BY <1>4, TotalsDecide
  <2>2. NoColumn \/ AllChain
    BY <1>4, NoColumnRead, RowsDecide
  <2>3. HeaderTotals \/ (~result.optOut /\ ~NoColumn)
    BY <1>1, <1>4, RowsDecide DEF RowWiseRuns
  <2> QED
    BY <2>1, <2>2, <2>3 DEF VerdictRight, Accepts
<1> QED
  BY <1>2, <1>3, <1>4 DEF DistortionCaught

(* For ledgers of any length, moves and distortions of any amount and any  *)
(* tolerance: what reconcile_result reports clean has no distortion that a *)
(* check it ran has the evidence to see, and what was read as printed is   *)
(* not refused.                                                            *)
THEOREM DistortionsCaught == LedgerSpec => []DistortionCaught
<1>1. LedgerInit => Given /\ Judged
  BY JudgedInit DEF LedgerInit, Given
<1>2. (Given /\ Judged) /\ [LedgerNext]_<<vars, case>> => (Given /\ Judged)'
  <2> SUFFICES ASSUME Given, Judged, [LedgerNext]_<<vars, case>>
               PROVE  (Given /\ Judged)'
    OBVIOUS
  <2>1. [Next]_vars /\ case' = case
    BY DEF LedgerNext
  <2>2. Judged' /\ result' = result
    BY <2>1, JudgedStep, ResultStays
  <2>3. Given'
    BY <2>1, <2>2 DEF Given, Parsed
  <2> QED
    BY <2>2, <2>3
<1>3. Given /\ Judged => DistortionCaught
  BY CaseDecided DEF Judged
<1> QED
  BY <1>1, <1>2, <1>3, PTL DEF LedgerSpec
=============================================================================
