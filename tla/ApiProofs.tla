----------------------------- MODULE ApiProofs -----------------------------
(***************************************************************************)
(* Proofs about Api for every number of threads, calls and pages: what a   *)
(* caller is sent, told and given, whatever the other threads do.          *)
(*                                                                         *)
(* A step is a step of one call.  What it makes of that call is stated for *)
(* values (CallOK), and StepKeeps carries it back to the state.            *)
(***************************************************************************)
EXTENDS Api, FiniteSetTheorems, TLAPS

(* How often an event was fired.                                           *)
LEMMA CountNat ==
    ASSUME NEW s \in Seq(Stages), NEW e
    PROVE  Count(e, s) \in Nat /\ IsFiniteSet({i \in DOMAIN s : s[i] = e})
<1>1. IsFiniteSet(1..Len(s)) /\ DOMAIN s = 1..Len(s)
  BY FS_Interval
<1>2. IsFiniteSet({i \in DOMAIN s : s[i] = e})
  <2>1. {i \in DOMAIN s : s[i] = e} \subseteq 1..Len(s)
    BY <1>1
  <2> QED
    BY <1>1, <2>1, FS_Subset
<1> QED
  BY <1>2, FS_CardinalityType DEF Count

LEMMA CountNone ==
    ASSUME NEW s \in Seq(Stages), NEW e, ~Fires(e, s)
    PROVE  Count(e, s) = 0
<1>1. {i \in DOMAIN s : s[i] = e} = {}
  BY DEF Fires
<1> QED
  BY <1>1, FS_EmptySet DEF Count

LEMMA CountSame ==
    ASSUME NEW s \in Seq(Stages), NEW x \in Stages, NEW e, x # e
    PROVE  Count(e, Append(s, x)) = Count(e, s)
<1>1. /\ DOMAIN Append(s, x) = 1..(Len(s) + 1) /\ DOMAIN s = 1..Len(s) /\ Len(s) \in Nat
      /\ Append(s, x)[Len(s) + 1] = x /\ \A i \in 1..Len(s) : Append(s, x)[i] = s[i]
  OBVIOUS
<1>2. {i \in DOMAIN Append(s, x) : Append(s, x)[i] = e} = {i \in DOMAIN s : s[i] = e}
  BY <1>1
<1> QED
  BY <1>2 DEF Count

LEMMA CountMore ==
    ASSUME NEW s \in Seq(Stages), NEW e \in Stages
    PROVE  Count(e, Append(s, e)) = Count(e, s) + 1
<1> DEFINE Was == {i \in DOMAIN s : s[i] = e}
<1>1. /\ DOMAIN Append(s, e) = 1..(Len(s) + 1) /\ DOMAIN s = 1..Len(s) /\ Len(s) \in Nat
      /\ Append(s, e)[Len(s) + 1] = e /\ \A i \in 1..Len(s) : Append(s, e)[i] = s[i]
  OBVIOUS
<1>2. {i \in DOMAIN Append(s, e) : Append(s, e)[i] = e} = Was \cup {Len(s) + 1}
  BY <1>1
<1>3. Len(s) + 1 \notin Was
  BY <1>1
<1>5. IsFiniteSet(Was)
  BY CountNat
<1> HIDE DEF Was
<1>4. Cardinality(Was \cup {Len(s) + 1}) = Cardinality(Was) + 1
  BY <1>3, <1>5, FS_AddElement
<1> QED
  BY <1>2, <1>4 DEF Count, Was

LEMMA FiresMore ==
    ASSUME NEW s \in Seq(Stages), NEW x \in Stages, NEW e
    PROVE  Fires(e, Append(s, x)) <=> Fires(e, s) \/ x = e
<1>1. /\ DOMAIN Append(s, x) = 1..(Len(s) + 1) /\ DOMAIN s = 1..Len(s) /\ Len(s) \in Nat
      /\ Append(s, x)[Len(s) + 1] = x /\ \A i \in 1..Len(s) : Append(s, x)[i] = s[i]
  OBVIOUS
<1>2. 1..(Len(s) + 1) = 1..Len(s) \cup {Len(s) + 1}
  BY <1>1
<1> QED
  BY <1>1, <1>2 DEF Fires

LEMMA RankType ==
    /\ \A e \in Stages : Rank[e] \in 1..6
    /\ Rank["detect"] = 1 /\ Rank["open"] = 2 /\ Rank["extract_page"] = 3 /\ Rank["walk_page"] = 4
    /\ Rank["redact_page"] = 4 /\ Rank["reconcile"] = 5 /\ Rank["done"] = 6
BY DEF Rank, Stages

(* No event of a higher rank than any of s is among them.                  *)
LEMMA NotYet ==
    ASSUME NEW s \in Seq(Stages), NEW h \in Nat, \A i \in DOMAIN s : Rank[s[i]] <= h,
           NEW e \in Stages, Rank[e] > h
    PROVE  ~Fires(e, s) /\ Count(e, s) = 0
<1>1. ~Fires(e, s)
  BY RankType DEF Fires
<1> QED
  BY <1>1, CountNone

(* An event of no lower rank than those before keeps them in order.        *)
LEMMA OrderMore ==
    ASSUME NEW s \in Seq(Stages), NEW h \in Nat, \A i \in DOMAIN s : Rank[s[i]] <= h,
           \A i \in 1..(Len(s) - 1) : Rank[s[i]] <= Rank[s[i + 1]],
           NEW x \in Stages, h <= Rank[x]
    PROVE  /\ Append(s, x) \in Seq(Stages)
           /\ \A i \in DOMAIN Append(s, x) : Rank[Append(s, x)[i]] <= Rank[x]
           /\ \A i \in 1..(Len(Append(s, x)) - 1) : Rank[Append(s, x)[i]] <= Rank[Append(s, x)[i + 1]]
<1> DEFINE u == Append(s, x)
<1>1. /\ u \in Seq(Stages) /\ DOMAIN u = 1..(Len(s) + 1) /\ DOMAIN s = 1..Len(s) /\ Len(s) \in Nat
      /\ Len(u) = Len(s) + 1 /\ u[Len(s) + 1] = x /\ \A i \in 1..Len(s) : u[i] = s[i]
  OBVIOUS
<1>2. Rank[x] \in Nat /\ \A i \in DOMAIN s : Rank[s[i]] \in Nat
  <2>1. \A e \in Stages : Rank[e] \in Nat
    BY RankType
  <2>2. \A i \in DOMAIN s : s[i] \in Stages
    OBVIOUS
  <2> QED
    BY <2>1, <2>2
<1> HIDE DEF u
<1>3. \A i \in DOMAIN s : Rank[s[i]] <= Rank[x]
  BY <1>2
<1>4. \A i \in DOMAIN u : Rank[u[i]] <= Rank[x]
  <2> TAKE i \in DOMAIN u
  <2>1. CASE i \in 1..Len(s)
    BY <1>1, <1>3, <2>1
  <2>2. CASE i = Len(s) + 1
    BY <1>1, <1>2, <2>2
  <2> QED
    BY <1>1, <2>1, <2>2
<1>5. \A i \in 1..(Len(u) - 1) : Rank[u[i]] <= Rank[u[i + 1]]
  <2> TAKE i \in 1..(Len(u) - 1)
  <2>1. i \in 1..Len(s) /\ u[i] = s[i]
    BY <1>1
  <2>2. CASE i < Len(s)
    <3>1. i \in 1..(Len(s) - 1) /\ i + 1 \in 1..Len(s)
      BY <1>1, <2>1, <2>2
    <3> QED
      BY <1>1, <2>1, <3>1
  <2>3. CASE i = Len(s)
    BY <1>1, <1>3, <2>1, <2>3
  <2> QED
    BY <1>1, <2>1, <2>2, <2>3
<1> QED
  BY <1>1, <1>4, <1>5 DEF u

Once == {"detect", "open", "reconcile", "done"}

LEMMA OnceMore ==
    ASSUME NEW s \in Seq(Stages), NEW h \in Nat, \A i \in DOMAIN s : Rank[s[i]] <= h,
           \A e \in Once : Count(e, s) <= 1,
           NEW x \in Stages, x \in Once => Rank[x] > h
    PROVE  \A e \in Once : Count(e, Append(s, x)) <= 1
<1> TAKE e \in Once
<1>1. CASE x = e
  <2>1. Count(e, s) = 0
    BY <1>1, NotYet
  <2> QED
    BY <1>1, <2>1, CountMore
<1>2. CASE x # e
  BY <1>2, CountSame
<1> QED
  BY <1>1, <1>2

-----------------------------------------------------------------------------
(* What a call has said when it goes on, in silence or with an event.      *)
LEMMA HighestType ==
    ASSUME NEW at \in Places
    PROVE  Highest(at) \in 0..6
BY DEF Highest, Places

LEMMA SaidGoes ==
    ASSUME NEW r, NEW at \in Places, NEW to \in Places, NEW next, NEW then, NEW s \in Seq(Stages),
           Said(r, at, next, s), Highest(at) <= Highest(to),
           r.callback => Due(r, to, then, s)
    PROVE  Said(r, to, then, s)
<1>1. Highest(at) \in Nat /\ Highest(to) \in Nat
  BY HighestType
<1>2. ASSUME NEW i \in DOMAIN s PROVE Rank[s[i]] <= Highest(to)
  <2>1. s[i] \in Stages
    OBVIOUS
  <2>2. Rank[s[i]] \in Nat
    BY <2>1, RankType
  <2>3. Rank[s[i]] <= Highest(at)
    BY DEF Said
  <2> QED
    BY <1>1, <2>2, <2>3
<1> QED
  BY <1>2 DEF Said

LEMMA SaidMore ==
    ASSUME NEW r, NEW at \in Places, NEW to \in Places, NEW next, NEW then, NEW s \in Seq(Stages),
           Said(r, at, next, s), NEW x \in Stages,
           Highest(at) <= Rank[x], x \in Once => Highest(at) < Rank[x], Rank[x] <= Highest(to),
           x = "walk_page" => Count("extract_page", s) = Extracted(r),
           x = "done" => WholeCall(r, s),
           r.callback => Due(r, to, then, Append(s, x))
    PROVE  Append(s, x) \in Seq(Stages) /\ Said(r, to, then, Append(s, x))
<1> DEFINE h == Highest(at)
           u == Append(s, x)
<1>1. h \in Nat /\ Highest(to) \in Nat /\ Rank[x] \in Nat
  <2>1. Rank[x] \in Nat
    BY RankType
  <2> QED
    BY <2>1, HighestType
<1>2. /\ \A i \in DOMAIN s : Rank[s[i]] <= h
      /\ \A i \in 1..(Len(s) - 1) : Rank[s[i]] <= Rank[s[i + 1]]
      /\ \A e \in Once : Count(e, s) <= 1
  BY DEF Said, Once
<1> HIDE DEF h
<1>3. /\ u \in Seq(Stages)
      /\ \A i \in DOMAIN u : Rank[u[i]] <= Rank[x]
      /\ \A i \in 1..(Len(u) - 1) : Rank[u[i]] <= Rank[u[i + 1]]
  <2>1. h <= Rank[x]
    BY DEF h
  <2> QED
    BY <1>1, <1>2, <2>1, OrderMore
<1>4. \A e \in Once : Count(e, u) <= 1
  <2>1. x \in Once => Rank[x] > h
    BY <1>1 DEF h
  <2> QED
    BY <1>1, <1>2, <2>1, OnceMore
<1>5. \A e \in Stages : Fires(e, u) <=> Fires(e, s) \/ x = e
  BY FiresMore
<1>6. Fires("walk_page", u) => Count("extract_page", u) = Extracted(r)
  <2>0. "walk_page" \in Stages /\ "extract_page" \in Stages
    BY DEF Stages
  <2>1. CASE x = "extract_page"
    <3>1. h <= 3
      BY <2>1, RankType DEF h
    <3>2. Rank["walk_page"] > h
      BY <1>1, <3>1, RankType
    <3>3. ~Fires("walk_page", s)
      BY <1>1, <1>2, <2>0, <3>2, NotYet
    <3> QED
      BY <1>5, <2>0, <2>1, <3>3
  <2>2. CASE x # "extract_page"
    <3>1. Count("extract_page", u) = Count("extract_page", s)
      BY <2>2, CountSame
    <3> QED
      BY <1>5, <2>0, <3>1 DEF Said
  <2> QED
    BY <2>1, <2>2
<1>7. Fires("done", u) => WholeCall(r, u)
  <2>0. {"walk_page", "redact_page", "done"} \subseteq Stages
    BY DEF Stages
  <2>1. CASE x \in {"walk_page", "redact_page"}
    <3>1. h <= 4 /\ x # "done"
      BY <2>1, RankType DEF h
    <3>2. Rank["done"] > h
      BY <1>1, <3>1, RankType
    <3>3. ~Fires("done", s)
      BY <1>1, <1>2, <2>0, <3>2, NotYet
    <3> QED
      BY <1>5, <2>0, <3>1, <3>3
  <2>2. CASE x \notin {"walk_page", "redact_page"}
    <3>1. Count("walk_page", u) = Count("walk_page", s) /\ Count("redact_page", u) = Count("redact_page", s)
      BY <2>2, CountSame
    <3>2. Fires("done", u) => WholeCall(r, s)
      BY <1>5, <2>0 DEF Said
    <3> QED
      BY <3>1, <3>2 DEF WholeCall
  <2> QED
    BY <2>1, <2>2
<1>8. \A i \in DOMAIN u : Rank[u[i]] <= Highest(to)
  <2> TAKE i \in DOMAIN u
  <2>1. u[i] \in Stages
    BY <1>3
  <2>2. Rank[u[i]] \in Nat
    BY <2>1, RankType
  <2> QED
    BY <1>1, <1>3, <2>2
<1> HIDE DEF u
<1>9. r.callback => Due(r, to, then, u)
  BY DEF u
<1>10. Said(r, to, then, u)
  BY <1>3, <1>4, <1>6, <1>7, <1>8, <1>9 DEF Said, Once
<1> QED
  BY <1>3, <1>10 DEF u

-----------------------------------------------------------------------------
(* The invariants of Api for one call and the values of its thread.        *)
InScope(t, r, c, at, sl, tks) ==
    /\ at # "idle" => c > 0
    /\ at \in {"idle", "enter"} => tks = <<>>
    /\ at \notin {"idle", "enter", "unwind"} /\ r.callback => tks # <<>>
    /\ \/ tks = <<>> /\ sl = NoCallback
       \/ tks = <<NoCallback>> /\ sl = <<t, c>> /\ r.callback

OnWay(r, at, op, nm, ve, flt, out) ==
    /\ at # "idle" => out = NoFault
    /\ r.op = "detect" /\ at # "idle" => ~r.callback
    /\ at \in {"enter", "detect_only", "score", "lookup", "emit_detect", "emit_open", "open_source"} => ~op
    /\ at = "detect_only" => r.op = "detect"
    /\ at = "redact" => r.op = "redact"
    /\ at \in {"extract", "walk", "build"} => r.op # "redact"
    /\ at = "checks" /\ r.op = "convert" => nm
    /\ at \in {"serialize", "leave", "return"} /\ r.op = "convert" /\ r.reconcile => ve
    /\ at = "unwind" => /\ flt # Returned
                        /\ flt.kind = "parse" /\ op => flt.bank
                        /\ flt.kind = "reconcile" /\ r.op = "convert" => flt.bank
                        /\ flt.kind = "reconcile" => (flt.bank <=> nm)

Telling(r, c, at, next, flt, s) ==
    c > 0 => /\ Said(r, at, next, s)
             /\ next <= r.pages
             /\ at \notin {"extract", "walk", "redact", "unwind", "idle"} => next = 1
             /\ at = "unwind" /\ flt.kind \in {"parse", "reconcile"} => ~Fires("done", s)

Ended(r, c, op, nm, ve, out, s) ==
    /\ c > 0 => /\ out = Returned /\ r.callback => Fires("done", s)
                /\ out.kind \in {"parse", "reconcile"} => ~Fires("done", s)
                /\ out = Returned /\ r.op = "convert" /\ r.reconcile => ve
                /\ Fires("reconcile", s) => ve
    /\ out.kind = "parse" /\ op => out.bank
    /\ out.kind = "reconcile" /\ r.op = "convert" => out.bank
    /\ out.kind = "reconcile" => (out.bank <=> nm)

CallOK(t, r, c, at, next, sl, tks, op, nm, ve, flt, out, s) ==
    /\ InScope(t, r, c, at, sl, tks)
    /\ OnWay(r, at, op, nm, ve, flt, out)
    /\ Telling(r, c, at, next, flt, s)
    /\ Ended(r, c, op, nm, ve, out, s)

(* The inductive invariant.                                                *)
IInv == /\ TypeOK /\ ScopeHeld /\ NothingEarly /\ OnItsWay /\ EventsSoFar
        /\ StagesInOrder /\ NothingUnchecked /\ ErrorsNameTheBank
        /\ foreign = {}

LEMMA InvParts ==
    ASSUME IInv
    PROVE  /\ TypeOK /\ NothingEarly /\ foreign = {}
           /\ \A t \in Threads :
                CallOK(t, req[t], calls[t], pc[t], page[t], slot[t], tokens[t], opened[t], named[t],
                       verified[t], fault[t], outcome[t], events[<<t, calls[t]>>])
<1>1. ASSUME NEW t \in Threads
      PROVE  CallOK(t, req[t], calls[t], pc[t], page[t], slot[t], tokens[t], opened[t], named[t],
                    verified[t], fault[t], outcome[t], events[<<t, calls[t]>>])
  <2>1. InScope(t, req[t], calls[t], pc[t], slot[t], tokens[t])
    BY DEF IInv, ScopeHeld, InScope, Context, Me
  <2>2. OnWay(req[t], pc[t], opened[t], named[t], verified[t], fault[t], outcome[t])
    BY DEF IInv, OnItsWay, OnWay
  <2>3. Telling(req[t], calls[t], pc[t], page[t], fault[t], events[<<t, calls[t]>>])
    BY DEF IInv, EventsSoFar, Telling, Me
  <2>4. Ended(req[t], calls[t], opened[t], named[t], verified[t], outcome[t], events[<<t, calls[t]>>])
    BY DEF IInv, StagesInOrder, NothingUnchecked, ErrorsNameTheBank, Ended, Me
  <2> QED
    BY <2>1, <2>2, <2>3, <2>4 DEF CallOK
<1> QED
  BY <1>1 DEF IInv

LEMMA AfterIsInv ==
    ASSUME TypeOK', NothingEarly', foreign' = {},
           \A t \in Threads :
             CallOK(t, req'[t], calls'[t], pc'[t], page'[t], slot'[t], tokens'[t], opened'[t], named'[t],
                    verified'[t], fault'[t], outcome'[t], events'[<<t, calls'[t]>>])
    PROVE  IInv'
<1>1. \A t \in Threads :
        /\ InScope(t, req'[t], calls'[t], pc'[t], slot'[t], tokens'[t])
        /\ OnWay(req'[t], pc'[t], opened'[t], named'[t], verified'[t], fault'[t], outcome'[t])
        /\ Telling(req'[t], calls'[t], pc'[t], page'[t], fault'[t], events'[<<t, calls'[t]>>])
        /\ Ended(req'[t], calls'[t], opened'[t], named'[t], verified'[t], outcome'[t], events'[<<t, calls'[t]>>])
  BY DEF CallOK
<1>2. ScopeHeld'
  BY <1>1 DEF ScopeHeld, InScope, Context, Me
<1>3. OnItsWay'
  BY <1>1 DEF OnItsWay, OnWay
<1>4. EventsSoFar'
  BY <1>1 DEF EventsSoFar, Telling, Me
<1>5. NothingUnchecked' /\ ErrorsNameTheBank'
  BY <1>1 DEF NothingUnchecked, ErrorsNameTheBank, Ended, Me
<1>6. StagesInOrder'
  BY <1>1 DEF StagesInOrder, Telling, Said, Ended, Me
<1> QED
  BY <1>2, <1>3, <1>4, <1>5, <1>6 DEF IInv

(* A step of one call: r, c, ... are the values its thread has after it.   *)
Step(t, r, c, at, next, sl, tks, op, nm, ve, flt, out) ==
    /\ req' = [req EXCEPT ![t] = r] /\ calls' = [calls EXCEPT ![t] = c]
    /\ pc' = [pc EXCEPT ![t] = at] /\ page' = [page EXCEPT ![t] = next]
    /\ slot' = [slot EXCEPT ![t] = sl] /\ tokens' = [tokens EXCEPT ![t] = tks]
    /\ opened' = [opened EXCEPT ![t] = op] /\ named' = [named EXCEPT ![t] = nm]
    /\ verified' = [verified EXCEPT ![t] = ve]
    /\ fault' = [fault EXCEPT ![t] = flt] /\ outcome' = [outcome EXCEPT ![t] = out]
    /\ foreign' = {} /\ events' \in [Ids -> Seq(Stages)]
    /\ \A id \in Ids : id # <<t, c>> => events'[id] = events[id]

Values(r, c, at, next, sl, tks, op, nm, ve, flt, out) ==
    /\ r \in AllRequests /\ c \in 0..MaxCalls /\ at \in Places /\ next \in 1..MaxPages
    /\ sl \in Ids \cup {NoCallback} /\ tks \in Seq(Ids \cup {NoCallback})
    /\ op \in BOOLEAN /\ nm \in BOOLEAN /\ ve \in BOOLEAN /\ flt \in Faults /\ out \in Faults \cup {Returned}

LEMMA StepKeeps ==
    ASSUME IInv, NEW t \in Threads, NEW r, NEW c, NEW at, NEW next, NEW sl, NEW tks, NEW op, NEW nm, NEW ve,
           NEW flt, NEW out, Values(r, c, at, next, sl, tks, op, nm, ve, flt, out), calls[t] <= c,
           Step(t, r, c, at, next, sl, tks, op, nm, ve, flt, out),
           CallOK(t, r, c, at, next, sl, tks, op, nm, ve, flt, out, events'[<<t, c>>])
    PROVE  IInv'
<1>1. TypeOK /\ NothingEarly
  BY InvParts
<1>2. TypeOK'
  BY <1>1 DEF TypeOK, Step, Values, Contexts
<1>3. calls'[t] = c /\ \A u \in Threads \ {t} : calls'[u] = calls[u]
  BY <1>1 DEF TypeOK, Step
<1>4. NothingEarly'
  <2> SUFFICES ASSUME NEW id \in Ids, calls'[id[1]] < id[2] PROVE events'[id] = <<>>
    BY DEF NothingEarly
  <2>1. id[1] \in Threads /\ id[2] \in Nat /\ calls[id[1]] \in Nat /\ c \in Nat
    BY <1>1 DEF Ids, TypeOK, Values
  <2>2. calls[id[1]] < id[2] /\ id # <<t, c>>
    BY <1>3, <2>1
  <2>3. events'[id] = events[id]
    BY <2>2 DEF Step
  <2> QED
    BY <1>1, <2>2, <2>3 DEF NothingEarly
<1>5. foreign' = {}
  BY DEF Step
<1>6. ASSUME NEW u \in Threads
      PROVE  CallOK(u, req'[u], calls'[u], pc'[u], page'[u], slot'[u], tokens'[u], opened'[u], named'[u],
                    verified'[u], fault'[u], outcome'[u], events'[<<u, calls'[u]>>])
  <2>1. CASE u = t
    <3>1. /\ req'[t] = r /\ calls'[t] = c /\ pc'[t] = at /\ page'[t] = next /\ slot'[t] = sl /\ tokens'[t] = tks
          /\ opened'[t] = op /\ named'[t] = nm /\ verified'[t] = ve /\ fault'[t] = flt /\ outcome'[t] = out
      BY <1>1 DEF TypeOK, Step, Contexts
    <3> QED
      BY <2>1, <3>1
  <2>2. CASE u # t
    <3>1. /\ req'[u] = req[u] /\ calls'[u] = calls[u] /\ pc'[u] = pc[u] /\ page'[u] = page[u]
          /\ slot'[u] = slot[u] /\ tokens'[u] = tokens[u]
          /\ opened'[u] = opened[u] /\ named'[u] = named[u] /\ verified'[u] = verified[u] /\ fault'[u] = fault[u]
          /\ outcome'[u] = outcome[u]
      BY <1>1, <2>2 DEF TypeOK, Step, Contexts
    <3>2. CASE calls[u] > 0
      <4>1. <<u, calls[u]>> \in Ids /\ <<u, calls[u]>> # <<t, c>>
        BY <1>1, <2>2, <3>2 DEF TypeOK, Ids
      <4>2. events'[<<u, calls[u]>>] = events[<<u, calls[u]>>]
        BY <4>1 DEF Step
      <4> QED
        BY <3>1, <4>2, InvParts
    <3>3. CASE ~(calls[u] > 0)
      <4>1. CallOK(u, req[u], calls[u], pc[u], page[u], slot[u], tokens[u], opened[u], named[u],
                   verified[u], fault[u], outcome[u], events[<<u, calls[u]>>])
        BY InvParts
      <4>2. CallOK(u, req[u], calls[u], pc[u], page[u], slot[u], tokens[u], opened[u], named[u],
                   verified[u], fault[u], outcome[u], events'[<<u, calls[u]>>])
        BY <3>3, <4>1 DEF CallOK, Telling, Ended
      <4> QED
        BY <3>1, <4>2
    <3> QED
      BY <3>2, <3>3
  <2> QED
    BY <2>1, <2>2
<1> QED
  BY <1>2, <1>4, <1>5, <1>6, AfterIsInv

(* What is known of a call under way.                                      *)
LEMMA UnderWay ==
    ASSUME IInv, NEW t \in Threads
    PROVE  /\ CallOK(t, req[t], calls[t], pc[t], page[t], slot[t], tokens[t], opened[t], named[t],
                     verified[t], fault[t], outcome[t], events[<<t, calls[t]>>])
           /\ Values(req[t], calls[t], pc[t], page[t], slot[t], tokens[t], opened[t], named[t], verified[t],
                     fault[t], outcome[t])
           /\ pc[t] # "idle" => /\ calls[t] > 0 /\ <<t, calls[t]>> \in Ids
                                /\ events[<<t, calls[t]>>] \in Seq(Stages)
                                /\ Said(req[t], pc[t], page[t], events[<<t, calls[t]>>])
                                /\ page[t] <= req[t].pages /\ outcome[t] = NoFault
           /\ req[t].pages \in 1..MaxPages /\ req[t].callback \in BOOLEAN
           /\ MaxCalls \in Nat /\ MaxPages \in Nat
<1>1. TypeOK /\ CallOK(t, req[t], calls[t], pc[t], page[t], slot[t], tokens[t], opened[t], named[t],
                       verified[t], fault[t], outcome[t], events[<<t, calls[t]>>])
  BY InvParts
<1>2. Values(req[t], calls[t], pc[t], page[t], slot[t], tokens[t], opened[t], named[t], verified[t], fault[t], outcome[t])
  BY <1>1 DEF TypeOK, Values, Contexts
<1>3. req[t].pages \in 1..MaxPages /\ req[t].callback \in BOOLEAN
  BY <1>2 DEF Values, AllRequests
<1>4. pc[t] # "idle" => calls[t] > 0 /\ outcome[t] = NoFault
  BY <1>1 DEF CallOK, InScope, OnWay
<1>5. calls[t] > 0 => <<t, calls[t]>> \in Ids
  BY <1>2, BoundsAssumption DEF Values, Ids
<1>6. <<t, calls[t]>> \in Ids => events[<<t, calls[t]>>] \in Seq(Stages)
  BY <1>1 DEF TypeOK
<1>7. calls[t] > 0 => Said(req[t], pc[t], page[t], events[<<t, calls[t]>>]) /\ page[t] <= req[t].pages
  BY <1>1 DEF CallOK, Telling
<1>8. MaxCalls \in Nat /\ MaxPages \in Nat
  BY BoundsAssumption
<1> QED
  BY <1>1, <1>2, <1>3, <1>4, <1>5, <1>6, <1>7, <1>8

(* A step of a call that stays in its scope and does not end.              *)
Moved(t, to, next, op, nm, ve, flt) ==
    /\ UNCHANGED <<req, calls, slot, tokens, outcome>>
    /\ pc' = [pc EXCEPT ![t] = to] /\ page' = [page EXCEPT ![t] = next]
    /\ opened' = [opened EXCEPT ![t] = op] /\ named' = [named EXCEPT ![t] = nm]
    /\ verified' = [verified EXCEPT ![t] = ve]
    /\ fault' = [fault EXCEPT ![t] = flt]
    /\ foreign' = {} /\ events' \in [Ids -> Seq(Stages)]
    /\ \A id \in Ids : id # <<t, calls[t]>> => events'[id] = events[id]

LEMMA MoveKeeps ==
    ASSUME IInv, NEW t \in Threads, pc[t] # "idle",
           NEW to \in Places \ {"idle"}, NEW next \in 1..MaxPages, NEW op \in BOOLEAN, NEW nm \in BOOLEAN,
           NEW ve \in BOOLEAN,
           NEW flt \in Faults, Moved(t, to, next, op, nm, ve, flt),
           InScope(t, req[t], calls[t], to, slot[t], tokens[t]),
           OnWay(req[t], to, op, nm, ve, flt, NoFault),
           Telling(req[t], calls[t], to, next, flt, events'[<<t, calls[t]>>]),
           Fires("reconcile", events'[<<t, calls[t]>>]) => ve
    PROVE  IInv'
<1>1. /\ Values(req[t], calls[t], pc[t], page[t], slot[t], tokens[t], opened[t], named[t], verified[t],
                fault[t], outcome[t])
      /\ calls[t] > 0 /\ outcome[t] = NoFault
  BY UnderWay
<1>2. Values(req[t], calls[t], to, next, slot[t], tokens[t], op, nm, ve, flt, outcome[t])
  BY <1>1 DEF Values
<1>3. Step(t, req[t], calls[t], to, next, slot[t], tokens[t], op, nm, ve, flt, outcome[t])
  <2>1. TypeOK
    BY InvParts
  <2> QED
    BY <2>1 DEF Moved, Step, TypeOK, Contexts
<1>4. Ended(req[t], calls[t], op, nm, ve, outcome[t], events'[<<t, calls[t]>>])
  BY <1>1 DEF Ended, NoFault, Fault, Returned
<1>5. CallOK(t, req[t], calls[t], to, next, slot[t], tokens[t], op, nm, ve, flt, outcome[t],
             events'[<<t, calls[t]>>])
  BY <1>1, <1>4 DEF CallOK
<1>6. calls[t] <= calls[t]
  BY <1>1 DEF Values
<1> QED
  BY <1>2, <1>3, <1>5, <1>6, StepKeeps

(* What an exception says when it leaves a place.                          *)
LEMMA SurfaceIs ==
    ASSUME NEW at, NEW k \in Kinds, NEW n \in BOOLEAN
    PROVE  /\ Surface(at, k, n) \in Faults /\ Surface(at, k, n) # Returned
           /\ Surface(at, k, n).kind = "parse" => k = "parse" \/ at \in WorkerSteps \cup {"score"}
           /\ Surface(at, k, n).kind = "parse" /\ at \in WorkerSteps => Surface(at, k, n).bank
           /\ Surface(at, k, n).kind = "reconcile" => k = "reconcile" /\ Surface(at, k, n).bank = n
BY DEF Surface, Kinds, Faults, Fault, Returned, WorkerSteps

(* A call that fails, with or without an event before.                     *)
LEMMA RaiseKeeps ==
    ASSUME IInv, NEW t \in Threads, pc[t] \notin {"idle", "unwind", "return"}, NEW k \in Kinds,
           k = "parse" => pc[t] \in WorkerSteps \cup {"score", "detect_only"},
           k = "reconcile" => pc[t] = "checks",
           NEW next \in 1..MaxPages, next <= req[t].pages, NEW ve \in BOOLEAN,
           Moved(t, "unwind", next, opened[t], named[t], ve, Surface(pc[t], k, named[t])),
           Said(req[t], "unwind", next, events'[<<t, calls[t]>>]),
           Fires("reconcile", events'[<<t, calls[t]>>]) => ve,
           Surface(pc[t], k, named[t]).kind \in {"parse", "reconcile"} => ~Fires("done", events'[<<t, calls[t]>>])
    PROVE  IInv'
<1> DEFINE flt == Surface(pc[t], k, named[t])
<1>1. /\ flt \in Faults /\ flt # Returned
      /\ flt.kind = "parse" => k = "parse" \/ pc[t] \in WorkerSteps \cup {"score"}
      /\ flt.kind = "parse" /\ pc[t] \in WorkerSteps => flt.bank
      /\ flt.kind = "reconcile" => pc[t] = "checks" /\ flt.bank = named[t]
  <2>1. named[t] \in BOOLEAN
    BY UnderWay DEF Values
  <2> QED
    BY <2>1, SurfaceIs
<1>2. /\ InScope(t, req[t], calls[t], pc[t], slot[t], tokens[t])
      /\ OnWay(req[t], pc[t], opened[t], named[t], verified[t], fault[t], outcome[t])
      /\ opened[t] \in BOOLEAN /\ named[t] \in BOOLEAN
  BY UnderWay DEF CallOK, Values
<1> HIDE DEF flt
<1>3. InScope(t, req[t], calls[t], "unwind", slot[t], tokens[t])
  BY <1>2 DEF InScope
<1>4. flt.kind = "parse" /\ opened[t] => flt.bank
  <2>1. opened[t] => pc[t] \notin {"score", "detect_only"}
    BY <1>2 DEF OnWay
  <2> QED
    BY <1>1, <2>1
<1>5. OnWay(req[t], "unwind", opened[t], named[t], ve, flt, NoFault)
  BY <1>1, <1>2, <1>4 DEF OnWay
<1>6. Telling(req[t], calls[t], "unwind", next, flt, events'[<<t, calls[t]>>])
  BY DEF Telling, flt
<1>7. "unwind" \in Places \ {"idle"}
  BY DEF Places
<1>8. Moved(t, "unwind", next, opened[t], named[t], ve, flt)
  BY DEF flt
<1> QED
  BY <1>1, <1>2, <1>3, <1>5, <1>6, <1>7, <1>8, MoveKeeps

LEMMA SurfaceOfEmit ==
    ASSUME NEW at, NEW k \in {"value", "other"}, NEW n
    PROVE  k \in Kinds /\ (Surface(at, k, n).kind \in {"parse", "reconcile"} => at \in WorkerSteps \cup {"score"})
BY DEF Surface, Kinds, Fault

(* A failure that nobody is told of.                                       *)
LEMMA SilentRaise ==
    ASSUME IInv, NEW t \in Threads, pc[t] \notin {"idle", "unwind", "return"}, NEW k \in Kinds,
           k = "parse" => pc[t] \in WorkerSteps \cup {"score", "detect_only"},
           k = "reconcile" => pc[t] = "checks",
           Raise(t, k), UNCHANGED <<req, calls, page, slot, tokens, opened, events, foreign, named, verified, outcome>>
    PROVE  IInv'
<1> DEFINE s == events[<<t, calls[t]>>]
<1>1. /\ Values(req[t], calls[t], pc[t], page[t], slot[t], tokens[t], opened[t], named[t], verified[t],
                fault[t], outcome[t])
      /\ calls[t] > 0 /\ s \in Seq(Stages) /\ Said(req[t], pc[t], page[t], s) /\ page[t] <= req[t].pages
  BY UnderWay
<1>2. pc[t] \in Places /\ page[t] \in 1..MaxPages /\ verified[t] \in BOOLEAN /\ "unwind" \in Places
  BY <1>1 DEF Values, Places
<1>3. Highest(pc[t]) <= 5 /\ Highest("unwind") = 6
  BY <1>2 DEF Highest, Places
<1>4. Highest(pc[t]) \in Nat
  BY <1>2, HighestType
<1> HIDE DEF s
<1>5. Said(req[t], "unwind", page[t], s)
  <2>1. Due(req[t], "unwind", page[t], s)
    BY DEF Due
  <2> QED
    BY <1>1, <1>2, <1>3, <1>4, <2>1, SaidGoes
<1>6. ~Fires("done", s)
  <2>1. "done" \in Stages /\ Rank["done"] > Highest(pc[t])
    BY <1>3, <1>4, RankType DEF Stages
  <2>2. \A i \in DOMAIN s : Rank[s[i]] <= Highest(pc[t])
    BY <1>1 DEF Said
  <2> QED
    BY <1>1, <1>4, <2>1, <2>2, NotYet
<1>7. Fires("reconcile", s) => verified[t]
  BY <1>1, UnderWay DEF CallOK, Ended, s
<1>8. Moved(t, "unwind", page[t], opened[t], named[t], verified[t], Surface(pc[t], k, named[t]))
  <2>1. TypeOK /\ foreign = {}
    BY InvParts
  <2> QED
    BY <2>1 DEF Moved, Raise, TypeOK
<1>9. events'[<<t, calls[t]>>] = s
  BY DEF s
<1> QED
  BY <1>1, <1>2, <1>5, <1>6, <1>7, <1>8, <1>9, RaiseKeeps

(* emit() tells the call of t, if it wants to know, and nobody else.       *)
LEMMA EmitParts ==
    ASSUME IInv, NEW t \in Threads, pc[t] \notin {"idle", "enter", "unwind"},
           NEW x \in Stages, NEW to, Emit(t, x, to)
    PROVE  /\ foreign' = {} /\ events' \in [Ids -> Seq(Stages)]
           /\ \A id \in Ids : id # <<t, calls[t]>> => events'[id] = events[id]
           /\ events'[<<t, calls[t]>>] = IF req[t].callback THEN Append(events[<<t, calls[t]>>], x)
                                         ELSE events[<<t, calls[t]>>]
           /\ \/ pc' = [pc EXCEPT ![t] = to] /\ fault' = fault
              \/ /\ req[t].callback
                 /\ \E k \in {"value", "other"} : /\ pc' = [pc EXCEPT ![t] = "unwind"]
                                                  /\ fault' = [fault EXCEPT ![t] = Surface(pc[t], k, named[t])]
<1>1. TypeOK /\ foreign = {} /\ InScope(t, req[t], calls[t], pc[t], slot[t], tokens[t])
  BY InvParts DEF CallOK
<1>2. <<t, calls[t]>> \in Ids /\ events[<<t, calls[t]>>] \in Seq(Stages) /\ req[t].callback \in BOOLEAN
  BY UnderWay
<1>3. NoCallback # <<t, calls[t]>>
  BY <1>2, NoCallbackAssumption
<1>4. CASE req[t].callback
  <2>1. slot[t] = <<t, calls[t]>> /\ slot[t] # NoCallback
    BY <1>1, <1>3, <1>4 DEF InScope
  <2>2. /\ events' = [events EXCEPT ![<<t, calls[t]>>] = Append(@, x)] /\ foreign' = foreign
        /\ GoTo(t, to) \/ \E k \in {"value", "other"} : Raise(t, k)
    BY <2>1 DEF Emit, Context, Me
  <2>3. Append(events[<<t, calls[t]>>], x) \in Seq(Stages)
    BY <1>2
  <2>4. /\ events' \in [Ids -> Seq(Stages)] /\ \A id \in Ids : id # <<t, calls[t]>> => events'[id] = events[id]
        /\ events'[<<t, calls[t]>>] = Append(events[<<t, calls[t]>>], x)
    BY <1>1, <1>2, <2>2, <2>3 DEF TypeOK
  <2> QED
    BY <1>1, <1>4, <2>2, <2>4 DEF GoTo, Raise
<1>5. CASE ~req[t].callback
  <2>1. slot[t] = NoCallback
    BY <1>1, <1>5 DEF InScope
  <2>2. GoTo(t, to) /\ events' = events /\ foreign' = foreign
    BY <2>1 DEF Emit, Context
  <2> QED
    BY <1>1, <1>5, <2>2 DEF GoTo, TypeOK
<1> QED
  BY <1>2, <1>4, <1>5

(* A step that emits.                                                      *)
LEMMA EmitKeeps ==
    ASSUME IInv, NEW t \in Threads, pc[t] \notin {"idle", "enter", "unwind", "return"}, NEW x \in Stages,
           NEW to \in Places \ {"idle", "enter", "unwind"}, Emit(t, x, to),
           UNCHANGED <<req, calls, slot, tokens, opened, named, outcome>>,
           NEW next \in 1..MaxPages, next <= req[t].pages, page' = [page EXCEPT ![t] = next],
           to \notin {"extract", "walk", "redact"} => next = 1,
           NEW ve \in BOOLEAN, verified' = [verified EXCEPT ![t] = ve],
           verified[t] => ve, x = "reconcile" => ve,
           Highest(pc[t]) <= Rank[x], x \in Once => Highest(pc[t]) < Rank[x], Rank[x] <= Highest(to),
           x = "done" => pc[t] = "leave",
           req[t].callback /\ x = "walk_page" => Count("extract_page", events[<<t, calls[t]>>]) = Extracted(req[t]),
           req[t].callback /\ x = "done" => WholeCall(req[t], events[<<t, calls[t]>>]),
           req[t].callback => Due(req[t], to, next, Append(events[<<t, calls[t]>>], x)),
           OnWay(req[t], to, opened[t], named[t], ve, fault[t], NoFault)
    PROVE  IInv'
<1> DEFINE s == events[<<t, calls[t]>>]
           s2 == events'[<<t, calls[t]>>]
<1>1. /\ Values(req[t], calls[t], pc[t], page[t], slot[t], tokens[t], opened[t], named[t], verified[t],
                fault[t], outcome[t])
      /\ calls[t] > 0 /\ s \in Seq(Stages) /\ Said(req[t], pc[t], page[t], s)
      /\ req[t].callback \in BOOLEAN
  BY UnderWay
<1>2. /\ foreign' = {} /\ events' \in [Ids -> Seq(Stages)]
      /\ \A id \in Ids : id # <<t, calls[t]>> => events'[id] = events[id]
      /\ s2 = IF req[t].callback THEN Append(s, x) ELSE s
      /\ \/ pc' = [pc EXCEPT ![t] = to] /\ fault' = fault
         \/ /\ req[t].callback
            /\ \E k \in {"value", "other"} : /\ pc' = [pc EXCEPT ![t] = "unwind"]
                                             /\ fault' = [fault EXCEPT ![t] = Surface(pc[t], k, named[t])]
  BY EmitParts
<1>3. /\ pc[t] \in Places /\ opened[t] \in BOOLEAN /\ named[t] \in BOOLEAN /\ fault[t] \in Faults
      /\ "unwind" \in Places
      /\ "done" \in Stages /\ Highest("unwind") = 6
  BY <1>1 DEF Values, Places, Stages, Highest
<1>4. Fires("reconcile", s) => verified[t]
  BY UnderWay DEF CallOK, Ended
<1> HIDE DEF s, s2
<1>5. Highest(pc[t]) \in Nat /\ Highest(to) \in Nat /\ Rank[x] \in 1..6
  BY <1>3, HighestType, RankType
<1>6. Fires("reconcile", s2) => ve
  <2>1. CASE req[t].callback
    <3>1. Fires("reconcile", Append(s, x)) <=> Fires("reconcile", s) \/ x = "reconcile"
      BY <1>1, FiresMore
    <3> QED
      BY <1>2, <1>4, <2>1, <3>1
  <2>2. CASE ~req[t].callback
    BY <1>2, <1>4, <2>2
  <2> QED
    BY <2>1, <2>2
<1>7. CASE pc' = [pc EXCEPT ![t] = to] /\ fault' = fault
  <2>1. Said(req[t], to, next, s2)
    <3>1. CASE req[t].callback
      <4>1. Said(req[t], to, next, Append(s, x))
        BY <1>1, <1>3, <3>1, SaidMore DEF s
      <4> QED
        BY <1>2, <3>1, <4>1
    <3>2. CASE ~req[t].callback
      <4>1. Highest(pc[t]) <= Highest(to)
        BY <1>5
      <4>2. Said(req[t], to, next, s)
        BY <1>1, <1>3, <3>2, <4>1, SaidGoes
      <4> QED
        BY <1>2, <3>2, <4>2
    <3> QED
      BY <3>1, <3>2
  <2>2. Telling(req[t], calls[t], to, next, fault[t], s2)
    BY <2>1 DEF Telling
  <2>3. InScope(t, req[t], calls[t], to, slot[t], tokens[t])
    BY UnderWay DEF CallOK, InScope
  <2>4. Moved(t, to, next, opened[t], named[t], ve, fault[t])
    <3>1. TypeOK
      BY InvParts
    <3> QED
      BY <1>2, <1>7, <3>1 DEF Moved, TypeOK
  <2> QED
    BY <1>3, <1>6, <2>2, <2>3, <2>4, MoveKeeps DEF s2
<1>8. ASSUME req[t].callback, NEW k \in {"value", "other"}, pc' = [pc EXCEPT ![t] = "unwind"],
             fault' = [fault EXCEPT ![t] = Surface(pc[t], k, named[t])]
      PROVE  IInv'
  <2>1. s2 = Append(s, x)
    BY <1>2, <1>8
  <2>2. Said(req[t], "unwind", next, Append(s, x))
    <3>1. Due(req[t], "unwind", next, Append(s, x))
      BY DEF Due
    <3>2. Rank[x] <= Highest("unwind")
      BY <1>3, <1>5
    <3> QED
      BY <1>1, <1>3, <1>8, <3>1, <3>2, SaidMore DEF s
  <2>3. Surface(pc[t], k, named[t]).kind \in {"parse", "reconcile"} => ~Fires("done", Append(s, x))
    <3> SUFFICES ASSUME Surface(pc[t], k, named[t]).kind \in {"parse", "reconcile"}
                 PROVE  ~Fires("done", Append(s, x))
      OBVIOUS
    <3>1. pc[t] \in WorkerSteps \cup {"score"}
      BY SurfaceOfEmit
    <3>2. Highest(pc[t]) < 6 /\ x # "done"
      BY <3>1 DEF WorkerSteps, Highest
    <3>3. ~Fires("done", s)
      <4>1. Rank["done"] > Highest(pc[t])
        BY <1>5, <3>2, RankType
      <4>2. \A i \in DOMAIN s : Rank[s[i]] <= Highest(pc[t])
        BY <1>1 DEF Said
      <4> QED
        BY <1>1, <1>3, <1>5, <4>1, <4>2, NotYet
    <3> QED
      BY <1>1, <3>2, <3>3, FiresMore
  <2>4. Moved(t, "unwind", next, opened[t], named[t], ve, Surface(pc[t], k, named[t]))
    <3>1. TypeOK
      BY InvParts
    <3> QED
      BY <1>2, <1>8, <3>1 DEF Moved, TypeOK
  <2>5. k \in Kinds
    BY SurfaceOfEmit
  <2> QED
    BY <1>6, <2>1, <2>2, <2>3, <2>4, <2>5, RaiseKeeps DEF s2
<1> QED
  BY <1>2, <1>7, <1>8

-----------------------------------------------------------------------------
(* The steps.                                                              *)
(* A step that only goes on.                                               *)
LEMMA GoKeeps ==
    ASSUME IInv, NEW t \in Threads, pc[t] \notin {"idle", "enter", "unwind", "extract", "walk", "redact"},
           NEW to \in Places \ {"idle", "enter", "unwind"}, GoTo(t, to), NEW op \in BOOLEAN, NEW nm \in BOOLEAN,
           UNCHANGED <<req, calls, page, slot, tokens, events, foreign, verified, outcome>>,
           opened' = [opened EXCEPT ![t] = op], named' = [named EXCEPT ![t] = nm],
           Highest(pc[t]) <= Highest(to),
           req[t].callback => Due(req[t], to, page[t], events[<<t, calls[t]>>]),
           OnWay(req[t], to, op, nm, verified[t], fault[t], NoFault)
    PROVE  IInv'
<1> DEFINE s == events[<<t, calls[t]>>]
<1>1. /\ Values(req[t], calls[t], pc[t], page[t], slot[t], tokens[t], opened[t], named[t], verified[t],
                fault[t], outcome[t])
      /\ calls[t] > 0 /\ s \in Seq(Stages) /\ Said(req[t], pc[t], page[t], s) /\ page[t] <= req[t].pages
      /\ req[t].callback \in BOOLEAN
  BY UnderWay
<1>2. /\ InScope(t, req[t], calls[t], pc[t], slot[t], tokens[t])
      /\ Telling(req[t], calls[t], pc[t], page[t], fault[t], s)
      /\ Fires("reconcile", s) => verified[t]
  BY <1>1, UnderWay DEF CallOK, Ended
<1>3. pc[t] \in Places /\ page[t] \in 1..MaxPages /\ verified[t] \in BOOLEAN /\ fault[t] \in Faults
  BY <1>1 DEF Values
<1> HIDE DEF s
<1>4. Said(req[t], to, page[t], s)
  BY <1>1, <1>3, SaidGoes DEF s
<1>5. Telling(req[t], calls[t], to, page[t], fault[t], s)
  BY <1>1, <1>2, <1>4 DEF Telling
<1>6. InScope(t, req[t], calls[t], to, slot[t], tokens[t])
  BY <1>2 DEF InScope
<1>7. Moved(t, to, page[t], op, nm, verified[t], fault[t])
  <2>1. TypeOK /\ foreign = {}
    BY InvParts
  <2> QED
    BY <2>1 DEF Moved, GoTo, TypeOK
<1>8. events'[<<t, calls[t]>>] = s
  BY DEF s
<1> QED
  BY <1>2, <1>3, <1>5, <1>6, <1>7, <1>8, MoveKeeps

LEMMA ScoreKeeps ==
    ASSUME IInv, NEW t \in Threads, Score(t)
    PROVE  IInv'
<1>1. /\ UNCHANGED <<req, calls, page, slot, tokens, opened, events, foreign, named, verified, outcome>>
      /\ pc[t] = "score"
  BY InvParts DEF Score, TypeOK
<1>2. CASE GoTo(t, "lookup")
  <2>1. OnWay(req[t], "lookup", opened[t], named[t], verified[t], fault[t], NoFault)
    BY <1>1, UnderWay DEF CallOK, OnWay
  <2>2. /\ Due(req[t], "lookup", page[t], events[<<t, calls[t]>>])
        /\ Highest("score") <= Highest("lookup") /\ "lookup" \in Places
    BY DEF Due, Highest, Places
  <2>3. /\ opened[t] \in BOOLEAN /\ opened' = [opened EXCEPT ![t] = opened[t]]
        /\ named[t] \in BOOLEAN /\ named' = [named EXCEPT ![t] = named[t]]
    BY <1>1, InvParts DEF TypeOK
  <2> QED
    BY <1>1, <1>2, <2>1, <2>2, <2>3, GoKeeps
<1>3. CASE \E k \in {"parse", "value", "other"} : Raise(t, k)
  BY <1>1, <1>3, SilentRaise DEF Kinds
<1> QED
  BY <1>2, <1>3 DEF Score

LEMMA DetectOnlyKeeps ==
    ASSUME IInv, NEW t \in Threads, DetectOnly(t)
    PROVE  IInv'
<1>1. /\ UNCHANGED <<req, calls, page, slot, tokens, opened, events, foreign, named, verified, outcome>>
      /\ pc[t] = "detect_only"
  BY InvParts DEF DetectOnly, TypeOK
<1>2. CASE GoTo(t, "return")
  <2>1. OnWay(req[t], "return", opened[t], named[t], verified[t], fault[t], NoFault) /\ ~req[t].callback
    BY <1>1, UnderWay DEF CallOK, OnWay
  <2>2. Highest("detect_only") <= Highest("return") /\ "return" \in Places
    BY DEF Highest, Places
  <2>3. /\ opened[t] \in BOOLEAN /\ opened' = [opened EXCEPT ![t] = opened[t]]
        /\ named[t] \in BOOLEAN /\ named' = [named EXCEPT ![t] = named[t]]
    BY <1>1, InvParts DEF TypeOK
  <2> QED
    BY <1>1, <1>2, <2>1, <2>2, <2>3, GoKeeps
<1>3. CASE \E k \in {"parse", "value", "other"} : Raise(t, k)
  BY <1>1, <1>3, SilentRaise DEF Kinds
<1> QED
  BY <1>2, <1>3 DEF DetectOnly

LEMMA LookupKeeps ==
    ASSUME IInv, NEW t \in Threads, Lookup(t)
    PROVE  IInv'
<1>1. /\ UNCHANGED <<req, calls, page, slot, tokens, opened, events, foreign, named, verified, outcome>>
      /\ pc[t] = "lookup"
  BY InvParts DEF Lookup, TypeOK
<1>2. CASE GoTo(t, "emit_detect")
  <2>1. OnWay(req[t], "emit_detect", opened[t], named[t], verified[t], fault[t], NoFault)
    BY <1>1, UnderWay DEF CallOK, OnWay
  <2>2. /\ Due(req[t], "emit_detect", page[t], events[<<t, calls[t]>>])
        /\ Highest("lookup") <= Highest("emit_detect") /\ "emit_detect" \in Places
    BY DEF Due, Highest, Places
  <2>3. /\ opened[t] \in BOOLEAN /\ opened' = [opened EXCEPT ![t] = opened[t]]
        /\ named[t] \in BOOLEAN /\ named' = [named EXCEPT ![t] = named[t]]
    BY <1>1, InvParts DEF TypeOK
  <2> QED
    BY <1>1, <1>2, <2>1, <2>2, <2>3, GoKeeps
<1>3. CASE Raise(t, "other")
  BY <1>1, <1>3, SilentRaise DEF Kinds
<1> QED
  BY <1>2, <1>3 DEF Lookup

LEMMA OpenSourceKeeps ==
    ASSUME IInv, NEW t \in Threads, OpenSource(t)
    PROVE  IInv'
<1> DEFINE s == events[<<t, calls[t]>>]
<1>1. /\ UNCHANGED <<req, calls, page, slot, tokens, events, foreign, named, verified, outcome>>
      /\ pc[t] = "open_source"
  BY DEF OpenSource
<1>2. /\ OnWay(req[t], "open_source", opened[t], named[t], verified[t], fault[t], outcome[t])
      /\ outcome[t] = NoFault /\ calls[t] > 0
      /\ Telling(req[t], calls[t], "open_source", page[t], fault[t], s)
      /\ named[t] \in BOOLEAN /\ named' = [named EXCEPT ![t] = named[t]]
  BY <1>1, InvParts, UnderWay DEF CallOK, TypeOK
<1>3. ASSUME NEW to \in {"redact", "walk", "extract"}, GoTo(t, to), opened' = [opened EXCEPT ![t] = TRUE],
             to = "redact" <=> req[t].op = "redact",
             to = "walk" => req[t].xlsx, to = "extract" => ~req[t].xlsx
      PROVE  IInv'
  <2>1. OnWay(req[t], to, TRUE, named[t], verified[t], fault[t], NoFault)
    BY <1>2, <1>3 DEF OnWay
  <2>2. Highest("open_source") = 2 /\ Highest(to) \in {3, 4} /\ to \in Places /\ 2 \in Nat
    BY DEF Highest, Places
  <2>3. Due(req[t], to, page[t], s)
    <3>1. s \in Seq(Stages) /\ Said(req[t], "open_source", page[t], s)
      BY <1>1, UnderWay
    <3>2. \A i \in DOMAIN s : Rank[s[i]] <= 2
      BY <2>2, <3>1 DEF Said
    <3>3. /\ {"extract_page", "walk_page", "redact_page"} \subseteq Stages
          /\ Rank["extract_page"] > 2 /\ Rank["walk_page"] > 2 /\ Rank["redact_page"] > 2
      BY RankType DEF Stages
    <3>4. Count("extract_page", s) = 0 /\ Count("walk_page", s) = 0 /\ Count("redact_page", s) = 0
      BY <2>2, <3>1, <3>2, <3>3, NotYet
    <3>5. page[t] = 1
      BY <1>2 DEF Telling
    <3> QED
      BY <1>3, <3>4, <3>5 DEF Due, Extracted
  <2>4. Highest(pc[t]) <= Highest(to) /\ to \in Places \ {"idle", "enter", "unwind"} /\ TRUE \in BOOLEAN
    BY <1>1, <2>2
  <2> QED
    BY <1>1, <1>2, <1>3, <2>1, <2>3, <2>4, GoKeeps
<1>4. ASSUME NEW k \in {"parse", "value", "other"}, Raise(t, k), UNCHANGED opened
      PROVE  IInv'
  BY <1>1, <1>4, SilentRaise DEF Kinds, WorkerSteps
<1>5. CASE opened' = [opened EXCEPT ![t] = TRUE] /\ GoTo(t, IF req[t].op = "redact" THEN "redact"
                                                     ELSE IF req[t].xlsx THEN "walk" ELSE "extract")
  <2>1. CASE req[t].op = "redact"
    BY <1>3, <1>5, <2>1
  <2>2. CASE req[t].op # "redact" /\ req[t].xlsx
    BY <1>3, <1>5, <2>2
  <2>3. CASE req[t].op # "redact" /\ ~req[t].xlsx
    BY <1>3, <1>5, <2>3
  <2> QED
    BY <2>1, <2>2, <2>3
<1> QED
  BY <1>4, <1>5 DEF OpenSource

LEMMA BuildResultKeeps ==
    ASSUME IInv, NEW t \in Threads, BuildResult(t)
    PROVE  IInv'
<1> DEFINE s == events[<<t, calls[t]>>]
           to == IF req[t].op # "convert" THEN "leave"
                 ELSE IF req[t].reconcile THEN "checks" ELSE "serialize"
<1>1. /\ UNCHANGED <<req, calls, page, slot, tokens, opened, events, foreign, verified, outcome>>
      /\ pc[t] = "build"
  BY DEF BuildResult
<1>2. CASE GoTo(t, to) /\ named' = [named EXCEPT ![t] = TRUE]
  <2>1. /\ to \in {"checks", "serialize", "leave"}
        /\ to = "leave" => req[t].op # "convert"
        /\ to = "serialize" => ~req[t].reconcile
    OBVIOUS
  <2>2. OnWay(req[t], "build", opened[t], named[t], verified[t], fault[t], outcome[t])
    BY <1>1, UnderWay DEF CallOK
  <2>3. req[t].callback => Due(req[t], "build", page[t], s)
    BY <1>1, UnderWay DEF Said
  <2> HIDE DEF to, s
  <2>4. OnWay(req[t], to, opened[t], TRUE, verified[t], fault[t], NoFault)
    BY <2>1, <2>2 DEF OnWay
  <2>5. req[t].callback => Due(req[t], to, page[t], s)
    BY <2>1, <2>2, <2>3 DEF Due, OnWay, WholeCall
  <2>6. /\ Highest(pc[t]) <= Highest(to) /\ to \in Places \ {"idle", "enter", "unwind"} /\ TRUE \in BOOLEAN
        /\ pc[t] \notin {"idle", "enter", "unwind", "extract", "walk", "redact"}
    BY <1>1, <2>1 DEF Highest, Places
  <2>7. opened[t] \in BOOLEAN /\ opened' = [opened EXCEPT ![t] = opened[t]]
    BY <1>1, InvParts DEF TypeOK
  <2> QED
    BY <1>1, <1>2, <2>4, <2>5, <2>6, <2>7, GoKeeps DEF s
<1>3. ASSUME NEW k \in {"parse", "value", "other"}, Raise(t, k), UNCHANGED named
      PROVE  IInv'
  BY <1>1, <1>3, SilentRaise DEF Kinds, WorkerSteps
<1> QED
  BY <1>2, <1>3 DEF BuildResult

LEMMA SerializeKeeps ==
    ASSUME IInv, NEW t \in Threads, Serialize(t)
    PROVE  IInv'
<1>1. /\ UNCHANGED <<req, calls, page, slot, tokens, opened, events, foreign, named, verified, outcome>>
      /\ pc[t] = "serialize" /\ GoTo(t, "leave")
  BY InvParts DEF Serialize, TypeOK
<1>2. OnWay(req[t], "leave", opened[t], named[t], verified[t], fault[t], NoFault)
  BY <1>1, UnderWay DEF CallOK, OnWay
<1>3. req[t].callback => Due(req[t], "leave", page[t], events[<<t, calls[t]>>])
  BY <1>1, UnderWay DEF Said, Due
<1>4. Highest("serialize") <= Highest("leave") /\ "leave" \in Places
  BY DEF Highest, Places
<1>5. /\ opened[t] \in BOOLEAN /\ opened' = [opened EXCEPT ![t] = opened[t]]
      /\ named[t] \in BOOLEAN /\ named' = [named EXCEPT ![t] = named[t]]
  BY <1>1, InvParts DEF TypeOK
<1> QED
  BY <1>1, <1>2, <1>3, <1>4, <1>5, GoKeeps

LEMMA EnterKeeps ==
    ASSUME IInv, NEW t \in Threads, Enter(t)
    PROVE  IInv'
<1> DEFINE s == events[<<t, calls[t]>>]
           to == CASE req[t].op = "reconcile_result" -> "checks"
                   [] req[t].op = "detect" -> "detect_only"
                   [] OTHER -> IF req[t].auto THEN "score" ELSE "lookup"
           sl == IF req[t].callback THEN <<t, calls[t]>> ELSE NoCallback
           tks == IF req[t].callback THEN <<NoCallback>> ELSE <<>>
<1>1. /\ UNCHANGED <<req, calls, page, opened, events, foreign, named, verified, outcome>>
      /\ pc[t] = "enter" /\ foreign = {} /\ TypeOK
  BY InvParts DEF Enter, TypeOK
<1>2. /\ Values(req[t], calls[t], pc[t], page[t], slot[t], tokens[t], opened[t], named[t], verified[t],
                fault[t], outcome[t])
      /\ calls[t] > 0 /\ s \in Seq(Stages) /\ Said(req[t], "enter", page[t], s) /\ page[t] <= req[t].pages
      /\ <<t, calls[t]>> \in Ids /\ outcome[t] = NoFault
      /\ req[t].callback \in BOOLEAN
  BY <1>1, UnderWay
<1>3. /\ InScope(t, req[t], calls[t], "enter", slot[t], tokens[t])
      /\ OnWay(req[t], "enter", opened[t], named[t], verified[t], fault[t], outcome[t])
      /\ Telling(req[t], calls[t], "enter", page[t], fault[t], s)
      /\ Ended(req[t], calls[t], opened[t], named[t], verified[t], outcome[t], s)
  BY <1>1, UnderWay DEF CallOK
<1>4. CASE EnterScope(t) /\ GoTo(t, to)
  <2>1. /\ to \in {"checks", "detect_only", "score", "lookup"}
        /\ to = "checks" => req[t].op = "reconcile_result"
        /\ to = "detect_only" => req[t].op = "detect"
    OBVIOUS
  <2>2. tokens[t] = <<>> /\ slot[t] = NoCallback
    <3>1. <<NoCallback>> # <<>>
      OBVIOUS
    <3> QED
      BY <1>3, <3>1 DEF InScope
  <2>3. slot' = [slot EXCEPT ![t] = sl] /\ tokens' = [tokens EXCEPT ![t] = tks]
    <3>1. Append(<<>>, NoCallback) = <<NoCallback>>
      OBVIOUS
    <3>2. CASE req[t].callback
      BY <1>4, <2>2, <3>1, <3>2 DEF EnterScope, Context, Me
    <3>3. CASE ~req[t].callback
      BY <1>1, <1>4, <2>2, <3>3 DEF EnterScope, TypeOK, Contexts
    <3> QED
      BY <3>2, <3>3
  <2>4. InScope(t, req[t], calls[t], to, sl, tks)
    <3>1. <<NoCallback>> # <<>>
      OBVIOUS
    <3> QED
      BY <1>2, <2>1, <3>1 DEF InScope
  <2>5. sl \in Ids \cup {NoCallback} /\ tks \in Seq(Ids \cup {NoCallback})
    <3>1. <<NoCallback>> \in Seq(Ids \cup {NoCallback}) /\ <<>> \in Seq(Ids \cup {NoCallback})
      OBVIOUS
    <3> QED
      BY <1>2, <3>1, Zenon
  <2> HIDE DEF to, sl, tks, s
  <2>6. OnWay(req[t], to, opened[t], named[t], verified[t], fault[t], outcome[t])
    BY <1>3, <2>1 DEF OnWay
  <2>7. Telling(req[t], calls[t], to, page[t], fault[t], s)
    <3>1. Due(req[t], to, page[t], s)
      BY <2>1 DEF Due, WholeCall
    <3>2. Highest("enter") = 0 /\ Highest(to) \in {0, 4} /\ "enter" \in Places /\ to \in Places
      BY <2>1 DEF Highest, Places
    <3>3. Said(req[t], to, page[t], s)
      BY <1>2, <3>1, <3>2, SaidGoes
    <3> QED
      BY <1>3, <2>1, <3>3 DEF Telling
  <2>8. Step(t, req[t], calls[t], to, page[t], sl, tks, opened[t], named[t], verified[t], fault[t], outcome[t])
    BY <1>1, <1>4, <2>3 DEF Step, GoTo, TypeOK
  <2>9. Values(req[t], calls[t], to, page[t], sl, tks, opened[t], named[t], verified[t], fault[t], outcome[t])
    BY <1>2, <2>1, <2>5 DEF Values, Places
  <2>10. CallOK(t, req[t], calls[t], to, page[t], sl, tks, opened[t], named[t], verified[t], fault[t], outcome[t],
                events'[<<t, calls[t]>>])
    BY <1>1, <1>3, <2>4, <2>6, <2>7 DEF CallOK, s
  <2>11. calls[t] <= calls[t]
    BY <1>2 DEF Values
  <2> QED
    BY <2>8, <2>9, <2>10, <2>11, StepKeeps
<1>5. CASE Raise(t, "value") /\ UNCHANGED <<slot, tokens>>
  BY <1>1, <1>5, SilentRaise DEF Kinds
<1> QED
  BY <1>4, <1>5 DEF Enter

(* An event that leaves everything else alone.                             *)
LEMMA EmitOnlyKeeps ==
    ASSUME IInv, NEW t \in Threads, pc[t] \notin {"idle", "enter", "unwind", "return"},
           NEW x \in {"detect", "open", "done"},
           NEW to \in Places \ {"idle", "enter", "unwind", "extract", "walk", "redact"}, Emit(t, x, to),
           UNCHANGED <<req, calls, page, slot, tokens, opened, named, verified, outcome>>, page[t] = 1,
           Highest(pc[t]) < Rank[x], Rank[x] <= Highest(to),
           x = "done" => pc[t] = "leave",
           req[t].callback /\ x = "done" => WholeCall(req[t], events[<<t, calls[t]>>]),
           req[t].callback => Due(req[t], to, 1, Append(events[<<t, calls[t]>>], x)),
           OnWay(req[t], to, opened[t], named[t], verified[t], fault[t], NoFault)
    PROVE  IInv'
<1>1. TypeOK /\ 1 \in 1..MaxPages /\ 1 <= req[t].pages /\ pc[t] \in Places
  BY InvParts, UnderWay DEF Values
<1>2. PICK ve \in BOOLEAN : ve = verified[t] /\ verified' = [verified EXCEPT ![t] = ve]
  BY <1>1 DEF TypeOK
<1>3. page' = [page EXCEPT ![t] = 1]
  BY <1>1 DEF TypeOK
<1>4. OnWay(req[t], to, opened[t], named[t], ve, fault[t], NoFault) /\ (verified[t] => ve)
  BY <1>2
<1>5. x \in Stages /\ x # "reconcile" /\ x # "walk_page"
  BY DEF Stages
<1>6. Highest(pc[t]) <= Rank[x]
  BY <1>1, <1>5, HighestType, RankType
<1> QED
  BY <1>1, <1>2, <1>3, <1>4, <1>5, <1>6, EmitKeeps

LEMMA EmitDetectKeeps ==
    ASSUME IInv, NEW t \in Threads, EmitDetect(t)
    PROVE  IInv'
<1>1. /\ UNCHANGED <<req, calls, page, slot, tokens, opened, named, verified, outcome>>
      /\ pc[t] = "emit_detect" /\ Emit(t, "detect", "emit_open") /\ TypeOK
  BY InvParts DEF EmitDetect, TypeOK
<1>2. OnWay(req[t], "emit_open", opened[t], named[t], verified[t], fault[t], NoFault) /\ page[t] = 1
  BY <1>1, UnderWay DEF CallOK, OnWay, Telling
<1>3. /\ Highest("emit_detect") = 0 /\ Highest("emit_open") = 1 /\ Rank["detect"] = 1
      /\ "emit_open" \in Places \ {"idle", "enter", "unwind"} /\ "detect" \in Stages
  BY RankType DEF Highest, Places, Stages
<1>4. Due(req[t], "emit_open", 1, Append(events[<<t, calls[t]>>], "detect"))
  BY DEF Due
<1>5. Highest(pc[t]) < Rank["detect"] /\ Rank["detect"] <= Highest("emit_open")
  BY <1>1, <1>3
<1> QED
  BY <1>1, <1>2, <1>3, <1>4, <1>5, EmitOnlyKeeps

LEMMA EmitOpenKeeps ==
    ASSUME IInv, NEW t \in Threads, EmitOpen(t)
    PROVE  IInv'
<1>1. /\ UNCHANGED <<req, calls, page, slot, tokens, opened, named, verified, outcome>>
      /\ pc[t] = "emit_open" /\ Emit(t, "open", "open_source") /\ TypeOK
  BY InvParts DEF EmitOpen, TypeOK
<1>2. OnWay(req[t], "open_source", opened[t], named[t], verified[t], fault[t], NoFault) /\ page[t] = 1
  BY <1>1, UnderWay DEF CallOK, OnWay, Telling
<1>3. /\ Highest("emit_open") = 1 /\ Highest("open_source") = 2 /\ Rank["open"] = 2
      /\ "open_source" \in Places \ {"idle", "enter", "unwind"} /\ "open" \in Stages
  BY RankType DEF Highest, Places, Stages
<1>4. Due(req[t], "open_source", 1, Append(events[<<t, calls[t]>>], "open"))
  BY DEF Due
<1>5. Highest(pc[t]) < Rank["open"] /\ Rank["open"] <= Highest("open_source")
  BY <1>1, <1>3
<1> QED
  BY <1>1, <1>2, <1>3, <1>4, <1>5, EmitOnlyKeeps

LEMMA ChecksKeeps ==
    ASSUME IInv, NEW t \in Threads, Checks(t)
    PROVE  IInv'
<1> DEFINE to == IF req[t].op = "convert" THEN "serialize" ELSE "leave"
           s == events[<<t, calls[t]>>]
<1>1. /\ UNCHANGED <<req, calls, page, slot, tokens, opened, named, outcome>>
      /\ pc[t] = "checks" /\ TypeOK
  BY InvParts DEF Checks, TypeOK
<1>2. CASE Emit(t, "reconcile", to) /\ verified' = [verified EXCEPT ![t] = TRUE]
  <2>1. to \in {"serialize", "leave"}
    OBVIOUS
  <2> HIDE DEF to, s
  <2>2. OnWay(req[t], to, opened[t], named[t], TRUE, fault[t], NoFault) /\ page[t] = 1
    BY <1>1, <2>1, UnderWay DEF CallOK, OnWay, Telling
  <2>3. /\ Highest("checks") = 4 /\ Highest(to) = 5 /\ Rank["reconcile"] = 5
        /\ to \in Places \ {"idle", "enter", "unwind"} /\ "reconcile" \in Stages
    BY <2>1, RankType DEF Highest, Places, Stages
  <2>4. req[t].callback => Due(req[t], to, 1, Append(s, "reconcile"))
    <3>1. s \in Seq(Stages) /\ (req[t].callback => Due(req[t], "checks", page[t], s))
      BY <1>1, UnderWay DEF Said, s
    <3>2. /\ Count("walk_page", Append(s, "reconcile")) = Count("walk_page", s)
          /\ Count("redact_page", Append(s, "reconcile")) = Count("redact_page", s)
      BY <2>3, <3>1, CountSame
    <3> QED
      BY <2>1, <3>1, <3>2 DEF Due, WholeCall
  <2>5. /\ page' = [page EXCEPT ![t] = 1] /\ 1 \in 1..MaxPages /\ 1 <= req[t].pages
    BY <1>1, <2>2, UnderWay DEF TypeOK
  <2>6. /\ Highest(pc[t]) <= Rank["reconcile"] /\ Highest(pc[t]) < Rank["reconcile"]
        /\ Rank["reconcile"] <= Highest(to)
    BY <1>1, <2>3
  <2> QED
    BY <1>1, <1>2, <2>1, <2>2, <2>3, <2>4, <2>5, <2>6, EmitKeeps DEF s
<1>3. CASE Raise(t, "reconcile") /\ UNCHANGED <<events, foreign, verified>>
  BY <1>1, <1>3, SilentRaise DEF Kinds
<1> QED
  BY <1>2, <1>3 DEF Checks

LEMMA LeaveKeeps ==
    ASSUME IInv, NEW t \in Threads, Leave(t)
    PROVE  IInv'
<1> DEFINE s == events[<<t, calls[t]>>]
<1>1. /\ UNCHANGED <<req, calls, page, slot, tokens, opened, named, verified, outcome>>
      /\ pc[t] = "leave" /\ TypeOK
  BY InvParts DEF Leave, TypeOK
<1>2. OnWay(req[t], "return", opened[t], named[t], verified[t], fault[t], NoFault) /\ page[t] = 1
  BY <1>1, UnderWay DEF CallOK, OnWay, Telling
<1>3. /\ Highest("leave") = 5 /\ Highest("return") = 6 /\ Rank["done"] = 6
      /\ "return" \in Places \ {"idle", "enter", "unwind"} /\ "done" \in Stages
  BY RankType DEF Highest, Places, Stages
<1>4. CASE req[t].callback
  <2>1. Emit(t, "done", "return")
    BY <1>4 DEF Leave
  <2>2. s \in Seq(Stages) /\ Due(req[t], "leave", page[t], s)
    BY <1>1, <1>4, UnderWay DEF Said
  <2> HIDE DEF s
  <2>3. Due(req[t], "return", 1, Append(s, "done"))
    <3>1. /\ Count("walk_page", Append(s, "done")) = Count("walk_page", s)
          /\ Count("redact_page", Append(s, "done")) = Count("redact_page", s)
          /\ Fires("done", Append(s, "done"))
      BY <1>3, <2>2, CountSame, FiresMore
    <3> QED
      BY <2>2, <3>1 DEF Due, WholeCall
  <2>4. WholeCall(req[t], s)
    BY <2>2 DEF Due
  <2>5. Highest(pc[t]) < Rank["done"] /\ Rank["done"] <= Highest("return")
    BY <1>1, <1>3
  <2> QED
    BY <1>1, <1>2, <1>3, <2>1, <2>3, <2>4, <2>5, EmitOnlyKeeps DEF s
<1>5. CASE ~req[t].callback
  <2>1. GoTo(t, "return") /\ UNCHANGED <<events, foreign>>
    BY <1>5 DEF Leave
  <2>2. /\ opened[t] \in BOOLEAN /\ opened' = [opened EXCEPT ![t] = opened[t]]
        /\ named[t] \in BOOLEAN /\ named' = [named EXCEPT ![t] = named[t]]
    BY <1>1 DEF TypeOK
  <2>3. Highest(pc[t]) <= Highest("return")
    BY <1>1, <1>3
  <2> QED
    BY <1>1, <1>2, <1>3, <1>5, <2>1, <2>2, <2>3, GoKeeps
<1> QED
  BY <1>4, <1>5


(* One page of a loop is told, and the call goes on.                       *)
LEMMA PageEmits ==
    ASSUME IInv, NEW t \in Threads, pc[t] \notin {"idle", "enter", "unwind", "return"},
           NEW x \in {"extract_page", "walk_page", "redact_page"},
           NEW after \in Places \ {"idle", "enter", "unwind"}, Emit(t, x, after),
           UNCHANGED <<req, calls, slot, tokens, opened, named, verified, outcome>>,
           NEW next \in 1..MaxPages, next <= req[t].pages, page' = [page EXCEPT ![t] = next],
           after \in {"extract", "walk", "redact"} \/ next = 1,
           Highest(pc[t]) <= Rank[x], Rank[x] <= Highest(after),
           req[t].callback /\ x = "walk_page" => Count("extract_page", events[<<t, calls[t]>>]) = Extracted(req[t]),
           req[t].callback => Due(req[t], after, next, Append(events[<<t, calls[t]>>], x)),
           OnWay(req[t], after, opened[t], named[t], verified[t], fault[t], NoFault)
    PROVE  IInv'
<1>1. PICK ve \in BOOLEAN : ve = verified[t] /\ verified' = [verified EXCEPT ![t] = ve]
  BY InvParts DEF TypeOK
<1>2. OnWay(req[t], after, opened[t], named[t], ve, fault[t], NoFault) /\ (verified[t] => ve)
  BY <1>1
<1>3. x \in Stages /\ x \notin Once /\ x # "done" /\ x # "reconcile"
  BY DEF Stages, Once
<1> QED
  BY <1>1, <1>2, <1>3, EmitKeeps

(* One page of a loop, to the next page or out of the loop.                *)
LEMMA PageKeeps ==
    ASSUME IInv, NEW t \in Threads, NEW at \in {"extract", "walk", "redact"},
           NEW x \in {"extract_page", "walk_page", "redact_page"},
           NEW to \in {"walk", "build", "leave"},
           PageLoop(t, at, x, to), Rank[x] = Highest(at), Highest(at) <= Highest(to),
           x = "walk_page" => at = "walk",
           OnWay(req[t], to, opened[t], named[t], verified[t], fault[t], NoFault),
           req[t].callback /\ page[t] < req[t].pages =>
             Due(req[t], at, page[t] + 1, Append(events[<<t, calls[t]>>], x)),
           req[t].callback /\ page[t] \in LastPages(req[t], x) =>
             Due(req[t], to, 1, Append(events[<<t, calls[t]>>], x))
    PROVE  IInv'
<1>1. /\ UNCHANGED <<req, calls, slot, tokens, opened, named, verified, outcome>>
      /\ pc[t] = at /\ pc[t] \notin {"idle", "enter", "unwind", "return"}
  BY InvParts DEF PageLoop, TypeOK
<1>2. /\ page[t] \in 1..MaxPages /\ req[t].pages \in 1..MaxPages /\ page[t] <= req[t].pages /\ MaxPages \in Nat
      /\ OnWay(req[t], at, opened[t], named[t], verified[t], fault[t], NoFault)
      /\ req[t].callback => Due(req[t], at, page[t], events[<<t, calls[t]>>])
  BY <1>1, UnderWay DEF Values, CallOK, Said
<1>4. at \in Places /\ to \in Places
  BY DEF Places
<1>5. req[t].callback /\ x = "walk_page" => Count("extract_page", events[<<t, calls[t]>>]) = Extracted(req[t])
  BY <1>2 DEF Due
<1>6. Highest(at) \in Nat /\ Highest(to) \in Nat
  BY <1>4, HighestType
<1>7. CASE Emit(t, x, at) /\ page' = [page EXCEPT ![t] = page[t] + 1] /\ page[t] < req[t].pages
  <2>1. PICK next \in 1..MaxPages : /\ next = page[t] + 1 /\ next <= req[t].pages
                                    /\ page' = [page EXCEPT ![t] = next]
    <3>1. /\ page[t] + 1 \in 1..MaxPages /\ page[t] + 1 <= req[t].pages
          /\ page' = [page EXCEPT ![t] = page[t] + 1]
      BY <1>2, <1>7
    <3> QED
      BY <3>1, Zenon
  <2>2. PICK after \in Places \ {"idle", "enter", "unwind"} : after = at
    BY <1>4
  <2>3. /\ Highest(pc[t]) <= Rank[x] /\ Rank[x] <= Highest(after) /\ Emit(t, x, after)
        /\ after \in {"extract", "walk", "redact"} \/ next = 1
    BY <1>1, <1>6, <1>7, <2>2
  <2>4. OnWay(req[t], after, opened[t], named[t], verified[t], fault[t], NoFault)
    BY <1>2, <2>2
  <2>5. req[t].callback => Due(req[t], after, next, Append(events[<<t, calls[t]>>], x))
    BY <1>7, <2>1, <2>2
  <2> QED
    BY <1>1, <1>5, <2>1, <2>3, <2>4, <2>5, PageEmits
<1>8. CASE Emit(t, x, to) /\ page' = [page EXCEPT ![t] = 1] /\ page[t] \in LastPages(req[t], x)
  <2>1. 1 \in 1..MaxPages /\ 1 <= req[t].pages
    BY <1>2
  <2>2. /\ to \in Places \ {"idle", "enter", "unwind"}
        /\ Highest(pc[t]) <= Rank[x] /\ Rank[x] <= Highest(to)
    BY <1>1, <1>4, <1>6
  <2>3. req[t].callback => Due(req[t], to, 1, Append(events[<<t, calls[t]>>], x))
    BY <1>8
  <2> QED
    BY <1>1, <1>5, <1>8, <2>1, <2>2, <2>3, PageEmits
<1>9. ASSUME NEW k \in {"parse", "value", "other"}, Raise(t, k), UNCHANGED <<page, events, foreign>>
      PROVE  IInv'
  BY <1>1, <1>9, SilentRaise DEF Kinds, WorkerSteps
<1> QED
  BY <1>7, <1>8, <1>9 DEF PageLoop

LEMMA ExtractPageKeeps ==
    ASSUME IInv, NEW t \in Threads, ExtractPage(t)
    PROVE  IInv'
<1> DEFINE s == events[<<t, calls[t]>>]
           u == Append(s, "extract_page")
<1>1. pc[t] = "extract" /\ PageLoop(t, "extract", "extract_page", "walk")
  BY DEF ExtractPage, PageLoop
<1>2. /\ s \in Seq(Stages) /\ Said(req[t], "extract", page[t], s)
      /\ page[t] \in 1..MaxPages /\ req[t].pages \in 1..MaxPages /\ MaxPages \in Nat
      /\ OnWay(req[t], "extract", opened[t], named[t], verified[t], fault[t], outcome[t]) /\ outcome[t] = NoFault
  BY <1>1, UnderWay DEF Values, CallOK
<1> HIDE DEF s
<1>3. OnWay(req[t], "walk", opened[t], named[t], verified[t], fault[t], NoFault)
  BY <1>2 DEF OnWay
<1>4. /\ {"extract_page", "walk_page"} \subseteq Stages /\ Rank["extract_page"] = 3 /\ Rank["walk_page"] = 4
      /\ Highest("extract") = 3 /\ Highest("walk") = 4
  BY RankType DEF Stages, Highest
<1>5. req[t].callback => ~req[t].xlsx /\ Count("extract_page", u) = page[t]
  <2>1. Count("extract_page", u) = Count("extract_page", s) + 1
    BY <1>2, <1>4, CountMore
  <2> QED
    BY <1>2, <2>1 DEF Due, Said
<1>6. Count("walk_page", u) = 0
  <2>1. \A i \in DOMAIN s : Rank[s[i]] <= 3
    BY <1>2, <1>4 DEF Said
  <2>2. Count("walk_page", s) = 0
    BY <1>2, <1>4, <2>1, NotYet
  <2> QED
    BY <1>2, <1>4, <2>2, CountSame
<1> HIDE DEF u
<1>7. req[t].callback /\ page[t] < req[t].pages => Due(req[t], "extract", page[t] + 1, u)
  BY <1>2, <1>5 DEF Due
<1>8. req[t].callback /\ page[t] \in LastPages(req[t], "extract_page") => Due(req[t], "walk", 1, u)
  BY <1>2, <1>5, <1>6 DEF Due, LastPages, Extracted
<1>9. Rank["extract_page"] = Highest("extract") /\ Highest("extract") <= Highest("walk")
  BY <1>4
<1> QED
  BY <1>1, <1>3, <1>7, <1>8, <1>9, PageKeeps DEF s, u

LEMMA WalkPageKeeps ==
    ASSUME IInv, NEW t \in Threads, WalkPage(t)
    PROVE  IInv'
<1> DEFINE s == events[<<t, calls[t]>>]
           u == Append(s, "walk_page")
<1>1. pc[t] = "walk" /\ PageLoop(t, "walk", "walk_page", "build")
  BY DEF WalkPage, PageLoop
<1>2. /\ s \in Seq(Stages) /\ (req[t].callback => Due(req[t], "walk", page[t], s))
      /\ page[t] \in 1..MaxPages /\ req[t].pages \in 1..MaxPages /\ MaxPages \in Nat
      /\ OnWay(req[t], "walk", opened[t], named[t], verified[t], fault[t], outcome[t]) /\ outcome[t] = NoFault
  BY <1>1, UnderWay DEF Values, CallOK, Said
<1>3. OnWay(req[t], "build", opened[t], named[t], verified[t], fault[t], NoFault)
  BY <1>2 DEF OnWay
<1> HIDE DEF s
<1>4. "walk_page" \in Stages /\ Rank["walk_page"] = 4 /\ Highest("walk") = 4 /\ Highest("build") = 4
  BY RankType DEF Stages, Highest
<1>5. /\ req[t].callback => Count("walk_page", u) = page[t]
      /\ req[t].callback => Count("extract_page", u) = Extracted(req[t])
  <2>1. Count("walk_page", u) = Count("walk_page", s) + 1 /\ Count("extract_page", u) = Count("extract_page", s)
    BY <1>2, <1>4, CountMore, CountSame
  <2> QED
    BY <1>2, <2>1 DEF Due
<1> HIDE DEF u
<1>6. req[t].callback /\ page[t] < req[t].pages => Due(req[t], "walk", page[t] + 1, u)
  BY <1>2, <1>5 DEF Due
<1>7. req[t].callback /\ page[t] \in LastPages(req[t], "walk_page") => Due(req[t], "build", 1, u)
  BY <1>5 DEF Due, LastPages
<1>8. Rank["walk_page"] = Highest("walk") /\ Highest("walk") <= Highest("build")
  BY <1>4
<1> QED
  BY <1>1, <1>3, <1>6, <1>7, <1>8, PageKeeps DEF s, u

LEMMA RedactPageKeeps ==
    ASSUME IInv, NEW t \in Threads, RedactPage(t)
    PROVE  IInv'
<1> DEFINE s == events[<<t, calls[t]>>]
           u == Append(s, "redact_page")
<1>1. pc[t] = "redact" /\ PageLoop(t, "redact", "redact_page", "leave")
  BY DEF RedactPage, PageLoop
<1>2. /\ s \in Seq(Stages) /\ (req[t].callback => Due(req[t], "redact", page[t], s))
      /\ page[t] \in 1..MaxPages /\ req[t].pages \in 1..MaxPages /\ MaxPages \in Nat
      /\ OnWay(req[t], "redact", opened[t], named[t], verified[t], fault[t], outcome[t]) /\ outcome[t] = NoFault
  BY <1>1, UnderWay DEF Values, CallOK, Said
<1>3. OnWay(req[t], "leave", opened[t], named[t], verified[t], fault[t], NoFault)
  BY <1>2 DEF OnWay
<1> HIDE DEF s
<1>4. "redact_page" \in Stages /\ Rank["redact_page"] = Highest("redact") /\ Highest("redact") <= Highest("leave")
  BY RankType DEF Stages, Highest
<1>5. req[t].callback => Count("redact_page", u) = page[t]
  <2>1. Count("redact_page", u) = Count("redact_page", s) + 1
    BY <1>2, <1>4, CountMore
  <2> QED
    BY <1>2, <2>1 DEF Due
<1> HIDE DEF u
<1>6. req[t].callback /\ page[t] < req[t].pages => Due(req[t], "redact", page[t] + 1, u)
  BY <1>2, <1>5 DEF Due
<1>7. req[t].callback /\ page[t] \in LastPages(req[t], "redact_page") => Due(req[t], "leave", 1, u)
  BY <1>2, <1>5 DEF Due, LastPages, WholeCall, OnWay
<1> QED
  BY <1>1, <1>3, <1>4, <1>6, <1>7, PageKeeps DEF s, u

(* A thread that may begin another call has an Id left for it.             *)
LEMMA RoomForOne ==
    ASSUME TypeOK, NEW t \in Threads, Cardinality(Begun) < MaxCalls
    PROVE  calls[t] < MaxCalls
<1>1. calls[t] \in 0..MaxCalls /\ MaxCalls \in Nat
  BY BoundsAssumption DEF TypeOK
<1>2. SUFFICES ASSUME calls[t] = MaxCalls PROVE FALSE
  BY <1>1
<1> DEFINE Mine == {<<t, i>> : i \in 1..MaxCalls}
           f == [i \in 1..MaxCalls |-> <<t, i>>]
<1>3. IsFiniteSet(Begun)
  <2>1. IsFiniteSet(1..MaxCalls)
    BY <1>1, FS_Interval
  <2>2. IsFiniteSet(Threads \X (1..MaxCalls))
    BY <2>1, ThreadsAssumption, FS_Product
  <2>3. Begun \subseteq Threads \X (1..MaxCalls)
    BY DEF Begun, Ids
  <2> QED
    BY <2>2, <2>3, FS_Subset
<1>4. Mine \subseteq Begun
  BY <1>1, <1>2 DEF Begun, Ids
<1>5. Cardinality(Mine) = MaxCalls
  <2>1. {t} \X (1..MaxCalls) = Mine
    OBVIOUS
  <2>2. IsFiniteSet({t}) /\ Cardinality({t}) = 1
    BY FS_Singleton
  <2>3. IsFiniteSet(1..MaxCalls) /\ Cardinality(1..MaxCalls) = MaxCalls
    BY <1>1, FS_Interval
  <2>4. Cardinality({t} \X (1..MaxCalls)) = Cardinality({t}) * Cardinality(1..MaxCalls)
    BY <2>2, <2>3, FS_Product, Zenon
  <2> QED
    <3>1. Cardinality({t} \X (1..MaxCalls)) = 1 * MaxCalls
      BY <2>2, <2>3, <2>4, Zenon
    <3>2. 1 * MaxCalls = MaxCalls
      BY <1>1
    <3> QED
      BY <2>1, <3>1, <3>2, Zenon
<1>6. Cardinality(Mine) <= Cardinality(Begun)
  BY <1>3, <1>4, FS_Subset
<1>7. Cardinality(Begun) \in Nat
  BY <1>3, FS_CardinalityType
<1> HIDE DEF Mine
<1> QED
  BY <1>1, <1>5, <1>6, <1>7

LEMMA BeginKeeps ==
    ASSUME IInv, NEW t \in Threads, Begin(t)
    PROVE  IInv'
<1>1. /\ TypeOK /\ NothingEarly /\ foreign = {} /\ pc[t] = "idle"
      /\ calls[t] < MaxCalls
  BY InvParts, RoomForOne DEF Begin
<1>2. PICK r \in Requests, n \in BOOLEAN :
        /\ r.op = "detect" => r.auto /\ ~r.callback
        /\ req' = [req EXCEPT ![t] = r] /\ named' = [named EXCEPT ![t] = n]
  BY DEF Begin
<1>3. r \in AllRequests /\ 1 <= r.pages /\ 1 \in 1..MaxPages
  BY RequestsAssumption, BoundsAssumption DEF AllRequests
<1>4. PICK c \in 1..MaxCalls : c = calls[t] + 1 /\ calls' = [calls EXCEPT ![t] = c]
  <2>1. calls[t] + 1 \in 1..MaxCalls /\ calls' = [calls EXCEPT ![t] = calls[t] + 1]
    BY <1>1, BoundsAssumption DEF Begin, TypeOK
  <2> QED
    BY <2>1, Zenon
<1>5. calls[t] < c /\ calls[t] <= c /\ c > 0 /\ <<t, c>> \in Ids
  BY <1>1, <1>4 DEF TypeOK, Ids
<1>6. events'[<<t, c>>] = <<>>
  BY <1>1, <1>5 DEF NothingEarly, Begin
<1>7. tokens[t] = <<>> /\ slot[t] = NoCallback
  <2>1. InScope(t, req[t], calls[t], "idle", slot[t], tokens[t])
    BY <1>1, UnderWay DEF CallOK
  <2>2. <<NoCallback>> # <<>>
    OBVIOUS
  <2> QED
    BY <2>1, <2>2 DEF InScope
<1>8. Values(r, c, "enter", 1, NoCallback, <<>>, FALSE, n, FALSE, NoFault, NoFault)
  <2>1. <<>> \in Seq(Ids \cup {NoCallback}) /\ c \in 0..MaxCalls
    BY <1>4
  <2> QED
    BY <1>3, <2>1 DEF Values, Places, NoFault, Fault, Faults, Kinds
<1>9. Step(t, r, c, "enter", 1, NoCallback, <<>>, FALSE, n, FALSE, NoFault, NoFault)
  BY <1>1, <1>2, <1>4, <1>7 DEF Begin, Step, TypeOK, Contexts
<1>10. InScope(t, r, c, "enter", NoCallback, <<>>)
  BY <1>5 DEF InScope
<1>11. OnWay(r, "enter", FALSE, n, FALSE, NoFault, NoFault)
  BY <1>2 DEF OnWay
<1>12. \A e \in Stages : Count(e, <<>>) = 0 /\ ~Fires(e, <<>>)
  <2>1. <<>> \in Seq(Stages) /\ \A e : ~Fires(e, <<>>)
    BY DEF Fires
  <2> QED
    BY <2>1, CountNone
<1>13. Telling(r, c, "enter", 1, NoFault, <<>>)
  <2>1. {"detect", "open", "reconcile", "done", "walk_page", "extract_page"} \subseteq Stages
    BY DEF Stages
  <2>2. Due(r, "enter", 1, <<>>)
    BY DEF Due
  <2>3. Said(r, "enter", 1, <<>>)
    BY <1>12, <2>1, <2>2 DEF Said
  <2> QED
    BY <1>3, <2>3 DEF Telling
<1>14. Ended(r, c, FALSE, n, FALSE, NoFault, <<>>)
  <2>1. "reconcile" \in Stages
    BY DEF Stages
  <2> QED
    BY <1>12, <2>1 DEF Ended, NoFault, Fault, Returned
<1>15. CallOK(t, r, c, "enter", 1, NoCallback, <<>>, FALSE, n, FALSE, NoFault, NoFault, events'[<<t, c>>])
  BY <1>6, <1>10, <1>11, <1>13, <1>14 DEF CallOK
<1> QED
  BY <1>5, <1>8, <1>9, <1>15, StepKeeps

-----------------------------------------------------------------------------
(* A call that ends: the scope is reset, however it ends.                  *)
LEMMA ResetLeavesNone ==
    ASSUME TypeOK, NEW t \in Threads, ResetScope(t),
           InScope(t, req[t], calls[t], pc[t], slot[t], tokens[t])
    PROVE  slot' = [slot EXCEPT ![t] = NoCallback] /\ tokens' = [tokens EXCEPT ![t] = <<>>]
<1>1. CASE tokens[t] = <<>> /\ slot[t] = NoCallback
  BY <1>1 DEF ResetScope, TypeOK, Contexts
<1>2. CASE tokens[t] = <<NoCallback>>
  <2>1. /\ <<NoCallback>> # <<>> /\ Len(<<NoCallback>>) = 1 /\ <<NoCallback>>[1] = NoCallback
        /\ SubSeq(<<NoCallback>>, 1, 0) = <<>>
    OBVIOUS
  <2>2. /\ slot' = [slot EXCEPT ![t] = <<NoCallback>>[Len(<<NoCallback>>)]]
        /\ tokens' = [tokens EXCEPT ![t] = SubSeq(<<NoCallback>>, 1, Len(<<NoCallback>>) - 1)]
    BY <1>2, <2>1 DEF ResetScope, Context
  <2>3. slot' = [slot EXCEPT ![t] = NoCallback]
    BY <2>1, <2>2
  <2>4. tokens' = [tokens EXCEPT ![t] = SubSeq(<<NoCallback>>, 1, 0)]
    <3>1. Len(<<NoCallback>>) - 1 = 0
      BY <2>1
    <3> QED
      BY <2>2, <3>1
  <2> QED
    BY <2>1, <2>3, <2>4
<1> QED
  BY <1>1, <1>2 DEF InScope

LEMMA EndKeeps ==
    ASSUME IInv, NEW t \in Threads, pc[t] \in {"unwind", "return"}, ResetScope(t),
           NEW out \in Faults \cup {Returned}, outcome' = [outcome EXCEPT ![t] = out],
           pc' = [pc EXCEPT ![t] = "idle"],
           UNCHANGED <<req, calls, page, opened, events, foreign, named, verified, fault>>,
           Ended(req[t], calls[t], opened[t], named[t], verified[t], out, events[<<t, calls[t]>>])
    PROVE  IInv'
<1> DEFINE s == events[<<t, calls[t]>>]
<1>1. /\ TypeOK /\ foreign = {}
      /\ Values(req[t], calls[t], pc[t], page[t], slot[t], tokens[t], opened[t], named[t], verified[t],
                fault[t], outcome[t])
      /\ calls[t] > 0 /\ s \in Seq(Stages) /\ Said(req[t], pc[t], page[t], s) /\ page[t] <= req[t].pages
  BY InvParts, UnderWay
<1>2. InScope(t, req[t], calls[t], pc[t], slot[t], tokens[t])
  BY UnderWay DEF CallOK
<1>3. slot' = [slot EXCEPT ![t] = NoCallback] /\ tokens' = [tokens EXCEPT ![t] = <<>>]
  BY <1>1, <1>2, ResetLeavesNone
<1>4. Values(req[t], calls[t], "idle", page[t], NoCallback, <<>>, opened[t], named[t], verified[t], fault[t], out)
  <2>1. <<>> \in Seq(Ids \cup {NoCallback})
    OBVIOUS
  <2> QED
    BY <1>1, <2>1 DEF Values, Places
<1>5. Step(t, req[t], calls[t], "idle", page[t], NoCallback, <<>>, opened[t], named[t], verified[t], fault[t], out)
  BY <1>1, <1>3 DEF Step, TypeOK
<1> HIDE DEF s
<1>6. InScope(t, req[t], calls[t], "idle", NoCallback, <<>>)
  BY DEF InScope
<1>7. OnWay(req[t], "idle", opened[t], named[t], verified[t], fault[t], out)
  BY DEF OnWay
<1>8. Telling(req[t], calls[t], "idle", page[t], fault[t], s)
  <2>1. Due(req[t], "idle", page[t], s)
    BY DEF Due
  <2>2. /\ "idle" \in Places /\ pc[t] \in Places /\ Highest("idle") = 6 /\ Highest(pc[t]) = 6
        /\ Highest(pc[t]) <= Highest("idle")
    BY DEF Places, Highest
  <2>3. Said(req[t], "idle", page[t], s)
    BY <1>1, <2>1, <2>2, SaidGoes
  <2> QED
    BY <1>1, <2>3 DEF Telling
<1>9. CallOK(t, req[t], calls[t], "idle", page[t], NoCallback, <<>>, opened[t], named[t], verified[t], fault[t], out,
             events'[<<t, calls[t]>>])
  BY <1>6, <1>7, <1>8 DEF CallOK, s
<1>10. calls[t] <= calls[t]
  BY <1>1 DEF Values
<1> QED
  BY <1>4, <1>5, <1>9, <1>10, StepKeeps

LEMMA UnwindKeeps ==
    ASSUME IInv, NEW t \in Threads, Unwind(t)
    PROVE  IInv'
<1> DEFINE s == events[<<t, calls[t]>>]
<1>1. /\ pc[t] = "unwind" /\ ResetScope(t) /\ outcome' = [outcome EXCEPT ![t] = fault[t]]
      /\ pc' = [pc EXCEPT ![t] = "idle"]
      /\ UNCHANGED <<req, calls, page, opened, events, foreign, named, verified, fault>>
  BY DEF Unwind
<1>2. /\ OnWay(req[t], "unwind", opened[t], named[t], verified[t], fault[t], outcome[t])
      /\ Telling(req[t], calls[t], "unwind", page[t], fault[t], s)
      /\ Ended(req[t], calls[t], opened[t], named[t], verified[t], outcome[t], s)
      /\ fault[t] \in Faults /\ calls[t] > 0
  BY <1>1, UnderWay DEF CallOK, Values
<1> HIDE DEF s
<1>3. Ended(req[t], calls[t], opened[t], named[t], verified[t], fault[t], s)
  BY <1>2 DEF OnWay, Telling, Ended
<1> QED
  BY <1>1, <1>2, <1>3, EndKeeps DEF s

LEMMA ReturnKeeps ==
    ASSUME IInv, NEW t \in Threads, Return(t)
    PROVE  IInv'
<1> DEFINE s == events[<<t, calls[t]>>]
<1>1. /\ pc[t] = "return" /\ ResetScope(t) /\ outcome' = [outcome EXCEPT ![t] = Returned]
      /\ pc' = [pc EXCEPT ![t] = "idle"]
      /\ UNCHANGED <<req, calls, page, opened, events, foreign, named, verified, fault>>
  BY DEF Return
<1>2. /\ OnWay(req[t], "return", opened[t], named[t], verified[t], fault[t], outcome[t])
      /\ Ended(req[t], calls[t], opened[t], named[t], verified[t], outcome[t], s)
      /\ Said(req[t], "return", page[t], s) /\ calls[t] > 0
  BY <1>1, UnderWay DEF CallOK
<1> HIDE DEF s
<1>3. Ended(req[t], calls[t], opened[t], named[t], verified[t], Returned, s)
  BY <1>2 DEF OnWay, Said, Due, Ended, Returned
<1> QED
  BY <1>1, <1>3, EndKeeps DEF s

-----------------------------------------------------------------------------
LEMMA InitKeeps == Init => IInv
<1> SUFFICES ASSUME Init PROVE IInv
  OBVIOUS
<1>1. (CHOOSE r \in AllRequests : TRUE) \in AllRequests
  <2>1. [op |-> "parse", auto |-> TRUE, callback |-> TRUE, reconcile |-> TRUE, xlsx |-> FALSE, pages |-> 1] \in AllRequests
    BY BoundsAssumption DEF AllRequests, Ops
  <2> QED
    BY <2>1
<1>2. TypeOK
  BY <1>1, BoundsAssumption DEF Init, TypeOK, Contexts, Places, NoFault, Fault, Faults, Kinds
<1>3. ScopeHeld
  BY DEF Init, ScopeHeld, Contexts, Context
<1>4. NothingEarly
  BY DEF Init, NothingEarly
<1>5. OnItsWay
  BY DEF Init, OnItsWay
<1>6. EventsSoFar /\ StagesInOrder
  BY DEF Init, EventsSoFar, StagesInOrder
<1>7. NothingUnchecked /\ ErrorsNameTheBank /\ foreign = {}
  BY DEF Init, NothingUnchecked, ErrorsNameTheBank, NoFault, Fault
<1> QED
  BY <1>2, <1>3, <1>4, <1>5, <1>6, <1>7 DEF IInv

LEMMA StutterKeeps ==
    ASSUME IInv, UNCHANGED vars
    PROVE  IInv'
<1>1. TypeOK' /\ NothingEarly' /\ foreign' = {}
  BY InvParts DEF vars, TypeOK, NothingEarly
<1>2. \A t \in Threads :
        CallOK(t, req'[t], calls'[t], pc'[t], page'[t], slot'[t], tokens'[t], opened'[t], named'[t],
               verified'[t], fault'[t], outcome'[t], events'[<<t, calls'[t]>>])
  BY InvParts DEF vars
<1> QED
  BY <1>1, <1>2, AfterIsInv

LEMMA IInvStep == IInv /\ [Next]_vars => IInv'
<1> SUFFICES ASSUME IInv, [Next]_vars PROVE IInv'
  OBVIOUS
<1>1. ASSUME NEW t \in Threads,
             \/ Begin(t) \/ Enter(t) \/ Score(t) \/ DetectOnly(t) \/ Lookup(t)
             \/ EmitDetect(t) \/ EmitOpen(t) \/ OpenSource(t)
      PROVE  IInv'
  BY <1>1, BeginKeeps, EnterKeeps, ScoreKeeps, DetectOnlyKeeps, LookupKeeps, EmitDetectKeeps,
     EmitOpenKeeps, OpenSourceKeeps
<1>2. ASSUME NEW t \in Threads,
             \/ ExtractPage(t) \/ WalkPage(t) \/ BuildResult(t) \/ RedactPage(t)
             \/ Checks(t) \/ Serialize(t) \/ Leave(t) \/ Unwind(t) \/ Return(t)
      PROVE  IInv'
  BY <1>2, ExtractPageKeeps, WalkPageKeeps, BuildResultKeeps, RedactPageKeeps, ChecksKeeps,
     SerializeKeeps, LeaveKeeps, UnwindKeeps, ReturnKeeps
<1>3. CASE Finished \/ UNCHANGED vars
  BY <1>3, StutterKeeps DEF Finished
<1> QED
  BY <1>1, <1>2, <1>3 DEF Next

(* The inductive invariant holds in every state of every behaviour.        *)
THEOREM IInvariant == Spec => []IInv
BY InitKeeps, IInvStep, PTL DEF Spec

(* Every variable of Api keeps to its type (_api.py, _progress.py).        *)
THEOREM ApiTypes == Spec => []TypeOK
<1>1. IInv => TypeOK
  BY DEF IInv
<1> QED
  BY <1>1, IInvariant, PTL

(* A callback hears of its own call only, and between two calls of a       *)
(* thread no callback is installed, however the first one ended            *)
(* (progress_scope in _progress.py).                                       *)
THEOREM OwnEventsCorrect == Spec => []OwnEvents
<1>1. IInv => OwnEvents
  <2> SUFFICES ASSUME IInv PROVE OwnEvents
    OBVIOUS
  <2>1. <<NoCallback>> # <<>>
    OBVIOUS
  <2>2. ASSUME NEW t \in Threads, pc[t] = "idle"
        PROVE  tokens[t] = <<>> /\ slot[t] = NoCallback
    <3>1. InScope(t, req[t], calls[t], "idle", slot[t], tokens[t])
      BY <2>2, InvParts DEF CallOK
    <3> QED
      BY <2>1, <3>1 DEF InScope
  <2> QED
    BY <2>2 DEF IInv, OwnEvents
<1> QED
  BY <1>1, IInvariant, PTL

(* The stages of a call come in the documented order, each page is told of *)
(* once, a walk follows the whole extraction, and `done` comes after the   *)
(* page events it promises, to the calls that return and to no call that   *)
(* the parser or a check has failed (the table of stages in _progress.py). *)
THEOREM StagesCorrect == Spec => []StagesInOrder
<1>1. IInv => StagesInOrder
  BY DEF IInv
<1> QED
  BY <1>1, IInvariant, PTL

(* convert(reconcile=True) returns no bytes that the checks have not       *)
(* passed, and says `reconcile` of no other result (convert, _api.py).     *)
THEOREM CheckedCorrect == Spec => []NothingUnchecked
<1>1. IInv => NothingUnchecked
  BY DEF IInv
<1> QED
  BY <1>1, IInvariant, PTL

(* A ParseError of a document that was opened and a ReconciliationError of *)
(* convert name the bank; one of reconcile_result does as far as its       *)
(* result does (the except clauses of _api.py and reconcile.py).           *)
THEOREM ErrorsCorrect == Spec => []ErrorsNameTheBank
<1>1. IInv => ErrorsNameTheBank
  BY DEF IInv
<1> QED
  BY <1>1, IInvariant, PTL

=============================================================================
