--------------------------- MODULE ThrottleProofs ---------------------------
(***************************************************************************)
(* Proofs about Throttle for every number of pages and calls, every        *)
(* interval and every clock.                                               *)
(***************************************************************************)
EXTENDS Throttle, SequenceTheorems, TLAPS

USE ThrottleAssumption

TInv == TypeOK /\ WithinStage /\ LastRemembered /\ FirstShown /\ RateLimited /\ StageEndsShown

Showing == [call : 1..MaxCalls, stage : StageNames, current : 1..Pages, at : 0..MaxTime]

(* The stages of the program are six different ones.                       *)
LEMMA ProgramStages ==
    /\ Steps = 1..6 /\ Len(Program) = 6
    /\ \A i \in Steps : Program[i] \in StageNames
    /\ \A i, j \in Steps : Program[i] = Program[j] => i = j
<1>1. Steps = 1..6 /\ Len(Program) = 6
  BY DEF Steps, Program
<1>2. \A i \in Steps : Program[i] \in StageNames
  BY DEF StageNames
<1>3. \A i, j \in Steps : Program[i] = Program[j] => i = j
  BY <1>1 DEF Program
<1> QED
  BY <1>1, <1>2, <1>3

(* A stage has a last event within the pages.                              *)
LEMMA TotalInPages == \A s : Total(s) \in 1..Pages
BY DEF Total

(* Shown, of what was shown after the step.                                *)
ShownAfter(c, stage, k) ==
    \E i \in DOMAIN shown' :
        shown'[i].call = c /\ shown'[i].stage = stage /\ shown'[i].current = k

(* What lies before the next step lies before this one, or is this one.    *)
LEMMA BeforeNext ==
    ASSUME NEW here \in Nat, NEW next \in {here, here + 1}
    PROVE  \A i \in 1..(next - 1) : i \in 1..(here - 1) \/ (i = here /\ next # here)
OBVIOUS

(* What an event let through adds to what was shown.                       *)
LEMMA ShownGrows ==
    ASSUME TypeOK, NEW e \in Showing, shown' = Append(shown, e)
    PROVE  /\ shown' \in Seq(Showing) /\ Len(shown') = Len(shown) + 1 /\ shown' # <<>>
           /\ \A i \in 1..Len(shown) : shown'[i] = shown[i]
           /\ shown'[Len(shown')] = e
           /\ \A c, s, k : ShownAfter(c, s, k) <=> Shown(c, s, k) \/ (e.call = c /\ e.stage = s /\ e.current = k)
<1>1. shown \in Seq(Showing) /\ Len(shown) \in Nat /\ DOMAIN shown = 1..Len(shown)
  BY DEF TypeOK, Showing
<1>2. /\ shown' \in Seq(Showing) /\ Len(shown') = Len(shown) + 1
      /\ \A i \in 1..Len(shown) : shown'[i] = shown[i]
      /\ shown'[Len(shown')] = e
  BY <1>1, AppendProperties
<1>3. DOMAIN shown' = 1..(Len(shown) + 1)
  BY <1>1, <1>2
<1>4. ASSUME NEW c, NEW s, NEW k
      PROVE  ShownAfter(c, s, k) <=> Shown(c, s, k) \/ (e.call = c /\ e.stage = s /\ e.current = k)
  BY <1>1, <1>2, <1>3 DEF Shown, ShownAfter
<1>5. shown' # <<>>
  BY <1>1, <1>2
<1> QED
  BY <1>2, <1>4, <1>5

(* The raw events of a call stay within the pages of its stages.           *)
LEMMA AdvanceStep ==
    ASSUME TypeOK, WithinStage, EmitEvent
    PROVE  /\ step \in 1..6 /\ Program[step] \in StageNames /\ current <= Total(Program[step])
           /\ \/ current < Total(Program[step]) /\ current' = current + 1 /\ step' = step
              \/ /\ current' = 1 /\ step' = step + 1
                 /\ current = Total(Program[step]) \/ stopsEarly
           /\ current' \in 1..Pages /\ step' \in 1..7 /\ WithinStage'
           /\ stopsEarly' = stopsEarly /\ now' = now /\ calls' = calls
<1>1. step \in 1..6 /\ Program[step] \in StageNames /\ current <= Total(Program[step])
  BY ProgramStages DEF EmitEvent, WithinStage
<1>2. current \in 1..Pages /\ Total(Program[step]) \in 1..Pages
  BY TotalInPages DEF TypeOK
<1>3. \/ current < Total(Program[step]) /\ current' = current + 1 /\ step' = step
      \/ /\ current' = 1 /\ step' = step + 1
         /\ current = Total(Program[step]) \/ stopsEarly
  BY <1>1, <1>2 DEF EmitEvent, Advance
<1>4. current' \in 1..Pages /\ step' \in 1..7
  BY <1>1, <1>2, <1>3
<1>5. WithinStage'
  BY <1>1, <1>2, <1>3, TotalInPages DEF WithinStage
<1>6. stopsEarly' = stopsEarly /\ now' = now /\ calls' = calls
  BY DEF EmitEvent
<1> QED
  BY <1>1, <1>3, <1>4, <1>5, <1>6

(* The event that is let through.                                          *)
LEMMA PassStep ==
    ASSUME TInv, EmitEvent, Passes(Program[step], current)
    PROVE  TInv'
<1> DEFINE s == Program[step]
           e == [call |-> calls, stage |-> s, current |-> current, at |-> now]
<1>1. /\ step \in 1..6 /\ s \in StageNames /\ current <= Total(s)
      /\ \/ current < Total(s) /\ current' = current + 1 /\ step' = step
         \/ current' = 1 /\ step' = step + 1 /\ (current = Total(s) \/ stopsEarly)
      /\ current' \in 1..Pages /\ step' \in 1..7 /\ WithinStage'
      /\ stopsEarly' = stopsEarly /\ now' = now /\ calls' = calls
  BY AdvanceStep DEF TInv
<1>2. /\ current \in 1..Pages /\ now \in 0..MaxTime /\ calls \in 1..MaxCalls /\ MaxTime \in Nat
      /\ last \in [StageNames -> [at : 0..MaxTime, current : 0..Pages]]
      /\ shown \in Seq(Showing) /\ Len(shown) \in Nat /\ Total(s) \in 1..Pages
      /\ stopsEarly \in BOOLEAN
  BY TotalInPages DEF TInv, TypeOK, Showing
<1>2a. /\ step \in 1..6 /\ step' \in {step, step + 1}
       /\ step' = step => current' = current + 1
  BY <1>1
<1>2b. step' # step => current = Total(s) \/ stopsEarly
  BY <1>1
<1>2c. \A i \in 1..(step' - 1) : i \in 1..(step - 1) \/ (i = step /\ step' # step)
  <2>1. step \in Nat
    BY <1>2a
  <2> QED
    BY <1>2a, <2>1, BeforeNext
<1>3. e \in Showing
  BY <1>1, <1>2 DEF Showing
<1>4. /\ last' = [last EXCEPT ![s] = [at |-> now, current |-> current]]
      /\ seenStage' = s /\ shown' = Append(shown, e)
  BY DEF EmitEvent, Record
<1> HIDE DEF e
<1>5. /\ shown' \in Seq(Showing) /\ Len(shown') = Len(shown) + 1 /\ shown' # <<>>
      /\ \A i \in 1..Len(shown) : shown'[i] = shown[i]
      /\ shown'[Len(shown')] = e
      /\ \A c, st, k : ShownAfter(c, st, k) <=> Shown(c, st, k) \/ (e.call = c /\ e.stage = st /\ e.current = k)
  BY <1>3, <1>4, ShownGrows DEF TInv
<1>6. e.call = calls /\ e.stage = s /\ e.current = current /\ e.at = now
  BY DEF e
<1>7. TypeOK'
  <2>1. last' \in [StageNames -> [at : 0..MaxTime, current : 0..Pages]]
    BY <1>1, <1>2, <1>4
  <2> QED
    BY <1>1, <1>2, <1>4, <1>5, <2>1, ProgramStages DEF TypeOK, Showing
<1>8. LastRemembered'
  <2>1. last'[s] = [at |-> now, current |-> current]
    BY <1>1, <1>2, <1>4
  <2>2. \A i \in Steps : s = Program[i] => i <= step' /\ (i = step' => current < current')
    <3>1. \A i \in Steps : s = Program[i] => i = step
      BY <1>1, ProgramStages
    <3> QED
      BY <1>2, <1>2a, <3>1
  <2> QED
    BY <1>1, <1>2, <1>4, <1>5, <1>6, <2>1, <2>2 DEF LastRemembered
<1>9. FirstShown'
  <2> SUFFICES ASSUME calls = 1
               PROVE  /\ \A i \in Steps : i > step' \/ (i = step' /\ current' = 1) => last'[Program[i]] = Never
                      /\ step' \in Steps /\ current' > 1 => ShownAfter(1, Program[step'], 1)
    BY <1>1 DEF FirstShown, Fired, Shown, ShownAfter
  <2>1. ASSUME NEW i \in Steps, i > step' \/ (i = step' /\ current' = 1)
        PROVE  last'[Program[i]] = Never
    <3>1. i > step
      <4>1. i \in Nat /\ step \in Nat
        BY <1>2a, ProgramStages
      <4> QED
        BY <1>2, <1>2a, <2>1, <4>1
    <3>2. Program[i] # s /\ Program[i] \in StageNames
      BY <1>1, <3>1, ProgramStages
    <3>3. last[Program[i]] = Never
      BY <3>1 DEF TInv, FirstShown, Fired
    <3> QED
      BY <1>2, <1>4, <3>2, <3>3
  <2>2. ASSUME step' \in Steps, current' > 1
        PROVE  ShownAfter(1, Program[step'], 1)
    <3>1. step' = step /\ current' = current + 1
      BY <1>1, <1>2, <2>2
    <3>2. CASE current = 1
      BY <1>5, <1>6, <3>1, <3>2
    <3>3. CASE current > 1
      BY <1>1, <1>5, <3>1, <3>3, ProgramStages DEF TInv, FirstShown
    <3> QED
      BY <1>2, <3>2, <3>3
  <2> QED
    BY <2>1, <2>2
<1>10. RateLimited'
  <2> SUFFICES ASSUME NEW i \in 1..Len(shown), shown'[i].call = shown'[i + 1].call,
                      shown'[i].stage = shown'[i + 1].stage
               PROVE  /\ shown'[i].current < shown'[i + 1].current
                      /\ \/ Terminal(shown'[i + 1].stage, shown'[i + 1].current)
                         \/ shown'[i + 1].at - shown'[i].at >= MinInterval
    BY <1>2, <1>5 DEF RateLimited, Terminal
  <2>1. CASE i < Len(shown)
    <3>1. shown'[i] = shown[i] /\ shown'[i + 1] = shown[i + 1] /\ i \in 1..(Len(shown) - 1)
      BY <1>2, <1>5, <2>1
    <3> QED
      BY <3>1 DEF TInv, RateLimited
  <2>2. CASE i = Len(shown)
    <3> DEFINE z == shown[Len(shown)]
    <3>1. shown # <<>> /\ shown'[i] = z /\ shown'[i + 1] = e /\ z \in Showing
      BY <1>2, <1>5, <2>2
    <3>2. seenStage = z.stage /\ last[z.stage] = [at |-> z.at, current |-> z.current]
      BY <3>1 DEF TInv, LastRemembered
    <3>7. z.call = calls /\ z.stage = s
      BY <1>6, <2>2, <3>1
    <3>3. z.current < current
      <4>1. step \in Steps
        BY <1>1, ProgramStages
      <4> QED
        BY <3>1, <3>7, <4>1 DEF TInv, LastRemembered
    <3>4. z.stage = s /\ z.current \in 1..Pages /\ z.at \in 0..MaxTime
      BY <3>1, <3>7 DEF Showing
    <3>5. ~StageChanged(s) /\ Fired(s) /\ last[s].at = z.at
      BY <3>2, <3>4 DEF StageChanged, Fired, Never
    <3>6. Terminal(s, current) \/ ~(now - z.at < MinInterval)
      BY <3>5 DEF Passes, TooSoon
    <3> QED
      BY <1>2, <1>6, <3>1, <3>3, <3>4, <3>6
  <2> QED
    BY <1>2, <2>1, <2>2
<1>11. StageEndsShown'
  <2> SUFFICES ASSUME NEW i \in 1..(step' - 1)
               PROVE  /\ calls = 1 => ShownAfter(1, Program[i], 1)
                      /\ ~stopsEarly => ShownAfter(calls, Program[i], Total(Program[i]))
    BY <1>1 DEF StageEndsShown, Shown, ShownAfter
  <2>1. CASE i \in 1..(step - 1)
    BY <1>5, <2>1 DEF TInv, StageEndsShown
  <2>2. CASE i = step /\ step' # step
    <3>1. step' = step + 1 /\ (current = Total(s) \/ stopsEarly)
      BY <1>2a, <1>2b, <2>2
    <3>2. calls = 1 => ShownAfter(1, s, 1)
      <4>1. CASE current = 1
        BY <1>5, <1>6, <4>1
      <4>2. CASE current > 1
        BY <1>1, <1>5, <4>2, ProgramStages DEF TInv, FirstShown
      <4> QED
        BY <1>2, <4>1, <4>2
    <3>3. ~stopsEarly => ShownAfter(calls, s, Total(s))
      BY <1>5, <1>6, <3>1
    <3> QED
      BY <2>2, <3>2, <3>3
  <2> QED
    BY <1>2c, <2>1, <2>2
<1> QED
  BY <1>1, <1>7, <1>8, <1>9, <1>10, <1>11 DEF TInv

(* The first event of a stage that has not fired and the last event of any *)
(* stage are never held back.                                              *)
LEMMA NeverHeld ==
    ASSUME NEW s, NEW k, ~Fired(s) \/ Terminal(s, k)
    PROVE  Passes(s, k)
BY DEF Passes, Duplicate, TooSoon

(* The event that is held back: the next one is a later event.             *)
LEMMA DropStep ==
    ASSUME TInv, EmitEvent, ~Passes(Program[step], current)
    PROVE  TInv'
<1> DEFINE s == Program[step]
<1>1. /\ step \in 1..6 /\ s \in StageNames /\ current <= Total(s)
      /\ \/ current < Total(s) /\ current' = current + 1 /\ step' = step
         \/ current' = 1 /\ step' = step + 1 /\ (current = Total(s) \/ stopsEarly)
      /\ current' \in 1..Pages /\ step' \in 1..7 /\ WithinStage'
      /\ stopsEarly' = stopsEarly /\ now' = now /\ calls' = calls
  BY AdvanceStep DEF TInv
<1>2. last' = last /\ seenStage' = seenStage /\ shown' = shown
  BY DEF EmitEvent, Record
<1>3. /\ step \in Nat /\ step' \in {step, step + 1}
      /\ step' = step => current' = current + 1
      /\ step' = step + 1 => current' = 1
      /\ step' # step => current = Total(s) \/ stopsEarly
  BY <1>1
<1>4. current \in Nat \ {0} /\ Total(s) \in Nat
  BY TotalInPages DEF TInv, TypeOK
<1>5. Fired(s) /\ current # Total(s)
  BY <1>4, NeverHeld DEF Terminal
<1>6. calls = 1 => current > 1 /\ Shown(1, s, 1)
  <2>1. step \in Steps
    BY <1>1, ProgramStages
  <2>2. calls = 1 => current # 1
    BY <1>5, <2>1 DEF TInv, FirstShown
  <2> QED
    BY <1>4, <2>1, <2>2 DEF TInv, FirstShown
<1>7. TypeOK'
  BY <1>1, <1>2, ProgramStages DEF TInv, TypeOK
<1>8. LastRemembered'
  <2> SUFFICES ASSUME shown # <<>>, NEW i \in Steps,
                      shown[Len(shown)].call = calls, shown[Len(shown)].stage = Program[i]
               PROVE  i <= step' /\ (i = step' => shown[Len(shown)].current < current')
    BY <1>1, <1>2 DEF TInv, LastRemembered
  <2>1. i <= step /\ (i = step => shown[Len(shown)].current < current)
    BY DEF TInv, LastRemembered
  <2>2. i \in Nat /\ shown[Len(shown)].current \in Nat
    <3>1. shown[Len(shown)] \in Showing
      <4>1. shown \in Seq(Showing)
        BY DEF TInv, TypeOK, Showing
      <4> QED
        BY <4>1
    <3> QED
      BY <3>1, ProgramStages DEF Showing
  <2> QED
    BY <1>3, <1>4, <2>1, <2>2
<1>9. FirstShown'
  <2>1. \A i \in Steps : i > step' \/ (i = step' /\ current' = 1) => i > step
    BY <1>3, <1>4, ProgramStages
  <2>2. step' \in Steps /\ current' > 1 => step' = step
    BY <1>3
  <2>3. \A c, st, k : Shown(c, st, k)' <=> Shown(c, st, k)
    BY <1>2 DEF Shown
  <2>4. calls = 1 => \A i \in Steps : i > step' \/ (i = step' /\ current' = 1) => ~Fired(Program[i])'
    BY <1>2, <2>1 DEF TInv, FirstShown, Fired
  <2>5. calls = 1 /\ step' \in Steps /\ current' > 1 => Shown(1, Program[step], 1)'
    BY <1>2, <1>6, <2>2, <2>3 DEF Shown
  <2> QED
    BY <1>1, <2>4, <2>5 DEF FirstShown, Fired
<1>10. RateLimited'
  BY <1>2 DEF TInv, RateLimited, Terminal
<1>11. StageEndsShown'
  <2>1. \A c, st, k : ShownAfter(c, st, k) <=> Shown(c, st, k)
    BY <1>2 DEF Shown, ShownAfter
  <2> SUFFICES ASSUME NEW i \in 1..(step' - 1)
               PROVE  /\ calls = 1 => ShownAfter(1, Program[i], 1)
                      /\ ~stopsEarly => ShownAfter(calls, Program[i], Total(Program[i]))
    BY <1>1 DEF StageEndsShown, Shown, ShownAfter
  <2>2. i \in 1..(step - 1) \/ (i = step /\ step' # step)
    BY <1>3, BeforeNext
  <2>3. CASE i \in 1..(step - 1)
    BY <2>1, <2>3 DEF TInv, StageEndsShown
  <2>4. CASE i = step /\ step' # step
    BY <1>3, <1>5, <1>6, <2>1, <2>4
  <2> QED
    BY <2>2, <2>3, <2>4
<1> QED
  BY <1>1, <1>7, <1>8, <1>9, <1>10, <1>11 DEF TInv

-----------------------------------------------------------------------------
(* A new callback remembers nothing.                                       *)
LEMMA ThrottleInit == Init => TInv
<1> SUFFICES ASSUME Init PROVE TInv
  OBVIOUS
<1>1. /\ now = 0 /\ calls = 1 /\ step = 1 /\ current = 1 /\ shown = <<>> /\ seenStage = "none"
      /\ last = [s \in StageNames |-> Never] /\ stopsEarly \in BOOLEAN
  BY DEF Init
<1>2. TypeOK
  <2>1. Never \in [at : 0..MaxTime, current : 0..Pages]
    BY DEF Never
  <2>2. last \in [StageNames -> [at : 0..MaxTime, current : 0..Pages]]
    BY <1>1, <2>1
  <2> QED
    BY <1>1, <2>2, ProgramStages DEF TypeOK
<1>3. WithinStage
  BY <1>1, TotalInPages DEF WithinStage
<1>4. LastRemembered
  BY <1>1 DEF LastRemembered
<1>5. FirstShown
  BY <1>1, ProgramStages DEF FirstShown, Fired
<1>6. RateLimited
  <2>1. Len(shown) = 0
    BY <1>1
  <2> QED
    BY <2>1 DEF RateLimited
<1>7. StageEndsShown
  BY <1>1 DEF StageEndsShown
<1> QED
  BY <1>2, <1>3, <1>4, <1>5, <1>6, <1>7 DEF TInv

(* The next call finds what the last one left and shows nothing of its own.*)
LEMMA NextCallStep ==
    ASSUME TInv, NextCall
    PROVE  TInv'
<1>1. /\ calls' = calls + 1 /\ step' = 1 /\ current' = 1 /\ calls < MaxCalls
      /\ UNCHANGED <<stopsEarly, now, last, seenStage, shown>>
  BY DEF NextCall
<1>2. calls \in 1..MaxCalls
  BY DEF TInv, TypeOK
<1>3. TypeOK'
  BY <1>1, ProgramStages DEF TInv, TypeOK
<1>4. WithinStage'
  BY <1>1, TotalInPages DEF WithinStage
<1>5. LastRemembered'
  <2>1. shown # <<>> => shown[Len(shown)].call <= calls /\ shown[Len(shown)].call \in Nat
    <3>1. shown \in Seq(Showing)
      BY DEF TInv, TypeOK, Showing
    <3>2. shown # <<>> => shown[Len(shown)] \in Showing
      BY <3>1
    <3> QED
      BY <3>2 DEF TInv, LastRemembered, Showing
  <2>2. shown # <<>> => shown[Len(shown)].call < calls'
    BY <1>1, <1>2, <2>1
  <2> QED
    BY <1>1, <1>2, <2>1, <2>2 DEF TInv, LastRemembered
<1>6. FirstShown'
  BY <1>1, <1>2 DEF FirstShown
<1>7. RateLimited'
  BY <1>1 DEF TInv, RateLimited, Terminal
<1>8. StageEndsShown'
  BY <1>1 DEF StageEndsShown
<1> QED
  BY <1>3, <1>4, <1>5, <1>6, <1>7, <1>8 DEF TInv

(* Time shows nothing.                                                     *)
LEMMA TickStep ==
    ASSUME TInv, Tick \/ UNCHANGED vars
    PROVE  TInv'
<1>1. UNCHANGED <<stopsEarly, calls, step, current, last, seenStage, shown>>
  BY DEF Tick, vars
<1>2. now' \in 0..MaxTime
  BY DEF TInv, TypeOK, Tick, vars
<1>3. TypeOK' /\ WithinStage'
  BY <1>1, <1>2 DEF TInv, TypeOK, WithinStage
<1>4. LastRemembered'
  BY <1>1 DEF TInv, LastRemembered
<1>5. FirstShown'
  BY <1>1 DEF TInv, FirstShown, Fired, Shown
<1>6. RateLimited'
  BY <1>1 DEF TInv, RateLimited, Terminal
<1>7. StageEndsShown'
  BY <1>1 DEF TInv, StageEndsShown, Shown
<1> QED
  BY <1>3, <1>4, <1>5, <1>6, <1>7 DEF TInv

(* So the closure remembers the last event shown, call after call.         *)
LEMMA ThrottleInvariant == Spec => []TInv
<1>1. Init => TInv
  BY ThrottleInit
<1>2. TInv /\ [Next]_vars => TInv'
  BY PassStep, DropStep, NextCallStep, TickStep DEF Next
<1> QED
  BY <1>1, <1>2, PTL DEF Spec

(* The closure keeps a time and a page for every stage, whatever calls use *)
(* it and however they end.                                                *)
THEOREM ThrottleTypes == Spec => []TypeOK
<1>1. TInv => TypeOK
  BY DEF TInv
<1> QED
  BY <1>1, ThrottleInvariant, PTL

(* What throttle() lets through is rate limited and never runs backwards.  *)
THEOREM RateCorrect == Spec => []RateLimited
<1>1. TInv => RateLimited
  BY DEF TInv
<1> QED
  BY <1>1, ThrottleInvariant, PTL

(* The first and the last event of every stage a call has left were let    *)
(* through, however busy the stream.                                       *)
THEOREM EndsCorrect == Spec => []StageEndsShown
<1>1. TInv => StageEndsShown
  BY DEF TInv
<1> QED
  BY <1>1, ThrottleInvariant, PTL

(* What such an event finds remembered does not hold it back.              *)
LEMMA NotStarvedStep ==
    ASSUME TInv, EmitEvent, NEW s \in StageNames, Program[step] = s, Len(shown) > 0,
           shown[Len(shown)].stage = s, shown[Len(shown)].call = calls,
           now - shown[Len(shown)].at >= MinInterval
    PROVE  Len(shown') = Len(shown) + 1
<1> DEFINE z == shown[Len(shown)]
<1>1. shown \in Seq(Showing) /\ shown # <<>> /\ z \in Showing
  <2>1. shown \in Seq(Showing)
    BY DEF TInv, TypeOK, Showing
  <2> QED
    BY <2>1
<1>2. z.stage = s /\ z.call = calls /\ ~(now - z.at < MinInterval) /\ z.current \in Nat
  <2>1. z.at \in 0..MaxTime /\ z.current \in 1..Pages
    BY <1>1 DEF Showing
  <2>2. now \in Nat
    BY DEF TInv, TypeOK
  <2> QED
    BY <2>1, <2>2
<1>3. last[s] = [at |-> z.at, current |-> z.current] /\ seenStage = s /\ z.current < current
  <2>1. step \in Steps
    BY DEF EmitEvent
  <2> QED
    BY <1>1, <1>2, <2>1 DEF TInv, LastRemembered
<1>4. last[s].at = z.at /\ last[s].current = z.current
  BY <1>3
<1>5. last[s].current # current
  BY <1>2, <1>3, <1>4
<1>6. Passes(s, current)
  BY <1>2, <1>4, <1>5 DEF Passes, Duplicate, TooSoon
<1>7. shown' = Append(shown, [call |-> calls, stage |-> s, current |-> current, at |-> now])
  BY <1>6 DEF EmitEvent, Record
<1> QED
  BY <1>1, <1>7

(* An event of the stage that is showing, an interval after the last one   *)
(* shown, is let through.                                                  *)
THEOREM StarvedCorrect == Spec => NotStarved
<1>1. TInv /\ [Next]_vars =>
        [\A s \in StageNames :
            /\ EmitEvent /\ Program[step] = s /\ Len(shown) > 0
            /\ shown[Len(shown)].stage = s /\ shown[Len(shown)].call = calls
            /\ now - shown[Len(shown)].at >= MinInterval
            => Len(shown') = Len(shown) + 1]_vars
  BY NotStarvedStep
<1> QED
  BY <1>1, ThrottleInvariant, PTL DEF Spec, NotStarved
=============================================================================
