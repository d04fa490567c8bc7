------------------------------ MODULE Throttle ------------------------------
(***************************************************************************)
(* bankstract/_progress.py, throttle(): one wrapped callback and the raw   *)
(* events that reach it, from one call of convert() after another.  The    *)
(* closure keeps its `last` and `seen_stage` between the calls it is       *)
(* reused for, whether those returned or failed part way.                  *)
(***************************************************************************)
EXTENDS Naturals, Sequences

CONSTANTS
    Pages,           \* pages of the statement
    MinInterval,     \* min_interval_ms, in ticks
    MaxTime,         \* bound on the clock
    MaxCalls         \* bound on the calls that reuse the callback

ASSUME ThrottleAssumption ==
    /\ Pages \in Nat \ {0} /\ MinInterval \in Nat /\ MaxTime \in Nat
    /\ MaxCalls \in Nat \ {0}

VARIABLES
    stopsEarly,      \* the parser may leave its page loop at a section end
    now,             \* time.monotonic(), in ticks
    calls,           \* the number of the call under way
    step,            \* index into Program of the stage under way
    current,         \* `current` of the next raw event of that stage
    last,            \* stage -> (time, current) of its last fire
    seenStage,       \* the stage of the last fire
    shown            \* history: what the wrapped callback let through

vars == <<stopsEarly, now, calls, step, current, last, seenStage, shown>>

(* The stages of convert(), each with the total its events carry.          *)
Program == <<"detect", "open", "extract_page", "walk_page", "reconcile", "done">>
PageStages == {"extract_page", "walk_page"}
Steps == DOMAIN Program
StageNames == {Program[i] : i \in Steps}
Total(stage) == IF stage \in PageStages THEN Pages ELSE 1

Never == [at |-> 0, current |-> 0]

-----------------------------------------------------------------------------
(* wrapped(ev): whether the event is let through.                          *)
StageChanged(stage) == seenStage # stage
Fired(stage) == last[stage] # Never

(* Mutation: `current > total`, so the last event is not terminal.         *)
TerminalOffByOne(stage, k) == k > Total(stage)
Terminal(stage, k) == k >= Total(stage)

Duplicate(stage, k) ==
    Fired(stage) /\ last[stage].current = k /\ ~Terminal(stage, k)

TooSoon(stage, k) ==
    /\ ~Terminal(stage, k) /\ ~StageChanged(stage)
    /\ Fired(stage) /\ now - last[stage].at < MinInterval

Passes(stage, k) == ~Duplicate(stage, k) /\ ~TooSoon(stage, k)

(* Mutation: `last` is written for a dropped event as well: on a busy      *)
(* stream no event ever comes an interval after the one before it.         *)
RecordAlways(stage, k) ==
    /\ last' = [last EXCEPT ![stage] = [at |-> now, current |-> k]]
    /\ IF Passes(stage, k)
       THEN /\ seenStage' = stage
            /\ shown' = Append(shown, [call |-> calls, stage |-> stage, current |-> k, at |-> now])
       ELSE UNCHANGED <<seenStage, shown>>

(* Mutation: only the first fire of a stage is remembered.                 *)
RecordOnce(stage, k) ==
    IF Passes(stage, k)
    THEN /\ last' = IF Fired(stage) THEN last
                    ELSE [last EXCEPT ![stage] = [at |-> now, current |-> k]]
         /\ seenStage' = stage
         /\ shown' = Append(shown, [call |-> calls, stage |-> stage, current |-> k, at |-> now])
    ELSE UNCHANGED <<last, seenStage, shown>>

(* State is written before the callback runs, so an event whose callback   *)
(* raised counts as shown.                                                 *)
Record(stage, k) ==
    IF Passes(stage, k)
    THEN /\ last' = [last EXCEPT ![stage] = [at |-> now, current |-> k]]
         /\ seenStage' = stage
         /\ shown' = Append(shown, [call |-> calls, stage |-> stage, current |-> k, at |-> now])
    ELSE UNCHANGED <<last, seenStage, shown>>

-----------------------------------------------------------------------------
Init ==
    /\ stopsEarly \in BOOLEAN
    /\ now = 0 /\ calls = 1 /\ step = 1 /\ current = 1
    /\ last = [s \in StageNames |-> Never]
    /\ seenStage = "none"
    /\ shown = <<>>

(* Mutation: the loop runs over one page too many.                         *)
AdvanceOverrun ==
    IF current <= Total(Program[step])
    THEN current' = current + 1 /\ step' = step
    ELSE current' = 1 /\ step' = step + 1

Advance ==
    IF current < Total(Program[step])
    THEN \/ current' = current + 1 /\ step' = step
         \/ /\ stopsEarly /\ Program[step] = "walk_page"
            /\ current' = 1 /\ step' = step + 1
    ELSE current' = 1 /\ step' = step + 1

(* The engine emits the next raw event of the call.                        *)
EmitEvent ==
    /\ step \in Steps
    /\ Record(Program[step], current)
    /\ Advance
    /\ UNCHANGED <<stopsEarly, now, calls>>

(* The call returned, or raised part way; the same callback serves again.  *)
NextCall ==
    /\ calls < MaxCalls /\ (step > 1 \/ current > 1)
    /\ calls' = calls + 1 /\ step' = 1 /\ current' = 1
    /\ UNCHANGED <<stopsEarly, now, last, seenStage, shown>>

Tick ==
    /\ now < MaxTime /\ now' = now + 1
    /\ UNCHANGED <<stopsEarly, calls, step, current, last, seenStage, shown>>

Next == EmitEvent \/ NextCall \/ Tick

Spec == Init /\ [][Next]_vars

-----------------------------------------------------------------------------
Shown(c, stage, k) ==
    \E i \in DOMAIN shown : shown[i].call = c /\ shown[i].stage = stage /\ shown[i].current = k

TypeOK ==
    /\ stopsEarly \in BOOLEAN
    /\ now \in 0..MaxTime /\ calls \in 1..MaxCalls
    /\ step \in 1..(Len(Program) + 1) /\ current \in 1..Pages
    /\ last \in [StageNames -> [at : 0..MaxTime, current : 0..Pages]]
    /\ seenStage \in StageNames \cup {"none"}
    /\ shown \in Seq([call : 1..MaxCalls, stage : StageNames, current : 1..Pages,
                      at : 0..MaxTime])

(* The user sees every stage end, and on a new callback start: however     *)
(* busy the stream, the first and the last event of a stage the call has   *)
(* left were let through ("consumers see start-of-stage + end-of-stage     *)
(* even on a busy stream").  A parser that leaves its loop at the end of a *)
(* section, as OPay's does, never fires the last event of walk_page.       *)
StageEndsShown ==
    \A i \in 1..(step - 1) :
        /\ calls = 1 => Shown(1, Program[i], 1)
        /\ ~stopsEarly => Shown(calls, Program[i], Total(Program[i]))

(* What is let through is rate limited and never runs backwards: of two    *)
(* events in a row of one stage and one call the second is a later page,   *)
(* and it is the last one or came an interval later.                       *)
RateLimited ==
    \A i \in 1..(Len(shown) - 1) :
        LET a == shown[i]  b == shown[i + 1] IN
        a.call = b.call /\ a.stage = b.stage =>
            /\ a.current < b.current
            /\ Terminal(b.stage, b.current) \/ b.at - a.at >= MinInterval

(* Why these hold.  What the closure remembers is the last event it let    *)
(* through, one the call under way has passed.                             *)
LastRemembered ==
    shown # <<>> =>
        LET z == shown[Len(shown)] IN
        /\ seenStage = z.stage
        /\ last[z.stage] = [at |-> z.at, current |-> z.current]
        /\ z.call <= calls
        /\ \A i \in Steps : z.call = calls /\ z.stage = Program[i] =>
             i <= step /\ (i = step => z.current < current)

(* On a new callback a stage not begun has not fired, and one under way    *)
(* showed its first event.                                                 *)
FirstShown ==
    calls = 1 =>
        /\ \A i \in Steps : i > step \/ (i = step /\ current = 1) => ~Fired(Program[i])
        /\ step \in Steps /\ current > 1 => Shown(1, Program[step], 1)

WithinStage == step \in Steps => current <= Total(Program[step])

(* The limiter lets through what it should: an event of the stage that is  *)
(* showing, an interval or more after the last one shown, is not dropped.  *)
NotStarved ==
    [][\A s \in StageNames :
        /\ EmitEvent /\ Program[step] = s /\ Len(shown) > 0
        /\ shown[Len(shown)].stage = s /\ shown[Len(shown)].call = calls
        /\ now - shown[Len(shown)].at >= MinInterval
        => Len(shown') = Len(shown) + 1]_vars
=============================================================================
