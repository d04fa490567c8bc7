---------------------------- MODULE IsolatedCall ----------------------------
(***************************************************************************)
(* What `isolate=True` promises its caller, with no process, pipe or clock *)
(* in sight: the caller sees a prefix of the events the call would have    *)
(* fired in process, and then exactly one outcome.  A value comes only     *)
(* from a call that ends well, after its last event; the worker does       *)
(* nothing once the caller has its outcome.                                *)
(***************************************************************************)
EXTENDS Naturals, Sequences

CONSTANT
    MaxEvents        \* bound on the events one call fires before `done`

VARIABLES
    call,            \* the call as it would behave in process
    seen,            \* numbers of the events on_progress has received
    outcome,         \* what the caller got, "none" until it got something
    working          \* whether the worker can still do anything

vars == <<call, seen, outcome, working>>

(* How the call ends in process; "forever" is a call that never ends, and  *)
(* "memory" one that raises MemoryError.                                   *)
Ends == {"ok", "error", "memory", "forever"}

(* How its result pickles: in one write, in several, over the size cap, or *)
(* not at all.                                                             *)
Weights == {"small", "large", "huge", "unpicklable"}

Calls == [forward : BOOLEAN, importable : BOOLEAN,
          events : 0..MaxEvents, end : Ends, weight : Weights]

(* The events a call forwards: its own, and `done` if it ends well.        *)
Total(c) == IF ~c.forward THEN 0
            ELSE IF c.end = "ok" THEN c.events + 1 ELSE c.events

(* Outcomes that are not the call's own.                                   *)
Failures == {"resource_limit", "not_importable", "limit_refused",
             "unreturnable", "pipe_broken", "callback_raised"}

Outcomes == {"value", "raised"} \cup Failures

Init ==
    /\ call \in Calls
    /\ seen = <<>>
    /\ outcome = "none"
    /\ working \in BOOLEAN

(* The next event reaches on_progress.                                     *)
Deliver ==
    /\ outcome = "none"
    /\ Len(seen) < Total(call)
    /\ seen' = Append(seen, Len(seen) + 1)
    /\ UNCHANGED <<call, outcome>>
    /\ working' \in BOOLEAN

(* The worker starts or ends on its own while the caller waits.            *)
Work ==
    /\ outcome = "none"
    /\ working' \in BOOLEAN
    /\ UNCHANGED <<call, seen, outcome>>

(* The caller gets its outcome.  Each one says something about the call.   *)
Allowed(o) ==
    \/ o = "value" /\ call.end = "ok" /\ Len(seen) = Total(call)
    \/ o = "raised" /\ call.end = "error" /\ Len(seen) = Total(call)
    \/ o = "not_importable" /\ ~call.importable /\ seen = <<>>
    \/ o = "limit_refused" /\ seen = <<>>
    \/ o = "callback_raised" /\ seen # <<>>
    \/ o = "unreturnable" /\ call.end \in {"ok", "error"}
    \/ o \in {"resource_limit", "pipe_broken"} /\ call.importable

Finish ==
    /\ outcome = "none"
    /\ outcome' \in Outcomes
    /\ Allowed(outcome')
    /\ working' = FALSE
    /\ UNCHANGED <<call, seen>>

Next == Deliver \/ Work \/ Finish

Spec == Init /\ [][Next]_vars
=============================================================================
