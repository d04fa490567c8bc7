-------------------------------- MODULE Api --------------------------------
(***************************************************************************)
(* bankstract/_api.py, _progress.py (emit, progress_scope) and             *)
(* reconcile.reconcile_result: in-process calls of parse, convert, redact, *)
(* detect and reconcile_result, their progress scopes, the loops that emit *)
(* and what each failure surfaces as.  The offset of a stream is left out: *)
(* every reader rewinds its source before it reads it.                     *)
(*                                                                         *)
(* Threads run calls concurrently, each in its own context of the          *)
(* contextvar, or one call after another.                                  *)
(***************************************************************************)
EXTENDS Naturals, Sequences, FiniteSets

CONSTANTS
    Threads,         \* the threads that make calls
    MaxCalls,        \* bound on the calls of all threads together
    MaxPages,        \* bound on the pages of a source
    Requests,        \* the calls a thread may make, a subset of AllRequests
    NoCallback       \* the value None of the contextvar

Ops == {"detect", "parse", "convert", "redact", "reconcile_result"}

AllRequests == [op : Ops,
                auto : BOOLEAN,         \* bank is None
                callback : BOOLEAN,     \* progress_callback was given
                reconcile : BOOLEAN,    \* convert's flag
                xlsx : BOOLEAN,         \* the source is a workbook, not a PDF
                pages : 1..MaxPages]    \* pages of a PDF, sheets of a workbook

ASSUME RequestsAssumption == Requests \subseteq AllRequests
ASSUME BoundsAssumption == MaxCalls \in Nat /\ MaxPages \in Nat \ {0}
ASSUME ThreadsAssumption == IsFiniteSet(Threads)

Ids == Threads \X (1..MaxCalls)
ASSUME NoCallbackAssumption == NoCallback \notin Ids

VARIABLES
    req,             \* the call a thread is in
    calls,           \* how many calls a thread has begun
    pc,              \* where the call is
    page,            \* next page of the current loop
    slot,            \* the contextvar _callback, per context
    tokens,          \* reset tokens of the open progress scopes
    opened,          \* history: the worker has opened the source
    events,          \* what each call's callback received
    foreign,         \* history: callbacks that received another call's event
    named,           \* the result in hand says which bank it is of
    verified,        \* the checks passed for the result in hand
    fault,           \* the exception that unwinds the call
    outcome          \* how the last call of the thread ended

vars == <<req, calls, pc, page, slot, tokens, opened, events, foreign,
          named, verified, fault, outcome>>

Stages == {"detect", "open", "extract_page", "walk_page", "reconcile",
           "redact_page", "done"}

Kinds == {"parse", "value", "reconcile", "other"}
Fault(k, b) == [kind |-> k, bank |-> b]
NoFault == Fault("none", FALSE)
Faults == [kind : Kinds \cup {"none"}, bank : BOOLEAN]
Returned == [kind |-> "returned", bank |-> FALSE]

(* Every thread runs in a context of its own.                              *)
Contexts == Threads
Context(t) == t

Me(t) == <<t, calls[t]>>
Begun == {id \in Ids : id[2] <= calls[id[1]]}

-----------------------------------------------------------------------------
(* Sources.                                                                *)

(* How many pages of a source are extracted, and how many may be walked: a *)
(* workbook is read whole, as one page of the walk.                        *)
Extracted(r) == IF r.xlsx THEN 0 ELSE r.pages
Walked(r) == IF r.xlsx THEN 1 ELSE r.pages

(* The pages after which a loop may end.  The walk of an OPay statement is *)
(* over where the section of the main account is, on whichever page; every *)
(* other loop, the walks of the other banks too, takes all the pages.      *)
LastPages(r, stage) == IF stage = "walk_page" THEN 1..Walked(r) ELSE {r.pages}

-----------------------------------------------------------------------------
(* Exceptions.                                                             *)

WorkerSteps == {"open_source", "extract", "walk", "build", "redact"}

(* Mutation: `except ParseError` re-raises without the bank.               *)
SurfaceUnstamped(s, k, n) ==
    CASE s \in WorkerSteps /\ k = "value" -> Fault("parse", TRUE)
      [] s = "score" /\ k = "value" -> Fault("parse", FALSE)
      [] k = "reconcile" -> Fault("reconcile", n)
      [] OTHER -> Fault(k, FALSE)

(* What an exception of kind k surfaces as when it leaves the step s.  A   *)
(* ParseError that leaves the worker is stamped with the bank, and a       *)
(* ValueError becomes one; a ValueError of the detection becomes one too,  *)
(* with no bank to stamp; reconcile_result stamps the bank of its result,  *)
(* which may be None (~n).                                                 *)
Surface(s, k, n) ==
    CASE s \in WorkerSteps /\ k \in {"parse", "value"} -> Fault("parse", TRUE)
      [] s = "score" /\ k = "value" -> Fault("parse", FALSE)
      [] k = "reconcile" -> Fault("reconcile", n)
      [] OTHER -> Fault(k, FALSE)

GoTo(t, s) == pc' = [pc EXCEPT ![t] = s] /\ fault' = fault

Raise(t, k) ==
    /\ fault' = [fault EXCEPT ![t] = Surface(pc[t], k, named[t])]
    /\ pc' = [pc EXCEPT ![t] = "unwind"]

-----------------------------------------------------------------------------
(* progress_scope and emit.                                                *)

(* Entering a scope: a callback of None installs nothing.                  *)
EnterScope(t) ==
    IF req[t].callback
    THEN /\ tokens' = [tokens EXCEPT ![t] = Append(@, slot[Context(t)])]
         /\ slot' = [slot EXCEPT ![Context(t)] = Me(t)]
    ELSE UNCHANGED <<tokens, slot>>

(* Mutation: the finally is missing and a failed call leaves its callback. *)
ResetOnSuccess(t) ==
    IF tokens[t] # <<>> /\ pc[t] # "unwind"
    THEN /\ slot' = [slot EXCEPT ![Context(t)] = tokens[t][Len(tokens[t])]]
         /\ tokens' = [tokens EXCEPT ![t] = SubSeq(@, 1, Len(@) - 1)]
    ELSE UNCHANGED <<tokens, slot>>

(* finally: _callback.reset(token).                                        *)
ResetScope(t) ==
    IF tokens[t] # <<>>
    THEN /\ slot' = [slot EXCEPT ![Context(t)] = tokens[t][Len(tokens[t])]]
         /\ tokens' = [tokens EXCEPT ![t] = SubSeq(@, 1, Len(@) - 1)]
    ELSE UNCHANGED <<tokens, slot>>

(* emit(stage, ...), and then the step `next`.  The callback may raise     *)
(* whatever it likes into the code that emitted.                           *)
Emit(t, stage, next) ==
    LET id == slot[Context(t)] IN
    IF id = NoCallback
    THEN GoTo(t, next) /\ UNCHANGED <<events, foreign>>
    ELSE /\ events' = [events EXCEPT ![id] = Append(@, stage)]
         /\ foreign' = IF id = Me(t) THEN foreign ELSE foreign \cup {id}
         /\ GoTo(t, next) \/ \E k \in {"value", "other"} : Raise(t, k)

-----------------------------------------------------------------------------
Init ==
    /\ req \in [Threads -> {CHOOSE r \in AllRequests : TRUE}]
    /\ calls = [t \in Threads |-> 0]
    /\ pc = [t \in Threads |-> "idle"]
    /\ page = [t \in Threads |-> 1]
    /\ slot = [t \in Contexts |-> NoCallback]
    /\ tokens = [t \in Threads |-> <<>>]
    /\ opened = [t \in Threads |-> FALSE]
    /\ events = [i \in Ids |-> <<>>]
    /\ foreign = {}
    /\ named = [t \in Threads |-> FALSE]
    /\ verified = [t \in Threads |-> FALSE]
    /\ fault = [t \in Threads |-> NoFault]
    /\ outcome = [t \in Threads |-> NoFault]

(* A caller makes its next call.  A result that it built by hand, for      *)
(* reconcile_result to check, may name no bank.                            *)
Begin(t) ==
    /\ pc[t] = "idle" /\ Cardinality(Begun) < MaxCalls
    /\ \E r \in Requests, n \in BOOLEAN :
         /\ r.op = "detect" => r.auto /\ ~r.callback
         /\ n => r.op = "reconcile_result"
         /\ req' = [req EXCEPT ![t] = r]
         /\ named' = [named EXCEPT ![t] = n]
    /\ calls' = [calls EXCEPT ![t] = @ + 1]
    /\ pc' = [pc EXCEPT ![t] = "enter"]
    /\ page' = [page EXCEPT ![t] = 1]
    /\ opened' = [opened EXCEPT ![t] = FALSE]
    /\ verified' = [verified EXCEPT ![t] = FALSE]
    /\ fault' = [fault EXCEPT ![t] = NoFault]
    /\ outcome' = [outcome EXCEPT ![t] = NoFault]
    /\ UNCHANGED <<slot, tokens, events, foreign>>

(* The entry points.  convert refuses an unknown format before its scope;  *)
(* detect() opens none.                                                    *)
Enter(t) ==
    /\ pc[t] = "enter"
    /\ \/ /\ EnterScope(t)
          /\ GoTo(t, CASE req[t].op = "reconcile_result" -> "checks"
                       [] req[t].op = "detect" -> "detect_only"
                       [] OTHER -> IF req[t].auto THEN "score" ELSE "lookup")
       \/ req[t].op = "convert" /\ Raise(t, "value") /\ UNCHANGED <<slot, tokens>>
    /\ UNCHANGED <<req, calls, page, opened, events, foreign, named, verified, outcome>>

(* _detect: every bank scores the source and the best positive score wins. *)
(* An encrypted source raises a ParseError, a format nobody knows a        *)
(* ValueError; no positive score is a ParseError.                          *)
Score(t) ==
    /\ pc[t] = "score"
    /\ GoTo(t, "lookup") \/ \E k \in {"parse", "value", "other"} : Raise(t, k)
    /\ UNCHANGED <<req, calls, page, slot, tokens, opened, events, foreign,
                   named, verified, outcome>>

(* detect(): the name or None, with nothing wrapped.                       *)
DetectOnly(t) ==
    /\ pc[t] = "detect_only"
    /\ GoTo(t, "return") \/ \E k \in {"parse", "value", "other"} : Raise(t, k)
    /\ UNCHANGED <<req, calls, page, slot, tokens, opened, events, foreign,
                   named, verified, outcome>>

(* registry_lookup: a KeyError for a bank nobody registered.               *)
Lookup(t) ==
    /\ pc[t] = "lookup"
    /\ GoTo(t, "emit_detect") \/ (~req[t].auto /\ Raise(t, "other"))
    /\ UNCHANGED <<req, calls, page, slot, tokens, opened, events, foreign,
                   named, verified, outcome>>

EmitDetect(t) ==
    /\ pc[t] = "emit_detect"
    /\ Emit(t, "detect", "emit_open")
    /\ UNCHANGED <<req, calls, page, slot, tokens, opened, named, verified, outcome>>

(* rewind(src), emit("open", 1, 1), and only then the worker.              *)
EmitOpen(t) ==
    /\ pc[t] = "emit_open"
    /\ Emit(t, "open", "open_source")
    /\ UNCHANGED <<req, calls, page, slot, tokens, opened, named, verified, outcome>>

(* The parser or the redactor opens the document.  A workbook is read      *)
(* whole at once.                                                          *)
OpenSource(t) ==
    /\ pc[t] = "open_source"
    /\ \/ /\ GoTo(t, IF req[t].op = "redact" THEN "redact"
                     ELSE IF req[t].xlsx THEN "walk" ELSE "extract")
          /\ opened' = [opened EXCEPT ![t] = TRUE]
       \/ (\E k \in {"parse", "value", "other"} : Raise(t, k)) /\ UNCHANGED opened
    /\ UNCHANGED <<req, calls, page, slot, tokens, events, foreign, named, verified, outcome>>

(* Mutation: the loop runs over one page too many.                         *)
PageLoopOverrun(t, here, stage, next) ==
    /\ pc[t] = here
    /\ \/ Emit(t, stage, here) /\ page[t] <= req[t].pages /\ page' = [page EXCEPT ![t] = @ + 1]
       \/ /\ Emit(t, stage, next) /\ page[t] - 1 \in LastPages(req[t], stage)
          /\ page' = [page EXCEPT ![t] = 1]
       \/ /\ \E k \in {"parse", "value", "other"} : Raise(t, k)
          /\ UNCHANGED <<page, events, foreign>>
    /\ UNCHANGED <<req, calls, slot, tokens, opened, named, verified, outcome>>

(* One page of a page loop that emits `stage`; after the last one, `next`. *)
PageLoop(t, here, stage, next) ==
    /\ pc[t] = here
    /\ \/ /\ Emit(t, stage, here) /\ page[t] < req[t].pages
          /\ stage = "walk_page" => page[t] < Walked(req[t])
          /\ page' = [page EXCEPT ![t] = @ + 1]
       \/ /\ Emit(t, stage, next) /\ page[t] \in LastPages(req[t], stage)
          /\ page' = [page EXCEPT ![t] = 1]
       \/ /\ \E k \in {"parse", "value", "other"} : Raise(t, k)
          /\ UNCHANGED <<page, events, foreign>>
    /\ UNCHANGED <<req, calls, slot, tokens, opened, named, verified, outcome>>

ExtractPage(t) == PageLoop(t, "extract", "extract_page", "walk")
WalkPage(t) == PageLoop(t, "walk", "walk_page", "build")
RedactPage(t) == PageLoop(t, "redact", "redact_page", "leave")

(* What a parser does beside its walk, and parse() after it: the text of   *)
(* the header is read, a walk that found no transaction is an error, and   *)
(* the result is stamped with the bank.                                    *)
BuildResult(t) ==
    /\ pc[t] = "build"
    /\ \/ /\ GoTo(t, IF req[t].op # "convert" THEN "leave"
                     ELSE IF req[t].reconcile THEN "checks" ELSE "serialize")
          /\ named' = [named EXCEPT ![t] = TRUE]
       \/ (\E k \in {"parse", "value", "other"} : Raise(t, k)) /\ UNCHANGED named
    /\ UNCHANGED <<req, calls, page, slot, tokens, opened, events, foreign, verified, outcome>>

(* Mutation: `reconcile` is emitted before the checks run.                 *)
ChecksEmitFirst(t) ==
    /\ pc[t] = "checks"
    /\ Emit(t, "reconcile", IF req[t].op = "convert" THEN "serialize" ELSE "leave")
    /\ UNCHANGED <<req, calls, page, slot, tokens, opened, named, verified, outcome>>

(* reconcile_result: convert calls it with no callback of its own.         *)
Checks(t) ==
    /\ pc[t] = "checks"
    /\ \/ /\ Emit(t, "reconcile", IF req[t].op = "convert" THEN "serialize" ELSE "leave")
          /\ verified' = [verified EXCEPT ![t] = TRUE]
       \/ Raise(t, "reconcile") /\ UNCHANGED <<events, foreign, verified>>
    /\ UNCHANGED <<req, calls, page, slot, tokens, opened, named, outcome>>

Serialize(t) ==
    /\ pc[t] = "serialize"
    /\ GoTo(t, "leave")
    /\ UNCHANGED <<req, calls, page, slot, tokens, opened, events, foreign,
                   named, verified, outcome>>

(* The scope exits cleanly: `done`, if this call installed the scope.      *)
Leave(t) ==
    /\ pc[t] = "leave"
    /\ IF req[t].callback
       THEN Emit(t, "done", "return")
       ELSE GoTo(t, "return") /\ UNCHANGED <<events, foreign>>
    /\ UNCHANGED <<req, calls, page, slot, tokens, opened, named, verified, outcome>>

(* Mutation: `done` fires in the finally, whatever happened.               *)
UnwindWithDone(t) ==
    /\ pc[t] = "unwind"
    /\ LET id == slot[Context(t)] IN
       events' = IF id = NoCallback THEN events
                 ELSE [events EXCEPT ![id] = Append(@, "done")]
    /\ ResetScope(t)
    /\ outcome' = [outcome EXCEPT ![t] = fault[t]]
    /\ pc' = [pc EXCEPT ![t] = "idle"]
    /\ UNCHANGED <<req, calls, page, opened, foreign, named, verified, fault>>

(* An exception leaves the call through the finally of the scope.          *)
Unwind(t) ==
    /\ pc[t] = "unwind"
    /\ ResetScope(t)
    /\ outcome' = [outcome EXCEPT ![t] = fault[t]]
    /\ pc' = [pc EXCEPT ![t] = "idle"]
    /\ UNCHANGED <<req, calls, page, opened, events, foreign, named, verified, fault>>

Return(t) ==
    /\ pc[t] = "return"
    /\ ResetScope(t)
    /\ outcome' = [outcome EXCEPT ![t] = Returned]
    /\ pc' = [pc EXCEPT ![t] = "idle"]
    /\ UNCHANGED <<req, calls, page, opened, events, foreign, named, verified, fault>>

Finished ==
    /\ Cardinality(Begun) = MaxCalls
    /\ \A t \in Threads : pc[t] = "idle"
    /\ UNCHANGED vars

Next == \/ \E t \in Threads :
             \/ Begin(t) \/ Enter(t) \/ Score(t) \/ DetectOnly(t) \/ Lookup(t)
             \/ EmitDetect(t) \/ EmitOpen(t) \/ OpenSource(t)
             \/ ExtractPage(t) \/ WalkPage(t) \/ BuildResult(t) \/ RedactPage(t)
             \/ Checks(t) \/ Serialize(t) \/ Leave(t) \/ Unwind(t) \/ Return(t)
        \/ Finished

Spec == Init /\ [][Next]_vars

-----------------------------------------------------------------------------
Count(stage, s) == Cardinality({i \in DOMAIN s : s[i] = stage})
Fires(stage, s) == \E i \in DOMAIN s : s[i] = stage

Places == {"idle", "enter", "detect_only", "score", "lookup", "emit_detect", "emit_open",
           "open_source", "extract", "walk", "build", "redact", "checks", "serialize",
           "leave", "return", "unwind"}

TypeOK ==
    /\ req \in [Threads -> AllRequests]
    /\ calls \in [Threads -> 0..MaxCalls]
    /\ pc \in [Threads -> Places]
    /\ page \in [Threads -> 1..MaxPages]
    /\ slot \in [Contexts -> Ids \cup {NoCallback}]
    /\ tokens \in [Threads -> Seq(Ids \cup {NoCallback})]
    /\ opened \in [Threads -> BOOLEAN]
    /\ named \in [Threads -> BOOLEAN]
    /\ verified \in [Threads -> BOOLEAN]
    /\ events \in [Ids -> Seq(Stages)]
    /\ foreign \in SUBSET Ids
    /\ fault \in [Threads -> Faults]
    /\ outcome \in [Threads -> Faults \cup {Returned}]

(* A callback receives the events of its own call only, whatever other     *)
(* threads do and whatever the calls before it left behind ("concurrent    *)
(* calls don't cross-contaminate", _progress.py): between calls none is    *)
(* installed, a call that failed, or whose callback raised, included       *)
(* (progress_scope: "Resets on exit (success or exception)").              *)
OwnEvents ==
    /\ foreign = {}
    /\ \A t \in Threads : pc[t] = "idle" => tokens[t] = <<>> /\ slot[t] = NoCallback

Rank == [detect |-> 1, open |-> 2, extract_page |-> 3, walk_page |-> 4,
         redact_page |-> 4, reconcile |-> 5, done |-> 6]

(* The events of a call that went through tell the whole of it.            *)
WholeCall(r, s) ==
    /\ r.op \in {"parse", "convert"} => Count("walk_page", s) \in 1..Walked(r)
    /\ r.op = "redact" => Count("redact_page", s) = r.pages

(* The stages come in the documented order and the page stages once per    *)
(* page.  The walk begins when every page of a PDF has been extracted, and *)
(* no page of a workbook is.  `done` ends the events of a call that        *)
(* returned with a callback, is preceded by the page events it promises    *)
(* (redact_page x N, walk_page up to the end of the section), and never    *)
(* follows a failure of the call's own (the table in _progress.py).        *)
StagesInOrder ==
    \A t \in Threads : calls[t] > 0 =>
        LET s == events[Me(t)] IN
        /\ \A i \in 1..(Len(s) - 1) : Rank[s[i]] <= Rank[s[i + 1]]
        /\ \A e \in {"detect", "open", "reconcile", "done"} : Count(e, s) <= 1
        /\ Fires("walk_page", s) => Count("extract_page", s) = Extracted(req[t])
        /\ Fires("done", s) => WholeCall(req[t], s)
        /\ outcome[t] = Returned /\ req[t].callback => Fires("done", s)
        /\ outcome[t].kind \in {"parse", "reconcile"} => ~Fires("done", s)

(* convert(reconcile=True) never returns bytes nobody checked, and the     *)
(* `reconcile` event is only seen for a result whose checks passed.        *)
NothingUnchecked ==
    \A t \in Threads : calls[t] > 0 =>
        /\ outcome[t] = Returned /\ req[t].op = "convert" /\ req[t].reconcile => verified[t]
        /\ Fires("reconcile", events[Me(t)]) => verified[t]

(* A ParseError raised once the parser is at work names the bank.  So does *)
(* a ReconciliationError of convert, whose result parse() has stamped, and *)
(* one of reconcile_result as far as the result does.                      *)
ErrorsNameTheBank ==
    \A t \in Threads :
        /\ outcome[t].kind = "parse" /\ opened[t] => outcome[t].bank
        /\ outcome[t].kind = "reconcile" /\ req[t].op = "convert" => outcome[t].bank
        /\ outcome[t].kind = "reconcile" => (outcome[t].bank <=> named[t])

(* Why these hold.  A call is in the one scope it opened or in none, and   *)
(* the contextvar is its own or nobody's.                                  *)
ScopeHeld ==
    \A t \in Threads :
        /\ pc[t] # "idle" => calls[t] > 0
        /\ pc[t] \in {"idle", "enter"} => tokens[t] = <<>>
        /\ pc[t] \notin {"idle", "enter", "unwind"} /\ req[t].callback => tokens[t] # <<>>
        /\ \/ tokens[t] = <<>> /\ slot[Context(t)] = NoCallback
           \/ tokens[t] = <<NoCallback>> /\ slot[Context(t)] = Me(t) /\ req[t].callback

(* Nobody hears of a call that has not begun.                              *)
NothingEarly == \A id \in Ids : calls[id[1]] < id[2] => events[id] = <<>>

(* A call takes the way of its op: it opens the source before the worker   *)
(* runs, comes to its end checked if it has to be, and an exception on its *)
(* way out names what it must.                                             *)
OnItsWay ==
    \A t \in Threads :
        /\ pc[t] # "idle" => outcome[t] = NoFault
        /\ req[t].op = "detect" /\ pc[t] # "idle" => ~req[t].callback
        /\ pc[t] \in {"enter", "detect_only", "score", "lookup", "emit_detect", "emit_open", "open_source"} =>
             ~opened[t]
        /\ pc[t] = "detect_only" => req[t].op = "detect"
        /\ pc[t] = "redact" => req[t].op = "redact"
        /\ pc[t] \in {"extract", "walk", "build"} => req[t].op # "redact"
        /\ pc[t] = "checks" /\ req[t].op = "convert" => named[t]
        /\ pc[t] \in {"serialize", "leave", "return"} /\ req[t].op = "convert" /\ req[t].reconcile =>
             verified[t]
        /\ pc[t] = "unwind" =>
             /\ fault[t] # Returned
             /\ fault[t].kind = "parse" /\ opened[t] => fault[t].bank
             /\ fault[t].kind = "reconcile" /\ req[t].op = "convert" => fault[t].bank
             /\ fault[t].kind = "reconcile" => (fault[t].bank <=> named[t])

(* What a call that wants events has heard when it comes to a place.       *)
Highest(at) ==
    CASE at \in {"enter", "detect_only", "score", "lookup", "emit_detect"} -> 0
      [] at = "emit_open" -> 1
      [] at = "open_source" -> 2
      [] at = "extract" -> 3
      [] at \in {"walk", "build", "redact", "checks"} -> 4
      [] at \in {"serialize", "leave"} -> 5
      [] OTHER -> 6

Due(r, at, next, s) ==
    /\ at = "extract" => ~r.xlsx /\ Count("extract_page", s) = next - 1
    /\ at = "walk" => Count("extract_page", s) = Extracted(r) /\ Count("walk_page", s) = next - 1
    /\ at = "build" => Count("walk_page", s) \in 1..Walked(r)
    /\ at = "redact" => Count("redact_page", s) = next - 1
    /\ at \in {"checks", "serialize", "leave", "return"} => WholeCall(r, s)
    /\ at = "return" => Fires("done", s)

Said(r, at, next, s) ==
    /\ \A i \in DOMAIN s : Rank[s[i]] <= Highest(at)
    /\ \A i \in 1..(Len(s) - 1) : Rank[s[i]] <= Rank[s[i + 1]]
    /\ \A e \in {"detect", "open", "reconcile", "done"} : Count(e, s) <= 1
    /\ Fires("walk_page", s) => Count("extract_page", s) = Extracted(r)
    /\ Fires("done", s) => WholeCall(r, s)
    /\ r.callback => Due(r, at, next, s)

EventsSoFar ==
    \A t \in Threads : calls[t] > 0 =>
        /\ Said(req[t], pc[t], page[t], events[Me(t)])
        /\ page[t] <= req[t].pages
        /\ pc[t] \notin {"extract", "walk", "redact", "unwind", "idle"} => page[t] = 1
        /\ pc[t] = "unwind" /\ fault[t].kind \in {"parse", "reconcile"} => ~Fires("done", events[Me(t)])
=============================================================================
