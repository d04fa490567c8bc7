------------------------------ MODULE Isolate ------------------------------
(***************************************************************************)
(* bankstract/_isolate.py: one call in a child process that streams its    *)
(* progress events and one outcome up a pipe, and a parent that reads them *)
(* against a deadline and kills the child on every way out.                *)
(*                                                                         *)
(* The pipe is a bounded sequence of parts.  A progress event and a small  *)
(* outcome are one atomic write; a large outcome is a header, some body    *)
(* bytes and the rest, and the child can die between any two of them.      *)
(***************************************************************************)
EXTENDS Naturals, Sequences

CONSTANTS
    MaxEvents,       \* bound on the events a call fires before `done`
    PipeSize         \* parts the pipe holds before a write blocks

ASSUME MaxEventsAssumption == MaxEvents \in Nat
ASSUME PipeSizeAssumption == PipeSize \in Nat \ {0}

VARIABLES
    call,            \* the call of func as it would behave in process
    cpc,             \* where the child is in _child
    sent,            \* numbered events the child has handed to conn.send
    reply,           \* the `outcome` of _child, "none" until assigned
    outgoing,        \* parts of the current message not yet written
    pipe,            \* parts written and not yet read
    writers,         \* the processes that hold the write end open
    killed,          \* proc.kill() was called on a live child
    fate,            \* history: what befell the child
    ppc,             \* where the parent is in run_isolated
    expired,         \* time.monotonic() passed `deadline`
    got,             \* number of the event being delivered, 0 for a repeat
    delivered,       \* history: numbered events handed to on_progress
    verdict,         \* what run_isolated returns or raises after its finally
    result           \* what the caller got

childVars == <<cpc, sent, reply, outgoing>>
parentVars == <<ppc, expired, got, delivered, verdict, result>>
vars == <<call, childVars, pipe, writers, killed, fate, parentVars>>

Promise == INSTANCE IsolatedCall WITH
    seen <- delivered,
    outcome <- result,
    working <- cpc \notin {"unborn", "exited"} /\ ~killed

(* Mutation: the inner call installs a scope too, so `done` fires twice.    *)
TotalDoneTwice(c) == IF ~c.forward THEN 0
                     ELSE IF c.end = "ok" THEN c.events + 2 ELSE c.events

(* The events a call forwards: its own, and one `done` if it ends well.    *)
Total(c) == IF ~c.forward THEN 0
            ELSE IF c.end = "ok" THEN c.events + 1 ELSE c.events

-----------------------------------------------------------------------------
(* Messages.  Event 0 stands for every repeat of a call that never stops   *)
(* firing: repeats carry nothing the properties tell apart.                *)

Event(k) == [what |-> "progress", n |-> k, part |-> "whole"]
Part(w, p) == [what |-> w, n |-> 0, part |-> p]

Replies == {"ok", "error", "memory", "limit_refused", "unreturnable", "broken"}

Parts == [what : {"progress"} \cup Replies, n : 0..(MaxEvents + 1),
          part : {"whole", "header", "huge_header", "body", "tail"}]

(* conn.send writes a message of at most PIPE_BUF bytes in one piece, and  *)
(* a longer one as a 4-byte header and then the body, as the pipe drains.  *)
(* Only the call's own value can be that long.                             *)
Message(w) ==
    IF w # "ok" \/ call.weight = "small" THEN <<Part(w, "whole")>>
    ELSE <<Part(w, IF call.weight = "huge" THEN "huge_header" ELSE "header"),
           Part(w, "body"), Part(w, "tail")>>

(* Mutation: the isinstance(value, MemoryError) test is dropped.            *)
VerdictOfRaw(w) ==
    CASE w = "ok" -> "value"
      [] w \in {"error", "memory", "broken"} -> "raised"
      [] w = "limit_refused" -> "limit_refused"
      [] w = "unreturnable" -> "unreturnable"

(* What run_isolated does with each outcome message.                       *)
VerdictOf(w) ==
    CASE w = "ok" -> "value"
      [] w = "memory" -> "resource_limit"
      [] w \in {"error", "broken"} -> "raised"
      [] w = "limit_refused" -> "limit_refused"
      [] w = "unreturnable" -> "unreturnable"

ReaderOpen == ppc \in {"started", "await", "reading", "reading_body", "deliver"}
ChildRuns == cpc \notin {"unborn", "exited"} /\ ~killed
(* Mutation: a closed write end is taken for the end of the data.          *)
AtEofUndrained == writers = {}

AtEof == pipe = <<>> /\ writers = {}

-----------------------------------------------------------------------------
Init ==
    /\ call \in Promise!Calls
    /\ cpc = "unborn" /\ sent = 0 /\ reply = "none" /\ outgoing = <<>>
    /\ pipe = <<>> /\ writers = {"parent"}
    /\ killed = FALSE /\ fate = "fine"
    /\ ppc = "call" /\ expired = FALSE /\ got = 0 /\ delivered = <<>>
    /\ verdict = "none" /\ result = "none"

-----------------------------------------------------------------------------
(* The child.                                                              *)

(* _apply_memory_limit, inside the try: on Linux a refusal is an outcome.  *)
ApplyLimit ==
    /\ ChildRuns /\ cpc = "boot"
    /\ \/ cpc' = "run" /\ reply' = reply
       \/ cpc' = "send" /\ reply' = "limit_refused"
    /\ UNCHANGED <<call, sent, outgoing, pipe, writers, killed, fate, parentVars>>

(* func fires an event, or progress_scope fires `done` after it returned.  *)
(* Without on_progress no scope is installed and emit() does nothing.      *)
SendEvent ==
    /\ ChildRuns /\ cpc = "run" /\ call.forward
    /\ \/ sent < Total(call) /\ sent' = sent + 1 /\ outgoing' = <<Event(sent + 1)>>
       \/ /\ sent = Total(call) /\ sent > 0 /\ call.end = "forever"
          /\ outgoing' = <<Event(0)>> /\ sent' = sent
    /\ cpc' = "event"
    /\ UNCHANGED <<call, reply, pipe, writers, killed, fate, parentVars>>

(* Mutation: the outcome is sent from inside the scope, ahead of `done`.    *)
CallEndsBeforeDone ==
    /\ ChildRuns /\ cpc = "run"
    /\ (IF call.forward THEN sent = call.events ELSE sent = 0) /\ call.end # "forever"
    /\ cpc' = "send" /\ reply' = call.end
    /\ fate' = IF call.end = "memory" THEN "ran_out" ELSE fate
    /\ UNCHANGED <<call, sent, outgoing, pipe, writers, killed, parentVars>>

(* the call of func returned or raised, `done` included.                        *)
CallEnds ==
    /\ ChildRuns /\ cpc = "run"
    /\ sent = Total(call) /\ call.end # "forever"
    /\ cpc' = "send" /\ reply' = call.end
    /\ fate' = IF call.end = "memory" THEN "ran_out" ELSE fate
    /\ UNCHANGED <<call, sent, outgoing, pipe, writers, killed, parentVars>>

(* conn.send(outcome): pickled whole before the first byte is written.     *)
(* What will not pickle, or does not fit in what is left of the memory     *)
(* limit, raises an Exception and takes the fallback.                      *)
PickleReply ==
    /\ ChildRuns /\ cpc = "send"
    /\ \/ /\ ~(reply \in {"ok", "error"} /\ call.weight = "unpicklable")
          /\ outgoing' = Message(reply) /\ cpc' = "reply" /\ fate' = fate
       \/ /\ reply \in {"ok", "error"} /\ call.weight = "unpicklable"
          /\ cpc' = "fallback" /\ UNCHANGED <<outgoing, fate>>
       \/ /\ reply = "ok" /\ call.weight \in {"large", "huge"}
          /\ cpc' = "fallback" /\ fate' = "ran_out" /\ outgoing' = outgoing
    /\ UNCHANGED <<call, sent, reply, pipe, writers, killed, parentVars>>

(* The RuntimeError that stands in for what could not be sent.             *)
PickleFallback ==
    /\ ChildRuns /\ cpc = "fallback"
    /\ reply' = "unreturnable"
    /\ outgoing' = Message("unreturnable") /\ cpc' = "last_reply"
    /\ UNCHANGED <<call, sent, pipe, writers, killed, fate, parentVars>>

(* One write(): it blocks while the pipe is full.                          *)
WritePart ==
    /\ ChildRuns /\ outgoing # <<>> /\ ReaderOpen
    /\ Len(pipe) < PipeSize
    /\ pipe' = Append(pipe, Head(outgoing)) /\ outgoing' = Tail(outgoing)
    /\ cpc' = IF cpc = "event" THEN "run" ELSE cpc
    /\ UNCHANGED <<call, sent, reply, writers, killed, fate, parentVars>>

(* A write into a pipe whose reader is closed raises BrokenPipeError: out  *)
(* of emit() and so out of func, or out of conn.send.                      *)
WriteFails ==
    /\ ChildRuns /\ outgoing # <<>> /\ ~ReaderOpen
    /\ outgoing' = <<>>
    /\ \/ cpc = "event" /\ cpc' = "send" /\ reply' = "broken"
       \/ cpc = "reply" /\ cpc' = "fallback" /\ reply' = reply
       \/ cpc = "last_reply" /\ cpc' = "closing" /\ reply' = reply
    /\ UNCHANGED <<call, sent, pipe, writers, killed, fate, parentVars>>

(* finally: conn.close().                                                  *)
ChildCloses ==
    /\ ChildRuns
    /\ cpc = "closing" \/ (cpc \in {"reply", "last_reply"} /\ outgoing = <<>>)
    /\ cpc' = "closed" /\ writers' = writers \ {"child"}
    /\ UNCHANGED <<call, sent, reply, outgoing, pipe, killed, fate, parentVars>>

ChildExits ==
    /\ ChildRuns /\ cpc = "closed"
    /\ cpc' = "exited"
    /\ UNCHANGED <<call, sent, reply, outgoing, pipe, writers, killed, fate, parentVars>>

(* A segfault in mupdf, the OOM killer, os._exit, an unguarded main script: *)
(* the child is gone and the kernel closes its end.                        *)
Crash ==
    /\ ChildRuns /\ cpc # "closed"
    /\ cpc' = "exited" /\ writers' = writers \ {"child"}
    /\ fate' = IF cpc \in {"reply", "last_reply"} /\ outgoing = <<>> THEN fate ELSE "died"
    /\ UNCHANGED <<call, sent, reply, outgoing, pipe, killed, parentVars>>

(* SIGKILL takes effect.                                                   *)
KilledDies ==
    /\ killed /\ cpc # "exited"
    /\ cpc' = "exited" /\ writers' = writers \ {"child"}
    /\ UNCHANGED <<call, sent, reply, outgoing, pipe, killed, fate, parentVars>>

-----------------------------------------------------------------------------
(* The parent.                                                             *)

(* _check_main_importable, before anything starts.                         *)
CheckMain ==
    /\ ppc = "call"
    /\ \/ call.importable /\ ppc' = "start" /\ result' = result
       \/ ~call.importable /\ ppc' = "done" /\ result' = "not_importable"
    /\ UNCHANGED <<call, childVars, pipe, writers, killed, fate,
                   expired, got, delivered, verdict>>

(* proc.start(): the child inherits its own copy of the write end.         *)
Start ==
    /\ ppc = "start"
    /\ cpc' = "boot" /\ writers' = writers \cup {"child"} /\ ppc' = "started"
    /\ UNCHANGED <<call, sent, reply, outgoing, pipe, killed, fate,
                   expired, got, delivered, verdict, result>>

(* sender.close(): from here the child holds the only write end.           *)
CloseSender ==
    /\ ppc = "started"
    /\ writers' = writers \ {"parent"} /\ ppc' = "await"
    /\ UNCHANGED <<call, childVars, pipe, killed, fate,
                   expired, got, delivered, verdict, result>>

(* time.monotonic() reaches the deadline, set just before proc.start().    *)
DeadlinePasses ==
    /\ ppc \notin {"call", "done"} /\ ~expired
    /\ expired' = TRUE
    /\ UNCHANGED <<call, childVars, pipe, writers, killed, fate,
                   ppc, got, delivered, verdict, result>>

Conclude(v) == verdict' = v /\ ppc' = "cleanup" /\ got' = got

(* Mutation: the deadline is left to poll(), which is true on a full pipe. *)
MayReadLate == (ppc = "await" /\ (~expired \/ pipe # <<>>))
               \/ ppc \in {"reading", "reading_body"}

(* A read begins only before the deadline; once it began it has none.      *)
MayRead == (ppc = "await" /\ ~expired) \/ ppc \in {"reading", "reading_body"}

(* remaining <= 0 or not poll(remaining).                                  *)
TimeOut ==
    /\ ppc = "await" /\ expired /\ ~MayRead
    /\ Conclude("resource_limit")
    /\ UNCHANGED <<call, childVars, pipe, writers, killed, fate,
                   expired, delivered, result>>

(* recv_bytes(_MAX_MESSAGE) takes what the pipe holds, and run_isolated    *)
(* acts on a message once it is whole.                                     *)
ReadPart ==
    /\ MayRead /\ pipe # <<>>
    /\ pipe' = Tail(pipe)
    /\ LET p == Head(pipe) IN
       \/ /\ p.part = "header" /\ ppc' = "reading" /\ UNCHANGED <<got, verdict>>
       \/ /\ p.part = "huge_header" /\ Conclude("resource_limit")
       \/ /\ p.part = "body" /\ ppc' = "reading_body" /\ UNCHANGED <<got, verdict>>
       \/ /\ p.part \in {"whole", "tail"} /\ p.what = "progress"
          /\ ppc' = "deliver" /\ got' = p.n /\ verdict' = verdict
       \/ /\ p.part \in {"whole", "tail"} /\ p.what # "progress"
          /\ Conclude(VerdictOf(p.what))
    /\ UNCHANGED <<call, childVars, writers, killed, fate, expired, delivered, result>>

(* End of file: EOFError before the first body byte, and an OSError that   *)
(* says "got end of file during message", re-raised, after it.             *)
ReadEof ==
    /\ MayRead /\ AtEof
    /\ IF ppc = "reading_body" THEN Conclude("pipe_broken") ELSE Conclude("resource_limit")
    /\ UNCHANGED <<call, childVars, pipe, writers, killed, fate,
                   expired, delivered, result>>

(* deliver(value): the callback sees the event, and may raise.             *)
Deliver ==
    /\ ppc = "deliver"
    /\ delivered' = IF got = 0 THEN delivered ELSE Append(delivered, got)
    /\ \/ ppc' = "await" /\ UNCHANGED <<got, verdict>>
       \/ Conclude("callback_raised")
    /\ UNCHANGED <<call, childVars, pipe, writers, killed, fate, expired, result>>

(* finally: receiver.close(), whatever was unread is lost.                 *)
CloseReceiver ==
    /\ ppc = "cleanup"
    /\ ppc' = "kill" /\ pipe' = <<>>
    /\ UNCHANGED <<call, childVars, writers, killed, fate,
                   expired, got, delivered, verdict, result>>

(* Mutation: only a timed out child is killed.                             *)
KillIfExpired ==
    /\ ppc = "kill"
    /\ killed' = (cpc # "exited" /\ expired) /\ ppc' = "join"
    /\ UNCHANGED <<call, childVars, pipe, writers, fate,
                   expired, got, delivered, verdict, result>>

(* finally: if proc.is_alive(): proc.kill().                               *)
KillIfAlive ==
    /\ ppc = "kill"
    /\ killed' = (cpc # "exited") /\ ppc' = "join"
    /\ UNCHANGED <<call, childVars, pipe, writers, fate,
                   expired, got, delivered, verdict, result>>

(* finally: proc.join(5), which gives up on a child stuck in the kernel,   *)
(* and then the outcome of the call.                                       *)
Join ==
    /\ ppc = "join"
    /\ ppc' = "done" /\ result' = verdict
    /\ UNCHANGED <<call, childVars, pipe, writers, killed, fate,
                   expired, got, delivered, verdict>>

(* Everything is over: the caller has its outcome and no child is left.    *)
Over ==
    /\ ppc = "done" /\ cpc \in {"unborn", "exited"}
    /\ UNCHANGED vars

-----------------------------------------------------------------------------
Child == \/ ApplyLimit \/ SendEvent \/ CallEnds \/ PickleReply \/ PickleFallback
         \/ WritePart \/ WriteFails \/ ChildCloses \/ ChildExits

Parent == \/ CheckMain \/ Start \/ CloseSender \/ TimeOut \/ ReadPart \/ ReadEof
          \/ Deliver \/ CloseReceiver \/ KillIfAlive \/ Join

Next == Child \/ Crash \/ KilledDies \/ Parent \/ DeadlinePasses \/ Over

Spec == Init /\ [][Next]_vars

(* The parent is not suspended and its callback returns.                   *)
FairSpec == Spec /\ WF_vars(Parent)

(* The clock runs, and a child that began a write goes on with it or dies. *)
(* Nothing is assumed of a child that computes: it may hang.               *)
ClockRuns == WF_vars(DeadlinePasses) /\ WF_vars(WritePart)

-----------------------------------------------------------------------------
TypeOK ==
    /\ call \in Promise!Calls
    /\ cpc \in {"unborn", "boot", "run", "event", "send", "reply", "fallback",
               "last_reply", "closing", "closed", "exited"}
    /\ sent \in 0..(MaxEvents + 1)
    /\ reply \in Replies \cup {"none", "forever"}
    /\ outgoing \in Seq(Parts) /\ Len(outgoing) <= 3
    /\ pipe \in Seq(Parts) /\ Len(pipe) <= PipeSize
    /\ writers \in SUBSET {"parent", "child"}
    /\ killed \in BOOLEAN
    /\ fate \in {"fine", "died", "ran_out"}
    /\ ppc \in {"call", "start", "started", "await", "reading", "reading_body",
               "deliver", "cleanup", "kill", "join", "done"}
    /\ expired \in BOOLEAN
    /\ got \in 0..(MaxEvents + 1)
    /\ delivered \in Seq(1..(MaxEvents + 1))
    /\ verdict \in Promise!Outcomes \cup {"none"}
    /\ result \in Promise!Outcomes \cup {"none"}

(* on_progress sees the call's own events in order, none skipped and none  *)
(* twice, and a value is returned only for a call that ended well and      *)
(* after every event of it, `done` included (docstring of run_isolated,    *)
(* README: "in order, as they happen").                                    *)
Faithful ==
    /\ \A i \in DOMAIN delivered : delivered[i] = i
    /\ result = "value" => call.end = "ok" /\ Len(delivered) = Total(call)
    /\ result = "raised" => call.end = "error" /\ Len(delivered) = Total(call)

(* Why Faithful holds.  Written counts the numbered events that reached    *)
(* the pipe, Taken those that left it.                                     *)
Numbered(parts) == \E i \in DOMAIN parts : parts[i].n # 0
Written == IF Numbered(outgoing) THEN sent - 1 ELSE sent
Taken == Len(delivered) + (IF ppc = "deliver" /\ got # 0 THEN 1 ELSE 0)

(* The child's reply comes after its events and says how the call ended.   *)
ChildInOrder ==
    /\ ppc \in {"call", "start"} =>
         cpc = "unborn" /\ sent = 0 /\ reply = "none" /\ outgoing = <<>>
         /\ pipe = <<>> /\ delivered = <<>> /\ ~killed
    /\ cpc \in {"boot", "run", "event"} => reply = "none"
    /\ cpc \in {"send", "reply", "fallback", "last_reply"} => reply \in Replies
    /\ cpc \notin {"event", "reply", "last_reply", "exited"} => outgoing = <<>>
    /\ cpc = "event" => \/ outgoing = <<Event(sent)>> /\ sent > 0
                        \/ outgoing = <<Event(0)>> /\ sent = Total(call)
    /\ reply \in {"ok", "error"} => reply = call.end /\ sent = Total(call)

(* While the parent listens the pipe holds every event written and not     *)
(* yet taken, first and in order, and after them only repeats and the      *)
(* reply; nothing but events before the child sends its reply, and no      *)
(* repeat before its last event.                                           *)
PipeInOrder ==
    ReaderOpen =>
        /\ Numbered(outgoing) => outgoing = <<Event(sent)>> /\ reply = "none"
        /\ Taken <= Written /\ Written <= Taken + Len(pipe)
        /\ reply = "none" /\ (sent < Total(call) \/ Numbered(outgoing)) =>
             Written = Taken + Len(pipe)
        /\ \A i \in DOMAIN pipe : i <= Written - Taken => pipe[i] = Event(Taken + i)
        /\ \A i \in DOMAIN pipe : i > Written - Taken => pipe[i].n = 0
        /\ \A i \in DOMAIN pipe : pipe[i].what # "progress" =>
             pipe[i].what = reply /\ cpc \in {"reply", "last_reply", "closed", "exited"}
        /\ \A i \in DOMAIN outgoing : outgoing[i].what # "progress" => outgoing[i].what = reply
        /\ reply # "broken"

(* The parent hands over the event it took and judges after the last one.  *)
ParentInOrder ==
    /\ \A i \in DOMAIN delivered : delivered[i] = i
    /\ ppc = "deliver" => got \in {0, Len(delivered) + 1}
    /\ verdict # "none" => ppc \in {"cleanup", "kill", "join", "done"}
    /\ verdict = "value" => call.end = "ok" /\ Len(delivered) = Total(call)
    /\ verdict = "raised" => call.end = "error" /\ Len(delivered) = Total(call)
    /\ result # "none" => ppc = "done" /\ result \in {verdict, "not_importable"}

StreamInOrder == ChildInOrder /\ PipeInOrder /\ ParentInOrder

(* Why StoppedForGood holds: before the start and past the kill no child   *)
(* runs, and the closed receiver has emptied the pipe for good.            *)
ChildStopped ==
    /\ ppc \in {"call", "start", "kill", "join", "done"} => pipe = <<>>
    /\ ppc \in {"call", "start", "join", "done"} => ~ChildRuns
    /\ cpc = "unborn" => ppc \in {"call", "start", "done"}
    /\ result # "none" => ppc = "done"

(* Why NoFalseAlarm holds: while the parent listens, a child that wrote    *)
(* its reply and is gone has left the end of it in the pipe, so that the   *)
(* end of file is seen only of a child that never answered.                *)
EndsReply(p) == p.part \in {"whole", "tail"} /\ p.what # "progress"
Answered == cpc \in {"closed", "exited"} \/ (cpc \in {"reply", "last_reply"} /\ outgoing = <<>>)

AnswerWaits ==
    /\ cpc \notin {"unborn", "closed", "exited"} => "child" \in writers
    /\ killed => ppc \in {"join", "done"}
    /\ reply = "memory" => fate # "fine"
    /\ ReaderOpen => cpc # "closing"
    /\ ReaderOpen /\ cpc \in {"reply", "last_reply"} /\ outgoing # <<>> =>
         EndsReply(outgoing[Len(outgoing)])
    /\ ReaderOpen /\ fate = "fine" /\ Answered => pipe # <<>> /\ EndsReply(pipe[Len(pipe)])
    /\ \A i \in DOMAIN outgoing : outgoing[i].part = "huge_header" => call.weight = "huge"
    /\ \A i \in DOMAIN pipe : pipe[i].part = "huge_header" => call.weight = "huge"
    /\ verdict = "resource_limit" => expired \/ fate # "fine" \/ call.weight = "huge"

(* Why Promised holds: what each verdict says of the call was so when the  *)
(* child said it, and no repeat comes before an event that counts.         *)
VerdictHonest ==
    /\ ppc \notin {"call", "done"} => call.importable
    /\ sent <= Total(call)
    /\ cpc = "boot" \/ reply = "limit_refused" => sent = 0
    /\ \A i \in DOMAIN outgoing : outgoing[i].what = "progress" => sent > 0
    /\ \A i \in DOMAIN pipe : pipe[i].what = "progress" => sent > 0
    /\ ppc = "deliver" /\ got = 0 => delivered # <<>>
    /\ ReaderOpen /\ cpc = "fallback" => reply \in {"ok", "error"}
    /\ ReaderOpen /\ reply = "unreturnable" => call.end \in {"ok", "error"}
    /\ ppc \in {"cleanup", "kill", "join"} => verdict # "none"
    /\ verdict # "not_importable"
    /\ verdict = "limit_refused" => delivered = <<>>
    /\ verdict = "callback_raised" => delivered # <<>>
    /\ verdict = "unreturnable" => call.end \in {"ok", "error"}

(* ResourceLimitError condemns the file ("Treat it as untrusted"), so it   *)
(* is raised only past the deadline, for a child that died without an      *)
(* outcome or ran out of memory, or for a message over the cap: never for  *)
(* a child that answered and exited before the parent looked.              *)
NoFalseAlarm ==
    result = "resource_limit" => expired \/ fate # "fine" \/ call.weight = "huge"

(* Once the caller has its outcome the child runs no more code: a callback *)
(* that raised, a timeout and a refused message all stop it (test          *)
(* "a callback that raises kills the worker").                             *)
StoppedForGood ==
    [][result # "none" => UNCHANGED <<sent, reply, outgoing, pipe>>]_vars

(* The child's stream, the kill and the deadline implement IsolatedCall.   *)
Promised == Promise!Spec

(* Every call ends, whatever the child does: it may hang, or fire events   *)
(* faster than they are handled for ever.  A child that dies ends it       *)
(* without the clock: the parent sees the end of the pipe.                 *)
Terminates ==
    /\ ClockRuns => <>(result # "none")
    /\ (fate = "died") ~> (result # "none")

(* run_isolated's docstring: "Raises `ResourceLimitError` when the child   *)
(* passes `timeout` seconds, runs out of memory or dies without a result." *)
(* A callback that raised on an earlier event has its own outcome.         *)
DeathIsResourceLimit ==
    result # "none" /\ fate = "died" => result \in {"resource_limit", "callback_raised"}
=============================================================================
