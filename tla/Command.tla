------------------------------ MODULE Command ------------------------------
(***************************************************************************)
(* bankstract/cli.py: one run of `bankstract <bank>`, `auto`, `inspect` or *)
(* `redact <bank>`, from its options to its exit code.  The library call   *)
(* in the middle is known by its promise: IsolatedCall where --isolate     *)
(* was given, and the same call with no worker and no deadline elsewhere.  *)
(* `list` and `redact list` print names and are left out.                  *)
(***************************************************************************)
EXTENDS Naturals, Sequences

CONSTANT
    MaxEvents        \* bound on the events of a library call before `done`

ASSUME CommandAssumption == MaxEvents \in Nat

(* `bar`: stderr is a terminal and --quiet was not given.  `severest`: of   *)
(* the signals inspect finds in this file, not on the command line.        *)
Requests == [name : {"bank", "auto", "inspect", "redact"}, isolate : BOOLEAN,
             timeout : BOOLEAN, stdin : BOOLEAN, output : {"-", "file"}, bar : BOOLEAN,
             severest : {"none", "warning", "error"}]

VARIABLES
    request,         \* the command line and the file, never written
    pc,
    exit,            \* the exit code, Running while there is none
    stdout,          \* what was written to stdout, in order
    buffer,          \* what stdout still holds back: "none", "part" or "all"
    file,            \* the output file: as it was, cut short, or complete
    line,            \* the line of the terminal: "fresh", or "bar"
    garbled,         \* history: a message was appended to the bar
    interrupted,     \* history: Ctrl-C, or a message that stderr did not take
    call, seen, outcome, working    \* of the library call under way

lib == <<call, seen, outcome, working>>
screen == <<stdout, buffer, line, garbled>>
vars == <<request, pc, exit, screen, file, interrupted, lib>>

Running == 256      \* not a code of a process

Library == INSTANCE IsolatedCall

Says(kind) == stdout' = Append(stdout, kind)
Message == garbled' = (garbled \/ line = "bar")

(* A traceback, a ClickException or sys.exit: something on stderr.         *)
Leave(code) == /\ exit' = code /\ pc' = "exiting" /\ Message
               /\ UNCHANGED <<request, stdout, buffer, line, file, interrupted, lib>>

Goto(next) == /\ pc' = next
              /\ UNCHANGED <<request, exit, screen, file, interrupted>>

-----------------------------------------------------------------------------
(* Mutation: only the conversion runs in the worker.                       *)
IsolatedConvertOnly == request.isolate /\ pc = "engine"

(* detect() reads the file too, so it has a worker of its own.             *)
Isolated == request.isolate

BarShown(next) == request.bar /\ next = "engine" /\ request.name # "inspect"

Call(next) ==
    /\ Goto(next)
    /\ \E c \in Library!Calls : c.forward = BarShown(next) /\ c.weight = "small" /\ call' = c
    /\ seen' = <<>> /\ outcome' = "none" /\ working' = FALSE

Init ==
    /\ request \in Requests
    /\ request.name # "inspect" => request.severest = "none"
    /\ pc = "options" /\ exit = Running /\ stdout = <<>> /\ buffer = "none" /\ file = "old"
    /\ line = "fresh" /\ garbled = FALSE /\ interrupted = FALSE
    /\ call \in {c \in Library!Calls : ~c.forward /\ c.events = 0 /\ c.end = "ok"
                                        /\ c.importable /\ c.weight = "small"}
    /\ seen = <<>> /\ outcome = "none" /\ working = FALSE

(* _timeout_for: a limit that nothing would enforce is refused.            *)
CheckOptions ==
    /\ pc = "options"
    /\ IF request.timeout /\ ~request.isolate THEN Leave(1)
       ELSE Goto("source") /\ UNCHANGED lib

(* _read_source: only a path can be missing.                               *)
ReadSource ==
    /\ pc = "source"
    /\ \/ ~request.stdin /\ Leave(1)
       \/ request.name = "auto" /\ Call("detect")
       \/ request.name = "bank" /\ Goto("supported") /\ UNCHANGED lib
       \/ request.name \in {"inspect", "redact"} /\ Call("engine")

(* _check_supported: an unknown or an unsupported format.                  *)
CheckSupported ==
    /\ pc = "supported"
    /\ Leave(1) \/ Call("engine")

-----------------------------------------------------------------------------
CallRuns == pc \in {"detect", "engine"} /\ outcome = "none"

(* _stderr_bar: `done`, the last event of a call that ends well, ends the  *)
(* line of the bar.                                                        *)
Deliver ==
    /\ CallRuns /\ Library!Deliver /\ (working' => Isolated)
    /\ line' = IF call.end = "ok" /\ Len(seen') = Library!Total(call) THEN "fresh" ELSE "bar"
    /\ UNCHANGED <<request, pc, exit, stdout, buffer, garbled, file, interrupted>>

Work ==
    /\ CallRuns /\ Isolated /\ Library!Work
    /\ UNCHANGED <<request, pc, exit, screen, file, interrupted>>

WorkerAnswers ==
    /\ CallRuns /\ Isolated /\ Library!Finish
    /\ UNCHANGED <<request, pc, exit, screen, file, interrupted>>

(* In process there is nothing to run out of time; a MemoryError is an     *)
(* error like others.                                                      *)
CallReturns ==
    /\ CallRuns /\ ~Isolated
    /\ outcome' \in {"value", "raised", "callback_raised"}
    /\ Library!Allowed(outcome') \/ (call.end = "memory" /\ outcome' = "raised")
    /\ UNCHANGED <<request, pc, exit, screen, file, interrupted, call, seen, working>>

-----------------------------------------------------------------------------
Failed == outcome \notin {"none", "value"}

(* Mutation: a worker that could not finish is an error like others.       *)
CallFailedPlain == pc \in {"detect", "engine"} /\ Failed /\ Leave(1)

(* _exit_unfinished, or a ClickException, or a traceback.                  *)
CallFailed ==
    /\ pc \in {"detect", "engine"} /\ Failed
    /\ Leave(IF outcome = "resource_limit" THEN 2 ELSE 1)

(* Mutation: messages go to stdout whatever the output is.                 *)
InfoToStdout == Says("message") /\ UNCHANGED <<line, garbled>>

(* _info: to stderr when stdout carries the data.                          *)
Info == IF request.output = "-" THEN Message /\ UNCHANGED <<stdout, line>>
        ELSE InfoToStdout

(* auto: no bank, or its name.                                             *)
Detected ==
    /\ pc = "detect" /\ outcome = "value"
    /\ \/ Leave(1)
       \/ /\ Info /\ pc' = "supported"
          /\ UNCHANGED <<request, exit, buffer, file, interrupted, lib>>

ToStdout == request.name = "inspect" \/ request.output = "-"
Kind == IF request.name = "inspect" THEN "report" ELSE "data"

(* _write_bytes, and the echo of a report.  open() empties the file before *)
(* the bytes are in it; stdout passes on what its buffer does not hold.    *)
BeginWrite ==
    /\ pc = "engine" /\ outcome = "value"
    /\ pc' = "write"
    /\ IF ToStdout THEN Says(Kind) /\ buffer' = "part" /\ UNCHANGED file
       ELSE file' = "cut" /\ UNCHANGED <<stdout, buffer>>
    /\ UNCHANGED <<request, exit, line, garbled, interrupted, lib>>

(* A disk that is full, a pipe nobody reads.                               *)
WriteFails == pc = "write" /\ Leave(1)

(* The last bytes for stdout stay in its buffer.                           *)
WriteEnds ==
    /\ pc = "write" /\ request.name # "inspect"
    /\ IF request.output = "-" THEN buffer' = "all" /\ UNCHANGED file
       ELSE file' = "new" /\ UNCHANGED buffer
    /\ pc' = "written"
    /\ UNCHANGED <<request, exit, stdout, line, garbled, interrupted, lib>>

(* click.echo of a message flushes stdout at once, and that may fail.      *)
EchoFails ==
    /\ (pc = "detect" /\ outcome = "value") \/ pc = "written"
    /\ request.output = "file"
    /\ exit' = 1 /\ pc' = "exiting" /\ buffer' = "part" /\ Message
    /\ UNCHANGED <<request, stdout, line, file, interrupted, lib>>

(* The closing message, and the audit of a redaction on stderr.            *)
Finish ==
    /\ pc = "written" /\ Info
    /\ exit' = 0 /\ pc' = "exiting"
    /\ UNCHANGED <<request, buffer, file, interrupted, lib>>

(* inspect: click.echo flushed the report, the signals go to stderr.       *)
ReportOut ==
    /\ pc = "write" /\ request.name = "inspect"
    /\ Says("end") /\ buffer' = "none" /\ pc' = "signals"
    /\ UNCHANGED <<request, exit, line, garbled, file, interrupted, lib>>

(* Mutation: `if report.signals`.                                          *)
ReportEndsAnySignal ==
    /\ pc = "signals"
    /\ exit' = (IF request.severest # "none" THEN 2 ELSE 0) /\ pc' = "exiting"
    /\ UNCHANGED <<request, screen, file, interrupted, lib>>

(* Mutation: sys.exit(len(report.errors)).                                 *)
ReportEndsCounting ==
    /\ pc = "signals"
    /\ exit' \in (IF request.severest = "error" THEN 1..3 ELSE {0}) /\ pc' = "exiting"
    /\ UNCHANGED <<request, screen, file, interrupted, lib>>

(* A line per signal is out; 2 if one of them is an error.                 *)
ReportEnds ==
    /\ pc = "signals"
    /\ exit' = (IF request.severest = "error" THEN 2 ELSE 0) /\ pc' = "exiting"
    /\ UNCHANGED <<request, screen, file, interrupted, lib>>

(* Ctrl-C, at any moment, or a message that stderr does not take: click    *)
(* aborts with 1, the worker is killed.                                    *)
Interrupt ==
    /\ pc \notin {"exiting", "ended"}
    /\ interrupted' = TRUE /\ exit' = 1 /\ pc' = "exiting" /\ Message
    /\ working' = FALSE
    /\ UNCHANGED <<request, stdout, buffer, line, file, call, seen, outcome>>

(* The interpreter flushes stdout when it ends.  If that fails the code is *)
(* 120, or still 1 where click has met the broken pipe and silenced it.    *)
Exit ==
    /\ pc = "exiting" /\ pc' = "ended"
    /\ \/ /\ exit' = exit
          /\ IF buffer = "all" THEN Says("end") ELSE UNCHANGED stdout
       \/ /\ buffer # "none" /\ UNCHANGED stdout
          /\ exit' = 120 \/ (exit = 1 /\ exit' = 1)
    /\ UNCHANGED <<request, buffer, line, garbled, file, interrupted, lib>>

Over == pc = "ended" /\ UNCHANGED vars

Own == \/ CheckOptions \/ ReadSource \/ CheckSupported \/ CallFailed \/ Detected
       \/ BeginWrite \/ WriteFails \/ WriteEnds \/ EchoFails \/ Finish
       \/ ReportOut \/ ReportEnds \/ Exit

Next == Own \/ Deliver \/ Work \/ WorkerAnswers \/ CallReturns \/ Interrupt \/ Over

Spec == Init /\ [][Next]_vars

(* The command itself runs on, its stdin ends and its stdout is drained:   *)
(* no deadline covers these.  A worker answers: Isolate's Terminates.      *)
(* Nothing is assumed of a call in process.                                *)
FairSpec == Spec /\ WF_vars(Own) /\ WF_vars(WorkerAnswers)

-----------------------------------------------------------------------------
TypeOK ==
    /\ request \in Requests
    /\ pc \in {"options", "source", "detect", "supported", "engine", "write", "written", "signals",
              "exiting", "ended"}
    /\ exit \in {Running, 0, 1, 2, 120} /\ (exit # Running <=> pc \in {"exiting", "ended"})
    /\ stdout \in Seq({"message", "data", "end", "report"}) /\ Len(stdout) <= 3
    /\ buffer \in {"none", "part", "all"}
    /\ file \in {"old", "cut", "new"} /\ line \in {"fresh", "bar"}
    /\ garbled \in BOOLEAN /\ interrupted \in BOOLEAN
    /\ call \in Library!Calls /\ outcome \in Library!Outcomes \cup {"none"}
    /\ working => CallRuns /\ request.isolate

OutInFull == \E k \in DOMAIN stdout : stdout[k] = "end"
Complete == file = "new" \/ OutInFull
Touched == file # "old" \/ (\E k \in DOMAIN stdout : stdout[k] \in {"data", "report"})

(* The exit code says what became of the output.  0: it is complete, and a *)
(* report names no error.  2: a worker did not finish and nothing was      *)
(* written, not even over an older file ("the CLI exits 2 with no          *)
(* report"), or the report is complete and names an error ("Exits 2 when   *)
(* any signal is an error"); and an unfinished worker never passes for a   *)
(* plain failure, in detection either.  120: stdout was not taken in full. *)
(* A file cut short never goes without an error, and nothing is written of *)
(* a call that failed.                                                     *)
ExitHonest ==
    /\ pc = "ended" /\ exit = 0 => Complete /\ request.severest # "error"
    /\ pc = "ended" /\ exit = 2 => \/ outcome = "resource_limit" /\ ~Touched
                                   \/ OutInFull /\ request.severest = "error"
    /\ pc = "ended" /\ exit = 120 => ~OutInFull
    /\ pc = "ended" /\ file = "cut" => exit = 1
    /\ exit = 1 /\ outcome = "resource_limit" => interrupted
    /\ Touched => outcome = "value" /\ call.end = "ok" /\ pc # "detect"

(* "Messages and the progress bar go to stderr, so piped data stays        *)
(* clean": stdout holds the data and nothing else when it is the output,   *)
(* a report and nothing else under inspect; and on success no message is   *)
(* appended to the bar ("leaves the cursor on a fresh line").              *)
StdoutClean ==
    /\ request.name = "inspect" => stdout \in {<<>>, <<"report">>, <<"report", "end">>}
    /\ request.name # "inspect" /\ request.output = "-" =>
         stdout \in {<<>>, <<"data">>, <<"data", "end">>}
    /\ exit = 0 => ~garbled

(* Why ExitHonest and StdoutClean hold: what the command knows where it    *)
(* stands.  Only the name of a detected bank comes before the data.        *)
NotesOut == IF request.name = "auto" /\ request.output = "file" THEN {<<>>, <<"message">>} ELSE {<<>>}

CallInOrder ==
    /\ seen \in Seq(Nat)
    /\ request.severest = "error" => request.name = "inspect"
    /\ pc \in {"options", "source"} => outcome = "none"
    /\ pc = "detect" => request.name = "auto" /\ ~call.forward
    /\ pc = "supported" => request.name \in {"auto", "bank"} /\ outcome \in {"none", "value"}
    /\ pc \in {"write", "written", "signals"} => outcome = "value"
    /\ pc = "written" => request.name # "inspect"
    /\ pc = "signals" => request.name = "inspect"
    /\ outcome = "value" => call.end = "ok" /\ Len(seen) = Library!Total(call)

OutputInOrder ==
    /\ pc \in {"options", "source", "detect"} => stdout = <<>>
    /\ pc \notin {"write", "written", "signals", "exiting", "ended"} =>
         file = "old" /\ stdout \in NotesOut /\ buffer = "none"
    /\ pc = "write" => IF ToStdout THEN stdout = <<Kind>> /\ file = "old" /\ buffer = "part"
                       ELSE stdout \in NotesOut /\ file = "cut" /\ buffer = "none"
    /\ pc = "written" => IF request.output = "-"
                         THEN stdout = <<"data">> /\ buffer = "all" /\ file = "old"
                         ELSE stdout \in NotesOut /\ file = "new" /\ buffer = "none"
    /\ pc = "signals" => stdout = <<"report", "end">> /\ buffer = "none" /\ file = "old"
    /\ line = "bar" => /\ pc \in {"engine", "exiting", "ended"}
                       /\ call.end = "ok" => Len(seen) < Library!Total(call)
    /\ garbled => pc \in {"exiting", "ended"}

(* ... and what its code will mean once stdout is flushed.                 *)
CodeInOrder ==
    pc = "exiting" =>
        /\ buffer = "all" => stdout = <<"data">> /\ file = "old" /\ request.name # "inspect"
        /\ buffer = "part" => ~OutInFull /\ file # "cut"
        /\ file = "cut" => exit = 1
        /\ exit = 0 => (buffer = "all" \/ Complete) /\ buffer # "part" /\ request.severest # "error"
        /\ exit = 2 => \/ outcome = "resource_limit" /\ ~Touched /\ buffer = "none"
                       \/ OutInFull /\ buffer = "none" /\ request.severest = "error"
        /\ exit # 120

(* A command under --isolate ends, whatever the file does to detection or  *)
(* to the conversion: it has two workers at most, and each has a deadline. *)
CommandEnds == request.isolate ~> (pc = "ended")
=============================================================================
