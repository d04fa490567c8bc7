--------------------------- MODULE CommandProofs ---------------------------
(***************************************************************************)
(* Proofs about Command for library calls of every number of events.       *)
(***************************************************************************)
EXTENDS Command, SequenceTheorems, TLAPS

USE CommandAssumption

CInv == TypeOK /\ ExitHonest /\ StdoutClean /\ CallInOrder /\ OutputInOrder /\ CodeInOrder

(* A library call has a number of events.                                  *)
LEMMA TotalNatural ==
    ASSUME NEW c \in Library!Calls
    PROVE  Library!Total(c) \in Nat
BY DEF Library!Calls, Library!Total

(* What one more line makes of stdout.                                     *)
LEMMA SecondLine ==
    ASSUME NEW S, NEW first \in S, NEW second \in S
    PROVE  Append(<<first>>, second) = <<first, second>>
<1>1. <<first>> \in Seq(S) /\ Len(<<first>>) = 1 /\ <<first>>[1] = first
  OBVIOUS
<1> DEFINE two == Append(<<first>>, second)
<1>2. two \in Seq(S) /\ Len(two) = 2 /\ two[1] = first /\ two[2] = second
  BY <1>1, AppendProperties
<1>3. /\ <<first, second>> \in Seq(S) /\ Len(<<first, second>>) = 2
      /\ <<first, second>>[1] = first /\ <<first, second>>[2] = second
  OBVIOUS
<1> HIDE DEF two
<1>4. \A k \in 1..2 : two[k] = <<first, second>>[k]
  BY <1>2, <1>3
<1>5. two = <<first, second>>
  BY <1>2, <1>3, <1>4, SeqEqual
<1> QED
  BY <1>5 DEF two

LEMMA OneMore ==
    /\ Append(<<>>, "message") = <<"message">> /\ Append(<<>>, "data") = <<"data">>
    /\ Append(<<>>, "report") = <<"report">> /\ Append(<<"data">>, "end") = <<"data", "end">>
    /\ Append(<<"message">>, "message") = <<"message", "message">>
    /\ Append(<<"report">>, "end") = <<"report", "end">>
<1>1. /\ Append(<<"data">>, "end") = <<"data", "end">>
      /\ Append(<<"report">>, "end") = <<"report", "end">>
      /\ Append(<<"message">>, "message") = <<"message", "message">>
  <2>1. \A v, w \in {"message", "data", "end", "report"} : Append(<<v>>, w) = <<v, w>>
    BY SecondLine
  <2> QED
    BY <2>1
<1>2. Append(<<>>, "message") = <<"message">> /\ Append(<<>>, "data") = <<"data">>
  OBVIOUS
<1>3. Append(<<>>, "report") = <<"report">>
  OBVIOUS
<1> QED
  BY <1>1, <1>2, <1>3, Zenon

(* What each output the command may write holds.                           *)
LEMMA OutputHolds ==
    ASSUME NEW s \in {<<>>, <<"message">>, <<"data">>, <<"data", "end">>, <<"report">>,
                      <<"report", "end">>, <<"message", "message">>}
    PROVE  /\ s \in Seq({"message", "data", "end", "report"}) /\ Len(s) <= 3
           /\ (\E k \in DOMAIN s : s[k] \in {"data", "report"})
                <=> s \in {<<"data">>, <<"data", "end">>, <<"report">>, <<"report", "end">>}
           /\ (\E k \in DOMAIN s : s[k] = "end") <=> s \in {<<"data", "end">>, <<"report", "end">>}
<1>1. CASE s = <<>>
  BY <1>1
<1>2. CASE s = <<"message">>
  BY <1>2
<1>3. CASE s = <<"data">>
  BY <1>3
<1>4. CASE s = <<"data", "end">>
  BY <1>4
<1>5. CASE s = <<"report">>
  BY <1>5
<1>6. CASE s = <<"message", "message">>
  BY <1>6
<1>7. CASE s = <<"report", "end">>
  BY <1>7
<1> QED
  BY <1>1, <1>2, <1>3, <1>4, <1>5, <1>6, <1>7

(* The ways out with an error: whatever was written stays as it is.        *)
LEMMA EndStep ==
    ASSUME CInv, pc \notin {"exiting", "ended"}, pc' = "exiting",
           garbled' \in BOOLEAN, interrupted' \in BOOLEAN,
           UNCHANGED <<request, stdout, line, file, call, seen, outcome>>, working' = FALSE,
           \/ buffer' = buffer
           \/ buffer' = "part" /\ ~OutInFull /\ file # "cut" /\ outcome = "value",
           \/ exit' = 1 /\ (outcome = "resource_limit" => interrupted')
           \/ exit' = 2 /\ outcome = "resource_limit"
    PROVE  CInv'
<1>1. TypeOK'
  BY DEF CInv, TypeOK, Running
<1>2. Touched' = Touched /\ OutInFull' = OutInFull
  BY DEF Touched, OutInFull
<1>3. Touched => outcome = "value" /\ call.end = "ok"
  BY DEF CInv, ExitHonest
<1>4. outcome = "resource_limit" => ~Touched /\ file = "old" /\ buffer = "none"
  BY <1>3 DEF Touched, CInv, CallInOrder, OutputInOrder, TypeOK
<1>5. ExitHonest'
  BY <1>2, <1>3 DEF ExitHonest
<1>6. StdoutClean'
  BY DEF CInv, StdoutClean
<1>7. CallInOrder'
  BY DEF CInv, CallInOrder
<1>8. OutputInOrder'
  BY DEF CInv, OutputInOrder, NotesOut
<1>9. CodeInOrder'
  <2>1. buffer = "all" => stdout = <<"data">> /\ file = "old" /\ request.name # "inspect"
    BY DEF CInv, TypeOK, CallInOrder, OutputInOrder
  <2>2. buffer = "part" => stdout \in {<<"data">>, <<"report">>} /\ file = "old"
    BY DEF CInv, TypeOK, CallInOrder, OutputInOrder, Kind
  <2>3. buffer = "part" => ~OutInFull
    BY <2>2, OutputHolds DEF OutInFull
  <2> QED
    BY <1>2, <1>4, <2>1, <2>2, <2>3 DEF CodeInOrder
<1> QED
  BY <1>1, <1>5, <1>6, <1>7, <1>8, <1>9 DEF CInv

(* A step inside the call leaves the output alone.                         *)
LEMMA Unwritten ==
    ASSUME CInv, pc \notin {"write", "written", "signals", "exiting", "ended"},
           UNCHANGED <<request, exit, stdout, file, garbled>>,
           pc' \notin {"write", "written", "signals", "exiting", "ended"}
    PROVE  ExitHonest' /\ StdoutClean' /\ CodeInOrder'
<1>1. file = "old" /\ stdout \in NotesOut /\ exit = Running
  BY DEF CInv, OutputInOrder, TypeOK
<1>2. ~Touched
  BY <1>1, OutputHolds DEF NotesOut, Touched
<1>3. ~Touched' /\ file' = "old" /\ exit' = Running
  BY <1>1, <1>2 DEF Touched
<1>4. ExitHonest' /\ StdoutClean'
  BY <1>1, <1>3 DEF ExitHonest, StdoutClean, CInv, Running
<1>5. CodeInOrder'
  BY DEF CodeInOrder
<1> QED
  BY <1>4, <1>5

(* A library call begins with no event and no outcome.                     *)
LEMMA CallStep ==
    ASSUME CInv, NEW next \in {"detect", "engine"}, Call(next), pc \in {"source", "supported"},
           next = "detect" => request.name = "auto" /\ pc = "source"
    PROVE  CInv'
<1>1. /\ call' \in Library!Calls /\ (next = "detect" => ~call'.forward)
      /\ seen' = <<>> /\ outcome' = "none" /\ working' = FALSE /\ pc' = next
      /\ UNCHANGED <<request, exit, screen, file, interrupted>>
  BY DEF Call, Goto, BarShown
<1>2. ExitHonest' /\ StdoutClean' /\ CodeInOrder'
  BY <1>1, Unwritten DEF screen
<1>3. TypeOK'
  BY <1>1 DEF CInv, TypeOK, screen
<1>4. CallInOrder'
  BY <1>1 DEF CInv, CallInOrder
<1>5. OutputInOrder'
  BY <1>1 DEF CInv, OutputInOrder, NotesOut, screen
<1> QED
  BY <1>2, <1>3, <1>4, <1>5 DEF CInv

(* While the call runs only its events, its worker and its outcome change. *)
LEMMA CallRunsStep ==
    ASSUME CInv, Deliver \/ Work \/ WorkerAnswers \/ CallReturns
    PROVE  CInv'
<1>1. /\ CallRuns /\ pc' = pc /\ call' = call
      /\ UNCHANGED <<request, exit, stdout, buffer, garbled, file, interrupted>>
  BY DEF Deliver, Work, WorkerAnswers, CallReturns, Library!Deliver, Library!Work, Library!Finish,
         screen
<1>2. ExitHonest' /\ StdoutClean' /\ CodeInOrder'
  BY <1>1, Unwritten DEF CallRuns
<1>3. call \in Library!Calls /\ Library!Total(call) \in Nat /\ seen \in Seq(Nat)
  BY TotalNatural DEF CInv, TypeOK, CallInOrder
<1>4. CASE Deliver
  <2>1. /\ outcome' = "none" /\ seen' = Append(seen, Len(seen) + 1)
        /\ Len(seen) < Library!Total(call)
        /\ line' = IF call.end = "ok" /\ Len(seen') = Library!Total(call) THEN "fresh" ELSE "bar"
        /\ working' \in BOOLEAN /\ (working' => request.isolate)
    BY <1>4 DEF Deliver, Library!Deliver, CallRuns, Isolated
  <2>2. seen' \in Seq(Nat) /\ Len(seen') = Len(seen) + 1
    BY <1>3, <2>1, AppendProperties
  <2>3. pc = "engine"
    <3>1. call.forward
      BY <1>3, <2>1 DEF Library!Total
    <3> QED
      BY <1>1, <3>1 DEF CallRuns, CInv, CallInOrder
  <2>4. TypeOK'
    BY <1>1, <2>1 DEF CInv, TypeOK, CallRuns
  <2>5. CallInOrder'
    BY <1>1, <2>1, <2>2, <2>3 DEF CInv, CallInOrder
  <2>6. OutputInOrder'
    BY <1>1, <1>3, <2>1, <2>2, <2>3 DEF CInv, OutputInOrder, NotesOut
  <2> QED
    BY <1>2, <2>4, <2>5, <2>6 DEF CInv
<1>5. CASE Work \/ WorkerAnswers \/ CallReturns
  <2>1. seen' = seen /\ line' = line
    BY <1>5 DEF Work, WorkerAnswers, CallReturns, Library!Work, Library!Finish, screen
  <2>2. /\ outcome' \in Library!Outcomes \cup {"none"}
        /\ outcome' = "value" => call.end = "ok" /\ Len(seen) = Library!Total(call)
        /\ working' => outcome' = "none" /\ request.isolate
    BY <1>5 DEF Work, WorkerAnswers, CallReturns, Library!Work, Library!Finish, Isolated, CallRuns,
                Library!Outcomes, Library!Failures, Library!Allowed, CInv, TypeOK
  <2>3. TypeOK'
    BY <1>1, <2>1, <2>2 DEF CInv, TypeOK, CallRuns
  <2>4. CallInOrder'
    BY <1>1, <2>1, <2>2 DEF CInv, CallInOrder, CallRuns
  <2>5. OutputInOrder'
    BY <1>1, <2>1 DEF CInv, OutputInOrder, NotesOut, CallRuns
  <2> QED
    BY <1>2, <2>3, <2>4, <2>5 DEF CInv
<1> QED
  BY <1>4, <1>5

(* An error with no call under way.                                        *)
LEMMA LeaveStep ==
    ASSUME CInv, pc \notin {"exiting", "ended"}, ~CallRuns, NEW code, Leave(code),
           \/ code = 1 /\ outcome # "resource_limit"
           \/ code = 2 /\ outcome = "resource_limit"
    PROVE  CInv'
<1>1. /\ pc' = "exiting" /\ garbled' \in BOOLEAN /\ interrupted' \in BOOLEAN /\ exit' = code
      /\ UNCHANGED <<request, stdout, buffer, line, file, call, seen, outcome, working>>
  BY DEF CInv, TypeOK, Leave, Message, lib
<1>2. working' = FALSE
  BY <1>1 DEF CInv, TypeOK, Library!Calls
<1> QED
  BY <1>1, <1>2, EndStep

(* Ctrl-C, wherever the command stands.                                    *)
LEMMA InterruptStep ==
    ASSUME CInv, Interrupt
    PROVE  CInv'
<1>1. /\ pc \notin {"exiting", "ended"} /\ pc' = "exiting"
      /\ garbled' \in BOOLEAN /\ interrupted' = TRUE /\ exit' = 1
      /\ UNCHANGED <<request, stdout, buffer, line, file, call, seen, outcome>> /\ working' = FALSE
  BY DEF CInv, TypeOK, Interrupt, Message
<1> QED
  BY <1>1, EndStep

(* A message that stdout does not take comes before the data, or after an  *)
(* output file that is complete.                                           *)
LEMMA EchoFailsStep ==
    ASSUME CInv, EchoFails
    PROVE  CInv'
<1>1. /\ pc \in {"detect", "written"} /\ outcome = "value" /\ pc' = "exiting"
      /\ garbled' \in BOOLEAN /\ interrupted' \in BOOLEAN /\ exit' = 1 /\ buffer' = "part"
      /\ UNCHANGED <<request, stdout, line, file, call, seen, outcome>> /\ working' = FALSE
  BY DEF CInv, TypeOK, CallInOrder, EchoFails, Message, lib, CallRuns
<1>2. stdout \in {<<>>, <<"message">>} /\ file # "cut"
  BY <1>1 DEF EchoFails, CInv, OutputInOrder, NotesOut
<1>3. ~OutInFull
  BY <1>2, OutputHolds DEF OutInFull
<1> QED
  BY <1>1, <1>2, <1>3, EndStep

(* The options are good, or the source was read and a bank was named.      *)
LEMMA GoStep ==
    ASSUME CInv, pc \in {"options", "source"}, pc' \in {"source", "supported"},
           pc' = "supported" => request.name = "bank",
           UNCHANGED <<request, exit, screen, file, interrupted, lib>>
    PROVE  CInv'
<1>1. ExitHonest' /\ StdoutClean' /\ CodeInOrder'
  BY Unwritten DEF screen
<1>2. TypeOK' /\ CallInOrder' /\ OutputInOrder'
  BY DEF CInv, TypeOK, CallInOrder, OutputInOrder, NotesOut, screen, lib, CallRuns
<1> QED
  BY <1>1, <1>2 DEF CInv

(* The name of the bank goes out before the data, on stderr if the data    *)
(* goes to stdout.                                                         *)
LEMMA DetectedStep ==
    ASSUME CInv, Detected
    PROVE  CInv'
<1>1. pc = "detect" /\ outcome = "value" /\ request.name = "auto" /\ ~CallRuns
  BY DEF Detected, CInv, CallInOrder, CallRuns
<1>2. CASE Leave(1)
  BY <1>1, <1>2, LeaveStep
<1>3. CASE Info /\ pc' = "supported" /\ UNCHANGED <<request, exit, buffer, file, interrupted, lib>>
  <2>1. exit = Running /\ line = "fresh" /\ ~garbled /\ file = "old" /\ stdout = <<>> /\ ~working
        /\ buffer = "none"
    BY <1>1 DEF CInv, OutputInOrder, NotesOut, TypeOK
  <2>2. /\ stdout' = IF request.output = "-" THEN <<>> ELSE <<"message">>
        /\ line' = "fresh" /\ garbled' = FALSE
    BY <1>3, <2>1, OneMore DEF Info, InfoToStdout, Says, Message, CInv, TypeOK, Requests
  <2>3. UNCHANGED <<request, exit, buffer, file, interrupted, call, seen, outcome, working>>
    BY <1>3 DEF lib
  <2>4. stdout' \in NotesOut' /\ (stdout' = <<>> \/ stdout' = <<"message">>)
    BY <1>1, <2>2, <2>3 DEF NotesOut, CInv, TypeOK, Requests
  <2>5. ~Touched' /\ stdout' \in Seq({"message", "data", "end", "report"}) /\ Len(stdout') <= 3
    BY <2>1, <2>3, <2>4, OutputHolds DEF Touched
  <2>6. ExitHonest'
    BY <2>1, <2>3, <2>5 DEF ExitHonest, Running
  <2>7. StdoutClean'
    BY <1>1, <2>1, <2>2, <2>3, <2>4 DEF StdoutClean, Running
  <2>8. TypeOK'
    BY <1>1, <1>3, <2>1, <2>2, <2>3, <2>5 DEF CInv, TypeOK, CallRuns
  <2>9. CallInOrder'
    BY <1>1, <1>3, <2>3 DEF CInv, CallInOrder
  <2>10. OutputInOrder' /\ CodeInOrder'
    BY <1>3, <2>1, <2>2, <2>3, <2>4 DEF OutputInOrder, CodeInOrder
  <2> QED
    BY <2>6, <2>7, <2>8, <2>9, <2>10 DEF CInv
<1> QED
  BY <1>2, <1>3 DEF Detected

(* From the options to the call.                                           *)
LEMMA BeforeCall ==
    ASSUME CInv, CheckOptions \/ ReadSource \/ CheckSupported
    PROVE  CInv'
<1>1. pc \in {"options", "source", "supported"} /\ ~CallRuns
  BY DEF CheckOptions, ReadSource, CheckSupported, CallRuns
<1>2. outcome \in {"none", "value"}
  BY DEF CheckOptions, ReadSource, CheckSupported, CInv, CallInOrder
<1>3. CASE Leave(1)
  BY <1>1, <1>2, <1>3, LeaveStep
<1>4. ASSUME NEW next \in {"detect", "engine"}, Call(next), pc \in {"source", "supported"},
             next = "detect" => request.name = "auto" /\ pc = "source"
      PROVE  CInv'
  BY <1>4, CallStep
<1>5. CASE CheckOptions /\ ~Leave(1)
  BY <1>5, GoStep DEF CheckOptions, Goto, lib
<1>6. CASE ReadSource /\ request.name = "bank" /\ Goto("supported") /\ UNCHANGED lib
  BY <1>6, GoStep DEF ReadSource, Goto, lib
<1> QED
  BY <1>3, <1>4, <1>5, <1>6 DEF ReadSource, CheckSupported

(* The bytes go out of a call that ended well, and over an older file.     *)
LEMMA BeginWriteStep ==
    ASSUME CInv, BeginWrite
    PROVE  CInv'
<1>1. /\ pc = "engine" /\ outcome = "value" /\ pc' = "write"
      /\ UNCHANGED <<request, exit, line, garbled, interrupted, call, seen, outcome, working>>
      /\ exit = Running /\ ~garbled /\ ~working /\ buffer = "none"
  BY DEF BeginWrite, lib, CInv, TypeOK, OutputInOrder, CallRuns
<1>2. file = "old" /\ stdout \in NotesOut /\ call.end = "ok" /\ line = "fresh"
  <2>1. Library!Total(call) \in Nat /\ Len(seen) = Library!Total(call)
    BY <1>1, TotalNatural DEF CInv, TypeOK, CallInOrder
  <2> QED
    BY <1>1, <2>1 DEF CInv, TypeOK, CallInOrder, OutputInOrder
<1>3. /\ request.output \in {"-", "file"} /\ Kind \in {"data", "report"}
      /\ Kind = "report" <=> request.name = "inspect"
  BY DEF CInv, TypeOK, Requests, Kind
<1>4. IF ToStdout THEN stdout' = <<Kind>> /\ file' = "old" /\ buffer' = "part"
      ELSE stdout' = stdout /\ file' = "cut" /\ buffer' = "none"
  <2>1. ToStdout => stdout = <<>>
    BY <1>2 DEF NotesOut, ToStdout
  <2> QED
    BY <1>1, <1>2, <1>3, <2>1, OneMore DEF BeginWrite, Says
<1>5. stdout' \in {<<>>, <<"message">>, <<"data">>, <<"report">>}
  BY <1>2, <1>3, <1>4 DEF NotesOut
<1>6. TypeOK'
  <2>1. stdout' \in Seq({"message", "data", "end", "report"}) /\ Len(stdout') <= 3
    BY <1>5, OutputHolds
  <2> QED
    BY <1>1, <1>4, <2>1 DEF CInv, TypeOK, CallRuns
<1>7. ExitHonest'
  BY <1>1, <1>2 DEF ExitHonest, Running
<1>8. StdoutClean'
  BY <1>1, <1>3, <1>4, <1>5 DEF StdoutClean, Running, ToStdout, Kind
<1>9. CallInOrder'
  BY <1>1, <1>2 DEF CInv, CallInOrder
<1>10. OutputInOrder' /\ CodeInOrder'
  BY <1>1, <1>2, <1>4 DEF OutputInOrder, CodeInOrder, NotesOut, ToStdout, Kind
<1> QED
  BY <1>6, <1>7, <1>8, <1>9, <1>10 DEF CInv

(* What is known of a command that writes.                                 *)
LEMMA Writing ==
    ASSUME CInv, pc \in {"write", "written", "signals"}
    PROVE  /\ outcome = "value" /\ exit = Running /\ ~garbled /\ ~working /\ line = "fresh"
           /\ call.end = "ok" /\ request \in Requests /\ request.output \in {"-", "file"}
           /\ pc = "written" => request.name # "inspect"
           /\ pc = "signals" => request.name = "inspect"
BY DEF CInv, TypeOK, CallInOrder, OutputInOrder, CallRuns, Requests

(* The last byte is in the buffer, or in the file.                         *)
LEMMA WriteEndsStep ==
    ASSUME CInv, WriteEnds
    PROVE  CInv'
<1>1. /\ pc = "write" /\ request.name # "inspect" /\ pc' = "written"
      /\ UNCHANGED <<request, exit, stdout, line, garbled, interrupted, call, seen, outcome, working>>
      /\ outcome = "value" /\ exit = Running /\ ~garbled /\ ~working /\ line = "fresh"
      /\ call.end = "ok"
  BY Writing DEF WriteEnds, lib
<1>2. IF request.output = "-" THEN stdout = <<"data">> /\ file = "old"
      ELSE stdout \in NotesOut /\ file = "cut" /\ buffer = "none"
  BY <1>1 DEF CInv, OutputInOrder, ToStdout, Kind
<1>3. IF request.output = "-" THEN buffer' = "all" /\ file' = "old"
      ELSE buffer' = "none" /\ file' = "new"
  BY <1>2 DEF WriteEnds
<1>4. TypeOK'
  BY <1>1, <1>3 DEF CInv, TypeOK, CallRuns
<1>5. ExitHonest'
  BY <1>1 DEF ExitHonest, Running
<1>6. StdoutClean'
  BY <1>1, <1>2 DEF StdoutClean, Running
<1>7. CallInOrder'
  BY <1>1 DEF CInv, CallInOrder
<1>8. OutputInOrder' /\ CodeInOrder'
  BY <1>1, <1>2, <1>3 DEF OutputInOrder, CodeInOrder, NotesOut
<1> QED
  BY <1>4, <1>5, <1>6, <1>7, <1>8 DEF CInv

(* A file is complete before the code says so; stdout still has its buffer.*)
LEMMA FinishStep ==
    ASSUME CInv, Finish
    PROVE  CInv'
<1>1. /\ pc = "written" /\ request.name # "inspect" /\ pc' = "exiting" /\ exit' = 0
      /\ UNCHANGED <<request, buffer, file, interrupted, call, seen, outcome, working>> /\ Info
      /\ outcome = "value" /\ ~garbled /\ ~working /\ line = "fresh" /\ call.end = "ok"
      /\ request \in Requests
  BY Writing DEF Finish, lib
<1>2. IF request.output = "-" THEN stdout = <<"data">> /\ file = "old" /\ buffer = "all"
      ELSE stdout \in {<<>>, <<"message">>} /\ file = "new" /\ buffer = "none"
  BY <1>1 DEF CInv, OutputInOrder, NotesOut
<1>3. /\ request.output = "-" => stdout' = <<"data">>
      /\ request.output # "-" => stdout' \in {<<"message">>, <<"message", "message">>}
      /\ line' = "fresh" /\ garbled' = FALSE
  BY <1>1, <1>2, OneMore DEF Info, InfoToStdout, Says, Message, CInv, TypeOK
<1>4. stdout' \in {<<"message">>, <<"message", "message">>, <<"data">>}
  BY <1>3
<1>5. TypeOK'
  <2>1. stdout' \in Seq({"message", "data", "end", "report"}) /\ Len(stdout') <= 3
    BY <1>4, OutputHolds
  <2>2. /\ file' \in {"old", "cut", "new"} /\ buffer' \in {"none", "part", "all"}
        /\ outcome' \in Library!Outcomes \cup {"none"} /\ call' \in Library!Calls
        /\ interrupted' \in BOOLEAN /\ request' \in Requests
    BY <1>1 DEF CInv, TypeOK
  <2>3. (/\ exit \in {Running, 0, 1, 2, 120} /\ (exit # Running <=> pc \in {"exiting", "ended"})
         /\ pc \in {"options", "source", "detect", "supported", "engine", "write", "written",
                   "signals", "exiting", "ended"})'
    BY <1>1 DEF Running
  <2>4. (/\ garbled \in BOOLEAN /\ line \in {"fresh", "bar"}
         /\ working => CallRuns /\ request.isolate)'
    BY <1>1, <1>3
  <2> QED
    BY <2>1, <2>2, <2>3, <2>4, Zenon DEF TypeOK
<1>6. request.severest # "error"
  BY <1>1 DEF CInv, CallInOrder
<1>7. ExitHonest'
  BY <1>1 DEF ExitHonest
<1>8. StdoutClean'
  BY <1>1, <1>3 DEF StdoutClean
<1>9. CallInOrder'
  BY <1>1 DEF CInv, CallInOrder
<1>10. OutputInOrder'
  BY <1>1, <1>3 DEF OutputInOrder
<1>11. CodeInOrder'
  <2>1. request.output # "-" => Complete'
    BY <1>1, <1>2 DEF Complete
  <2> QED
    BY <1>1, <1>2, <1>3, <1>6, <2>1 DEF CodeInOrder
<1> QED
  BY <1>5, <1>7, <1>8, <1>9, <1>10, <1>11 DEF CInv

(* The report leaves the buffer at once ...                                *)
LEMMA ReportOutStep ==
    ASSUME CInv, ReportOut
    PROVE  CInv'
<1>1. /\ pc = "write" /\ request.name = "inspect" /\ pc' = "signals" /\ buffer' = "none"
      /\ UNCHANGED <<request, exit, line, garbled, file, interrupted, call, seen, outcome, working>>
      /\ outcome = "value" /\ exit = Running /\ ~garbled /\ ~working /\ line = "fresh"
      /\ call.end = "ok"
  BY Writing DEF ReportOut, lib
<1>2. stdout = <<"report">> /\ file = "old"
  BY <1>1 DEF CInv, OutputInOrder, ToStdout, Kind
<1>3. stdout' = <<"report", "end">>
  BY <1>2, OneMore DEF ReportOut, Says
<1>4. stdout' \in Seq({"message", "data", "end", "report"}) /\ Len(stdout') <= 3
  BY <1>3, OutputHolds
<1>5. TypeOK'
  BY <1>1, <1>4 DEF CInv, TypeOK, CallRuns
<1>6. ExitHonest'
  BY <1>1 DEF ExitHonest, Running
<1>7. StdoutClean'
  BY <1>1, <1>3 DEF StdoutClean, Running
<1>8. CallInOrder'
  BY <1>1 DEF CInv, CallInOrder
<1>9. OutputInOrder' /\ CodeInOrder'
  BY <1>1, <1>2, <1>3 DEF OutputInOrder, CodeInOrder
<1> QED
  BY <1>5, <1>6, <1>7, <1>8, <1>9 DEF CInv

(* ... so that its code, 2 or not, goes with a complete report.            *)
LEMMA ReportEndsStep ==
    ASSUME CInv, ReportEnds
    PROVE  CInv'
<1>1. /\ pc = "signals" /\ request.name = "inspect" /\ pc' = "exiting"
      /\ UNCHANGED <<request, stdout, buffer, line, garbled, file, interrupted,
                     call, seen, outcome, working>>
      /\ outcome = "value" /\ ~garbled /\ ~working /\ line = "fresh" /\ call.end = "ok"
      /\ exit' \in {0, 2} /\ (exit' = 2 <=> request.severest = "error")
  BY Writing DEF ReportEnds, screen, lib
<1>2. stdout = <<"report", "end">> /\ buffer = "none" /\ file = "old"
  BY <1>1 DEF CInv, OutputInOrder
<1>3. OutInFull' /\ Complete'
  <2>1. OutInFull
    BY <1>2, OutputHolds DEF OutInFull
  <2> QED
    BY <1>1, <2>1 DEF OutInFull, Complete
<1>4. TypeOK'
  BY <1>1 DEF CInv, TypeOK, CallRuns, Running
<1>5. ExitHonest'
  BY <1>1 DEF ExitHonest
<1>6. StdoutClean'
  BY <1>1, <1>2 DEF StdoutClean
<1>7. CallInOrder'
  BY <1>1 DEF CInv, CallInOrder
<1>8. OutputInOrder'
  BY <1>1 DEF OutputInOrder
<1>9. CodeInOrder'
  BY <1>1, <1>2, <1>3 DEF CodeInOrder
<1> QED
  BY <1>4, <1>5, <1>6, <1>7, <1>8, <1>9 DEF CInv

(* The last flush completes the data, or changes the code.                 *)
LEMMA ExitStep ==
    ASSUME CInv, Exit
    PROVE  CInv'
<1>1. /\ pc = "exiting" /\ pc' = "ended" /\ ~working /\ exit \in {0, 1, 2}
      /\ UNCHANGED <<request, buffer, line, garbled, file, interrupted, call, seen, outcome, working>>
  BY DEF Exit, lib, CInv, TypeOK, CallRuns, CodeInOrder, Running
<1>2. CASE exit' = exit /\ buffer = "all" /\ Says("end")
  <2>1. stdout = <<"data">> /\ file = "old" /\ request.name # "inspect" /\ exit # 2
    BY <1>1, <1>2 DEF CInv, CodeInOrder
  <2>2. stdout' = <<"data", "end">>
    BY <1>2, <2>1, OneMore DEF Says
  <2>3. /\ stdout' \in Seq({"message", "data", "end", "report"}) /\ Len(stdout') <= 3
        /\ OutInFull' /\ Complete' /\ Touched
    BY <2>1, <2>2, OutputHolds DEF OutInFull, Complete, Touched
  <2>4. TypeOK'
    BY <1>1, <1>2, <2>3 DEF CInv, TypeOK, CallRuns, Running
  <2>5. ExitHonest'
    BY <1>1, <1>2, <2>1, <2>3 DEF CInv, ExitHonest, CodeInOrder
  <2>6. StdoutClean'
    BY <1>1, <1>2, <2>1, <2>2 DEF CInv, StdoutClean
  <2>7. CallInOrder' /\ OutputInOrder' /\ CodeInOrder'
    BY <1>1 DEF CInv, CallInOrder, OutputInOrder, CodeInOrder
  <2> QED
    BY <2>4, <2>5, <2>6, <2>7 DEF CInv
<1>3. CASE /\ UNCHANGED stdout
           /\ \/ exit' = exit /\ buffer # "all"
              \/ buffer # "none" /\ (exit' = 120 \/ (exit' = exit /\ exit = 1))
  <2>1. Touched' = Touched /\ OutInFull' = OutInFull /\ Complete' = Complete
    BY <1>1, <1>3 DEF Touched, OutInFull, Complete
  <2>2. buffer = "all" => ~OutInFull
    <3>1. buffer = "all" => stdout = <<"data">>
      BY <1>1 DEF CInv, CodeInOrder
    <3> QED
      BY <3>1, OutputHolds DEF OutInFull
  <2>3. buffer \in {"none", "part", "all"} /\ (exit = 1 /\ outcome = "resource_limit" => interrupted)
        /\ (Touched => outcome = "value" /\ call.end = "ok")
    BY DEF CInv, TypeOK, ExitHonest
  <2>4. TypeOK'
    BY <1>1, <1>3 DEF CInv, TypeOK, CallRuns, Running
  <2>5. ExitHonest'
    BY <1>1, <1>3, <2>1, <2>2, <2>3 DEF CInv, ExitHonest, CodeInOrder
  <2>6. StdoutClean'
    BY <1>1, <1>3 DEF CInv, StdoutClean
  <2>7. CallInOrder' /\ OutputInOrder' /\ CodeInOrder'
    BY <1>1 DEF CInv, CallInOrder, OutputInOrder, CodeInOrder
  <2> QED
    BY <2>4, <2>5, <2>6, <2>7 DEF CInv
<1> QED
  BY <1>2, <1>3 DEF Exit

-----------------------------------------------------------------------------
(* A command that has not begun has written nothing.                       *)
LEMMA CommandInit == Init => CInv
<1> SUFFICES ASSUME Init PROVE CInv
  OBVIOUS
<1>1. stdout = <<>> /\ file = "old" /\ exit = Running /\ ~Touched
  BY DEF Init, Touched
<1>2. TypeOK
  <2>1. stdout \in Seq({"message", "data", "end", "report"}) /\ Len(stdout) <= 3
    BY <1>1, OutputHolds
  <2> QED
    BY <1>1, <2>1 DEF Init, TypeOK, Running
<1>3. ExitHonest /\ StdoutClean
  BY <1>1 DEF Init, ExitHonest, StdoutClean, Running
<1>4. CallInOrder /\ OutputInOrder
  BY <1>1 DEF Init, CallInOrder, OutputInOrder, NotesOut
<1>5. CodeInOrder
  BY DEF Init, CodeInOrder
<1> QED
  BY <1>2, <1>3, <1>4, <1>5 DEF CInv

(* Every step of the command, the call and the user keeps what is known.   *)
LEMMA CommandStep == CInv /\ [Next]_vars => CInv'
<1> SUFFICES ASSUME CInv, [Next]_vars PROVE CInv'
  OBVIOUS
<1>1. CASE CallFailed
  <2>1. pc \notin {"exiting", "ended"} /\ ~CallRuns /\ Leave(IF outcome = "resource_limit" THEN 2 ELSE 1)
    BY <1>1 DEF CallFailed, CallRuns, Failed
  <2> QED
    BY <2>1, LeaveStep
<1>2. CASE WriteFails
  <2>1. pc = "write" /\ ~CallRuns /\ Leave(1) /\ outcome = "value"
    BY <1>2 DEF WriteFails, CallRuns, CInv, CallInOrder
  <2> QED
    BY <2>1, LeaveStep
<1>3. CASE UNCHANGED vars
  <2>1. UNCHANGED <<request, pc, exit, stdout, buffer, line, garbled, file, interrupted,
                    call, seen, outcome, working>>
    BY <1>3 DEF vars, lib, screen
  <2>2. Touched' = Touched /\ OutInFull' = OutInFull /\ Complete' = Complete
    BY <2>1 DEF Touched, OutInFull, Complete
  <2>3. TypeOK' /\ ExitHonest' /\ StdoutClean'
    BY <2>1, <2>2 DEF CInv, TypeOK, ExitHonest, StdoutClean, CallRuns
  <2>4. CallInOrder' /\ OutputInOrder' /\ CodeInOrder'
    BY <2>1, <2>2 DEF CInv, CallInOrder, OutputInOrder, CodeInOrder, NotesOut, ToStdout, Kind
  <2> QED
    BY <2>3, <2>4 DEF CInv
<1> QED
  BY <1>1, <1>2, <1>3, BeforeCall, DetectedStep, CallRunsStep, BeginWriteStep, WriteEndsStep,
     EchoFailsStep, FinishStep, ReportOutStep, ReportEndsStep, ExitStep, InterruptStep
  DEF Next, Own, Over

(* So it is known in every state of every command.                         *)
LEMMA CommandInvariant == Spec => []CInv
<1>1. Init => CInv
  BY CommandInit
<1>2. CInv /\ [Next]_vars => CInv'
  BY CommandStep
<1> QED
  BY <1>1, <1>2, PTL DEF Spec

(* The command stays in its types: it has a code if and only if it ended,  *)
(* and no worker outlives its call.                                        *)
THEOREM CommandTypes == Spec => []TypeOK
<1>1. CInv => TypeOK
  BY DEF CInv
<1> QED
  BY <1>1, CommandInvariant, PTL

(* The exit code says what became of the output, and nothing is written of *)
(* a call that failed.                                                     *)
THEOREM ExitCorrect == Spec => []ExitHonest
<1>1. CInv => ExitHonest
  BY DEF CInv
<1> QED
  BY <1>1, CommandInvariant, PTL

(* Messages never mix with the data on stdout, nor with the bar of a       *)
(* command that succeeds.                                                  *)
THEOREM StdoutCorrect == Spec => []StdoutClean
<1>1. CInv => StdoutClean
  BY DEF CInv
<1> QED
  BY <1>1, CommandInvariant, PTL
=============================================================================
