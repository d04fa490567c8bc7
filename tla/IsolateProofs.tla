--------------------------- MODULE IsolateProofs ---------------------------
(***************************************************************************)
(* Proofs about Isolate for every number of events and every pipe size.    *)
(***************************************************************************)
EXTENDS Isolate, SequenceTheorems, TLAPS

USE MaxEventsAssumption, PipeSizeAssumption

(* The parts of an outcome message all carry its name and no number.       *)
LEMMA MessageParts ==
    ASSUME NEW w \in Replies
    PROVE  /\ Message(w) \in Seq(Parts) /\ Len(Message(w)) <= 3
           /\ \A i \in DOMAIN Message(w) : Message(w)[i].what = w /\ Message(w)[i].n = 0
<1>1. \A p \in {"whole", "header", "huge_header", "body", "tail"} : Part(w, p) \in Parts
  BY DEF Part, Parts, Replies
<1> QED
  BY <1>1 DEF Message, Part, Replies

(* A call forwards no more events than the bound and its `done`.           *)
LEMMA TotalBounded ==
    ASSUME NEW c \in Promise!Calls
    PROVE  Total(c) \in 0..(MaxEvents + 1)
BY DEF Total, Promise!Calls, Promise!Ends

(* No step of child, parent or kernel takes a variable out of its type: the*)
(* events counted never pass Total, and the pipe never its capacity.       *)
LEMMA TypeStep ==
    ASSUME TypeOK, ChildInOrder, [Next]_vars
    PROVE  TypeOK'
<1> USE DEF parentVars, childVars
<1>1. CASE ApplyLimit
  BY <1>1 DEF TypeOK, ApplyLimit, Replies
<1>2. CASE SendEvent
  <2>1. \A k \in 0..(MaxEvents + 1) : Event(k) \in Parts
    BY DEF Event, Parts
  <2>2. PICK k \in 0..(MaxEvents + 1) : outgoing' = <<Event(k)>>
    BY <1>2, TotalBounded DEF TypeOK, SendEvent
  <2>3. outgoing' \in Seq(Parts) /\ Len(outgoing') <= 3
    BY <2>1, <2>2
  <2>4. sent' \in 0..(MaxEvents + 1) /\ cpc' = "event"
    BY <1>2, TotalBounded DEF TypeOK, SendEvent
  <2> QED
    BY <1>2, <2>3, <2>4 DEF TypeOK, SendEvent
<1>3. CASE CallEnds
  BY <1>3 DEF TypeOK, CallEnds, Promise!Calls, Promise!Ends, Replies
<1>4. CASE PickleReply
  <2>0. outgoing \in Seq(Parts) /\ Len(outgoing) <= 3
    BY DEF TypeOK
  <2>1. reply \in Replies
    BY <1>4 DEF TypeOK, PickleReply, ChildInOrder
  <2>2. outgoing' \in Seq(Parts) /\ Len(outgoing') <= 3
    <3>1. outgoing' = Message(reply) \/ outgoing' = outgoing
      BY <1>4 DEF PickleReply
    <3>2. Message(reply) \in Seq(Parts) /\ Len(Message(reply)) <= 3
      BY <2>1, MessageParts
    <3> QED
      BY <2>0, <3>1, <3>2, Zenon
  <2> QED
    BY <1>4, <2>2 DEF TypeOK, PickleReply
<1>5. CASE PickleFallback
  <2>1. "unreturnable" \in Replies
    BY DEF Replies
  <2>2. outgoing' \in Seq(Parts) /\ Len(outgoing') <= 3
    BY <1>5, <2>1, MessageParts DEF PickleFallback
  <2> QED
    BY <1>5, <2>1, <2>2 DEF TypeOK, PickleFallback
<1>6. CASE WritePart
  BY <1>6 DEF TypeOK, WritePart
<1>7. CASE WriteFails
  BY <1>7 DEF TypeOK, WriteFails, Replies
<1>8. CASE ChildCloses
  BY <1>8 DEF TypeOK, ChildCloses
<1>9. CASE ChildExits
  BY <1>9 DEF TypeOK, ChildExits
<1>10. CASE Crash
  BY <1>10 DEF TypeOK, Crash
<1>11. CASE KilledDies
  BY <1>11 DEF TypeOK, KilledDies
<1>12. CASE CheckMain
  BY <1>12 DEF TypeOK, CheckMain, Promise!Outcomes, Promise!Failures
<1>13. CASE Start
  BY <1>13 DEF TypeOK, Start
<1>14. CASE CloseSender
  BY <1>14 DEF TypeOK, CloseSender
<1>15. CASE TimeOut
  BY <1>15 DEF TypeOK, TimeOut, Conclude, Promise!Outcomes, Promise!Failures
<1>16. CASE ReadPart
  <2>1. pipe' \in Seq(Parts) /\ Len(pipe') <= PipeSize
    BY <1>16 DEF TypeOK, ReadPart
  <2>2. Head(pipe).n \in 0..(MaxEvents + 1) /\ Head(pipe).what \in {"progress"} \cup Replies
    <3>1. pipe \in Seq(Parts) /\ pipe # <<>>
      BY <1>16 DEF TypeOK, ReadPart
    <3>2. Head(pipe) \in Parts
      BY <3>1
    <3> QED
      BY <3>2 DEF Parts
  <2>3. \A w \in Replies : VerdictOf(w) \in Promise!Outcomes
    BY DEF VerdictOf, Replies, Promise!Outcomes, Promise!Failures
  <2>4. got' \in 0..(MaxEvents + 1)
    BY <1>16, <2>2 DEF TypeOK, ReadPart, Conclude
  <2>5. verdict' \in Promise!Outcomes \cup {"none"}
    BY <1>16, <2>2, <2>3 DEF TypeOK, ReadPart, Conclude, Promise!Outcomes, Promise!Failures
  <2>6. ppc' \in {"reading", "reading_body", "deliver", "cleanup"}
    BY <1>16 DEF TypeOK, ReadPart, Conclude
  <2> QED
    BY <1>16, <2>1, <2>4, <2>5, <2>6 DEF TypeOK, ReadPart
<1>17. CASE ReadEof
  BY <1>17 DEF TypeOK, ReadEof, Conclude, Promise!Outcomes, Promise!Failures
<1>18. CASE Deliver
  <2>1. delivered' \in Seq(1..(MaxEvents + 1))
    <3>1. delivered \in Seq(1..(MaxEvents + 1)) /\ got \in 0..(MaxEvents + 1)
      BY DEF TypeOK
    <3>2. CASE got = 0
      BY <1>18, <3>1, <3>2 DEF Deliver
    <3>3. CASE got # 0
      <4>1. got \in 1..(MaxEvents + 1)
        BY <3>1, <3>3
      <4>2. Append(delivered, got) \in Seq(1..(MaxEvents + 1))
        BY <3>1, <4>1, AppendProperties
      <4> QED
        BY <1>18, <3>3, <4>2 DEF Deliver
    <3> QED
      BY <3>2, <3>3
  <2> QED
    BY <1>18, <2>1 DEF TypeOK, Deliver, Conclude, Promise!Outcomes, Promise!Failures
<1>19. CASE CloseReceiver
  BY <1>19 DEF TypeOK, CloseReceiver
<1>20. CASE KillIfAlive
  BY <1>20 DEF TypeOK, KillIfAlive
<1>21. CASE Join
  BY <1>21 DEF TypeOK, Join
<1>22. CASE DeadlinePasses
  BY <1>22 DEF TypeOK, DeadlinePasses
<1>23. CASE UNCHANGED vars
  BY <1>23 DEF TypeOK, vars
<1> QED
  BY <1>1, <1>2, <1>3, <1>4, <1>5, <1>6, <1>7, <1>8, <1>9, <1>10, <1>11, <1>12, <1>13,
     <1>14, <1>15, <1>16, <1>17, <1>18, <1>19, <1>20, <1>21, <1>22, <1>23
  DEF Next, Child, Parent, Over

(* The child answers after its last event and says how the call ended,     *)
(* whatever step is taken.                                                 *)
LEMMA ChildStep ==
    ASSUME TypeOK, ChildInOrder, [Next]_vars
    PROVE  ChildInOrder'
<1> USE DEF ChildInOrder, ChildRuns, parentVars, childVars
<1>1. CASE ApplyLimit
  BY <1>1 DEF ApplyLimit, Replies
<1>2. CASE SendEvent
  BY <1>2 DEF SendEvent, TypeOK
<1>3. CASE CallEnds
  BY <1>3 DEF CallEnds, TypeOK, Promise!Calls, Promise!Ends, Replies, Total
<1>4. CASE PickleReply
  BY <1>4 DEF PickleReply
<1>5. CASE PickleFallback
  BY <1>5 DEF PickleFallback, Replies
<1>6. CASE WritePart
  <2>1. cpc = "event" => outgoing' = <<>>
    <3>1. \A e : Tail(<<e>>) = <<>>
      OBVIOUS
    <3> QED
      BY <1>6, <3>1 DEF WritePart
  <2>2. cpc \in {"event", "reply", "last_reply"} /\ reply' = reply /\ sent' = sent
    BY <1>6 DEF WritePart
  <2>3. ppc \notin {"call", "start"} /\ ppc' = ppc /\ call' = call
    BY <1>6 DEF WritePart, ReaderOpen
  <2>4. cpc' = IF cpc = "event" THEN "run" ELSE cpc
    BY <1>6 DEF WritePart
  <2> QED
    BY <2>1, <2>2, <2>3, <2>4 DEF Total
<1>7. CASE WriteFails
  BY <1>7 DEF WriteFails, Replies
<1>8. CASE ChildCloses
  BY <1>8 DEF ChildCloses
<1>9. CASE ChildExits
  BY <1>9 DEF ChildExits
<1>10. CASE Crash
  BY <1>10 DEF Crash
<1>11. CASE KilledDies
  BY <1>11 DEF KilledDies
<1>12. CASE CheckMain
  BY <1>12 DEF CheckMain
<1>13. CASE Start
  BY <1>13 DEF Start
<1>14. CASE CloseSender
  BY <1>14 DEF CloseSender
<1>15. CASE TimeOut
  BY <1>15 DEF TimeOut, Conclude
<1>16. CASE ReadPart
  BY <1>16 DEF ReadPart, Conclude, MayRead
<1>17. CASE ReadEof
  BY <1>17 DEF ReadEof, Conclude, MayRead
<1>18. CASE Deliver
  BY <1>18 DEF Deliver, Conclude
<1>19. CASE CloseReceiver
  BY <1>19 DEF CloseReceiver
<1>20. CASE KillIfAlive
  BY <1>20 DEF KillIfAlive
<1>21. CASE Join
  BY <1>21 DEF Join
<1>22. CASE DeadlinePasses
  BY <1>22 DEF DeadlinePasses
<1>23. CASE UNCHANGED vars
  BY <1>23 DEF vars
<1> QED
  BY <1>1, <1>2, <1>3, <1>4, <1>5, <1>6, <1>7, <1>8, <1>9, <1>10, <1>11, <1>12, <1>13,
     <1>14, <1>15, <1>16, <1>17, <1>18, <1>19, <1>20, <1>21, <1>22, <1>23
  DEF Next, Child, Parent, Over

(* The parent delivers the event it took, the next one in order, and judges*)
(* only what the child said of a finished call.                            *)
LEMMA ParentStep ==
    ASSUME TypeOK, ChildInOrder, PipeInOrder, ParentInOrder, [Next]_vars
    PROVE  ParentInOrder'
<1> USE DEF ParentInOrder, parentVars, childVars
<1>1. CASE ApplyLimit
  BY <1>1 DEF ApplyLimit
<1>2. CASE SendEvent
  BY <1>2 DEF SendEvent
<1>3. CASE CallEnds
  BY <1>3 DEF CallEnds
<1>4. CASE PickleReply
  BY <1>4 DEF PickleReply
<1>5. CASE PickleFallback
  BY <1>5 DEF PickleFallback
<1>6. CASE WritePart
  BY <1>6 DEF WritePart
<1>7. CASE WriteFails
  BY <1>7 DEF WriteFails
<1>8. CASE ChildCloses
  BY <1>8 DEF ChildCloses
<1>9. CASE ChildExits
  BY <1>9 DEF ChildExits
<1>10. CASE Crash
  BY <1>10 DEF Crash
<1>11. CASE KilledDies
  BY <1>11 DEF KilledDies
<1>12. CASE CheckMain
  BY <1>12 DEF CheckMain
<1>13. CASE Start
  BY <1>13 DEF Start
<1>14. CASE CloseSender
  BY <1>14 DEF CloseSender
<1>15. CASE TimeOut
  BY <1>15 DEF TimeOut, Conclude
<1>16. CASE ReadPart
  <2> DEFINE p == Head(pipe)
  <2>1. pipe \in Seq(Parts) /\ 1 \in DOMAIN pipe /\ p = pipe[1]
    BY <1>16 DEF TypeOK, ReadPart
  <2>2. ReaderOpen /\ ppc # "deliver" /\ Taken = Len(delivered)
    BY <1>16 DEF ReadPart, MayRead, ReaderOpen, Taken
  <2>3. sent \in Nat /\ Written \in Int /\ Len(delivered) \in Nat
    BY DEF TypeOK, Written
  <2>4. p.n \in {0, Len(delivered) + 1}
    <3>1. CASE 1 <= Written - Taken
      <4>1. pipe[1] = Event(Taken + 1)
        BY <2>1, <2>2, <3>1 DEF PipeInOrder
      <4> QED
        BY <2>1, <2>2, <4>1 DEF Event
    <3>2. CASE ~(1 <= Written - Taken)
      <4>1. 1 > Written - Taken
        BY <2>2, <2>3, <3>2
      <4> QED
        BY <2>1, <2>2, <4>1 DEF PipeInOrder
    <3> QED
      BY <3>1, <3>2
  <2>5. p.what \in {"ok", "error", "broken"} =>
          p.what = call.end /\ Len(delivered) = Total(call)
    BY <2>1, <2>2, <2>3 DEF PipeInOrder, ChildInOrder, Event, Written
  <2>6. p.what \in {"progress"} \cup Replies
    <3>1. pipe[1] \in Parts
      BY <2>1
    <3> QED
      BY <2>1, <3>1 DEF Parts
  <2>7. verdict = "none" /\ result = "none"
    BY <1>16 DEF ReadPart, MayRead, TypeOK
  <2>8. delivered' = delivered /\ call' = call /\ result' = result
    BY <1>16 DEF ReadPart
  <2>9. \/ verdict' = verdict /\ ppc' \in {"reading", "reading_body"}
        \/ verdict' = verdict /\ ppc' = "deliver" /\ got' = p.n
        \/ verdict' = "resource_limit" /\ ppc' = "cleanup"
        \/ p.what # "progress" /\ verdict' = VerdictOf(p.what) /\ ppc' = "cleanup"
    BY <1>16 DEF ReadPart, Conclude
  <2>10. \A w \in Replies : /\ VerdictOf(w) = "value" => w = "ok"
                            /\ VerdictOf(w) = "raised" => w \in {"error", "memory", "broken"}
    BY DEF VerdictOf, Replies
  <2>11. verdict' = "value" => p.what = "ok"
    BY <2>6, <2>7, <2>9, <2>10
  <2>12. verdict' = "raised" => p.what \in {"error", "broken"}
    BY <2>6, <2>7, <2>9 DEF VerdictOf, Replies
  <2>13. call.end # "broken"
    BY DEF TypeOK, Promise!Calls, Promise!Ends
  <2> QED
    BY <2>4, <2>5, <2>7, <2>8, <2>9, <2>11, <2>12, <2>13 DEF Total
<1>17. CASE ReadEof
  BY <1>17 DEF ReadEof, Conclude, MayRead
<1>18. CASE Deliver
  <2>1. delivered \in Seq(1..(MaxEvents + 1)) /\ got \in {0, Len(delivered) + 1}
    BY <1>18 DEF TypeOK, Deliver
  <2>2. \A i \in DOMAIN delivered' : delivered'[i] = i
    BY <1>18, <2>1 DEF Deliver
  <2>3. verdict = "none" /\ result = "none" /\ verdict' \in {"none", "callback_raised"}
    BY <1>18 DEF Deliver, Conclude, TypeOK
  <2> QED
    BY <1>18, <2>2, <2>3 DEF Deliver, Conclude
<1>19. CASE CloseReceiver
  BY <1>19 DEF CloseReceiver
<1>20. CASE KillIfAlive
  BY <1>20 DEF KillIfAlive
<1>21. CASE Join
  BY <1>21 DEF Join
<1>22. CASE DeadlinePasses
  BY <1>22 DEF DeadlinePasses
<1>23. CASE UNCHANGED vars
  BY <1>23 DEF vars
<1> QED
  BY <1>1, <1>2, <1>3, <1>4, <1>5, <1>6, <1>7, <1>8, <1>9, <1>10, <1>11, <1>12, <1>13,
     <1>14, <1>15, <1>16, <1>17, <1>18, <1>19, <1>20, <1>21, <1>22, <1>23
  DEF Next, Child, Parent, Over

(* Only a part with a number makes a message a numbered one.               *)
LEMMA NumberedParts ==
    /\ ~Numbered(<<>>)
    /\ \A k \in Nat : Numbered(<<Event(k)>>) <=> k # 0
    /\ \A w \in Replies : ~Numbered(Message(w))
<1>1. ~Numbered(<<>>)
  BY DEF Numbered
<1>2. ASSUME NEW k \in Nat PROVE Numbered(<<Event(k)>>) <=> k # 0
  BY DEF Numbered, Event
<1>3. ASSUME NEW w \in Replies PROVE ~Numbered(Message(w))
  BY MessageParts DEF Numbered
<1> QED
  BY <1>1, <1>2, <1>3

(* Writes, reads, a closed end and a death leave the pipe in order: events *)
(* written and not taken first, the reply last.                            *)
LEMMA PipeStep ==
    ASSUME TypeOK, ChildInOrder, PipeInOrder, ParentInOrder, [Next]_vars
    PROVE  PipeInOrder'
<1> USE DEF parentVars, childVars
<1>0. /\ sent \in Nat /\ Written \in Int /\ Taken \in Nat /\ Len(pipe) \in Nat
      /\ pipe \in Seq(Parts) /\ outgoing \in Seq(Parts)
      /\ sent' \in Nat /\ Written' \in Int /\ Taken' \in Nat /\ Len(pipe') \in Nat
      /\ pipe' \in Seq(Parts) /\ outgoing' \in Seq(Parts)
  BY TypeStep DEF TypeOK, Written, Taken
<1>1. CASE ApplyLimit
  <2>1. /\ outgoing = <<>> /\ ~Numbered(outgoing) /\ reply = "none"
        /\ reply' \in {"none", "limit_refused"} /\ cpc = "boot"
    BY <1>1, NumberedParts DEF ApplyLimit, ChildInOrder
  <2>2. /\ pipe' = pipe /\ outgoing' = outgoing /\ sent' = sent
        /\ ReaderOpen' = ReaderOpen /\ Taken' = Taken /\ Written' = Written
        /\ Total(call)' = Total(call)
    BY <1>1 DEF ApplyLimit, ReaderOpen, Taken, Written, Total
  <2>3. ~Numbered(outgoing')
    BY <2>1, <2>2
  <2>4. ReaderOpen => \A k \in DOMAIN pipe : pipe[k].what = "progress"
    BY <2>1 DEF PipeInOrder
  <2> QED
    BY <2>1, <2>2, <2>3, <2>4 DEF PipeInOrder
<1>2. CASE SendEvent
  <2>1. outgoing = <<>> /\ ~Numbered(outgoing) /\ Written = sent /\ reply = "none"
    BY <1>2, NumberedParts DEF SendEvent, ChildInOrder, Written
  <2>2. /\ pipe' = pipe /\ ReaderOpen' = ReaderOpen /\ reply' = reply
        /\ Total(call)' = Total(call) /\ Taken' = Taken /\ cpc = "run"
    BY <1>2 DEF SendEvent, ReaderOpen, Taken, Total
  <2>3. CASE sent < Total(call) /\ sent' = sent + 1 /\ outgoing' = <<Event(sent + 1)>>
    <3>1. Numbered(outgoing') /\ Written' = sent /\ outgoing' = <<Event(sent')>>
      BY <1>0, <2>3, NumberedParts DEF Written
    <3>2. \A k \in DOMAIN outgoing' : outgoing'[k].what = "progress"
      BY <2>3 DEF Event
    <3> QED
      BY <1>0, <2>1, <2>2, <2>3, <3>1, <3>2 DEF PipeInOrder
  <2>4. CASE sent = Total(call) /\ outgoing' = <<Event(0)>> /\ sent' = sent
    <3>1. ~Numbered(outgoing') /\ Written' = sent
      BY <1>0, <2>4, NumberedParts DEF Written
    <3>2. \A k \in DOMAIN outgoing' : outgoing'[k].what = "progress"
      BY <2>4 DEF Event
    <3> QED
      BY <1>0, <2>1, <2>2, <2>4, <3>1, <3>2 DEF PipeInOrder
  <2> QED
    BY <1>2, <2>3, <2>4 DEF SendEvent
<1>3. CASE CallEnds
  <2>1. cpc = "run" /\ outgoing = <<>> /\ ~Numbered(outgoing) /\ reply' = call.end
    BY <1>3, NumberedParts DEF CallEnds, ChildInOrder
  <2>2. /\ pipe' = pipe /\ outgoing' = outgoing /\ sent' = sent
        /\ ReaderOpen' = ReaderOpen /\ Taken' = Taken /\ Written' = Written
    BY <1>3 DEF CallEnds, ReaderOpen, Taken, Written
  <2>3. call.end \notin {"none", "broken"}
    BY DEF TypeOK, Promise!Calls, Promise!Ends
  <2> QED
    BY <2>1, <2>2, <2>3 DEF PipeInOrder
<1>4. CASE PickleReply
  <2>1. cpc = "send" /\ outgoing = <<>> /\ reply \in Replies /\ reply' = reply
    BY <1>4 DEF PickleReply, ChildInOrder
  <2>2. pipe' = pipe /\ sent' = sent /\ ReaderOpen' = ReaderOpen /\ Taken' = Taken
    BY <1>4 DEF PickleReply, ReaderOpen, Taken
  <2>3. outgoing' = Message(reply) \/ outgoing' = <<>>
    BY <1>4, <2>1 DEF PickleReply
  <2>4. ~Numbered(outgoing) /\ ~Numbered(outgoing')
    BY <2>1, <2>3, NumberedParts
  <2>5. Written' = Written
    BY <2>2, <2>4 DEF Written
  <2>6. \A k \in DOMAIN outgoing' : outgoing'[k].what = reply
    BY <2>1, <2>3, MessageParts
  <2>7. reply # "none"
    BY <2>1 DEF Replies
  <2> QED
    BY <2>1, <2>2, <2>4, <2>5, <2>6, <2>7 DEF PipeInOrder
<1>5. CASE PickleFallback
  <2>1. cpc = "fallback" /\ outgoing = <<>> /\ reply' = "unreturnable" /\ "unreturnable" \in Replies
    BY <1>5 DEF PickleFallback, ChildInOrder, Replies
  <2>2. pipe' = pipe /\ sent' = sent /\ ReaderOpen' = ReaderOpen /\ Taken' = Taken
    BY <1>5 DEF PickleFallback, ReaderOpen, Taken
  <2>3. outgoing' = Message("unreturnable")
    BY <1>5 DEF PickleFallback
  <2>4. ~Numbered(outgoing) /\ ~Numbered(outgoing')
    BY <2>1, <2>3, NumberedParts
  <2>5. Written' = Written
    BY <2>2, <2>4 DEF Written
  <2>6. \A k \in DOMAIN outgoing' : outgoing'[k].what = "unreturnable"
    BY <2>1, <2>3, MessageParts
  <2> QED
    BY <2>1, <2>2, <2>4, <2>5, <2>6 DEF PipeInOrder
<1>6. CASE WritePart
  <2>1. /\ ReaderOpen /\ outgoing # <<>> /\ cpc \in {"event", "reply", "last_reply"}
        /\ pipe' = Append(pipe, Head(outgoing)) /\ outgoing' = Tail(outgoing)
        /\ cpc' = (IF cpc = "event" THEN "run" ELSE cpc)
    BY <1>6 DEF WritePart, ChildInOrder, ChildRuns, TypeOK
  <2>2. /\ sent' = sent /\ reply' = reply /\ Taken' = Taken /\ call' = call
        /\ Total(call)' = Total(call)
    BY <1>6 DEF WritePart, Taken, Total
  <2>3. Len(pipe') = Len(pipe) + 1 /\ DOMAIN pipe' = 1..(Len(pipe) + 1)
    BY <1>0, <2>1, AppendProperties
  <2>4. \A k \in DOMAIN pipe : pipe'[k] = pipe[k]
    BY <1>0, <2>1, AppendProperties
  <2>5. pipe'[Len(pipe) + 1] = outgoing[1] /\ 1 \in DOMAIN outgoing
    BY <1>0, <2>1, AppendProperties
  <2>6. CASE Numbered(outgoing)
    <3>1. outgoing = <<Event(sent)>> /\ reply = "none" /\ Written = sent - 1
      BY <2>1, <2>6 DEF PipeInOrder, Written
    <3>2. outgoing' = <<>> /\ ~Numbered(outgoing') /\ Written' = sent
      <4>1. \A e : Tail(<<e>>) = <<>>
        OBVIOUS
      <4> QED
        BY <2>1, <2>2, <3>1, <4>1, NumberedParts DEF Written
    <3>3. Written = Taken + Len(pipe)
      BY <2>1, <2>6, <3>1 DEF PipeInOrder
    <3>4. pipe'[Len(pipe) + 1] = Event(Taken + Len(pipe) + 1)
      BY <1>0, <2>5, <3>1, <3>3
    <3>5. \A k \in DOMAIN pipe' : pipe'[k] = Event(Taken + k)
      <4> TAKE k \in DOMAIN pipe'
      <4>1. CASE k \in DOMAIN pipe
        <5>1. k <= Written - Taken
          BY <1>0, <3>3, <4>1
        <5> QED
          BY <2>1, <2>4, <4>1, <5>1 DEF PipeInOrder
      <4>2. CASE k = Len(pipe) + 1
        <5>1. Taken + k = Taken + Len(pipe) + 1
          BY <1>0, <4>2
        <5> QED
          BY <3>4, <4>2, <5>1
      <4> QED
        BY <1>0, <2>3, <4>1, <4>2
    <3>6. \A k \in DOMAIN pipe' : pipe'[k].what = "progress"
      BY <3>5 DEF Event
    <3> QED
      BY <1>0, <2>1, <2>2, <2>3, <3>1, <3>2, <3>3, <3>5, <3>6 DEF PipeInOrder
  <2>7. CASE ~Numbered(outgoing)
    <3>1. outgoing[1].n = 0
      BY <2>5, <2>7 DEF Numbered
    <3>2. \A k \in DOMAIN outgoing' : k + 1 \in DOMAIN outgoing /\ outgoing'[k] = outgoing[k + 1]
      BY <1>0, <2>1
    <3>3. ~Numbered(outgoing') /\ Written' = Written
      BY <2>2, <2>7, <3>2 DEF Numbered, Written
    <3>4. cpc = "event" => outgoing = <<Event(0)>> /\ sent = Total(call)
      BY <1>0, <2>7, NumberedParts DEF ChildInOrder
    <3>5. ~(reply = "none" /\ sent < Total(call))
      BY <1>0, <2>1, <3>4 DEF ChildInOrder, Replies
    <3>6. outgoing[1].what # "progress" => outgoing[1].what = reply /\ cpc \in {"reply", "last_reply"}
      BY <2>1, <2>5, <3>4 DEF PipeInOrder, Event
    <3>7. \A k \in DOMAIN pipe' : k \in DOMAIN pipe \/ k = Len(pipe) + 1
      BY <1>0, <2>3
    <3>8. \A k \in DOMAIN pipe' : k <= Written - Taken => pipe'[k] = Event(Taken + k)
      BY <1>0, <2>1, <2>4, <3>7 DEF PipeInOrder
    <3>9. \A k \in DOMAIN pipe' : k > Written - Taken => pipe'[k].n = 0
      BY <1>0, <2>1, <2>4, <2>5, <3>1, <3>7 DEF PipeInOrder
    <3>10. \A k \in DOMAIN pipe' : pipe'[k].what # "progress" =>
              pipe'[k].what = reply /\ cpc' \in {"reply", "last_reply", "closed", "exited"}
      BY <2>1, <2>4, <2>5, <3>6, <3>7 DEF PipeInOrder
    <3>11. \A k \in DOMAIN outgoing' : outgoing'[k].what # "progress" => outgoing'[k].what = reply
      BY <2>1, <3>2 DEF PipeInOrder
    <3> QED
      BY <1>0, <2>1, <2>2, <2>3, <3>3, <3>5, <3>8, <3>9, <3>10, <3>11 DEF PipeInOrder
  <2> QED
    BY <2>6, <2>7
<1>7. CASE WriteFails
  BY <1>7, <1>0 DEF WriteFails, PipeInOrder, ChildInOrder, ReaderOpen, Taken, Written, Numbered, Conclude, MayRead, ChildRuns, Total, Event
<1>8. CASE ChildCloses
  BY <1>8, <1>0 DEF ChildCloses, PipeInOrder, ChildInOrder, ReaderOpen, Taken, Written, Numbered, Conclude, MayRead, ChildRuns, Total, Event
<1>9. CASE ChildExits
  BY <1>9, <1>0 DEF ChildExits, PipeInOrder, ChildInOrder, ReaderOpen, Taken, Written, Numbered, Conclude, MayRead, ChildRuns, Total, Event
<1>10. CASE Crash
  BY <1>10, <1>0 DEF Crash, PipeInOrder, ChildInOrder, ReaderOpen, Taken, Written, Numbered, Conclude, MayRead, ChildRuns, Total, Event
<1>11. CASE KilledDies
  BY <1>11, <1>0 DEF KilledDies, PipeInOrder, ChildInOrder, ReaderOpen, Taken, Written, Numbered, Conclude, MayRead, ChildRuns, Total, Event
<1>12. CASE CheckMain
  BY <1>12, <1>0 DEF CheckMain, PipeInOrder, ChildInOrder, ReaderOpen, Taken, Written, Numbered, Conclude, MayRead, ChildRuns, Total, Event
<1>13. CASE Start
  BY <1>13, <1>0 DEF Start, PipeInOrder, ChildInOrder, ReaderOpen, Taken, Written, Numbered, Conclude, MayRead, ChildRuns, Total, Event
<1>14. CASE CloseSender
  BY <1>14, <1>0 DEF CloseSender, PipeInOrder, ChildInOrder, ReaderOpen, Taken, Written, Numbered, Conclude, MayRead, ChildRuns, Total, Event
<1>15. CASE TimeOut
  BY <1>15, <1>0 DEF TimeOut, PipeInOrder, ChildInOrder, ReaderOpen, Taken, Written, Numbered, Conclude, MayRead, ChildRuns, Total, Event
<1>16. CASE ReadPart
  <2> DEFINE p == Head(pipe)
  <2>1. /\ ReaderOpen /\ ppc # "deliver" /\ Taken = Len(delivered)
        /\ pipe # <<>> /\ pipe' = Tail(pipe)
    BY <1>16 DEF ReadPart, MayRead, ReaderOpen, Taken
  <2>2. 1 \in DOMAIN pipe /\ p = pipe[1] /\ Len(pipe') = Len(pipe) - 1
    BY <1>0, <2>1
  <2>3. \A k \in DOMAIN pipe' : k \in Nat \ {0} /\ k + 1 \in DOMAIN pipe /\ pipe'[k] = pipe[k + 1]
    BY <1>0, <2>1
  <2>4. /\ outgoing' = outgoing /\ sent' = sent /\ reply' = reply /\ cpc' = cpc
        /\ Written' = Written /\ Total(call)' = Total(call) /\ delivered' = delivered
    BY <1>16 DEF ReadPart, Written, Total
  <2>5. CASE 1 <= Written - Taken
    <3>1. p = Event(Taken + 1)
      BY <2>1, <2>2, <2>5 DEF PipeInOrder
    <3>2. ppc' = "deliver" /\ got' = Taken + 1
      BY <1>16, <3>1 DEF ReadPart, Event
    <3>3. Taken' = Taken + 1
      BY <1>0, <2>1, <2>4, <3>2 DEF Taken
    <3>4. \A k \in DOMAIN pipe' : k <= Written' - Taken' => pipe'[k] = Event(Taken' + k)
      <4> SUFFICES ASSUME NEW k \in DOMAIN pipe', k <= Written' - Taken'
                   PROVE  pipe'[k] = Event(Taken' + k)
        OBVIOUS
      <4>0. k \in Nat /\ k <= Written - (Taken + 1)
        BY <2>3, <2>4, <3>3
      <4>1. k + 1 <= Written - Taken /\ Taken + (k + 1) = Taken' + k
        <5>1. Taken \in Nat /\ Written \in Int
          BY <1>0
        <5>2. k + 1 <= Written - Taken
          BY <4>0, <5>1
        <5>3. Taken + (k + 1) = Taken + 1 + k
          BY <4>0, <5>1
        <5> QED
          BY <3>3, <5>2, <5>3
      <4>2. pipe[k + 1] = Event(Taken + (k + 1))
        BY <2>1, <2>3, <4>1 DEF PipeInOrder
      <4> QED
        BY <2>3, <4>1, <4>2
    <3>5. \A k \in DOMAIN pipe' : k > Written' - Taken' => pipe'[k].n = 0
      BY <1>0, <2>1, <2>3, <2>4, <3>3 DEF PipeInOrder
    <3>6. Taken' <= Written' /\ Written' <= Taken' + Len(pipe')
      BY <1>0, <2>1, <2>2, <2>4, <2>5, <3>3 DEF PipeInOrder
    <3>7. reply = "none" /\ (sent < Total(call) \/ Numbered(outgoing)) => Written' = Taken' + Len(pipe')
      <4>1. reply = "none" /\ (sent < Total(call) \/ Numbered(outgoing)) => Written = Taken + Len(pipe)
        BY <2>1 DEF PipeInOrder
      <4>2. Written = Taken + Len(pipe) => Written' = Taken' + Len(pipe')
        BY <1>0, <2>2, <2>4, <3>3
      <4> QED
        BY <4>1, <4>2
    <3>8. \A k \in DOMAIN pipe' : pipe'[k].what # "progress" =>
             pipe'[k].what = reply /\ cpc \in {"reply", "last_reply", "closed", "exited"}
      BY <2>1, <2>3 DEF PipeInOrder
    <3> QED
      BY <2>1, <2>4, <3>4, <3>5, <3>6, <3>7, <3>8 DEF PipeInOrder
  <2>6. CASE ~(1 <= Written - Taken)
    <3>1. Written = Taken /\ p.n = 0
      BY <1>0, <2>1, <2>2, <2>6 DEF PipeInOrder
    <3>2. ppc' = "deliver" => got' = 0
      BY <1>16, <3>1 DEF ReadPart, Conclude
    <3>3. Taken' = Taken
      BY <1>0, <2>1, <2>4, <3>2 DEF Taken
    <3>4. ~(reply = "none" /\ (sent < Total(call) \/ Numbered(outgoing)))
      BY <1>0, <2>1, <2>2, <3>1 DEF PipeInOrder
    <3>5. \A k \in DOMAIN pipe' : k <= Written' - Taken' => pipe'[k] = Event(Taken' + k)
      BY <1>0, <2>3, <2>4, <3>1, <3>3
    <3>6. \A k \in DOMAIN pipe' : k > Written' - Taken' => pipe'[k].n = 0
      BY <1>0, <2>1, <2>3, <2>4, <3>1, <3>3 DEF PipeInOrder
    <3> QED
      BY <1>0, <2>1, <2>2, <2>3, <2>4, <3>1, <3>3, <3>4, <3>5, <3>6 DEF PipeInOrder
  <2> QED
    BY <2>5, <2>6
<1>17. CASE ReadEof
  BY <1>17, <1>0 DEF ReadEof, PipeInOrder, ChildInOrder, ReaderOpen, Taken, Written, Numbered, Conclude, MayRead, ChildRuns, Total, Event
<1>18. CASE Deliver
  <2>1. /\ ReaderOpen /\ ppc = "deliver" /\ ppc' # "deliver"
        /\ delivered' = (IF got = 0 THEN delivered ELSE Append(delivered, got))
    BY <1>18 DEF Deliver, Conclude, ReaderOpen
  <2>2. /\ pipe' = pipe /\ outgoing' = outgoing /\ sent' = sent /\ reply' = reply /\ cpc' = cpc
        /\ Written' = Written /\ Total(call)' = Total(call)
    BY <1>18 DEF Deliver, Written, Total
  <2>3. Taken' = Taken
    <3>1. delivered \in Seq(1..(MaxEvents + 1))
      BY DEF TypeOK
    <3> QED
      BY <2>1, <3>1 DEF Taken
  <2> QED
    BY <2>1, <2>2, <2>3 DEF PipeInOrder
<1>19. CASE CloseReceiver
  BY <1>19, <1>0 DEF CloseReceiver, PipeInOrder, ChildInOrder, ReaderOpen, Taken, Written, Numbered, Conclude, MayRead, ChildRuns, Total, Event
<1>20. CASE KillIfAlive
  BY <1>20, <1>0 DEF KillIfAlive, PipeInOrder, ChildInOrder, ReaderOpen, Taken, Written, Numbered, Conclude, MayRead, ChildRuns, Total, Event
<1>21. CASE Join
  BY <1>21, <1>0 DEF Join, PipeInOrder, ChildInOrder, ReaderOpen, Taken, Written, Numbered, Conclude, MayRead, ChildRuns, Total, Event
<1>22. CASE DeadlinePasses
  BY <1>22, <1>0 DEF DeadlinePasses, PipeInOrder, ChildInOrder, ReaderOpen, Taken, Written, Numbered, Conclude, MayRead, ChildRuns, Total, Event
<1>23. CASE UNCHANGED vars
  BY <1>23 DEF vars, PipeInOrder, ReaderOpen, Taken, Written, Numbered
<1> QED
  BY <1>1, <1>2, <1>3, <1>4, <1>5, <1>6, <1>7, <1>8, <1>9, <1>10, <1>11, <1>12, <1>13,
     <1>14, <1>15, <1>16, <1>17, <1>18, <1>19, <1>20, <1>21, <1>22, <1>23
  DEF Next, Child, Parent, Over
-----------------------------------------------------------------------------
IInv == TypeOK /\ StreamInOrder

(* A call that has not begun has sent nothing and judged nothing.          *)
LEMMA InitIInv == Init => IInv
<1> SUFFICES ASSUME Init PROVE IInv
  OBVIOUS
<1>1. TypeOK
  <2>1. 0 \in 0..(MaxEvents + 1) /\ 0 <= 3 /\ 0 <= PipeSize
    OBVIOUS
  <2>2. \A S : <<>> \in Seq(S) /\ Len(<<>>) = 0
    OBVIOUS
  <2> QED
    BY <2>1, <2>2 DEF Init, TypeOK
<1>2. ChildInOrder
  BY DEF Init, ChildInOrder
<1>3. PipeInOrder
  BY DEF Init, PipeInOrder, ReaderOpen
<1>4. ParentInOrder
  BY DEF Init, ParentInOrder
<1> QED
  BY <1>1, <1>2, <1>3, <1>4 DEF IInv, StreamInOrder

(* The four parts together are inductive.                                  *)
LEMMA NextIInv == IInv /\ [Next]_vars => IInv'
BY TypeStep, ChildStep, PipeStep, ParentStep DEF IInv, StreamInOrder

(* So they hold in every state of every call.                              *)
LEMMA Invariant == Spec => []IInv
<1>1. Init => IInv
  BY InitIInv
<1>2. IInv /\ [Next]_vars => IInv'
  BY NextIInv
<1> QED
  BY <1>1, <1>2, PTL DEF Spec

(* The state of a call stays in its types, whatever befalls the child.     *)
THEOREM TypeCorrect == Spec => []TypeOK
<1>1. IInv => TypeOK
  BY DEF IInv
<1> QED
  BY <1>1, Invariant, PTL

(* The pipe holds the events not yet taken, in order, ahead of the reply.  *)
THEOREM PipeCorrect == Spec => []StreamInOrder
<1>1. IInv => StreamInOrder
  BY DEF IInv
<1> QED
  BY <1>1, Invariant, PTL

(* run_isolated hands on_progress the events of the call in order, with    *)
(* none lost or doubled, and returns its value only after all of them, for *)
(* every number of events and every capacity of the pipe.                  *)
THEOREM FaithfulCorrect == Spec => []Faithful
<1>1. IInv => Faithful
  BY DEF IInv, StreamInOrder, ParentInOrder, Faithful
<1> QED
  BY <1>1, Invariant, PTL

-----------------------------------------------------------------------------
(* Before the start there is no child to run.                              *)
LEMMA StoppedInit == Init => ChildStopped
BY DEF Init, ChildStopped, ChildRuns

(* Past the kill nothing sets the child going again, and nothing fills the *)
(* pipe whose reader is closed.                                            *)
LEMMA StoppedStep ==
    ASSUME ChildStopped, [Next]_vars
    PROVE  ChildStopped'
<1> USE DEF ChildStopped, ChildRuns, parentVars, childVars
<1>1. CASE ApplyLimit
  BY <1>1 DEF ApplyLimit
<1>2. CASE SendEvent
  BY <1>2 DEF SendEvent
<1>3. CASE CallEnds
  BY <1>3 DEF CallEnds
<1>4. CASE PickleReply
  BY <1>4 DEF PickleReply
<1>5. CASE PickleFallback
  BY <1>5 DEF PickleFallback
<1>6. CASE WritePart
  BY <1>6 DEF WritePart, ReaderOpen
<1>7. CASE WriteFails
  BY <1>7 DEF WriteFails
<1>8. CASE ChildCloses
  BY <1>8 DEF ChildCloses
<1>9. CASE ChildExits
  BY <1>9 DEF ChildExits
<1>10. CASE Crash
  BY <1>10 DEF Crash
<1>11. CASE KilledDies
  BY <1>11 DEF KilledDies
<1>12. CASE CheckMain
  BY <1>12 DEF CheckMain
<1>13. CASE Start
  BY <1>13 DEF Start
<1>14. CASE CloseSender
  BY <1>14 DEF CloseSender
<1>15. CASE TimeOut
  BY <1>15 DEF TimeOut, Conclude
<1>16. CASE ReadPart
  BY <1>16 DEF ReadPart, Conclude, MayRead
<1>17. CASE ReadEof
  BY <1>17 DEF ReadEof, Conclude, MayRead
<1>18. CASE Deliver
  BY <1>18 DEF Deliver, Conclude
<1>19. CASE CloseReceiver
  BY <1>19 DEF CloseReceiver
<1>20. CASE KillIfAlive
  BY <1>20 DEF KillIfAlive
<1>21. CASE Join
  BY <1>21 DEF Join
<1>22. CASE DeadlinePasses
  BY <1>22 DEF DeadlinePasses
<1>23. CASE UNCHANGED vars
  BY <1>23 DEF vars
<1> QED
  BY <1>1, <1>2, <1>3, <1>4, <1>5, <1>6, <1>7, <1>8, <1>9, <1>10, <1>11, <1>12, <1>13,
     <1>14, <1>15, <1>16, <1>17, <1>18, <1>19, <1>20, <1>21, <1>22, <1>23
  DEF Next, Child, Parent, Over

(* A child whose caller has left computes, sends and answers nothing more. *)
LEMMA StoppedSteps ==
    ASSUME ChildStopped, [Next]_vars, result # "none"
    PROVE  UNCHANGED <<sent, reply, outgoing, pipe>>
<1>1. ppc = "done" /\ ~ChildRuns /\ pipe = <<>>
  BY DEF ChildStopped
<1>2. ASSUME Child PROVE FALSE
  BY <1>1, <1>2 DEF Child, ApplyLimit, SendEvent, CallEnds, PickleReply, PickleFallback,
                    WritePart, WriteFails, ChildCloses, ChildExits
<1>3. ASSUME Parent PROVE FALSE
  BY <1>1, <1>3 DEF Parent, CheckMain, Start, CloseSender, TimeOut, ReadPart, ReadEof, MayRead,
                    Deliver, CloseReceiver, KillIfAlive, Join
<1>4. CASE Crash \/ KilledDies \/ DeadlinePasses
  BY <1>4 DEF Crash, KilledDies, DeadlinePasses, childVars
<1> QED
  BY <1>2, <1>3, <1>4 DEF Next, Over, vars, childVars

(* Once the caller has its outcome the child never runs again, on every    *)
(* way out of run_isolated.                                                *)
THEOREM StoppedCorrect == Spec => StoppedForGood
<1>1. Init => ChildStopped
  BY StoppedInit
<1>2. ChildStopped /\ [Next]_vars => ChildStopped'
  BY StoppedStep
<1>3. ChildStopped /\ [Next]_vars => [result # "none" => UNCHANGED <<sent, reply, outgoing, pipe>>]_vars
  BY StoppedSteps
<1> QED
  BY <1>1, <1>2, <1>3, PTL DEF Spec, StoppedForGood

-----------------------------------------------------------------------------
(* Taking the first part of a sequence moves the others up.               *)
LEMMA TailParts ==
    ASSUME NEW S, NEW s \in Seq(S), s # <<>>
    PROVE  /\ 1 \in DOMAIN s /\ Head(s) = s[1] /\ Len(Tail(s)) = Len(s) - 1
           /\ \A k \in DOMAIN Tail(s) : k + 1 \in DOMAIN s /\ Tail(s)[k] = s[k + 1]
           /\ Tail(s) # <<>> => Tail(s)[Len(Tail(s))] = s[Len(s)]
           /\ Tail(s) = <<>> => Head(s) = s[Len(s)]
<1>1. 1 \in DOMAIN s /\ Head(s) = s[1]
  OBVIOUS
<1>2. Tail(s) \in Seq(S) /\ Len(Tail(s)) = Len(s) - 1
  OBVIOUS
<1>3. \A k \in DOMAIN Tail(s) : k + 1 \in DOMAIN s /\ Tail(s)[k] = s[k + 1]
  OBVIOUS
<1>4. ASSUME Tail(s) # <<>> PROVE Tail(s)[Len(Tail(s))] = s[Len(s)]
  <2>1. Len(Tail(s)) \in DOMAIN Tail(s)
    BY <1>2, <1>4
  <2> QED
    BY <1>2, <1>3, <2>1
<1>5. ASSUME Tail(s) = <<>> PROVE Head(s) = s[Len(s)]
  <2>1. Len(<<>>) = 0 /\ Len(s) \in Nat
    OBVIOUS
  <2>2. Len(Tail(s)) = 0
    BY <1>5, <2>1, Zenon
  <2>3. \A n \in Nat : n - 1 = 0 => n = 1
    OBVIOUS
  <2>4. Len(s) = 1
    BY <1>2, <2>1, <2>2, <2>3, Zenon
  <2> QED
    BY <1>1, <2>4
<1>6. Tail(s) # <<>> => Tail(s)[Len(Tail(s))] = s[Len(s)]
  BY <1>4
<1>7. Tail(s) = <<>> => Head(s) = s[Len(s)]
  BY <1>5
<1> QED
  BY <1>1, <1>2, <1>3, <1>6, <1>7, Zenon

(* A reply ends in the part that completes it, and only a reply over the   *)
(* size cap is announced as such.                                          *)
LEMMA MessageEnds ==
    ASSUME NEW w \in Replies
    PROVE  /\ Message(w) # <<>> /\ EndsReply(Message(w)[Len(Message(w))])
           /\ \A i \in DOMAIN Message(w) : Message(w)[i].part = "huge_header" => call.weight = "huge"
<1>1. "progress" \notin Replies
  BY DEF Replies
<1> QED
  BY <1>1 DEF Message, Part, EndsReply

(* The child leaves its reply in the pipe before it goes.                  *)
LEMMA AnswerStep ==
    ASSUME TypeOK, ChildInOrder, PipeInOrder, ChildStopped, AnswerWaits, [Next]_vars
    PROVE  AnswerWaits'
<1> USE DEF AnswerWaits, Answered, ReaderOpen, ChildRuns, parentVars, childVars
<1>0. pipe \in Seq(Parts) /\ outgoing \in Seq(Parts) /\ Len(pipe) \in Nat
  BY DEF TypeOK
<1>1. CASE ApplyLimit
  BY <1>1 DEF ApplyLimit
<1>2. CASE SendEvent
  BY <1>2 DEF SendEvent, Event
<1>3. CASE CallEnds
  BY <1>3 DEF CallEnds
<1>4. CASE PickleReply
  <2>1. reply \in Replies /\ outgoing = <<>> /\ cpc = "send"
    BY <1>4 DEF PickleReply, ChildInOrder
  <2>2. outgoing' = Message(reply) \/ outgoing' = <<>>
    BY <1>4, <2>1 DEF PickleReply
  <2> QED
    BY <1>4, <2>1, <2>2, MessageEnds DEF PickleReply
<1>5. CASE PickleFallback
  <2>1. "unreturnable" \in Replies
    BY DEF Replies
  <2> QED
    BY <1>5, <2>1, MessageEnds DEF PickleFallback
<1>6. CASE WritePart
  <2>1. /\ ppc' = ppc /\ call' = call /\ writers' = writers /\ killed' = killed /\ fate' = fate
        /\ reply' = reply /\ verdict' = verdict /\ expired' = expired
        /\ cpc' = IF cpc = "event" THEN "run" ELSE cpc
    BY <1>6 DEF WritePart
  <2>2. outgoing # <<>> /\ outgoing' = Tail(outgoing) /\ pipe' = Append(pipe, Head(outgoing))
    BY <1>6 DEF WritePart
  <2>3. cpc \in {"event", "reply", "last_reply"}
    BY <1>6 DEF WritePart, ChildInOrder, TypeOK
  <2>4. /\ \A k \in DOMAIN outgoing' : k + 1 \in DOMAIN outgoing /\ outgoing'[k] = outgoing[k + 1]
        /\ outgoing' # <<>> => outgoing'[Len(outgoing')] = outgoing[Len(outgoing)]
        /\ outgoing' = <<>> => Head(outgoing) = outgoing[Len(outgoing)]
        /\ 1 \in DOMAIN outgoing /\ Head(outgoing) = outgoing[1]
    BY <1>0, <2>2, TailParts
  <2>5. /\ pipe' # <<>> /\ pipe'[Len(pipe')] = outgoing[1]
        /\ \A k \in DOMAIN pipe' : pipe'[k] = outgoing[1] \/ (k \in DOMAIN pipe /\ pipe'[k] = pipe[k])
    BY <1>0, <2>2, <2>4, AppendProperties
  <2>6. cpc' \in {"reply", "last_reply"} /\ outgoing' = <<>> => EndsReply(pipe'[Len(pipe')])
    BY <1>6, <2>1, <2>2, <2>4, <2>5 DEF WritePart
  <2>7. cpc' \in {"reply", "last_reply"} /\ outgoing' # <<>> => EndsReply(outgoing'[Len(outgoing')])
    BY <1>6, <2>1, <2>2, <2>4 DEF WritePart
  <2> QED
    BY <2>1, <2>2, <2>3, <2>4, <2>5, <2>6, <2>7
<1>7. CASE WriteFails
  BY <1>7 DEF WriteFails
<1>8. CASE ChildCloses
  BY <1>8 DEF ChildCloses, ChildInOrder
<1>9. CASE ChildExits
  BY <1>9 DEF ChildExits
<1>10. CASE Crash
  BY <1>10 DEF Crash
<1>11. CASE KilledDies
  BY <1>11 DEF KilledDies
<1>12. CASE CheckMain
  BY <1>12 DEF CheckMain, ChildInOrder
<1>13. CASE Start
  BY <1>13 DEF Start, ChildInOrder
<1>14. CASE CloseSender
  BY <1>14 DEF CloseSender
<1>15. CASE TimeOut
  BY <1>15 DEF TimeOut, Conclude, MayRead
<1>16. CASE ReadPart
  <2> DEFINE p == Head(pipe)
  <2>1. /\ call' = call /\ writers' = writers /\ killed' = killed /\ fate' = fate /\ cpc' = cpc
        /\ reply' = reply /\ outgoing' = outgoing /\ expired' = expired
        /\ ReaderOpen /\ ~killed
    BY <1>16 DEF ReadPart, MayRead
  <2>2. pipe # <<>> /\ pipe' = Tail(pipe) /\ 1 \in DOMAIN pipe /\ p = pipe[1]
    BY <1>16, <1>0 DEF ReadPart
  <2>3. /\ \A k \in DOMAIN pipe' : k + 1 \in DOMAIN pipe /\ pipe'[k] = pipe[k + 1]
        /\ pipe' # <<>> => pipe'[Len(pipe')] = pipe[Len(pipe)]
        /\ pipe' = <<>> => p = pipe[Len(pipe)]
    BY <1>0, <2>2, TailParts
  <2>4. EndsReply(p) => ppc' = "cleanup"
    BY <1>16 DEF ReadPart, Conclude, EndsReply
  <2>5. \/ verdict' = verdict
        \/ p.part = "huge_header"
        \/ p.what # "progress" /\ verdict' = VerdictOf(p.what)
    BY <1>16 DEF ReadPart, Conclude
  <2>6. p.what # "progress" => p.what = reply
    BY <2>1, <2>2 DEF PipeInOrder
  <2>7. p.what \in {"progress"} \cup Replies
    <3>1. pipe[1] \in Parts
      BY <1>0, <2>2
    <3> QED
      BY <2>2, <3>1 DEF Parts
  <2>8. p.what # "progress" /\ VerdictOf(p.what) = "resource_limit" => reply = "memory"
    BY <2>6, <2>7 DEF VerdictOf, Replies
  <2>9. verdict' = "resource_limit" => expired' \/ fate' # "fine" \/ call'.weight = "huge"
    BY <2>1, <2>2, <2>5, <2>8
  <2>10. ReaderOpen' /\ fate' = "fine" /\ Answered' => pipe' # <<>> /\ EndsReply(pipe'[Len(pipe')])
    BY <2>1, <2>3, <2>4
  <2> QED
    BY <1>16, <2>1, <2>2, <2>3, <2>9, <2>10 DEF ReadPart, Conclude, MayRead
<1>17. CASE ReadEof
  <2>1. ReaderOpen /\ ppc # "started" /\ pipe = <<>> /\ "child" \notin writers
    BY <1>17 DEF ReadEof, MayRead, AtEof
  <2>2. cpc \in {"closed", "exited"}
    BY <2>1 DEF ChildStopped
  <2>3. fate # "fine"
    BY <2>1, <2>2
  <2> QED
    BY <1>17, <2>1, <2>3 DEF ReadEof, Conclude
<1>18. CASE Deliver
  BY <1>18 DEF Deliver, Conclude
<1>19. CASE CloseReceiver
  BY <1>19 DEF CloseReceiver
<1>20. CASE KillIfAlive
  BY <1>20 DEF KillIfAlive
<1>21. CASE Join
  BY <1>21 DEF Join
<1>22. CASE DeadlinePasses
  BY <1>22 DEF DeadlinePasses
<1>23. CASE UNCHANGED vars
  BY <1>23 DEF vars
<1> QED
  BY <1>1, <1>2, <1>3, <1>4, <1>5, <1>6, <1>7, <1>8, <1>9, <1>10, <1>11, <1>12, <1>13,
     <1>14, <1>15, <1>16, <1>17, <1>18, <1>19, <1>20, <1>21, <1>22, <1>23
  DEF Next, Child, Parent, Over

(* What a verdict says of the call was so when the child said it.          *)
LEMMA VerdictStep ==
    ASSUME TypeOK, ChildInOrder, PipeInOrder, ParentInOrder, ChildStopped, VerdictHonest, [Next]_vars
    PROVE  VerdictHonest'
<1> USE DEF VerdictHonest, ReaderOpen, ChildRuns, Total, parentVars, childVars
<1>0. /\ pipe \in Seq(Parts) /\ outgoing \in Seq(Parts) /\ Len(pipe) \in Nat
      /\ sent \in Nat /\ Total(call) \in Nat
  BY TotalBounded DEF TypeOK
<1>1. CASE ApplyLimit
  BY <1>1 DEF ApplyLimit, ChildInOrder
<1>2. CASE SendEvent
  <2>1. sent' \in {sent, sent + 1} /\ sent' <= Total(call)
    BY <1>0, <1>2 DEF SendEvent
  <2>2. sent' > 0
    BY <1>0, <1>2 DEF SendEvent
  <2> QED
    BY <1>0, <1>2, <2>1, <2>2 DEF SendEvent, ChildInOrder
<1>3. CASE CallEnds
  BY <1>3 DEF CallEnds, ChildInOrder, TypeOK, Promise!Calls, Promise!Ends
<1>4. CASE PickleReply
  <2>1. reply \in Replies /\ cpc = "send" /\ outgoing = <<>>
    BY <1>4 DEF PickleReply, ChildInOrder
  <2>2. \A k \in DOMAIN outgoing' : outgoing'[k].what # "progress"
    BY <1>4, <2>1, MessageParts DEF PickleReply, Replies
  <2> QED
    BY <1>4, <2>1, <2>2 DEF PickleReply
<1>5. CASE PickleFallback
  <2>1. "unreturnable" \in Replies /\ "progress" \notin Replies
    BY DEF Replies
  <2>2. \A k \in DOMAIN outgoing' : outgoing'[k].what # "progress"
    BY <1>5, <2>1, MessageParts DEF PickleFallback
  <2>3. ReaderOpen => call.end \in {"ok", "error"}
    BY <1>5 DEF PickleFallback, ChildInOrder
  <2> QED
    BY <1>5, <2>2, <2>3 DEF PickleFallback
<1>6. CASE WritePart
  <2>1. /\ ppc' = ppc /\ call' = call /\ reply' = reply /\ verdict' = verdict /\ sent' = sent
        /\ got' = got /\ delivered' = delivered
        /\ cpc' = IF cpc = "event" THEN "run" ELSE cpc
    BY <1>6 DEF WritePart
  <2>2. outgoing # <<>> /\ outgoing' = Tail(outgoing) /\ pipe' = Append(pipe, Head(outgoing))
    BY <1>6 DEF WritePart
  <2>3. \A k \in DOMAIN outgoing' : outgoing'[k].what = "progress" => sent > 0
    BY <1>0, <2>2, TailParts
  <2>4. \A k \in DOMAIN pipe' : pipe'[k] = outgoing[1] \/ (k \in DOMAIN pipe /\ pipe'[k] = pipe[k])
    BY <1>0, <2>2, TailParts, AppendProperties
  <2>5. 1 \in DOMAIN outgoing
    BY <1>0, <2>2, TailParts
  <2> QED
    BY <2>1, <2>3, <2>4, <2>5
<1>7. CASE WriteFails
  BY <1>7 DEF WriteFails
<1>8. CASE ChildCloses
  BY <1>8 DEF ChildCloses
<1>9. CASE ChildExits
  BY <1>9 DEF ChildExits
<1>10. CASE Crash
  BY <1>10 DEF Crash
<1>11. CASE KilledDies
  BY <1>11 DEF KilledDies
<1>12. CASE CheckMain
  BY <1>12 DEF CheckMain, ChildInOrder
<1>13. CASE Start
  BY <1>13 DEF Start, ChildInOrder
<1>14. CASE CloseSender
  BY <1>14 DEF CloseSender
<1>15. CASE TimeOut
  BY <1>15 DEF TimeOut, Conclude
<1>16. CASE ReadPart
  <2> DEFINE p == Head(pipe)
  <2>1. /\ call' = call /\ cpc' = cpc /\ sent' = sent /\ delivered' = delivered
        /\ reply' = reply /\ outgoing' = outgoing
        /\ ReaderOpen /\ ppc # "deliver" /\ verdict = "none"
    BY <1>16 DEF ReadPart, MayRead, ParentInOrder
  <2>2. pipe # <<>> /\ pipe' = Tail(pipe) /\ 1 \in DOMAIN pipe /\ p = pipe[1]
    BY <1>16, <1>0 DEF ReadPart
  <2>3. \A k \in DOMAIN pipe' : k + 1 \in DOMAIN pipe /\ pipe'[k] = pipe[k + 1]
    BY <1>0, <2>2, TailParts
  <2>4. \/ verdict' = verdict /\ ppc' \in {"reading", "reading_body"}
        \/ verdict' = verdict /\ ppc' = "deliver" /\ got' = p.n /\ p.what = "progress"
        \/ verdict' = "resource_limit" /\ ppc' = "cleanup"
        \/ p.what # "progress" /\ verdict' = VerdictOf(p.what) /\ ppc' = "cleanup"
    BY <1>16 DEF ReadPart, Conclude
  <2>5. p.what # "progress" => p.what = reply
    BY <2>1, <2>2 DEF PipeInOrder
  <2>6. p.what \in {"progress"} \cup Replies
    <3>1. pipe[1] \in Parts
      BY <1>0, <2>2
    <3> QED
      BY <2>2, <3>1 DEF Parts
  <2>7. Len(delivered) \in Nat /\ delivered \in Seq(1..(MaxEvents + 1)) /\ Taken = Len(delivered)
    BY <2>1 DEF TypeOK, Taken
  <2>8. Taken <= Written /\ Written <= sent /\ Written \in Int
    BY <1>0, <2>1 DEF PipeInOrder, Written
  <2>9. p.what = "progress" /\ p.n = 0 => delivered # <<>>
    <3>1. SUFFICES ASSUME p.what = "progress", p.n = 0 PROVE Len(delivered) # 0
      BY <2>7
    <3>2. sent > 0
      BY <2>2, <3>1
    <3>3. ~(1 <= Written - Taken)
      <4>1. 1 <= Written - Taken => pipe[1] = Event(Taken + 1)
        BY <2>1, <2>2 DEF PipeInOrder
      <4>2. Event(Taken + 1).n = Taken + 1
        BY DEF Event
      <4> QED
        BY <2>2, <2>7, <3>1, <4>1, <4>2
    <3>4. Written = Taken
      BY <2>7, <2>8, <3>3
    <3>5. ~Numbered(outgoing)
      <4>1. Numbered(outgoing) => Written = Taken + Len(pipe)
        BY <2>1 DEF PipeInOrder
      <4>2. Len(pipe) > 0
        BY <1>0, <2>2
      <4> QED
        BY <1>0, <2>7, <3>4, <4>1, <4>2
    <3>6. Written = sent
      BY <3>5 DEF Written
    <3> QED
      BY <1>0, <2>7, <3>2, <3>4, <3>6
  <2>10. \A w \in Replies :
            /\ VerdictOf(w) \notin {"callback_raised", "not_importable", "none"}
            /\ VerdictOf(w) = "limit_refused" => w = "limit_refused"
            /\ VerdictOf(w) = "unreturnable" => w = "unreturnable"
    BY DEF VerdictOf, Replies
  <2>11. reply = "limit_refused" => delivered = <<>>
    <3>1. reply = "limit_refused" => Len(delivered) <= 0
      BY <1>0, <2>7, <2>8
    <3> QED
      BY <2>7, <3>1
  <2>12. verdict' = "limit_refused" => delivered = <<>>
    BY <2>1, <2>4, <2>5, <2>6, <2>10, <2>11
  <2>13. verdict' = "unreturnable" => call.end \in {"ok", "error"}
    BY <2>1, <2>4, <2>5, <2>6, <2>10
  <2>14. /\ verdict' \notin {"callback_raised", "not_importable"}
         /\ ppc' = "cleanup" => verdict' # "none"
    BY <2>1, <2>4, <2>5, <2>6, <2>10
  <2>15. ppc' = "deliver" /\ got' = 0 => delivered # <<>>
    BY <2>4, <2>9
  <2> QED
    BY <2>1, <2>2, <2>3, <2>4, <2>12, <2>13, <2>14, <2>15
<1>17. CASE ReadEof
  BY <1>17 DEF ReadEof, Conclude, MayRead
<1>18. CASE Deliver
  <2>1. delivered' # <<>> /\ verdict = "none"
    <3>1. delivered \in Seq(1..(MaxEvents + 1))
      BY DEF TypeOK
    <3> QED
      BY <1>18, <3>1 DEF Deliver, ParentInOrder
  <2> QED
    BY <1>18, <2>1 DEF Deliver, Conclude
<1>19. CASE CloseReceiver
  BY <1>19 DEF CloseReceiver
<1>20. CASE KillIfAlive
  BY <1>20 DEF KillIfAlive
<1>21. CASE Join
  BY <1>21 DEF Join
<1>22. CASE DeadlinePasses
  BY <1>22 DEF DeadlinePasses
<1>23. CASE UNCHANGED vars
  BY <1>23 DEF vars
<1> QED
  BY <1>1, <1>2, <1>3, <1>4, <1>5, <1>6, <1>7, <1>8, <1>9, <1>10, <1>11, <1>12, <1>13,
     <1>14, <1>15, <1>16, <1>17, <1>18, <1>19, <1>20, <1>21, <1>22, <1>23
  DEF Next, Child, Parent, Over
-----------------------------------------------------------------------------
(* What the child, the pipe and the parent know of each other.             *)
CallInv == IInv /\ ChildStopped /\ AnswerWaits /\ VerdictHonest

(* Before the call nothing was answered and nothing judged.                *)
LEMMA CallInvInit == Init => CallInv
<1> SUFFICES ASSUME Init PROVE AnswerWaits /\ VerdictHonest
  BY InitIInv, StoppedInit DEF CallInv
<1>1. AnswerWaits
  BY DEF Init, AnswerWaits, Answered, ReaderOpen
<1>2. VerdictHonest
  <2>1. call \in Promise!Calls /\ Total(call) \in Nat
    BY TotalBounded DEF Init
  <2> QED
    BY <2>1 DEF Init, VerdictHonest, ReaderOpen
<1> QED
  BY <1>1, <1>2

(* Each part is kept by a step of the whole.                               *)
LEMMA CallInvStep == CallInv /\ [Next]_vars => CallInv'
BY NextIInv, StoppedStep, AnswerStep, VerdictStep DEF CallInv, IInv, StreamInOrder

(* So what was answered is known in every state of every call.             *)
LEMMA CallInvariant == Spec => []CallInv
<1>1. Init => CallInv
  BY CallInvInit
<1>2. CallInv /\ [Next]_vars => CallInv'
  BY CallInvStep
<1> QED
  BY <1>1, <1>2, PTL DEF Spec

(* ResourceLimitError is raised only past the deadline, for a child that   *)
(* died or ran out of memory, or for a message over the cap: never for a   *)
(* child that answered and exited before the parent looked.                *)
THEOREM AlarmCorrect == Spec => []NoFalseAlarm
<1>1. CallInv => NoFalseAlarm
  BY DEF CallInv, IInv, StreamInOrder, ParentInOrder, AnswerWaits, NoFalseAlarm
<1> QED
  BY <1>1, CallInvariant, PTL

-----------------------------------------------------------------------------
(* Before the call there is a caller with no event and no outcome.         *)
LEMMA PromiseInit == Init => Promise!Init
BY DEF Init, Promise!Init

(* A step that leaves the caller's view alone is a step of the worker.     *)
LEMMA WorkOrStutter ==
    ASSUME UNCHANGED <<call, delivered, result>>,
           result = "none" \/ UNCHANGED <<cpc, killed>>
    PROVE  [Promise!Next]_(Promise!vars)
BY DEF Promise!Next, Promise!Work, Promise!vars

(* deliver(value) hands over the next event of the promise, or a repeat.   *)
LEMMA DeliverKept ==
    ASSUME CallInv, Deliver
    PROVE  [Promise!Next]_(Promise!vars)
<1>1. /\ ppc = "deliver" /\ result = "none" /\ UNCHANGED <<call, cpc, killed, result>>
      /\ delivered' = (IF got = 0 THEN delivered ELSE Append(delivered, got))
  BY DEF Deliver, CallInv, IInv, StreamInOrder, ParentInOrder, childVars
<1>2. CASE got = 0
  BY <1>1, <1>2, WorkOrStutter
<1>3. CASE got # 0
  <2>1. got = Len(delivered) + 1
    BY <1>1, <1>3 DEF CallInv, IInv, StreamInOrder, ParentInOrder
  <2>2. Taken = Len(delivered) + 1 /\ ReaderOpen
    BY <1>1, <1>3 DEF Taken, ReaderOpen
  <2>3. Taken <= Written /\ sent \in Nat /\ sent <= Total(call) /\ Total(call) \in Nat
    BY <2>2, TotalBounded DEF CallInv, IInv, StreamInOrder, PipeInOrder, VerdictHonest, TypeOK
  <2>4. Len(delivered) \in Nat /\ Len(delivered) < Total(call)
    <3>1. Len(delivered) \in Nat
      BY DEF CallInv, IInv, TypeOK
    <3>2. Written <= sent
      BY <2>3 DEF Written
    <3>3. Written \in Int
      BY <2>3 DEF Written
    <3> QED
      BY <2>2, <2>3, <3>1, <3>2, <3>3
  <2>5. Promise!Total(call) = Total(call)
    BY DEF Promise!Total, Total
  <2> QED
    BY <1>1, <1>3, <2>1, <2>4, <2>5 DEF Promise!Next, Promise!Deliver
<1> QED
  BY <1>2, <1>3

(* join() and the outcome: the worker is gone and the promise allows it.   *)
LEMMA JoinKept ==
    ASSUME CallInv, Join
    PROVE  [Promise!Next]_(Promise!vars)
<1>1. /\ result = "none" /\ result' = verdict /\ UNCHANGED <<call, cpc, killed, delivered>>
      /\ ppc = "join" /\ ~ChildRuns
  BY DEF Join, CallInv, IInv, StreamInOrder, ParentInOrder, ChildStopped, childVars
<1>2. verdict \in Promise!Outcomes
  BY <1>1 DEF CallInv, IInv, TypeOK, VerdictHonest
<1>3. Promise!Allowed(verdict)
  <2>1. verdict \notin {"none", "not_importable"}
    BY <1>1 DEF CallInv, VerdictHonest
  <2> QED
    BY <1>1, <1>2, <2>1
    DEF CallInv, IInv, StreamInOrder, ParentInOrder, VerdictHonest, Promise!Allowed,
        Promise!Outcomes, Promise!Failures, Promise!Total, Total
<1> QED
  BY <1>1, <1>2, <1>3 DEF Promise!Next, Promise!Finish, ChildRuns, Promise!Allowed

(* Every other step is the worker's, or is not seen by the caller.         *)
LEMMA PromiseStep ==
    ASSUME CallInv, [Next]_vars
    PROVE  [Promise!Next]_(Promise!vars)
<1> USE DEF parentVars, childVars
<1>1. ASSUME Child PROVE UNCHANGED <<call, delivered, result>> /\ result = "none"
  <2>1. ChildRuns /\ UNCHANGED <<call, delivered, result>>
    BY <1>1 DEF Child, ApplyLimit, SendEvent, CallEnds, PickleReply, PickleFallback,
                WritePart, WriteFails, ChildCloses, ChildExits
  <2>2. ppc # "done"
    BY <2>1 DEF CallInv, ChildStopped
  <2> QED
    BY <2>1, <2>2 DEF CallInv, ChildStopped
<1>2. CASE Crash
  <2>1. UNCHANGED <<call, delivered, result>> /\ ChildRuns
    BY <1>2 DEF Crash
  <2>2. result = "none"
    BY <2>1 DEF CallInv, ChildStopped
  <2> QED
    BY <2>1, <2>2, WorkOrStutter
<1>3. CASE KilledDies
  <2>1. UNCHANGED <<call, delivered, result, killed>> /\ killed
    BY <1>3 DEF KilledDies
  <2> QED
    BY <2>1 DEF Promise!vars
<1>4. CASE CheckMain
  <2>1. ppc = "call" /\ result = "none" /\ cpc = "unborn" /\ delivered = <<>>
    BY <1>4 DEF CheckMain, CallInv, IInv, StreamInOrder, ChildInOrder, ParentInOrder
  <2>2. UNCHANGED <<call, delivered, cpc, killed>>
    BY <1>4 DEF CheckMain
  <2>3. CASE result' = result
    BY <2>1, <2>2, <2>3, WorkOrStutter
  <2>4. CASE ~call.importable /\ result' = "not_importable"
    BY <2>1, <2>2, <2>4
    DEF Promise!Next, Promise!Finish, Promise!Allowed, Promise!Outcomes, Promise!Failures
  <2> QED
    BY <1>4, <2>3, <2>4 DEF CheckMain
<1>5. CASE Deliver
  BY <1>5, DeliverKept
<1>6. CASE Join
  BY <1>6, JoinKept
<1>7. ASSUME Start \/ CloseSender \/ TimeOut \/ ReadPart \/ ReadEof \/ CloseReceiver \/ KillIfAlive
      PROVE  UNCHANGED <<call, delivered, result>> /\ result = "none"
  <2>1. UNCHANGED <<call, delivered, result>> /\ ppc # "done"
    BY <1>7 DEF Start, CloseSender, TimeOut, ReadPart, ReadEof, MayRead, CloseReceiver, KillIfAlive
  <2> QED
    BY <2>1 DEF CallInv, ChildStopped
<1>8. CASE DeadlinePasses \/ UNCHANGED vars
  BY <1>8 DEF DeadlinePasses, vars, Promise!vars
<1> QED
  BY <1>1, <1>2, <1>3, <1>4, <1>5, <1>6, <1>7, <1>8, WorkOrStutter DEF Next, Parent, Over

(* The child's stream, the kill and the deadline keep what isolate=True    *)
(* promises its caller: every behaviour of the two processes, whatever the *)
(* events and the pipe, is one of IsolatedCall.                            *)
THEOREM PromiseCorrect == Spec => Promised
<1>1. Init => Promise!Init
  BY PromiseInit
<1>2. CallInv /\ [Next]_vars => [Promise!Next]_(Promise!vars)
  BY PromiseStep
<1> QED
  BY <1>1, <1>2, CallInvariant, PTL DEF Spec, Promise!Spec, Promised
=============================================================================
