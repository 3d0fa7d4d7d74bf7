------------------------- MODULE ExampleClientProofs -------------------------
(* Theorems about ExampleClient for every set of questions, every way the   *)
(* server wraps a result and every number of calls that end badly.          *)
EXTENDS ExampleClient, SequenceTheorems, TLAPS

ToolNames == {"net.if_status", "net.neighbors", "net.mac_lookup", "net.routes",
              "net.ping", "net.traceroute", "net.logs"}
Found     == [end : {"ok", "fail", "error"}, shape : Shapes]
Outcomes  == {CallFailed(tool) : tool \in ToolNames}
        \cup {Normalized(tool, answer) : tool \in ToolNames, answer \in Found}

(* What is on its way between the two: the notification that follows the    *)
(* handshake and the one request that waits for its answer.                 *)
Note  == [id |-> 0, method |-> "initialized", tool |-> "none"]
Asked == [id |-> awaiting, method |-> phase,
          tool |-> IF phase = "call" THEN Steps[Len(outputs) + 1] ELSE "none"]

(* Where run() is decides how much of the plan is done and which id is next. *)
FirstId == CASE phase = "initialize"               -> 1
             [] phase \in {"initialized", "list"}  -> 2
             [] OTHER                              -> Len(outputs) + 3

PhaseInv ==
  /\ phase \in {"initialize", "initialized", "list", "failed"} =>
       outputs = <<>> /\ answered = <<>>
  /\ phase = "call" => Len(outputs) < Len(Steps)
  /\ phase \in {"report", "done"} => Len(outputs) = Len(Steps)
  /\ phase \in {"initialized", "report", "done", "failed"} => awaiting = 0
  /\ IF phase = "failed" THEN nextId \in {2, 3}
     ELSE IF awaiting = 0 THEN nextId = FirstId
     ELSE awaiting = FirstId /\ nextId = FirstId + 1
  /\ phase = "done" => report = ReportOf(outputs)

(* The request is nowhere, in the server's input, with the server, answered, *)
(* or lost with the server; only then may the answers lag behind the plan.   *)
Quiet ==
  /\ awaiting = 0 /\ serving = Nothing /\ toClient = <<>>
  /\ toServer # <<>> => toServer = <<Note>> /\ phase = "list" /\ server = "up"
  /\ Len(answered) <= Len(outputs)
  /\ server = "up" => Len(answered) = Len(outputs)
Sent ==
  /\ awaiting # 0 /\ server = "up"
  /\ toServer \in {<<Asked>>, <<Note, Asked>>} /\ serving = Nothing /\ toClient = <<>>
  /\ Len(answered) = Len(outputs)
Served ==
  /\ awaiting # 0 /\ server = "up"
  /\ toServer = <<>> /\ serving = Asked /\ toClient = <<>>
  /\ Len(answered) = Len(outputs)
Replied ==
  /\ awaiting # 0 /\ toServer = <<>> /\ serving = Nothing
  /\ \E end \in {"ok", "fail", "error"}, shape \in Shapes :
       /\ toClient = <<[id |-> awaiting, end |-> end, shape |-> shape]>>
       /\ phase = "call" =>
            /\ Len(answered) = Len(outputs) + 1
            /\ answered[Len(outputs) + 1] = [end |-> end, shape |-> shape]
Lost ==
  /\ awaiting # 0 /\ server = "down"
  /\ toServer = <<>> /\ serving = Nothing
  /\ toClient \in {<<>>, <<[id |-> awaiting, end |-> "torn", shape |-> "none"]>>}
  /\ Len(answered) <= Len(outputs) + 1

FlowInv == Quiet \/ Sent \/ Served \/ Replied \/ Lost

(* What became of step i: nothing, or what the server found for it.         *)
Settled(outs, finds, i) ==
  \/ outs[i] = CallFailed(Steps[i])
  \/ /\ i \in 1..Len(finds) /\ finds[i].end \in {"ok", "fail"}
     /\ outs[i] = Normalized(Steps[i], finds[i])

OutputsInv ==
  /\ outputs \in Seq(Outcomes) /\ Len(outputs) <= Len(Steps)
  /\ answered \in Seq(Found)
  /\ \A i \in 1..Len(outputs) : Settled(outputs, answered, i)

Fixed ==
  /\ question \in Questions /\ target \in Targets
  /\ phase \in {"initialize", "initialized", "list", "call", "report", "done", "failed"}
  /\ server \in {"up", "down"}

IInv == Fixed /\ PhaseInv /\ FlowInv /\ OutputsInv
-----------------------------------------------------------------------------
(* The plan is fixed from the start, and it is never empty.                  *)
LEMMA StepsTyped == Steps \in Seq(ToolNames) /\ Len(Steps) \in Nat \ {0}
<1> DEFINE mixed == question \cap {"l2", "l3"} = {}
           a == Tools("l2" \in question \/ mixed, <<"net.if_status", "net.neighbors">>)
           b == Tools("mac" \in question, <<"net.mac_lookup">>)
           c == Tools("l3" \in question \/ mixed, <<"net.routes">>)
           d == Tools(target, <<"net.ping", "net.traceroute">>)
           e == <<"net.logs">>
<1>1. /\ a \in Seq(ToolNames) /\ b \in Seq(ToolNames) /\ c \in Seq(ToolNames)
      /\ d \in Seq(ToolNames) /\ e \in Seq(ToolNames) /\ Len(e) = 1
  <2>1. /\ <<"net.if_status", "net.neighbors">> \in Seq(ToolNames)
        /\ <<"net.mac_lookup">> \in Seq(ToolNames)
        /\ <<"net.routes">> \in Seq(ToolNames)
        /\ <<"net.ping", "net.traceroute">> \in Seq(ToolNames)
        /\ <<"net.logs">> \in Seq(ToolNames)
    BY DEF ToolNames
  <2>2. Len(e) = 1
    OBVIOUS
  <2>3. <<>> \in Seq(ToolNames)
    BY EmptySeq
  <2> QED BY <2>1, <2>2, <2>3, Zenon DEF Tools
<1>2. Steps = (((a \o b) \o c) \o d) \o e
  BY DEF Steps, Plan
<1> HIDE DEF a, b, c, d, e
<1>3. a \o b \in Seq(ToolNames)
  BY <1>1, ConcatProperties
<1>4. (a \o b) \o c \in Seq(ToolNames)
  BY <1>1, <1>3, ConcatProperties
<1> DEFINE p == ((a \o b) \o c) \o d
<1>5. p \in Seq(ToolNames) /\ Len(p) \in Nat
  BY <1>1, <1>4, ConcatProperties, LenProperties
<1>6. Steps = p \o e
  BY <1>2
<1> HIDE DEF p
<1>7. p \o e \in Seq(ToolNames) /\ Len(p \o e) = Len(p) + Len(e)
  BY <1>1, <1>5, ConcatProperties
<1> QED BY <1>1, <1>5, <1>6, <1>7

LEMMA StepTyped == ASSUME NEW i \in 1..Len(Steps) PROVE Steps[i] \in ToolNames
BY StepsTyped, ElementOfSeq

LEMMA StepsFixed == ASSUME question' = question, target' = target PROVE Steps' = Steps
BY DEF Steps

LEMMA AppendOne ==
  ASSUME NEW E, NEW p \in Seq(E), NEW y \in E, NEW q \in Seq(E)
  PROVE  Len(p) = 1 /\ Len(q) = 2 /\ q[1] = p[1] /\ q[2] = y => Append(p, y) = q
<1> DEFINE r == Append(p, y)
<1>1. /\ r \in Seq(E) /\ Len(r) = Len(p) + 1
      /\ \A i \in 1..Len(p) : r[i] = p[i]
      /\ r[Len(p) + 1] = y
  BY AppendProperties
<1> HIDE DEF r
<1>2. SUFFICES ASSUME Len(p) = 1, Len(q) = 2, q[1] = p[1], q[2] = y PROVE r = q
  BY DEF r
<1>3. Len(r) = 2 /\ r[1] = p[1] /\ r[2] = y
  BY <1>1, <1>2
<1>4. \A i \in 1..2 : i = 1 \/ i = 2
  OBVIOUS
<1> QED BY <1>1, <1>2, <1>3, <1>4, SeqEqual

(* The queues between client and server hold at most two lines.              *)
LEMMA ShortQueues ==
  ASSUME NEW x, NEW y
  PROVE  /\ Append(<<>>, x) = <<x>> /\ Append(<<x>>, y) = <<x, y>>
         /\ <<x>> # <<>> /\ Head(<<x>>) = x /\ Tail(<<x>>) = <<>>
         /\ <<x, y>> # <<>> /\ Head(<<x, y>>) = x /\ Tail(<<x, y>>) = <<y>>
         /\ Len(<<>>) = 0 /\ Len(<<x>>) = 1 /\ Len(<<x, y>>) = 2
<1>1. Append(<<>>, x) = <<x>>
  OBVIOUS
<1>2. Append(<<x>>, y) = <<x, y>>
  <2>1. /\ <<x>> \in Seq({x, y}) /\ Len(<<x>>) = 1 /\ <<x>>[1] = x
        /\ <<x, y>> \in Seq({x, y}) /\ Len(<<x, y>>) = 2
        /\ <<x, y>>[1] = x /\ <<x, y>>[2] = y
        /\ y \in {x, y}
    OBVIOUS
  <2> QED BY <2>1, AppendOne, Zenon
<1>3. <<x>> # <<>> /\ Head(<<x>>) = x
  OBVIOUS
<1>4. Tail(<<x>>) = <<>>
  OBVIOUS
<1>5. <<x, y>> # <<>> /\ Head(<<x, y>>) = x
  OBVIOUS
<1>6. Tail(<<x, y>>) = <<y>>
  OBVIOUS
<1>7. Len(<<>>) = 0 /\ Len(<<x>>) = 1 /\ Len(<<x, y>>) = 2
  OBVIOUS
<1> QED BY <1>1, <1>2, <1>3, <1>4, <1>5, <1>6, <1>7, Zenon

(* One more step is settled.                                                 *)
LEMMA StepSettled ==
  ASSUME OutputsInv, Len(outputs) < Len(Steps), Steps' = Steps, NEW o,
         outputs' = Append(outputs, o), answered' = answered,
         \/ o = CallFailed(Steps[Len(outputs) + 1])
         \/ /\ Len(answered) = Len(outputs) + 1
            /\ answered[Len(outputs) + 1].end \in {"ok", "fail"}
            /\ o = Normalized(Steps[Len(outputs) + 1], answered[Len(outputs) + 1])
  PROVE  OutputsInv' /\ Len(outputs') = Len(outputs) + 1
<1> DEFINE n == Len(outputs)
<1>1. n \in Nat /\ Len(Steps) \in Nat /\ Len(answered) \in Nat /\ n + 1 \in 1..Len(Steps)
  BY StepsTyped, LenProperties DEF OutputsInv
<1>2. Steps[n + 1] \in ToolNames
  BY <1>1, StepTyped
<1>3. o \in Outcomes
  <2>1. CASE o = CallFailed(Steps[n + 1])
    BY <2>1, <1>2 DEF Outcomes
  <2>2. CASE o # CallFailed(Steps[n + 1])
    <3>1. answered[n + 1] \in Found
      BY <2>2, <1>1, ElementOfSeq DEF OutputsInv
    <3> QED BY <2>2, <3>1, <1>2 DEF Outcomes
  <2> QED BY <2>1, <2>2
<1>4. /\ outputs' \in Seq(Outcomes) /\ Len(outputs') = n + 1
      /\ \A i \in 1..n : outputs'[i] = outputs[i]
      /\ outputs'[n + 1] = o
  BY <1>1, <1>3, AppendProperties DEF OutputsInv
<1>5. ASSUME NEW i \in 1..n + 1 PROVE Settled(outputs, answered, i)'
  <2>1. CASE i \in 1..n
    BY <2>1, <1>4 DEF OutputsInv, Settled
  <2>2. CASE i = n + 1
    BY <2>2, <1>1, <1>4 DEF Settled
  <2> QED BY <1>1, <2>1, <2>2
<1> HIDE DEF n
<1>6. OutputsInv'
  BY <1>1, <1>4, <1>5 DEF OutputsInv
<1> QED BY <1>4, <1>6 DEF n

(* Whatever leaves the outputs and the answers alone.                        *)
LEMMA NothingSettled ==
  ASSUME OutputsInv, Steps' = Steps,
         outputs' = outputs, answered' = answered
  PROVE  OutputsInv'
BY DEF OutputsInv, Settled

-----------------------------------------------------------------------------
(* The invariant holds in every state.                                       *)
LEMMA InitInv == Init => IInv
<1> SUFFICES ASSUME Init PROVE IInv
  OBVIOUS
<1>1. Len(<<>>) = 0 /\ <<>> \in Seq(Outcomes) /\ <<>> \in Seq(Found)
  BY EmptySeq
<1>2. 1..0 = {}
  OBVIOUS
<1>3. Fixed /\ PhaseInv
  BY DEF Init, Fixed, PhaseInv, FirstId
<1>4. Quiet
  BY <1>1 DEF Init, Quiet
<1>5. OutputsInv
  BY <1>1, <1>2, StepsTyped DEF Init, OutputsInv
<1> QED BY <1>3, <1>4, <1>5 DEF IInv, FlowInv

(* In each phase the lengths are numbers.                                    *)
LEMMA Lengths ==
  ASSUME IInv
  PROVE  /\ Len(outputs) \in Nat /\ Len(answered) \in Nat /\ Len(Steps) \in Nat \ {0}
         /\ outputs = <<>> => Len(outputs) = 0
         /\ answered = <<>> => Len(answered) = 0
         /\ awaiting \in Nat /\ nextId \in Nat
<1>1. Len(outputs) \in Nat /\ Len(answered) \in Nat /\ Len(Steps) \in Nat \ {0}
  BY LenProperties, StepsTyped DEF IInv, OutputsInv
<1>2. Len(<<>>) = 0
  BY EmptySeq
<1>3. FirstId \in Nat
  BY <1>1 DEF FirstId
<1> HIDE DEF FirstId
<1> QED BY <1>1, <1>2, <1>3 DEF IInv, PhaseInv, Fixed

(* The calls leave as the request that is asked.                             *)
LEMMA SendInv == ASSUME IInv, Send PROVE IInv'
<1>1. Steps' = Steps /\ UNCHANGED <<question, target, toClient, server, serverVars, report>>
  BY StepsFixed DEF Send, RequestFails, Abort, StepDone
<1>2. /\ phase \in {"initialize", "list", "call"} /\ awaiting = 0 /\ Quiet
      /\ nextId = FirstId /\ nextId \in Nat /\ nextId > 0
  BY Lengths DEF Send, IInv, FlowInv, Sent, Served, Replied, Lost, PhaseInv, FirstId, Fixed
<1>3. CASE server = "up"
  <2>1. /\ nextId' = nextId + 1 /\ awaiting' = nextId /\ UNCHANGED <<phase, outputs>>
        /\ toServer' = Append(toServer, Asked')
    BY <1>1, <1>3 DEF Send, Asked
  <2>2. toServer' \in {<<Asked'>>, <<Note, Asked'>>}
    BY <1>2, <2>1, ShortQueues DEF Quiet
  <2>3. Sent'
    BY <1>1, <1>2, <1>3, <2>1, <2>2 DEF Quiet, Sent, serverVars, Note, Nothing
  <2>4. PhaseInv'
    BY <1>1, <1>2, <2>1 DEF PhaseInv, FirstId, IInv, serverVars
  <2>5. OutputsInv'
    BY <1>1, <2>1, NothingSettled DEF IInv, serverVars
  <2> QED BY <1>1, <2>1, <2>3, <2>4, <2>5 DEF IInv, FlowInv, Fixed
<1>4. CASE server = "down"
  <2>1. RequestFails /\ nextId' = nextId + 1 /\ UNCHANGED <<toServer, awaiting>>
    BY <1>4 DEF Send
  <2>2. CASE phase \in {"initialize", "list"}
    <3>1. phase' = "failed" /\ UNCHANGED <<outputs, report>>
      BY <2>1, <2>2 DEF RequestFails, Abort
    <3>2. PhaseInv'
      BY <1>1, <1>2, <2>1, <2>2, <3>1 DEF PhaseInv, FirstId, IInv, serverVars
    <3>3. Quiet'
      BY <1>1, <1>2, <1>4, <2>1, <3>1 DEF Quiet, serverVars, Note, Nothing
    <3>4. OutputsInv'
      BY <1>1, <3>1, NothingSettled DEF IInv, serverVars
    <3> QED BY <1>1, <3>1, <3>2, <3>3, <3>4 DEF IInv, FlowInv, Fixed
  <2>3. CASE phase = "call"
    <3>1. StepDone(CallFailed(Steps[Len(outputs) + 1]))
      BY <2>1, <2>3 DEF RequestFails
    <3>2. OutputsInv' /\ Len(outputs') = Len(outputs) + 1
      BY <1>1, <2>3, <3>1, StepSettled DEF StepDone, IInv, PhaseInv, serverVars
    <3>3. PhaseInv'
      BY <1>1, <1>2, <2>1, <2>3, <3>1, <3>2, Lengths DEF PhaseInv, FirstId, IInv, StepDone, serverVars
    <3>4. Quiet'
      BY <1>1, <1>2, <1>4, <2>1, <3>2, Lengths DEF Quiet, serverVars, Note, Nothing
    <3> QED BY <1>1, <3>1, <3>2, <3>3, <3>4 DEF IInv, FlowInv, Fixed, StepDone
  <2> QED BY <1>2, <2>2, <2>3
<1> QED BY <1>3, <1>4 DEF IInv, Fixed

LEMMA NotifyInv == ASSUME IInv, Notify PROVE IInv'
<1>1. /\ Steps' = Steps /\ phase = "initialized"
      /\ UNCHANGED <<question, target, toClient, server, serverVars, report,
                     nextId, awaiting, outputs>>
  BY StepsFixed DEF Notify
<1>2. awaiting = 0 /\ Quiet /\ nextId = 2
  BY <1>1 DEF IInv, FlowInv, Sent, Served, Replied, Lost, PhaseInv, FirstId
<1>3. OutputsInv'
  BY <1>1, NothingSettled DEF IInv, serverVars
<1>4. PhaseInv'
  BY <1>1, <1>2 DEF Notify, PhaseInv, FirstId, IInv, serverVars
<1>5. CASE server = "up" /\ toServer = <<>>
  <2>1. toServer' = <<Note>>
    BY <1>5, ShortQueues DEF Notify, Note
  <2> QED BY <1>1, <1>2, <1>3, <1>4, <2>1
          DEF IInv, FlowInv, Fixed, Quiet, Notify, serverVars, Note, Nothing
<1>6. CASE server = "down"
  BY <1>1, <1>2, <1>3, <1>4, <1>6
     DEF IInv, FlowInv, Fixed, Quiet, Notify, serverVars, Note, Nothing
<1>7. toServer = <<>>
  BY <1>1, <1>2 DEF Quiet
<1> QED BY <1>5, <1>6, <1>7 DEF IInv, Fixed

(* request() returns with the outcome of its step, or fails the handshake.   *)
LEMMA RequestFailsInv ==
  ASSUME IInv, awaiting # 0, RequestFails, awaiting' = 0, toClient' = <<>>,
         toServer = <<>>, serving = Nothing, Len(answered) <= Len(outputs) + 1,
         server = "up" /\ phase = "call" => Len(answered) = Len(outputs) + 1,
         UNCHANGED <<question, target, nextId, toServer, server, serverVars>>
  PROVE  IInv'
<1>1. Steps' = Steps /\ UNCHANGED <<serving, answered>>
  BY StepsFixed DEF serverVars
<1>2. awaiting = FirstId /\ nextId = FirstId + 1 /\ phase \in {"initialize", "list", "call"}
  BY DEF RequestFails, IInv, PhaseInv
<1>3. CASE phase \in {"initialize", "list"}
  <2>1. phase' = "failed" /\ UNCHANGED <<outputs, report>>
    BY <1>3 DEF RequestFails, Abort
  <2>2. PhaseInv'
    BY <1>1, <1>2, <1>3, <2>1 DEF PhaseInv, FirstId, IInv
  <2>3. Quiet'
    BY <1>1, <1>3, <2>1, Lengths DEF Quiet, Nothing, IInv, PhaseInv
  <2>4. OutputsInv'
    BY <1>1, <2>1, NothingSettled DEF IInv
  <2> QED BY <1>1, <2>1, <2>2, <2>3, <2>4 DEF IInv, FlowInv, Fixed
<1>4. CASE phase = "call"
  <2>1. StepDone(CallFailed(Steps[Len(outputs) + 1]))
    BY <1>4 DEF RequestFails
  <2>2. OutputsInv' /\ Len(outputs') = Len(outputs) + 1
    BY <1>1, <1>4, <2>1, StepSettled DEF StepDone, IInv, PhaseInv
  <2>3. PhaseInv'
    BY <1>1, <1>2, <1>4, <2>1, <2>2, Lengths DEF PhaseInv, FirstId, IInv, StepDone
  <2>4. Quiet'
    BY <1>1, <1>4, <2>2, Lengths DEF Quiet, Nothing
  <2> QED BY <1>1, <2>1, <2>2, <2>3, <2>4 DEF IInv, FlowInv, Fixed, StepDone
<1> QED BY <1>2, <1>3, <1>4

LEMMA ReceiveInv == ASSUME IInv, Receive PROVE IInv'
<1> DEFINE answer == Head(toClient)
<1>1. /\ Steps' = Steps /\ awaiting # 0 /\ awaiting' = 0
      /\ UNCHANGED <<question, target, nextId, toServer, server, serverVars>>
  BY StepsFixed DEF Receive
<1>2. Replied \/ Lost
  BY ShortQueues DEF Receive, IInv, FlowInv, Quiet, Sent, Served
<1>3. CASE Lost
  <2>1. /\ toClient = <<[id |-> awaiting, end |-> "torn", shape |-> "none"]>>
        /\ toServer = <<>> /\ serving = Nothing /\ server = "down"
        /\ Len(answered) <= Len(outputs) + 1
    BY <1>3 DEF Lost, Receive
  <2>2. answer.end = "torn" /\ toClient' = <<>>
    BY <2>1, ShortQueues DEF Receive
  <2>3. RequestFails
    BY <2>2 DEF Receive, IsResult
  <2> QED BY <1>1, <2>1, <2>2, <2>3, RequestFailsInv
<1>4. CASE Replied
  <2>1. PICK end \in {"ok", "fail", "error"} : \E shape \in Shapes :
          /\ toClient = <<[id |-> awaiting, end |-> end, shape |-> shape]>>
          /\ phase = "call" =>
               /\ Len(answered) = Len(outputs) + 1
               /\ answered[Len(outputs) + 1] = [end |-> end, shape |-> shape]
    BY <1>4 DEF Replied
  <2>2. PICK shape \in Shapes :
          /\ toClient = <<[id |-> awaiting, end |-> end, shape |-> shape]>>
          /\ phase = "call" =>
               /\ Len(answered) = Len(outputs) + 1
               /\ answered[Len(outputs) + 1] = [end |-> end, shape |-> shape]
    BY <2>1
  <2>3. /\ answer = [id |-> awaiting, end |-> end, shape |-> shape]
        /\ toClient' = <<>> /\ toServer = <<>> /\ serving = Nothing
    BY <1>4, <2>2, ShortQueues DEF Receive, Replied
  <2>4. awaiting = FirstId /\ nextId = FirstId + 1 /\ phase \in {"initialize", "list", "call"}
    BY <1>1 DEF IInv, PhaseInv, Fixed
  <2>5. Len(answered) <= Len(outputs) + 1
    BY <2>2, <2>4, Lengths DEF IInv, PhaseInv
  <2>6. CASE ~IsResult(answer)
    BY <1>1, <2>2, <2>3, <2>5, <2>6, RequestFailsInv DEF Receive
  <2>7. CASE IsResult(answer) /\ phase # "call"
    <3>1. /\ phase' = IF phase = "initialize" THEN "initialized" ELSE "call"
          /\ UNCHANGED <<outputs, report>>
      BY <2>7 DEF Receive, Proceed
    <3>2. PhaseInv'
      BY <1>1, <2>4, <2>7, <3>1, Lengths DEF PhaseInv, FirstId, IInv, serverVars
    <3>3. Quiet'
      BY <1>1, <2>3, <2>4, <2>7, <3>1, Lengths DEF Quiet, Nothing, IInv, PhaseInv, serverVars
    <3>4. OutputsInv'
      BY <1>1, <3>1, NothingSettled DEF IInv, serverVars
    <3> QED BY <1>1, <3>1, <3>2, <3>3, <3>4 DEF IInv, FlowInv, Fixed
  <2>8. CASE IsResult(answer) /\ phase = "call"
    <3> DEFINE found == answered[Len(outputs) + 1]
    <3>1. /\ Len(answered) = Len(outputs) + 1
          /\ found = [end |-> end, shape |-> shape] /\ end \in {"ok", "fail"}
      BY <2>2, <2>3, <2>8 DEF IsResult
    <3>2. Normalized(Steps[Len(outputs) + 1], answer) = Normalized(Steps[Len(outputs) + 1], found)
      <4>1. answer.end = found.end /\ answer.shape = found.shape
        BY <2>3, <3>1
      <4> QED BY <4>1, Zenon DEF Normalized
    <3>3. StepDone(Normalized(Steps[Len(outputs) + 1], found))
      BY <2>8, <3>2 DEF Receive
    <3> HIDE DEF found
    <3>4. OutputsInv' /\ Len(outputs') = Len(outputs) + 1
      BY <1>1, <2>8, <3>1, <3>3, StepSettled DEF StepDone, IInv, PhaseInv, serverVars, found
    <3>5. PhaseInv'
      BY <1>1, <2>4, <2>8, <3>3, <3>4, Lengths DEF PhaseInv, FirstId, IInv, StepDone, serverVars
    <3>6. Quiet'
      BY <1>1, <2>3, <3>1, <3>4, Lengths DEF Quiet, Nothing, serverVars
    <3> QED BY <1>1, <3>3, <3>4, <3>5, <3>6 DEF IInv, FlowInv, Fixed, StepDone
  <2> QED BY <2>6, <2>7, <2>8
<1> QED BY <1>2, <1>3, <1>4

LEMMA EndOfOutputInv == ASSUME IInv, EndOfOutput PROVE IInv'
<1>1. Lost
  BY ShortQueues DEF EndOfOutput, IInv, FlowInv, Quiet, Sent, Served, Replied
<1> QED BY <1>1, RequestFailsInv DEF EndOfOutput, Lost

LEMMA ReportInv == ASSUME IInv, Report PROVE IInv'
<1>1. /\ Steps' = Steps /\ phase = "report" /\ phase' = "done" /\ server' = "down"
      /\ report' = ReportOf(outputs)
      /\ UNCHANGED <<question, target, nextId, awaiting, outputs, toServer, toClient, serverVars>>
  BY StepsFixed DEF Report
<1>2. Quiet /\ toServer = <<>>
  BY <1>1 DEF IInv, PhaseInv, FlowInv, Quiet, Sent, Served, Replied, Lost
<1>3. report' = ReportOf(outputs')
  BY <1>1 DEF ReportOf, Failures
<1>4. PhaseInv'
  BY <1>1, <1>3 DEF IInv, PhaseInv, FirstId, serverVars
<1>5. Quiet'
  BY <1>1, <1>2 DEF Quiet, Nothing, serverVars
<1>6. OutputsInv'
  BY <1>1, NothingSettled DEF IInv, serverVars
<1> QED BY <1>1, <1>4, <1>5, <1>6 DEF IInv, FlowInv, Fixed

(* The server works on the request until it answers.                         *)
LEMMA TakeInv == ASSUME IInv, Take PROVE IInv'
<1>1. /\ Steps' = Steps /\ server = "up" /\ serving = Nothing /\ toServer # <<>>
      /\ toServer' = Tail(toServer)
      /\ serving' = IF Head(toServer).id = 0 THEN Nothing ELSE Head(toServer)
      /\ UNCHANGED <<clientVars, toClient, server, answered>>
  BY StepsFixed DEF Take, clientVars
<1>2. Asked' = Asked
  BY <1>1 DEF Asked, clientVars
<1>3. Fixed' /\ PhaseInv' /\ OutputsInv'
  BY <1>1, NothingSettled DEF IInv, Fixed, PhaseInv, FirstId, ReportOf, Failures, clientVars
<1>4. CASE Quiet
  <2>1. toServer = <<Note>>
    BY <1>1, <1>4 DEF Quiet
  <2>2. toServer' = <<>> /\ serving' = Nothing
    BY <1>1, <2>1, ShortQueues DEF Note
  <2> QED BY <1>1, <1>3, <1>4, <2>2 DEF Quiet, IInv, FlowInv, Nothing, clientVars
<1>5. CASE Sent
  <2>1. Asked.id # 0
    BY <1>5 DEF Sent, Asked
  <2>2. CASE toServer = <<Asked>>
    <3>1. toServer' = <<>> /\ serving' = Asked'
      BY <1>1, <1>2, <2>1, <2>2, ShortQueues
    <3>2. Served'
      BY <1>1, <1>5, <3>1 DEF Sent, Served, clientVars
    <3> QED BY <1>3, <3>2 DEF IInv, FlowInv
  <2>3. CASE toServer = <<Note, Asked>>
    <3>1. toServer' = <<Asked'>> /\ serving' = Nothing
      BY <1>1, <1>2, <2>3, ShortQueues DEF Note
    <3>2. Sent'
      BY <1>1, <1>5, <3>1 DEF Sent, clientVars, Nothing
    <3> QED BY <1>3, <3>2 DEF IInv, FlowInv
  <2> QED BY <1>5, <2>2, <2>3 DEF Sent
<1> QED BY <1>1, <1>4, <1>5 DEF IInv, FlowInv, Served, Replied, Lost

LEMMA RespondInv == ASSUME IInv, Respond PROVE IInv'
<1>1. /\ Steps' = Steps /\ server = "up" /\ serving' = Nothing
      /\ UNCHANGED <<clientVars, toServer, server>>
  BY StepsFixed DEF Respond, clientVars
<1>2. PICK end \in {"ok", "fail", "error"} : \E shape \in Shapes :
        Answer(end, shape) /\ toClient' = Append(toClient, Line(end, shape))
  BY DEF Respond
<1>3. PICK shape \in Shapes :
        Answer(end, shape) /\ toClient' = Append(toClient, Line(end, shape))
  BY <1>2
<1>4. Served
  <2>1. serving # Nothing
    BY <1>3 DEF Answer, Nothing
  <2> QED BY <2>1 DEF IInv, FlowInv, Quiet, Sent, Replied, Lost
<1>5. toClient' = <<[id |-> awaiting', end |-> end, shape |-> shape]>>
  BY <1>1, <1>3, <1>4, ShortQueues DEF Served, Line, Asked, clientVars
<1>6. Fixed' /\ PhaseInv'
  <2>1. phase # "call" => UNCHANGED answered
    BY <1>3, <1>4 DEF Answer, Served, Asked
  <2>2. phase = "call" => phase' = "call"
    BY <1>1 DEF clientVars
  <2> QED BY <1>1, <1>4, <2>1, <2>2
          DEF IInv, Fixed, PhaseInv, FirstId, ReportOf, Failures, Served, clientVars
<1>7. CASE phase = "call"
  <2> DEFINE found == [end |-> end, shape |-> shape]
  <2>1. found \in Found /\ answered' = Append(answered, found)
    BY <1>3, <1>4, <1>7 DEF Answer, Served, Asked, Found
  <2> HIDE DEF found
  <2>2. /\ answered' \in Seq(Found) /\ Len(answered') = Len(answered) + 1
        /\ \A i \in 1..Len(answered) : answered'[i] = answered[i]
        /\ answered'[Len(answered) + 1] = found
    BY <2>1, AppendProperties DEF IInv, OutputsInv
  <2>3. Len(answered) = Len(outputs)
    BY <1>4 DEF Served
  <2>4. \A i \in 1..Len(outputs) : Settled(outputs, answered, i)'
    BY <1>1, <2>2, <2>3, Lengths DEF IInv, OutputsInv, Settled, clientVars
  <2>5. OutputsInv'
    BY <1>1, <2>2, <2>4 DEF IInv, OutputsInv, clientVars
  <2>6. Replied'
    BY <1>1, <1>4, <1>5, <2>2, <2>3 DEF Served, Replied, clientVars, found
  <2> QED BY <1>6, <2>5, <2>6 DEF IInv, FlowInv
<1>8. CASE phase # "call"
  <2>1. UNCHANGED answered
    BY <1>3, <1>4, <1>8 DEF Answer, Served, Asked
  <2>2. OutputsInv'
    BY <1>1, <2>1, NothingSettled DEF IInv, clientVars
  <2>3. Replied'
    BY <1>1, <1>4, <1>5, <1>8 DEF Served, Replied, clientVars
  <2> QED BY <1>6, <2>2, <2>3 DEF IInv, FlowInv
<1> QED BY <1>7, <1>8

(* The server stops by itself, in whatever state the request is.             *)
LEMMA DieInv == ASSUME IInv, Die PROVE IInv'
<1>1. /\ Steps' = Steps /\ server = "up" /\ server' = "down"
      /\ toServer' = <<>> /\ serving' = Nothing
      /\ UNCHANGED <<clientVars, answered>>
      /\ \/ UNCHANGED toClient
         \/ serving # Nothing /\ toClient' = Append(toClient, Line("torn", "none"))
  BY StepsFixed DEF Die, clientVars
<1>2. Fixed' /\ PhaseInv' /\ OutputsInv'
  BY <1>1, NothingSettled DEF IInv, Fixed, PhaseInv, FirstId, ReportOf, Failures, clientVars
<1>3. CASE Quiet
  BY <1>1, <1>2, <1>3 DEF Quiet, IInv, FlowInv, clientVars
<1>4. CASE Sent
  <2>1. Lost'
    BY <1>1, <1>4, Lengths DEF Sent, Lost, clientVars
  <2> QED BY <1>2, <2>1 DEF IInv, FlowInv
<1>5. CASE Served
  <2>1. toClient' \in {<<>>, <<[id |-> awaiting, end |-> "torn", shape |-> "none"]>>}
    BY <1>1, <1>5, ShortQueues DEF Served, Line, Asked
  <2>2. Lost'
    BY <1>1, <1>5, <2>1, Lengths DEF Served, Lost, clientVars
  <2> QED BY <1>2, <2>2 DEF IInv, FlowInv
<1>6. CASE Replied
  <2>1. Replied'
    BY <1>1, <1>6 DEF Replied, clientVars
  <2> QED BY <1>2, <2>1 DEF IInv, FlowInv
<1> QED BY <1>1, <1>3, <1>4, <1>5, <1>6 DEF IInv, FlowInv, Lost

LEMMA EndOfInputInv == ASSUME IInv, EndOfInput PROVE IInv'
<1>1. /\ Steps' = Steps /\ phase = "failed" /\ server' = "down"
      /\ UNCHANGED <<clientVars, toServer, toClient, serverVars>>
  BY StepsFixed DEF EndOfInput, clientVars
<1>2. Fixed' /\ PhaseInv' /\ OutputsInv'
  BY <1>1, NothingSettled DEF IInv, Fixed, PhaseInv, FirstId, ReportOf, Failures, clientVars, serverVars
<1>3. Quiet
  BY <1>1 DEF IInv, PhaseInv, FlowInv, Sent, Served, Replied, Lost
<1>4. Quiet'
  BY <1>1, <1>3 DEF Quiet, clientVars, serverVars, Nothing
<1> QED BY <1>2, <1>4 DEF IInv, FlowInv

LEMMA StepInv == ASSUME IInv, [Next]_vars PROVE IInv'
<1>1. CASE UNCHANGED vars
  <2>1. Steps' = Steps
    BY <1>1, StepsFixed DEF vars, clientVars
  <2>2. OutputsInv'
    BY <1>1, <2>1, NothingSettled DEF IInv, vars, clientVars, serverVars
  <2>3. Fixed' /\ PhaseInv'
    BY <1>1, <2>1 DEF IInv, Fixed, PhaseInv, FirstId, ReportOf, Failures, vars, clientVars,
                     serverVars
  <2>4. FlowInv'
    BY <1>1, <2>1 DEF IInv, FlowInv, Quiet, Sent, Served, Replied, Lost, Asked, Note, Nothing,
                     vars, clientVars, serverVars
  <2> QED BY <2>2, <2>3, <2>4 DEF IInv
<1> QED BY <1>1, SendInv, NotifyInv, ReceiveInv, EndOfOutputInv, ReportInv, TakeInv,
           RespondInv, DieInv, EndOfInputInv DEF Next, Client, Server

LEMMA ClientAlways == Spec => []IInv
<1>1. Init => IInv
  BY InitInv
<1>2. IInv /\ [Next]_vars => IInv'
  BY StepInv
<1> QED BY <1>1, <1>2, PTL DEF Spec

-----------------------------------------------------------------------------
(* The plan has at most as many steps as there are calls to number, and the  *)
(* pipes never hold more than a notification and one request.                *)
LEMMA Typed == IInv => TypeOK
<1> SUFFICES ASSUME IInv PROVE TypeOK
  OBVIOUS
<1>1. /\ nextId \in 1..Len(Steps) + 3 /\ awaiting \in 0..nextId - 1
      /\ outputs = <<>> => Len(outputs) = 0
  <2>1. Len(outputs) \in 0..Len(Steps)
    BY Lengths DEF IInv, OutputsInv
  <2>2. phase = "call" => Len(outputs) < Len(Steps)
    BY DEF IInv, PhaseInv
  <2> QED BY <2>1, <2>2, Lengths DEF IInv, PhaseInv, FirstId, Fixed
<1>2. Len(toServer) <= 2 /\ Len(toClient) <= 1
  <2>1. \/ toServer = <<>>
        \/ \E x : toServer = <<x>>
        \/ \E x, y : toServer = <<x, y>>
    BY DEF IInv, FlowInv, Quiet, Sent, Served, Replied, Lost
  <2>2. toClient = <<>> \/ \E x : toClient = <<x>>
    BY DEF IInv, FlowInv, Quiet, Sent, Served, Replied, Lost
  <2>3. Len(toServer) \in 0..2
    <3>1. Len(<<>>) \in 0..2 /\ \A x, y : Len(<<x>>) \in 0..2 /\ Len(<<x, y>>) \in 0..2
      OBVIOUS
    <3> QED BY <2>1, <3>1, Zenon
  <2>4. Len(toClient) \in 0..1
    <3>1. Len(<<>>) \in 0..1 /\ \A x : Len(<<x>>) \in 0..1
      OBVIOUS
    <3> QED BY <2>2, <3>1, Zenon
  <2>5. \A a \in 0..2, b \in 0..1 : a <= 2 /\ b <= 1
    OBVIOUS
  <2> QED BY <2>3, <2>4, <2>5, Zenon
<1>3. Len(answered) <= Len(Steps)
  <2>1. CASE phase = "call"
    <3>1. Len(outputs) < Len(Steps)
      BY <2>1 DEF IInv, PhaseInv
    <3>2. Quiet \/ Sent \/ Served \/ Lost => Len(answered) <= Len(outputs) + 1
      BY Lengths DEF Quiet, Sent, Served, Lost
    <3>3. Replied => Len(answered) <= Len(outputs) + 1
      BY <2>1, Lengths DEF Replied
    <3>4. Len(answered) <= Len(outputs) + 1
      BY <3>2, <3>3 DEF IInv, FlowInv
    <3> QED BY <3>1, <3>4, Lengths
  <2>2. CASE phase # "call"
    <3>1. answered = <<>> \/ (awaiting = 0 /\ Len(outputs) = Len(Steps))
      BY <2>2 DEF IInv, PhaseInv, Fixed
    <3>2. awaiting = 0 => Len(answered) <= Len(outputs)
      BY DEF IInv, FlowInv, Quiet, Sent, Served, Replied, Lost
    <3> QED BY <3>1, <3>2, Lengths
  <2> QED BY <2>1, <2>2
<1> QED BY <1>1, <1>2, <1>3 DEF TypeOK, IInv, Fixed

(* ExampleClient's variables keep their types in every state.                *)
THEOREM ClientTyped == Spec => []TypeOK
BY ClientAlways, Typed, PTL

(* run(): there is one result per step of the plan, in its order, whenever   *)
(* and wherever the server stops.                                            *)
THEOREM StepsAreReported == Spec => []OneResultPerStep
<1>1. ASSUME IInv PROVE OneResultPerStep
  <2> DEFINE named == [i \in DOMAIN outputs |-> outputs[i].tool]
             n == Len(outputs)
  <2>1. n \in Nat /\ n <= Len(Steps) /\ DOMAIN outputs = 1..n /\ Len(Steps) \in Nat
    BY <1>1, Lengths, LenProperties DEF IInv, OutputsInv
  <2>2. ASSUME NEW i \in 1..n PROVE outputs[i].tool = Steps[i]
    <3>1. Settled(outputs, answered, i)
      BY <1>1, <2>2 DEF IInv, OutputsInv
    <3>2. CASE outputs[i] = CallFailed(Steps[i])
      BY <3>2 DEF CallFailed
    <3>3. CASE i \in 1..Len(answered) /\ outputs[i] = Normalized(Steps[i], answered[i])
      <4>1. answered[i] \in Found
        BY <1>1, <3>3, ElementOfSeq DEF IInv, OutputsInv
      <4>2. answered[i].shape \in {"envelope", "legacy", "none"}
        BY <4>1, ShapesAssumption DEF Found
      <4> QED BY <3>3, <4>2 DEF Normalized
    <3> QED BY <3>1, <3>2, <3>3 DEF Settled
  <2>3. /\ named \in [1..n -> ToolNames] /\ Len(named) = n
        /\ \A i \in 1..n : named[i] = Steps[i]
    BY <2>1, <2>2, StepTyped
  <2>4. named \in Seq(ToolNames)
    BY <2>1, <2>3
  <2> HIDE DEF named
  <2>5. SubSeq(named, 1, n) = named
    BY <2>3, <2>4, SubSeqFull
  <2>6. SubSeq(Steps, 1, n) = named
    <3> DEFINE t == SubSeq(Steps, 1, n)
    <3>1. /\ t \in Seq(ToolNames) /\ Len(t) = n
          /\ \A i \in 1..n : t[i] = Steps[i]
      BY <2>1, StepTyped, SubSeqProperties
    <3> HIDE DEF t
    <3>2. t = named
      BY <2>3, <2>4, <3>1, SeqEqual
    <3> QED BY <3>2 DEF t
  <2>7. IsPrefix(named, Steps)
    BY <2>1, <2>3, <2>5, <2>6 DEF IsPrefix
  <2>8. phase \in {"report", "done"} => n = Len(Steps)
    BY <1>1 DEF IInv, PhaseInv
  <2> QED BY <2>7, <2>8 DEF OneResultPerStep, named
<1> QED BY <1>1, ClientAlways, PTL

(* A step that was not missed has the server's answer to that very call.     *)
LEMMA NotMissed ==
  ASSUME IInv, NEW i \in DOMAIN outputs, ~Missed(i)
  PROVE  /\ i \in 1..Len(answered) /\ i \in DOMAIN answered
         /\ answered[i].end \in {"ok", "fail"}
         /\ answered[i].shape \in {"envelope", "legacy", "none"}
         /\ answered[i] = [end |-> answered[i].end, shape |-> answered[i].shape]
         /\ outputs[i] = Normalized(Steps[i], answered[i])
         /\ Steps[i] \in ToolNames
<1>1. i \in 1..Len(outputs) /\ Len(outputs) <= Len(Steps)
  BY LenProperties DEF IInv, OutputsInv
<1>2. /\ i \in 1..Len(answered) /\ answered[i].end \in {"ok", "fail"}
      /\ outputs[i] = Normalized(Steps[i], answered[i])
  BY <1>1 DEF IInv, OutputsInv, Settled, Missed
<1>3. answered[i] \in Found /\ DOMAIN answered = 1..Len(answered)
  BY <1>2, ElementOfSeq, LenProperties DEF IInv, OutputsInv
<1>4. Steps[i] \in ToolNames
  BY <1>1, Lengths, StepTyped
<1> QED BY <1>2, <1>3, <1>4, ShapesAssumption DEF Found

(* request(): what is reported of a step is what the server found for it.    *)
THEOREM ResultsAreGenuine == Spec => []ResultsAreTheServers
<1>1. ASSUME IInv, NEW i \in DOMAIN outputs, ~Missed(i)
      PROVE  outputs[i].status \in {answered[i].end, "unknown"}
  <2>1. /\ answered[i].shape \in {"envelope", "legacy", "none"}
        /\ outputs[i] = Normalized(Steps[i], answered[i])
    BY <1>1, NotMissed
  <2>2. Normalized(Steps[i], answered[i]).status \in {answered[i].end, "unknown"}
    BY <2>1 DEF Normalized
  <2> QED BY <2>1, <2>2
<1>2. IInv => ResultsAreTheServers
  BY <1>1, NotMissed DEF ResultsAreTheServers
<1> QED BY <1>2, ClientAlways, PTL

(* The words the client looks for are in the signals the server sends for    *)
(* the tools of that layer and in no others.                                 *)
LEMMA FailingSignal ==
  ASSUME IInv, NEW i \in DOMAIN outputs, outputs[i].status = "fail"
  PROVE  /\ outputs[i].signal \in Layer2Signals <=>
              /\ ~Missed(i) /\ answered[i] = [end |-> "fail", shape |-> "envelope"]
              /\ Steps[i] \in {"net.if_status", "net.neighbors", "net.mac_lookup"}
         /\ outputs[i].signal \in Layer3Signals <=>
              /\ ~Missed(i) /\ answered[i] = [end |-> "fail", shape |-> "envelope"]
              /\ Steps[i] \in {"net.routes", "net.ping", "net.traceroute"}
<1>1. CASE Missed(i)
  BY <1>1 DEF Missed, CallFailed, Layer2Signals, Layer3Signals
<1>2. CASE ~Missed(i) /\ answered[i].shape = "envelope"
  <2>1. /\ outputs[i] = [tool |-> Steps[i], status |-> answered[i].end,
          signal |-> IF answered[i].end = "ok" THEN "command_succeeded"
                                               ELSE FailureSignal(Steps[i])]
    BY <1>2, NotMissed DEF Normalized
  <2>2. answered[i].end = "fail" /\ outputs[i].signal = FailureSignal(Steps[i])
    BY <2>1
  <2>3. answered[i] = [end |-> "fail", shape |-> "envelope"]
    BY <1>2, <2>2, NotMissed
  <2>4. Steps[i] \in ToolNames
    BY <1>2, NotMissed
  <2> QED BY <1>2, <2>2, <2>3, <2>4
          DEF FailureSignal, Layer2Signals, Layer3Signals, ToolNames
<1>3. CASE ~Missed(i) /\ answered[i].shape # "envelope"
  <2>1. outputs[i].signal \in {"malformed_tool_result", "diagnostic_command_failed",
                               "command_succeeded"}
    <3>1. /\ answered[i].shape \in {"legacy", "none"}
          /\ outputs[i] = Normalized(Steps[i], answered[i])
      BY <1>3, NotMissed
    <3> QED BY <3>1 DEF Normalized
  <2>2. answered[i] # [end |-> "fail", shape |-> "envelope"]
    BY <1>3
  <2> QED BY <2>1, <2>2 DEF Layer2Signals, Layer3Signals
<1> QED BY <1>1, <1>2, <1>3

LEMMA FailedIsFailing ==
  ASSUME IInv, NEW i \in DOMAIN outputs, ~Missed(i),
         answered[i] = [end |-> "fail", shape |-> "envelope"]
  PROVE  outputs[i].status = "fail"
<1>1. answered[i].end = "fail" /\ answered[i].shape = "envelope"
  OBVIOUS
<1> QED BY <1>1, NotMissed DEF Normalized

(* infer_domain() and signal_for(): the domain named is that of the failing  *)
(* diagnostics, for every plan and every set of failures.                    *)
THEOREM DomainIsRight == Spec => []DomainIsTheFailures
<1>1. ASSUME IInv, phase = "done"
      PROVE  report.domain =
               IF FailedOnHost({"net.if_status", "net.neighbors", "net.mac_lookup"})
                 THEN "layer 2"
               ELSE IF FailedOnHost({"net.routes", "net.ping", "net.traceroute"})
                 THEN "layer 3"
               ELSE "general"
  <2> DEFINE signals == {outputs[i].signal : i \in Failures(outputs)}
  <2>1. report.domain = InferDomain(signals)
    BY <1>1 DEF IInv, PhaseInv, ReportOf
  <2>2. signals \cap Layer2Signals # {} <=>
          FailedOnHost({"net.if_status", "net.neighbors", "net.mac_lookup"})
    BY <1>1, FailingSignal, FailedIsFailing DEF Failures, FailedOnHost
  <2>3. signals \cap Layer3Signals # {} <=>
          FailedOnHost({"net.routes", "net.ping", "net.traceroute"})
    BY <1>1, FailingSignal, FailedIsFailing DEF Failures, FailedOnHost
  <2> HIDE DEF signals
  <2> QED BY <2>1, <2>2, <2>3, Zenon DEF InferDomain
<1>2. IInv => DomainIsTheFailures
  BY <1>1, Zenon DEF DomainIsTheFailures
<1> QED BY <1>2, ClientAlways, PTL
=============================================================================
