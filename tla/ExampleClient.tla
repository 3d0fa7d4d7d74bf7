---------------------------- MODULE ExampleClient ----------------------------
(* The example client of examples/minimal-mcp-client: it starts the server  *)
(* as a child, does the handshake, sends one tools/call per step of a plan, *)
(* each after the answer to the one before, reports, and kills the server.  *)
(* It has no timeout; a server that stops shows as the end of its output.   *)
(*                                                                          *)
(* The server is modelled by what the client sees of it: it takes requests  *)
(* in order, answers each with a result, a failed one or an error, and may  *)
(* stop at any moment, in the middle of a line too.  What it did before the *)
(* answer, its audit rows among it, is NetdiagServer's.                     *)
EXTENDS Naturals, FiniteSets, SequencesExt

CONSTANTS
  Questions,   \* what the question mentions: a subset of {"l2", "mac", "l3"}
  Targets,     \* whether --target is given
  Shapes,      \* how the server wraps a tool's result
  MaxTrouble   \* bound: how many calls end otherwise than well

ASSUME QuestionsAssumption ==
  \A q \in Questions : q \subseteq {"l2", "mac", "l3"} /\ ("mac" \in q => "l2" \in q)
ASSUME ShapesAssumption == Shapes \subseteq {"envelope", "legacy", "none"}

VARIABLES
  question, target,
  phase,      \* where run() is
  nextId,
  awaiting,   \* the id request() waits for, 0 for none
  outputs,    \* what became of each step
  report,     \* failing steps and the likely domain, once printed
  toServer,   \* lines in the server's stdin
  toClient,   \* lines in its stdout
  server,     \* "up" or "down"
  serving,    \* the request the server is at
  answered    \* the answer to each call (history)

clientVars == <<question, target, phase, nextId, awaiting, outputs, report>>
serverVars == <<serving, answered>>
vars == <<clientVars, toServer, toClient, server, serverVars>>

Nothing == [id |-> 0, method |-> "none", tool |-> "none"]
NoReport == [failures |-> {}, domain |-> "none"]

-----------------------------------------------------------------------------
(* build_plan and the report.                                               *)

Tools(condition, names) == IF condition THEN names ELSE <<>>

Plan(q, t) ==
  LET mixed == q \cap {"l2", "l3"} = {} IN
     Tools("l2" \in q \/ mixed, <<"net.if_status", "net.neighbors">>)
  \o Tools("mac" \in q, <<"net.mac_lookup">>)
  \o Tools("l3" \in q \/ mixed, <<"net.routes">>)
  \o Tools(t, <<"net.ping", "net.traceroute">>)
  \o <<"net.logs">>

Steps == Plan(question, target)

\* Mutant of FailureSignal: another word for the same thing.
FailureSignalReworded(tool) ==
  CASE tool = "net.if_status"  -> "interface_or_link_issue"
    [] tool = "net.neighbors"  -> "neighbor_resolution_issue"
    [] tool = "net.mac_lookup" -> "mac_table_lookup_failed"
    [] tool = "net.routes"     -> "route_state_issue"
    [] tool = "net.ping"       -> "connectivity_check_failed"
    [] tool = "net.traceroute" -> "path_diagnosis_failed"
    [] OTHER                   -> "log_extraction_failed"

\* signal_for, on the server: the signal of a tool whose command failed.
FailureSignal(tool) ==
  CASE tool = "net.if_status"  -> "interface_or_link_issue"
    [] tool = "net.neighbors"  -> "neighbor_resolution_issue"
    [] tool = "net.mac_lookup" -> "mac_table_lookup_failed"
    [] tool = "net.routes"     -> "routing_state_issue"
    [] tool = "net.ping"       -> "connectivity_check_failed"
    [] tool = "net.traceroute" -> "path_diagnosis_failed"
    [] OTHER                   -> "log_extraction_failed"

\* The signals of a plan that contain "link", "mac" or "neighbor", and those
\* that contain "routing", "connectivity" or "path".
Layer2Signals == {"interface_or_link_issue", "neighbor_resolution_issue",
                  "mac_table_lookup_failed"}
Layer3Signals == {"routing_state_issue", "connectivity_check_failed",
                  "path_diagnosis_failed"}

InferDomain(signals) ==
  IF signals \cap Layer2Signals # {} THEN "layer 2"
  ELSE IF signals \cap Layer3Signals # {} THEN "layer 3"
  ELSE "general"

\* What run() keeps of an answer: normalize_payload of its structured content.
Normalized(tool, answer) ==
  CASE answer.shape = "none" ->
         [tool |-> tool, status |-> "unknown", signal |-> "malformed_tool_result"]
    [] answer.shape = "envelope" ->
         [tool |-> tool, status |-> answer.end,
          signal |-> IF answer.end = "ok" THEN "command_succeeded" ELSE FailureSignal(tool)]
    [] answer.shape = "legacy" ->
         [tool |-> tool, status |-> answer.end,
          signal |-> IF answer.end = "ok" THEN "command_succeeded"
                                          ELSE "diagnostic_command_failed"]

CallFailed(tool) == [tool |-> tool, status |-> "fail", signal |-> "mcp_tool_call_failed"]

Failures(outs) == {i \in DOMAIN outs : outs[i].status = "fail"}
ReportOf(outs) ==
  [failures |-> Failures(outs),
   domain   |-> InferDomain({outs[i].signal : i \in Failures(outs)})]

-----------------------------------------------------------------------------
Init ==
  /\ question \in Questions /\ target \in Targets
  /\ phase = "initialize" /\ nextId = 1 /\ awaiting = 0
  /\ outputs = <<>> /\ report = NoReport
  /\ toServer = <<>> /\ toClient = <<>>
  /\ server = "up" /\ serving = Nothing /\ answered = <<>>

(* The client: run() and request().                                         *)

\* request() of the current phase returned value v, or failed.
Proceed ==
  /\ phase' = IF phase = "initialize" THEN "initialized" ELSE "call"
  /\ UNCHANGED <<outputs, report>>

Abort == phase' = "failed" /\ UNCHANGED <<outputs, report>>

StepDone(output) ==
  /\ outputs' = Append(outputs, output)
  /\ phase' = IF Len(outputs) + 1 = Len(Steps) THEN "report" ELSE "call"
  /\ UNCHANGED report

\* Mutant of RequestFails: a dead server ends the plan.
RequestFailsShort ==
  \/ phase \in {"initialize", "list"} /\ Abort
  \/ phase = "call" /\ phase' = "report" /\ UNCHANGED <<outputs, report>>

RequestFails ==
  \/ phase \in {"initialize", "list"} /\ Abort
  \/ phase = "call" /\ StepDone(CallFailed(Steps[Len(outputs) + 1]))

\* send: the line is in the pipe, or nobody reads it any more.
Send ==
  /\ phase \in {"initialize", "list", "call"} /\ awaiting = 0
  /\ nextId' = nextId + 1
  /\ \/ /\ server = "up"
        /\ toServer' = Append(toServer,
             [id |-> nextId, method |-> phase,
              tool |-> IF phase = "call" THEN Steps[Len(outputs) + 1] ELSE "none"])
        /\ awaiting' = nextId
        /\ UNCHANGED <<phase, outputs, report>>
     \/ /\ server = "down"
        /\ RequestFails
        /\ UNCHANGED <<toServer, awaiting>>
  /\ UNCHANGED <<question, target, toClient, server, serverVars>>

Notify ==
  /\ phase = "initialized"
  /\ \/ /\ server = "up"
        /\ toServer' = Append(toServer, [id |-> 0, method |-> "initialized", tool |-> "none"])
        /\ phase' = "list"
     \/ /\ server = "down"
        /\ phase' = "failed"
        /\ UNCHANGED toServer
  /\ UNCHANGED <<question, target, nextId, awaiting, outputs, report, toClient, server,
                 serverVars>>

\* Mutant of IsResult: the error member is not looked at.
IsResultById(answer) == answer.end # "torn" /\ answer.id = awaiting

\* An answer that is a result: a whole line, no error, the id that was sent.
IsResult(answer) == answer.end \in {"ok", "fail"} /\ answer.id = awaiting

\* read_line_json returned a line.
Receive ==
  /\ awaiting # 0 /\ toClient # <<>>
  /\ LET answer == Head(toClient) IN
     \/ ~IsResult(answer) /\ RequestFails
     \/ IsResult(answer) /\ phase # "call" /\ Proceed
     \/ IsResult(answer) /\ phase = "call"
        /\ StepDone(Normalized(Steps[Len(outputs) + 1], answer))
  /\ awaiting' = 0
  /\ toClient' = Tail(toClient)
  /\ UNCHANGED <<question, target, nextId, toServer, server, serverVars>>

\* Mutant of EndOfOutput: an empty read is tried again.
EndRetried ==
  /\ awaiting # 0 /\ toClient = <<>> /\ server = "down"
  /\ UNCHANGED vars

\* read_line returned no bytes: the server closed its output.
EndOfOutput ==
  /\ awaiting # 0 /\ toClient = <<>> /\ server = "down"
  /\ RequestFails
  /\ awaiting' = 0
  /\ UNCHANGED <<question, target, nextId, toServer, toClient, server, serverVars>>

\* Print the report, then kill the server.
Report ==
  /\ phase = "report"
  /\ report' = ReportOf(outputs)
  /\ phase' = "done"
  /\ server' = "down"
  /\ UNCHANGED <<question, target, nextId, awaiting, outputs, toServer, toClient, serverVars>>

-----------------------------------------------------------------------------
(* The server, as the client sees it.                                       *)

Troubles == Cardinality({i \in DOMAIN answered : answered[i] # [end |-> "ok", shape |-> "envelope"]})

Take ==
  /\ server = "up" /\ serving = Nothing /\ toServer # <<>>
  /\ toServer' = Tail(toServer)
  /\ serving' = IF Head(toServer).id = 0 THEN Nothing ELSE Head(toServer)
  /\ UNCHANGED <<clientVars, toClient, server, answered>>

Line(end, shape) == [id |-> serving.id, end |-> end, shape |-> shape]

\* How a request may end; for a tools/call that is what the tool came to.
Answer(end, shape) ==
  \/ /\ serving.method \in {"initialize", "list"}
     /\ end \in {"ok", "error"} /\ shape = "envelope"
     /\ UNCHANGED answered
  \/ /\ serving.method = "call"
     /\ (end # "ok" \/ shape # "envelope") => Troubles < MaxTrouble
     /\ end = "error" => shape = "envelope"
     /\ answered' = Append(answered, [end |-> end, shape |-> shape])

Respond ==
  /\ server = "up"
  /\ \E end \in {"ok", "fail", "error"}, shape \in Shapes :
       /\ Answer(end, shape)
       /\ toClient' = Append(toClient, Line(end, shape))
  /\ serving' = Nothing
  /\ UNCHANGED <<clientVars, toServer, server>>

\* The server stops by itself, perhaps half way through a line.
Die ==
  /\ server = "up" /\ phase \notin {"done", "failed"}
  /\ server' = "down"
  /\ \/ UNCHANGED toClient
     \/ serving # Nothing /\ toClient' = Append(toClient, Line("torn", "none"))
  /\ toServer' = <<>> /\ serving' = Nothing
  /\ UNCHANGED <<clientVars, answered>>

\* The client is gone and with it the server's input.
EndOfInput ==
  /\ server = "up" /\ phase = "failed"
  /\ server' = "down"
  /\ UNCHANGED <<clientVars, toServer, toClient, serverVars>>

Client == Send \/ Notify \/ Receive \/ EndOfOutput \/ Report
Server == Take \/ Respond \/ EndOfInput

Next == Client \/ Server \/ Die

Spec == Init /\ [][Next]_vars

\* The client runs; the server goes on until it answers, as NetdiagSystem shows
\* of it, or dies.
FairSpec == Spec /\ WF_vars(Client) /\ WF_vars(Server)
-----------------------------------------------------------------------------
(* Properties.                                                              *)

TypeOK ==
  /\ phase \in {"initialize", "initialized", "list", "call", "report", "done", "failed"}
  /\ nextId \in 1..Len(Steps) + 3 /\ awaiting \in 0..nextId - 1
  /\ Len(toServer) <= 2 /\ Len(toClient) <= 1
  /\ server \in {"up", "down"}
  /\ Len(answered) <= Len(Steps)

Missed(i) == outputs[i] = CallFailed(Steps[i])

\* One result per step and in the order of the plan, whenever and wherever the
\* server stops: the steps it never saw are reported as failed, not left out (run).
OneResultPerStep ==
  /\ IsPrefix([i \in DOMAIN outputs |-> outputs[i].tool], Steps)
  /\ phase \in {"report", "done"} => Len(outputs) = Len(Steps)

\* What is reported of a step is what the server found for that very step: no
\* error, torn line or answer to another request passes for a result (request).
ResultsAreTheServers ==
  \A i \in DOMAIN outputs : ~Missed(i) =>
    /\ i \in DOMAIN answered
    /\ answered[i].end \in {"ok", "fail"}
    /\ outputs[i].status \in {answered[i].end, "unknown"}

\* The domain named is that of the failing diagnostics: layer 2 if one of the
\* link tools failed on the host, else layer 3 if one of the route and reachability
\* tools did.  The client looks for words in signals the server chooses
\* (infer_domain, signal_for), and a call that went wrong on the way names none.
FailedOnHost(tools) ==
  \E i \in DOMAIN outputs :
    /\ ~Missed(i) /\ Steps[i] \in tools
    /\ answered[i] = [end |-> "fail", shape |-> "envelope"]
DomainIsTheFailures ==
  phase = "done" =>
    LET l2 == FailedOnHost({"net.if_status", "net.neighbors", "net.mac_lookup"})
        l3 == FailedOnHost({"net.routes", "net.ping", "net.traceroute"})
    IN report.domain = IF l2 THEN "layer 2" ELSE IF l3 THEN "layer 3" ELSE "general"

\* The client ends and leaves no server behind, on every path: report, failed
\* handshake, dead server (run, shutdown, main).
EndsWithoutServer == <>[](phase \in {"done", "failed"} /\ server = "down")
=============================================================================
