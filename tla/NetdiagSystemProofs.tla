------------------------ MODULE NetdiagSystemProofs -------------------------
(* Theorems about the server over its command runner, for every number of   *)
(* requests, slots, crashes and failed writes and every timeout.            *)
EXTENDS NetdiagSystem, NetdiagServerProofs

-----------------------------------------------------------------------------
(* The server's part of a step.                                             *)

(* A run that returns to call_tool is one the server takes for granted.     *)
LEMMA CollectReturns ==
  ASSUME NEW r \in Requests, Collect(r) PROVE RunReturns(r)
<1>1. Told(outcome[r]) \in Finished
  BY FinishedAssumption DEF Told
<1> QED BY <1>1 DEF Collect, RunReturns

(* Every step of the whole is one of the server's or leaves it alone.       *)
LEMMA ServerPart == [SystemNext]_systemVars => [Next]_vars
<1> SUFFICES ASSUME [SystemNext]_systemVars PROVE Next \/ UNCHANGED vars
  OBVIOUS
<1>1. ASSUME NEW r \in Requests, Serve(r) \/ Dispatch(r) PROVE Next
  BY <1>1 DEF Serve, Dispatch, Next, Handle
<1>2. ASSUME NEW r \in Requests, Collect(r) PROVE Next
  BY <1>2, CollectReturns DEF Next, Handle
<1>3. ASSUME NEW r \in Requests, Execute(r) \/ Conclude(r) \/ Gone(r)
      PROVE  UNCHANGED vars
  BY <1>3 DEF Execute, Conclude, Gone
<1>4. CASE Stop \/ Kill
  BY <1>4 DEF Stop, Kill, Next
<1>5. CASE Tick \/ UNCHANGED systemVars
  BY <1>5 DEF Tick, systemVars
<1>6. CASE (Restart \/ Finish) /\ UNCHANGED <<runnerVars, orphans>>
  BY <1>6 DEF Next
<1> QED BY <1>1, <1>2, <1>3, <1>4, <1>5, <1>6 DEF SystemNext

(* The server over its runner behaves as the server over the run it takes   *)
(* for granted: what is proved of NetdiagServer holds of the whole.         *)
THEOREM SystemIsServer == SystemSpec => Spec
BY ServerPart, PTL DEF SystemSpec, SystemInit, Spec

(* The server over its real runner, stopped or killed at any moment with    *)
(* its children running, leaves the audit trail promised (call_tool, log).  *)
THEOREM SystemKeepsTrail == SystemSpec => ImplementsAuditTrail
BY SystemIsServer, TrailRefinement

-----------------------------------------------------------------------------
(* The slots of the whole.                                                  *)

Queued  == {r \in Requests : pc[r] = "queued"}
Holding == {r \in Requests : pc[r] \in Runner!Holding}

SlotsInv ==
  /\ pc \in [Requests -> Runner!States]
  /\ Accounts(queue, Queued, Holding, permits, MaxSlots, Requests)

(* Calls that keep what they hold and where they wait.                      *)
LEMMA SlotsAlone ==
  ASSUME SlotsInv, UNCHANGED <<permits, queue>>, pc' \in [Requests -> Runner!States],
         \A r \in Requests : /\ pc[r] \in Runner!Holding <=> pc'[r] \in Runner!Holding
                             /\ pc[r] = "queued" <=> pc'[r] = "queued"
  PROVE  SlotsInv'
<1>1. Queued' = Queued /\ Holding' = Holding
  BY DEF Queued, Holding
<1> QED BY <1>1 DEF SlotsInv

(* A holder returns: nobody's call begins or is forgotten.                  *)
LEMMA Returned ==
  ASSUME SlotsInv, NEW r \in Requests, r \in Holding, NEW o, Runner!Return(r, o)
  PROVE  /\ SlotsInv'
         /\ pc'[r] = "done"
         /\ \A q \in Requests \ {r} :
              pc'[q] = pc[q] \/ (pc[q] = "queued" /\ pc'[q] = "granted")
<1>1. /\ pc[r] \in Runner!Holding /\ {"done", "granted"} \subseteq Runner!States
      /\ "granted" \in Runner!Holding
      /\ "done" \notin Runner!Holding /\ "queued" \notin Runner!Holding
  BY DEF Holding, Runner!Holding, Runner!States
<1>2. CASE queue = <<>>
  <2>1. permits' = permits + 1 /\ pc' = [pc EXCEPT ![r] = "done"] /\ queue' = queue
    BY <1>2 DEF Runner!Return
  <2>2. /\ pc' \in [Requests -> Runner!States]
        /\ Holding' = Holding \ {r} /\ Queued' = Queued
    BY <1>1, <2>1 DEF SlotsInv, Holding, Queued
  <2>3. SlotsInv'
    BY <1>2, <2>1, <2>2, SlotFreed, SlotsAssumption DEF SlotsInv
  <2> QED BY <2>1, <2>3 DEF SlotsInv
<1>3. CASE queue # <<>>
  <2> DEFINE h == Head(queue)
  <2>1. /\ pc' = [pc EXCEPT ![r] = "done", ![h] = "granted"]
        /\ queue' = Tail(queue) /\ permits' = permits
    BY <1>3 DEF Runner!Return
  <2>2. /\ h \in Requests /\ h \in Queued /\ h # r
        /\ Accounts(Tail(queue), Queued \ {h}, (Holding \ {r}) \cup {h}, permits, MaxSlots, Requests)
    BY <1>3, SlotHandedOver, SlotsAssumption DEF SlotsInv
  <2> HIDE DEF h
  <2>3. /\ pc' \in [Requests -> Runner!States]
        /\ Holding' = (Holding \ {r}) \cup {h} /\ Queued' = Queued \ {h}
    BY <1>1, <2>1, <2>2 DEF SlotsInv, Holding, Queued
  <2>4. SlotsInv'
    BY <2>1, <2>2, <2>3 DEF SlotsInv
  <2> QED BY <2>1, <2>2, <2>4 DEF SlotsInv, Queued
<1> QED BY <1>2, <1>3
(* A waiter gives up.                                                       *)
LEMMA GivenUp ==
  ASSUME SlotsInv, NEW r \in Requests, Runner!SlotTimeout(r)
  PROVE  SlotsInv'
<1>1. PICK n \in 1..Len(queue) : queue[n] = r /\ queue' = Runner!RemoveAt(queue, n)
  BY DEF Runner!SlotTimeout
<1>2. queue' = RemoveAt(queue, n)
  BY <1>1 DEF RemoveAt, Runner!RemoveAt
<1>3. /\ pc[r] = "queued" /\ pc' = [pc EXCEPT ![r] = "done"] /\ permits' = permits
      /\ "done" \in Runner!States
      /\ "done" \notin Runner!Holding /\ "queued" \notin Runner!Holding
  BY DEF Runner!SlotTimeout, Runner!SlotDue, Runner!States, Runner!Holding
<1>4. /\ pc' \in [Requests -> Runner!States]
      /\ Holding' = Holding /\ Queued' = Queued \ {r}
  BY <1>3 DEF SlotsInv, Holding, Queued
<1> QED BY <1>1, <1>2, <1>3, <1>4, SlotForgone DEF SlotsInv

(* A call is admitted: it takes a slot or waits for one.                    *)
LEMMA Admitted ==
  ASSUME SlotsInv, NEW r \in Requests, NEW k, Runner!Call(r, k),
         Runner!GateOf(k, Allowlist, OptIn) = "admitted"
  PROVE  /\ SlotsInv'
         /\ \E s \in {"granted", "queued"} : pc' = [pc EXCEPT ![r] = s]
         /\ UNCHANGED <<child, dying, outcome>>
<1>1. /\ pc[r] = "idle" /\ r \notin Holding /\ r \notin Queued
      /\ {"granted", "queued"} \subseteq Runner!States /\ "granted" \in Runner!Holding
      /\ "idle" \notin Runner!Holding /\ "queued" \notin Runner!Holding
  BY DEF Runner!Call, Holding, Queued, Runner!States, Runner!Holding
<1>2. UNCHANGED <<child, dying>>
  BY DEF Runner!Call, Runner!NoChildStep
<1>3. \/ /\ permits > 0 /\ permits' = permits - 1 /\ UNCHANGED <<queue, outcome>>
         /\ pc' = [pc EXCEPT ![r] = "granted"]
      \/ /\ permits = 0 /\ queue' = Append(queue, r) /\ UNCHANGED <<permits, outcome>>
         /\ pc' = [pc EXCEPT ![r] = "queued"]
  BY DEF Runner!Call, Runner!Join, Runner!Refusals
<1>4. CASE /\ permits > 0 /\ permits' = permits - 1 /\ UNCHANGED <<queue, outcome>>
           /\ pc' = [pc EXCEPT ![r] = "granted"]
  <2>1. /\ pc' \in [Requests -> Runner!States]
        /\ Holding' = Holding \cup {r} /\ Queued' = Queued
    BY <1>1, <1>4 DEF SlotsInv, Holding, Queued
  <2>2. SlotsInv'
    BY <1>1, <1>4, <2>1, SlotTaken, SlotsAssumption DEF SlotsInv
  <2> QED BY <1>2, <1>4, <2>2
<1>5. CASE /\ permits = 0 /\ queue' = Append(queue, r) /\ UNCHANGED <<permits, outcome>>
           /\ pc' = [pc EXCEPT ![r] = "queued"]
  <2>1. /\ pc' \in [Requests -> Runner!States]
        /\ Holding' = Holding /\ Queued' = Queued \cup {r}
    BY <1>1, <1>5 DEF SlotsInv, Holding, Queued
  <2>2. SlotsInv'
    BY <1>1, <1>5, <2>1, SlotAwaited DEF SlotsInv
  <2> QED BY <1>2, <1>5, <2>2
<1> QED BY <1>3, <1>4, <1>5

-----------------------------------------------------------------------------
(* What the runner's own steps do to a call and its process.                *)

(* r, which holds a slot, is through with o; its child, if it has one, is   *)
(* dropped, and was reaped when o is a success.                             *)
Ends(r, o) ==
  /\ pc[r] \in Runner!Holding
  /\ o \in Runner!Outcomes
  /\ Runner!Return(r, o)
  /\ \/ pc[r] = "running" /\ Runner!DropChild(r) /\ (o = "ok" => child[r] = "exited")
     \/ pc[r] # "running" /\ Runner!NoChildStep

(* r, which holds a slot, goes on; only a spawn gives it a child.           *)
GoesOn(r) ==
  /\ pc[r] \in Runner!Holding \ {"running"}
  /\ UNCHANGED <<permits, queue, outcome, dying>>
  /\ \/ pc' = [pc EXCEPT ![r] = "running"] /\ child' = [child EXCEPT ![r] = "live"]
     \/ /\ \E s \in {"resolving", "reading"} : pc' = [pc EXCEPT ![r] = s]
        /\ UNCHANGED child

(* The world moves: a child exits, or a killed one is gone.                 *)
WorldMoves(r) ==
  /\ UNCHANGED <<pc, permits, queue, outcome>>
  /\ dying' \subseteq dying
  /\ \/ UNCHANGED child
     \/ child[r] = "live" /\ child' = [child EXCEPT ![r] = "exited"]

LEMMA RunnerCases ==
  ASSUME NEW r \in Requests, Execute(r) \/ Conclude(r) \/ Runner!KilledDies(r)
  PROVE  \/ GoesOn(r) \/ WorldMoves(r) \/ Runner!SlotTimeout(r)
         \/ \E o : Ends(r, o)
<1> USE DEF Runner!Holding, Runner!Outcomes, Runner!Refusals
<1>1. CASE Runner!StartProcess(r) \/ Runner!StartFile(r) \/ Runner!Spawn(r)
  BY <1>1 DEF Runner!StartProcess, Runner!StartFile, Runner!Spawn, Runner!NoChildStep, GoesOn
<1>2. CASE Runner!PipesEnd(r) \/ Runner!ChildExits(r) \/ Runner!KilledDies(r)
  BY <1>2 DEF Runner!PipesEnd, Runner!ChildExits, Runner!KilledDies, WorldMoves
<1>3. CASE Runner!RefuseFileArgs(r) \/ Runner!GrantedTooLate(r)
  BY <1>3 DEF Runner!RefuseFileArgs, Runner!GrantedTooLate, Ends
<1>4. CASE Runner!RunTimeout(r)
  BY <1>4 DEF Runner!RunTimeout, Runner!RunDue, Ends
<1>5. CASE Runner!WaitFails(r)
  BY <1>5 DEF Runner!WaitFails, Ends
<1>6. CASE Runner!Complete(r)
  <2>1. Ends(r, IF pipes[r] = "eof" THEN "ok" ELSE "read_failed")
    BY <1>6 DEF Runner!Complete, Ends
  <2> QED BY <2>1
<1>7. ASSUME NEW o, Runner!FileEnds(r, o) PROVE Ends(r, o)
  BY <1>7 DEF Runner!FileEnds, Ends
<1>8. ASSUME NEW o, Runner!NoProcess(r, o) PROVE Ends(r, o)
  BY <1>8 DEF Runner!NoProcess, Ends
<1> HIDE DEF GoesOn, WorldMoves, Ends
<1> QED BY <1>1, <1>2, <1>3, <1>4, <1>5, <1>6, <1>7, <1>8
        DEF Execute, Conclude, Runner!GateStep, Runner!Deadline, Runner!Lookup, Runner!Finish
-----------------------------------------------------------------------------
(* Calls and the processes they leave behind.                               *)

Unrun == {"new", "call_row", "dispatch"}

(* A process that was killed or left behind is nobody's success.            *)
Failing(r) ==
  /\ r \in ran /\ result[r] # "ok"
  /\ stage[r] = "run" => pc[r] = "done" /\ outcome[r] # "ok"

CallInv ==
  /\ child \in [Requests -> {"none", "live", "exited"}]
  /\ outcome \in [Requests -> Runner!Outcomes]
  /\ \A r \in Requests : pc[r] # "idle" <=> stage[r] = "run"
  /\ \A r \in Requests : child[r] # "none" => pc[r] = "running"
  /\ \A r \in Requests : stage[r] = "run" => r \in ran
  /\ \A r \in Requests : stage[r] \in Unrun => r \notin ran
  /\ \A r \in Requests : stage[r] \in Unrun \cup {"run"} => result[r] = NoResult
  /\ dying \subseteq Requests /\ \A r \in dying : Failing(r)
  /\ orphans \subseteq Requests /\ \A r \in orphans : stage[r] = "lost" /\ Failing(r)

SystemInv == TypeOK /\ SlotsInv /\ CallInv

(* The runner's steps: no call begins or is forgotten, and whom they kill   *)
(* has failed.                                                              *)
LEMMA RunnerStep ==
  ASSUME SystemInv, UNCHANGED <<vars, orphans>>, NEW r \in Requests,
         GoesOn(r) \/ WorldMoves(r) \/ Runner!SlotTimeout(r) \/ \E o : Ends(r, o)
  PROVE  SlotsInv' /\ CallInv'
<1> USE DEF SystemInv
<1>0. /\ UNCHANGED <<stage, result, ran>>
      /\ pc \in [Requests -> Runner!States]
      /\ stage \in [Requests -> Stages]
  BY DEF vars, serverVars, SlotsInv, TypeOK
<1>1. CASE GoesOn(r)
  <2>1. SlotsInv'
    <3>1. pc' \in [Requests -> Runner!States]
      BY <1>0, <1>1 DEF GoesOn, Runner!States, Runner!Holding
    <3>2. \A q \in Requests : /\ pc[q] \in Runner!Holding <=> pc'[q] \in Runner!Holding
                              /\ pc[q] = "queued" <=> pc'[q] = "queued"
      BY <1>0, <1>1 DEF GoesOn, Runner!Holding
    <3> QED BY <1>1, <3>1, <3>2, SlotsAlone DEF GoesOn
  <2>2. \A q \in Requests : /\ pc'[q] # "idle" <=> pc[q] # "idle"
                            /\ child'[q] # "none" => pc'[q] = "running"
                            /\ pc[q] = "done" => pc'[q] = "done"
    BY <1>0, <1>1 DEF GoesOn, CallInv, Runner!Holding
  <2>3. child' \in [Requests -> {"none", "live", "exited"}]
        /\ UNCHANGED <<outcome, dying>>
    BY <1>1 DEF GoesOn, CallInv
  <2> QED BY <1>0, <2>1, <2>2, <2>3 DEF CallInv, Failing
<1>2. CASE WorldMoves(r)
  <2>1. SlotsInv'
    BY <1>2, SlotsAlone DEF WorldMoves, SlotsInv
  <2>2. /\ child' \in [Requests -> {"none", "live", "exited"}]
        /\ \A q \in Requests : child'[q] # "none" => child[q] # "none"
    BY <1>2 DEF WorldMoves, CallInv
  <2>3. UNCHANGED <<pc, outcome>> /\ dying' \subseteq dying
    BY <1>2 DEF WorldMoves
  <2> QED BY <1>0, <2>1, <2>2, <2>3 DEF CallInv, Failing
<1>3. CASE Runner!SlotTimeout(r)
  <2>1. SlotsInv'
    BY <1>3, GivenUp
  <2>2. /\ pc[r] = "queued" /\ pc' = [pc EXCEPT ![r] = "done"]
        /\ outcome' = [outcome EXCEPT ![r] = "slot_timeout"]
        /\ UNCHANGED <<child, dying>>
    BY <1>3 DEF Runner!SlotTimeout, Runner!SlotDue, Runner!NoChildStep
  <2>3. outcome' \in [Requests -> Runner!Outcomes]
    BY <2>2 DEF CallInv, Runner!Outcomes
  <2>4. r \notin dying
    BY <2>2 DEF CallInv, Failing
  <2>5. \A q \in dying : Failing(q)'
    BY <1>0, <2>2, <2>4 DEF CallInv, Failing
  <2>6. \A q \in Requests : /\ pc'[q] # "idle" <=> pc[q] # "idle"
                            /\ child'[q] # "none" => pc'[q] = "running"
    BY <1>0, <2>2 DEF CallInv
  <2> QED BY <1>0, <2>1, <2>2, <2>3, <2>5, <2>6 DEF CallInv, Failing
<1>4. ASSUME NEW o, Ends(r, o) PROVE SlotsInv' /\ CallInv'
  <2>1. /\ SlotsInv' /\ pc'[r] = "done"
        /\ \A q \in Requests \ {r} :
             pc'[q] = pc[q] \/ (pc[q] = "queued" /\ pc'[q] = "granted")
    BY <1>4, Returned DEF Ends, Holding
  <2>2. pc[r] \in Runner!Holding /\ o \in Runner!Outcomes
        /\ outcome' = [outcome EXCEPT ![r] = o]
    BY <1>4 DEF Ends, Runner!Return
  <2>3. \A q \in Requests : /\ pc'[q] # "idle" <=> pc[q] # "idle"
                            /\ q # r /\ pc[q] = "running" => pc'[q] = "running"
                            /\ pc[q] = "done" => pc'[q] = "done"
    BY <2>1, <2>2 DEF Runner!Holding
  <2>4. /\ child' \in [Requests -> {"none", "live", "exited"}]
        /\ child'[r] = "none"
        /\ \A q \in Requests : q # r => child'[q] = child[q]
    BY <1>4 DEF Ends, Runner!DropChild, Runner!NoChildStep, CallInv
  <2>5. dying' = dying \/ (dying' = dying \cup {r} /\ o # "ok")
    BY <1>4 DEF Ends, Runner!DropChild, Runner!NoChildStep
  <2>6. r \notin dying /\ r \in ran /\ result[r] # "ok"
    <3>1. stage[r] = "run" /\ pc[r] # "done"
      BY <2>2 DEF CallInv, Runner!Holding
    <3>2. "ok" # NoResult
      BY ResultsAssumption, FinishedAssumption DEF Results
    <3> QED BY <3>1, <3>2 DEF CallInv, Failing
  <2>7. \A q \in dying' : Failing(q)'
    BY <1>0, <2>1, <2>2, <2>3, <2>5, <2>6 DEF CallInv, Failing
  <2>8. outcome' \in [Requests -> Runner!Outcomes]
    BY <2>2 DEF CallInv
  <2>9. dying' \subseteq Requests
    BY <2>5 DEF CallInv
  <2> QED BY <1>0, <2>1, <2>3, <2>4, <2>7, <2>8, <2>9 DEF CallInv, Failing
<1> QED BY <1>1, <1>2, <1>3, <1>4
(* A step of the server that leaves the runner alone and no call running.   *)
LEMMA ServeStep ==
  ASSUME SystemInv, TypeOK', UNCHANGED <<runnerVars, orphans, ran>>,
         \A r \in Requests : stage'[r] = "run" <=> stage[r] = "run",
         \A r \in Requests : stage[r] = "lost" => stage'[r] = "lost",
         \A r \in Requests : stage'[r] \in Unrun => stage[r] \in Unrun,
         \A r \in Requests :
           \/ result'[r] = result[r]
           \/ stage[r] \in Unrun /\ stage'[r] \notin Unrun \cup {"run"}
  PROVE  SystemInv'
<1> USE DEF SystemInv
<1>1. UNCHANGED <<pc, permits, queue, child, dying, outcome, orphans, ran>>
  BY DEF runnerVars
<1>2. SlotsInv'
  BY <1>1, SlotsAlone DEF SlotsInv
<1>3. \A r \in dying \cup orphans : result'[r] = result[r]
  BY DEF CallInv, Failing
<1> QED BY <1>1, <1>2, <1>3 DEF CallInv, Failing

LEMMA SystemStep == LineInv /\ SystemInv /\ [SystemNext]_systemVars => SystemInv'
<1> SUFFICES ASSUME LineInv, SystemInv, [SystemNext]_systemVars PROVE SystemInv'
  OBVIOUS
<1>0. /\ TypeOK /\ TypeOK'
      /\ stage \in [Requests -> Stages] /\ result \in [Requests -> Results \cup {NoResult}]
  BY ServerPart, TypeStep DEF LineInv, TypeOK
<1>1. "ok" # NoResult
  BY ResultsAssumption, FinishedAssumption DEF Results
<1>2. ASSUME NEW r \in Requests, Serve(r) PROVE SystemInv'
  <2>1. UNCHANGED <<runnerVars, orphans, ran>>
    BY <1>2 DEF Serve, Receive, LogRow, Logged, Reject, Respond, serverVars
  <2>2. CASE Receive(r) \/ Logged(r) \/ Respond(r)
    <3>1. /\ UNCHANGED result
          /\ \E s \in {"call_row", "dispatch", "respond", "answered"} :
               stage' = [stage EXCEPT ![r] = s] /\ (s \in Unrun => stage[r] \in Unrun)
          /\ stage[r] \notin {"run", "lost"}
      BY <2>2 DEF Receive, Logged, Respond, Unrun
    <3> QED BY <1>0, <2>1, <3>1, ServeStep DEF Unrun
  <2>3. CASE LogRow(r)
    <3>1. UNCHANGED <<stage, result>>
      BY <2>3 DEF LogRow, serverVars
    <3> QED BY <1>0, <2>1, <3>1, ServeStep
  <2>4. CASE Reject(r)
    <3>1. /\ \E s \in {"result_row", "respond"} : stage' = [stage EXCEPT ![r] = s]
          /\ \E o : result' = [result EXCEPT ![r] = o]
          /\ stage[r] = "dispatch"
      BY <2>4 DEF Reject, ToolReturns
    <3> QED BY <1>0, <2>1, <3>1, ServeStep DEF Unrun
  <2> QED BY <1>2, <2>2, <2>3, <2>4 DEF Serve
<1>3. ASSUME NEW r \in Requests, Dispatch(r) PROVE SystemInv'
  <2>1. PICK k \in Keys : Runner!GateOf(k, Allowlist, OptIn) = "admitted" /\ Runner!Call(r, k)
    BY <1>3 DEF Dispatch
  <2>2. /\ SlotsInv' /\ UNCHANGED <<child, dying, outcome>>
        /\ \E s \in {"granted", "queued"} : pc' = [pc EXCEPT ![r] = s]
    BY <2>1, Admitted DEF SystemInv
  <2>3. /\ stage[r] = "dispatch" /\ stage' = [stage EXCEPT ![r] = "run"]
        /\ ran' = ran \cup {r} /\ UNCHANGED <<result, orphans>>
    BY <1>3 DEF Dispatch, Run
  <2>4. pc[r] = "idle" /\ r \notin dying /\ r \notin orphans
    BY <2>3 DEF SystemInv, CallInv, Failing, Unrun
  <2>5. pc \in [Requests -> Runner!States]
    BY DEF SystemInv, SlotsInv
  <2>6. \A q \in dying \cup orphans : Failing(q)'
    BY <1>0, <2>2, <2>3, <2>4, <2>5 DEF SystemInv, CallInv, Failing
  <2>7. \A q \in Requests : /\ pc'[q] # "idle" <=> stage'[q] = "run"
                            /\ child'[q] # "none" => pc'[q] = "running"
    BY <1>0, <2>2, <2>3, <2>4, <2>5 DEF SystemInv, CallInv
  <2>8. \A q \in Requests : /\ stage'[q] = "run" => q \in ran'
                            /\ stage'[q] \in Unrun => q \notin ran'
                            /\ stage'[q] \in Unrun \cup {"run"} => result'[q] = NoResult
    BY <1>0, <2>3 DEF SystemInv, CallInv, Unrun
  <2>9. \A q \in orphans' : stage'[q] = "lost"
    BY <1>0, <2>3, <2>4 DEF SystemInv, CallInv
  <2> QED BY <1>0, <2>2, <2>3, <2>6, <2>7, <2>8, <2>9 DEF SystemInv, CallInv
<1>4. ASSUME NEW r \in Requests, Collect(r) PROVE SystemInv'
  <2>1. /\ pc[r] = "done" /\ pc' = [pc EXCEPT ![r] = "idle"]
        /\ outcome' = [outcome EXCEPT ![r] = "none"]
        /\ UNCHANGED <<permits, queue, child, dying>>
    BY <1>4 DEF Collect, Runner!Forget, Runner!NoChildStep
  <2>2. /\ stage[r] = "run" /\ UNCHANGED <<ran, orphans>>
        /\ \E s \in {"result_row", "respond"} : stage' = [stage EXCEPT ![r] = s]
        /\ result' = [result EXCEPT ![r] = Told(outcome[r])]
    BY <1>4 DEF Collect, ToolReturns
  <2>3. pc \in [Requests -> Runner!States]
    BY DEF SystemInv, SlotsInv
  <2>4. SlotsInv'
    <3>1. pc' \in [Requests -> Runner!States]
      BY <2>1, <2>3 DEF Runner!States
    <3>2. \A q \in Requests : /\ pc[q] \in Runner!Holding <=> pc'[q] \in Runner!Holding
                              /\ pc[q] = "queued" <=> pc'[q] = "queued"
      BY <2>1, <2>3 DEF Runner!Holding
    <3> QED BY <2>1, <3>1, <3>2, SlotsAlone DEF SystemInv
  <2>5. \A q \in dying \cup orphans : Failing(q)'
    BY <1>0, <2>1, <2>2, <2>3 DEF SystemInv, CallInv, Failing, Told
  <2>6. outcome' \in [Requests -> Runner!Outcomes]
    BY <2>1 DEF SystemInv, CallInv, Runner!Outcomes
  <2>7. \A q \in Requests : /\ pc'[q] # "idle" <=> stage'[q] = "run"
                            /\ child'[q] # "none" => pc'[q] = "running"
    BY <1>0, <2>1, <2>2, <2>3 DEF SystemInv, CallInv
  <2>8. \A q \in Requests : /\ stage'[q] = "run" => q \in ran'
                            /\ stage'[q] \in Unrun => q \notin ran'
                            /\ stage'[q] \in Unrun \cup {"run"} => result'[q] = NoResult
    BY <1>0, <2>2 DEF SystemInv, CallInv, Unrun
  <2>9. \A q \in orphans' : stage'[q] = "lost"
    BY <1>0, <2>2 DEF SystemInv, CallInv
  <2> QED BY <1>0, <2>1, <2>2, <2>4, <2>5, <2>6, <2>7, <2>8, <2>9 DEF SystemInv, CallInv
<1>5. ASSUME NEW r \in Requests, Execute(r) \/ Conclude(r) \/ Gone(r) PROVE SystemInv'
  <2>1. CASE (Execute(r) \/ Conclude(r) \/ Runner!KilledDies(r)) /\ UNCHANGED <<vars, orphans>>
    <3>1. GoesOn(r) \/ WorldMoves(r) \/ Runner!SlotTimeout(r) \/ \E o : Ends(r, o)
      BY <2>1, RunnerCases
    <3> QED BY <1>0, <2>1, <3>1, RunnerStep DEF SystemInv
  <2>2. CASE orphans' = orphans \ {r} /\ UNCHANGED <<vars, runnerVars>>
    <3>1. UNCHANGED <<pc, permits, queue, child, dying, outcome, stage, result, ran>>
      BY <2>2 DEF vars, serverVars, runnerVars
    <3>2. SlotsInv'
      BY <3>1, SlotsAlone DEF SystemInv, SlotsInv
    <3> QED BY <1>0, <2>2, <3>1, <3>2 DEF SystemInv, CallInv, Failing
  <2> QED BY <1>5, <2>1, <2>2 DEF Gone, Execute, Conclude
<1>6. CASE Tick
  <2>1. UNCHANGED <<pc, permits, queue, child, dying, outcome, orphans, stage, result, ran>>
    BY <1>6 DEF Tick, Runner!Tick, Runner!NoChildStep, vars, serverVars
  <2>2. SlotsInv'
    BY <2>1, SlotsAlone DEF SystemInv, SlotsInv
  <2> QED BY <1>0, <2>1, <2>2 DEF SystemInv, CallInv, Failing
<1>7. CASE Stop \/ Kill
  <2>1. Crash /\ ResetRunner
    BY <1>7 DEF Stop, Kill
  <2>2. /\ stage' = [r \in Requests |-> IF stage[r] \in InProgress THEN "lost" ELSE stage[r]]
        /\ UNCHANGED <<result, ran>>
    BY <2>1 DEF Crash
  <2>3. \/ dying' = dying \cup Live /\ orphans' = orphans
        \/ dying' = dying /\ orphans' = orphans \cup Live
    BY <1>7 DEF Stop, Kill
  <2>4. /\ \A r \in Requests : pc'[r] = "idle" /\ child'[r] = "none"
        /\ pc' \in [Requests -> Runner!States]
        /\ child' \in [Requests -> {"none", "live", "exited"}]
        /\ outcome' \in [Requests -> Runner!Outcomes]
        /\ permits' = MaxSlots /\ queue' = <<>>
    BY <2>1 DEF ResetRunner, Runner!States, Runner!Outcomes
  <2>5. SlotsInv'
    <3>1. Queued' = {} /\ Holding' = {}
      BY <2>4 DEF Queued, Holding, Runner!Holding
    <3> QED BY <2>4, <3>1, SlotsAtRest, SlotsAssumption DEF SlotsInv
  <2>6. \A r \in Requests : stage'[r] # "run" /\ (stage'[r] \in Unrun => stage[r] \in Unrun)
    BY <1>0, <2>2 DEF InProgress, Unrun
  <2>7. \A r \in Live : /\ r \in Requests /\ r \in ran /\ result[r] # "ok"
                        /\ stage'[r] = "lost"
    BY <1>1, <2>2 DEF Live, SystemInv, CallInv, InProgress
  <2>8. \A r \in orphans : stage'[r] = "lost"
    BY <1>0, <2>2 DEF SystemInv, CallInv, InProgress
  <2>9. \A r \in dying \cup orphans \cup Live : Failing(r)'
    BY <2>2, <2>6, <2>7 DEF SystemInv, CallInv, Failing
  <2>10. /\ dying' \subseteq Requests /\ orphans' \subseteq Requests
         /\ dying' \cup orphans' \subseteq dying \cup orphans \cup Live
         /\ \A r \in orphans' : stage'[r] = "lost"
    BY <2>3, <2>7, <2>8 DEF SystemInv, CallInv
  <2>11. \A r \in Requests : stage'[r] \in Unrun => r \notin ran' /\ result'[r] = NoResult
    BY <2>2, <2>6 DEF SystemInv, CallInv
  <2> QED BY <1>0, <2>4, <2>5, <2>6, <2>9, <2>10, <2>11 DEF SystemInv, CallInv
<1>8. CASE (Restart \/ Finish \/ UNCHANGED vars) /\ UNCHANGED <<runnerVars, orphans>>
  <2>1. UNCHANGED <<stage, result, ran>>
    BY <1>8 DEF Restart, Finish, vars, serverVars
  <2> QED BY <1>0, <1>8, <2>1, ServeStep
<1>9. CASE UNCHANGED systemVars
  BY <1>8, <1>9 DEF systemVars
<1> QED BY <1>2, <1>3, <1>4, <1>5, <1>6, <1>7, <1>8, <1>9 DEF SystemNext
LEMMA SystemStart == SystemInit => SystemInv
<1> SUFFICES ASSUME SystemInit PROVE SystemInv
  OBVIOUS
<1>1. TypeOK
  BY LineInit DEF SystemInit, LineInv
<1>2. SlotsInv
  <2>1. Queued = {} /\ Holding = {} /\ pc \in [Requests -> Runner!States]
    BY DEF SystemInit, Runner!Init, Queued, Holding, Runner!Holding, Runner!States
  <2> QED BY <2>1, SlotsAtRest, SlotsAssumption DEF SystemInit, Runner!Init, SlotsInv
<1>3. CallInv
  BY DEF SystemInit, Init, Runner!Init, CallInv, Runner!Outcomes, Unrun
<1> QED BY <1>1, <1>2, <1>3 DEF SystemInv

LEMMA SystemSafety == SystemSpec => [](ServerInv /\ SystemInv)
<1>1. ServerInv => LineInv
  BY DEF ServerInv
<1>2. SystemInit => Init
  BY DEF SystemInit
<1> QED BY <1>1, <1>2, SystemStart, SystemStep, ServerPart, ServerInit, ServerStep, PTL
        DEF SystemSpec

(* No process of a call that is not on record is ever on the host: not one  *)
(* that runs, was killed or outlived a killed server (call_tool).           *)
THEOREM ProcessesAreOnRecord == SystemSpec => []EffectsAreOnRecord
<1>1. ASSUME ServerInv, SystemInv PROVE EffectsAreOnRecord
  <2>1. AuditBeforeEffect
    BY <1>1 DEF ServerInv, RecordInv, Recorded, AuditBeforeEffect
  <2>2. \A r \in Processes : r \in ran
    BY <1>1 DEF Processes, SystemInv, CallInv, Failing
  <2> QED BY <2>1, <2>2 DEF EffectsAreOnRecord, AuditBeforeEffect
<1> QED BY <1>1, SystemSafety, PTL

(* Children that nobody has signalled run under calls that hold a slot.     *)
LEMMA LiveHold ==
  ASSUME SystemInv
  PROVE  IsFiniteSet(Live) /\ Cardinality(Live) \in Nat /\ Cardinality(Live) <= MaxSlots
<1>1. Live \in SUBSET Holding
  BY DEF SystemInv, CallInv, Live, Holding, Runner!Holding
<1>2. IsFiniteSet(Holding) /\ permits \in Nat /\ permits + Cardinality(Holding) = MaxSlots
  BY DEF SystemInv, SlotsInv, Accounts
<1>3. IsFiniteSet(Live) /\ Cardinality(Live) <= Cardinality(Holding)
  BY <1>1, <1>2, FS_Subset
<1>4. Cardinality(Live) \in Nat /\ Cardinality(Holding) \in Nat
  BY <1>2, <1>3, FS_CardinalityType
<1> QED BY <1>2, <1>3, <1>4, SlotsAssumption

OrphansInv ==
  /\ IsFiniteSet(orphans)
  /\ Cardinality(orphans) <= MaxSlots * crashes

(* Only a kill adds orphans: the children of the life that it ends.         *)
LEMMA OrphansStep ==
  SystemInv /\ OrphansInv /\ [SystemNext]_systemVars => OrphansInv'
<1> SUFFICES ASSUME SystemInv, OrphansInv, [SystemNext]_systemVars PROVE OrphansInv'
  OBVIOUS
<1>0. crashes \in Nat /\ Cardinality(orphans) \in Nat /\ MaxSlots \in Nat
  BY FS_CardinalityType, SlotsAssumption DEF SystemInv, TypeOK, OrphansInv
<1>1. CASE UNCHANGED <<orphans, crashes>>
  BY <1>1 DEF OrphansInv
<1>2. ASSUME NEW r \in Requests, Gone(r) PROVE OrphansInv'
  <2>1. UNCHANGED crashes
    BY <1>2 DEF Gone, vars, serverVars
  <2>2. CASE orphans' = orphans \ {r}
    <3>1. orphans' \in SUBSET orphans
      BY <2>2
    <3>2. IsFiniteSet(orphans') /\ Cardinality(orphans') <= Cardinality(orphans)
      BY <3>1, FS_Subset DEF OrphansInv
    <3>3. Cardinality(orphans') \in Nat
      BY <3>2, FS_CardinalityType
    <3>4. MaxSlots * crashes \in Nat
      BY <1>0
    <3> QED BY <1>0, <2>1, <3>2, <3>3, <3>4 DEF OrphansInv
  <2> QED BY <1>1, <1>2, <2>1, <2>2 DEF Gone
<1>3. CASE Stop \/ Kill
  <2>1. crashes' = crashes + 1 /\ orphans' \in {orphans, orphans \cup Live}
    BY <1>3 DEF Stop, Kill, Crash
  <2>2. MaxSlots * (crashes + 1) = MaxSlots * crashes + MaxSlots /\ MaxSlots * crashes \in Nat
    BY <1>0
  <2>3. /\ IsFiniteSet(orphans \cup Live)
        /\ Cardinality(orphans \cup Live) =
             Cardinality(orphans) + Cardinality(Live) - Cardinality(orphans \cap Live)
    BY LiveHold, FS_Union DEF OrphansInv
  <2>4. Cardinality(orphans \cap Live) \in Nat
    BY LiveHold, FS_Intersection, FS_CardinalityType DEF OrphansInv
  <2>5. Cardinality(orphans \cup Live) <= MaxSlots * (crashes + 1)
    BY <1>0, <2>2, <2>3, <2>4, LiveHold DEF OrphansInv
  <2>6. Cardinality(orphans) <= MaxSlots * (crashes + 1)
    BY <1>0, <2>2 DEF OrphansInv
  <2> QED BY <2>1, <2>3, <2>5, <2>6 DEF OrphansInv
<1>4. ASSUME NEW r \in Requests, Serve(r) \/ Dispatch(r) \/ Collect(r) \/ Execute(r) \/ Conclude(r)
      PROVE  UNCHANGED <<orphans, crashes>>
  BY <1>4 DEF Serve, Receive, LogRow, Logged, Reject, Respond, Dispatch, Run, Collect,
              Execute, Conclude, vars, serverVars
<1>5. CASE Tick \/ UNCHANGED systemVars
  BY <1>1, <1>5 DEF Tick, systemVars, vars, serverVars
<1>6. CASE (Restart \/ Finish) /\ UNCHANGED <<runnerVars, orphans>>
  BY <1>1, <1>6 DEF Restart, Finish, vars, serverVars
<1> QED BY <1>1, <1>2, <1>3, <1>4, <1>5, <1>6 DEF SystemNext

(* However often the server is killed with its children running, no life of *)
(* it has, or leaves behind, more than MaxSlots that nobody signalled.      *)
THEOREM LivesAreBounded == SystemSpec => []ChildrenPerLife
<1>1. SystemInit => OrphansInv
  BY FS_EmptySet, SlotsAssumption DEF SystemInit, Init, OrphansInv
<1>2. SystemInv /\ OrphansInv => ChildrenPerLife
  BY LiveHold DEF OrphansInv, ChildrenPerLife
<1> QED BY <1>1, <1>2, SystemSafety, OrphansStep, PTL DEF SystemSpec

-----------------------------------------------------------------------------
(* What the result rows say.                                                *)

(* A result row has the outcome that its call's tool returned.              *)
RowsAreResults ==
  \A i \in DOMAIN file :
    file[i].row.dir = "result" => file[i].row.out = result[file[i].row.req]

(* A tool returns once.                                                     *)
LEMMA ResultStep ==
  ASSUME TypeOK, [Next]_vars, NEW r \in Requests,
         stage[r] \in {"result_row", "respond", "answered", "lost"}
  PROVE  result'[r] = result[r]
<1> USE DEF TypeOK
<1>1. ASSUME NEW q \in Requests, Reject(q) \/ RunReturns(q) PROVE result'[r] = result[r]
  BY <1>1 DEF Reject, RunReturns, ToolReturns
<1>2. ASSUME NEW q \in Requests, Receive(q) \/ LogRow(q) \/ Logged(q) \/ Run(q) \/ Respond(q)
      PROVE  UNCHANGED result
  BY <1>2 DEF Receive, LogRow, Logged, Run, Respond, serverVars
<1>3. CASE Crash \/ Restart \/ UNCHANGED vars
  BY <1>3 DEF Crash, Restart, vars, serverVars
<1> QED BY <1>1, <1>2, <1>3 DEF Next, Handle, Finish

LEMMA ResultsStep ==
  LineInv /\ FileInv /\ RowsAreResults /\ [Next]_vars => RowsAreResults'
<1> SUFFICES ASSUME LineInv, FileInv, RowsAreResults, [Next]_vars,
                    NEW i \in DOMAIN file', file'[i].row.dir = "result"
             PROVE  file'[i].row.out = result'[file'[i].row.req]
  BY DEF RowsAreResults
<1>0. TypeOK /\ file \in Seq([row : Rows, part : Parts])
  BY DEF LineInv, TypeOK
<1>1. CASE i \in DOMAIN file /\ file'[i] = file[i]
  <2>1. file[i] \in [row : Rows, part : Parts]
    BY <1>0, <1>1, ElementOfSeq, LenProperties
  <2>2. /\ file[i].row.req \in Requests
        /\ stage[file[i].row.req] \in {"respond", "answered", "lost"}
    BY <1>1, <2>1 DEF FileInv, Rows
  <2> QED BY <1>0, <1>1, <2>2, ResultStep DEF RowsAreResults
<1>2. ASSUME NEW h \in Requests, NEW row \in Rows, NEW p \in Parts,
             file' = Append(file, [row |-> row, part |-> p]),
             \/ stage[h] = "call_row" /\ row = CallRow(h)
             \/ stage[h] = "result_row" /\ row = ResultRow(h)
      PROVE  file'[i].row.out = result'[file'[i].row.req]
  <2>1. /\ Len(file) \in Nat /\ DOMAIN file = 1..Len(file)
        /\ DOMAIN file' = 1..Len(file) + 1
        /\ \A j \in 1..Len(file) : file'[j] = file[j]
        /\ file'[Len(file) + 1] = [row |-> row, part |-> p]
    BY <1>0, <1>2, AppendProperties, LenProperties
  <2>2. CASE i = Len(file) + 1
    <3>1. file'[i].row = row
      BY <2>1, <2>2
    <3>2. stage[h] = "result_row" /\ row = [req |-> h, dir |-> "result", out |-> result[h]]
      BY <1>2, <3>1 DEF CallRow, ResultRow
    <3> QED BY <1>0, <3>1, <3>2, ResultStep
  <2> QED BY <1>1, <2>1, <2>2
<1>3. CASE file' = file
  BY <1>1, <1>3
<1> QED BY <1>2, <1>3, FileStep

(* A row that reports success is about a command that ended by itself, of   *)
(* which nothing is left: what a timeout or a stop kills never counts as    *)
(* one (run_process, call_tool).                                            *)
THEOREM SuccessLeavesNothing == SystemSpec => []SuccessIsOver
<1>1. SystemInit => RowsAreResults
  <2> SUFFICES ASSUME SystemInit PROVE DOMAIN file = {}
    BY DEF RowsAreResults
  <2> QED BY LenProperties, EmptySeq DEF SystemInit, Init, JournalInit
<1>2. ASSUME ServerInv, SystemInv, RowsAreResults PROVE SuccessIsOver
  <2> SUFFICES ASSUME NEW i \in DOMAIN file, file[i].row.dir = "result", file[i].row.out = "ok"
               PROVE  file[i].row.req \notin Processes
    BY DEF SuccessIsOver
  <2> DEFINE r == file[i].row.req
  <2>1. file \in Seq([row : Rows, part : Parts])
    BY <1>2 DEF ServerInv, LineInv, TypeOK
  <2>2. file[i] \in [row : Rows, part : Parts]
    BY <2>1, ElementOfSeq, LenProperties
  <2>3. r \in Requests /\ result[r] = "ok" /\ stage[r] # "run"
    BY <1>2, <2>2 DEF ServerInv, FileInv, RowsAreResults, Rows
  <2> HIDE DEF r
  <2>4. child[r] = "none" /\ r \notin dying /\ r \notin orphans
    BY <1>2, <2>3 DEF SystemInv, CallInv, Failing
  <2> QED BY <2>3, <2>4 DEF Processes, r
<1>3. ServerInv => LineInv /\ FileInv
  BY DEF ServerInv
<1> QED BY <1>1, <1>2, <1>3, SystemSafety, ResultsStep, ServerPart, PTL DEF SystemSpec
=============================================================================
