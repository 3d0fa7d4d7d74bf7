---------------------------- MODULE NetdiagSystem ----------------------------
(* The server over its command runner: the calls that contend for the mutex *)
(* of the journal are the ones that contend for the command slots.  A run   *)
(* that NetdiagServer takes for granted is here a call of CommandRunner,    *)
(* with its line, its child and its timeouts, and a stop of the process     *)
(* meets the children it has started.                                       *)
EXTENDS NetdiagServer

CONSTANTS Keys, Allowlist, OptIn, PrivilegedKeys, AllSentinel, FileKeys,
          MaxSlots, Timeout, LookupBound, NoKey

ASSUME SlotsAssumption == MaxSlots \in Nat \ {0}
ASSUME FinishedAssumption == {"ok", "exec_error"} \subseteq Finished

VARIABLES pc, key, permits, queue, elapsed, age, child, pipes, dying, outcome,
          orphans   \* children that outlived a killed server

Runner == INSTANCE CommandRunner WITH Calls <- Requests

runnerVars == <<pc, key, permits, queue, elapsed, age, child, pipes, dying, outcome>>
systemVars == <<vars, runnerVars, orphans>>

SystemInit == Init /\ Runner!Init /\ orphans = {}

-----------------------------------------------------------------------------
(* One call.                                                                *)

\* call_tool outside of the tool; an argument or the gate may refuse the call.
Serve(r) ==
  /\ Receive(r) \/ LogRow(r) \/ Logged(r) \/ Reject(r) \/ Respond(r)
  /\ UNCHANGED <<runnerVars, orphans>>

\* The tool awaits run() with a key the gate admits.
Dispatch(r) ==
  /\ Run(r)
  /\ \E k \in Keys : /\ Runner!GateOf(k, Allowlist, OptIn) = "admitted"
                     /\ Runner!Call(r, k)
  /\ UNCHANGED orphans

\* What the tool makes of the runner's outcome.
Told(o) == IF o = "ok" THEN "ok" ELSE "exec_error"

\* Mutants of Collect: the tool is answered before it is journalled; a command
\* that failed is reported as one that ran.
CollectUnlogged(r) ==
  /\ up /\ stage[r] = "run"
  /\ Runner!Forget(r)
  /\ result' = [result EXCEPT ![r] = Told(outcome[r])]
  /\ stage' = [stage EXCEPT ![r] = "respond"]
  /\ UNCHANGED <<up, journal, crashes, audited, ran, orphans, journalVars>>

CollectAsOk(r) ==
  /\ up /\ stage[r] = "run"
  /\ Runner!Forget(r)
  /\ ToolReturns(r, "ok")
  /\ UNCHANGED <<up, journal, crashes, audited, ran, orphans>>

\* run() has returned: the tool gives its answer to call_tool.
Collect(r) ==
  /\ up /\ stage[r] = "run"
  /\ Runner!Forget(r)
  /\ ToolReturns(r, Told(outcome[r]))
  /\ UNCHANGED <<up, journal, crashes, audited, ran, orphans>>

\* The runner's own steps for r, and those of its child.
Execute(r) ==
  /\ up
  /\ Runner!GateStep(r) \/ Runner!Deadline(r) \/ Runner!Lookup(r)
  /\ UNCHANGED <<vars, orphans>>

Conclude(r) ==
  /\ up
  /\ Runner!Finish(r) \/ Runner!PipesEnd(r) \/ Runner!ChildExits(r)
  /\ UNCHANGED <<vars, orphans>>

Tick == up /\ Runner!Tick /\ UNCHANGED <<vars, orphans>>

-----------------------------------------------------------------------------
(* The process and what it leaves behind.                                   *)

Live == {r \in Requests : child[r] = "live"}

\* The futures and the semaphore go with the process; the next one builds anew.
ResetRunner ==
  /\ pc' = [r \in Requests |-> "idle"] /\ key' = [r \in Requests |-> NoKey]
  /\ permits' = MaxSlots /\ queue' = <<>>
  /\ elapsed' = [r \in Requests |-> 0] /\ age' = [r \in Requests |-> 0]
  /\ child' = [r \in Requests |-> "none"] /\ pipes' = [r \in Requests |-> "none"]
  /\ outcome' = [r \in Requests |-> "none"]

\* End of input: main returns, the runtime drops every future, and kill_on_drop
\* signals the children.
Stop ==
  /\ Crash /\ ResetRunner
  /\ dying' = dying \cup Live
  /\ UNCHANGED orphans

\* The process itself is killed or aborts: nobody signals the children.
Kill ==
  /\ Crash /\ ResetRunner
  /\ orphans' = orphans \cup Live
  /\ UNCHANGED dying

\* A killed process, or one that lost its server, is gone.
Gone(r) ==
  \/ Runner!KilledDies(r) /\ UNCHANGED <<vars, orphans>>
  \/ /\ r \in orphans
     /\ orphans' = orphans \ {r}
     /\ UNCHANGED <<vars, runnerVars>>

SystemNext ==
  \/ \E r \in Requests : \/ Serve(r) \/ Dispatch(r) \/ Collect(r)
                         \/ Execute(r) \/ Conclude(r) \/ Gone(r)
  \/ Tick \/ Stop \/ Kill
  \/ Restart /\ UNCHANGED <<runnerVars, orphans>>
  \/ Finish /\ UNCHANGED <<runnerVars, orphans>>

SystemSpec == SystemInit /\ [][SystemNext]_systemVars

\* The clock runs, the runtime polls every future that is ready, a lookup ends
\* and the disk answers.  Nothing is assumed of children, pipes or files.
Polled(r) ==
  /\ stage[r] # "new"
  /\ Serve(r) \/ Dispatch(r) \/ Collect(r) \/ Execute(r)

SystemFairSpec ==
  /\ SystemSpec
  /\ WF_systemVars(Tick)
  /\ \A r \in Requests : WF_systemVars(Polled(r))

-----------------------------------------------------------------------------
(* Properties.                                                              *)

Processes == {r \in Requests : child[r] # "none"} \cup dying \cup orphans

\* There is no process on the host, be it running, signalled or left behind by a
\* killed server, whose call is not on record or was warned about (call_tool).
EffectsAreOnRecord ==
  \A r \in Processes \cap audited : HasRow(CallRow(r)) \/ CallRow(r) \in warned

\* However often the server is killed and started again over what its past lives
\* left running, the children nobody has signalled are at most MaxSlots of this
\* life and MaxSlots of each that ended (run_process's kill_on_drop, main).
ChildrenPerLife ==
  /\ Cardinality(Live) <= MaxSlots
  /\ Cardinality(orphans) <= MaxSlots * crashes

\* A row that reports success is about a command that ended by itself: it was not
\* killed, nor is anything of it left (run_process, call_tool).
SuccessIsOver ==
  \A i \in DOMAIN file :
    file[i].row.dir = "result" /\ file[i].row.out = "ok" => file[i].row.req \notin Processes

\* With the runner in place of the run it takes for granted, the server keeps to
\* its specification: every step is one of the server's or none, and what it
\* assumes of the runner, that a call that passed the gate returns, is what the
\* runner's timeouts bring about.
ImplementsServer == FairSpec

\* Documented: peak captured output is that of MaxSlots commands, however many
\* calls are issued in parallel.
HoldsOutput(r) ==
  \/ pc[r] \in {"running", "reading"}
  \/ result[r] = "ok" /\ stage[r] \in {"result_row", "respond"}
OutputBounded == Cardinality({r \in Requests : HoldsOutput(r)}) <= MaxSlots
=============================================================================
