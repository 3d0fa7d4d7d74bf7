---------------------------- MODULE NetdiagServer ----------------------------
(* NetdiagServer::call_tool of src/mcp/mod.rs with its audit journal: every *)
(* tools/call writes a call row, is dispatched to its tool, writes a result *)
(* row and is answered, concurrently with the others.  The process may stop *)
(* at any await (end of input, a signal, a crash) and be started again on   *)
(* the same journal file.                                                   *)
(*                                                                          *)
(* The command runner is represented by what CommandRunner shows of it:     *)
(* a call that passes validation and the gate runs and returns.             *)
EXTENDS AuditJournal, FiniteSets, Selection

CONSTANTS
  Requests,     \* tools/call requests clients send
  Refused,      \* answers that come without running anything
  Finished,     \* answers of a diagnostic that ran
  NoResult,     \* no answer yet
  MayDegrade,   \* whether opening the journal can fail
  MaxCrashes    \* bound: how often the process stops

Results == Refused \cup Finished

ASSUME ResultsAssumption == NoResult \notin Results
ASSUME BoundsAssumption  == MaxCrashes \in Nat /\ MaxFaults \in Nat

VARIABLES
  up,        \* the server process is running
  journal,   \* the journal was opened: Some or None
  stage,     \* where the call_tool future of each request is
  result,    \* what the tool returned
  crashes,
  audited,   \* requests received while the journal was open (history)
  ran        \* requests whose diagnostic was run (history)

serverVars == <<up, journal, stage, result, crashes, audited, ran>>
vars == <<serverVars, journalVars>>

InProgress == {"call_row", "dispatch", "run", "result_row", "respond"}
Stages     == {"new", "answered", "lost"} \cup InProgress

\* Mutant of ResultRow: the wrong direction.
ResultRowMislabelled(r) == [req |-> r, dir |-> "call", out |-> result[r]]

CallRow(r)   == [req |-> r, dir |-> "call", out |-> NoResult]
ResultRow(r) == [req |-> r, dir |-> "result", out |-> result[r]]
Rows         == [req : Requests, dir : {"call", "result"}, out : Results \cup {NoResult}]

TypeOK ==
  /\ up \in BOOLEAN /\ journal \in BOOLEAN
  /\ stage \in [Requests -> Stages]
  /\ result \in [Requests -> Results \cup {NoResult}]
  /\ crashes \in 0..MaxCrashes
  /\ audited \subseteq Requests /\ ran \subseteq Requests
  /\ line \in Seq(Requests)
  /\ inflight \in Rows \cup {NoRow}
  /\ file \in Seq([row : Rows, part : Parts])
  /\ warned \subseteq Rows
  /\ faults \in 0..MaxFaults

\* try_open_first: the journal, or None for degraded mode.
Opened == IF MayDegrade THEN BOOLEAN ELSE {TRUE}

Init ==
  /\ JournalInit
  /\ up = TRUE /\ journal \in Opened
  /\ stage = [r \in Requests |-> "new"]
  /\ result = [r \in Requests |-> NoResult]
  /\ crashes = 0 /\ audited = {} /\ ran = {}

-----------------------------------------------------------------------------
(* call_tool.                                                               *)

\* Mutant of Receive: the call row is left to the tool.
ReceiveUnlogged(r) ==
  /\ up /\ stage[r] = "new"
  /\ stage' = [stage EXCEPT ![r] = "dispatch"]
  /\ audited' = IF journal THEN audited \cup {r} ELSE audited
  /\ UNCHANGED <<up, journal, result, crashes, ran, journalVars>>

Receive(r) ==
  /\ up /\ stage[r] = "new"
  /\ \/ /\ journal
        /\ stage' = [stage EXCEPT ![r] = "call_row"]
        /\ audited' = audited \cup {r}
        /\ Lock(r)
     \/ /\ ~journal
        /\ stage' = [stage EXCEPT ![r] = "dispatch"]
        /\ UNCHANGED <<audited, journalVars>>
  /\ UNCHANGED <<up, journal, result, crashes, ran>>

\* log() reaches the head of the mutex line and writes its row.
LogRow(r) ==
  /\ up
  /\ \/ stage[r] = "call_row"   /\ Write(r, CallRow(r))
     \/ stage[r] = "result_row" /\ Write(r, ResultRow(r))
  /\ UNCHANGED serverVars

\* log() returns, with or without the row on record: the call goes on.
Logged(r) ==
  /\ up
  /\ \/ stage[r] = "call_row"   /\ stage' = [stage EXCEPT ![r] = "dispatch"]
     \/ stage[r] = "result_row" /\ stage' = [stage EXCEPT ![r] = "respond"]
  /\ Settle(r)
  /\ UNCHANGED <<up, journal, result, crashes, audited, ran>>

\* The tool returned o: journal it, or answer at once in degraded mode.
ToolReturns(r, o) ==
  /\ result' = [result EXCEPT ![r] = o]
  /\ \/ /\ journal
        /\ stage' = [stage EXCEPT ![r] = "result_row"]
        /\ Lock(r)
     \/ /\ ~journal
        /\ stage' = [stage EXCEPT ![r] = "respond"]
        /\ UNCHANGED journalVars

\* Mutant of Reject: an error leaves call_tool before the result row.
RejectUnlogged(r) ==
  /\ up /\ stage[r] = "dispatch"
  /\ \E o \in Refused : result' = [result EXCEPT ![r] = o]
  /\ stage' = [stage EXCEPT ![r] = "respond"]
  /\ UNCHANGED <<up, journal, crashes, audited, ran, journalVars>>

\* An unknown tool, bad arguments, a failed validation or a refusal.
Reject(r) ==
  /\ up /\ stage[r] = "dispatch"
  /\ \E o \in Refused : ToolReturns(r, o)
  /\ UNCHANGED <<up, journal, crashes, audited, ran>>

Run(r) ==
  /\ up /\ stage[r] = "dispatch"
  /\ stage' = [stage EXCEPT ![r] = "run"]
  /\ ran' = ran \cup {r}
  /\ UNCHANGED <<up, journal, result, crashes, audited, journalVars>>

RunReturns(r) ==
  /\ up /\ stage[r] = "run"
  /\ \E o \in Finished : ToolReturns(r, o)
  /\ UNCHANGED <<up, journal, crashes, audited, ran>>

\* Mutant of Respond: the answer does not wait for the result row.
RespondUnlogged(r) ==
  /\ up /\ stage[r] \in {"result_row", "respond"}
  /\ stage' = [stage EXCEPT ![r] = "answered"]
  /\ UNCHANGED <<up, journal, result, crashes, audited, ran, journalVars>>

Respond(r) ==
  /\ up /\ stage[r] = "respond"
  /\ stage' = [stage EXCEPT ![r] = "answered"]
  /\ UNCHANGED <<up, journal, result, crashes, audited, ran, journalVars>>

-----------------------------------------------------------------------------
(* The process stops and is started again.                                  *)

Crash ==
  /\ up /\ crashes < MaxCrashes
  /\ up' = FALSE
  /\ crashes' = crashes + 1
  /\ stage' = [r \in Requests |-> IF stage[r] \in InProgress THEN "lost" ELSE stage[r]]
  /\ JournalCrash
  /\ UNCHANGED <<journal, result, audited, ran>>

Restart ==
  /\ ~up
  /\ up' = TRUE
  /\ journal' \in Opened
  /\ UNCHANGED <<stage, result, crashes, audited, ran, journalVars>>

\* Nothing is left to do.
Finish ==
  /\ up /\ \A r \in Requests : stage[r] \in {"answered", "lost"}
  /\ UNCHANGED vars

Handle(r) == LogRow(r) \/ Reject(r) \/ Run(r) \/ RunReturns(r) \/ Respond(r)

Next ==
  \/ \E r \in Requests : Receive(r) \/ Handle(r) \/ Logged(r)
  \/ Crash \/ Restart \/ Finish

Spec == Init /\ [][Next]_vars

\* The runtime polls every future that is ready, and the runner returns.
ServerFairness == \A r \in Requests : WF_vars(Handle(r))

\* With a disk that answers, if only with an error, every log() returns.
FairSpec      == Spec /\ ServerFairness /\ \A r \in Requests : WF_vars(Logged(r))
StuckDiskSpec == Spec /\ ServerFairness

-----------------------------------------------------------------------------
(* Properties.                                                              *)

\* A diagnostic touches the host only when its call row is on record or its
\* loss was warned about, and that stays so through crashes (call_tool).
AuditBeforeEffect ==
  \A r \in ran \cap audited : HasRow(CallRow(r)) \/ CallRow(r) \in warned

\* An answered request has both its rows, in order, the result row with the
\* outcome the client saw, unless a write was warned about (call_tool).
AnswerIsAudited ==
  \A r \in audited : stage[r] = "answered" =>
    \/ CallRow(r) \in warned
    \/ ResultRow(r) \in warned
    \/ \E i, j \in DOMAIN file :
         /\ i < j
         /\ file[i] = [row |-> CallRow(r), part |-> "whole"]
         /\ file[j] = [row |-> ResultRow(r), part |-> "whole"]

\* Rows carry no request id, so nobody could sort out repeated ones: per request
\* there is at most one row of a kind, the result row after the call row, failed
\* writes, torn rows and restarts on the same file included (log).
RowsAtMostOnce ==
  \A i, j \in DOMAIN file :
    file[i].row.req = file[j].row.req /\ i < j =>
      file[i].row.dir = "call" /\ file[j].row.dir = "result"

\* The mutex line is the calls that are logging, so a row is never written by
\* two calls at once and no call waits for a guard that nobody will release.
MutexLine ==
  /\ \A i, j \in DOMAIN line : line[i] = line[j] => i = j
  /\ {line[i] : i \in DOMAIN line} = {r \in Requests : stage[r] \in {"call_row", "result_row"}}
  /\ inflight # NoRow => line # <<>> /\ inflight.req = Head(line)

\* Every request received is answered or lost in a crash, failed writes and
\* degraded mode included, as long as the disk answers (call_tool).
EveryRequestAnswered ==
  \A r \in Requests : stage[r] \in InProgress ~> stage[r] \in {"answered", "lost"}

\* What an audit trail knows of the server: how far each call has come, what its
\* client was told, and the complete rows of the file.
PhaseAt(s) ==
  CASE s \in {"new", "call_row"}                -> "new"
    [] s \in {"dispatch", "run", "result_row"}  -> "announced"
    [] s = "respond"                            -> "concluded"
    [] OTHER                                    -> s

Phases  == [r \in Requests |-> PhaseAt(stage[r])]
Answers == [r \in Requests |-> IF stage[r] = "answered" THEN result[r] ELSE NoResult]

RowsOnRecord ==
  Chosen([i \in DOMAIN file |-> file[i].row], {i \in DOMAIN file : file[i].part = "whole"})

Trail == INSTANCE AuditTrail WITH
  trail <- RowsOnRecord, excused <- warned, open <- journal, phase <- Phases, answer <- Answers

\* Whatever the interleaving, wherever a write fails and wherever a crash falls,
\* the complete rows of the file are an audit trail whose gaps are warned about.
ImplementsAuditTrail == Trail!Spec

\* Documented: one line per JournalEntry.
OneLinePerEntry == \A i \in DOMAIN file : file[i].part = "whole" => Readable(i)

\* Documented: auditing never blocks a tool call.
NeverBlocked == EveryRequestAnswered
=============================================================================
