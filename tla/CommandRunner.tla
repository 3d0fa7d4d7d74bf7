---------------------------- MODULE CommandRunner ----------------------------
(* CommandRunner of src/netdiag/commands.rs: every diagnostic passes the    *)
(* refusal gate, waits for one of MaxSlots command slots, and then runs a   *)
(* child process or reads a file under a timeout.                           *)
(*                                                                          *)
(* Each element of Calls is one in-flight run(); it is reused after its     *)
(* result was taken.  Time advances in ticks.  The server's own steps take  *)
(* no time: a tick waits for a poll that is due.                            *)
EXTENDS Naturals, Sequences, FiniteSets, SequencesExt, Gate

CONSTANTS
  Calls,        \* identities of concurrent run() calls
  Keys,         \* command keys callers may name
  Allowlist,    \* keys left in the runner's allowlist
  OptIn,        \* privileged_enabled
  FileKeys,     \* keys whose DiagnosticSpec is a File
  MaxSlots,     \* MAX_CONCURRENT_COMMANDS
  Timeout,      \* the runner's timeout, in ticks
  LookupBound,  \* bound of the model on a program lookup; the code has none
  NoKey         \* "no call in progress"

ASSUME SlotsAssumption  == MaxSlots \in Nat \ {0}
ASSUME TimeAssumption   == Timeout \in Nat \ {0} /\ LookupBound \in Nat
ASSUME CallsAssumption  == IsFiniteSet(Calls)
ASSUME KeysAssumption   == NoKey \notin Keys

VARIABLES
  pc,       \* where each call's future is suspended
  key,      \* the command key of each call
  permits,  \* free permits of the semaphore
  queue,    \* waiters of the semaphore, oldest first
  elapsed,  \* ticks since the call entered its current wait
  age,      \* ticks in line, running or reading: all but its lookup (history)
  child,    \* the child process of each call
  pipes,    \* what reading the child's stdout and stderr has come to
  dying,    \* calls whose SIGKILLed child is still there (at most one each)
  outcome   \* what the call returned

vars == <<pc, key, permits, queue, elapsed, age, child, pipes, dying, outcome>>

Holding  == {"granted", "resolving", "running", "reading"}
States   == {"idle", "queued", "done"} \cup Holding
Refusals == {"not_allowed", "privileged_disabled"}
Outcomes == {"none", "ok", "file_args", "slot_timeout", "not_found",
             "spawn_failed", "run_timeout", "wait_failed", "read_failed"}
            \cup Refusals

TypeOK ==
  /\ pc      \in [Calls -> States]
  /\ key     \in [Calls -> Keys \cup {NoKey}]
  /\ permits \in 0..MaxSlots
  /\ queue   \in Seq(Calls)
  /\ elapsed \in [Calls -> Nat]
  /\ age     \in [Calls -> Nat]
  /\ child   \in [Calls -> {"none", "live", "exited"}]
  /\ pipes   \in [Calls -> {"none", "open", "eof", "error"}]
  /\ dying   \in SUBSET Calls
  /\ outcome \in [Calls -> Outcomes]

Init ==
  /\ pc      = [c \in Calls |-> "idle"]
  /\ key     = [c \in Calls |-> NoKey]
  /\ permits = MaxSlots
  /\ queue   = <<>>
  /\ elapsed = [c \in Calls |-> 0]
  /\ age     = [c \in Calls |-> 0]
  /\ child   = [c \in Calls |-> "none"]
  /\ pipes   = [c \in Calls |-> "none"]
  /\ dying   = {}
  /\ outcome = [c \in Calls |-> "none"]

-----------------------------------------------------------------------------
(* The slots: tokio's Semaphore.                                            *)

Holders == {c \in Calls : pc[c] \in Holding}

\* Mutants of Return: the permit becomes free past the waiters; the newest
\* waiter gets it.
ReturnPastWaiters(c, o) ==
  /\ outcome' = [outcome EXCEPT ![c] = o]
  /\ permits' = permits + 1
  /\ pc' = [pc EXCEPT ![c] = "done"]
  /\ UNCHANGED queue

ReturnToNewest(c, o) ==
  /\ outcome' = [outcome EXCEPT ![c] = o]
  /\ IF queue = <<>>
     THEN /\ permits' = permits + 1
          /\ pc' = [pc EXCEPT ![c] = "done"]
          /\ UNCHANGED queue
     ELSE /\ pc' = [pc EXCEPT ![c] = "done", ![Last(queue)] = "granted"]
          /\ queue' = Front(queue)
          /\ UNCHANGED permits

\* c, which holds a permit, returns o: the permit is handed to the head of
\* the queue, or becomes free when nobody waits.
Return(c, o) ==
  /\ outcome' = [outcome EXCEPT ![c] = o]
  /\ IF queue = <<>>
     THEN /\ permits' = permits + 1
          /\ pc' = [pc EXCEPT ![c] = "done"]
          /\ UNCHANGED queue
     ELSE /\ pc' = [pc EXCEPT ![c] = "done", ![Head(queue)] = "granted"]
          /\ queue' = Tail(queue)
          /\ UNCHANGED permits

\* Mutant of DropChild: the child is not killed with its call.
KeepChild(c) == UNCHANGED <<child, pipes, dying>>

\* The child of c, if one was started, is dropped with the call's future:
\* kill_on_drop signals it unless it was reaped, and a process that has not
\* exited by itself lingers until the kernel has torn it down.
DropChild(c) ==
  /\ dying' = IF child[c] = "live" THEN dying \cup {c} ELSE dying
  /\ child' = [child EXCEPT ![c] = "none"]
  /\ pipes' = [pipes EXCEPT ![c] = "none"]

NoChildStep == UNCHANGED <<child, pipes, dying>>

-----------------------------------------------------------------------------
(* The timers.  One covers the wait for a slot, another the reads and wait() *)
(* of a child or the reading of a file; none covers the program lookup.      *)

SlotDue(c) == pc[c] = "queued" /\ elapsed[c] >= Timeout

\* Mutant of RunDue: the timeout covers wait() but not the reads.
RunDueAfterReads(c) == pc[c] = "running" /\ elapsed[c] >= Timeout /\ pipes[c] # "open"

RunDue(c) == pc[c] = "running" /\ elapsed[c] >= Timeout

FileDue(c) == pc[c] = "reading" /\ elapsed[c] >= Timeout

-----------------------------------------------------------------------------
(* run() and run_spec(): gate, then a slot.                                 *)

\* Mutant of Join: the newcomer is served first.
JoinInFront(c) == queue' = <<c>> \o queue

Join(c) == queue' = Append(queue, c)

\* A new call.  A refusal returns at once; an admitted call takes a free
\* permit or joins the end of the queue.
Call(c, k) ==
  /\ pc[c] = "idle"
  /\ key' = [key EXCEPT ![c] = k]
  /\ LET gate == GateOf(k, Allowlist, OptIn) IN
     \/ /\ gate \in Refusals
        /\ pc' = [pc EXCEPT ![c] = "done"]
        /\ outcome' = [outcome EXCEPT ![c] = gate]
        /\ UNCHANGED <<permits, queue>>
     \/ /\ gate = "admitted" /\ permits > 0
        /\ pc' = [pc EXCEPT ![c] = "granted"]
        /\ permits' = permits - 1
        /\ UNCHANGED <<queue, outcome>>
     \/ /\ gate = "admitted" /\ permits = 0
        /\ pc' = [pc EXCEPT ![c] = "queued"]
        /\ Join(c)
        /\ UNCHANGED <<permits, outcome>>
  /\ UNCHANGED <<elapsed, age>> /\ NoChildStep

\* Mutants of SlotTimeout: the acquire future is kept; a busy runner fails at
\* once.
TimeoutKeepsWaiter(c) ==
  /\ SlotDue(c)
  /\ pc' = [pc EXCEPT ![c] = "done"]
  /\ outcome' = [outcome EXCEPT ![c] = "slot_timeout"]
  /\ UNCHANGED <<key, permits, queue, elapsed, age>> /\ NoChildStep

TimeoutAtOnce(c) ==
  /\ pc[c] = "queued"
  /\ pc' = [pc EXCEPT ![c] = "done"]
  /\ queue' = SelectSeq(queue, LAMBDA d : d # c)
  /\ outcome' = [outcome EXCEPT ![c] = "slot_timeout"]
  /\ UNCHANGED <<key, permits, elapsed, age>> /\ NoChildStep

\* The deadline of the slot wait passes while c is in the queue.
SlotTimeout(c) ==
  /\ SlotDue(c)
  /\ pc' = [pc EXCEPT ![c] = "done"]
  /\ \E i \in 1..Len(queue) : queue[i] = c /\ queue' = RemoveAt(queue, i)
  /\ outcome' = [outcome EXCEPT ![c] = "slot_timeout"]
  /\ UNCHANGED <<key, permits, elapsed, age>> /\ NoChildStep

\* Mutant of GrantedTooLate: the late permit is dropped.
GrantLost(c) ==
  /\ pc[c] = "granted" /\ elapsed[c] = Timeout
  /\ pc' = [pc EXCEPT ![c] = "done"]
  /\ outcome' = [outcome EXCEPT ![c] = "slot_timeout"]
  /\ UNCHANGED <<key, permits, queue, elapsed, age>> /\ NoChildStep

\* A permit handed over between the last poll of acquire() and the poll of
\* its deadline: dropping the acquire future passes the permit on.
GrantedTooLate(c) ==
  /\ pc[c] = "granted" /\ elapsed[c] = Timeout
  /\ Return(c, "slot_timeout")
  /\ UNCHANGED <<key, elapsed, age>> /\ NoChildStep

\* The permit is seen: dispatch on the kind of diagnostic.
StartProcess(c) ==
  /\ pc[c] = "granted" /\ key[c] \notin FileKeys
  /\ pc' = [pc EXCEPT ![c] = "resolving"]
  /\ elapsed' = [elapsed EXCEPT ![c] = 0]
  /\ UNCHANGED <<key, permits, queue, age, outcome>> /\ NoChildStep

StartFile(c) ==
  /\ pc[c] = "granted" /\ key[c] \in FileKeys
  /\ pc' = [pc EXCEPT ![c] = "reading"]
  /\ elapsed' = [elapsed EXCEPT ![c] = 0]
  /\ UNCHANGED <<key, permits, queue, age, outcome>> /\ NoChildStep

\* A file diagnostic that was given extra arguments.
RefuseFileArgs(c) ==
  /\ pc[c] = "granted" /\ key[c] \in FileKeys
  /\ Return(c, "file_args")
  /\ UNCHANGED <<key, elapsed, age>> /\ NoChildStep

-----------------------------------------------------------------------------
(* run_process().                                                           *)

\* resolve_program found nothing, or the spawn itself failed.
NoProcess(c, o) ==
  /\ pc[c] = "resolving"
  /\ o \in {"not_found", "spawn_failed"}
  /\ Return(c, o)
  /\ UNCHANGED <<key, elapsed, age>> /\ NoChildStep

Spawn(c) ==
  /\ pc[c] = "resolving"
  /\ pc' = [pc EXCEPT ![c] = "running"]
  /\ child' = [child EXCEPT ![c] = "live"]
  /\ pipes' = [pipes EXCEPT ![c] = "open"]
  /\ elapsed' = [elapsed EXCEPT ![c] = 0]
  /\ UNCHANGED <<key, permits, queue, age, dying, outcome>>

\* The two reads are joined: both pipes at EOF, or an error on either and
\* the other one ended.
PipesEnd(c) ==
  /\ pipes[c] = "open"
  /\ \E r \in {"eof", "error"} : pipes' = [pipes EXCEPT ![c] = r]
  /\ UNCHANGED <<pc, key, permits, queue, elapsed, age, child, dying, outcome>>

\* The child exits by itself, before or after its pipes end: a grandchild
\* may still hold them, and a child may close them and run on.
ChildExits(c) ==
  /\ child[c] = "live"
  /\ child' = [child EXCEPT ![c] = "exited"]
  /\ UNCHANGED <<pc, key, permits, queue, elapsed, age, pipes, dying, outcome>>

\* Mutant of Complete: the result does not wait for the child.
CompleteUnreaped(c) ==
  /\ pc[c] = "running" /\ pipes[c] # "open"
  /\ Return(c, IF pipes[c] = "eof" THEN "ok" ELSE "read_failed")
  /\ DropChild(c)
  /\ UNCHANGED <<key, elapsed, age>>

\* Reads joined, then wait() reaped the child: the result, or the error of a
\* read.
Complete(c) ==
  /\ pc[c] = "running" /\ pipes[c] # "open" /\ child[c] = "exited"
  /\ Return(c, IF pipes[c] = "eof" THEN "ok" ELSE "read_failed")
  /\ DropChild(c)
  /\ UNCHANGED <<key, elapsed, age>>

\* wait() itself fails; the child is dropped unreaped.
WaitFails(c) ==
  /\ pc[c] = "running" /\ pipes[c] # "open"
  /\ Return(c, "wait_failed")
  /\ DropChild(c)
  /\ UNCHANGED <<key, elapsed, age>>

\* Mutant of RunTimeout: the timeout covers wait() but not the reads.
TimeoutAfterReads(c) ==
  /\ RunDue(c) /\ pipes[c] # "open"
  /\ Return(c, "run_timeout")
  /\ DropChild(c)
  /\ UNCHANGED <<key, elapsed, age>>

RunTimeout(c) ==
  /\ RunDue(c)
  /\ Return(c, "run_timeout")
  /\ DropChild(c)
  /\ UNCHANGED <<key, elapsed, age>>

\* A killed process is finally gone.
KilledDies(c) ==
  /\ c \in dying
  /\ dying' = dying \ {c}
  /\ UNCHANGED <<pc, key, permits, queue, elapsed, age, child, pipes, outcome>>

-----------------------------------------------------------------------------
(* read_file().                                                             *)

FileEnds(c, o) ==
  /\ pc[c] = "reading"
  /\ o \in {"ok", "read_failed", "run_timeout"}
  /\ o = "run_timeout" => FileDue(c)
  /\ Return(c, o)
  /\ UNCHANGED <<key, elapsed, age>> /\ NoChildStep

-----------------------------------------------------------------------------
(* The caller and the clock.                                                *)

\* The caller took the result: c may stand for a later call.
Forget(c) ==
  /\ pc[c] = "done"
  /\ pc' = [pc EXCEPT ![c] = "idle"]
  /\ key' = [key EXCEPT ![c] = NoKey]
  /\ elapsed' = [elapsed EXCEPT ![c] = 0]
  /\ age' = [age EXCEPT ![c] = 0]
  /\ outcome' = [outcome EXCEPT ![c] = "none"]
  /\ UNCHANGED <<permits, queue>> /\ NoChildStep

Covered == {"queued", "running", "reading"}
Timed   == Covered \cup {"resolving"}

\* No timer that is due and no permit that was handed over waits for a poll.
Settled(c) ==
  /\ ~(SlotDue(c) \/ RunDue(c) \/ FileDue(c))
  /\ pc[c] # "granted"

\* Later(clock, S) is the clock of each call, one tick later in the states S.
Later(clock, S) == [c \in Calls |-> IF pc[c] \in S THEN clock[c] + 1 ELSE clock[c]]

Tick ==
  /\ \E c \in Calls : pc[c] \in Timed
  /\ \A c \in Calls : Settled(c) /\ (pc[c] = "resolving" => elapsed[c] < LookupBound)
  /\ elapsed' = Later(elapsed, Timed)
  /\ age' = Later(age, Covered)
  /\ UNCHANGED <<pc, key, permits, queue, outcome>> /\ NoChildStep

-----------------------------------------------------------------------------
\* The steps the server takes for c, as opposed to its environment.
GateStep(c)  == StartProcess(c) \/ StartFile(c) \/ RefuseFileArgs(c)
Deadline(c)  == SlotTimeout(c) \/ GrantedTooLate(c) \/ RunTimeout(c)
                \/ FileEnds(c, "run_timeout")
Lookup(c)    == Spawn(c) \/ \E o \in {"not_found", "spawn_failed"} : NoProcess(c, o)
Finish(c)    == Complete(c) \/ WaitFails(c)
                \/ \E o \in {"ok", "read_failed"} : FileEnds(c, o)
World(c)     == PipesEnd(c) \/ ChildExits(c) \/ KilledDies(c)

Next ==
  \/ \E c \in Calls : \/ \E k \in Keys : Call(c, k)
                      \/ GateStep(c) \/ Deadline(c) \/ Lookup(c) \/ Finish(c)
                      \/ World(c) \/ Forget(c)
  \/ Tick

Spec == Init /\ [][Next]_vars

-----------------------------------------------------------------------------
(* Properties.                                                              *)

\* No permit is lost or invented, whichever way a call ends, with a permit in
\* flight to a waiter that gives up included (run_spec's _slot guard).
SlotConservation == permits + Cardinality(Holders) = MaxSlots

\* A call waits only while every slot is taken: a released permit never stays
\* free past a waiter (run_spec).
NoIdleSlot == queue # <<>> => permits = 0

\* The line of waiters is exactly the calls suspended in acquire(), each once.
QueueIsWaiters ==
  /\ {queue[i] : i \in 1..Len(queue)} = {c \in Calls : pc[c] = "queued"}
  /\ \A i, j \in 1..Len(queue) : queue[i] = queue[j] => i = j

\* Whoever is further ahead has waited at least as long, so slot timeouts
\* strike from the head and a late caller is never served at the cost of an
\* earlier one (run_spec's acquire under its own timeout).
QueueByAge ==
  \A i, j \in 1..Len(queue) : i < j => elapsed[queue[i]] >= elapsed[queue[j]]

\* A burst cannot multiply child processes: the children nobody has signalled
\* are at most MaxSlots, and each belongs to a call still holding its slot.
ChildrenBounded ==
  /\ \A c \in Calls : child[c] # "none" => pc[c] = "running"
  /\ Cardinality({c \in Calls : child[c] # "none"}) <= MaxSlots

\* Apart from its own program lookup, which no timeout covers, a call takes at
\* most one timeout waiting and one running (the comment in run_spec), however
\* long the lookups of others hold the slots it waits for, and whatever its
\* child and whoever else has its pipes do.
TwoTimeouts == \A c \in Calls : age[c] <= 2 * Timeout

\* How old a call is when it returns tells how it ended: a refusal is
\* immediate, a slot timeout takes one full timeout, a run timeout at least
\* one.
OutcomeTiming ==
  \A c \in Calls : pc[c] = "done" =>
    /\ outcome[c] \in Refusals => age[c] = 0
    /\ outcome[c] = "slot_timeout" => age[c] = Timeout
    /\ outcome[c] = "run_timeout" => age[c] >= Timeout

\* The semaphore under timeouts, hand-overs and late grants is a first-come,
\* first-served pool of MaxSlots slots.
Pool == INSTANCE SlotPool WITH waiting <- queue, holders <- Holders
ImplementsSlotPool == Pool!Spec

\* Documented: at most MaxSlots commands run concurrently, so a burst cannot
\* multiply child processes.
CommandsBounded ==
  Cardinality({c \in Calls : child[c] = "live"}) + Cardinality(dying) <= MaxSlots
=============================================================================
