------------------------- MODULE CommandRunnerProofs -------------------------
(* Theorems about CommandRunner for every number of calls and slots, every  *)
(* timeout and every configuration of the gate.                             *)
EXTENDS CommandRunner, SharedLemmas

-----------------------------------------------------------------------------
(* The slots: the queue and the permits are the accounts of a pool whose    *)
(* line is the suspended calls and whose slots are the holders'.            *)
Waiters == {c \in Calls : pc[c] = "queued"}

SlotInv ==
  /\ pc \in [Calls -> States]
  /\ Accounts(queue, Waiters, Holders, permits, MaxSlots, Calls)

(* What the accounts say of the slots.                                      *)
LEMMA SlotFacts ==
  ASSUME SlotInv
  PROVE  /\ queue \in Seq(Calls) /\ permits \in Nat
         /\ IsFiniteSet(Holders) /\ Cardinality(Holders) \in Nat
         /\ SlotConservation /\ NoIdleSlot /\ QueueIsWaiters
BY FS_CardinalityType
   DEF SlotInv, Accounts, IsLine, InLine, Waiters,
       SlotConservation, NoIdleSlot, QueueIsWaiters

(* A step that keeps the queue, the permits and who holds one.              *)
LEMMA SlotsKept ==
  ASSUME SlotInv, UNCHANGED <<permits, queue>>, pc' \in [Calls -> States],
         \A c \in Calls : /\ pc[c] \in Holding <=> pc'[c] \in Holding
                          /\ pc[c] = "queued" <=> pc'[c] = "queued"
  PROVE  SlotInv'
<1>1. Holders' = Holders /\ Waiters' = Waiters
  BY DEF Holders, Waiters
<1> QED BY <1>1 DEF SlotInv

(* Whoever is at the head of the line is suspended in acquire().            *)
LEMMA HeadIsWaiting ==
  ASSUME SlotInv, queue # <<>>
  PROVE  Head(queue) \in Calls /\ pc[Head(queue)] = "queued"
<1>1. Head(queue) \in Waiters
  BY LineTail DEF SlotInv, Accounts
<1> QED BY <1>1 DEF Waiters

(* A holder returns: its permit is handed on or becomes free.               *)
LEMMA ReturnKeepsSlots ==
  ASSUME SlotInv, NEW c \in Calls, pc[c] \in Holding, NEW o, Return(c, o)
  PROVE  SlotInv'
<1>1. /\ c \in Holders /\ pc[c] # "queued"
      /\ {"done", "granted"} \subseteq States
      /\ "granted" \in Holding /\ "done" \notin Holding /\ "queued" \notin Holding
  BY DEF Holders, Holding, States
<1>2. CASE queue = <<>>
  <2>1. permits' = permits + 1 /\ pc' = [pc EXCEPT ![c] = "done"] /\ queue' = queue
    BY <1>2 DEF Return
  <2>2. pc' \in [Calls -> States] /\ Holders' = Holders \ {c} /\ Waiters' = Waiters
    BY <1>1, <2>1 DEF SlotInv, Holders, Waiters
  <2> QED BY <1>1, <1>2, <2>1, <2>2, SlotFreed, SlotsAssumption DEF SlotInv
<1>3. CASE queue # <<>>
  <2> DEFINE h == Head(queue)
  <2>1. /\ pc' = [pc EXCEPT ![c] = "done", ![h] = "granted"]
        /\ queue' = Tail(queue) /\ permits' = permits
    BY <1>3 DEF Return
  <2>2. /\ h \in Calls /\ h \in Waiters /\ h # c
        /\ Accounts(Tail(queue), Waiters \ {h}, (Holders \ {c}) \cup {h}, permits, MaxSlots, Calls)
    BY <1>1, <1>3, SlotHandedOver, SlotsAssumption DEF SlotInv
  <2> HIDE DEF h
  <2>3. /\ pc' \in [Calls -> States]
        /\ Holders' = (Holders \ {c}) \cup {h} /\ Waiters' = Waiters \ {h}
    BY <1>1, <2>1, <2>2 DEF SlotInv, Holders, Waiters
  <2> QED BY <2>1, <2>2, <2>3 DEF SlotInv
<1> QED BY <1>2, <1>3

(* A new call is refused, takes a free permit or joins the line.            *)
LEMMA CallKeepsSlots ==
  ASSUME SlotInv, NEW c \in Calls, NEW k \in Keys, Call(c, k)
  PROVE  SlotInv'
<1>1. /\ pc[c] = "idle" /\ c \notin Holders /\ c \notin Waiters
      /\ {"queued", "granted", "done"} \subseteq States
      /\ "granted" \in Holding
      /\ "idle" \notin Holding /\ "done" \notin Holding /\ "queued" \notin Holding
  BY DEF Call, Holders, Waiters, Holding, States
<1>2. CASE pc' = [pc EXCEPT ![c] = "done"] /\ UNCHANGED <<permits, queue>>
  <2>1. pc' \in [Calls -> States]
    BY <1>1, <1>2 DEF SlotInv
  <2>2. \A d \in Calls : /\ pc[d] \in Holding <=> pc'[d] \in Holding
                         /\ pc[d] = "queued" <=> pc'[d] = "queued"
    BY <1>1, <1>2 DEF SlotInv
  <2> QED BY <1>2, <2>1, <2>2, SlotsKept
<1>3. CASE /\ permits > 0
           /\ pc' = [pc EXCEPT ![c] = "granted"]
           /\ permits' = permits - 1
           /\ UNCHANGED queue
  <2>1. pc' \in [Calls -> States] /\ Holders' = Holders \cup {c} /\ Waiters' = Waiters
    BY <1>1, <1>3 DEF SlotInv, Holders, Waiters
  <2> QED BY <1>1, <1>3, <2>1, SlotTaken, SlotsAssumption DEF SlotInv
<1>4. CASE /\ permits = 0
           /\ pc' = [pc EXCEPT ![c] = "queued"]
           /\ queue' = Append(queue, c)
           /\ UNCHANGED permits
  <2>1. pc' \in [Calls -> States] /\ Holders' = Holders /\ Waiters' = Waiters \cup {c}
    BY <1>1, <1>4 DEF SlotInv, Holders, Waiters
  <2> QED BY <1>1, <1>4, <2>1, SlotAwaited DEF SlotInv
<1> QED BY <1>2, <1>3, <1>4 DEF Call, Join

(* A waiter whose deadline passed leaves the line.                          *)
LEMMA SlotTimeoutKeepsSlots ==
  ASSUME SlotInv, NEW c \in Calls, SlotTimeout(c)
  PROVE  SlotInv'
<1>1. PICK n \in 1..Len(queue) : queue[n] = c /\ queue' = RemoveAt(queue, n)
  BY DEF SlotTimeout
<1>2. /\ pc[c] = "queued" /\ pc' = [pc EXCEPT ![c] = "done"]
      /\ permits' = permits
      /\ "done" \in States /\ "done" \notin Holding /\ "queued" \notin Holding
  BY DEF SlotTimeout, SlotDue, States, Holding
<1>3. pc' \in [Calls -> States] /\ Holders' = Holders /\ Waiters' = Waiters \ {c}
  BY <1>2 DEF SlotInv, Holders, Waiters
<1> QED BY <1>1, <1>2, <1>3, SlotForgone DEF SlotInv

-----------------------------------------------------------------------------
(* The steps, sorted by what they do to a call that holds a slot: it moves  *)
(* on, or it returns for one of many reasons.                               *)
Ends(c, o) ==
  /\ pc[c] \in Holding
  /\ o \in Outcomes \ (Refusals \cup {"none"})
  /\ o = "slot_timeout" => pc[c] = "granted" /\ elapsed[c] = Timeout
  /\ o = "run_timeout" => RunDue(c) \/ FileDue(c)
  /\ Return(c, o)
  /\ IF pc[c] = "running" THEN DropChild(c) ELSE NoChildStep
  /\ UNCHANGED <<key, elapsed, age>>

Starts(c) == StartProcess(c) \/ StartFile(c) \/ Spawn(c)

(* Every step of the server or its environment for one call is one of four  *)
(* kinds, which the proofs below take one by one.                           *)
LEMMA StepCases ==
  ASSUME NEW c \in Calls, GateStep(c) \/ Deadline(c) \/ Lookup(c) \/ Finish(c)
  PROVE  Starts(c) \/ SlotTimeout(c) \/ \E o : Ends(c, o)
<1> USE DEF Ends, Outcomes, Refusals, Holding
<1>1. CASE RefuseFileArgs(c)
  BY <1>1 DEF RefuseFileArgs
<1>2. CASE GrantedTooLate(c)
  BY <1>2 DEF GrantedTooLate
<1>3. CASE RunTimeout(c)
  BY <1>3 DEF RunTimeout, RunDue
<1>4. ASSUME NEW o, FileEnds(c, o) PROVE \E r : Ends(c, r)
  BY <1>4 DEF FileEnds
<1>5. ASSUME NEW o, NoProcess(c, o) PROVE \E r : Ends(c, r)
  BY <1>5 DEF NoProcess
<1>6. CASE Complete(c)
  BY <1>6 DEF Complete
<1>7. CASE WaitFails(c)
  BY <1>7 DEF WaitFails
<1> HIDE DEF Ends
<1> QED BY <1>1, <1>2, <1>3, <1>4, <1>5, <1>6, <1>7
        DEF GateStep, Deadline, Lookup, Finish, Starts

(* Every step preserves the invariant of the slots.                         *)
LEMMA SlotStep == SlotInv /\ [Next]_vars => SlotInv'
<1> SUFFICES ASSUME SlotInv, [Next]_vars PROVE SlotInv'
  OBVIOUS
<1> USE DEF Holding, States
<1>1. CASE UNCHANGED vars
  BY <1>1, SlotsKept DEF vars, SlotInv
<1>2. ASSUME NEW c \in Calls, NEW k \in Keys, Call(c, k) PROVE SlotInv'
  BY <1>2, CallKeepsSlots
<1>3. ASSUME NEW c \in Calls, Starts(c) PROVE SlotInv'
  BY <1>3, SlotsKept DEF Starts, StartProcess, StartFile, Spawn, SlotInv
<1>4. ASSUME NEW c \in Calls, SlotTimeout(c) PROVE SlotInv'
  BY <1>4, SlotTimeoutKeepsSlots
<1>5. ASSUME NEW c \in Calls, NEW o, Ends(c, o) PROVE SlotInv'
  BY <1>5, ReturnKeepsSlots DEF Ends
<1>6. ASSUME NEW c \in Calls, World(c) PROVE SlotInv'
  BY <1>6, SlotsKept DEF World, PipesEnd, ChildExits, KilledDies, SlotInv
<1>7. ASSUME NEW c \in Calls, Forget(c) PROVE SlotInv'
  BY <1>7, SlotsKept DEF Forget, SlotInv
<1>8. CASE Tick
  BY <1>8, SlotsKept DEF Tick, SlotInv
<1> QED BY <1>1, <1>2, <1>3, <1>4, <1>5, <1>6, <1>7, <1>8, StepCases DEF Next

(* The invariant of the slots holds initially: MaxSlots free permits.       *)
LEMMA SlotInit == Init => SlotInv
<1> SUFFICES ASSUME Init PROVE SlotInv
  OBVIOUS
<1>1. Holders = {} /\ Waiters = {} /\ pc \in [Calls -> States]
  BY DEF Init, Holders, Holding, Waiters, States
<1> QED BY <1>1, SlotsAtRest, SlotsAssumption DEF Init, SlotInv

(* The slots never leak: every permit is free or held by one call, under    *)
(* every way a call can end and every race of a hand-over with a timeout    *)
(* (run_spec's semaphore).                                                  *)
THEOREM SlotSafety == Spec => []SlotConservation
<1>1. SlotInv => SlotConservation
  BY SlotFacts
<1> QED BY <1>1, SlotInit, SlotStep, PTL DEF Spec

(* No permit is free while a call waits for one: a permit handed to a call  *)
(* that times out at that moment is passed on (run_spec's acquire).         *)
THEOREM SlotsAreBusy == Spec => []NoIdleSlot
<1>1. SlotInv => NoIdleSlot
  BY SlotFacts
<1> QED BY <1>1, SlotInit, SlotStep, PTL DEF Spec

(* The line is exactly the calls suspended in acquire, each once: a timeout *)
(* leaves no place behind and no grant leaves a call in the line.           *)
THEOREM LineIsWaiters == Spec => []QueueIsWaiters
<1>1. SlotInv => QueueIsWaiters
  BY SlotFacts
<1> QED BY <1>1, SlotInit, SlotStep, PTL DEF Spec

-----------------------------------------------------------------------------
(* Types of everything else.                                                *)
DataInv ==
  /\ key     \in [Calls -> Keys \cup {NoKey}]
  /\ elapsed \in [Calls -> Nat]
  /\ age     \in [Calls -> Nat]
  /\ child   \in [Calls -> {"none", "live", "exited"}]
  /\ pipes   \in [Calls -> {"none", "open", "eof", "error"}]
  /\ dying   \in SUBSET Calls
  /\ outcome \in [Calls -> Outcomes]

(* Every step preserves the types of the other variables.                   *)
LEMMA DataStep == DataInv /\ [Next]_vars => DataInv'
<1> SUFFICES ASSUME DataInv, [Next]_vars PROVE DataInv'
  OBVIOUS
<1> USE DEF DataInv, NoChildStep, Outcomes, Refusals
<1>1. CASE UNCHANGED vars
  BY <1>1 DEF vars
<1>2. ASSUME NEW c \in Calls, NEW k \in Keys, Call(c, k) PROVE DataInv'
  BY <1>2 DEF Call
<1>3. ASSUME NEW c \in Calls, Starts(c) PROVE DataInv'
  <2>1. CASE StartProcess(c) \/ StartFile(c)
    BY <2>1 DEF StartProcess, StartFile
  <2>2. CASE Spawn(c)
    BY <2>2 DEF Spawn
  <2> QED BY <1>3, <2>1, <2>2 DEF Starts
<1>4. ASSUME NEW c \in Calls, SlotTimeout(c) PROVE DataInv'
  BY <1>4 DEF SlotTimeout
<1>5. ASSUME NEW c \in Calls, NEW o, Ends(c, o) PROVE DataInv'
  <2>1. outcome' \in [Calls -> Outcomes]
    BY <1>5 DEF Ends, Return
  <2>2. UNCHANGED <<key, elapsed, age>>
    BY <1>5 DEF Ends
  <2>3. /\ child' \in [Calls -> {"none", "live", "exited"}]
        /\ pipes' \in [Calls -> {"none", "open", "eof", "error"}]
        /\ dying' \in SUBSET Calls
    BY <1>5 DEF Ends, DropChild
  <2> QED BY <2>1, <2>2, <2>3
<1>6. ASSUME NEW c \in Calls, World(c) PROVE DataInv'
  <2>1. CASE PipesEnd(c)
    BY <2>1 DEF PipesEnd
  <2>2. CASE ChildExits(c)
    BY <2>2 DEF ChildExits
  <2>3. CASE KilledDies(c)
    BY <2>3 DEF KilledDies
  <2> QED BY <1>6, <2>1, <2>2, <2>3 DEF World
<1>7. ASSUME NEW c \in Calls, Forget(c) PROVE DataInv'
  BY <1>7 DEF Forget
<1>8. CASE Tick
  BY <1>8 DEF Tick, Later
<1> QED BY <1>1, <1>2, <1>3, <1>4, <1>5, <1>6, <1>7, <1>8, StepCases DEF Next

(* Every variable keeps its type; that permits stay within 0..MaxSlots is a *)
(* consequence of conservation.                                             *)
THEOREM TypeCorrect == Spec => []TypeOK
<1>1. Init => DataInv
  BY DEF Init, DataInv, Outcomes
<1>2. SlotInv /\ DataInv => TypeOK
  <2> SUFFICES ASSUME SlotInv, DataInv PROVE permits \in 0..MaxSlots
    BY SlotFacts DEF SlotInv, DataInv, TypeOK
  <2> QED BY SlotFacts, SlotsAssumption DEF SlotConservation
<1> QED BY <1>1, <1>2, SlotInit, SlotStep, DataStep, PTL DEF Spec

-----------------------------------------------------------------------------
(* Children.  A hand-over moves only a suspended call, so the call of a     *)
(* running child changes state by its own return alone, which drops it.     *)
ChildInv ==
  \A c \in Calls : child[c] # "none" => pc[c] = "running"

(* Every step keeps a child under the call that is running it.              *)
LEMMA ChildStep ==
  SlotInv /\ DataInv /\ ChildInv /\ [Next]_vars => ChildInv'
<1> SUFFICES ASSUME SlotInv, DataInv, ChildInv, [Next]_vars,
                    NEW d \in Calls, child'[d] # "none"
             PROVE  pc'[d] = "running"
  BY DEF ChildInv
<1> USE DEF SlotInv, DataInv, ChildInv
<1>1. CASE UNCHANGED vars
  BY <1>1 DEF vars
<1>2. ASSUME NEW c \in Calls, NEW k \in Keys, Call(c, k) PROVE pc'[d] = "running"
  BY <1>2 DEF Call, NoChildStep
<1>3. ASSUME NEW c \in Calls, Starts(c) PROVE pc'[d] = "running"
  BY <1>3 DEF Starts, StartProcess, StartFile, Spawn, NoChildStep
<1>4. ASSUME NEW c \in Calls, SlotTimeout(c) PROVE pc'[d] = "running"
  BY <1>4 DEF SlotTimeout, SlotDue, NoChildStep
<1>5. ASSUME NEW c \in Calls, NEW o, Ends(c, o) PROVE pc'[d] = "running"
  <2>1. d # c /\ child[d] # "none"
    BY <1>5 DEF Ends, DropChild, NoChildStep
  <2>2. pc[d] = "running"
    BY <2>1
  <2>3. queue # <<>> => Head(queue) \in Calls /\ pc[Head(queue)] = "queued"
    BY HeadIsWaiting
  <2> QED BY <1>5, <2>1, <2>2, <2>3 DEF Ends, Return
<1>6. ASSUME NEW c \in Calls, World(c) PROVE pc'[d] = "running"
  BY <1>6 DEF World, PipesEnd, ChildExits, KilledDies
<1>7. ASSUME NEW c \in Calls, Forget(c) PROVE pc'[d] = "running"
  BY <1>7 DEF Forget, NoChildStep
<1>8. CASE Tick
  BY <1>8 DEF Tick, NoChildStep
<1> QED BY <1>1, <1>2, <1>3, <1>4, <1>5, <1>6, <1>7, <1>8, StepCases DEF Next

(* However many calls are made at once, at most MaxSlots children are       *)
(* running unsignalled, each under a call that holds a slot.                *)
THEOREM ChildrenAreBounded == Spec => []ChildrenBounded
<1>1. Init => ChildInv
  BY DEF Init, ChildInv
<1>2. Init => DataInv
  BY DEF Init, DataInv, Outcomes
<1>3. SlotInv /\ ChildInv => ChildrenBounded
  <2> SUFFICES ASSUME SlotInv, ChildInv
               PROVE  Cardinality({c \in Calls : child[c] # "none"}) <= MaxSlots
    BY DEF ChildInv, ChildrenBounded
  <2> DEFINE B == {c \in Calls : child[c] # "none"}
  <2>1. B \in SUBSET Holders
    BY DEF ChildInv, Holders, Holding
  <2>2. IsFiniteSet(B) /\ Cardinality(B) <= Cardinality(Holders)
    BY <2>1, SlotFacts, FS_Subset
  <2>3. Cardinality(B) \in Nat
    BY <2>2, FS_CardinalityType
  <2> HIDE DEF B
  <2>4. Cardinality(B) <= MaxSlots
    BY <2>2, <2>3, SlotFacts, SlotsAssumption DEF SlotConservation
  <2> QED BY <2>4 DEF B
<1> QED BY <1>1, <1>2, <1>3, SlotInit, SlotStep, DataStep, ChildStep, PTL DEF Spec

-----------------------------------------------------------------------------
(* Time.  Where a call stands bounds how old it is.                         *)
TimeOf(c) ==
  /\ pc[c] = "idle" => elapsed[c] = 0 /\ age[c] = 0
  /\ pc[c] \in {"queued", "granted"} => age[c] = elapsed[c] /\ age[c] <= Timeout
  /\ pc[c] = "resolving" => age[c] <= Timeout
  /\ pc[c] \in {"running", "reading"} =>
       /\ elapsed[c] <= Timeout
       /\ elapsed[c] <= age[c]
       /\ age[c] <= Timeout + elapsed[c]
  /\ pc[c] = "done" =>
       /\ age[c] <= 2 * Timeout
       /\ outcome[c] \in Refusals => age[c] = 0
       /\ outcome[c] = "slot_timeout" => age[c] = Timeout
       /\ outcome[c] = "run_timeout" => age[c] >= Timeout

TimeInv == \A c \in Calls : TimeOf(c)

(* Every step preserves what a call's state says about its age.             *)
LEMMA TimeStep ==
  SlotInv /\ DataInv /\ TimeInv /\ [Next]_vars => TimeInv'
<1> SUFFICES ASSUME SlotInv, DataInv, TimeInv, [Next]_vars, NEW d \in Calls
             PROVE  TimeOf(d)'
  BY DEF TimeInv
<1> USE TimeAssumption DEF SlotInv, DataInv
<1>0. TimeOf(d)
  BY DEF TimeInv
<1>1. CASE UNCHANGED vars
  BY <1>0, <1>1 DEF vars, TimeOf
<1>2. ASSUME NEW c \in Calls, NEW k \in Keys, Call(c, k) PROVE TimeOf(d)'
  BY <1>0, <1>2 DEF Call, TimeOf, Refusals
<1>3. ASSUME NEW c \in Calls, Starts(c) PROVE TimeOf(d)'
  <2>1. CASE StartProcess(c) \/ StartFile(c)
    BY <1>0, <2>1 DEF StartProcess, StartFile, TimeOf
  <2>2. CASE Spawn(c)
    BY <1>0, <2>2 DEF Spawn, TimeOf
  <2> QED BY <1>3, <2>1, <2>2 DEF Starts
<1>4. ASSUME NEW c \in Calls, SlotTimeout(c) PROVE TimeOf(d)'
  BY <1>0, <1>4 DEF SlotTimeout, SlotDue, TimeOf, Refusals
<1>5. ASSUME NEW c \in Calls, NEW o, Ends(c, o) PROVE TimeOf(d)'
  <2>1. UNCHANGED <<elapsed, age>> /\ outcome' = [outcome EXCEPT ![c] = o]
    BY <1>5 DEF Ends, Return
  <2>2. CASE d = c
    <3>1. pc'[c] = "done" /\ outcome'[c] = o
      <4>1. queue # <<>> => Head(queue) # c
        BY <1>5, HeadIsWaiting DEF Ends, Holding
      <4> QED BY <1>5, <2>1, <4>1 DEF Ends, Return
    <3>2. age[c] <= 2 * Timeout
      BY <1>0, <1>5, <2>2 DEF Ends, TimeOf, Holding
    <3>3. o = "slot_timeout" => age[c] = Timeout
      BY <1>0, <1>5, <2>2 DEF Ends, TimeOf
    <3>4. o = "run_timeout" => age[c] >= Timeout
      BY <1>0, <1>5, <2>2 DEF Ends, TimeOf, RunDue, FileDue
    <3>5. o \notin Refusals
      BY <1>5 DEF Ends
    <3> QED BY <2>1, <2>2, <3>1, <3>2, <3>3, <3>4, <3>5 DEF TimeOf
  <2>3. CASE d # c
    <3>1. \/ pc'[d] = pc[d]
          \/ pc[d] = "queued" /\ pc'[d] = "granted"
      <4>1. queue # <<>> => pc[Head(queue)] = "queued"
        BY HeadIsWaiting
      <4> QED BY <1>5, <2>3, <4>1 DEF Ends, Return
    <3>2. outcome'[d] = outcome[d]
      BY <2>1, <2>3
    <3> QED BY <1>0, <2>1, <3>1, <3>2 DEF TimeOf
  <2> QED BY <2>2, <2>3
<1>6. ASSUME NEW c \in Calls, World(c) PROVE TimeOf(d)'
  BY <1>0, <1>6 DEF World, PipesEnd, ChildExits, KilledDies, TimeOf
<1>7. ASSUME NEW c \in Calls, Forget(c) PROVE TimeOf(d)'
  BY <1>0, <1>7 DEF Forget, TimeOf
<1>8. CASE Tick
  <2>1. pc' = pc /\ outcome' = outcome /\ Settled(d)
    BY <1>8 DEF Tick
  <2>2. /\ elapsed'[d] = IF pc[d] \in Timed THEN elapsed[d] + 1 ELSE elapsed[d]
        /\ age'[d] = IF pc[d] \in Covered THEN age[d] + 1 ELSE age[d]
    BY <1>8 DEF Tick, Later
  <2>3. pc[d] # "granted" /\ (pc[d] \in Covered => elapsed[d] + 1 <= Timeout)
    BY <2>1 DEF Settled, SlotDue, RunDue, FileDue, Covered
  <2> QED BY <1>0, <2>1, <2>2, <2>3 DEF TimeOf, Timed, Covered
<1> QED BY <1>1, <1>2, <1>3, <1>4, <1>5, <1>6, <1>7, <1>8, StepCases DEF Next

(* The invariant of the clock and the types hold in every state.            *)
LEMMA TimeAlways == Spec => [](TimeInv /\ DataInv)
<1>1. Init => TimeInv
  BY TimeAssumption DEF Init, TimeInv, TimeOf
<1>2. Init => DataInv
  BY DEF Init, DataInv, Outcomes
<1> QED BY <1>1, <1>2, SlotInit, SlotStep, DataStep, TimeStep, PTL DEF Spec

(* A call spends at most one timeout waiting and one running, whatever the  *)
(* children, the pipes and the lookups of other calls do; only its own      *)
(* program lookup comes on top.                                             *)
THEOREM CallsAreBoundedInTime == Spec => []TwoTimeouts
<1>1. ASSUME TimeInv, DataInv, SlotInv PROVE TwoTimeouts
  <2> SUFFICES ASSUME NEW c \in Calls PROVE age[c] <= 2 * Timeout
    BY DEF TwoTimeouts
  <2>1. TimeOf(c) /\ pc[c] \in States /\ age[c] \in Nat /\ elapsed[c] \in Nat
    BY <1>1 DEF TimeInv, DataInv, SlotInv
  <2> QED BY <2>1, TimeAssumption DEF TimeOf, States, Holding
<1> QED BY <1>1, TimeAlways, SlotInit, SlotStep, PTL DEF Spec

(* A refusal is immediate, and a timeout error is only given after the      *)
(* timeout it names has passed.                                             *)
THEOREM OutcomesAreTimely == Spec => []OutcomeTiming
<1>1. TimeInv => OutcomeTiming
  BY DEF TimeInv, TimeOf, OutcomeTiming
<1> QED BY <1>1, TimeAlways, PTL
-----------------------------------------------------------------------------
(* The order of the line.                                                   *)

(* A line that is sorted by age stays so when the newest joins, when anyone *)
(* leaves and when all grow older alike.                                    *)
LEMMA AgeStep ==
  SlotInv /\ DataInv /\ TimeInv /\ QueueByAge /\ [Next]_vars => QueueByAge'
<1> SUFFICES ASSUME SlotInv, DataInv, TimeInv, QueueByAge, [Next]_vars
             PROVE  QueueByAge'
  OBVIOUS
<1>0. /\ queue \in Seq(Calls) /\ Len(queue) \in Nat
      /\ \A i \in 1..Len(queue) : queue[i] \in Calls /\ pc[queue[i]] = "queued"
      /\ elapsed \in [Calls -> Nat]
  BY SlotFacts, LenProperties, ElementOfSeq DEF QueueIsWaiters, DataInv
<1>1. ASSUME queue' = queue, \A d \in Calls : pc[d] = "queued" => elapsed'[d] = elapsed[d]
      PROVE  QueueByAge'
  BY <1>0, <1>1 DEF QueueByAge
<1>2. ASSUME NEW c \in Calls, NEW k \in Keys, Call(c, k) PROVE QueueByAge'
  <2>1. UNCHANGED elapsed /\ elapsed[c] = 0
    BY <1>2 DEF Call, TimeInv, TimeOf
  <2>2. CASE queue' = queue
    BY <1>1, <2>1, <2>2
  <2>3. CASE queue' = Append(queue, c)
    <3>1. /\ Len(queue') = Len(queue) + 1
          /\ \A i \in 1..Len(queue) : queue'[i] = queue[i]
          /\ queue'[Len(queue) + 1] = c
      BY <1>0, <2>3, AppendProperties
    <3>2. \A i \in 1..Len(queue') : i \in 1..Len(queue) \/ i = Len(queue) + 1
      BY <1>0, <3>1
    <3>3. ASSUME NEW i \in 1..Len(queue'), NEW j \in 1..Len(queue'), i < j
          PROVE  elapsed[queue'[i]] >= elapsed[queue'[j]]
      <4>1. i \in 1..Len(queue)
        BY <1>0, <3>1, <3>3
      <4>2. CASE j \in 1..Len(queue)
        BY <3>1, <3>3, <4>1, <4>2 DEF QueueByAge
      <4>3. CASE j = Len(queue) + 1
        <5>1. queue'[i] \in Calls /\ queue'[j] = c
          BY <1>0, <3>1, <4>1, <4>3
        <5> QED BY <1>0, <2>1, <5>1
      <4> QED BY <3>2, <4>2, <4>3
    <3> QED BY <2>1, <3>3 DEF QueueByAge
  <2> QED BY <1>2, <2>2, <2>3 DEF Call, Join
<1>3. ASSUME NEW c \in Calls, Starts(c) PROVE QueueByAge'
  <2>1. queue' = queue /\ elapsed' = [elapsed EXCEPT ![c] = 0] /\ pc[c] # "queued"
    BY <1>3 DEF Starts, StartProcess, StartFile, Spawn
  <2> QED BY <1>0, <1>1, <2>1
<1>4. ASSUME NEW c \in Calls, SlotTimeout(c) PROVE QueueByAge'
  <2>1. UNCHANGED elapsed
    BY <1>4 DEF SlotTimeout
  <2>2. PICK n \in 1..Len(queue) : queue' = RemoveAt(queue, n)
    BY <1>4 DEF SlotTimeout
  <2>3. /\ Len(queue') = Len(queue) - 1
        /\ \A j \in 1..Len(queue') : queue'[j] = IF j < n THEN queue[j] ELSE queue[j + 1]
    BY <1>0, <2>2, RemoveAtProperties
  <2> DEFINE At(j) == IF j < n THEN j ELSE j + 1
  <2>4. \A j \in 1..Len(queue') : At(j) \in 1..Len(queue) /\ queue'[j] = queue[At(j)]
    BY <1>0, <2>3
  <2>5. \A i, j \in 1..Len(queue') : i < j => At(i) < At(j)
    BY <1>0, <2>3
  <2> HIDE DEF At
  <2> QED BY <2>1, <2>4, <2>5 DEF QueueByAge
<1>5. ASSUME NEW c \in Calls, NEW o, Ends(c, o) PROVE QueueByAge'
  <2>1. UNCHANGED elapsed
    BY <1>5 DEF Ends
  <2>2. CASE queue = <<>>
    BY <1>1, <1>5, <2>1, <2>2 DEF Ends, Return
  <2>3. CASE queue # <<>>
    <3>1. queue' = Tail(queue)
      BY <1>5, <2>3 DEF Ends, Return
    <3>2. /\ Len(queue) \in Nat \ {0} /\ Len(queue') = Len(queue) - 1
          /\ \A i \in 1..Len(queue') : queue'[i] = queue[i + 1]
      BY <1>0, <2>3, <3>1, HeadTailProperties, EmptySeq
    <3>3. \A i \in 1..Len(queue') : i + 1 \in 1..Len(queue)
      BY <3>2
    <3>4. \A i, j \in 1..Len(queue') : i < j => i + 1 < j + 1
      BY <3>2
    <3> QED BY <2>1, <3>2, <3>3, <3>4 DEF QueueByAge
  <2> QED BY <2>2, <2>3
<1>6. ASSUME NEW c \in Calls, World(c) PROVE QueueByAge'
  BY <1>1, <1>6 DEF World, PipesEnd, ChildExits, KilledDies
<1>7. ASSUME NEW c \in Calls, Forget(c) PROVE QueueByAge'
  <2>1. queue' = queue /\ elapsed' = [elapsed EXCEPT ![c] = 0] /\ pc[c] = "done"
    BY <1>7 DEF Forget
  <2> QED BY <1>0, <1>1, <2>1
<1>8. CASE Tick
  <2>1. queue' = queue /\ \A i \in 1..Len(queue) : elapsed'[queue[i]] = elapsed[queue[i]] + 1
    BY <1>0, <1>8 DEF Tick, Later, Timed, Covered
  <2>2. \A i \in 1..Len(queue) : elapsed[queue[i]] \in Nat
    BY <1>0
  <2> QED BY <2>1, <2>2 DEF QueueByAge
<1>9. CASE UNCHANGED vars
  BY <1>1, <1>9 DEF vars
<1> QED BY <1>2, <1>3, <1>4, <1>5, <1>6, <1>7, <1>8, <1>9, StepCases DEF Next

(* Whoever is further ahead in the semaphore's line has waited as long or   *)
(* longer, so slot timeouts strike from the head.                           *)
THEOREM LineIsByAge == Spec => []QueueByAge
<1>1. Init => QueueByAge
  <2> SUFFICES ASSUME Init PROVE QueueByAge
    OBVIOUS
  <2>1. Len(queue) = 0
    BY EmptySeq DEF Init
  <2>2. \A i \in 1..Len(queue) : FALSE
    BY <2>1
  <2> QED BY <2>2 DEF QueueByAge
<1> QED BY <1>1, AgeStep, TimeAlways, SlotInit, SlotStep, PTL DEF Spec

-----------------------------------------------------------------------------
(* The semaphore under timeouts, hand-overs and late grants implements a    *)
(* first-come, first-served pool.                                           *)

(* A waiter of the queue is in the pool's line.                             *)
LEMMA PoolLine ==
  ASSUME SlotInv, NEW c \in Calls
  PROVE  Pool!InLine(c) <=> pc[c] = "queued"
BY SlotFacts DEF Pool!InLine, QueueIsWaiters

(* The pool counts and removes as the runner does.                          *)
LEMMA PoolLibrary ==
  ASSUME NEW q, NEW i, NEW S
  PROVE  /\ Pool!RemoveAt(q, i) = RemoveAt(q, i)
         /\ Pool!Cardinality(S) = Cardinality(S)
<1>1. Pool!RemoveAt(q, i) = RemoveAt(q, i)
  BY DEF RemoveAt, Pool!RemoveAt
<1>2. Pool!Cardinality(S) = Cardinality(S)
  BY Zenon DEF Cardinality, Pool!Cardinality, ExistsBijection, Pool!ExistsBijection
<1> QED BY <1>1, <1>2

(* A return is a holder leaving the pool.                                   *)
LEMMA ReturnLeaves ==
  ASSUME SlotInv, NEW c \in Calls, pc[c] \in Holding, NEW o, Return(c, o)
  PROVE  Pool!Leave(c)
<1>1. /\ c \in Holders /\ "granted" \in Holding /\ "done" \notin Holding
      /\ "queued" \notin Holding /\ pc \in [Calls -> States]
  BY DEF Holders, Holding, SlotInv
<1>2. CASE queue = <<>>
  <2>1. Holders' = Holders \ {c} /\ queue' = queue
    BY <1>1, <1>2 DEF Return, Holders
  <2> QED BY <1>1, <1>2, <2>1 DEF Pool!Leave
<1>3. CASE queue # <<>>
  <2> DEFINE h == Head(queue)
  <2>1. pc' = [pc EXCEPT ![c] = "done", ![h] = "granted"] /\ queue' = Tail(queue)
    BY <1>3 DEF Return
  <2>2. h \in Calls /\ h # c
    BY <1>1, <1>3, HeadIsWaiting
  <2> HIDE DEF h
  <2>3. Holders' = (Holders \ {c}) \cup {h}
    BY <1>1, <2>1, <2>2 DEF Holders
  <2> QED BY <1>1, <1>3, <2>1, <2>3 DEF Pool!Leave, h
<1> QED BY <1>2, <1>3

(* A new call enters the pool, joins its line, or is none of its business.  *)
LEMMA CallEnters ==
  ASSUME SlotInv, NEW c \in Calls, NEW k \in Keys, Call(c, k)
  PROVE  Pool!Enter(c) \/ Pool!Queue(c) \/ UNCHANGED Pool!vars
<1>1. /\ pc[c] = "idle" /\ c \notin Holders /\ ~Pool!InLine(c)
      /\ "granted" \in Holding /\ "done" \notin Holding /\ "queued" \notin Holding
      /\ "idle" \notin Holding /\ pc \in [Calls -> States]
  BY PoolLine DEF Call, Holders, Holding, SlotInv
<1>2. /\ permits \in Nat /\ Cardinality(Holders) \in Nat
      /\ permits + Cardinality(Holders) = MaxSlots
      /\ queue # <<>> => permits = 0
  BY SlotFacts DEF SlotConservation, NoIdleSlot
<1>3. CASE pc' = [pc EXCEPT ![c] = "done"] /\ UNCHANGED queue
  <2>1. Holders' = Holders
    BY <1>1, <1>3 DEF Holders
  <2> QED BY <1>3, <2>1 DEF Pool!vars
<1>4. CASE permits > 0 /\ pc' = [pc EXCEPT ![c] = "granted"] /\ UNCHANGED queue
  <2>1. Holders' = Holders \cup {c}
    BY <1>1, <1>4 DEF Holders
  <2>2. Cardinality(Holders) < MaxSlots /\ queue = <<>>
    BY <1>2, <1>4
  <2> QED BY <1>1, <1>4, <2>1, <2>2, PoolLibrary DEF Pool!Enter
<1>5. CASE permits = 0 /\ pc' = [pc EXCEPT ![c] = "queued"] /\ queue' = Append(queue, c)
  <2>1. Holders' = Holders
    BY <1>1, <1>5 DEF Holders
  <2>2. Cardinality(Holders) = MaxSlots
    BY <1>2, <1>5
  <2> QED BY <1>1, <1>5, <2>1, <2>2, PoolLibrary DEF Pool!Queue
<1> QED BY <1>3, <1>4, <1>5 DEF Call, Join

(* Every step of the runner is a step of the pool or none.                  *)
LEMMA PoolStep == SlotInv /\ [Next]_vars => [Pool!Next]_(Pool!vars)
<1> SUFFICES ASSUME SlotInv, [Next]_vars PROVE Pool!Next \/ UNCHANGED Pool!vars
  OBVIOUS
<1>0. /\ pc \in [Calls -> States]
      /\ "done" \notin Holding /\ "queued" \notin Holding /\ "idle" \notin Holding
      /\ {"granted", "resolving", "running", "reading"} = Holding
  BY DEF SlotInv, Holding
<1>1. ASSUME queue' = queue, \A c \in Calls : pc[c] \in Holding <=> pc'[c] \in Holding
      PROVE  UNCHANGED Pool!vars
  BY <1>1 DEF Holders, Pool!vars
<1>2. ASSUME NEW c \in Calls, NEW k \in Keys, Call(c, k)
      PROVE  Pool!Next \/ UNCHANGED Pool!vars
  BY <1>2, CallEnters DEF Pool!Next
<1>3. ASSUME NEW c \in Calls, Starts(c) PROVE UNCHANGED Pool!vars
  BY <1>0, <1>1, <1>3 DEF Starts, StartProcess, StartFile, Spawn
<1>4. ASSUME NEW c \in Calls, SlotTimeout(c) PROVE Pool!Next
  <2>1. Holders' = Holders
    BY <1>0, <1>4 DEF SlotTimeout, SlotDue, Holders
  <2> QED BY <1>4, <2>1, PoolLibrary DEF SlotTimeout, SlotDue, Pool!GiveUp, Pool!Next
<1>5. ASSUME NEW c \in Calls, NEW o, Ends(c, o) PROVE Pool!Next
  BY <1>5, ReturnLeaves DEF Ends, Pool!Next
<1>6. ASSUME NEW c \in Calls, World(c) PROVE UNCHANGED Pool!vars
  BY <1>1, <1>6 DEF World, PipesEnd, ChildExits, KilledDies
<1>7. ASSUME NEW c \in Calls, Forget(c) PROVE UNCHANGED Pool!vars
  BY <1>0, <1>1, <1>7 DEF Forget
<1>8. CASE Tick
  BY <1>1, <1>8 DEF Tick
<1>9. CASE UNCHANGED vars
  BY <1>1, <1>9 DEF vars
<1> QED BY <1>2, <1>3, <1>4, <1>5, <1>6, <1>7, <1>8, <1>9, StepCases DEF Next

(* run_spec's semaphore is a first-come, first-served pool of MaxSlots      *)
(* slots: a hand-over that comes too late passes on in the same step, and   *)
(* nobody is overtaken.                                                     *)
THEOREM RunnerImplementsPool == Spec => ImplementsSlotPool
<1>1. Init => Pool!Init
  BY DEF Init, Pool!Init, Holders, Holding
<1> QED BY <1>1, SlotInit, SlotStep, PoolStep, PTL DEF Spec, ImplementsSlotPool, Pool!Spec
=============================================================================
