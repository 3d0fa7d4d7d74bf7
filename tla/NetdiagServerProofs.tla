------------------------- MODULE NetdiagServerProofs -------------------------
(* Theorems about NetdiagServer and its journal for every set of requests,  *)
(* every number of crashes and of failed writes, with degraded mode or not. *)
EXTENDS NetdiagServer, SharedLemmas

(* What the two rows of a call are.                                         *)
LEMMA RowTypes ==
  ASSUME NEW r \in Requests, result \in [Requests -> Results \cup {NoResult}]
  PROVE  /\ CallRow(r) \in Rows /\ CallRow(r).req = r /\ CallRow(r).dir = "call"
         /\ ResultRow(r) \in Rows /\ ResultRow(r).req = r /\ ResultRow(r).dir = "result"
BY DEF CallRow, ResultRow, Rows

(* The line of the mutex, its parts of the type invariant, and the row that *)
(* its head is writing.                                                     *)
InFlight ==
  inflight # NoRow =>
    /\ line # <<>>
    /\ \/ stage[Head(line)] = "call_row"   /\ inflight = CallRow(Head(line))
       \/ stage[Head(line)] = "result_row" /\ inflight = ResultRow(Head(line))

LineInv == TypeOK /\ MutexLine /\ InFlight

(* A request that was not in line joins its end.                            *)
LEMMA LockKeepsLine ==
  ASSUME TypeOK, NEW r \in Requests, Lock(r),
         \A i, j \in DOMAIN line : line[i] = line[j] => i = j,
         r \notin {line[i] : i \in DOMAIN line}
  PROVE  /\ line' \in Seq(Requests)
         /\ line # <<>> => line' # <<>> /\ Head(line') = Head(line)
         /\ \A i, j \in DOMAIN line' : line'[i] = line'[j] => i = j
         /\ {line'[i] : i \in DOMAIN line'} = {line[i] : i \in DOMAIN line} \cup {r}
<1>1. line \in Seq(Requests) /\ DOMAIN line = 1..Len(line)
  BY LenProperties DEF TypeOK
<1>2. IsLine(line, Requests) /\ r \notin InLine(line) /\ line' = Append(line, r)
  BY <1>1 DEF IsLine, InLine, Lock
<1>3. /\ IsLine(line', Requests) /\ InLine(line') = InLine(line) \cup {r}
      /\ line' # <<>>
      /\ line # <<>> => Head(line') = Head(line)
  BY <1>2, LineAppended
<1>4. DOMAIN line' = 1..Len(line')
  BY <1>3, LenProperties DEF IsLine
<1> QED BY <1>1, <1>3, <1>4 DEF IsLine, InLine

(* The head of the line leaves it.                                          *)
LEMMA SettleKeepsLine ==
  ASSUME TypeOK, NEW r \in Requests, line # <<>>, Head(line) = r, line' = Tail(line),
         \A i, j \in DOMAIN line : line[i] = line[j] => i = j
  PROVE  /\ line' \in Seq(Requests)
         /\ \A i, j \in DOMAIN line' : line'[i] = line'[j] => i = j
         /\ {line'[i] : i \in DOMAIN line'} = {line[i] : i \in DOMAIN line} \ {r}
<1>1. line \in Seq(Requests) /\ DOMAIN line = 1..Len(line)
  BY LenProperties DEF TypeOK
<1>2. IsLine(line, Requests)
  BY <1>1 DEF IsLine
<1>3. IsLine(line', Requests) /\ InLine(line') = InLine(line) \ {r}
  BY <1>2, LineTail
<1>4. DOMAIN line' = 1..Len(line')
  BY <1>3, LenProperties DEF IsLine
<1> QED BY <1>1, <1>3, <1>4 DEF IsLine, InLine

-----------------------------------------------------------------------------
(* Types and the line.                                                      *)

(* The calls that want the mutex.                                           *)
Logging == {r \in Requests : stage[r] \in {"call_row", "result_row"}}

(* A step that leaves the journal alone and moves no call into or out of it.*)
LEMMA LineKept ==
  ASSUME LineInv, UNCHANGED journalVars, TypeOK',
         \A r \in Requests : stage[r] \in {"call_row", "result_row"}
                               => stage'[r] = stage[r] /\ result'[r] = result[r],
         \A r \in Requests : stage'[r] \in {"call_row", "result_row"}
                               => stage[r] \in {"call_row", "result_row"}
  PROVE  LineInv'
<1>1. Logging' = Logging
  BY DEF Logging
<1>2. line' = line /\ inflight' = inflight
  BY DEF journalVars
<1>3. MutexLine'
  BY <1>1, <1>2 DEF LineInv, MutexLine, Logging
<1>4. InFlight'
  <2>1. line # <<>> => Head(line) \in Requests
    BY HeadTailProperties DEF LineInv, TypeOK
  <2> QED BY <1>2, <2>1 DEF LineInv, InFlight, CallRow, ResultRow
<1> QED BY <1>3, <1>4 DEF LineInv

(* A call that starts to log.                                               *)
LEMMA LineJoined ==
  ASSUME LineInv, NEW r \in Requests, stage[r] \notin {"call_row", "result_row"},
         Lock(r), NEW s \in {"call_row", "result_row"},
         stage' = [stage EXCEPT ![r] = s],
         \A q \in Requests : q # r => result'[q] = result[q], TypeOK'
  PROVE  LineInv'
<1>1. r \notin {line[i] : i \in DOMAIN line}
  BY DEF LineInv, MutexLine
<1>2. /\ line # <<>> => line' # <<>> /\ Head(line') = Head(line)
      /\ \A i, j \in DOMAIN line' : line'[i] = line'[j] => i = j
      /\ {line'[i] : i \in DOMAIN line'} = {line[i] : i \in DOMAIN line} \cup {r}
  BY <1>1, LockKeepsLine DEF LineInv, MutexLine
<1>3. Logging' = Logging \cup {r}
  BY DEF LineInv, TypeOK, Logging
<1>4. inflight' = inflight
  BY DEF Lock
<1>5. line # <<>> => Head(line) \in Requests /\ Head(line) # r
  <2>1. SUFFICES ASSUME line # <<>> PROVE Head(line) \in Requests /\ Head(line) # r
    OBVIOUS
  <2>2. line \in Seq(Requests)
    BY DEF LineInv, TypeOK
  <2>3. Head(line) = line[1] /\ 1 \in DOMAIN line
    BY <2>1, <2>2, EmptySeq, LenProperties
  <2> QED BY <1>1, <2>1, <2>2, <2>3, HeadTailProperties
<1>6. MutexLine'
  BY <1>2, <1>3, <1>4 DEF LineInv, MutexLine, Logging
<1>7. InFlight'
  BY <1>2, <1>4, <1>5 DEF LineInv, InFlight, CallRow, ResultRow, TypeOK
<1> QED BY <1>6, <1>7 DEF LineInv

(* The head has its row settled and goes on.                                *)
LEMMA LineLeft ==
  ASSUME LineInv, NEW r \in Requests, Logged(r), TypeOK'
  PROVE  LineInv'
<1>1. /\ line # <<>> /\ Head(line) = r /\ line' = Tail(line) /\ inflight' = NoRow
      /\ stage' \in {[stage EXCEPT ![r] = "dispatch"], [stage EXCEPT ![r] = "respond"]}
  BY DEF Logged, Settle
<1>2. /\ \A i, j \in DOMAIN line' : line'[i] = line'[j] => i = j
      /\ {line'[i] : i \in DOMAIN line'} = {line[i] : i \in DOMAIN line} \ {r}
  BY <1>1, SettleKeepsLine DEF LineInv, MutexLine
<1>3. Logging' = Logging \ {r}
  BY <1>1 DEF LineInv, TypeOK, Logging
<1> QED BY <1>1, <1>2, <1>3 DEF LineInv, MutexLine, Logging, InFlight

(* Every step keeps every variable in its type.                             *)
LEMMA TypeStep == TypeOK /\ MutexLine /\ [Next]_vars => TypeOK'
<1> SUFFICES ASSUME TypeOK, MutexLine, [Next]_vars PROVE TypeOK'
  OBVIOUS
<1> USE DEF TypeOK
<1>1. ASSUME NEW r \in Requests, Receive(r) PROVE TypeOK'
  <2>1. CASE journal
    <3>1. Lock(r) /\ stage' = [stage EXCEPT ![r] = "call_row"] /\ audited' = audited \cup {r}
      BY <1>1, <2>1 DEF Receive
    <3>2. line' \in Seq(Requests)
      BY <3>1, AppendProperties DEF Lock
    <3> QED BY <1>1, <3>1, <3>2 DEF Receive, Lock, Stages, InProgress
  <2>2. CASE ~journal
    BY <1>1, <2>2 DEF Receive, journalVars, Stages, InProgress
  <2> QED BY <2>1, <2>2
<1>2. ASSUME NEW r \in Requests, LogRow(r) PROVE TypeOK'
  BY <1>2, RowTypes DEF LogRow, Write, serverVars
<1>3. ASSUME NEW r \in Requests, Logged(r) PROVE TypeOK'
  <2>1. line' \in Seq(Requests)
    BY <1>3, HeadTailProperties DEF Logged, Settle
  <2>2. inflight \in Rows
    BY <1>3 DEF Logged, Settle
  <2>3. /\ file' \in Seq([row : Rows, part : Parts])
        /\ warned' \subseteq Rows
        /\ faults' \in 0..MaxFaults
    <3>1. [row |-> inflight, part |-> "whole"] \in [row : Rows, part : Parts]
          /\ [row |-> inflight, part |-> "torn"] \in [row : Rows, part : Parts]
      BY <2>2 DEF Parts
    <3>2. /\ Append(file, [row |-> inflight, part |-> "whole"]) \in Seq([row : Rows, part : Parts])
          /\ Append(file, [row |-> inflight, part |-> "torn"]) \in Seq([row : Rows, part : Parts])
      BY <3>1, AppendProperties
    <3>3. file' = file \/ file' = Append(file, [row |-> inflight, part |-> "whole"])
                       \/ file' = Append(file, [row |-> inflight, part |-> "torn"])
      BY <1>3 DEF Logged, Settle
    <3>4. warned' = warned \/ warned' = warned \cup {inflight}
      BY <1>3 DEF Logged, Settle
    <3>5. faults' = faults \/ (faults < MaxFaults /\ faults' = faults + 1)
      BY <1>3 DEF Logged, Settle
    <3>6. faults' \in 0..MaxFaults
      BY <3>5, BoundsAssumption
    <3> QED BY <2>2, <3>2, <3>3, <3>4, <3>6
  <2>4. stage' \in [Requests -> Stages]
    BY <1>3 DEF Logged, Stages, InProgress
  <2> QED BY <1>3, <2>1, <2>3, <2>4 DEF Logged, Settle
<1>4. ASSUME NEW r \in Requests, NEW o \in Results, ToolReturns(r, o),
             UNCHANGED <<up, journal, crashes, audited, ran>>
      PROVE  TypeOK'
  <2>1. result' \in [Requests -> Results \cup {NoResult}]
    BY <1>4 DEF ToolReturns
  <2>2. stage' \in [Requests -> Stages]
    BY <1>4 DEF ToolReturns, Stages, InProgress
  <2>3. line' \in Seq(Requests)
    <3>1. line' = line \/ line' = Append(line, r)
      BY <1>4 DEF ToolReturns, Lock, journalVars
    <3> QED BY <3>1, AppendProperties
  <2> QED BY <1>4, <2>1, <2>2, <2>3 DEF ToolReturns, Lock, journalVars
<1>5. ASSUME NEW r \in Requests, Reject(r) PROVE TypeOK'
  BY <1>4, <1>5 DEF Reject, Results
<1>6. ASSUME NEW r \in Requests, Run(r) PROVE TypeOK'
  BY <1>6 DEF Run, journalVars, Stages, InProgress
<1>7. ASSUME NEW r \in Requests, RunReturns(r) PROVE TypeOK'
  BY <1>4, <1>7 DEF RunReturns, Results
<1>8. ASSUME NEW r \in Requests, Respond(r) PROVE TypeOK'
  BY <1>8 DEF Respond, journalVars, Stages
<1>9. CASE Crash
  <2>1. stage' \in [Requests -> Stages]
    BY <1>9 DEF Crash, Stages
  <2>2. crashes' \in 0..MaxCrashes
    BY <1>9, BoundsAssumption DEF Crash
  <2>3. file' \in Seq([row : Rows, part : Parts])
    <3>1. CASE file' = file
      BY <3>1
    <3>2. CASE file' # file
      <4>1. PICK p \in Parts : inflight # NoRow /\ file' = Append(file, [row |-> inflight, part |-> p])
        BY <1>9, <3>2 DEF Crash, JournalCrash, Parts
      <4>2. [row |-> inflight, part |-> p] \in [row : Rows, part : Parts]
        BY <4>1
      <4> QED BY <4>1, <4>2, AppendProperties
    <3> QED BY <3>1, <3>2
  <2>4. line' = <<>> /\ line' \in Seq(Requests) /\ inflight' = NoRow
    BY <1>9, EmptySeq DEF Crash, JournalCrash
  <2> QED BY <1>9, <2>1, <2>2, <2>3, <2>4 DEF Crash, JournalCrash
<1>10. CASE Restart
  BY <1>10 DEF Restart, Opened, journalVars
<1>11. CASE UNCHANGED vars
  BY <1>11 DEF vars, serverVars, journalVars
<1> QED
  BY <1>1, <1>2, <1>3, <1>5, <1>6, <1>7, <1>8, <1>9, <1>10, <1>11
  DEF Next, Handle, Finish

LEMMA LineInit == Init => LineInv
<1> SUFFICES ASSUME Init PROVE LineInv
  OBVIOUS
<1>1. /\ line = <<>> /\ line \in Seq(Requests) /\ DOMAIN line = {}
      /\ file = <<>> /\ file \in Seq([row : Rows, part : Parts])
  BY EmptySeq, LenProperties DEF Init, JournalInit
<1>2. TypeOK
  <2>1. journal \in BOOLEAN
    BY DEF Init, Opened
  <2>2. stage \in [Requests -> Stages] /\ result \in [Requests -> Results \cup {NoResult}]
    BY DEF Init, Stages
  <2>3. crashes \in 0..MaxCrashes /\ faults \in 0..MaxFaults
    BY BoundsAssumption DEF Init, JournalInit
  <2> QED BY <1>1, <2>1, <2>2, <2>3 DEF Init, JournalInit, TypeOK
<1>3. {line[i] : i \in DOMAIN line} = {} /\ \A r \in Requests : stage[r] = "new"
  BY <1>1 DEF Init
<1> QED BY <1>1, <1>2, <1>3 DEF LineInv, MutexLine, InFlight, Init, JournalInit

LEMMA LineStep == LineInv /\ [Next]_vars => LineInv'
<1> SUFFICES ASSUME LineInv, [Next]_vars PROVE LineInv'
  OBVIOUS
<1>1. TypeOK' /\ TypeOK
  BY TypeStep DEF LineInv
<1>2. ASSUME NEW r \in Requests, Receive(r) PROVE LineInv'
  <2>1. CASE journal
    BY <1>1, <1>2, <2>1, LineJoined DEF Receive
  <2>2. CASE ~journal
    BY <1>1, <1>2, <2>2, LineKept DEF Receive, TypeOK
  <2> QED BY <2>1, <2>2
<1>3. ASSUME NEW r \in Requests, LogRow(r) PROVE LineInv'
  <2>1. /\ line # <<>> /\ Head(line) = r /\ line' = line
        /\ UNCHANGED serverVars
        /\ \/ stage[r] = "call_row" /\ inflight' = CallRow(r)
           \/ stage[r] = "result_row" /\ inflight' = ResultRow(r)
    BY <1>3 DEF LogRow, Write
  <2>2. CallRow(r)' = CallRow(r) /\ ResultRow(r)' = ResultRow(r)
    BY <2>1 DEF CallRow, ResultRow, serverVars
  <2>3. MutexLine'
    BY <1>1, <2>1, RowTypes DEF LineInv, MutexLine, serverVars, TypeOK
  <2>4. InFlight'
    BY <2>1, <2>2 DEF InFlight, serverVars
  <2> QED BY <1>1, <2>3, <2>4 DEF LineInv
<1>4. ASSUME NEW r \in Requests, Logged(r) PROVE LineInv'
  BY <1>1, <1>4, LineLeft
<1>5. ASSUME NEW r \in Requests, NEW o, stage[r] \in {"dispatch", "run"}, ToolReturns(r, o)
      PROVE  LineInv'
  <2>1. \A q \in Requests : q # r => result'[q] = result[q]
    BY <1>1, <1>5 DEF ToolReturns, TypeOK
  <2>2. CASE journal
    BY <1>1, <1>5, <2>1, <2>2, LineJoined DEF ToolReturns
  <2>3. CASE ~journal
    BY <1>1, <1>5, <2>1, <2>3, LineKept DEF ToolReturns, TypeOK
  <2> QED BY <2>2, <2>3
<1>6. ASSUME NEW r \in Requests, Reject(r) \/ RunReturns(r) PROVE LineInv'
  BY <1>5, <1>6 DEF Reject, RunReturns
<1>7. ASSUME NEW r \in Requests, Run(r) \/ Respond(r) PROVE LineInv'
  BY <1>1, <1>7, LineKept DEF Run, Respond, TypeOK
<1>8. CASE Crash
  <2>1. line' = <<>> /\ DOMAIN line' = {} /\ inflight' = NoRow
    BY <1>8, EmptySeq, LenProperties DEF Crash, JournalCrash
  <2>2. \A r \in Requests : stage'[r] \notin {"call_row", "result_row"}
    BY <1>1, <1>8 DEF Crash, InProgress, TypeOK
  <2>3. {line'[i] : i \in DOMAIN line'} = {}
    BY <2>1
  <2> QED BY <1>1, <2>1, <2>2, <2>3 DEF LineInv, MutexLine, InFlight
<1>9. CASE Restart
  BY <1>1, <1>9, LineKept DEF Restart
<1>10. CASE UNCHANGED vars
  BY <1>1, <1>10, LineKept DEF vars, serverVars
<1> QED
  BY <1>2, <1>3, <1>4, <1>6, <1>7, <1>8, <1>9, <1>10 DEF Next, Handle, Finish

(* Whatever fails or stops, every variable keeps its type and the mutex     *)
(* line is the calls that log, one of them writing (log, call_tool).        *)
THEOREM LineSafety == Spec => [](TypeOK /\ MutexLine)
<1>1. LineInv => TypeOK /\ MutexLine
  BY DEF LineInv
<1> QED BY LineInit, LineStep, <1>1, PTL DEF Spec

-----------------------------------------------------------------------------
(* What a step may do to a call and to the file.                            *)
Announced == {"dispatch", "run", "result_row", "respond", "answered"}
Concluded == {"respond", "answered"}

(* Where a call is, whether it is audited and whether its diagnostic ran.   *)
StateInv ==
  /\ ~up => \A r \in Requests : stage[r] \notin InProgress
  /\ \A r \in audited : stage[r] # "new" /\ (stage[r] \in InProgress => journal)
  /\ \A r \in ran : stage[r] \notin {"new", "call_row"}

LEMMA StateStep == TypeOK /\ StateInv /\ [Next]_vars => StateInv'
<1> SUFFICES ASSUME TypeOK, StateInv, [Next]_vars PROVE StateInv'
  OBVIOUS
<1> USE DEF TypeOK, StateInv, InProgress
<1>1. ASSUME NEW r \in Requests, Receive(r) PROVE StateInv'
  BY <1>1 DEF Receive
<1>2. ASSUME NEW r \in Requests, LogRow(r) PROVE StateInv'
  BY <1>2 DEF LogRow, serverVars
<1>3. ASSUME NEW r \in Requests, Logged(r) PROVE StateInv'
  BY <1>3 DEF Logged
<1>4. ASSUME NEW r \in Requests, Reject(r) \/ RunReturns(r) PROVE StateInv'
  BY <1>4 DEF Reject, RunReturns, ToolReturns
<1>5. ASSUME NEW r \in Requests, Run(r) \/ Respond(r) PROVE StateInv'
  BY <1>5 DEF Run, Respond
<1>6. CASE Crash
  BY <1>6 DEF Crash
<1>7. CASE Restart
  BY <1>7 DEF Restart
<1>8. CASE UNCHANGED vars
  BY <1>8 DEF vars, serverVars
<1> QED BY <1>1, <1>2, <1>3, <1>4, <1>5, <1>6, <1>7, <1>8 DEF Next, Handle, Finish

(* No call goes back to its call row, or from its answer to its result row. *)
LEMMA StageStep ==
  ASSUME TypeOK, [Next]_vars, NEW r \in Requests
  PROVE  /\ stage[r] \notin {"new", "call_row"} => stage'[r] \notin {"new", "call_row"}
         /\ stage[r] \in {"respond", "answered", "lost"}
              => stage'[r] \in {"respond", "answered", "lost"}
<1> USE DEF TypeOK, InProgress
<1>1. ASSUME NEW q \in Requests, Receive(q) \/ Handle(q) \/ Logged(q)
      PROVE  /\ stage'[r] = stage[r] \/ stage'[r] \notin {"new", "call_row"}
                                      \/ stage[r] = "new"
             /\ stage[r] \in {"respond", "answered", "lost"}
                  => stage'[r] \in {"respond", "answered", "lost"}
  <2>1. CASE Receive(q)
    BY <2>1 DEF Receive
  <2>2. CASE LogRow(q)
    BY <2>2 DEF LogRow, serverVars
  <2>3. CASE Reject(q) \/ RunReturns(q)
    BY <2>3 DEF Reject, RunReturns, ToolReturns
  <2>4. CASE Run(q) \/ Respond(q)
    BY <2>4 DEF Run, Respond
  <2>5. CASE Logged(q)
    BY <2>5 DEF Logged
  <2> QED BY <1>1, <2>1, <2>2, <2>3, <2>4, <2>5 DEF Handle
<1>2. CASE Crash
  BY <1>2 DEF Crash
<1>3. CASE Restart
  BY <1>3 DEF Restart
<1>4. CASE UNCHANGED vars
  BY <1>4 DEF vars, serverVars
<1> QED BY <1>1, <1>2, <1>3, <1>4 DEF Next, Finish

(* The file only grows, by the row in flight, whose call then leaves it     *)
(* behind; and what was warned about stays so.                              *)
LEMMA FileStep ==
  ASSUME LineInv, [Next]_vars
  PROVE  /\ warned \subseteq warned'
         /\ \/ file' = file
            \/ \E h \in Requests, row \in Rows, p \in Parts :
                 /\ file' = Append(file, [row |-> row, part |-> p])
                 /\ \/ /\ stage[h] = "call_row" /\ row = CallRow(h)
                       /\ stage'[h] \in {"dispatch", "lost"}
                    \/ /\ stage[h] = "result_row" /\ row = ResultRow(h)
                       /\ stage'[h] \in {"respond", "lost"}
<1> USE DEF LineInv, TypeOK
<1>1. ASSUME NEW r \in Requests, Logged(r)
      PROVE  /\ warned \subseteq warned'
             /\ \/ file' = file
                \/ \E p \in Parts : file' = Append(file, [row |-> inflight, part |-> p])
             /\ inflight # NoRow /\ Head(line) = r
             /\ stage[r] = "call_row" => stage'[r] = "dispatch"
             /\ stage[r] = "result_row" => stage'[r] = "respond"
  BY <1>1 DEF Logged, Settle, Parts
<1>2. ASSUME Crash
      PROVE  /\ warned' = warned
             /\ \/ file' = file
                \/ /\ inflight # NoRow
                   /\ \E p \in Parts : file' = Append(file, [row |-> inflight, part |-> p])
             /\ \A h \in Requests : stage[h] \in {"call_row", "result_row"} => stage'[h] = "lost"
  <2>1. \A h \in Requests : stage[h] \in {"call_row", "result_row"} => stage'[h] = "lost"
    BY <1>2 DEF Crash, InProgress
  <2>2. warned' = warned
    BY <1>2 DEF Crash, JournalCrash
  <2>3. \/ file' = file
        \/ /\ inflight # NoRow
           /\ \E p \in Parts : file' = Append(file, [row |-> inflight, part |-> p])
    BY <1>2 DEF Crash, JournalCrash, Parts
  <2> QED BY <2>1, <2>2, <2>3
<1>3. line # <<>> => Head(line) \in Requests
  BY HeadTailProperties
<1>4. CASE \E r \in Requests : Logged(r)
  <2>1. PICK r \in Requests : Logged(r)
    BY <1>4
  <2>2. CASE file' = file
    BY <1>1, <2>1, <2>2
  <2>3. CASE file' # file
    <3>1. PICK p \in Parts : file' = Append(file, [row |-> inflight, part |-> p])
      BY <1>1, <2>1, <2>3
    <3>2. /\ inflight \in Rows
          /\ \/ stage[r] = "call_row"   /\ inflight = CallRow(r) /\ stage'[r] = "dispatch"
             \/ stage[r] = "result_row" /\ inflight = ResultRow(r) /\ stage'[r] = "respond"
      BY <1>1, <2>1 DEF InFlight
    <3> QED BY <1>1, <2>1, <3>1, <3>2
  <2> QED BY <2>2, <2>3
<1>5. CASE Crash
  <2>1. CASE file' = file
    BY <1>2, <1>5, <2>1
  <2>2. CASE file' # file
    <3>1. inflight # NoRow
      BY <1>2, <1>5, <2>2
    <3>2. PICK p \in Parts : file' = Append(file, [row |-> inflight, part |-> p])
      BY <1>2, <1>5, <2>2
    <3> DEFINE h == Head(line)
    <3>3. /\ inflight \in Rows /\ h \in Requests
          /\ \/ stage[h] = "call_row"   /\ inflight = CallRow(h)
             \/ stage[h] = "result_row" /\ inflight = ResultRow(h)
      BY <1>3, <3>1 DEF InFlight
    <3>4. stage'[h] = "lost"
      BY <1>2, <1>5, <3>3
    <3> HIDE DEF h
    <3> QED BY <1>2, <1>5, <3>2, <3>3, <3>4
  <2> QED BY <2>1, <2>2
<1>6. ASSUME NEW r \in Requests, Receive(r) \/ Handle(r) PROVE UNCHANGED <<warned, file>>
  <2>1. CASE Receive(r)
    BY <2>1 DEF Receive, Lock, journalVars
  <2>2. CASE LogRow(r)
    BY <2>2 DEF LogRow, Write
  <2>3. CASE Reject(r) \/ RunReturns(r)
    BY <2>3 DEF Reject, RunReturns, ToolReturns, Lock, journalVars
  <2>4. CASE Run(r) \/ Respond(r)
    BY <2>4 DEF Run, Respond, journalVars
  <2> QED BY <1>6, <2>1, <2>2, <2>3, <2>4 DEF Handle
<1>7. CASE Restart \/ UNCHANGED vars
  BY <1>7 DEF Restart, vars, journalVars
<1> QED BY <1>4, <1>5, <1>6, <1>7 DEF Next, Finish

-----------------------------------------------------------------------------
(* The rows of a call are on record, or were warned about.                  *)
Recorded(row) == HasRow(row) \/ row \in warned

BothRecorded(r) ==
  \/ CallRow(r) \in warned
  \/ ResultRow(r) \in warned
  \/ \E i, j \in DOMAIN file :
       /\ i < j
       /\ file[i] = [row |-> CallRow(r), part |-> "whole"]
       /\ file[j] = [row |-> ResultRow(r), part |-> "whole"]

RecordInv ==
  /\ \A r \in audited : stage[r] \in Announced \/ r \in ran => Recorded(CallRow(r))
  /\ \A r \in audited : stage[r] \in Concluded => BothRecorded(r)

(* Every piece of the file stays where it is.                               *)
LEMMA PiecesStay ==
  ASSUME LineInv, [Next]_vars
  PROVE  \A i \in DOMAIN file : i \in DOMAIN file' /\ file'[i] = file[i]
<1>1. file \in Seq([row : Rows, part : Parts])
  BY DEF LineInv, TypeOK
<1>2. ASSUME NEW row \in Rows, NEW p \in Parts, file' = Append(file, [row |-> row, part |-> p])
      PROVE  \A i \in DOMAIN file : i \in DOMAIN file' /\ file'[i] = file[i]
  <2>1. [row |-> row, part |-> p] \in [row : Rows, part : Parts]
    OBVIOUS
  <2>2. /\ file' \in Seq([row : Rows, part : Parts])
        /\ Len(file') = Len(file) + 1
        /\ \A i \in 1..Len(file) : file'[i] = file[i]
    BY <1>1, <1>2, <2>1, AppendProperties
  <2>3. Len(file) \in Nat /\ DOMAIN file = 1..Len(file) /\ DOMAIN file' = 1..Len(file) + 1
    BY <1>1, <2>2, LenProperties
  <2> QED BY <2>2, <2>3
<1> QED BY <1>2, FileStep

LEMMA RecordsStay ==
  ASSUME LineInv, [Next]_vars, NEW r \in Requests
  PROVE  /\ Recorded(CallRow(r)) => Recorded(CallRow(r))'
         /\ result'[r] = result[r] /\ BothRecorded(r) => BothRecorded(r)'
<1>1. CallRow(r)' = CallRow(r) /\ (result'[r] = result[r] => ResultRow(r)' = ResultRow(r))
  BY DEF CallRow, ResultRow
<1>2. warned \subseteq warned'
  BY FileStep
<1>3. ASSUME Recorded(CallRow(r)) PROVE Recorded(CallRow(r))'
  BY <1>1, <1>2, <1>3, PiecesStay DEF Recorded, HasRow
<1>4. ASSUME result'[r] = result[r], BothRecorded(r) PROVE BothRecorded(r)'
  <2>1. ResultRow(r)' = ResultRow(r)
    BY <1>1, <1>4
  <2>2. CASE CallRow(r) \in warned \/ ResultRow(r) \in warned
    BY <1>1, <1>2, <2>1, <2>2 DEF BothRecorded
  <2>3. CASE ~(CallRow(r) \in warned \/ ResultRow(r) \in warned)
    <3>1. PICK i \in DOMAIN file, j \in DOMAIN file :
            /\ i < j
            /\ file[i] = [row |-> CallRow(r), part |-> "whole"]
            /\ file[j] = [row |-> ResultRow(r), part |-> "whole"]
      BY <1>4, <2>3 DEF BothRecorded
    <3>2. /\ i \in DOMAIN file' /\ j \in DOMAIN file'
          /\ file'[i] = [row |-> CallRow(r)', part |-> "whole"]
          /\ file'[j] = [row |-> ResultRow(r)', part |-> "whole"]
      BY <1>1, <2>1, <3>1, PiecesStay
    <3> QED BY <3>1, <3>2 DEF BothRecorded
  <2> QED BY <2>2, <2>3
<1> QED BY <1>3, <1>4

(* The one step that adds to what must be on record.                        *)
LEMMA LoggedRecords ==
  ASSUME LineInv, RecordInv, NEW r \in Requests, Logged(r)
  PROVE  /\ stage[r] = "call_row" => Recorded(CallRow(r))'
         /\ stage[r] = "result_row" /\ r \in audited => BothRecorded(r)'
<1>1. file \in Seq([row : Rows, part : Parts])
  BY DEF LineInv, TypeOK
<1>2. /\ Head(line) = r /\ line # <<>> /\ inflight # NoRow /\ inflight \in Rows
      /\ result' = result
      /\ \/ file' = Append(file, [row |-> inflight, part |-> "whole"]) /\ warned' = warned
         \/ warned' = warned \cup {inflight}
  BY DEF Logged, Settle, LineInv, TypeOK
<1>3. CallRow(r)' = CallRow(r) /\ ResultRow(r)' = ResultRow(r)
  BY <1>2 DEF CallRow, ResultRow
<1>4. /\ stage[r] = "call_row" => inflight = CallRow(r)
      /\ stage[r] = "result_row" => inflight = ResultRow(r)
  BY <1>2 DEF LineInv, InFlight
<1>5. ASSUME file' = Append(file, [row |-> inflight, part |-> "whole"])
      PROVE  \E j \in DOMAIN file' :
               /\ file'[j] = [row |-> inflight, part |-> "whole"]
               /\ \A i \in DOMAIN file : i < j /\ i \in DOMAIN file' /\ file'[i] = file[i]
  <2>1. [row |-> inflight, part |-> "whole"] \in [row : Rows, part : Parts]
    BY <1>2 DEF Parts
  <2>2. /\ file' \in Seq([row : Rows, part : Parts])
        /\ Len(file') = Len(file) + 1
        /\ \A i \in 1..Len(file) : file'[i] = file[i]
        /\ file'[Len(file) + 1] = [row |-> inflight, part |-> "whole"]
    BY <1>1, <1>5, <2>1, AppendProperties
  <2>3. Len(file) \in Nat /\ DOMAIN file = 1..Len(file) /\ DOMAIN file' = 1..Len(file) + 1
    BY <1>1, <2>2, LenProperties
  <2>4. Len(file) + 1 \in DOMAIN file' /\ \A i \in DOMAIN file : i < Len(file) + 1
    BY <2>3
  <2> QED BY <2>2, <2>3, <2>4
<1>6. ASSUME stage[r] = "call_row" PROVE Recorded(CallRow(r))'
  BY <1>2, <1>3, <1>4, <1>5, <1>6 DEF Recorded, HasRow
<1>7. ASSUME stage[r] = "result_row", r \in audited PROVE BothRecorded(r)'
  <2>1. Recorded(CallRow(r)) /\ inflight = ResultRow(r)
    BY <1>4, <1>7 DEF RecordInv, Announced
  <2>2. CASE warned' = warned \cup {inflight}
    BY <1>3, <2>1, <2>2 DEF BothRecorded
  <2>3. CASE CallRow(r) \in warned
    BY <1>2, <1>3, <2>3 DEF BothRecorded
  <2>4. CASE HasRow(CallRow(r)) /\ file' = Append(file, [row |-> inflight, part |-> "whole"])
    <3>1. PICK i \in DOMAIN file : file[i] = [row |-> CallRow(r), part |-> "whole"]
      BY <2>4 DEF HasRow
    <3>2. PICK j \in DOMAIN file' :
            /\ file'[j] = [row |-> inflight, part |-> "whole"]
            /\ \A k \in DOMAIN file : k < j /\ k \in DOMAIN file' /\ file'[k] = file[k]
      BY <1>5, <2>4
    <3>3. /\ i \in DOMAIN file' /\ i < j
          /\ file'[i] = [row |-> CallRow(r)', part |-> "whole"]
          /\ file'[j] = [row |-> ResultRow(r)', part |-> "whole"]
      BY <1>3, <2>1, <3>1, <3>2
    <3> QED BY <3>2, <3>3 DEF BothRecorded
  <2> QED BY <1>2, <2>1, <2>2, <2>3, <2>4 DEF Recorded
<1> QED BY <1>6, <1>7

(* Everything but the end of a log() leaves the duties as they were.        *)
LEMMA RecordKept ==
  ASSUME LineInv, RecordInv, [Next]_vars,
         \A r \in audited' : stage'[r] \in Announced \/ r \in ran' =>
           \/ r \in audited /\ (stage[r] \in Announced \/ r \in ran)
           \/ Recorded(CallRow(r))',
         \A r \in audited' : stage'[r] \in Concluded =>
           \/ r \in audited /\ stage[r] \in Concluded /\ result'[r] = result[r]
           \/ BothRecorded(r)'
  PROVE  RecordInv'
<1>1. audited' \subseteq Requests
  BY TypeStep DEF LineInv, TypeOK
<1>2. ASSUME NEW r \in audited', stage'[r] \in Announced \/ r \in ran'
      PROVE  Recorded(CallRow(r))'
  BY <1>1, <1>2, RecordsStay DEF RecordInv
<1>3. ASSUME NEW r \in audited', stage'[r] \in Concluded
      PROVE  BothRecorded(r)'
  BY <1>1, <1>3, RecordsStay DEF RecordInv
<1> QED BY <1>2, <1>3 DEF RecordInv

LEMMA RecordStep == LineInv /\ StateInv /\ RecordInv /\ [Next]_vars => RecordInv'
<1> SUFFICES ASSUME LineInv, StateInv, RecordInv, [Next]_vars PROVE RecordInv'
  OBVIOUS
<1> USE DEF Announced, Concluded
<1>0. TypeOK
  BY DEF LineInv
<1>1. ASSUME NEW r \in Requests, Receive(r) PROVE RecordInv'
  <2>1. /\ audited' \subseteq audited \cup {r} /\ ran' = ran /\ result' = result
        /\ stage[r] = "new"
        /\ \A q \in Requests : q # r => stage'[q] = stage[q]
        /\ stage'[r] = "dispatch" => audited' = audited
        /\ stage'[r] \in {"call_row", "dispatch"}
    BY <1>0, <1>1 DEF Receive, TypeOK
  <2>2. r \notin audited /\ r \notin ran
    BY <2>1 DEF StateInv
  <2>3. audited \subseteq Requests
    BY <1>0 DEF TypeOK
  <2> QED BY <2>1, <2>2, <2>3, RecordKept
<1>2. ASSUME NEW r \in Requests, LogRow(r) PROVE RecordInv'
  BY <1>2, RecordKept DEF LogRow, serverVars
<1>3. ASSUME NEW r \in Requests, Logged(r) PROVE RecordInv'
  <2>1. /\ audited' = audited /\ ran' = ran /\ result' = result
        /\ \A q \in Requests : q # r => stage'[q] = stage[q]
        /\ \/ stage[r] = "call_row" /\ stage'[r] = "dispatch"
           \/ stage[r] = "result_row" /\ stage'[r] = "respond"
    BY <1>0, <1>3 DEF Logged, TypeOK
  <2>2. audited \subseteq Requests
    BY <1>0 DEF TypeOK
  <2>3. ASSUME NEW q \in audited', stage'[q] \in Announced \/ q \in ran'
        PROVE  \/ q \in audited /\ (stage[q] \in Announced \/ q \in ran)
               \/ Recorded(CallRow(q))'
    BY <1>3, <2>1, <2>2, <2>3, LoggedRecords
  <2>4. ASSUME NEW q \in audited', stage'[q] \in Concluded
        PROVE  \/ q \in audited /\ stage[q] \in Concluded /\ result'[q] = result[q]
               \/ BothRecorded(q)'
    BY <1>3, <2>1, <2>2, <2>4, LoggedRecords
  <2> QED BY <2>3, <2>4, RecordKept
<1>4. ASSUME NEW r \in Requests, Reject(r) \/ RunReturns(r) PROVE RecordInv'
  <2>1. /\ audited' = audited /\ ran' = ran
        /\ stage[r] \in {"dispatch", "run"}
        /\ \A q \in Requests : q # r => stage'[q] = stage[q] /\ result'[q] = result[q]
        /\ stage'[r] = "result_row" \/ (stage'[r] = "respond" /\ ~journal)
    BY <1>0, <1>4 DEF Reject, RunReturns, ToolReturns, TypeOK
  <2>2. r \in audited => journal
    BY <2>1 DEF StateInv, InProgress
  <2>3. audited \subseteq Requests
    BY <1>0 DEF TypeOK
  <2> QED BY <2>1, <2>2, <2>3, RecordKept
<1>5. ASSUME NEW r \in Requests, Run(r) \/ Respond(r) PROVE RecordInv'
  <2>1. /\ audited' = audited /\ ran' \subseteq ran \cup {r} /\ result' = result
        /\ \A q \in Requests : q # r => stage'[q] = stage[q]
        /\ \/ stage[r] = "dispatch" /\ stage'[r] = "run"
           \/ stage[r] = "respond" /\ stage'[r] = "answered"
    BY <1>0, <1>5 DEF Run, Respond, TypeOK
  <2>2. audited \subseteq Requests
    BY <1>0 DEF TypeOK
  <2> QED BY <2>1, <2>2, RecordKept
<1>6. CASE Crash
  <2>1. /\ audited' = audited /\ ran' = ran /\ result' = result
        /\ \A q \in Requests : stage'[q] = stage[q] \/ stage'[q] = "lost"
    BY <1>0, <1>6 DEF Crash
  <2>2. audited \subseteq Requests
    BY <1>0 DEF TypeOK
  <2> QED BY <2>1, <2>2, RecordKept
<1>7. CASE Restart
  BY <1>7, RecordKept DEF Restart
<1>8. CASE UNCHANGED vars
  BY <1>8, RecordKept DEF vars, serverVars
<1> QED BY <1>1, <1>2, <1>3, <1>4, <1>5, <1>6, <1>7, <1>8 DEF Next, Handle, Finish

-----------------------------------------------------------------------------
(* Which rows the file may hold for a call, by where the call is.           *)
FileInv ==
  /\ \A i \in DOMAIN file :
       /\ file[i].row.dir = "call" => stage[file[i].row.req] \notin {"new", "call_row"}
       /\ file[i].row.dir = "result"
            => stage[file[i].row.req] \in {"respond", "answered", "lost"}
  /\ RowsAtMostOnce

LEMMA FileInvStep == LineInv /\ FileInv /\ [Next]_vars => FileInv'
<1> SUFFICES ASSUME LineInv, FileInv, [Next]_vars PROVE FileInv'
  OBVIOUS
<1>1. TypeOK /\ file \in Seq([row : Rows, part : Parts])
  BY DEF LineInv, TypeOK
<1>2. ASSUME NEW i \in DOMAIN file
      PROVE  /\ file[i].row.req \in Requests /\ file[i].row.dir \in {"call", "result"}
             /\ file[i].row.dir = "call"
                  => /\ stage[file[i].row.req] \notin {"new", "call_row"}
                     /\ stage'[file[i].row.req] \notin {"new", "call_row"}
             /\ file[i].row.dir = "result"
                  => /\ stage[file[i].row.req] \in {"respond", "answered", "lost"}
                     /\ stage'[file[i].row.req] \in {"respond", "answered", "lost"}
  <2>1. file[i] \in [row : Rows, part : Parts]
    BY <1>1, ElementOfSeq, LenProperties
  <2>2. file[i].row.req \in Requests /\ file[i].row.dir \in {"call", "result"}
    BY <2>1 DEF Rows
  <2> QED BY <1>1, <2>2, StageStep DEF FileInv
<1>3. CASE file' = file
  BY <1>2, <1>3 DEF FileInv, RowsAtMostOnce
<1>4. CASE file' # file
  <2>1. PICK h \in Requests, row \in Rows, p \in Parts :
          /\ file' = Append(file, [row |-> row, part |-> p])
          /\ \/ /\ stage[h] = "call_row" /\ row = CallRow(h)
                /\ stage'[h] \in {"dispatch", "lost"}
             \/ /\ stage[h] = "result_row" /\ row = ResultRow(h)
                /\ stage'[h] \in {"respond", "lost"}
    BY <1>4, FileStep
  <2>2. [row |-> row, part |-> p] \in [row : Rows, part : Parts]
    OBVIOUS
  <2>3. /\ file' \in Seq([row : Rows, part : Parts])
        /\ Len(file') = Len(file) + 1
        /\ \A i \in 1..Len(file) : file'[i] = file[i]
        /\ file'[Len(file) + 1] = [row |-> row, part |-> p]
    BY <1>1, <2>1, <2>2, AppendProperties
  <2>4. Len(file) \in Nat /\ DOMAIN file = 1..Len(file) /\ DOMAIN file' = 1..Len(file) + 1
    BY <1>1, <2>3, LenProperties
  <2> DEFINE n == Len(file) + 1
  <2>5. /\ file'[n].row = row /\ row.req = h
        /\ \/ /\ stage[h] = "call_row" /\ row.dir = "call"
              /\ stage'[h] \in {"dispatch", "lost"}
           \/ /\ stage[h] = "result_row" /\ row.dir = "result"
              /\ stage'[h] \in {"respond", "lost"}
    BY <2>1, <2>3 DEF CallRow, ResultRow
  <2>6. \A i \in DOMAIN file' : (i \in DOMAIN file /\ file'[i] = file[i]) \/ i = n
    BY <2>3, <2>4
  <2>7. \A i, j \in DOMAIN file' : i < j => i \in DOMAIN file
    BY <2>4
  <2> HIDE DEF n
  <2>8. ASSUME NEW i \in DOMAIN file', NEW j \in DOMAIN file', i < j,
               file'[i].row.req = file'[j].row.req
        PROVE  file'[i].row.dir = "call" /\ file'[j].row.dir = "result"
    <3>1. i \in DOMAIN file
      BY <2>7, <2>8
    <3>1a. file'[i] = file[i]
      BY <2>3, <2>4, <3>1
    <3>2. CASE j \in DOMAIN file /\ file'[j] = file[j]
      BY <2>8, <3>1, <3>1a, <3>2 DEF FileInv, RowsAtMostOnce
    <3>3. CASE j = n
      <4>1. file[i].row.req = h
        BY <2>5, <2>8, <3>1a, <3>3
      <4>2. file[i].row.dir \in {"call", "result"} /\ stage[h] \in {"call_row", "result_row"}
            /\ (file[i].row.dir = "call" => stage[h] \notin {"new", "call_row"})
            /\ (file[i].row.dir = "result" => stage[h] \in {"respond", "answered", "lost"})
        BY <1>2, <2>5, <3>1, <4>1
      <4> QED BY <2>5, <3>1a, <3>3, <4>2
    <3> QED BY <2>6, <3>2, <3>3
  <2>9. ASSUME NEW i \in DOMAIN file'
        PROVE  /\ file'[i].row.dir = "call"
                    => stage'[file'[i].row.req] \notin {"new", "call_row"}
               /\ file'[i].row.dir = "result"
                    => stage'[file'[i].row.req] \in {"respond", "answered", "lost"}
    <3>1. CASE i \in DOMAIN file /\ file'[i] = file[i]
      BY <1>2, <3>1
    <3>2. CASE i = n
      BY <2>5, <3>2
    <3> QED BY <2>6, <3>1, <3>2
  <2> QED BY <2>8, <2>9 DEF FileInv, RowsAtMostOnce
<1> QED BY <1>3, <1>4

-----------------------------------------------------------------------------
ServerInv == LineInv /\ StateInv /\ RecordInv /\ FileInv

LEMMA ServerInit == Init => ServerInv
<1> SUFFICES ASSUME Init PROVE ServerInv
  OBVIOUS
<1>1. DOMAIN file = {}
  BY LenProperties, EmptySeq DEF Init, JournalInit
<1>2. StateInv /\ RecordInv
  BY DEF Init, StateInv, RecordInv, InProgress
<1>3. FileInv
  BY <1>1 DEF FileInv, RowsAtMostOnce
<1> QED BY <1>2, <1>3, LineInit DEF ServerInv

LEMMA ServerStep == ServerInv /\ [Next]_vars => ServerInv'
BY LineStep, StateStep, RecordStep, FileInvStep DEF ServerInv, LineInv

LEMMA ServerSafety == Spec => []ServerInv
BY ServerInit, ServerStep, PTL DEF Spec

(* No diagnostic touches the host before its call row is on record or its   *)
(* loss was warned about, whatever fails or stops (call_tool).              *)
THEOREM EffectSafety == Spec => []AuditBeforeEffect
<1>1. ServerInv => AuditBeforeEffect
  BY DEF ServerInv, RecordInv, Recorded, AuditBeforeEffect
<1> QED BY ServerSafety, <1>1, PTL

(* Every answer has its two rows in order, the result row with the outcome  *)
(* the client saw, but for writes that were warned about (call_tool).       *)
THEOREM AnswerSafety == Spec => []AnswerIsAudited
<1>1. ServerInv => AnswerIsAudited
  BY DEF ServerInv, RecordInv, BothRecorded, AnswerIsAudited, Concluded
<1> QED BY ServerSafety, <1>1, PTL

(* No row is written twice or out of order, through failed writes, torn     *)
(* rows and restarts on the same file (log, call_tool).                     *)
THEOREM RowSafety == Spec => []RowsAtMostOnce
<1>1. ServerInv => RowsAtMostOnce
  BY DEF ServerInv, FileInv
<1> QED BY ServerSafety, <1>1, PTL

-----------------------------------------------------------------------------
(* The journal's file as an audit trail.                                    *)

(* A call logs only where there is a journal; what it logs last is its      *)
(* result; and it is answered only after that.                              *)
TrailInv ==
  \A r \in Requests :
    /\ stage[r] \in {"call_row", "result_row"} => journal
    /\ stage[r] \in {"result_row", "respond"} => result[r] \in Results
    /\ stage[r] = "respond" /\ journal => Recorded(ResultRow(r))

(* Rows stay on record, however the calls go on.                            *)
LEMMA RowStays ==
  ASSUME LineInv, [Next]_vars, NEW row, Recorded(row)
  PROVE  Recorded(row)'
BY FileStep, PiecesStay DEF Recorded, HasRow

LEMMA TrailStep == LineInv /\ StateInv /\ TrailInv /\ [Next]_vars => TrailInv'
<1> SUFFICES ASSUME LineInv, StateInv, TrailInv, [Next]_vars, NEW r \in Requests
             PROVE  /\ stage'[r] \in {"call_row", "result_row"} => journal'
                    /\ stage'[r] \in {"result_row", "respond"} => result'[r] \in Results
                    /\ stage'[r] = "respond" /\ journal' => Recorded(ResultRow(r))'
  BY DEF TrailInv
<1>1. TypeOK /\ file \in Seq([row : Rows, part : Parts])
  BY DEF LineInv, TypeOK
<1>2. ASSUME stage'[r] = stage[r], result'[r] = result[r], journal' = journal
      PROVE  /\ stage'[r] \in {"call_row", "result_row"} => journal'
             /\ stage'[r] \in {"result_row", "respond"} => result'[r] \in Results
             /\ stage'[r] = "respond" /\ journal' => Recorded(ResultRow(r))'
  <2>1. ResultRow(r)' = ResultRow(r)
    BY <1>2 DEF ResultRow
  <2> QED BY <1>2, <2>1, RowStays DEF TrailInv
<1>3. ASSUME NEW q \in Requests, Receive(q)
      PROVE  /\ stage'[r] \in {"call_row", "result_row"} => journal'
             /\ stage'[r] \in {"result_row", "respond"} => result'[r] \in Results
             /\ stage'[r] = "respond" /\ journal' => Recorded(ResultRow(r))'
  <2>1. CASE q = r
    BY <1>1, <1>3, <2>1 DEF Receive, TypeOK
  <2>2. CASE q # r
    BY <1>1, <1>2, <1>3, <2>2 DEF Receive, TypeOK
  <2> QED BY <2>1, <2>2
<1>4. ASSUME NEW q \in Requests, LogRow(q)
      PROVE  stage'[r] = stage[r] /\ result'[r] = result[r] /\ journal' = journal
  BY <1>4 DEF LogRow, serverVars
<1>5. ASSUME NEW q \in Requests, Logged(q)
      PROVE  /\ stage'[r] \in {"call_row", "result_row"} => journal'
             /\ stage'[r] \in {"result_row", "respond"} => result'[r] \in Results
             /\ stage'[r] = "respond" /\ journal' => Recorded(ResultRow(r))'
  <2>1. CASE q # r
    BY <1>1, <1>2, <1>5, <2>1 DEF Logged, TypeOK
  <2>2. CASE q = r /\ stage[r] = "call_row"
    BY <1>1, <1>5, <2>2 DEF Logged, TypeOK
  <2>3. CASE q = r /\ stage[r] = "result_row"
    <3>1. stage'[r] = "respond" /\ result' = result /\ result[r] \in Results
      BY <1>1, <1>5, <2>3 DEF Logged, TypeOK, TrailInv
    <3>2. ResultRow(r)' = ResultRow(r)
      BY <3>1 DEF ResultRow
    <3>3. inflight = ResultRow(r) /\ inflight \in Rows
      BY <1>1, <1>5, <2>3 DEF Logged, Settle, LineInv, InFlight, TypeOK
    <3>4. \/ file' = Append(file, [row |-> inflight, part |-> "whole"])
          \/ warned' = warned \cup {inflight}
      BY <1>5 DEF Logged, Settle
    <3>5. ASSUME file' = Append(file, [row |-> inflight, part |-> "whole"])
          PROVE  HasRow(ResultRow(r))'
      <4> DEFINE p == [row |-> inflight, part |-> "whole"]
      <4>1. p \in [row : Rows, part : Parts]
        BY <3>3 DEF Parts
      <4>2. p = [row |-> ResultRow(r)', part |-> "whole"]
        BY <3>2, <3>3
      <4>3. file' = Append(file, p)
        BY <3>5
      <4> HIDE DEF p
      <4>4. /\ file' \in Seq([row : Rows, part : Parts]) /\ Len(file') = Len(file) + 1
            /\ file'[Len(file) + 1] = p
        BY <1>1, <4>1, <4>3, AppendProperties
      <4>5. Len(file) + 1 \in DOMAIN file'
        BY <1>1, <4>4, LenProperties
      <4> QED BY <4>2, <4>4, <4>5 DEF HasRow
    <3>6. warned' = warned \cup {inflight} => ResultRow(r)' \in warned'
      BY <3>2, <3>3
    <3> QED BY <3>1, <3>4, <3>5, <3>6 DEF Recorded
  <2> QED BY <1>5, <2>1, <2>2, <2>3 DEF Logged
<1>6. ASSUME NEW q \in Requests, Reject(q) \/ RunReturns(q)
      PROVE  /\ stage'[r] \in {"call_row", "result_row"} => journal'
             /\ stage'[r] \in {"result_row", "respond"} => result'[r] \in Results
             /\ stage'[r] = "respond" /\ journal' => Recorded(ResultRow(r))'
  <2>1. journal' = journal
    BY <1>6 DEF Reject, RunReturns
  <2>2. PICK o \in Results : ToolReturns(q, o)
    BY <1>6 DEF Reject, RunReturns, Results
  <2>3. CASE q # r
    BY <1>1, <1>2, <2>1, <2>2, <2>3 DEF ToolReturns, TypeOK
  <2>4. CASE q = r
    BY <1>1, <2>1, <2>2, <2>4 DEF ToolReturns, TypeOK
  <2> QED BY <2>3, <2>4
<1>7. ASSUME NEW q \in Requests, Run(q) \/ Respond(q)
      PROVE  /\ stage'[r] \in {"call_row", "result_row"} => journal'
             /\ stage'[r] \in {"result_row", "respond"} => result'[r] \in Results
             /\ stage'[r] = "respond" /\ journal' => Recorded(ResultRow(r))'
  <2>1. CASE q # r
    BY <1>1, <1>2, <1>7, <2>1 DEF Run, Respond, TypeOK
  <2>2. CASE q = r
    BY <1>1, <1>7, <2>2 DEF Run, Respond, TypeOK
  <2> QED BY <2>1, <2>2
<1>8. CASE Crash
  BY <1>1, <1>8 DEF Crash, InProgress, TypeOK
<1>9. CASE Restart
  BY <1>9 DEF Restart, StateInv, InProgress
<1>10. CASE UNCHANGED vars
  BY <1>2, <1>10 DEF vars, serverVars
<1> QED
  BY <1>2, <1>3, <1>4, <1>5, <1>6, <1>7, <1>8, <1>9, <1>10 DEF Next, Handle, Finish

(* The rows on record, of the file before and after a step.                 *)
LEMMA RowsOfFile ==
  ASSUME NEW f \in Seq([row : Rows, part : Parts])
  PROVE  /\ Among({i \in DOMAIN f : f[i].part = "whole"}, Len(f))
         /\ DOMAIN f = 1..Len(f)
         /\ \A i \in DOMAIN f : [j \in DOMAIN f |-> f[j].row][i] = f[i].row /\ f[i].row \in Rows
<1>1. Len(f) \in Nat /\ DOMAIN f = 1..Len(f)
  BY LenProperties
<1>2. ASSUME NEW i \in DOMAIN f PROVE f[i].row \in Rows
  <2>1. f[i] \in [row : Rows, part : Parts]
    BY <1>1, ElementOfSeq
  <2> QED BY <2>1
<1> QED BY <1>1, <1>2 DEF Among

(* The step that appends a piece puts its row on record, if it is whole.    *)
OnRecord(f) == Chosen([i \in DOMAIN f |-> f[i].row], {i \in DOMAIN f : f[i].part = "whole"})

LEMMA OnRecordAppended ==
  ASSUME NEW f \in Seq([row : Rows, part : Parts]), NEW row \in Rows, NEW p \in Parts
  PROVE  OnRecord(Append(f, [row |-> row, part |-> p])) =
           IF p = "whole" THEN Append(OnRecord(f), row) ELSE OnRecord(f)
<1> DEFINE x == [row |-> row, part |-> p]
           g == Append(f, x)
           n == Len(f)
           s == [i \in DOMAIN f |-> f[i].row]
           t == [i \in DOMAIN g |-> g[i].row]
           P == {i \in DOMAIN f : f[i].part = "whole"}
           Q == {i \in DOMAIN g : g[i].part = "whole"}
<1>1. x \in [row : Rows, part : Parts] /\ x.row = row /\ x.part = p
  OBVIOUS
<1> HIDE DEF x
<1>2. n \in Nat /\ DOMAIN f = 1..n
  BY LenProperties
<1>3. /\ g \in Seq([row : Rows, part : Parts]) /\ Len(g) = n + 1
      /\ g[n + 1] = x /\ \A i \in 1..n : g[i] = f[i]
  BY <1>1, AppendProperties
<1> HIDE DEF g, n
<1>4. DOMAIN g = 1..n + 1
  BY <1>3, LenProperties
<1>5. Among(P, n) /\ \A i \in P : s[i] \in Rows
  BY RowsOfFile DEF n
<1>6. \A i \in DOMAIN f : i \in DOMAIN g /\ t[i] = s[i]
  BY <1>2, <1>3, <1>4
<1>7. t[n + 1] = row /\ n + 1 \in DOMAIN g /\ g[n + 1].part = p
  BY <1>1, <1>2, <1>3, <1>4
<1>8. \A i \in DOMAIN g : i \in DOMAIN f \/ i = n + 1
  BY <1>2, <1>4
<1>9. OnRecord(g) = Chosen(t, Q) /\ OnRecord(f) = Chosen(s, P)
  BY DEF OnRecord
<1>10. ASSUME p = "whole" PROVE Chosen(t, Q) = Append(Chosen(s, P), row)
  <2>1. Q = P \cup {n + 1}
    BY <1>2, <1>3, <1>4, <1>7, <1>8, <1>10
  <2>2. \A i \in P : t[i] = s[i]
    BY <1>6
  <2> HIDE DEF P, Q, s, t
  <2>3. Extends(t, s, P, n, Rows)
    BY <1>5, <1>7, <2>2 DEF Extends
  <2>4. Chosen(t, Q) = Append(Chosen(s, P), t[n + 1])
    BY <2>1, <2>3, ChosenMore
  <2> QED BY <1>7, <2>4
<1>11. ASSUME p # "whole" PROVE Chosen(t, Q) = Chosen(s, P)
  <2>1. Q = P
    BY <1>2, <1>3, <1>4, <1>7, <1>8, <1>11
  <2>2. \A i \in P : t[i] = s[i]
    BY <1>6
  <2> HIDE DEF P, Q, s, t
  <2> QED BY <1>5, <2>1, <2>2, ChosenSame
<1> QED BY <1>9, <1>10, <1>11 DEF g, x

LEMMA OnRecordHas ==
  ASSUME file \in Seq([row : Rows, part : Parts]), NEW row, HasRow(row)
  PROVE  \E k \in DOMAIN RowsOnRecord : RowsOnRecord[k] = row
<1> DEFINE s == [i \in DOMAIN file |-> file[i].row]
           P == {i \in DOMAIN file : file[i].part = "whole"}
<1>1. PICK i \in DOMAIN file : file[i] = [row |-> row, part |-> "whole"]
  BY DEF HasRow
<1>2. i \in P /\ s[i] = row
  BY <1>1
<1>3. Among(P, Len(file)) /\ \A j \in P : s[j] \in Rows
  BY RowsOfFile
<1>4. RowsOnRecord = Chosen(s, P)
  BY DEF RowsOnRecord
<1> HIDE DEF s, P
<1>5. \E k \in DOMAIN Chosen(s, P) : Chosen(s, P)[k] = s[i]
  BY <1>2, <1>3, ChosenHas
<1> QED BY <1>2, <1>4, <1>5
-----------------------------------------------------------------------------
(* Every step is one of the audit trail, or none.                           *)
LEMMA TrailInit == Init => Trail!Init /\ TrailInv
<1> SUFFICES ASSUME Init PROVE Trail!Init /\ TrailInv
  OBVIOUS
<1>1. RowsOnRecord = <<>>
  <2>1. DOMAIN file = {}
    BY LenProperties, EmptySeq DEF Init, JournalInit
  <2> DEFINE P == {i \in DOMAIN file : file[i].part = "whole"}
             s == [i \in DOMAIN file |-> file[i].row]
  <2>2. P = {}
    BY <2>1
  <2> HIDE DEF P, s
  <2>3. Among(P, 0) /\ Cardinality(P) = 0 /\ \A i \in P : s[i] \in Rows
    BY <2>2, FS_EmptySet DEF Among
  <2>4. Chosen(s, P) \in Seq(Rows) /\ Len(Chosen(s, P)) = 0
    BY <2>3, ChosenTyped
  <2> QED BY <2>4, EmptySeq DEF RowsOnRecord, P, s
<1>2. \A r \in Requests : stage[r] = "new" /\ result[r] = NoResult
  BY DEF Init
<1>3. warned = {} /\ journal \in BOOLEAN
  BY DEF Init, JournalInit, Opened
<1>4. /\ Phases = [r \in Requests |-> "new"]
      /\ Answers = [r \in Requests |-> NoResult]
  BY <1>2 DEF Phases, PhaseAt, Answers
<1> QED BY <1>1, <1>2, <1>3, <1>4 DEF Trail!Init, TrailInv

(* The phases by stage.                                                     *)
LEMMA PhaseTable ==
  /\ PhaseAt("new") = "new" /\ PhaseAt("call_row") = "new"
  /\ PhaseAt("dispatch") = "announced" /\ PhaseAt("run") = "announced"
  /\ PhaseAt("result_row") = "announced" /\ PhaseAt("respond") = "concluded"
  /\ PhaseAt("answered") = "answered" /\ PhaseAt("lost") = "lost"
BY DEF PhaseAt

(* A step of one call moves that call alone.                                *)
Moves(r, s, before, after) ==
  /\ TypeOK /\ stage' = [stage EXCEPT ![r] = s]
  /\ \A q \in Requests : q # r => result'[q] = result[q]
  /\ PhaseAt(stage[r]) = before /\ PhaseAt(s) = after

LEMMA OneMoves ==
  ASSUME NEW r \in Requests, NEW s, NEW before, NEW after, Moves(r, s, before, after)
  PROVE  /\ Phases[r] = before /\ Phases' = [Phases EXCEPT ![r] = after]
         /\ stage[r] # "answered" /\ s # "answered" => Answers' = Answers
         /\ s = "answered" => Answers' = [Answers EXCEPT ![r] = result'[r]]
<1> USE DEF Moves
<1>1. stage'[r] = s /\ \A q \in Requests : q # r => stage'[q] = stage[q]
  BY DEF TypeOK
<1>2. Phases[r] = before
  BY DEF Phases
<1>3. Phases' = [Phases EXCEPT ![r] = after]
  <2>1. \A q \in Requests : PhaseAt(stage'[q]) = IF q = r THEN after ELSE PhaseAt(stage[q])
    BY <1>1
  <2> QED BY <2>1 DEF Phases
<1>4. ASSUME stage[r] # "answered", s # "answered" PROVE Answers' = Answers
  <2>1. ASSUME NEW q \in Requests
        PROVE  (IF stage'[q] = "answered" THEN result'[q] ELSE NoResult)
                 = IF stage[q] = "answered" THEN result[q] ELSE NoResult
    BY <1>1, <1>4
  <2> QED BY <2>1 DEF Answers
<1>5. ASSUME s = "answered" PROVE Answers' = [Answers EXCEPT ![r] = result'[r]]
  <2>1. ASSUME NEW q \in Requests
        PROVE  (IF stage'[q] = "answered" THEN result'[q] ELSE NoResult)
                 = IF q = r THEN result'[r]
                   ELSE IF stage[q] = "answered" THEN result[q] ELSE NoResult
    BY <1>1, <1>5
  <2> QED BY <2>1 DEF Answers
<1> QED BY <1>2, <1>3, <1>4, <1>5

(* A step of a call that changes neither its phase nor its answer.          *)
LEMMA OneStays ==
  ASSUME TypeOK, NEW r \in Requests, NEW s, stage' = [stage EXCEPT ![r] = s],
         \A q \in Requests : q # r => result'[q] = result[q],
         stage[r] # "answered", s # "answered", PhaseAt(s) = PhaseAt(stage[r]),
         UNCHANGED <<file, warned, journal>>
  PROVE  UNCHANGED Trail!vars
<1>1. stage'[r] = s /\ \A q \in Requests : q # r => stage'[q] = stage[q]
  BY DEF TypeOK
<1>2. Phases' = Phases /\ Answers' = Answers
  BY <1>1 DEF Phases, Answers
<1>3. RowsOnRecord' = RowsOnRecord
  BY DEF RowsOnRecord
<1> QED BY <1>2, <1>3 DEF Trail!vars

(* A row that is taken, or not.                                             *)
LEMMA RowRecorded ==
  ASSUME LineInv, NEW r \in Requests, Settle(r), journal, NEW row, inflight = row
  PROVE  Trail!Record(row)
<1>1. file \in Seq([row : Rows, part : Parts]) /\ row \in Rows
  BY DEF LineInv, TypeOK, Settle
<1>2. RowsOnRecord = OnRecord(file) /\ RowsOnRecord' = OnRecord(file')
  BY DEF RowsOnRecord, OnRecord
<1>3. /\ OnRecord(Append(file, [row |-> row, part |-> "whole"])) = Append(OnRecord(file), row)
      /\ OnRecord(Append(file, [row |-> row, part |-> "torn"])) = OnRecord(file)
  BY <1>1, OnRecordAppended DEF Parts
<1>4. CASE file' = Append(file, [row |-> row, part |-> "whole"]) /\ warned' = warned
  BY <1>2, <1>3, <1>4 DEF Trail!Record
<1>5. CASE /\ file' \in {file, Append(file, [row |-> row, part |-> "torn"])}
           /\ warned' = warned \cup {row}
  BY <1>2, <1>3, <1>5 DEF Trail!Record
<1> QED BY <1>4, <1>5 DEF Settle

LEMMA ReceiveRefines ==
  ASSUME LineInv, NEW r \in Requests, Receive(r)
  PROVE  Trail!Next \/ UNCHANGED Trail!vars
<1>1. TypeOK /\ result' = result /\ journal' = journal /\ stage[r] = "new"
  BY DEF LineInv, Receive
<1>2. CASE journal
  <2>1. stage' = [stage EXCEPT ![r] = "call_row"] /\ UNCHANGED <<file, warned>>
    BY <1>2 DEF Receive, Lock
  <2> QED BY <1>1, <2>1, PhaseTable, OneStays
<1>3. CASE ~journal
  <2>1. stage' = [stage EXCEPT ![r] = "dispatch"] /\ UNCHANGED <<file, warned>>
    BY <1>3 DEF Receive, journalVars
  <2>2. Moves(r, "dispatch", "new", "announced") /\ stage[r] # "answered"
    BY <1>1, <2>1, PhaseTable DEF Moves
  <2>3. /\ Phases[r] = "new" /\ Phases' = [Phases EXCEPT ![r] = "announced"]
        /\ Answers' = Answers
    BY <2>2, OneMoves
  <2>4. RowsOnRecord' = RowsOnRecord
    BY <2>1 DEF RowsOnRecord
  <2>5. Trail!Announce(r)
    BY <1>1, <1>3, <2>1, <2>3, <2>4 DEF Trail!Announce, Trail!Record
  <2> QED BY <2>5 DEF Trail!Next
<1> QED BY <1>2, <1>3

LEMMA LoggedRefines ==
  ASSUME LineInv, TrailInv, NEW r \in Requests, Logged(r)
  PROVE  Trail!Next
<1>1. /\ TypeOK /\ result' = result /\ journal' = journal /\ Settle(r)
      /\ stage[r] \in {"call_row", "result_row"} /\ journal
      /\ inflight # NoRow /\ Head(line) = r
  BY DEF LineInv, TrailInv, Logged, Settle
<1>2. CASE stage[r] = "call_row"
  <2>1. stage' = [stage EXCEPT ![r] = "dispatch"] /\ inflight = CallRow(r)
    BY <1>1, <1>2 DEF Logged, LineInv, InFlight
  <2>2. Moves(r, "dispatch", "new", "announced") /\ stage[r] # "answered"
    BY <1>1, <1>2, <2>1, PhaseTable DEF Moves
  <2>3. /\ Phases[r] = "new" /\ Phases' = [Phases EXCEPT ![r] = "announced"]
        /\ Answers' = Answers
    BY <2>2, OneMoves
  <2>4. Trail!Record(CallRow(r)) /\ Trail!CallRow(r) = CallRow(r)
    BY <1>1, <2>1, RowRecorded DEF CallRow, Trail!CallRow
  <2>5. Trail!Announce(r)
    BY <1>1, <2>3, <2>4 DEF Trail!Announce
  <2> QED BY <2>5 DEF Trail!Next
<1>3. CASE stage[r] = "result_row"
  <2>1. stage' = [stage EXCEPT ![r] = "respond"] /\ inflight = ResultRow(r)
    BY <1>1, <1>3 DEF Logged, LineInv, InFlight
  <2>2. Moves(r, "respond", "announced", "concluded") /\ stage[r] # "answered"
    BY <1>1, <1>3, <2>1, PhaseTable DEF Moves
  <2>3. /\ Phases[r] = "announced" /\ Phases' = [Phases EXCEPT ![r] = "concluded"]
        /\ Answers' = Answers
    BY <2>2, OneMoves
  <2>4. Trail!Record(ResultRow(r)) /\ Trail!ResultRow(r, result[r]) = ResultRow(r)
    BY <1>1, <2>1, RowRecorded DEF ResultRow, Trail!ResultRow
  <2>5. Trail!Conclude(r, result[r]) /\ result[r] \in Results
    BY <1>1, <1>3, <2>3, <2>4 DEF Trail!Conclude, TrailInv
  <2> QED BY <2>5 DEF Trail!Next
<1> QED BY <1>1, <1>2, <1>3

LEMMA ReturnRefines ==
  ASSUME LineInv, NEW r \in Requests, NEW o \in Results, stage[r] \in {"dispatch", "run"},
         ToolReturns(r, o), UNCHANGED journal
  PROVE  Trail!Next \/ UNCHANGED Trail!vars
<1>1. /\ TypeOK /\ PhaseAt(stage[r]) = "announced" /\ stage[r] # "answered"
      /\ \A q \in Requests : q # r => result'[q] = result[q]
  BY PhaseTable DEF LineInv, TypeOK, ToolReturns
<1>2. CASE journal
  <2>1. stage' = [stage EXCEPT ![r] = "result_row"] /\ UNCHANGED <<file, warned>>
    BY <1>2 DEF ToolReturns, Lock
  <2> QED BY <1>1, <2>1, PhaseTable, OneStays
<1>3. CASE ~journal
  <2>1. stage' = [stage EXCEPT ![r] = "respond"] /\ UNCHANGED <<file, warned>>
    BY <1>3 DEF ToolReturns, journalVars
  <2>2. Moves(r, "respond", "announced", "concluded") /\ stage[r] # "answered"
    BY <1>1, <2>1, PhaseTable DEF Moves
  <2>3. /\ Phases[r] = "announced" /\ Phases' = [Phases EXCEPT ![r] = "concluded"]
        /\ Answers' = Answers
    BY <2>2, OneMoves
  <2>4. RowsOnRecord' = RowsOnRecord
    BY <2>1 DEF RowsOnRecord
  <2>5. Trail!Conclude(r, o)
    BY <1>3, <2>1, <2>3, <2>4 DEF Trail!Conclude, Trail!Record
  <2> QED BY <2>5 DEF Trail!Next
<1> QED BY <1>2, <1>3

LEMMA RespondRefines ==
  ASSUME LineInv, TrailInv, NEW r \in Requests, Respond(r)
  PROVE  Trail!Next
<1> DEFINE o == result[r]
<1>1. /\ TypeOK /\ result' = result /\ UNCHANGED <<journal, file, warned>>
      /\ stage[r] = "respond" /\ stage' = [stage EXCEPT ![r] = "answered"]
      /\ o \in Results /\ (journal => Recorded(ResultRow(r)))
      /\ file \in Seq([row : Rows, part : Parts])
  BY DEF LineInv, TypeOK, TrailInv, Respond, journalVars
<1>2. Moves(r, "answered", "concluded", "answered") /\ result'[r] = o
  BY <1>1, PhaseTable DEF Moves
<1>3. /\ Phases[r] = "concluded" /\ Phases' = [Phases EXCEPT ![r] = "answered"]
      /\ Answers' = [Answers EXCEPT ![r] = o]
  BY <1>2, OneMoves
<1>4. RowsOnRecord' = RowsOnRecord
  BY <1>1 DEF RowsOnRecord
<1>5. Trail!ResultRow(r, o) = ResultRow(r)
  BY DEF ResultRow, Trail!ResultRow
<1>6. \/ \E i \in DOMAIN RowsOnRecord : RowsOnRecord[i] = ResultRow(r)
      \/ ResultRow(r) \in warned
      \/ ~journal
  BY <1>1, OnRecordHas DEF Recorded
<1>7. Trail!Answer(r, o)
  BY <1>1, <1>3, <1>4, <1>5, <1>6 DEF Trail!Answer
<1> QED BY <1>1, <1>7 DEF Trail!Next

LEMMA CrashRefines ==
  ASSUME LineInv, TrailInv, Crash
  PROVE  Trail!Next
<1> DEFINE S == {r \in Requests : stage[r] \in InProgress}
<1>1. /\ TypeOK /\ file \in Seq([row : Rows, part : Parts])
      /\ UNCHANGED <<journal, result, warned>>
      /\ \A r \in Requests : stage'[r] = IF r \in S THEN "lost" ELSE stage[r]
  BY DEF LineInv, TypeOK, Crash, JournalCrash
<1>2. \A r \in S : r \in Requests /\ stage[r] # "answered" /\ Phases[r] # "answered"
  <2>1. ASSUME NEW r \in S PROVE PhaseAt(stage[r]) # "answered"
    BY PhaseTable DEF InProgress
  <2> QED BY <2>1 DEF Phases, InProgress
<1>3. Phases' = [r \in Requests |-> IF r \in S THEN "lost" ELSE Phases[r]]
  <2>1. ASSUME NEW r \in Requests
        PROVE  PhaseAt(stage'[r]) = IF r \in S THEN "lost" ELSE PhaseAt(stage[r])
    BY <1>1, PhaseTable
  <2> HIDE DEF S
  <2> QED BY <2>1 DEF Phases
<1>4. Answers' = Answers
  <2>1. ASSUME NEW r \in Requests
        PROVE  (IF stage'[r] = "answered" THEN result'[r] ELSE NoResult)
                 = IF stage[r] = "answered" THEN result[r] ELSE NoResult
    BY <1>1, <1>2
  <2> HIDE DEF S
  <2> QED BY <2>1 DEF Answers
<1>5. /\ RowsOnRecord = OnRecord(file) /\ RowsOnRecord' = OnRecord(file')
  BY DEF RowsOnRecord, OnRecord
<1>6. ASSUME inflight # NoRow, NEW p \in Parts,
             file' = Append(file, [row |-> inflight, part |-> p])
      PROVE  \/ RowsOnRecord' = RowsOnRecord
             \/ \E r \in S : /\ journal /\ Phases[r] = "new"
                             /\ RowsOnRecord' = Append(RowsOnRecord, Trail!CallRow(r))
             \/ \E r \in S : \E o \in Results :
                             /\ journal /\ Phases[r] = "announced"
                             /\ RowsOnRecord' = Append(RowsOnRecord, Trail!ResultRow(r, o))
  <2>1. inflight \in Rows
    BY <1>1, <1>6 DEF TypeOK
  <2>2. RowsOnRecord' = RowsOnRecord \/ RowsOnRecord' = Append(RowsOnRecord, inflight)
    BY <1>1, <1>5, <1>6, <2>1, OnRecordAppended
  <2> DEFINE h == Head(line)
  <2>3. /\ h \in Requests
        /\ \/ stage[h] = "call_row"   /\ inflight = CallRow(h)
           \/ stage[h] = "result_row" /\ inflight = ResultRow(h)
    BY <1>1, <1>6, HeadTailProperties DEF LineInv, InFlight, TypeOK
  <2> HIDE DEF h
  <2>4. CASE stage[h] = "call_row" /\ inflight = CallRow(h)
    <3>1. h \in S /\ journal /\ Phases[h] = "new" /\ inflight = Trail!CallRow(h)
      BY <2>3, <2>4, PhaseTable DEF TrailInv, InProgress, Phases, CallRow, Trail!CallRow
    <3> QED BY <2>2, <3>1
  <2>5. CASE stage[h] = "result_row" /\ inflight = ResultRow(h)
    <3>1. /\ h \in S /\ journal /\ Phases[h] = "announced" /\ result[h] \in Results
          /\ inflight = Trail!ResultRow(h, result[h])
      BY <2>3, <2>5, PhaseTable DEF TrailInv, InProgress, Phases, ResultRow, Trail!ResultRow
    <3> QED BY <2>2, <3>1
  <2> QED BY <2>3, <2>4, <2>5
<1>7. file' = file => RowsOnRecord' = RowsOnRecord
  BY <1>5
<1>8. \/ file' = file
      \/ inflight # NoRow /\ \E p \in Parts : file' = Append(file, [row |-> inflight, part |-> p])
  BY DEF Crash, JournalCrash, Parts
<1> HIDE DEF S
<1>9. Trail!Crash(S)
  <2> DEFINE New   == {q \in S : journal /\ Phases[q] = "new"}
             Begun == {q \in S : journal /\ Phases[q] = "announced"}
             after == {RowsOnRecord}
                        \cup {Append(RowsOnRecord, Trail!CallRow(q)) : q \in New}
                        \cup {Append(RowsOnRecord, Trail!ResultRow(q, o)) : q \in Begun, o \in Results}
  <2>1. \/ RowsOnRecord' = RowsOnRecord
        \/ \E q \in New : RowsOnRecord' = Append(RowsOnRecord, Trail!CallRow(q))
        \/ \E q \in Begun : \E o \in Results :
             RowsOnRecord' = Append(RowsOnRecord, Trail!ResultRow(q, o))
    BY <1>6, <1>7, <1>8
  <2> HIDE DEF New, Begun
  <2>2. RowsOnRecord' \in after
    BY <2>1
  <2> HIDE DEF after
  <2> QED BY <1>1, <1>2, <1>3, <1>4, <2>2 DEF Trail!Crash, after, New, Begun
<1>10. S \in SUBSET Requests
  BY <1>2
<1> QED BY <1>9, <1>10 DEF Trail!Next

LEMMA RestartRefines ==
  ASSUME LineInv, StateInv, Restart
  PROVE  Trail!Next
<1>1. ASSUME NEW r \in Requests PROVE Phases[r] \notin {"announced", "concluded"}
  <2>1. stage[r] \in {"new", "answered", "lost"}
    BY DEF LineInv, TypeOK, Stages, StateInv, Restart
  <2>2. PhaseAt(stage[r]) \notin {"announced", "concluded"}
    BY <2>1, PhaseTable
  <2> QED BY <2>2 DEF Phases
<1>2. /\ UNCHANGED <<stage, result, file, warned>> /\ journal' \in BOOLEAN
  BY DEF Restart, journalVars, Opened
<1>3. UNCHANGED <<RowsOnRecord, Phases, Answers>>
  BY <1>2 DEF RowsOnRecord, Phases, Answers
<1>4. Trail!Reopen
  BY <1>1, <1>2, <1>3 DEF Trail!Reopen
<1> QED BY <1>4 DEF Trail!Next

LEMMA StepRefines ==
  ASSUME LineInv, StateInv, TrailInv, [Next]_vars
  PROVE  Trail!Next \/ UNCHANGED Trail!vars
<1>1. ASSUME NEW r \in Requests, Receive(r)
      PROVE  Trail!Next \/ UNCHANGED Trail!vars
  BY <1>1, ReceiveRefines
<1>2. ASSUME UNCHANGED <<stage, result, file, warned, journal>>
      PROVE  UNCHANGED Trail!vars
  BY <1>2 DEF Trail!vars, RowsOnRecord, Phases, Answers
<1>3. ASSUME NEW r \in Requests, LogRow(r)
      PROVE  UNCHANGED Trail!vars
  BY <1>2, <1>3 DEF LogRow, Write, serverVars
<1>4. ASSUME NEW r \in Requests, Reject(r) \/ RunReturns(r)
      PROVE  Trail!Next \/ UNCHANGED Trail!vars
  <2>1. PICK o \in Results : ToolReturns(r, o)
    BY <1>4 DEF Reject, RunReturns, Results
  <2>2. stage[r] \in {"dispatch", "run"} /\ UNCHANGED journal
    BY <1>4 DEF Reject, RunReturns
  <2> QED BY <2>1, <2>2, ReturnRefines
<1>5. ASSUME NEW r \in Requests, Run(r)
      PROVE  UNCHANGED Trail!vars
  <2>1. /\ TypeOK /\ stage[r] = "dispatch" /\ stage' = [stage EXCEPT ![r] = "run"]
        /\ UNCHANGED <<result, file, warned, journal>>
    BY <1>5 DEF LineInv, Run, journalVars
  <2> QED BY <2>1, PhaseTable, OneStays
<1>6. ASSUME NEW r \in Requests, Respond(r) \/ Logged(r)
      PROVE  Trail!Next
  BY <1>6, RespondRefines, LoggedRefines
<1>7. CASE Crash
  BY <1>7, CrashRefines
<1>8. CASE Restart
  BY <1>8, RestartRefines
<1>9. CASE UNCHANGED vars
  BY <1>2, <1>9 DEF vars, serverVars, journalVars
<1> QED BY <1>1, <1>3, <1>4, <1>5, <1>6, <1>7, <1>8, <1>9 DEF Next, Handle, Finish

(* Whatever the interleaving, wherever a write fails and wherever a crash   *)
(* falls, the complete rows of the file are the audit trail promised: the   *)
(* call row before the effect, the result row before the answer, gaps only  *)
(* where a warning was printed (call_tool, log).                            *)
THEOREM TrailRefinement == Spec => ImplementsAuditTrail
<1>1. ServerInv /\ TrailInv /\ [Next]_vars => TrailInv' /\ [Trail!Next]_(Trail!vars)
  BY TrailStep, StepRefines DEF ServerInv
<1> QED BY ServerSafety, TrailInit, <1>1, PTL DEF Spec, ImplementsAuditTrail, Trail!Spec
=============================================================================
