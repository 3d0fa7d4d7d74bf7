----------------------------- MODULE AuditTrail -----------------------------
(* What the audit journal promises about every tools/call: its call row is  *)
(* on record before anything is done for it, its result row before it is    *)
(* answered, and the answer is the one on record.  A row that cannot be     *)
(* taken is excused by a warning; while the journal is not open there are   *)
(* no rows.  A crash may cut calls short, with at most one row just taken.  *)
EXTENDS Naturals, Sequences

CONSTANTS Requests, Results, NoResult

VARIABLES trail,    \* rows on record, oldest first
          excused,  \* rows that were warned about instead
          open,     \* the journal is open
          phase,    \* how far each call has come
          answer    \* what the client was told

vars == <<trail, excused, open, phase, answer>>

CallRow(r)      == [req |-> r, dir |-> "call", out |-> NoResult]
ResultRow(r, o) == [req |-> r, dir |-> "result", out |-> o]

Init ==
  /\ trail = <<>> /\ excused = {}
  /\ open \in BOOLEAN
  /\ phase = [r \in Requests |-> "new"]
  /\ answer = [r \in Requests |-> NoResult]

\* The row is on record or excused when the step is over, if there are rows.
Record(row) ==
  \/ open /\ trail' = Append(trail, row) /\ UNCHANGED excused
  \/ open /\ excused' = excused \cup {row} /\ UNCHANGED trail
  \/ ~open /\ UNCHANGED <<trail, excused>>

Announce(r) ==
  /\ phase[r] = "new"
  /\ phase' = [phase EXCEPT ![r] = "announced"]
  /\ Record(CallRow(r))
  /\ UNCHANGED <<open, answer>>

Conclude(r, o) ==
  /\ phase[r] = "announced"
  /\ phase' = [phase EXCEPT ![r] = "concluded"]
  /\ Record(ResultRow(r, o))
  /\ UNCHANGED <<open, answer>>

Answer(r, o) ==
  /\ phase[r] = "concluded"
  /\ \/ \E i \in DOMAIN trail : trail[i] = ResultRow(r, o)
     \/ ResultRow(r, o) \in excused
     \/ ~open
  /\ phase' = [phase EXCEPT ![r] = "answered"]
  /\ answer' = [answer EXCEPT ![r] = o]
  /\ UNCHANGED <<trail, excused, open>>

\* The calls of S are cut short; one of them may have had its next row taken.
Crash(S) ==
  /\ \A r \in S : phase[r] # "answered"
  /\ phase' = [r \in Requests |-> IF r \in S THEN "lost" ELSE phase[r]]
  /\ trail' \in {trail}
       \cup {Append(trail, CallRow(r)) : r \in {q \in S : open /\ phase[q] = "new"}}
       \cup {Append(trail, ResultRow(r, o)) :
               r \in {q \in S : open /\ phase[q] = "announced"}, o \in Results}
  /\ UNCHANGED <<excused, open, answer>>

\* A new process: no call is under way, and the journal opens or does not.
Reopen ==
  /\ \A r \in Requests : phase[r] \notin {"announced", "concluded"}
  /\ open' \in BOOLEAN
  /\ UNCHANGED <<trail, excused, phase, answer>>

Next ==
  \/ \E r \in Requests : \/ Announce(r)
                         \/ \E o \in Results : Conclude(r, o) \/ Answer(r, o)
  \/ \E S \in SUBSET Requests : Crash(S)
  \/ Reopen

Spec == Init /\ [][Next]_vars
=============================================================================
