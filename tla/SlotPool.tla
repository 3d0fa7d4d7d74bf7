------------------------------ MODULE SlotPool ------------------------------
(* What the command slots promise: at most MaxSlots holders, a first-come,  *)
(* first-served line in front of them, a slot that is given up goes to the  *)
(* head of the line in the same step, and a waiter may give up its place.   *)
EXTENDS Naturals, Sequences, FiniteSets, SequencesExt

CONSTANTS Calls,      \* who may hold a slot
          MaxSlots    \* how many slots there are

VARIABLES waiting,    \* the line, oldest first
          holders     \* the calls that hold a slot

vars == <<waiting, holders>>

Init == waiting = <<>> /\ holders = {}

InLine(c) == \E i \in 1..Len(waiting) : waiting[i] = c

\* A slot is free: take it.  There is never a line while one is free.
Enter(c) ==
  /\ ~InLine(c) /\ c \notin holders
  /\ Cardinality(holders) < MaxSlots
  /\ waiting = <<>>
  /\ holders' = holders \cup {c}
  /\ UNCHANGED waiting

\* Every slot is taken: join the end of the line.
Queue(c) ==
  /\ ~InLine(c) /\ c \notin holders
  /\ Cardinality(holders) = MaxSlots
  /\ waiting' = Append(waiting, c)
  /\ UNCHANGED holders

\* A holder leaves and its slot goes to the head of the line, if any.
Leave(c) ==
  /\ c \in holders
  /\ \/ /\ waiting = <<>>
        /\ holders' = holders \ {c}
        /\ UNCHANGED waiting
     \/ /\ waiting # <<>>
        /\ holders' = (holders \ {c}) \cup {Head(waiting)}
        /\ waiting' = Tail(waiting)

\* A waiter loses patience; the order of the others is kept.
GiveUp(c) ==
  /\ \E i \in 1..Len(waiting) :
        waiting[i] = c /\ waiting' = RemoveAt(waiting, i)
  /\ UNCHANGED holders

Next == \E c \in Calls : Enter(c) \/ Queue(c) \/ Leave(c) \/ GiveUp(c)

Spec == Init /\ [][Next]_vars
=============================================================================
