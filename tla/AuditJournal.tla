---------------------------- MODULE AuditJournal ----------------------------
(* JournalWriter::log of src/mcp/journal.rs: rows from concurrent tasks go  *)
(* through one fair mutex and one buffered append-mode file.  A row that    *)
(* the disk fails to take is warned about and dropped; what part of it      *)
(* reached the file stays there without its newline.                        *)
EXTENDS Naturals, Sequences

CONSTANTS NoRow,       \* nothing handed to the disk
          MaxFaults    \* bound: how many writes the disk fails

VARIABLES
  line,      \* tasks that want the mutex, oldest first; the head holds it
  inflight,  \* the row write_all and flush have handed to the disk
  file,      \* pieces of the file: a row, and whether its newline is there
  warned,    \* rows whose failure was warned about (history)
  faults     \* failed writes so far

journalVars == <<line, inflight, file, warned, faults>>

Parts == {"whole", "torn"}

JournalInit ==
  /\ line = <<>> /\ inflight = NoRow /\ file = <<>> /\ warned = {} /\ faults = 0

\* lock().await of task w: the mutex is fair.
Lock(w) ==
  /\ line' = Append(line, w)
  /\ UNCHANGED <<inflight, file, warned, faults>>

\* w holds the mutex: write_all buffers the row and flush hands it over.
Write(w, row) ==
  /\ line # <<>> /\ Head(line) = w /\ inflight = NoRow
  /\ inflight' = row
  /\ UNCHANGED <<line, file, warned, faults>>

\* Mutant of Settle: a failed write returns with the guard still held.
SettleLeaksGuard(w) ==
  /\ line # <<>> /\ Head(line) = w /\ inflight # NoRow
  /\ \/ /\ file' = Append(file, [row |-> inflight, part |-> "whole"])
        /\ line' = Tail(line)
        /\ UNCHANGED <<warned, faults>>
     \/ /\ faults < MaxFaults
        /\ warned' = warned \cup {inflight}
        /\ faults' = faults + 1
        /\ UNCHANGED <<line, file>>
  /\ inflight' = NoRow

\* The disk answers and w, done with log(), drops the guard.
Settle(w) ==
  /\ line # <<>> /\ Head(line) = w /\ inflight # NoRow
  /\ \/ /\ file' = Append(file, [row |-> inflight, part |-> "whole"])
        /\ UNCHANGED <<warned, faults>>
     \/ /\ faults < MaxFaults
        /\ file' \in {file, Append(file, [row |-> inflight, part |-> "torn"])}
        /\ warned' = warned \cup {inflight}
        /\ faults' = faults + 1
  /\ inflight' = NoRow
  /\ line' = Tail(line)

\* The process is gone with its mutex and its buffer; the write in flight
\* may have reached the file, in part only if the disk failed it.
JournalCrash ==
  /\ file' \in {file} \cup {Append(file, [row |-> inflight, part |-> p]) :
                              p \in IF inflight = NoRow THEN {}
                                    ELSE IF faults < MaxFaults THEN Parts
                                    ELSE {"whole"}}
  /\ line' = <<>> /\ inflight' = NoRow
  /\ UNCHANGED <<warned, faults>>

\* What a reader of the file finds: a row alone on a line.
Readable(i) ==
  /\ file[i].part = "whole"
  /\ i > 1 => file[i - 1].part = "whole"

HasRow(row) == \E i \in DOMAIN file : file[i] = [row |-> row, part |-> "whole"]
=============================================================================
