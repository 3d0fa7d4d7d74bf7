---------------------------- MODULE OutputCapture ----------------------------
(* The body of run_process in src/netdiag/commands.rs once the child runs:  *)
(* it writes to two bounded pipes, both are read concurrently with only the *)
(* head of each kept, and what was kept becomes the tool's answer           *)
(* (normalize_tool_result, src/netdiag/mod.rs) and the result row of the    *)
(* journal (result_summary, src/mcp/journal.rs).  CommandRunner has the     *)
(* timeout and the other ways a run can end.                                *)
EXTENDS OutputText, CivilDate

CONSTANTS
  Scripts,      \* what the child does: [writes, code]
  PipeSize,     \* bytes a pipe holds
  MaxStdout,    \* MAX_STDOUT_BYTES
  MaxStderr,    \* MAX_STDERR_BYTES
  MaxLines,     \* MAX_OUTPUT_LINES
  EvidenceMax,  \* EVIDENCE_MAX_CHARS, which counts bytes
  HeadChars,    \* JOURNAL_HEAD_CHARS
  Clocks,       \* seconds since the epoch when the result row is made
  NoAnswer

Streams == {"out", "err"}
Codes   == {"zero", "nonzero", "signal"}

ASSUME ScriptsAssumption ==
  Scripts \subseteq [writes : Seq([to : Streams, byte : Bytes]), code : Codes]
ASSUME ClocksAssumption == Clocks \subseteq Nat
ASSUME PipeAssumption   == PipeSize \in Nat \ {0}
ASSUME CapsAssumption   ==
  /\ MaxStdout \in Nat /\ MaxStderr \in Nat /\ MaxLines \in Nat \ {0}
  /\ EvidenceMax \in Nat /\ HeadChars \in Nat

VARIABLES
  script,   \* what this child will write and exit with
  written,  \* how much of it it has written
  exit,     \* its exit status, once it has one
  pipe,     \* bytes in each pipe
  reader,   \* whether each pipe is still being read
  head,     \* bytes kept of each
  answer,   \* the tool's answer
  row,      \* the result row of the journal
  clock     \* the time the row was made

vars == <<script, written, exit, pipe, reader, head, answer, row, clock>>

Cap == [out |-> MaxStdout, err |-> MaxStderr]

Init ==
  /\ script \in Scripts
  /\ written = 0 /\ exit = "none"
  /\ pipe   = [s \in Streams |-> <<>>]
  /\ reader = [s \in Streams |-> "open"]
  /\ head   = [s \in Streams |-> <<>>]
  /\ answer = NoAnswer /\ row = NoAnswer /\ clock = 0

-----------------------------------------------------------------------------
(* The child.                                                               *)

\* The next byte: the child blocks while the pipe is full, and is killed by
\* SIGPIPE when nobody holds its reading end any more.
Write ==
  /\ exit = "none" /\ written < Len(script.writes)
  /\ LET w == script.writes[written + 1] IN
     /\ Len(pipe[w.to]) < PipeSize
     /\ IF reader[w.to] = "open"
        THEN /\ pipe' = [pipe EXCEPT ![w.to] = Append(@, w.byte)]
             /\ written' = written + 1
             /\ UNCHANGED exit
        ELSE exit' = "signal" /\ UNCHANGED <<pipe, written>>
  /\ UNCHANGED <<script, reader, head, answer, row, clock>>

Exit ==
  /\ exit = "none" /\ written = Len(script.writes)
  /\ exit' = script.code
  /\ UNCHANGED <<script, written, pipe, reader, head, answer, row, clock>>

-----------------------------------------------------------------------------
(* read_capped, once for each pipe, joined.                                 *)

\* Mutants of Read: the reader is dropped at the cap; stderr waits for the
\* end of stdout; the newest bytes are kept instead of the oldest.
ReadDrops(s) ==
  /\ reader[s] = "open" /\ pipe[s] # <<>>
  /\ IF Len(head[s]) < Cap[s]
     THEN /\ head' = [head EXCEPT ![s] = Append(@, Head(pipe[s]))]
          /\ pipe' = [pipe EXCEPT ![s] = Tail(@)]
          /\ UNCHANGED reader
     ELSE /\ reader' = [reader EXCEPT ![s] = "ended"]
          /\ pipe' = [pipe EXCEPT ![s] = <<>>]
          /\ UNCHANGED head
  /\ UNCHANGED <<script, written, exit, answer, row, clock>>

ReadInTurn(s) ==
  /\ reader[s] = "open" /\ pipe[s] # <<>>
  /\ s = "err" => reader["out"] = "ended"
  /\ head' = IF Len(head[s]) < Cap[s]
             THEN [head EXCEPT ![s] = Append(@, Head(pipe[s]))] ELSE head
  /\ pipe' = [pipe EXCEPT ![s] = Tail(@)]
  /\ UNCHANGED <<script, written, exit, reader, answer, row, clock>>

ReadKeepsTail(s) ==
  /\ reader[s] = "open" /\ pipe[s] # <<>>
  /\ head' = [head EXCEPT ![s] =
               Append(IF Len(@) < Cap[s] THEN @ ELSE Tail(@), Head(pipe[s]))]
  /\ pipe' = [pipe EXCEPT ![s] = Tail(@)]
  /\ UNCHANGED <<script, written, exit, reader, answer, row, clock>>

\* The next byte is kept, or discarded past the cap.
Read(s) ==
  /\ reader[s] = "open" /\ pipe[s] # <<>>
  /\ head' = IF Len(head[s]) < Cap[s]
             THEN [head EXCEPT ![s] = Append(@, Head(pipe[s]))] ELSE head
  /\ pipe' = [pipe EXCEPT ![s] = Tail(@)]
  /\ UNCHANGED <<script, written, exit, reader, answer, row, clock>>

\* End of file: the child is gone and the pipe is empty.
ReadEof(s) ==
  /\ reader[s] = "open" /\ pipe[s] = <<>> /\ exit # "none"
  /\ reader' = [reader EXCEPT ![s] = "ended"]
  /\ UNCHANGED <<script, written, exit, pipe, head, answer, row, clock>>

-----------------------------------------------------------------------------
(* The answer and its row.                                                  *)

Text(s) == BoundedText(head[s], Cap[s], MaxLines)

\* Both reads are joined and the child was reaped.
Conclude ==
  /\ answer = NoAnswer /\ exit # "none"
  /\ \A s \in Streams : reader[s] = "ended"
  /\ answer' = [status |-> IF exit = "zero" THEN "ok" ELSE "fail",
                stdout |-> Text("out"), stderr |-> Text("err"),
                evidence |-> Truncate(Text("out"), EvidenceMax)]
  /\ UNCHANGED <<script, written, exit, pipe, reader, head, row, clock>>

\* The result row: the status, the first characters of the evidence, the time.
Summarise ==
  /\ answer # NoAnswer /\ row = NoAnswer
  /\ \E now \in Clocks :
       /\ clock' = now
       /\ row' = [ts |-> Iso8601FromSecs(now), status |-> answer.status,
                  evidence_head |-> Prefix(answer.evidence, HeadChars)]
  /\ UNCHANGED <<script, written, exit, pipe, reader, head, answer>>

Next ==
  \/ Write \/ Exit
  \/ \E s \in Streams : Read(s) \/ ReadEof(s)
  \/ Conclude \/ Summarise

Spec == Init /\ [][Next]_vars

\* The child runs when it can, and both reads are polled while one waits.
FairSpec ==
  /\ Spec
  /\ WF_vars(Write) /\ WF_vars(Exit)
  /\ \A s \in Streams : WF_vars(Read(s) \/ ReadEof(s))

-----------------------------------------------------------------------------
(* Properties.                                                              *)

\* What the child has written to s, and the part of it that was read.
WrittenTo(s) ==
  LET bytes == [i \in DOMAIN script.writes |-> script.writes[i].byte]
  IN Chosen(bytes, {i \in 1..written : script.writes[i].to = s})
ReadFrom(s) == Prefix(WrittenTo(s), Len(WrittenTo(s)) - Len(pipe[s]))

\* However the child alternates between its pipes, what is kept of each is the
\* beginning of what was written to it, and never more than the cap
\* (read_capped).
KeptIsBeginning == \A s \in Streams : head[s] = Prefix(ReadFrom(s), Cap[s])

\* A child that prints past the caps, on either pipe, runs to its end: the status
\* reported is the one it would have had with nobody limiting its output
\* (read_capped drains, run_process).
StatusIsTheChilds ==
  answer # NoAnswer =>
    /\ written = Len(script.writes)
    /\ answer.status = "ok" <=> script.code = "zero"

\* No amount or order of output stalls the call (run_process joins the reads).
NeverStalls == <>(exit # "none" /\ \A s \in Streams : reader[s] = "ended")

\* A text is the beginning of what the child wrote, line by line, but for one
\* replacement character at its end where the byte cap cut a character: neither
\* that cap, nor one between the two bytes of a CRLF, nor the line cap changes
\* anything before it (bounded_text).  The evidence is cut between characters, and
\* only when the text would not fit (truncate_text).
ChildsText(s) == Lines(Decode(WrittenTo(s)))
Faithful(t, u) ==
  IsPrefix(t, u) \/ (t # <<>> /\ Last(t) = "bad" /\ IsPrefix(Front(t), u))
Characters(t) == Chosen(t, {i \in DOMAIN t : t[i] # "dots"})
TextIsFaithful ==
  answer # NoAnswer =>
    /\ Faithful(answer.stdout, ChildsText("out"))
    /\ Faithful(answer.stderr, ChildsText("err"))
    /\ IsPrefix(Characters(answer.evidence), answer.stdout)
    /\ answer.evidence # answer.stdout => SizeOf(answer.stdout) > EvidenceMax

\* The sizes that reach the client and the journal: decoding can triple the bytes
\* kept, and the ellipsis comes on top of the evidence's limit (bounded_text,
\* truncate_text, evidence_head).
AnswerIsBounded ==
  answer # NoAnswer =>
    /\ SizeOf(answer.stdout) <= 3 * MaxStdout /\ SizeOf(answer.stderr) <= 3 * MaxStderr
    /\ Newlines(answer.stdout) < MaxLines /\ Newlines(answer.stderr) < MaxLines
    /\ SizeOf(answer.evidence) <= EvidenceMax + Width.dots
    /\ row # NoAnswer => Len(row.evidence_head) <= HeadChars

\* The timestamp of a row is a date of the calendar and the time it was made
\* (iso8601_from_secs, civil_from_days).
StampIsNow == row # NoAnswer => ValidStamp(row.ts) /\ Instant(row.ts) = clock
=============================================================================
