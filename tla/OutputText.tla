------------------------------ MODULE OutputText ------------------------------
(* How captured bytes become the text of an answer and of a journal row:    *)
(* bounded_text of src/netdiag/commands.rs, truncate_text of                *)
(* src/netdiag/mod.rs and evidence_head of src/mcp/journal.rs.              *)
(*                                                                          *)
(* A byte is a letter, a newline, a carriage return, another white space,   *)
(* the first ("lead") or the second ("cont") byte of a two-byte character.  *)
(* A decoded character has a width in bytes.                                *)
EXTENDS Selection, SequencesExt

Single == {"letter", "nl", "cr", "blank"}
White  == {"nl", "cr", "blank"}
Bytes  == Single \cup {"lead", "cont"}
Width  == [letter |-> 1, nl |-> 1, cr |-> 1, blank |-> 1, wide |-> 2, bad |-> 3, dots |-> 3]

\* The byte at i is the second half of a character.
Completes(b, i) == b[i] = "cont" /\ i > 1 /\ b[i - 1] = "lead"

\* The character that starts at i: a byte that is part of none becomes U+FFFD.
CharAt(b, i) ==
  IF b[i] \in Single THEN b[i]
  ELSE IF b[i] = "lead" /\ i < Len(b) /\ b[i + 1] = "cont" THEN "wide" ELSE "bad"

\* from_utf8_lossy.
Starts(b) == {i \in DOMAIN b : ~Completes(b, i)}
Decode(b) == Chosen([i \in DOMAIN b |-> CharAt(b, i)], Starts(b))

Prefix(t, n) == SubSeq(t, 1, IF n < Len(t) THEN n ELSE Len(t))

Newlines(t) == Cardinality({i \in DOMAIN t : t[i] = "nl"})

\* Bytes of the encoded text.
SizeOf(t) == Cardinality({p \in (DOMAIN t) \X (1..3) : p[2] <= Width[t[p[1]]]})

\* lines(): the carriage return of a CRLF belongs to the end of its line.
EndsLine(t, i) == t[i] = "cr" /\ i < Len(t) /\ t[i + 1] = "nl"
Content(t)     == {i \in DOMAIN t : ~EndsLine(t, i)}
Lines(t)       == Chosen(t, Content(t))

\* trim_end.
Trimmed(t) ==
  Prefix(t, Cardinality({i \in DOMAIN t : \E j \in i..Len(t) : t[j] \notin White}))

\* The text before its n-th newline, without the white space it ends with.
FirstLines(t, n) ==
  Trimmed(Prefix(t, Cardinality({i \in DOMAIN t : Newlines(Prefix(t, i)) < n})))

\* Mutants of BoundedText: one line too many; carriage returns taken out of the
\* lines as well.
BoundedTextLines(b, maxBytes, maxLines) ==
  FirstLines(Lines(Decode(Prefix(b, maxBytes))), maxLines + 1)

BoundedTextNoCr(b, maxBytes, maxLines) ==
  LET t == Decode(Prefix(b, maxBytes))
  IN FirstLines(Chosen(t, {i \in DOMAIN t : t[i] # "cr"}), maxLines)

BoundedText(b, maxBytes, maxLines) == FirstLines(Lines(Decode(Prefix(b, maxBytes))), maxLines)

\* At most max bytes, cut back to a character boundary, and an ellipsis.
Truncate(t, max) ==
  IF SizeOf(t) <= max THEN t
  ELSE Prefix(t, Cardinality({n \in 1..Len(t) : SizeOf(Prefix(t, n)) <= max})) \o <<"dots">>
=============================================================================
