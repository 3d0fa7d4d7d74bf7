--------------------------- MODULE MCOutputCapture ---------------------------
(* OutputCapture with every child that writes up to five bytes to its two   *)
(* pipes, caps of three bytes and one, and clocks around leap days, ends of *)
(* months and years, and the end of a 400-year era (2000-02-29).            *)
EXTENDS OutputCapture

MCWrites  == [to : {"out"}, byte : Bytes] \cup [to : {"err"}, byte : {"letter"}]
MCScripts == LET Upto(max) == UNION {[1..n -> MCWrites] : n \in 0..max}
             IN [writes : Upto(5), code : {"zero"}] \cup [writes : Upto(3), code : {"nonzero"}]

\* 1970-01-01, 1970-02-28, 1970-03-01, 1972-02-29, 1999-12-31, 2000-01-01,
\* 2000-02-29, 2000-03-01, 2001-02-28 and 2038-01-18.
MCDays   == {0, 58, 59, 789, 10956, 10957, 11016, 11017, 11381, 24854}
MCClocks == {SecsPerDay * day + tod : day \in MCDays, tod \in {0, 86399}}
=============================================================================
