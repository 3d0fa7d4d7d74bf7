--------------------------- MODULE MCToolCatalog ---------------------------
(* ToolCatalog with environments of at most two entries, out of keys that   *)
(* need no opt-in, keys that do, the sentinels, misspelt and empty entries; *)
(* and with texts at each of the validators' borders.                       *)
EXTENDS ToolCatalog, FiniteSetsExt

UpToTwo(entries) == {Entries(SetToSeq(s)) : s \in kSubset(1, entries) \cup kSubset(2, entries)}

MCAllowlistEnvs == {Unset, NotUnicode}
                   \cup UpToTwo({"ping", "routes", "tcpdump_sample", "mac_lookup"})
MCOptInEnvs     == {Unset, NotUnicode}
                   \cup UpToTwo({"ping", "all", "ALL", "none", ""})

Form(size, first, chars, name, digits, sysfs) ==
  [size |-> size, first |-> first, chars |-> chars, name |-> name,
   mac |-> FALSE, digits |-> digits, sysfs |-> sysfs]

\* eth0, an address with a prefix, a unit with an instance, an option, a shell
\* word, the special names, an index, and texts at the two length limits.
MCTexts ==
  { Form(4, "alnum", {"alnum"}, "plain", FALSE, at) : at \in {"device", "missing", "file", "unreadable"} }
  \cup
  { Form(9, "alnum", {"alnum", ".", ":", "/"}, "plain", FALSE, "missing"),
    Form(9, "alnum", {"alnum", ".", "@", "-"}, "plain", FALSE, "missing"),
    Form(2, "-", {"-", "alnum"}, "plain", FALSE, "unreadable"),
    Form(5, "alnum", {"alnum", "other"}, "plain", FALSE, "missing"),
    Form(2, ".", {"."}, "..", FALSE, "missing"),
    Form(3, "alnum", {"alnum"}, "any", FALSE, "device"),
    Form(2, "alnum", {"alnum"}, "plain", TRUE, "device"),
    Form(15, "alnum", {"alnum"}, "plain", FALSE, "device"),
    Form(16, "alnum", {"alnum"}, "plain", FALSE, "missing"),
    Form(128, "alnum", {"alnum"}, "plain", FALSE, "missing"),
    Form(129, "alnum", {"alnum"}, "plain", FALSE, "missing"),
    Form(0, "none", {}, "plain", FALSE, "missing"),
    [Form(17, "alnum", {"alnum", ":"}, "plain", FALSE, "missing") EXCEPT !.mac = TRUE] }
=============================================================================
