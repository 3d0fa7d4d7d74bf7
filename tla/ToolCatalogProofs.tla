------------------------- MODULE ToolCatalogProofs -------------------------
(* Theorems about which tool calls run and how the others are refused: for  *)
(* every environment, however long its lists, and for every text.           *)
EXTENDS ToolCatalog, SequenceTheorems, TLAPS

-----------------------------------------------------------------------------
(* The tools.                                                               *)

\* What the handlers have in common: a number is asked for within its documented
\* range and defaults into it, a text has a validator of its own.
GoodCheck(key, check) ==
  \/ /\ check.kind = "number"
     /\ check.min = 1 /\ check.max = Limit(key, check.param)
     /\ check.max \in Nat /\ check.default \in 1..check.max
  \/ check.kind = "device" /\ check.param = "interface"
  \/ check.kind \in {"text", "opt_text"} /\ check.param \in {"interface", "unit", "target", "mac"}

GoodTool(tool) ==
  /\ tool.key \in FullAllowlist /\ DOMAIN tool.checks \subseteq 1..3
  /\ \A i \in DOMAIN tool.checks : GoodCheck(tool.key, tool.checks[i])

(* The parameters, one kind at a time.                                      *)
LEMMA TextChecks ==
  ASSUME NEW key, NEW p \in {"interface", "unit", "target", "mac"}
  PROVE  GoodCheck(key, Text(p)) /\ GoodCheck(key, OptText(p))
BY DEF GoodCheck, Text, OptText

LEMMA DeviceChecks == ASSUME NEW key PROVE GoodCheck(key, Device("interface"))
BY DEF GoodCheck, Device

LEMMA NumberChecks ==
  ASSUME NEW key, NEW p, Limit(key, p) \in Nat, NEW d \in 1..Limit(key, p)
  PROVE  GoodCheck(key, Number(p, 1, Limit(key, p), d))
BY DEF GoodCheck, Number

(* Tools with up to three parameters.                                       *)
LEMMA SmallTools ==
  ASSUME NEW key \in FullAllowlist
  PROVE  /\ GoodTool(Tool(key, <<>>))
         /\ \A c : GoodCheck(key, c) => GoodTool(Tool(key, <<c>>))
         /\ \A c, d : GoodCheck(key, c) /\ GoodCheck(key, d) => GoodTool(Tool(key, <<c, d>>))
         /\ \A c, d, e : GoodCheck(key, c) /\ GoodCheck(key, d) /\ GoodCheck(key, e)
                           => GoodTool(Tool(key, <<c, d, e>>))
<1>1. \A s : Tool(key, s).key = key /\ Tool(key, s).checks = s
  BY DEF Tool
<1>2. GoodTool(Tool(key, <<>>))
  BY <1>1 DEF GoodTool
<1>3. ASSUME NEW c, GoodCheck(key, c) PROVE GoodTool(Tool(key, <<c>>))
  BY <1>1, <1>3 DEF GoodTool
<1>4. ASSUME NEW c, NEW d, GoodCheck(key, c), GoodCheck(key, d)
      PROVE  GoodTool(Tool(key, <<c, d>>))
  BY <1>1, <1>4 DEF GoodTool
<1>5. ASSUME NEW c, NEW d, NEW e, GoodCheck(key, c), GoodCheck(key, d), GoodCheck(key, e)
      PROVE  GoodTool(Tool(key, <<c, d, e>>))
  BY <1>1, <1>5 DEF GoodTool
<1> QED BY <1>2, <1>3, <1>4, <1>5

LEMMA ToolsAreGood == \A tool \in Tools : GoodTool(tool)
<1>1. \A tool \in LinkTools : GoodTool(tool)
  <2>1. {"if_status", "mac_table", "neighbors"} \subseteq FullAllowlist
    BY DEF FullAllowlist
  <2> QED BY <2>1, SmallTools, TextChecks DEF LinkTools
<1>2. \A tool \in RoutingTools : GoodTool(tool)
  <2>1. {"routes", "addr", "link_detail", "route_get", "rules"} \subseteq FullAllowlist
    BY DEF FullAllowlist
  <2> QED BY <2>1, SmallTools, TextChecks DEF RoutingTools
<1>3. \A tool \in ProbeTools : GoodTool(tool)
  <2>1. {"ping", "traceroute"} \subseteq FullAllowlist
    BY DEF FullAllowlist
  <2>2. /\ Limit("ping", "count") = 10 /\ Limit("ping", "timeout_secs") = 5
        /\ Limit("traceroute", "max_hops") = 30
    BY DEF Limit
  <2>3. /\ GoodCheck("ping", Number("count", 1, 10, 3))
        /\ GoodCheck("ping", Number("timeout_secs", 1, 5, 2))
        /\ GoodCheck("traceroute", Number("max_hops", 1, 30, 12))
    <3>1. 3 \in 1..10 /\ 2 \in 1..5 /\ 12 \in 1..30 /\ 10 \in Nat /\ 5 \in Nat /\ 30 \in Nat
      OBVIOUS
    <3> QED BY <2>2, <3>1, NumberChecks
  <2> QED BY <2>1, <2>3, SmallTools, TextChecks DEF ProbeTools
<1>4. \A tool \in StateTools : GoodTool(tool)
  <2>1. {"sockets", "dns_status", "resolv_conf", "ethtool", "firewall", "conntrack"}
          \subseteq FullAllowlist
    BY DEF FullAllowlist
  <2> QED BY <2>1, SmallTools, TextChecks DEF StateTools
<1>5. \A tool \in CaptureTools : GoodTool(tool)
  <2>1. "tcpdump_sample" \in FullAllowlist
    BY DEF FullAllowlist
  <2>2. Limit("tcpdump_sample", "count") = 50
    BY DEF Limit
  <2>3. GoodCheck("tcpdump_sample", Number("count", 1, 50, 10))
    <3>1. 10 \in 1..50 /\ 50 \in Nat
      OBVIOUS
    <3> QED BY <2>2, <3>1, NumberChecks
  <2> QED BY <2>1, <2>3, SmallTools, DeviceChecks DEF CaptureTools
<1>6. \A tool \in UnitTools : GoodTool(tool)
  <2>1. {"logs", "failed_units", "service_status"} \subseteq FullAllowlist
    BY DEF FullAllowlist
  <2>2. Limit("logs", "lines") = 200 /\ Limit("service_status", "lines") = 200
    BY DEF Limit
  <2>3. /\ GoodCheck("logs", Number("lines", 1, 200, 50))
        /\ GoodCheck("service_status", Number("lines", 1, 200, 50))
    <3>1. 50 \in 1..200 /\ 200 \in Nat
      OBVIOUS
    <3> QED BY <2>2, <3>1, NumberChecks
  <2> QED BY <2>1, <2>3, SmallTools, TextChecks DEF UnitTools
<1>7. \A tool \in HostTools : GoodTool(tool)
  <2>1. {"dmesg", "uptime", "memory", "filesystems"} \subseteq FullAllowlist
    BY DEF FullAllowlist
  <2> QED BY <2>1, SmallTools DEF HostTools
<1> QED BY <1>1, <1>2, <1>3, <1>4, <1>5, <1>6, <1>7 DEF Tools

(* Only the capture tool has the capture's key.                             *)
LEMMA TheCaptureTool ==
  ASSUME NEW tool \in Tools, tool.key = "tcpdump_sample"
  PROVE  tool.checks = <<Device("interface"), Number("count", 1, 50, 10)>>
<1>1. tool \in CaptureTools
  <2>1. \A key, s : Tool(key, s).key = key
    BY DEF Tool
  <2> QED BY <2>1 DEF Tools, LinkTools, RoutingTools, ProbeTools, StateTools, UnitTools, HostTools
<1> QED BY <1>1 DEF CaptureTools, Tool
-----------------------------------------------------------------------------
(* One call.                                                                *)

Verdict(tool, args, i) == VerdictOf(tool.checks[i], args[i])

LEMMA Verdicts ==
  ASSUME NEW check, NEW value
  PROVE  /\ VerdictOf(check, value) \in {"good", "invalid_param", "exec_error"}
         /\ VerdictOf(check, value) = "exec_error" => check.kind = "device"
BY DEF VerdictOf, CaptureVerdict

LEMMA GateVerdicts ==
  ASSUME NEW key, NEW allow, NEW optIn
  PROVE  TheGate!GateOf(key, allow, optIn) \in {"not_allowed", "privileged_disabled", "admitted"}
BY DEF TheGate!GateOf

(* The first check that fails decides; if none does, the gate.              *)
LEMMA HandleCases ==
  ASSUME NEW tool \in Tools, NEW args \in Arguments(tool), NEW filters
  PROVE  \/ \E i \in DOMAIN tool.checks :
              /\ Handle(tool, args, filters) = Answer(Verdict(tool, args, i))
              /\ Verdict(tool, args, i) # "good"
              /\ \A j \in DOMAIN tool.checks : j < i => Verdict(tool, args, j) = "good"
         \/ /\ Handle(tool, args, filters)
                  = Answer(TheGate!GateOf(tool.key, filters.allowlist, filters.optIn))
            /\ \A i \in DOMAIN tool.checks : Verdict(tool, args, i) = "good"
<1> DEFINE failed == {i \in DOMAIN args : VerdictOf(tool.checks[i], args[i]) # "good"}
           first  == CHOOSE i \in failed : \A j \in failed : i <= j
<1>1. DOMAIN args = DOMAIN tool.checks /\ DOMAIN args \subseteq 1..3
  BY ToolsAreGood DEF Arguments, GoodTool
<1>2. CASE failed = {}
  <2>1. Handle(tool, args, filters)
          = Answer(TheGate!GateOf(tool.key, filters.allowlist, filters.optIn))
    BY <1>2 DEF Handle
  <2> QED BY <1>1, <1>2, <2>1 DEF Verdict
<1>3. CASE failed # {}
  <2>1. \E i \in failed : \A j \in failed : i <= j
    <3>1. failed \subseteq 1..3
      BY <1>1
    <3> HIDE DEF failed
    <3>2. CASE 1 \in failed
      BY <3>1, <3>2
    <3>3. CASE 1 \notin failed /\ 2 \in failed
      BY <3>1, <3>3
    <3>4. CASE failed \subseteq {3}
      <4>1. failed = {3}
        BY <1>3, <3>4
      <4> QED BY <4>1
    <3> QED BY <3>1, <3>2, <3>3, <3>4
  <2>2. first \in failed /\ \A j \in failed : first <= j
    BY <2>1
  <2>3. Handle(tool, args, filters) = Answer(VerdictOf(tool.checks[first], args[first]))
    BY <1>3 DEF Handle
  <2> HIDE DEF first
  <2>4. \A j \in DOMAIN tool.checks : j < first => VerdictOf(tool.checks[j], args[j]) = "good"
    BY <1>1, <2>2
  <2> QED BY <1>1, <2>2, <2>3, <2>4 DEF Verdict
<1> QED BY <1>2, <1>3

-----------------------------------------------------------------------------
(* The filters are those of the environment, and the answer on record is    *)
(* what the handler and these filters make of the call.                     *)
CallInv ==
  /\ runner \in {NotBuilt, NewRunner(allowEnv, optInEnv)}
  /\ call # NoCall =>
       /\ runner = NewRunner(allowEnv, optInEnv)
       /\ \E tool \in Tools : \E args \in Arguments(tool) :
            call = [key |-> tool.key, checks |-> tool.checks, args |-> args,
                    answer |-> Handle(tool, args, runner)]

LEMMA CallAlways == Spec => []CallInv
<1>1. Init => CallInv
  BY DEF Init, CallInv
<1>2. CallInv /\ [Next]_vars => CallInv'
  <2> SUFFICES ASSUME CallInv, [Next]_vars PROVE CallInv'
    OBVIOUS
  <2>1. CASE Build
    <3>1. runner # NewRunner(allowEnv, optInEnv)
      BY <2>1 DEF Build, NewRunner
    <3> QED BY <2>1, <3>1 DEF Build, CallInv
  <2>2. CASE CallTool
    <3>1. runner = NewRunner(allowEnv, optInEnv)
      BY <2>2 DEF CallTool, CallInv, NotBuilt
    <3> QED BY <2>2, <3>1 DEF CallTool, CallInv
  <2>3. CASE Answered
    BY <2>3 DEF Answered, CallInv
  <2>4. CASE UNCHANGED vars
    BY <2>4 DEF vars, CallInv
  <2> QED BY <2>1, <2>2, <2>3, <2>4 DEF Next
<1> QED BY <1>1, <1>2, PTL DEF Spec

(* What a call on record is, in one place.                                  *)
LEMMA CallOnRecord ==
  ASSUME CallInv, call # NoCall
  PROVE  \E tool \in Tools : \E args \in Arguments(tool) :
           /\ call.key = tool.key /\ call.checks = tool.checks /\ call.args = args
           /\ DOMAIN args = DOMAIN tool.checks
           /\ \A i \in DOMAIN args : args[i] \in Inputs(tool.checks[i])
           /\ call.answer.reason \in {"invalid_param", "exec_error", "not_allowed",
                                      "privileged_disabled", "admitted"}
           /\ call.answer = Answer(call.answer.reason)
           /\ \/ \E i \in DOMAIN args :
                   /\ call.answer.reason = Verdict(tool, args, i)
                   /\ call.answer.reason \in {"invalid_param", "exec_error"}
                   /\ \A j \in DOMAIN args : j < i => Verdict(tool, args, j) = "good"
              \/ /\ call.answer.reason = TheGate!GateOf(tool.key, EnabledCommands(allowEnv),
                                                         PrivilegedEnabled(optInEnv))
                 /\ call.answer.reason \in {"not_allowed", "privileged_disabled", "admitted"}
                 /\ \A i \in DOMAIN args : Verdict(tool, args, i) = "good"
<1>0. PICK tool \in Tools : \E args \in Arguments(tool) :
        call = [key |-> tool.key, checks |-> tool.checks, args |-> args,
                answer |-> Handle(tool, args, runner)]
  BY DEF CallInv
<1>1. PICK args \in Arguments(tool) :
        call = [key |-> tool.key, checks |-> tool.checks, args |-> args,
                answer |-> Handle(tool, args, runner)]
  BY <1>0
<1>2. /\ call.key = tool.key /\ call.checks = tool.checks /\ call.args = args
      /\ call.answer = Handle(tool, args, runner)
  BY <1>1
<1>3. /\ runner.allowlist = EnabledCommands(allowEnv)
      /\ runner.optIn = PrivilegedEnabled(optInEnv)
  BY DEF CallInv, NewRunner
<1>4. /\ DOMAIN args = DOMAIN tool.checks
      /\ \A i \in DOMAIN args : args[i] \in Inputs(tool.checks[i])
  BY DEF Arguments
<1>5. \A r : Answer(r).reason = r
  BY DEF Answer
<1>6. \A i : Verdict(tool, args, i) \in {"good", "invalid_param", "exec_error"}
  BY Verdicts DEF Verdict
<1>7. CASE \E i \in DOMAIN tool.checks :
              /\ Handle(tool, args, runner) = Answer(Verdict(tool, args, i))
              /\ Verdict(tool, args, i) # "good"
              /\ \A j \in DOMAIN tool.checks : j < i => Verdict(tool, args, j) = "good"
  <2>1. PICK i \in DOMAIN tool.checks :
              /\ Handle(tool, args, runner) = Answer(Verdict(tool, args, i))
              /\ Verdict(tool, args, i) # "good"
              /\ \A j \in DOMAIN tool.checks : j < i => Verdict(tool, args, j) = "good"
    BY <1>7
  <2>2. call.answer.reason = Verdict(tool, args, i)
    BY <1>2, <1>5, <2>1
  <2>3. call.answer.reason \in {"invalid_param", "exec_error"}
    BY <1>6, <2>1, <2>2
  <2> QED BY <1>2, <1>4, <2>1, <2>2, <2>3
<1>8. CASE /\ Handle(tool, args, runner)
                  = Answer(TheGate!GateOf(tool.key, runner.allowlist, runner.optIn))
           /\ \A i \in DOMAIN tool.checks : Verdict(tool, args, i) = "good"
  <2>1. call.answer.reason = TheGate!GateOf(tool.key, EnabledCommands(allowEnv),
                                            PrivilegedEnabled(optInEnv))
    BY <1>2, <1>3, <1>5, <1>8
  <2>2. call.answer.reason \in {"not_allowed", "privileged_disabled", "admitted"}
    BY <2>1, GateVerdicts
  <2>3. call.answer = Answer(call.answer.reason)
    BY <1>2, <1>3, <1>8, <2>1
  <2> QED BY <1>2, <1>4, <1>8, <2>1, <2>2, <2>3
<1> QED BY <1>7, <1>8, HandleCases

-----------------------------------------------------------------------------
(* The types, the filters and the gate.                                     *)

(* Environments list what they like: the runner's keys are built-in ones,   *)
(* and every answer has one of the codes that clients know                  *)
(* (CommandRunner::new, NetdiagError::code).                                *)
THEOREM CatalogTyped == Spec => []TypeOK
<1> DEFINE Environment == allowEnv \in AllowlistEnvs /\ optInEnv \in OptInEnvs
<1>1. Init => Environment
  BY DEF Init
<1>2. Environment /\ [Next]_vars => Environment'
  BY DEF Next, Build, CallTool, Answered, vars
<1>3. ASSUME CallInv, Environment PROVE TypeOK
  <2>1. runner.allowlist \subseteq FullAllowlist /\ runner.built \in BOOLEAN
    <3>1. CASE runner = NotBuilt
      BY <3>1 DEF NotBuilt
    <3>2. CASE runner = NewRunner(allowEnv, optInEnv)
      <4>1. runner.allowlist = EnabledCommands(allowEnv) /\ runner.built = TRUE
        BY <3>2 DEF NewRunner
      <4> QED BY <4>1 DEF EnabledCommands
    <3> QED BY <1>3, <3>1, <3>2 DEF CallInv
  <2>2. ASSUME call # NoCall
        PROVE  call.key \in FullAllowlist /\ call.answer.code \in {0, -32010, -32011, -32012}
    <3>1. call.key \in FullAllowlist
      BY <1>3, <2>2, CallOnRecord, ToolsAreGood DEF GoodTool
    <3>2. call.answer.code = Code(call.answer.reason)
      BY <1>3, <2>2, CallOnRecord DEF Answer
    <3> QED BY <3>1, <3>2 DEF Code
  <2> QED BY <1>3, <2>1, <2>2 DEF TypeOK
<1> HIDE DEF Environment
<1> QED BY <1>1, <1>2, <1>3, CallAlways, PTL DEF Spec

(* The two values that have no keys.                                        *)
LEMMA EntriesOf ==
  /\ ~\E i \in DOMAIN NotUnicode.entries : TRUE
  /\ \A i \in DOMAIN Entries(<<"none">>).entries : Entries(<<"none">>).entries[i] = "none"
<1>1. NotUnicode.entries = <<>> /\ Entries(<<"none">>).entries = <<"none">>
  BY DEF NotUnicode, Entries
<1>2. <<"none">> \in Seq({"none"}) /\ Len(<<"none">>) = 1 /\ <<"none">>[1] = "none"
  OBVIOUS
<1>3. DOMAIN <<"none">> = 1..1
  BY <1>2, LenProperties
<1>4. << >> \in Seq(STRING) /\ Len(<< >>) = 0
  BY EmptySeq
<1>5. DOMAIN << >> = 1..0
  BY <1>4, LenProperties
<1> QED BY <1>1, <1>2, <1>3, <1>5

(* What each variable lists and what the filter built from it lets pass.    *)
LEMMA AllowlistListed ==
  ASSUME NEW env, NEW key \in FullAllowlist
  PROVE  /\ key \in EnabledCommands(env) => env = NotUnicode \/ Listed(env, key)
         /\ Listed(env, key) => key \in EnabledCommands(env)
<1>1. key # ""
  BY DEF FullAllowlist
<1>2. ~\E i \in DOMAIN NotUnicode.entries : TRUE
  BY EntriesOf
<1>3. key \in NonEmptyEntries(env) <=> \E i \in DOMAIN env.entries : env.entries[i] = key
  BY <1>1 DEF NonEmptyEntries, ToSet
<1> QED BY <1>2, <1>3 DEF EnabledCommands, Listed

LEMMA OptInListed ==
  ASSUME NEW key, key \notin {"", "none"}
  PROVE  key \in PrivilegedEnabled(optInEnv) <=> optInEnv # Unset /\ Listed(optInEnv, key)
<1>2. key \in NonEmptyEntries(optInEnv)
        <=> \E i \in DOMAIN optInEnv.entries : optInEnv.entries[i] = key
  BY DEF NonEmptyEntries, ToSet
<1>3. CASE optInEnv \in {Unset, NotUnicode, Entries(<<"none">>)}
  <2>1. key \notin PrivilegedEnabled(optInEnv)
    BY <1>3 DEF PrivilegedEnabled
  <2>2. optInEnv # Unset => ~Listed(optInEnv, key)
    BY <1>3, EntriesOf DEF Listed
  <2> QED BY <2>1, <2>2
<1>4. CASE optInEnv \notin {Unset, NotUnicode, Entries(<<"none">>)}
  BY <1>2, <1>4 DEF PrivilegedEnabled, Listed
<1> QED BY <1>3, <1>4

(* The opt-in that the documentation speaks of is the one the gate checks.  *)
LEMMA GateIsOptIn ==
  ASSUME NEW key \in FullAllowlist
  PROVE  TheGate!CheckPrivileged(key, PrivilegedEnabled(optInEnv))
           <=> key \notin PrivilegedKeys \/ OptedIn(key)
<1>1. key \notin {"", "none"} /\ "all" \notin {"", "none"}
  BY DEF FullAllowlist
<1> QED BY <1>1, OptInListed DEF TheGate!CheckPrivileged, OptedIn

(* A privileged command never runs without its opt-in, nor any command that *)
(* a list in NETDIAG_ALLOWLIST leaves out (CommandRunner::run).             *)
THEOREM FiltersHold == Spec => []FiltersCompose
<1>1. ASSUME CallInv, call # NoCall, call.answer.reason = "admitted"
      PROVE  /\ call.key \in PrivilegedKeys => OptedIn(call.key)
             /\ allowEnv # NotUnicode => Listed(allowEnv, call.key)
  <2>1. /\ call.key \in FullAllowlist
        /\ TheGate!GateOf(call.key, EnabledCommands(allowEnv), PrivilegedEnabled(optInEnv))
             = "admitted"
    BY <1>1, CallOnRecord, ToolsAreGood DEF GoodTool
  <2>2. /\ call.key \in EnabledCommands(allowEnv)
        /\ TheGate!CheckPrivileged(call.key, PrivilegedEnabled(optInEnv))
    BY <2>1 DEF TheGate!GateOf
  <2> QED BY <2>1, <2>2, GateIsOptIn, AllowlistListed
<1>2. CallInv => FiltersCompose
  BY <1>1 DEF FiltersCompose, IsRun, IsCall
<1> QED BY <1>2, CallAlways, PTL

(* A valid call of a listed tool is refused by neither layer, whatever else *)
(* the variables hold (parse_allowlist, parse_privileged).                  *)
THEOREM OnlyTheUnlistedRefused == Spec => []NothingElseRefused
<1>1. ASSUME CallInv, call # NoCall,
             call.answer.reason \in {"not_allowed", "privileged_disabled"}
      PROVE  \/ ~Listed(allowEnv, call.key)
             \/ call.key \in PrivilegedKeys /\ ~OptedIn(call.key)
  <2>1. /\ call.key \in FullAllowlist
        /\ TheGate!GateOf(call.key, EnabledCommands(allowEnv), PrivilegedEnabled(optInEnv))
             = call.answer.reason
    BY <1>1, CallOnRecord, ToolsAreGood DEF GoodTool
  <2>2. \/ call.key \notin EnabledCommands(allowEnv)
        \/ ~TheGate!CheckPrivileged(call.key, PrivilegedEnabled(optInEnv))
    BY <1>1, <2>1 DEF TheGate!GateOf
  <2> QED BY <2>1, <2>2, GateIsOptIn, AllowlistListed
<1>2. CallInv => NothingElseRefused
  BY <1>1 DEF NothingElseRefused, IsCall
<1> QED BY <1>2, CallAlways, PTL

(* No refusal suggests an opt-in that could not help (CommandRunner::run).  *)
THEOREM AllowlistDecidesFirst == Spec => []AllowlistFirst
<1>1. ASSUME CallInv, call # NoCall, call.answer.reason = "privileged_disabled"
      PROVE  allowEnv = NotUnicode \/ Listed(allowEnv, call.key)
  <2>1. /\ call.key \in FullAllowlist
        /\ TheGate!GateOf(call.key, EnabledCommands(allowEnv), PrivilegedEnabled(optInEnv))
             = "privileged_disabled"
    BY <1>1, CallOnRecord, ToolsAreGood DEF GoodTool
  <2>2. call.key \in EnabledCommands(allowEnv)
    BY <2>1 DEF TheGate!GateOf
  <2> QED BY <2>1, <2>2, AllowlistListed
<1>2. CallInv => AllowlistFirst
  BY <1>1 DEF AllowlistFirst, IsCall
<1> QED BY <1>2, CallAlways, PTL

-----------------------------------------------------------------------------
(* What reaches a command line.                                             *)

(* A text its validator accepts is one such word as the documents describe. *)
LEMMA ValidIsWord ==
  ASSUME NEW p \in {"interface", "unit", "target", "mac"}, NEW t \in Texts, ValidText(p, t)
  PROVE  IsWord(p, t)
<1>1. ASSUME NEW extra \in {{}, {"@"}}, ValidToken(t, extra)
      PROVE  /\ t.size \in 1..128 /\ t.first # "-" /\ "other" \notin t.chars
             /\ "@" \in t.chars => extra # {}
  BY <1>1 DEF ValidToken
<1>2. CASE p = "interface"
  <2>1. ValidToken(t, {}) /\ t.size <= 15 /\ t.chars \cap {":", "/"} = {}
    BY <1>2 DEF ValidText, ValidInterface
  <2> QED BY <1>1, <1>2, <2>1 DEF IsWord
<1>3. CASE p = "unit"
  <2>1. ValidToken(t, {"@"})
    BY <1>3 DEF ValidText
  <2> QED BY <1>1, <1>3, <2>1 DEF IsWord
<1>4. CASE p = "target"
  <2>1. ValidToken(t, {})
    BY <1>4 DEF ValidText
  <2> QED BY <1>1, <1>4, <2>1 DEF IsWord
<1>5. CASE p = "mac"
  <2>1. t.size = 17 /\ t.first = "alnum" /\ t.chars = {"alnum", ":"}
    BY <1>5, MacsAssumption DEF ValidText
  <2> QED BY <1>5, <2>1 DEF IsWord
<1> QED BY <1>2, <1>3, <1>4, <1>5

(* What a caller can send for a parameter.                                  *)
LEMMA InputForms ==
  ASSUME NEW key, NEW check, GoodCheck(key, check), NEW value \in Inputs(check)
  PROVE  /\ check.kind = "number" =>
              value = Absent \/ (value # Absent /\ value.number \in Nat /\ value.is = "number")
         /\ check.kind # "number" =>
              \/ value = Absent /\ check.kind = "opt_text"
              \/ value # Absent /\ value.is = "text" /\ value.text \in Texts
<1>1. Absent.is = "absent"
  BY DEF Absent
<1>2. \A t : Given(t).is = "text" /\ Given(t).text = t
  BY DEF Given
<1>3. \A n : Value(n).is = "number" /\ Value(n).number = n
  BY DEF Value
<1>4. CASE check.kind = "number"
  <2>1. Inputs(check) = {Absent} \cup {Value(n) : n \in {0, check.min, check.max, check.max + 1}}
    BY <1>4 DEF Inputs
  <2>2. {0, check.min, check.max, check.max + 1} \subseteq Nat
    BY <1>4 DEF GoodCheck
  <2> QED BY <1>1, <1>3, <1>4, <2>1, <2>2
<1>5. CASE check.kind \in {"text", "device"}
  <2>1. Inputs(check) = {Given(t) : t \in Texts}
    BY <1>5 DEF Inputs
  <2> QED BY <1>1, <1>2, <1>5, <2>1
<1>6. CASE check.kind = "opt_text"
  <2>1. Inputs(check) = {Absent} \cup {Given(t) : t \in Texts}
    BY <1>6 DEF Inputs
  <2> QED BY <1>1, <1>2, <1>6, <2>1
<1> QED BY <1>4, <1>5, <1>6 DEF GoodCheck

(* Every number on a command line is in its documented range, defaults      *)
(* included, and every text is one harmless word (the handlers, bounded and *)
(* the validators).                                                         *)
THEOREM RunsValidated == Spec => []RunsAreValidated
<1>1. ASSUME CallInv, call # NoCall, call.answer.reason = "admitted", NEW i \in DOMAIN call.args
      PROVE  /\ call.checks[i].kind = "number" =>
                  Chosen(call.checks[i], call.args[i]) \in 1..Limit(call.key, call.checks[i].param)
             /\ call.args[i].is = "text" => IsWord(call.checks[i].param, call.args[i].text)
  <2> DEFINE check == call.checks[i]
             value == call.args[i]
  <2>1. /\ GoodCheck(call.key, check) /\ value \in Inputs(check)
        /\ VerdictOf(check, value) = "good"
    BY <1>1, CallOnRecord, ToolsAreGood DEF GoodTool, Verdict
  <2> HIDE DEF check, value
  <2>2. CASE check.kind = "number"
    <3>1. /\ check.min = 1 /\ check.max = Limit(call.key, check.param)
          /\ check.max \in Nat /\ check.default \in 1..check.max
      BY <2>1, <2>2 DEF GoodCheck
    <3>2. CASE value = Absent
      <4>1. Chosen(check, value) = check.default /\ value.is # "text"
        BY <3>2 DEF Chosen, Absent
      <4> QED BY <3>1, <4>1 DEF check, value
    <3>3. CASE value # Absent
      <4>1. value.number \in Nat /\ value.is = "number"
        BY <2>1, <2>2, <3>3, InputForms
      <4>2. Bounded(check, value.number)
        BY <2>1, <2>2, <3>3 DEF VerdictOf
      <4>3. Chosen(check, value) = value.number /\ value.number \in 1..check.max
        BY <3>1, <3>3, <4>1, <4>2 DEF Chosen, Bounded
      <4> QED BY <3>1, <4>1, <4>3 DEF check, value
    <3> QED BY <3>2, <3>3
  <2>3. CASE check.kind # "number"
    <3>1. CASE value = Absent
      BY <2>3, <3>1 DEF Absent, check, value
    <3>2. CASE value # Absent
      <4>1. value.text \in Texts
        BY <2>1, <2>3, <3>2, InputForms
      <4>2. CASE check.kind = "device"
        <5>1. check.param = "interface"
          BY <2>1, <4>2 DEF GoodCheck
        <5>2. ValidText(check.param, value.text)
          BY <2>1, <3>2, <4>2, <5>1 DEF VerdictOf, CaptureVerdict, ValidText
        <5> QED BY <2>3, <4>1, <5>1, <5>2, ValidIsWord DEF check, value
      <4>3. CASE check.kind # "device"
        <5>1. check.param \in {"interface", "unit", "target", "mac"}
          BY <2>1, <2>3, <4>3 DEF GoodCheck
        <5>2. ValidText(check.param, value.text)
          BY <2>1, <2>3, <3>2, <4>3 DEF VerdictOf
        <5> QED BY <2>3, <4>1, <5>1, <5>2, ValidIsWord DEF check, value
      <4> QED BY <4>2, <4>3
    <3> QED BY <3>1, <3>2
  <2> QED BY <2>2, <2>3
<1>2. CallInv => RunsAreValidated
  BY <1>1 DEF RunsAreValidated, IsRun, IsCall
<1> QED BY <1>2, CallAlways, PTL

(* A capture runs only on a device of this host, and neither is the host's  *)
(* failure blamed on the caller nor the caller's on the host                *)
(* (validate_capture_interface).                                            *)
THEOREM CapturesOnDevices == Spec => []CapturesAreOfDevices
<1>1. ASSUME CallInv, call # NoCall, call.key = "tcpdump_sample",
             NEW t, t = call.args[1].text
      PROVE  /\ call.answer.reason = "admitted" =>
                  t.sysfs = "device" /\ t.name = "plain" /\ ~t.digits
             /\ call.answer.reason = "exec_error" => t.sysfs = "unreadable"
             /\ call.answer.reason = "invalid_param" /\ t.sysfs = "unreadable" =>
                  \/ t.first = "-" \/ t.size \notin 1..15 \/ t.digits \/ t.name # "plain"
                  \/ t.chars \cap {"/", ":", "@", "other"} # {}
                  \/ call.args[2] # Absent
  <2> DEFINE device == Device("interface")
             count  == Number("count", 1, 50, 10)
  <2>1. PICK tool \in Tools :
          /\ call.key = tool.key /\ call.checks = tool.checks
          /\ DOMAIN call.args = DOMAIN tool.checks
          /\ \A i \in DOMAIN call.args : call.args[i] \in Inputs(tool.checks[i])
          /\ \/ \E i \in DOMAIN call.args :
                  /\ call.answer.reason = Verdict(tool, call.args, i)
                  /\ call.answer.reason \in {"invalid_param", "exec_error"}
             \/ /\ call.answer.reason \in {"not_allowed", "privileged_disabled", "admitted"}
                /\ \A i \in DOMAIN call.args : Verdict(tool, call.args, i) = "good"
    BY <1>1, CallOnRecord
  <2>2. tool.checks = <<device, count>>
    BY <1>1, <2>1, TheCaptureTool
  <2>3. /\ DOMAIN call.args = 1..2
        /\ call.args[1] \in Inputs(device)
        /\ Verdict(tool, call.args, 1) = VerdictOf(device, call.args[1])
        /\ Verdict(tool, call.args, 2) = VerdictOf(count, call.args[2])
    <3> HIDE DEF device, count
    <3>1. DOMAIN tool.checks = 1..2 /\ tool.checks[1] = device /\ tool.checks[2] = count
      BY <2>2
    <3> QED BY <2>1, <3>1 DEF Verdict
  <2>4. device.kind = "device" /\ count.kind = "number"
    BY DEF Device, Number
  <2>5. call.args[1] # Absent /\ t \in Texts
    BY <1>1, <2>3, <2>4, InputForms, DeviceChecks
  <2>6. VerdictOf(device, call.args[1]) = CaptureVerdict(t)
    BY <1>1, <2>4, <2>5 DEF VerdictOf
  <2>7. t \in TextForms
    BY <2>5, TextsAssumption
  <2> HIDE DEF device, count
  <2>8. CaptureVerdict(t) = "good" => t.sysfs = "device" /\ t.name = "plain" /\ ~t.digits
    BY <2>7 DEF CaptureVerdict, TextForms, ValidInterface
  <2>9. CaptureVerdict(t) = "exec_error" => t.sysfs = "unreadable"
    BY DEF CaptureVerdict
  <2>10. CaptureVerdict(t) = "invalid_param" /\ t.sysfs = "unreadable" =>
           \/ t.first = "-" \/ t.size \notin 1..15 \/ t.digits \/ t.name # "plain"
           \/ t.chars \cap {"/", ":", "@", "other"} # {}
    <3> SUFFICES ASSUME t.sysfs = "unreadable", ~t.digits, t.name = "plain", t.first # "-",
                        t.size \in 1..15, t.chars \cap {"/", ":", "@", "other"} = {}
                 PROVE  CaptureVerdict(t) # "invalid_param"
      OBVIOUS
    <3>1. t.chars \subseteq {"alnum", ".", "-", "_"}
      BY <2>7 DEF TextForms, Characters
    <3>2. t.size \in 1..128 /\ t.size <= 15
      OBVIOUS
    <3>3. ValidToken(t, {})
      BY <3>1, <3>2 DEF ValidToken
    <3>4. ValidInterface(t)
      <4>1. t.chars \cap {":", "/"} = {} /\ t.name \notin {".", ".."}
        BY <3>1
      <4> QED BY <3>2, <3>3, <4>1 DEF ValidInterface
    <3> QED BY <3>4 DEF CaptureVerdict
  <2>11. VerdictOf(count, call.args[2]) # "exec_error"
    BY <2>4, Verdicts
  <2>12. call.args[2] = Absent => VerdictOf(count, call.args[2]) = "good"
    BY DEF VerdictOf
  <2> QED BY <2>1, <2>3, <2>6, <2>8, <2>9, <2>10, <2>11, <2>12
<1>2. CallInv => CapturesAreOfDevices
  BY <1>1 DEF CapturesAreOfDevices, IsRun, IsCall
<1> QED BY <1>2, CallAlways, PTL
=============================================================================
