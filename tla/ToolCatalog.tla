---------------------------- MODULE ToolCatalog ----------------------------
(* The path of one tools/call from its arguments to the command runner: the *)
(* tool handlers of src/mcp/mod.rs (which parameters they check, in which   *)
(* order, and which command key they run), the validators of                *)
(* src/netdiag/validators.rs, the filters that CommandRunner::new takes     *)
(* from the environment (src/config.rs) and the refusal gate.               *)
(*                                                                          *)
(* A text is abstracted to what the validators look at, a number keeps its  *)
(* value, a variable of the environment is the sequence of its trimmed      *)
(* comma-separated entries (or it is unset, or not Unicode).                *)
EXTENDS Integers, Sequences, FiniteSets, SequencesExt

CONSTANTS AllowlistEnvs,  \* values NETDIAG_ALLOWLIST may have
          OptInEnvs,      \* values NETDIAG_ENABLE_PRIVILEGED may have
          Texts           \* texts callers give

\* Of a text: its bytes, its first character, the kinds of characters in it, a
\* name that is special, whether it is six hex pairs, whether it is all digits,
\* and what /sys/class/net has under that name.
Characters == {"alnum", ".", ":", "-", "_", "/", "@", "other"}
TextForms  == [size : Nat, first : Characters \cup {"none"}, chars : SUBSET Characters,
               name : {"plain", ".", "..", "any"}, mac : BOOLEAN, digits : BOOLEAN,
               sysfs : {"device", "missing", "file", "unreadable"}]

ASSUME TextsAssumption == Texts \subseteq TextForms

\* Six hex pairs with a colon between them.
ASSUME MacsAssumption ==
  \A t \in Texts : t.mac => t.size = 17 /\ t.first = "alnum" /\ t.chars = {"alnum", ":"}

\* A variable that is not set, one whose value is not Unicode, and one with
\* the given entries.
Unset        == [kind |-> "unset", entries |-> <<>>]
NotUnicode   == [kind |-> "not_unicode", entries |-> <<>>]
Entries(seq) == [kind |-> "set", entries |-> seq]

VARIABLES allowEnv, optInEnv,  \* the environment at startup
          runner,              \* the runner's two filters, once built
          call                 \* the last tools/call and its outcome

vars == <<allowEnv, optInEnv, runner, call>>

-----------------------------------------------------------------------------
(* The tools.                                                               *)

Text(name)      == [param |-> name, kind |-> "text",     min |-> 0, max |-> 0,  default |-> 0]
OptText(name)   == [param |-> name, kind |-> "opt_text", min |-> 0, max |-> 0,  default |-> 0]
Device(name)    == [param |-> name, kind |-> "device",   min |-> 0, max |-> 0,  default |-> 0]
Number(name, lo, hi, d) ==
                   [param |-> name, kind |-> "number",   min |-> lo, max |-> hi, default |-> d]

\* A tool runs one command key after checking its parameters in order.
Tool(key, checks) == [key |-> key, checks |-> checks]

LinkTools ==
  { Tool("if_status", <<OptText("interface")>>),
    Tool("mac_table", <<Text("mac")>>),
    Tool("neighbors", <<OptText("interface")>>) }

RoutingTools ==
  { Tool("routes",      <<>>),
    Tool("addr",        <<OptText("interface")>>),
    Tool("link_detail", <<OptText("interface")>>),
    Tool("route_get",   <<Text("target")>>),
    Tool("rules",       <<>>) }

ProbeTools ==
  { Tool("ping", <<Text("target"), Number("count", 1, 10, 3),
                   Number("timeout_secs", 1, 5, 2)>>),
    Tool("traceroute", <<Text("target"), Number("max_hops", 1, 30, 12)>>) }

StateTools ==
  { Tool("sockets",     <<>>),
    Tool("dns_status",  <<>>),
    Tool("resolv_conf", <<>>),
    Tool("ethtool",     <<Text("interface")>>),
    Tool("firewall",    <<>>),
    Tool("conntrack",   <<>>) }

CaptureTools ==
  { Tool("tcpdump_sample", <<Device("interface"), Number("count", 1, 50, 10)>>) }

UnitTools ==
  { Tool("logs", <<Number("lines", 1, 200, 50), OptText("unit")>>),
    Tool("failed_units", <<>>),
    Tool("service_status", <<Text("unit"), Number("lines", 1, 200, 50)>>) }

HostTools ==
  { Tool(key, <<>>) : key \in {"dmesg", "uptime", "memory", "filesystems"} }

Tools == LinkTools \cup RoutingTools \cup ProbeTools \cup StateTools
         \cup CaptureTools \cup UnitTools \cup HostTools

\* full_allowlist and the privileged subset.
FullAllowlist ==
  { "if_status", "mac_table", "neighbors", "routes", "addr", "link_detail",
    "route_get", "rules", "ping", "traceroute", "sockets", "dns_status",
    "resolv_conf", "ethtool", "firewall", "conntrack", "tcpdump_sample",
    "logs", "failed_units", "service_status", "dmesg", "uptime", "memory",
    "filesystems" }

PrivilegedKeys ==
  {"ping", "traceroute", "tcpdump_sample", "firewall", "conntrack", "dmesg"}

TheGate == INSTANCE Gate WITH PrivilegedKeys <- PrivilegedKeys, AllSentinel <- "all"

-----------------------------------------------------------------------------
(* The filters, built once at startup.                                      *)

NonEmptyEntries(env) == ToSet(env.entries) \ {""}

\* enabled_commands: unset, or not readable as text, means no filter.
EnabledCommands(env) ==
  IF env \in {Unset, NotUnicode} THEN FullAllowlist
  ELSE FullAllowlist \cap NonEmptyEntries(env)

\* Mutant of PrivilegedEnabled: "none" anywhere in the list.
NoneAnywhere(env) ==
  IF env \in {Unset, NotUnicode} \/ "none" \in ToSet(env.entries) THEN {}
  ELSE NonEmptyEntries(env)

\* privileged_enabled: "none" only as the whole value.
PrivilegedEnabled(env) ==
  IF env \in {Unset, NotUnicode, Entries(<<"none">>)} THEN {}
  ELSE NonEmptyEntries(env)

NewRunner(allow, optIn) ==
  [allowlist |-> EnabledCommands(allow), optIn |-> PrivilegedEnabled(optIn),
   built |-> TRUE]

-----------------------------------------------------------------------------
(* The validators.                                                          *)

\* Mutant of ValidToken: a leading dash is let through.
TokenWithDash(t, extra) ==
  /\ t.size \in 1..128
  /\ t.chars \subseteq {"alnum", ".", ":", "-", "_", "/"} \cup extra

\* validate_token_with_extra.
ValidToken(t, extra) ==
  /\ t.size \in 1..128
  /\ t.first # "-"
  /\ t.chars \subseteq {"alnum", ".", ":", "-", "_", "/"} \cup extra

\* validate_interface: a name the kernel would accept.
ValidInterface(t) ==
  /\ ValidToken(t, {})
  /\ t.size <= 15
  /\ t.name \notin {".", ".."} /\ t.chars \cap {":", "/"} = {}

\* Mutant of CaptureVerdict: what cannot be checked is taken for a device.
CaptureUnchecked(t) ==
  IF ~ValidInterface(t) \/ t.digits \/ t.name = "any" \/ t.sysfs \in {"missing", "file"}
  THEN "invalid_param" ELSE "good"

\* validate_capture_interface: pseudo-devices and indexes are refused before
\* the host is asked.
CaptureVerdict(t) ==
  IF ~ValidInterface(t) \/ t.digits \/ t.name = "any" \/ t.sysfs \in {"missing", "file"}
  THEN "invalid_param"
  ELSE IF t.sysfs = "unreadable" THEN "exec_error" ELSE "good"

ValidText(param, t) ==
  CASE param = "interface" -> ValidInterface(t)
    [] param = "unit"      -> ValidToken(t, {"@"})
    [] param = "target"    -> ValidToken(t, {})
    [] param = "mac"       -> t.mac

-----------------------------------------------------------------------------
(* One call.                                                                *)

\* A value a caller gives: a text, a number, or nothing.
Given(t)   == [is |-> "text", text |-> t]
Value(n)   == [is |-> "number", number |-> n]
Absent     == [is |-> "absent"]

\* What a caller may send for a parameter that deserialises: a text, a number at
\* or around both ends of its range, or nothing where the parameter is optional.
Inputs(check) ==
  CASE check.kind \in {"text", "device"} -> {Given(t) : t \in Texts}
    [] check.kind = "opt_text"           -> {Absent} \cup {Given(t) : t \in Texts}
    [] check.kind = "number"             -> {Absent} \cup {Value(n) : n \in
                                              {0, check.min, check.max, check.max + 1}}

Arguments(tool) ==
  {args \in [DOMAIN tool.checks -> UNION {Inputs(tool.checks[i]) : i \in DOMAIN tool.checks}] :
     \A i \in DOMAIN args : args[i] \in Inputs(tool.checks[i])}

\* Mutant of Bounded: the upper end is one too far.
BoundedPastMax(check, n) == check.min <= n /\ n <= check.max + 1

\* bounded(): a number given must be in its range.
Bounded(check, n) == check.min <= n /\ n <= check.max

\* What is wrong with a value, if anything.
VerdictOf(check, value) ==
  IF value = Absent THEN "good"
  ELSE CASE check.kind = "device" -> CaptureVerdict(value.text)
         [] check.kind = "number" ->
              IF Bounded(check, value.number) THEN "good" ELSE "invalid_param"
         [] OTHER -> IF ValidText(check.param, value.text) THEN "good" ELSE "invalid_param"

\* The number a handler passes on.
Chosen(check, value) == IF value = Absent THEN check.default ELSE value.number

Code(reason) ==
  CASE reason = "invalid_param"                              -> -32010
    [] reason \in {"not_allowed", "privileged_disabled"}     -> -32011
    [] reason = "exec_error"                                 -> -32012
    [] OTHER                                                 -> 0

Answer(reason) == [reason |-> reason, code |-> Code(reason)]

\* The handler: the first check that fails decides; then the gate; then the
\* command runs.
Handle(tool, args, filters) ==
  LET failed == {i \in DOMAIN args : VerdictOf(tool.checks[i], args[i]) # "good"} IN
  IF failed # {}
  THEN LET first == CHOOSE i \in failed : \A j \in failed : i <= j IN
       Answer(VerdictOf(tool.checks[first], args[first]))
  ELSE Answer(TheGate!GateOf(tool.key, filters.allowlist, filters.optIn))

NoCall    == [key |-> "none"]
NotBuilt  == [allowlist |-> {}, optIn |-> {}, built |-> FALSE]

Init ==
  /\ allowEnv \in AllowlistEnvs /\ optInEnv \in OptInEnvs
  /\ runner = NotBuilt
  /\ call = NoCall

\* CommandRunner::new.
Build ==
  /\ ~runner.built
  /\ runner' = NewRunner(allowEnv, optInEnv)
  /\ UNCHANGED <<allowEnv, optInEnv, call>>

CallTool ==
  /\ runner.built /\ call = NoCall
  /\ \E tool \in Tools : \E args \in Arguments(tool) :
       call' = [key |-> tool.key, checks |-> tool.checks, args |-> args,
                answer |-> Handle(tool, args, runner)]
  /\ UNCHANGED <<allowEnv, optInEnv, runner>>

\* The client has the answer; the runner keeps nothing of the call.
Answered ==
  /\ call # NoCall
  /\ call' = NoCall
  /\ UNCHANGED <<allowEnv, optInEnv, runner>>

Next == Build \/ CallTool \/ Answered

Spec == Init /\ [][Next]_vars

-----------------------------------------------------------------------------
(* Properties.  The documented rules are written here from the environment  *)
(* itself, not from the runner's filters.                                   *)

\* The runner's keys are built-in ones, whatever the environment lists, and
\* every answer has a code that clients know.
TypeOK ==
  /\ allowEnv \in AllowlistEnvs /\ optInEnv \in OptInEnvs
  /\ runner.allowlist \subseteq FullAllowlist /\ runner.built \in BOOLEAN
  /\ call # NoCall => /\ call.key \in FullAllowlist
                      /\ call.answer.code \in {0, -32010, -32011, -32012}

IsCall  == call # NoCall
IsRun   == IsCall /\ call.answer.reason = "admitted"

Listed(env, key) == env = Unset \/ \E i \in DOMAIN env.entries : env.entries[i] = key
OptedIn(key) ==
  /\ optInEnv # Unset
  /\ Listed(optInEnv, key) \/ Listed(optInEnv, "all")

\* A privileged command never runs without its own name or "all" in
\* NETDIAG_ENABLE_PRIVILEGED, and never when a list in NETDIAG_ALLOWLIST
\* leaves it out: the two compose by AND (CommandExecutor::run).
FiltersCompose ==
  IsRun => /\ call.key \in PrivilegedKeys => OptedIn(call.key)
           /\ allowEnv # NotUnicode => Listed(allowEnv, call.key)

\* Nothing else is refused: a valid call of a listed tool runs, whatever
\* unknown or misspelt entries the variables hold (parse_privileged,
\* parse_allowlist).
NothingElseRefused ==
  IsCall /\ call.answer.reason \in {"not_allowed", "privileged_disabled"} =>
    \/ ~Listed(allowEnv, call.key)
    \/ call.key \in PrivilegedKeys /\ ~OptedIn(call.key)

\* A tool the allowlist leaves out is never answered with the privileged
\* message, which would say that an opt-in could enable it.
AllowlistFirst ==
  IsCall /\ allowEnv # NotUnicode /\ ~Listed(allowEnv, call.key) =>
    call.answer.reason # "privileged_disabled"

\* The ranges SECURITY.md gives, and the words no program takes for an option.
Limit(key, p) ==
  CASE p = "count" /\ key = "ping" -> 10
    [] p = "count" /\ key # "ping" -> 50
    [] p = "timeout_secs" -> 5
    [] p = "max_hops" -> 30
    [] p = "lines" -> 200
IsWord(p, t) ==
  /\ t.size \in 1..128 /\ t.first # "-" /\ "other" \notin t.chars
  /\ "@" \in t.chars => p = "unit"
  /\ p = "interface" => t.size <= 15 /\ {"/", ":"} \cap t.chars = {}

\* Every number that reaches a command line is in its range, defaults included,
\* and every text is one such word (the handlers with bounded and the validators).
RunsAreValidated ==
  IsRun => \A i \in DOMAIN call.args :
    LET check == call.checks[i] value == call.args[i] IN
    /\ check.kind = "number" => Chosen(check, value) \in 1..Limit(call.key, check.param)
    /\ value.is = "text" => IsWord(check.param, value.text)

\* A capture runs only on a network device of this host, never on a pseudo-device
\* or an index of tcpdump's own list; and a host that cannot be asked is reported
\* as such, never as the caller's mistake, nor the reverse
\* (validate_capture_interface).
CapturesAreOfDevices ==
  IsCall /\ call.key = "tcpdump_sample" =>
    LET t == call.args[1].text IN
    /\ IsRun => t.sysfs = "device" /\ t.name = "plain" /\ ~t.digits
    /\ call.answer.reason = "exec_error" => t.sysfs = "unreadable"
    /\ call.answer.reason = "invalid_param" /\ t.sysfs = "unreadable" =>
         \/ t.first = "-" \/ t.size \notin 1..15 \/ t.digits \/ t.name # "plain"
         \/ t.chars \cap {"/", ":", "@", "other"} # {}
         \/ call.args[2] # Absent
=============================================================================
