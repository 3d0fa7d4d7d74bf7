-------------------------------- MODULE Gate --------------------------------
(* The two-layer refusal decision of CommandRunner::run: the allowlist the  *)
(* runner was built with, then the privileged opt-in set.  Both layers are  *)
(* captured once at construction, so they are parameters of the decision.   *)

CONSTANTS PrivilegedKeys,  \* PRIVILEGED_KEYS
          AllSentinel      \* PRIVILEGED_ALL_SENTINEL, the "all" entry

\* check_privileged: a key passes unless it is privileged and not opted in.
CheckPrivileged(key, optIn) ==
  \/ key \notin PrivilegedKeys
  \/ AllSentinel \in optIn
  \/ key \in optIn

\* Mutants of GateOf: an opt-in widens the allowlist; the privileged check
\* comes first.
GateOptInWidens(key, allowlist, optIn) ==
  IF key \notin allowlist \cup optIn THEN "not_allowed"
  ELSE IF ~CheckPrivileged(key, optIn) THEN "privileged_disabled"
  ELSE "admitted"

GatePrivilegedFirst(key, allowlist, optIn) ==
  IF ~CheckPrivileged(key, optIn) THEN "privileged_disabled"
  ELSE IF key \notin allowlist THEN "not_allowed"
  ELSE "admitted"

\* The fixed precedence of CommandExecutor::run: allowlist miss first.
GateOf(key, allowlist, optIn) ==
  IF key \notin allowlist THEN "not_allowed"
  ELSE IF ~CheckPrivileged(key, optIn) THEN "privileged_disabled"
  ELSE "admitted"
=============================================================================
