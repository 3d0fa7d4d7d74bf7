--------------------------- MODULE MCCommandRunner ---------------------------
(* CommandRunner on small instances: a command that needs no privilege, one *)
(* that is privileged and not opted in, and the file diagnostic.            *)
EXTENDS CommandRunner, TLC

CONSTANTS c1, c2, c3

MCCalls      == {c1, c2, c3}
MCTwoCalls   == {c1, c2}
MCKeys       == {"uptime", "dmesg", "resolv_conf"}
MCFewKeys    == {"uptime", "resolv_conf"}
MCAllowlist  == {"uptime", "ping", "dmesg", "resolv_conf"}
MCOptIn      == {"ping"}
MCPrivileged == {"ping", "dmesg"}
MCFileKeys   == {"resolv_conf"}

\* Calls are interchangeable in every safety property.
CallSymmetry == Permutations(MCCalls)
=============================================================================
