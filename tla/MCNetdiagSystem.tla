--------------------------- MODULE MCNetdiagSystem ---------------------------
(* NetdiagSystem with two requests that contend for one slot and for the    *)
(* journal: one command is a process, the other a file read.                *)
EXTENDS NetdiagSystem

CONSTANTS r1, r2

MCRequests   == {r1, r2}
MCRefused    == {"refused"}
MCFinished   == {"ok", "exec_error"}
MCKeys       == {"uptime", "resolv_conf"}
MCPrivileged == {"ping"}
MCFileKeys   == {"resolv_conf"}
=============================================================================
