----------------------------- MODULE MCFileLock -----------------------------
(* Small instances of FileLock for TLC.                                      *)
EXTENDS FileLock, TLC

CONSTANTS t1, t2, t3

\* Two threads of one server process and a thread of another one.
TwoServers == {{t1, t2}, {t3}}
=============================================================================
