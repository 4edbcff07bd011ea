--------------------------- MODULE MCDaemonStart ---------------------------
(***************************************************************************)
(* Three instances whose pids have one, two and one digits, so that a pid  *)
(* is written over a longer and over a shorter one.                        *)
(***************************************************************************)
EXTENDS DaemonStart

CONSTANTS first, second, third

MCPid(d) == CASE d = first -> <<9>> [] d = second -> <<1, 0>> [] d = third -> <<2>>
=============================================================================
