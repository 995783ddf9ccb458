--------------------------- MODULE MCDebugMonitor ---------------------------
(* Small instances of DebugMonitor.                                        *)
EXTENDS DebugMonitor

CONSTANTS e1, e2, m1, m2, t1, t2, t3
=============================================================================
