----------------------------- MODULE MCSqsFanout -----------------------------
(* Small instances of SqsFanout.                                            *)
EXTENDS SqsFanout

CONSTANTS audit, plain, s1, s2
==============================================================================
