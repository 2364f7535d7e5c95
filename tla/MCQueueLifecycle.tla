--------------------------- MODULE MCQueueLifecycle ---------------------------
(* Small instances of QueueLifecycle.                                        *)
EXTENDS QueueLifecycle

CONSTANTS w1, w2, t1, t2
==============================================================================
