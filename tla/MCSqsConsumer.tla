---------------------------- MODULE MCSqsConsumer ----------------------------
(* Small instances of SqsConsumer.                                          *)
EXTENDS SqsConsumer

CONSTANTS c1, c2, m1, m2, m3

\* One command, sent twice.
Twice     == {m1, m2}
TwiceOf   == [m \in Twice |-> c1]

\* A good command, one whose handlers always throw, and a body that does not parse.
Mixed     == {m1, m2, m3}
MixedOf   == [m \in Mixed |-> IF m = m2 THEN c2 ELSE c1]
==============================================================================
