---------------------------- MODULE MCOutboxRelay ----------------------------
(* A small instance of OutboxRelay.                                         *)
EXTENDS OutboxRelay

CONSTANTS audit, plain

\* One row of each delivery class; the audit row is the older one.
MCRows      == {audit, plain}
MCCreatedAt == [e \in MCRows |-> IF e = audit THEN 1 ELSE 2]
==============================================================================
