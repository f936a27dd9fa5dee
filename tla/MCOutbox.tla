------------------------------ MODULE MCOutbox ------------------------------
EXTENDS Outbox

\* Two digests, a week apart.
MCCadence == <<[interval |-> 3, sends |-> 1], [interval |-> 3, sends |-> 1]>>
MCWishes == {Everything}
=============================================================================
