--------------------------- MODULE MCSearchIndex ---------------------------
EXTENDS SearchIndex

CONSTANTS w1, p1, p2, s1, s2

MCHolds == (p1 :> {s1, s2}) @@ (p2 :> {s2})
MCLayout == <<[entry |-> 1, from |-> 0, to |-> 2], [entry |-> 1, from |-> 1, to |-> 3]>>
=============================================================================
