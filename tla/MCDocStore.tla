----------------------------- MODULE MCDocStore -----------------------------
EXTENDS DocStore

D(u, v) == [uid |-> u, val |-> [f \in FieldIds |-> v]]

\* One document, two, and a batch that names a uid twice.
SomeBatches == {<<D(7, 1)>>, <<D(7, 2), D(8, -1)>>, <<D(8, 1), D(8, 2)>>}
=============================================================================
