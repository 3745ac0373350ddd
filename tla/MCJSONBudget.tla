---------------------------- MODULE MCJSONBudget ----------------------------
EXTENDS JSONBudget

\* A limit of its own, and none.
MCOptions == {-1, 7}
\* Up to beyond twice the larger limit.
MCSizes == 1..17
=============================================================================
