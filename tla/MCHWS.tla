-------------------------------- MODULE MCHWS ----------------------------------
EXTENDS HWS
CONSTANTS m1, m2, s1, s2

\* One master with two slaves, one whose regions find no idle core; there is one
\* event, so that the second to ask is granted it or refused.
TrioAndOne == [m \in {m1, m2} |-> IF m = m1 THEN {s1, s2} ELSE {}]
=============================================================================
