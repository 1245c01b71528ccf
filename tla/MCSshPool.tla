----------------------------- MODULE MCSshPool -----------------------------
EXTENDS SshPool

CONSTANTS r1, r2, p1, q1, h1, h2

MCHostOf == [t \in Tasks |-> IF t = q1 THEN h2 ELSE h1]
=============================================================================
