----------------------------- MODULE MCJobEvents -----------------------------
(* Small instances of the event streams for TLC.                           *)
EXTENDS JobEvents

CONSTANTS c1, c2, c3, k1, n1, q1, q2, f1

\* A fresh UUID per call: the call's own name.
FreshId == [c \in Call |-> c]

\* Submissions under one key, the last with another body.
OneKey   == [c \in Call |-> k1]
TwoHash  == [c \in Call |-> IF c = c3 THEN "other body" ELSE "body"]
OneConn  == [c \in Call |-> n1]

OneWrite  == <<"write">>
TwoWrites == <<"write", "write">>
=============================================================================
