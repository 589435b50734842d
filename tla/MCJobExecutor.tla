---------------------------- MODULE MCJobExecutor ----------------------------
(* Small instances of the job executor for TLC.                            *)
EXTENDS JobExecutor

CONSTANTS c1, c2, c3, k1, n1, q1, q2

\* A fresh UUID per call: the call's own name.
FreshId == [c \in Call |-> c]

\* Three submissions under one key, the last with another body.
OneKey   == [c \in Call |-> k1]
TwoHash  == [c \in Call |-> IF c = c3 THEN "other body" ELSE "body"]

NoKeys   == [c \in Call |-> NoKey]
OneConn  == [c \in Call |-> n1]
MixConn  == [c \in Call |-> IF c = c3 THEN NoConn ELSE n1]

OneWrite  == <<"write">>
TwoWrites == <<"write", "write">>
Handshake == <<"subscribe", "write", "wait">>
=============================================================================
