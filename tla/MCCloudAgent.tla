---------------------------- MODULE MCCloudAgent ----------------------------
(* Small instances of the cloud agent for TLC: deliveries a1, a2, a3 of job *)
(* ja and b1 of job jb.                                                     *)
EXTENDS CloudAgent

CONSTANTS a1, a2, a3, b1, ja, jb, n1, q1

JobOf   == [c \in Call |-> IF c = b1 THEN jb ELSE ja]
Digests == [c \in Call |-> IF c = a3 THEN "other digest" ELSE "digest"]
Digest  == [c \in Call |-> "digest"]
OneConn == [c \in Call |-> n1]

OneWrite == <<"write">>
=============================================================================
