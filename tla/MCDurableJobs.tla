---------------------------- MODULE MCDurableJobs ----------------------------
(* Constants of DurableJobs for TLC. *)
EXTENDS DurableJobs

CONSTANTS w1, w2, j1, j2, j3, k1, k2

(* j1 and j2 are two submissions of one job; j3 is another, of higher priority *)
SharedKey == [j \in Jobs |-> IF j = j3 THEN k2 ELSE k1]
OwnKeys   == [j \in Jobs |-> None]
J3First   == [j \in Jobs |-> IF j = j3 THEN 5 ELSE 0]
Equal     == [j \in Jobs |-> 0]
TwoTries  == [j \in Jobs |-> 2]
=============================================================================
