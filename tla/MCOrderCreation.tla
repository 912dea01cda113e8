-------------------------- MODULE MCOrderCreation --------------------------
(* Three requests under one key and a fourth, from a second tab, under     *)
(* another.                                                                *)
EXTENDS OrderCreation

CONSTANTS q1, q2, q3, q4, k1, k2

TwoTabs == [r \in Requests |-> IF r = q4 THEN k2 ELSE k1]
=============================================================================
