---------------------------- MODULE MCOrderSaga ----------------------------
(* Instances of OrderSaga: every order is for the one product.             *)
EXTENDS OrderSaga, TLC

CONSTANTS o1, o2, p1, h1, c1, r1, r2, k1

OneProduct == [o \in Orders |-> p1]
=============================================================================
