------------------------------ MODULE MCOrders ------------------------------
(***************************************************************************)
(* A small instance of Orders for TLC: the time of the first line is not   *)
(* given (cfg), that of the second is written by a clock two moments       *)
(* ahead, and the third arrives while others are collected.                *)
(***************************************************************************)
EXTENDS Orders

MCMarketOf == <<"toss", "coupang", "toss">>
MCMoment == <<0, 0, 1>>
MCAhead == [market \in Markets |-> IF market = "coupang" THEN 2 ELSE 0]
MCFilters == [market \in Markets |-> IF market = "toss" THEN {{1}} ELSE {Statuses}]
=============================================================================
