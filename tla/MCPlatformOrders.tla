-------------------------- MODULE MCPlatformOrders ----------------------------
(***************************************************************************)
(* The notices of the runs of PlatformOrders, all of one order.            *)
(***************************************************************************)
EXTENDS PlatformOrders, TLC

CONSTANTS t1, t2, o1, n1

MCOrderOf == [n \in Notices |-> o1]

\* Only where no liveness is checked.
Same == Permutations(Tablets)
=============================================================================
