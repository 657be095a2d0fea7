---------------------------- MODULE MCRpcLimiter -----------------------------
(* An instance of RpcLimiter: twice as many calls as a window has room for,    *)
(* on a clock that leaves the last of them its deadline.                       *)
EXTENDS RpcLimiter

MCSpec == LimiterSpec /\ LimiterFairness
==============================================================================
