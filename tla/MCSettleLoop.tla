---------------------------- MODULE MCSettleLoop ----------------------------
(* Every state of a five-node graph that has the shapes the compilers build: *)
(* a chain of requirements, a join, and a cleanup node behind Finally edges.  *)
EXTENDS SettleLoop, TLC

MCNode == {"claim", "propose", "review", "apply", "release"}

E(f, t, k) == [from |-> f, to |-> t, kind |-> k]

MCEdge ==
  {E("claim", "propose", "Consumes"),
   E("propose", "review", "Validates"),
   E("review", "apply", "Requires"),
   E("claim", "release", "Requires"),
   E("review", "release", "Finally"),
   E("apply", "release", "Finally")}
=============================================================================
