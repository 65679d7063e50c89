-------------------------- MODULE MCDurableRunner --------------------------
(* Two small graphs.  In the first, two nodes may be admitted in one batch    *)
(* and a cleanup node waits for one to succeed and for the other to end,      *)
(* however it ends.  In the second a cleanup node waits for the only worker.  *)
EXTENDS DurableRunner, TLC

E(f, t, k) == [from |-> f, to |-> t, kind |-> k]

TeamNode == {"work", "peer", "cleanup"}

TeamEdge == {E("work", "cleanup", "Finally"), E("peer", "cleanup", "Requires")}

PairNode == {"work", "cleanup"}

PairEdge == {E("work", "cleanup", "Finally")}

ClientSymmetry == Permutations(Client)
=============================================================================
