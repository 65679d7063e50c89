------------------------- MODULE MCMutationPipeline -------------------------
(* Two workers, each with a file of its own: enough for a partial claim, a    *)
(* partial apply, a partial release and a handoff.                            *)
EXTENDS MutationPipeline

TwoWorkers == <<"alice", "bob">>
=============================================================================
