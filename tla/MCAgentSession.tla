--------------------------- MODULE MCAgentSession ---------------------------
(* One call that writes and needs an approval, and one that only reads; an *)
(* answer of the model holds the first alone or both in either order.      *)
EXTENDS AgentSession

CONSTANTS edit, read

MCAnswers == {<<edit>>, <<edit, read>>, <<read, edit>>}
=============================================================================
