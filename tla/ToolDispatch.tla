---------------------------- MODULE ToolDispatch ----------------------------
(***************************************************************************)
(* One attempt of a run: the agent loop (agent/loop_.rs), the dispatcher   *)
(* of its tool calls (action/), the ledger they are journaled in           *)
(* (core/ledger.rs) and the checkpoint a crash leaves (core/checkpoint.rs).*)
(*                                                                         *)
(* The conversation is what the model has been told of each call.  A call  *)
(* has one row of journal, the last of its rows under the dispatcher's     *)
(* key, and the ends a call can have are one status: what tells them apart *)
(* is whether a completed row is among its rows.  The callbacks of the     *)
(* session write the same rows under a key that nothing reads but          *)
(* reconcile_inflight_tools, which reports a call that either key leaves   *)
(* started.                                                                *)
(***************************************************************************)
EXTENDS RunControl, ApprovalGate, Sequences

CONSTANTS
  ReadOnly,      \* calls of tools with SideEffect::ReadOnly
  Replayable,    \* calls of tools with ReplayPolicy::AlwaysExecute
  Gated,         \* calls the gate lets through only with a grant
  MaxCalls,      \* max_tool_calls of the budget
  Answers        \* the tool calls that one answer of the model may hold

ASSUME CallAssumption ==
  /\ ReadOnly \subseteq Call /\ Replayable \subseteq Call /\ Gated \subseteq Call
  /\ MaxCalls \in Nat \ {0} /\ Answers \subseteq Seq(Call) \ {<<>>}

VARIABLES
  pc,          \* where the session's task is
  batch,       \* calls of the model's answer still to handle
  req,         \* the approval request of the call in hand, 0 without one
  told,        \* the conversation: what the model knows of each call
  made,        \* tool_calls_made
  journal,     \* run_ledger: the last status of a run's call
  committed,   \* run_ledger: calls of a run with a completed row
  saved,       \* agent_checkpoints: conversation and counter of a run
  killed       \* history: dispatches a crash or a timeout cut off

loopVars == <<batch, req, told, made>>
ledgerVars == <<journal, committed, saved, killed>>

(* places of the agent loop, in reach of the session's timeout *)
Dispatching == {"running", "blocked", "waiting"}
Looping == {"head", "asking", "batch"} \cup Dispatching
Place == Looping \cup
  {"none", "claimed", "starting", "resuming", "context", "stuck", "ended", "resting"}

Known == {"no", "asked", "result", "unknown"}

Status == {"none", "started", "closed"}

NothingTold == [c \in Call |-> "no"]

NoCheckpoint == [made |-> 0, told |-> NothingTold]

HasCheckpoint(r) == saved[r].made > 0

LoopTypeOK ==
  /\ pc \in Place
  /\ batch \in Seq(Call)
  /\ req \in Request \cup {0}
  /\ told \in [Call -> Known]
  /\ made \in Nat
  /\ journal \in [Run -> [Call -> Status]]
  /\ committed \in [Run -> SUBSET Call]
  /\ saved \in [Run -> [made : Nat, told : [Call -> Known]]]
  /\ killed \subseteq Run \X Call

LoopInit ==
  /\ pc = "none" /\ batch = <<>> /\ req = 0 /\ told = NothingTold /\ made = 0
  /\ journal = [r \in Run |-> [c \in Call |-> "none"]]
  /\ committed = [r \in Run |-> {}]
  /\ saved = [r \in Run |-> NoCheckpoint]
  /\ killed = {}

Cancelled == "cancelled" \in marks

Started(r, c) == journal[r][c] = "started"

(* Faulty variant: the checkpoint is continued as it is *)
RestoredAsSaved(r) == saved[r].told

(* close_unresolved_tool_calls and the report of reconcile_inflight_tools  *)
Restored(r) ==
  [c \in Call |-> IF saved[r].told[c] = "asked" \/ Started(r, c)
                  THEN "unknown" ELSE saved[r].told[c]]

(* the variables of the loop end with it *)
NoLocals == batch' = <<>> /\ req' = 0 /\ told' = NothingTold /\ made' = 0

Leave == pc' = "ended" /\ NoLocals

(* run_attempt enters the loop: from the checkpoint of the run, if any     *)
BeginAttempt ==
  /\ pc = "context"
  /\ pc' = "head"
  /\ told' = IF HasCheckpoint(run) THEN Restored(run) ELSE NothingTold
  /\ made' = saved[run].made
  /\ batch' = <<>> /\ req' = 0
  /\ UNCHANGED <<runVars, gateVars, ledgerVars>>

(* the head of the loop: stop, or ask the model *)
StopAtHead ==
  /\ pc = "head"
  /\ made >= MaxCalls \/ Cancelled
  /\ Leave
  /\ UNCHANGED <<runVars, gateVars, ledgerVars>>

Ask ==
  /\ pc = "head"
  /\ made < MaxCalls /\ ~Cancelled
  /\ pc' = "asking"
  /\ UNCHANGED <<runVars, gateVars, loopVars, ledgerVars>>

(* the stream is dropped on a cancellation, or the request fails, or steps *)
(* or tokens are used up: the checkpoint stays                             *)
AnswerLost ==
  /\ pc = "asking"
  /\ Leave
  /\ UNCHANGED <<runVars, gateVars, ledgerVars>>

(* a final text: Finished, unless the verification gate sends it back      *)
FinalAnswer ==
  /\ pc = "asking" /\ ~Cancelled
  /\ \/ /\ pc' = "head"
        /\ UNCHANGED <<loopVars, saved>>
     \/ /\ Leave
        /\ saved' = [saved EXCEPT ![run] = NoCheckpoint]
  /\ UNCHANGED <<runVars, gateVars, journal, committed, killed>>

CallsAnswer ==
  /\ pc = "asking" /\ ~Cancelled
  /\ \E b \in Answers :
       /\ batch' = b
       /\ told' = [c \in Call |-> IF \E i \in DOMAIN b : b[i] = c THEN "asked" ELSE told[c]]
  /\ pc' = "batch"
  /\ UNCHANGED <<runVars, gateVars, req, made, ledgerVars>>

BatchDone ==
  /\ pc = "batch" /\ batch = <<>>
  /\ pc' = "head"
  /\ UNCHANGED <<runVars, gateVars, loopVars, ledgerVars>>

(* the per-tool limit and the duplicate guard answer for the host          *)
Refuse ==
  /\ pc = "batch" /\ batch # <<>>
  /\ told' = [told EXCEPT ![Head(batch)] = "result"]
  /\ made' = made + 1
  /\ batch' = Tail(batch)
  /\ UNCHANGED <<runVars, gateVars, pc, req, ledgerVars>>

Committed(r, c) == c \notin Replayable /\ c \in committed[r]

(* Faulty variant: the save is not forced and the store is not marked dirty *)
SaveIfDirty == UNCHANGED saved

(* the checkpoint before every call *)
SaveCheckpoint ==
  saved' = [saved EXCEPT ![run] = [made |-> made + 1, told |-> told]]

SkipCommitted ==
  /\ pc = "batch" /\ batch # <<>>
  /\ Committed(run, Head(batch))
  /\ SaveCheckpoint
  /\ told' = [told EXCEPT ![Head(batch)] = "result"]
  /\ made' = made + 1
  /\ batch' = Tail(batch)
  /\ UNCHANGED <<runVars, gateVars, pc, req, journal, committed, killed>>

RecordStart == journal' = [journal EXCEPT ![run][Head(batch)] = "started"]

RecordEnd == journal' = [journal EXCEPT ![run][Head(batch)] = "closed"]

(* Faulty variant: completed calls are dispatched again *)
DispatchAgain ==
  /\ pc = "batch" /\ batch # <<>>
  /\ SaveCheckpoint
  /\ RecordStart
  /\ made' = made + 1
  /\ pc' = "running"
  /\ UNCHANGED <<runVars, gateVars, batch, req, told, committed, killed>>

Dispatch ==
  /\ pc = "batch" /\ batch # <<>>
  /\ ~Committed(run, Head(batch))
  /\ SaveCheckpoint
  /\ RecordStart
  /\ made' = made + 1
  /\ pc' = "running"
  /\ UNCHANGED <<runVars, gateVars, batch, req, told, committed, killed>>

NeedsApproval == Head(batch) \in Gated \ grants

(* what is known reaches the conversation and the loop takes the next call *)
Tell(knowledge) ==
  /\ told' = [told EXCEPT ![Head(batch)] = knowledge]
  /\ batch' = Tail(batch)
  /\ req' = 0
  /\ pc' = "batch"
  /\ UNCHANGED made

(* ... but a used up budget ends the attempt, and so may a failure that is *)
(* the third in a row                                                      *)
Return(isFailure) ==
  \/ made < MaxCalls /\ Tell("result")
  \/ (made >= MaxCalls \/ isFailure) /\ Leave

Succeed ==
  /\ pc = "running" /\ ~NeedsApproval
  /\ RecordEnd
  /\ committed' = [committed EXCEPT ![run] = @ \cup {Head(batch)}]
  /\ Return(FALSE)
  /\ UNCHANGED <<runVars, gateVars, saved, killed>>

Fail ==
  /\ pc = "running" /\ ~NeedsApproval
  /\ RecordEnd
  /\ Return(TRUE)
  /\ UNCHANGED <<runVars, gateVars, committed, saved, killed>>

(* a cancellation or the tool timeout drops the call; nothing is known of  *)
(* what a call that writes has done                                        *)
CutShort ==
  /\ pc = "running"
  /\ Cancelled \/ ~NeedsApproval
  /\ RecordEnd
  /\ IF Head(batch) \in ReadOnly THEN Return(~Cancelled) ELSE Tell("unknown")
  /\ UNCHANGED <<runVars, gateVars, committed, saved, killed>>

AuthRequired ==
  /\ pc = "running" /\ NeedsApproval
  /\ \E id \in Request : SetPending(id, Head(batch)) /\ req' = id
  /\ pc' = "blocked"
  /\ UNCHANGED <<runVars, batch, told, made, ledgerVars>>

AwaitDecision ==
  /\ pc = "blocked"
  /\ Register(req)
  /\ pc' = "waiting"
  /\ UNCHANGED <<runVars, loopVars, ledgerVars>>

HearDecision ==
  /\ pc = "waiting"
  /\ Receive(req)
  /\ RecordEnd
  /\ Tell("result")
  /\ UNCHANGED <<runVars, committed, saved, killed>>

(* Faulty variant: a cancelled wait returns without its row *)
StopWaitingSilently ==
  /\ pc = "waiting" /\ Cancelled
  /\ TakePending(req)
  /\ Tell("result")
  /\ UNCHANGED <<runVars, ledgerVars>>

(* the select takes either arm when both are ready *)
StopWaiting ==
  /\ pc = "waiting" /\ Cancelled
  /\ TakePending(req)
  /\ RecordEnd
  /\ Tell("result")
  /\ UNCHANGED <<runVars, committed, saved, killed>>

(* the call whose dispatcher is dropped with the attempt or the process    *)
InHand == IF pc \in Dispatching THEN {<<run, Head(batch)>>} ELSE {}

(* Faulty variant: only the request to the model has a timeout *)
TimeoutAsking ==
  /\ pc = "asking"
  /\ Leave
  /\ UNCHANGED <<runVars, gateVars, ledgerVars>>

(* AGENT_TIMEOUT drops the loop where it is *)
Timeout ==
  /\ pc \in Looping
  /\ killed' = killed \cup InHand
  /\ Leave
  /\ UNCHANGED <<runVars, gateVars, journal, committed, saved>>

Loop ==
  \/ BeginAttempt \/ StopAtHead \/ Ask \/ AnswerLost \/ FinalAnswer
  \/ CallsAnswer \/ BatchDone \/ Refuse \/ SkipCommitted \/ Dispatch
  \/ Succeed \/ Fail \/ CutShort \/ AuthRequired \/ AwaitDecision
  \/ HearDecision \/ StopWaiting \/ Timeout

(* what a new process keeps: the ledger and the checkpoints *)
ForgetAttempt ==
  /\ pc' = "none" /\ NoLocals
  /\ UNCHANGED <<journal, committed, saved>>
=============================================================================
