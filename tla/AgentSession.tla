---------------------------- MODULE AgentSession ----------------------------
(***************************************************************************)
(* The chat session of the desktop program: the user's thread              *)
(* (zhongshu-orb/handler.rs), the inbox and its listener, the task of a    *)
(* run (zhongshu-orb/app.rs) and the start of a new process (main.rs),     *)
(* around the run controller, the agent loop and the approval gate.        *)
(*                                                                         *)
(* AgentController::run is a call of the user's thread or of the listener: *)
(* it claims the session, prepares the run and spawns the task; the caller *)
(* is blocked until then.  try_claim takes the lock of the state for one   *)
(* read or write; the instant in which another holds it is left out, as is *)
(* an Idle event that the listener's channel drops when it lags.  Several  *)
(* tasks cannot exist: the state is Idle only between them.                *)
(***************************************************************************)
EXTENDS ToolDispatch

CONSTANTS
  MaxCancels,    \* bound on stops by the user
  MaxRestarts    \* bound on deaths of the process

ASSUME SessionAssumption == MaxCancels \in Nat /\ MaxRestarts \in Nat

VARIABLES
  agent,         \* AgentController::state, the shades of busy aside
  queue,         \* AgentInbox::queue: which messages are notes for later
  bell,          \* an Idle event the listener has yet to receive
  listener,      \* where the inbox listener is
  hand,          \* where the user's thread is in submitting a message
  claimer,       \* who is inside AgentController::run with the claim
  sent,          \* messages so far; each starts one run at most
  stops,         \* stops by the user so far
  restarts       \* deaths of the process so far

inboxVars == <<queue, bell, listener, hand>>
userVars == <<sent, stops, restarts>>
sessionVars == <<agent, inboxVars, claimer, userVars>>
vars == <<runVars, gateVars, pc, loopVars, ledgerVars, sessionVars>>

Message == {"turn", "note"}

Caller == {"hand", "listener"}

SessionTypeOK ==
  /\ agent \in {"Idle", "Busy"}
  /\ queue \in Seq(Message)
  /\ bell \in {"silent", "rung"}
  /\ listener \in {"waiting", "draining"}
  /\ hand \in {"free", "sending", "queueing", "flushing"}
  /\ claimer \in Caller \cup {"none"}
  /\ sent \in 0 .. MaxRuns
  /\ stops \in 0 .. MaxCancels
  /\ restarts \in 0 .. MaxRestarts

SessionInit ==
  /\ agent = "Idle" /\ queue = <<>> /\ bell = "silent" /\ listener = "waiting"
  /\ hand = "free" /\ claimer = "none" /\ sent = 0
  /\ stops = 0 /\ restarts = 0

Init == RunInit /\ GateInit /\ LoopInit /\ SessionInit

-----------------------------------------------------------------------------
(* The user's thread.                                                      *)

(* a text: it denies the request shown, if there is one, then looks        *)
(* whether the agent is busy; a note is queued for later if so             *)
Submit ==
  /\ hand = "free" /\ sent < MaxRuns
  /\ sent' = sent + 1
  /\ \/ UNCHANGED gateVars
     \/ \E id \in Request : Resolve(id, "denied")
  /\ \/ hand' = "sending"
     \/ agent = "Busy" /\ hand' = "queueing"
  /\ UNCHANGED <<runVars, pc, loopVars, ledgerVars, agent, queue, bell, listener,
                 claimer, stops, restarts>>

(* push, and the push_back of submit *)
Enqueue ==
  /\ \/ hand = "queueing" /\ queue' = Append(queue, "note") /\ hand' = "free"
     \/ hand = "sending" /\ queue' = Append(queue, "turn") /\ hand' = "flushing"
  /\ UNCHANGED <<runVars, gateVars, pc, loopVars, ledgerVars, agent, bell, listener,
                 claimer, userVars>>

FlushDone ==
  /\ hand = "flushing" /\ claimer # "hand" /\ queue = <<>>
  /\ hand' = "free"
  /\ UNCHANGED <<runVars, gateVars, pc, loopVars, ledgerVars, agent, queue, bell,
                 listener, claimer, userVars>>

Cancel ==
  /\ hand = "free" /\ stops < MaxCancels
  /\ stops' = stops + 1
  /\ RequestCancel
  /\ UNCHANGED <<gateVars, pc, loopVars, ledgerVars, agent, inboxVars, claimer,
                 sent, restarts>>

(* approve and deny of the panel *)
Decide ==
  /\ hand = "free"
  /\ \E id \in Request, verdict \in Verdict : Resolve(id, verdict)
  /\ UNCHANGED <<runVars, pc, loopVars, ledgerVars, sessionVars>>

GrantExpires ==
  /\ \E c \in Call : Evict(c)
  /\ UNCHANGED <<runVars, pc, loopVars, ledgerVars, sessionVars>>

-----------------------------------------------------------------------------
(* The inbox and AgentController::run.                                     *)

HearIdle ==
  /\ listener = "waiting" /\ bell = "rung"
  /\ listener' = "draining"
  /\ bell' = "silent"
  /\ UNCHANGED <<runVars, gateVars, pc, loopVars, ledgerVars, agent, queue, hand,
                 claimer, userVars>>

DrainDone ==
  /\ listener = "draining" /\ claimer # "listener" /\ queue = <<>>
  /\ listener' = "waiting"
  /\ UNCHANGED <<runVars, gateVars, pc, loopVars, ledgerVars, agent, queue, bell,
                 hand, claimer, userVars>>

(* try_flush and the listener take the next message to run *)
Delivers(by) ==
  /\ by = "hand" => hand = "flushing"
  /\ by = "listener" => listener = "draining"
  /\ claimer # by
  /\ queue # <<>>
  /\ queue' = Tail(queue)

Claim(by) ==
  /\ Delivers(by)
  /\ agent = "Idle"
  /\ agent' = "Busy"
  /\ claimer' = by
  /\ pc' = "claimed"
  /\ UNCHANGED <<runVars, gateVars, loopVars, ledgerVars, bell, listener, hand,
                 userVars>>

(* the agent is busy: the message is an interruption and goes no further   *)
Intrude(by) ==
  /\ Delivers(by)
  /\ agent = "Busy"
  /\ Interrupt
  /\ UNCHANGED <<gateVars, pc, loopVars, ledgerVars, agent, bell, listener, hand,
                 claimer, userVars>>

(* an approval keyword (any message may be one) approves some pending      *)
(* request; the run is new or recovered                                    *)
Prepare ==
  /\ pc = "claimed"
  /\ \/ UNCHANGED gateVars
     \/ \E id \in Request : Resolve(id, "approved")
  /\ \/ phase = "Recovery" /\ ResumeRun /\ pc' = "resuming"
     \/ phase # "Recovery" /\ StartRun /\ pc' = "starting"
  /\ UNCHANGED <<loopVars, ledgerVars, sessionVars>>

Launch ==
  /\ \/ pc = "resuming" /\ ContinueRun
     \/ pc = "starting" /\ ArmRun
  /\ pc' = "context"
  /\ claimer' = "none"
  /\ UNCHANGED <<gateVars, loopVars, ledgerVars, agent, inboxVars, userVars>>

-----------------------------------------------------------------------------
(* The task of a run.                                                      *)

(* the context cannot be built: the task returns and leaves the state busy *)
ContextFails ==
  /\ pc = "context"
  /\ pc' = "stuck"
  /\ UNCHANGED <<runVars, gateVars, loopVars, ledgerVars, sessionVars>>

Work == Loop /\ UNCHANGED sessionVars

Close ==
  /\ pc = "ended"
  /\ FinishRun
  /\ pc' = "resting"
  /\ UNCHANGED <<gateVars, loopVars, ledgerVars, sessionVars>>

(* a second later the state is Idle and the event is published *)
Rest ==
  /\ pc = "resting"
  /\ pc' = "none"
  /\ agent' = "Idle"
  /\ bell' = "rung"
  /\ UNCHANGED <<runVars, gateVars, loopVars, ledgerVars, queue, listener, hand,
                 claimer, userVars>>

-----------------------------------------------------------------------------
(* Faulty variant: the query does not exclude runs with a run_finished row *)
Checkpointed == {r \in 1 .. runs : HasCheckpoint(r)}

(* latest_unfinished: checkpoints of runs that did not finish *)
Unfinished == {r \in 1 .. runs \ finished : HasCheckpoint(r)}

(* The process dies at any point; the next one starts up and restores the  *)
(* newest unfinished run.                                                  *)
Restart ==
  /\ restarts < MaxRestarts
  /\ restarts' = restarts + 1
  /\ killed' = killed \cup InHand
  /\ \E r \in Unfinished \cup {0} :
       (\A s \in Unfinished : s <= r) /\ Reopen(r)
  /\ ForgetRequests
  /\ ForgetAttempt
  /\ agent' = "Idle" /\ queue' = <<>> /\ bell' = "silent"
  /\ listener' = "waiting" /\ hand' = "free" /\ claimer' = "none"
  /\ UNCHANGED <<sent, stops>>

Next ==
  \/ Submit \/ Enqueue \/ FlushDone \/ Cancel \/ Decide \/ GrantExpires
  \/ HearIdle \/ DrainDone
  \/ \E by \in Caller : Claim(by) \/ Intrude(by)
  \/ Prepare \/ Launch \/ ContextFails \/ Work \/ Close \/ Rest
  \/ Restart

(* Building the context (compress_oldest_leaves) and reading the           *)
(* conversation after the attempt both wait for the lock of the memory     *)
(* proxy, the first for an answer of its registry too: neither has a limit.*)
AwaitsOthers == pc \in {"context", "ended"}

(* The threads run, and AGENT_TIMEOUT ends every attempt that has begun.   *)
(* Nobody must use the program or answer it, and nothing must succeed.     *)
GoesOn == Prepare \/ Launch \/ (Timeout /\ UNCHANGED sessionVars) \/ Rest

Fairness == WF_vars(GoesOn)

Spec == Init /\ [][Next]_vars /\ Fairness
-----------------------------------------------------------------------------
(* Properties *)

(* Every variable stays in its domain. *)
TypeOK == RunTypeOK /\ GateTypeOK /\ LoopTypeOK /\ SessionTypeOK

(* When the model is asked, it knows of every call of the run that left a  *)
(* row in the ledger, be it before or after a crash: as a result or as an  *)
(* effect it has to check (loop_.rs restores the checkpoint, closes the    *)
(* open calls and reports those the ledger has only started).              *)
NoSilentEffect ==
  pc = "asking" =>
    \A c \in Call : journal[run][c] # "none" => told[c] \in {"result", "unknown"}

(* A call that the ledger has as started is in hand, or the process or the *)
(* attempt died under it: every way out of the dispatcher records an end.  *)
OnlyKilledCallsStayOpen ==
  \A r \in Run, c \in Call : Started(r, c) => <<r, c>> \in InHand \cup killed

(* A process that dies with a call in hand is followed by one that offers  *)
(* the run of that call for recovery, whatever older run is unfinished     *)
(* (loop_.rs saves before every call, main.rs takes the newest).           *)
CrashIsRecovered ==
  [][(pc \in Dispatching /\ restarts' # restarts) => run' = run /\ phase' = "Recovery"]_vars

(* A decision of the user reaches the call that waits for it, whether it   *)
(* came before or after the call began to wait, and no other does.         *)
DecisionReachesWaiter ==
  pc = "waiting" =>
    \/ IsPending(req) /\ req \in senders /\ decided[req] = "none" /\ heard[req] = "none"
    \/ ~IsPending(req) /\ decided[req] # "none" /\ heard[req] = decided[req]

(* A call that must not be repeated and has completed in a run is not      *)
(* started again in it, in this process or a later one.                    *)
CommittedNeverRepeats ==
  [][\A r \in Run, c \in Call :
       Committed(r, c) => (Started(r, c)' => Started(r, c))]_vars

(* What the ledger and the checkpoints say of a finished run is final:     *)
(* cancelled, timed out and restored runs do not write to it any more.     *)
FinishedStaysFinished ==
  [][\A r \in finished :
       r \in finished' /\ journal'[r] = journal[r] /\ saved'[r] = saved[r]]_vars

(* Forget the threads, the inbox, the conversation and the approvals: what *)
(* is left is the promise of RunLedger.  Above all, no interleaving of a   *)
(* stop, a decision, a timeout and a crash lets two runs, or two calls of  *)
(* one run, be at work, or leaves a row that no checkpoint announced.      *)
HeldStage ==
  IF pc \in Looping \cup {"starting", "resuming", "context", "stuck"} THEN "open"
  ELSE IF pc = "ended" THEN "closing" ELSE "none"

HeldRun == IF HeldStage = "none" THEN 0 ELSE run

CallInHand == IF pc \in Dispatching THEN {Head(batch)} ELSE {}

NamedCalls == [r \in Run |-> {c \in Call : saved[r].told[c] # "no"}]

Ledger == INSTANCE RunLedger WITH
  stage <- HeldStage, held <- HeldRun, hand <- CallInHand, named <- NamedCalls

ImplementsLedger == Ledger!Spec

(* A session stays busy for ever only if its context could not be built,   *)
(* or if it waits for ever for the lock or the registry of the memory.     *)
SessionSettles == <>[](agent = "Busy") => <>[](pc = "stuck" \/ AwaitsOthers)

(* The promise of handler.rs and AgentInbox::push: a note given while the  *)
(* agent is busy is handled after the current answer, so it leaves the     *)
(* queue of a living process only to start a run.                          *)
NotesAreHandled ==
  [][(queue # <<>> /\ Head(queue) = "note" /\ queue' = Tail(queue) /\ restarts' = restarts)
       => agent = "Idle" /\ pc' = "claimed"]_vars
=============================================================================
