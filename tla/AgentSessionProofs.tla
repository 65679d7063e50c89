------------------------- MODULE AgentSessionProofs -------------------------
(***************************************************************************)
(* What holds of the chat session for every set of calls and all bounds.   *)
(*                                                                         *)
(* None of the invariants is inductive alone.  Placed ties the state of    *)
(* the session to the run the controller names; Newest keeps the run at    *)
(* work ahead of every other unfinished checkpoint; Recorded follows a     *)
(* call from the checkpoint, through the ledger, to the conversation;      *)
(* Requested follows an approval from the request to its decision.         *)
(***************************************************************************)
EXTENDS AgentSession, TLAPS

Active == Looping \cup {"starting", "resuming", "context"}

(* The task and the controller agree on which run there is. *)
Placed ==
  /\ agent = "Idle" <=> pc = "none"
  /\ phase = "Recovery" => pc \in {"none", "claimed", "resuming"}
  /\ pc = "resuming" \/ pc \in Active \/ pc = "ended" => run \in Run \ finished
  /\ pc \in Dispatching => batch # <<>>
  /\ pc \in {"head", "asking"} => batch = <<>>
  /\ pc \in {"blocked", "waiting"} => req # 0

(* The run to be recovered and the run at work are the newest with a       *)
(* checkpoint that is not finished.                                        *)
Newest ==
  /\ \A r \in Run : r > runs =>
       /\ ~HasCheckpoint(r)
       /\ \A c \in Call : journal[r][c] = "none"
  /\ phase = "Recovery" => run \in Unfinished
  /\ phase = "Recovery" \/ pc \in Active => \A r \in Unfinished : r <= run
  /\ pc \in Dispatching => HasCheckpoint(run)

(* What the ledger holds is in the conversation, or still to be handled.   *)
Covered ==
  /\ \A i \in DOMAIN batch : told[batch[i]] # "no"
  /\ \A c \in Call : journal[run][c] # "none" =>
       told[c] \in {"result", "unknown"} \/ \E i \in DOMAIN batch : batch[i] = c

(* What the ledger holds is in the checkpoint; while the loop is at work,  *)
(* it is covered and the call in hand has its row.                         *)
Recorded ==
  /\ \A r \in Run : HasCheckpoint(r) =>
       \A c \in Call : journal[r][c] # "none" => saved[r].told[c] # "no"
  /\ pc \in {"starting", "resuming", "context"} /\ ~HasCheckpoint(run) =>
       \A c \in Call : journal[run][c] = "none"
  /\ pc \in Looping => Covered
  /\ pc \in Dispatching => Started(run, Head(batch))

(* The request of the call in hand, from its making to the decision.       *)
Requested ==
  /\ pc = "blocked" =>
       /\ req \notin senders /\ heard[req] = "none"
       /\ IF IsPending(req) THEN early[req] = "none" /\ decided[req] = "none"
          ELSE early[req] # "none" /\ early[req] = decided[req]
  /\ DecisionReachesWaiter

IInv ==
  /\ TypeOK /\ Placed /\ Newest /\ Recorded /\ Requested
  /\ OnlyKilledCallsStayOpen

-----------------------------------------------------------------------------
(* The components keep their types.                                        *)

LEMMA RunTypes ==
  ASSUME RunTypeOK,
         \/ StartRun \/ ArmRun \/ ResumeRun \/ ContinueRun \/ Interrupt
         \/ RequestCancel \/ (run # 0 /\ FinishRun) \/ UNCHANGED runVars
         \/ \E r \in 0 .. runs : Reopen(r)
  PROVE  RunTypeOK'
<1> USE RunAssumption DEF RunTypeOK, Phase
<1>1. CASE StartRun
  BY <1>1 DEF StartRun
<1>2. CASE ArmRun \/ ResumeRun \/ ContinueRun
  BY <1>2 DEF ArmRun, ResumeRun, ContinueRun
<1>3. CASE Interrupt \/ RequestCancel
  BY <1>3 DEF Interrupt, RequestCancel, Mark
<1>4. CASE run # 0 /\ FinishRun
  BY <1>4 DEF FinishRun
<1>5. CASE UNCHANGED runVars
  BY <1>5 DEF runVars
<1>6. ASSUME NEW r \in 0 .. runs, Reopen(r) PROVE RunTypeOK'
  BY <1>6 DEF Reopen, Mark
<1> QED
  BY <1>1, <1>2, <1>3, <1>4, <1>5, <1>6

LEMMA GateTypes ==
  ASSUME GateTypeOK,
         \/ \E id \in Request :
              \/ \E c \in Call : SetPending(id, c)
              \/ \E verdict \in Verdict : Resolve(id, verdict)
              \/ Register(id) \/ Receive(id) \/ TakePending(id)
         \/ \E c \in Call : Evict(c)
         \/ ForgetRequests \/ UNCHANGED gateVars
  PROVE  GateTypeOK'
<1> USE GateAssumption DEF GateTypeOK, Answer, Verdict
<1>1. ASSUME NEW id \in Request, NEW c \in Call, SetPending(id, c) PROVE GateTypeOK'
  BY <1>1 DEF SetPending
<1>2. ASSUME NEW id \in Request, NEW verdict \in Verdict, Resolve(id, verdict) PROVE GateTypeOK'
  BY <1>2 DEF Resolve, Removed
<1>3. ASSUME NEW id \in Request, Register(id) PROVE GateTypeOK'
  BY <1>3 DEF Register
<1>4. ASSUME NEW id \in Request, Receive(id) PROVE GateTypeOK'
  BY <1>4 DEF Receive
<1>5. ASSUME NEW id \in Request, TakePending(id) PROVE GateTypeOK'
  BY <1>5 DEF TakePending, Removed
<1>6. ASSUME NEW c \in Call, Evict(c) PROVE GateTypeOK'
  BY <1>6 DEF Evict
<1>7. CASE ForgetRequests
  BY <1>7 DEF ForgetRequests, NoAnswer
<1>8. CASE UNCHANGED gateVars
  BY <1>8 DEF gateVars
<1> QED
  BY <1>1, <1>2, <1>3, <1>4, <1>5, <1>6, <1>7, <1>8

LEMMA HeadInCall ==
  ASSUME batch \in Seq(Call), batch # <<>>
  PROVE  Head(batch) \in Call /\ Tail(batch) \in Seq(Call)
OBVIOUS

(* The ways a call and an attempt end keep the types of the loop. *)
LEMMA EndTypes ==
  ASSUME LoopTypeOK,
         \/ Leave
         \/ \E knowledge \in Known : batch # <<>> /\ Tell(knowledge)
  PROVE  /\ pc' \in Place /\ batch' \in Seq(Call) /\ req' \in Request \cup {0}
         /\ told' \in [Call -> Known] /\ made' \in Nat
<1>1. CASE Leave
  BY <1>1 DEF LoopTypeOK, Leave, NoLocals, NothingTold, Known, Place
<1>2. ASSUME NEW knowledge \in Known, batch # <<>>, Tell(knowledge)
      PROVE  /\ pc' \in Place /\ batch' \in Seq(Call) /\ req' \in Request \cup {0}
             /\ told' \in [Call -> Known] /\ made' \in Nat
  BY <1>2, HeadInCall DEF LoopTypeOK, Tell, Place, Looping
<1> QED
  BY <1>1, <1>2

(* So does every write to the ledger and to the checkpoints. *)
LEMMA RecordTypes ==
  ASSUME LoopTypeOK, run \in Run, batch # <<>>
  PROVE  /\ RecordStart => journal' \in [Run -> [Call -> Status]]
         /\ RecordEnd => journal' \in [Run -> [Call -> Status]]
         /\ SaveCheckpoint => saved' \in [Run -> [made : Nat, told : [Call -> Known]]]
         /\ [committed EXCEPT ![run] = @ \cup {Head(batch)}] \in [Run -> SUBSET Call]
<1> USE HeadInCall DEF LoopTypeOK
<1>1. ASSUME NEW status \in Status
      PROVE  [journal EXCEPT ![run][Head(batch)] = status] \in [Run -> [Call -> Status]]
  OBVIOUS
<1>2. (RecordStart \/ RecordEnd) => journal' \in [Run -> [Call -> Status]]
  BY <1>1 DEF RecordStart, RecordEnd, Status
<1>3. SaveCheckpoint => saved' \in [Run -> [made : Nat, told : [Call -> Known]]]
  BY DEF SaveCheckpoint
<1>4. [committed EXCEPT ![run] = @ \cup {Head(batch)}] \in [Run -> SUBSET Call]
  OBVIOUS
<1> QED
  BY <1>2, <1>3, <1>4

LEMMA LoopTypes ==
  ASSUME TypeOK, Placed, Loop
  PROVE  RunTypeOK' /\ GateTypeOK' /\ LoopTypeOK'
<1> USE DEF TypeOK, LoopTypeOK, ledgerVars, loopVars
<1>0. ASSUME UNCHANGED runVars PROVE RunTypeOK'
  BY <1>0, RunTypes
<1>g. ASSUME UNCHANGED gateVars PROVE GateTypeOK'
  BY <1>g, GateTypes
<1>r. pc \in Looping \cup {"context"} => run \in Run
  BY DEF Placed, Active
<1>b. pc \in Dispatching => batch # <<>> /\ pc \in Looping
  BY DEF Placed, Looping
<1>q. pc \in {"blocked", "waiting"} => req \in Request
  BY DEF Placed
<1>1. CASE BeginAttempt
  <2>1. run \in Run
    BY <1>1, <1>r DEF BeginAttempt
  <2>2. saved[run] \in [made : Nat, told : [Call -> Known]]
    BY <2>1
  <2>3. Restored(run) \in [Call -> Known] /\ NothingTold \in [Call -> Known]
    BY <2>2 DEF Restored, NothingTold, Known
  <2> QED
    BY <1>1, <1>0, <1>g, <2>2, <2>3 DEF BeginAttempt, Place, Looping
<1>2. CASE StopAtHead \/ AnswerLost
  BY <1>2, <1>0, <1>g, EndTypes DEF StopAtHead, AnswerLost
<1>3. CASE Ask \/ BatchDone
  BY <1>3, <1>0, <1>g DEF Ask, BatchDone, Place, Looping
<1>4. CASE FinalAnswer
  <2>1. NoCheckpoint \in [made : Nat, told : [Call -> Known]]
    BY DEF NoCheckpoint, NothingTold, Known
  <2>2. saved' \in [Run -> [made : Nat, told : [Call -> Known]]]
    BY <1>4, <2>1 DEF FinalAnswer
  <2> QED
    BY <1>4, <1>0, <1>g, <2>2, EndTypes DEF FinalAnswer, Place, Looping
<1>5. CASE CallsAnswer
  BY <1>5, <1>0, <1>g, CallAssumption DEF CallsAnswer, Place, Looping, Known
<1>6. CASE Refuse
  BY <1>6, <1>0, <1>g, HeadInCall DEF Refuse, Known
<1>7. CASE SkipCommitted
  BY <1>7, <1>0, <1>g, <1>r, HeadInCall, RecordTypes DEF SkipCommitted, Known, Looping
<1>8. CASE Dispatch
  BY <1>8, <1>0, <1>g, <1>r, RecordTypes DEF Dispatch, Place, Looping, Dispatching
<1>9. CASE Succeed
  <2>1. run \in Run /\ batch # <<>>
    BY <1>9, <1>r, <1>b DEF Succeed, Dispatching
  <2> QED
    BY <1>9, <2>1, <1>0, <1>g, EndTypes, RecordTypes DEF Succeed, Return, Known
<1>10. CASE Fail
  <2>1. run \in Run /\ batch # <<>>
    BY <1>10, <1>r, <1>b DEF Fail, Dispatching
  <2> QED
    BY <1>10, <2>1, <1>0, <1>g, EndTypes, RecordTypes DEF Fail, Return, Known
<1>11. CASE CutShort
  <2>1. run \in Run /\ batch # <<>>
    BY <1>11, <1>r, <1>b DEF CutShort, Dispatching
  <2> QED
    BY <1>11, <2>1, <1>0, <1>g, EndTypes, RecordTypes DEF CutShort, Return, Known
<1>12. CASE AuthRequired
  <2>1. Head(batch) \in Call
    BY <1>12, <1>b, HeadInCall DEF AuthRequired, Dispatching
  <2>2. GateTypeOK'
    BY <1>12, <2>1, GateTypes DEF AuthRequired
  <2> QED
    BY <1>12, <2>2, <1>0 DEF AuthRequired, Place, Looping, Dispatching
<1>13. CASE AwaitDecision
  <2>1. GateTypeOK'
    BY <1>13, <1>q, GateTypes DEF AwaitDecision
  <2> QED
    BY <1>13, <2>1, <1>0 DEF AwaitDecision, Place, Looping, Dispatching
<1>14. CASE HearDecision
  <2>1. run \in Run /\ batch # <<>> /\ req \in Request
    BY <1>14, <1>r, <1>b, <1>q DEF HearDecision, Dispatching
  <2>2. GateTypeOK'
    BY <1>14, <2>1, GateTypes DEF HearDecision
  <2> QED
    BY <1>14, <2>1, <2>2, <1>0, EndTypes, RecordTypes DEF HearDecision, Known
<1>15. CASE StopWaiting
  <2>1. run \in Run /\ batch # <<>> /\ req \in Request
    BY <1>15, <1>r, <1>b, <1>q DEF StopWaiting, Dispatching
  <2>2. GateTypeOK'
    BY <1>15, <2>1, GateTypes DEF StopWaiting
  <2> QED
    BY <1>15, <2>1, <2>2, <1>0, EndTypes, RecordTypes DEF StopWaiting, Known
<1>16. CASE Timeout
  <2>1. InHand \subseteq Run \X Call
    BY <1>r, <1>b, HeadInCall DEF InHand
  <2> QED
    BY <1>16, <2>1, <1>0, <1>g, EndTypes DEF Timeout
<1> QED
  BY <1>1, <1>2, <1>3, <1>4, <1>5, <1>6, <1>7, <1>8, <1>9, <1>10, <1>11, <1>12, <1>13,
     <1>14, <1>15, <1>16 DEF Loop

-----------------------------------------------------------------------------
(* The steps of the user's thread and of the inbox, a claim aside, change  *)
(* nothing of the task, the ledger and the run it is for.                  *)

Outside ==
  \/ Submit \/ Enqueue \/ FlushDone \/ Cancel \/ Decide \/ GrantExpires
  \/ HearIdle \/ DrainDone \/ \E by \in Caller : Intrude(by)

taskVars == <<run, runs, finished, agent, pc, loopVars, ledgerVars>>

LEMMA OutsideKeeps ==
  ASSUME Outside
  PROVE  /\ UNCHANGED taskVars
         /\ phase' = phase \/ (phase' = "Interrupted" /\ (agent = "Busy" \/ Cancel))
<1> USE DEF taskVars, loopVars, ledgerVars, runVars, gateVars, inboxVars, userVars, sessionVars
<1>1. CASE Submit \/ Enqueue \/ FlushDone
  BY <1>1 DEF Submit, Enqueue, FlushDone
<1>2. CASE Cancel \/ Decide \/ GrantExpires
  BY <1>2 DEF Cancel, RequestCancel, Decide, GrantExpires
<1>3. CASE HearIdle \/ DrainDone
  BY <1>3 DEF HearIdle, DrainDone
<1>4. ASSUME NEW by \in Caller, Intrude(by)
      PROVE  UNCHANGED taskVars /\ (phase' = phase \/ (phase' = "Interrupted" /\ agent = "Busy"))
  BY <1>4 DEF Intrude, Interrupt
<1> QED
  BY <1>1, <1>2, <1>3, <1>4 DEF Outside

LEMMA OutsideTypes ==
  ASSUME TypeOK, Outside
  PROVE  TypeOK'
<1> USE DEF TypeOK, SessionTypeOK, Caller, Message
<1>u. UNCHANGED taskVars
  BY OutsideKeeps
<1>l. LoopTypeOK'
  BY <1>u DEF taskVars, loopVars, ledgerVars, LoopTypeOK
<1>r. ASSUME UNCHANGED runVars PROVE RunTypeOK'
  BY <1>r, RunTypes
<1>g. ASSUME UNCHANGED gateVars PROVE GateTypeOK'
  BY <1>g, GateTypes
<1>1. CASE Submit
  <2>1. GateTypeOK'
    BY <1>1, GateTypes DEF Submit, Verdict
  <2> QED
    BY <1>1, <1>l, <1>r, <2>1, RunAssumption DEF Submit
<1>2. CASE Enqueue
  BY <1>2, <1>l, <1>r, <1>g DEF Enqueue, userVars
<1>3. CASE FlushDone
  BY <1>3, <1>l, <1>r, <1>g DEF FlushDone, userVars
<1>4. CASE Cancel
  <2>1. RunTypeOK'
    BY <1>4, RunTypes DEF Cancel
  <2> QED
    BY <1>4, <1>l, <2>1, <1>g, SessionAssumption DEF Cancel, inboxVars
<1>5. CASE Decide \/ GrantExpires
  <2>1. GateTypeOK'
    BY <1>5, GateTypes DEF Decide, GrantExpires
  <2> QED
    BY <1>5, <1>l, <1>r, <2>1 DEF Decide, GrantExpires, sessionVars, inboxVars, userVars
<1>6. CASE HearIdle \/ DrainDone
  BY <1>6, <1>l, <1>r, <1>g DEF HearIdle, DrainDone, userVars
<1>7. ASSUME NEW by \in Caller, Intrude(by) PROVE TypeOK'
  <2>1. RunTypeOK'
    BY <1>7, RunTypes DEF Intrude
  <2>2. queue' \in Seq(Message)
    BY <1>7 DEF Intrude, Delivers
  <2> QED
    BY <1>7, <1>l, <2>1, <2>2, <1>g DEF Intrude, userVars
<1> QED
  BY <1>1, <1>2, <1>3, <1>4, <1>5, <1>6, <1>7 DEF Outside

-----------------------------------------------------------------------------
(* The steps of the task and of the process keep the types. *)

LEMMA InHandTypes ==
  ASSUME TypeOK, Placed
  PROVE  InHand \subseteq Run \X Call
BY HeadInCall DEF InHand, Placed, Active, Looping, TypeOK, LoopTypeOK

LEMMA TaskTypes ==
  ASSUME TypeOK, Placed,
         \/ \E by \in Caller : Claim(by)
         \/ Prepare \/ Launch \/ ContextFails \/ Work \/ Close \/ Rest
  PROVE  TypeOK'
<1> USE DEF TypeOK, SessionTypeOK, Caller, Message
<1>r. ASSUME UNCHANGED runVars PROVE RunTypeOK'
  BY <1>r, RunTypes
<1>g. ASSUME UNCHANGED gateVars PROVE GateTypeOK'
  BY <1>g, GateTypes
<1>l. ASSUME UNCHANGED <<loopVars, ledgerVars>>, pc' \in Place PROVE LoopTypeOK'
  BY <1>l DEF LoopTypeOK, loopVars, ledgerVars
<1>s. ASSUME UNCHANGED sessionVars PROVE SessionTypeOK'
  BY <1>s DEF sessionVars, inboxVars, userVars
<1>1. ASSUME NEW by \in Caller, Claim(by) PROVE TypeOK'
  <2>1. queue' \in Seq(Message)
    BY <1>1 DEF Claim, Delivers
  <2> QED
    BY <1>1, <2>1, <1>r, <1>g, <1>l DEF Claim, Place, userVars
<1>2. CASE Prepare
  <2>1. RunTypeOK' /\ GateTypeOK'
    BY <1>2, RunTypes, GateTypes DEF Prepare, Verdict
  <2> QED
    BY <1>2, <2>1, <1>l, <1>s DEF Prepare, Place
<1>3. CASE Launch
  <2>1. RunTypeOK'
    BY <1>3, RunTypes DEF Launch
  <2> QED
    BY <1>3, <2>1, <1>g, <1>l DEF Launch, Place, inboxVars, userVars
<1>4. CASE ContextFails
  BY <1>4, <1>r, <1>g, <1>l, <1>s DEF ContextFails, Place
<1>5. CASE Work
  BY <1>5, <1>s, LoopTypes DEF Work
<1>6. CASE Close
  <2>1. RunTypeOK'
    BY <1>6, RunTypes DEF Close, Placed, Run
  <2> QED
    BY <1>6, <2>1, <1>g, <1>l, <1>s DEF Close, Place
<1>7. CASE Rest
  BY <1>7, <1>r, <1>g, <1>l DEF Rest, Place, userVars
<1> QED
  BY <1>1, <1>2, <1>3, <1>4, <1>5, <1>6, <1>7

LEMMA RestartTypes ==
  ASSUME TypeOK, Placed, Restart
  PROVE  TypeOK'
<1> USE DEF TypeOK
<1>1. RunTypeOK'
  BY RunTypes DEF Restart, Unfinished, RunTypeOK
<1>2. GateTypeOK'
  BY GateTypes DEF Restart
<1>3. killed' \subseteq Run \X Call
  BY InHandTypes DEF Restart, LoopTypeOK
<1>4. LoopTypeOK'
  BY <1>3 DEF Restart, ForgetAttempt, NoLocals, LoopTypeOK, Place, NothingTold, Known
<1>5. SessionTypeOK'
  BY SessionAssumption DEF Restart, SessionTypeOK
<1> QED
  BY <1>1, <1>2, <1>4, <1>5

LEMMA TypeStep == TypeOK /\ Placed /\ [Next]_vars => TypeOK'
<1> SUFFICES ASSUME TypeOK, Placed, [Next]_vars PROVE TypeOK'
  OBVIOUS
<1>1. CASE Outside
  BY <1>1, OutsideTypes
<1>2. CASE Restart
  BY <1>2, RestartTypes
<1>3. CASE UNCHANGED vars
  BY <1>3 DEF vars, TypeOK, RunTypeOK, GateTypeOK, LoopTypeOK, SessionTypeOK, runVars,
     gateVars, loopVars, ledgerVars, sessionVars, inboxVars, userVars
<1> QED
  BY <1>1, <1>2, <1>3, TaskTypes DEF Next, Outside

-----------------------------------------------------------------------------
(* Where the session is. *)

LEMMA PlacedLoop ==
  ASSUME TypeOK, Placed, Loop
  PROVE  /\ pc \in Looping \cup {"context"}
         /\ pc' \in Looping \cup {"ended"}
         /\ UNCHANGED runVars
         /\ pc' \in Dispatching => batch' # <<>>
         /\ pc' \in {"head", "asking"} => batch' = <<>>
         /\ pc' \in {"blocked", "waiting"} => req' # 0
<1> USE DEF Placed, Looping, Dispatching, loopVars
<1>1. CASE BeginAttempt \/ StopAtHead \/ Ask \/ AnswerLost \/ FinalAnswer \/ BatchDone
  BY <1>1 DEF BeginAttempt, StopAtHead, Ask, AnswerLost, FinalAnswer, BatchDone, Leave, NoLocals
<1>2. CASE CallsAnswer \/ Refuse \/ SkipCommitted \/ Dispatch
  BY <1>2 DEF CallsAnswer, Refuse, SkipCommitted, Dispatch
<1>3. CASE Succeed \/ Fail \/ CutShort \/ Timeout
  BY <1>3 DEF Succeed, Fail, CutShort, Timeout, Return, Tell, Leave, NoLocals
<1>4. CASE AuthRequired
  BY <1>4, GateAssumption DEF AuthRequired, Request
<1>5. CASE AwaitDecision \/ HearDecision \/ StopWaiting
  BY <1>5 DEF AwaitDecision, HearDecision, StopWaiting, Tell
<1> QED
  BY <1>1, <1>2, <1>3, <1>4, <1>5 DEF Loop

LEMMA PlacedStep == TypeOK /\ Placed /\ Newest /\ [Next]_vars => Placed'
<1> SUFFICES ASSUME TypeOK, Placed, Newest, [Next]_vars PROVE Placed'
  OBVIOUS
<1> USE DEF Placed, Active, Looping, Dispatching
<1>1. CASE Outside \/ UNCHANGED vars
  <2>1. UNCHANGED taskVars /\ (phase' = phase \/ phase' = "Interrupted")
    BY <1>1, OutsideKeeps DEF vars, taskVars, runVars, sessionVars
  <2> QED
    BY <2>1 DEF taskVars, loopVars
<1>2. ASSUME NEW by \in Caller, Claim(by) PROVE Placed'
  BY <1>2 DEF Claim, runVars, loopVars
<1>3. CASE Prepare
  <2>1. CASE ResumeRun /\ phase = "Recovery" /\ pc' = "resuming"
    <3>1. run \in Run \ finished
      BY <2>1, RunAssumption DEF Newest, Unfinished, Run, TypeOK, RunTypeOK
    <3> QED
      BY <1>3, <2>1, <3>1 DEF Prepare, ResumeRun, sessionVars, loopVars
  <2>2. CASE StartRun /\ pc' = "starting"
    BY <1>3, <2>2, RunAssumption DEF Prepare, StartRun, sessionVars, loopVars, TypeOK, RunTypeOK, Run
  <2> QED
    BY <1>3, <2>1, <2>2 DEF Prepare
<1>4. CASE Launch
  BY <1>4 DEF Launch, ContinueRun, ArmRun, loopVars
<1>5. CASE ContextFails
  BY <1>5 DEF ContextFails, runVars, loopVars, sessionVars
<1>6. CASE Work
  BY <1>6, PlacedLoop DEF Work, runVars, sessionVars
<1>7. CASE Close
  BY <1>7 DEF Close, FinishRun, loopVars, sessionVars
<1>8. CASE Rest
  BY <1>8 DEF Rest, runVars, loopVars
<1>9. CASE Restart
  BY <1>9 DEF Restart, ForgetAttempt, NoLocals
<1> QED
  BY <1>1, <1>2, <1>3, <1>4, <1>5, <1>6, <1>7, <1>8, <1>9 DEF Next, Outside

-----------------------------------------------------------------------------
(* The run at work is the newest that is unfinished. *)

\* An attempt writes to the ledger and the checkpoint of its run only.
LEMMA LoopLocal ==
  ASSUME TypeOK, Placed, Loop
  PROVE  \A r \in Run \ {run} : journal'[r] = journal[r] /\ saved'[r] = saved[r]
<1> USE DEF TypeOK, LoopTypeOK, ledgerVars
<1>1. CASE BeginAttempt \/ StopAtHead \/ Ask \/ AnswerLost \/ FinalAnswer \/ CallsAnswer
           \/ BatchDone \/ Refuse \/ AuthRequired \/ AwaitDecision \/ Timeout
  BY <1>1 DEF BeginAttempt, StopAtHead, Ask, AnswerLost, FinalAnswer, CallsAnswer,
     BatchDone, Refuse, AuthRequired, AwaitDecision, Timeout
<1>2. CASE SkipCommitted \/ Dispatch
  BY <1>2 DEF SkipCommitted, Dispatch, SaveCheckpoint, RecordStart
<1>3. CASE Succeed \/ Fail \/ CutShort \/ HearDecision \/ StopWaiting
  BY <1>3 DEF Succeed, Fail, CutShort, HearDecision, StopWaiting, RecordEnd
<1> QED
  BY <1>1, <1>2, <1>3 DEF Loop

\* A call is in hand only with a checkpoint before it.
LEMMA LoopSaves ==
  ASSUME TypeOK, Placed, Newest, Loop, pc' \in Dispatching
  PROVE  saved'[run].made > 0
<1> USE DEF TypeOK, LoopTypeOK, ledgerVars, Dispatching, Newest, HasCheckpoint
<1>1. pc \in Looping \cup {"context"} => run \in Run
  BY DEF Placed, Active
<1>2. CASE Dispatch
  BY <1>1, <1>2 DEF Dispatch, SaveCheckpoint, Looping
<1>3. CASE AuthRequired \/ AwaitDecision
  BY <1>3 DEF AuthRequired, AwaitDecision
<1>4. CASE BeginAttempt \/ StopAtHead \/ Ask \/ AnswerLost \/ FinalAnswer \/ CallsAnswer
           \/ BatchDone \/ Timeout
  BY <1>4 DEF BeginAttempt, StopAtHead, Ask, AnswerLost, FinalAnswer, CallsAnswer,
     BatchDone, Timeout, Leave
<1>5. CASE Refuse \/ SkipCommitted
  BY <1>5 DEF Refuse, SkipCommitted
<1>6. CASE Succeed \/ Fail \/ CutShort \/ HearDecision \/ StopWaiting
  BY <1>6 DEF Succeed, Fail, CutShort, HearDecision, StopWaiting, Return, Tell, Leave
<1> QED
  BY <1>2, <1>3, <1>4, <1>5, <1>6 DEF Loop

LEMMA NewestStep == TypeOK /\ Placed /\ Newest /\ [Next]_vars => Newest'
<1> SUFFICES ASSUME TypeOK, Placed, Newest, [Next]_vars PROVE Newest'
  OBVIOUS
<1> USE RunAssumption DEF Unfinished, HasCheckpoint, Run
<1>t. runs \in 0 .. MaxRuns /\ run \in 0 .. runs /\ finished \subseteq 1 .. runs
  BY DEF TypeOK, RunTypeOK
<1>1. CASE Outside \/ UNCHANGED vars
  <2>1. UNCHANGED taskVars /\ (phase' = phase \/ phase' = "Interrupted")
    BY <1>1, OutsideKeeps DEF vars, taskVars, runVars, sessionVars
  <2> QED
    BY <2>1 DEF Newest, taskVars, loopVars, ledgerVars, Active, Looping, Dispatching
<1>2. ASSUME NEW by \in Caller, Claim(by) PROVE Newest'
  BY <1>2 DEF Newest, Claim, runVars, ledgerVars, Active, Looping, Dispatching
<1>3. CASE Prepare
  <2>1. UNCHANGED ledgerVars /\ pc' \in {"resuming", "starting"}
    BY <1>3 DEF Prepare
  <2>2. CASE ResumeRun /\ phase = "Recovery"
    BY <2>1, <2>2 DEF ResumeRun, Newest, ledgerVars, Active, Looping, Dispatching
  <2>3. CASE StartRun
    BY <2>1, <2>3, <1>t DEF StartRun, Newest, ledgerVars, Active, Looping, Dispatching
  <2> QED
    BY <1>3, <2>2, <2>3 DEF Prepare
<1>4. CASE Launch
  BY <1>4 DEF Newest, Launch, ContinueRun, ArmRun, ledgerVars, Active, Looping, Dispatching
<1>5. CASE ContextFails
  BY <1>5 DEF Newest, ContextFails, runVars, ledgerVars, Active, Looping, Dispatching
<1>6. CASE Work
  <2>1. UNCHANGED <<run, runs, phase, finished>> /\ pc \in Looping \cup {"context"}
    BY <1>6, PlacedLoop DEF Work, runVars
  <2>2. run \in Run /\ phase # "Recovery"
    BY <2>1 DEF Placed, Active, Looping, Dispatching
  <2>3. \A r \in Run \ {run} : journal'[r] = journal[r] /\ saved'[r] = saved[r]
    BY <1>6, LoopLocal DEF Work
  <2>4. pc' \in Dispatching => saved'[run].made > 0
    BY <1>6, LoopSaves DEF Work
  <2>5. ASSUME NEW r \in Unfinished', r # run PROVE r <= run
    <3>1. r \in Run \ {run} /\ r \in 1 .. runs \ finished
      BY <1>t, <2>1, <2>5
    <3>2. r \in Unfinished
      BY <2>3, <2>5, <3>1
    <3> QED
      BY <2>1, <3>2 DEF Newest, Active
  <2>6. \A r \in Run : r > runs => saved'[r].made = saved[r].made /\ journal'[r] = journal[r]
    BY <1>t, <2>3
  <2> QED
    BY <1>t, <2>1, <2>2, <2>4, <2>5, <2>6 DEF Newest
<1>7. CASE Close
  BY <1>7 DEF Newest, Close, FinishRun, ledgerVars, Active, Looping, Dispatching
<1>8. CASE Rest
  BY <1>8 DEF Newest, Rest, runVars, ledgerVars, Active, Looping, Dispatching
<1>9. CASE Restart
  <2>1. UNCHANGED <<runs, finished, journal, saved>> /\ pc' = "none"
    BY <1>9 DEF Restart, Reopen, ForgetAttempt
  <2>2. PICK r \in Unfinished \cup {0} : (\A s \in Unfinished : s <= r) /\ Reopen(r)
    BY <1>9 DEF Restart
  <2>3. phase' = "Recovery" => r # 0 /\ run' = r
    BY <2>2 DEF Reopen
  <2> QED
    BY <2>1, <2>2, <2>3 DEF Newest, Active, Looping, Dispatching
<1> QED
  BY <1>1, <1>2, <1>3, <1>4, <1>5, <1>6, <1>7, <1>8, <1>9 DEF Next, Outside

-----------------------------------------------------------------------------
(* No effect is silent. *)

LEMMA TailElements ==
  ASSUME NEW S, NEW q \in Seq(S), q # <<>>
  PROVE  /\ 1 \in DOMAIN q /\ Head(q) = q[1]
         /\ \A i \in DOMAIN Tail(q) : \E j \in DOMAIN q : Tail(q)[i] = q[j]
         /\ \A i \in DOMAIN q : q[i] = Head(q) \/ \E j \in DOMAIN Tail(q) : Tail(q)[j] = q[i]
<1>1. 1 \in DOMAIN q /\ Head(q) = q[1]
  OBVIOUS
<1>2. ASSUME NEW i \in DOMAIN Tail(q) PROVE i + 1 \in DOMAIN q /\ Tail(q)[i] = q[i + 1]
  OBVIOUS
<1>3. ASSUME NEW i \in DOMAIN q, i # 1
      PROVE  \E j \in DOMAIN Tail(q) : Tail(q)[j] = q[i]
  <2>1. Len(q) \in Nat /\ i \in 2 .. Len(q)
    BY <1>3
  <2>2. DOMAIN Tail(q) = 1 .. Len(q) - 1
    OBVIOUS
  <2>3. i - 1 \in DOMAIN Tail(q) /\ (i - 1) + 1 = i
    BY <2>1, <2>2
  <2> QED
    BY <1>2, <2>3
<1> QED
  BY <1>1, <1>2, <1>3

\* A call whose end is told leaves the rest of the answer covered.
LEMMA TellCovers ==
  ASSUME TypeOK, run \in Run, batch # <<>>, Covered, NEW knowledge \in {"result", "unknown"},
         told' = [told EXCEPT ![Head(batch)] = knowledge], batch' = Tail(batch), run' = run,
         \A c \in Call : journal'[run][c] # "none" => journal[run][c] # "none" \/ c = Head(batch)
  PROVE  Covered'
<1> USE DEF TypeOK, LoopTypeOK
<1>1. Head(batch) \in Call /\ Tail(batch) \in Seq(Call)
  BY HeadInCall
<1>2. \A c \in Call : told'[c] = IF c = Head(batch) THEN knowledge ELSE told[c]
  BY <1>1
<1>3. ASSUME NEW i \in DOMAIN batch' PROVE told'[batch'[i]] # "no"
  <2>0. \A k \in DOMAIN Tail(batch) : \E j \in DOMAIN batch : Tail(batch)[k] = batch[j]
    BY TailElements, Zenon
  <2>1. PICK j \in DOMAIN batch : batch'[i] = batch[j]
    BY <1>3, <2>0
  <2>2. batch[j] \in Call
    OBVIOUS
  <2> QED
    BY <1>2, <2>1, <2>2 DEF Covered
<1>4. ASSUME NEW c \in Call, journal'[run][c] # "none"
      PROVE  told'[c] \in {"result", "unknown"} \/ \E i \in DOMAIN batch' : batch'[i] = c
  <2>1. CASE c = Head(batch)
    BY <1>2, <2>1
  <2>2. CASE c # Head(batch)
    <3>1. told'[c] = told[c] /\ journal[run][c] # "none"
      BY <1>2, <1>4, <2>2
    <3>2. ASSUME NEW i \in DOMAIN batch, batch[i] = c
          PROVE  \E j \in DOMAIN batch' : batch'[j] = c
      BY <2>2, <3>2, TailElements
    <3> QED
      BY <3>1, <3>2 DEF Covered
  <2> QED
    BY <2>1, <2>2
<1> QED
  BY <1>3, <1>4 DEF Covered

\* The end of a call, with its row.
LEMMA EndRecorded ==
  ASSUME TypeOK, Placed, Recorded, pc \in Dispatching, RecordEnd, UNCHANGED <<runVars, saved>>,
         \/ Leave
         \/ \E knowledge \in {"result", "unknown"} : Tell(knowledge)
  PROVE  Recorded'
<1> USE DEF TypeOK, LoopTypeOK, runVars
<1>1. run \in Run /\ batch # <<>> /\ Head(batch) \in Call
  BY HeadInCall DEF Placed, Active, Looping
<1>2. /\ \A r \in Run, c \in Call : journal'[r][c] # "none" => journal[r][c] # "none"
      /\ journal[run][Head(batch)] = "started"
  BY <1>1 DEF RecordEnd, Recorded, Started
<1>3. \A r \in Run : HasCheckpoint(r)' =>
        \A c \in Call : journal'[r][c] # "none" => saved'[r].told[c] # "no"
  BY <1>2 DEF Recorded, HasCheckpoint
<1>4. CASE Leave
  BY <1>3, <1>4 DEF Recorded, Leave, Looping, Dispatching
<1>5. ASSUME NEW knowledge \in {"result", "unknown"}, Tell(knowledge) PROVE Recorded'
  <2>1. Covered'
    BY <1>1, <1>2, <1>5, TellCovers DEF Tell, Recorded, Looping
  <2> QED
    BY <1>3, <1>5, <2>1 DEF Recorded, Tell, Dispatching
<1> QED
  BY <1>4, <1>5

LEMMA RecordedLoop ==
  ASSUME TypeOK, Placed, Recorded, Loop
  PROVE  Recorded'
<1> USE DEF TypeOK, LoopTypeOK
<1>r. pc \in Looping \cup {"context"} => run \in Run
  BY DEF Placed, Active
<1> DEFINE SavedCovers == \A r \in Run : HasCheckpoint(r) =>
             \A c \in Call : journal[r][c] # "none" => saved[r].told[c] # "no"
<1>s. ASSUME UNCHANGED <<journal, saved>> PROVE SavedCovers'
  BY <1>s DEF Recorded, HasCheckpoint
<1>1. CASE BeginAttempt
  <2>1. run \in Run /\ saved[run] \in [made : Nat, told : [Call -> Known]]
    BY <1>1, <1>r DEF BeginAttempt
  <2>2. ASSUME NEW c \in Call, journal[run][c] # "none" PROVE told'[c] \in {"result", "unknown"}
    <3>1. HasCheckpoint(run) /\ saved[run].told[c] # "no"
      BY <1>1, <2>1, <2>2 DEF BeginAttempt, Recorded
    <3>2. told'[c] = Restored(run)[c]
      BY <1>1, <3>1 DEF BeginAttempt
    <3> QED
      BY <2>1, <3>1, <3>2 DEF Restored, Known
  <2>3. Covered'
    BY <1>1, <2>2 DEF BeginAttempt, Covered, ledgerVars, runVars
  <2> QED
    BY <1>1, <1>s, <2>3 DEF BeginAttempt, Recorded, ledgerVars, Dispatching
<1>2. CASE StopAtHead \/ AnswerLost \/ Timeout
  BY <1>2, <1>s DEF StopAtHead, AnswerLost, Timeout, Leave, Recorded, ledgerVars, Looping,
     Dispatching
<1>3. CASE Ask \/ BatchDone
  BY <1>3, <1>s DEF Ask, BatchDone, Recorded, Covered, ledgerVars, loopVars, runVars, Looping,
     Dispatching
<1>4. CASE FinalAnswer
  <2>1. CASE pc' = "head" /\ UNCHANGED <<loopVars, saved>>
    BY <1>4, <2>1, <1>s DEF FinalAnswer, Recorded, Covered, loopVars, runVars, Looping, Dispatching
  <2>2. CASE Leave /\ saved' = [saved EXCEPT ![run] = NoCheckpoint]
    <3>1. SavedCovers'
      BY <1>4, <2>2 DEF FinalAnswer, Recorded, HasCheckpoint, NoCheckpoint
    <3> QED
      BY <2>2, <3>1 DEF Recorded, Leave, Looping, Dispatching
  <2> QED
    BY <1>4, <2>1, <2>2 DEF FinalAnswer
<1>5. CASE CallsAnswer
  <2>1. PICK b \in Answers :
          /\ batch' = b
          /\ told' = [c \in Call |-> IF \E i \in DOMAIN b : b[i] = c THEN "asked" ELSE told[c]]
    BY <1>5 DEF CallsAnswer
  <2>2. b \in Seq(Call)
    BY CallAssumption
  <2>3. \A i \in DOMAIN b : told'[b[i]] = "asked"
    BY <2>1, <2>2
  <2>4. batch = <<>> /\ Covered
    BY <1>5 DEF CallsAnswer, Placed, Recorded, Looping
  <2>5. \A c \in Call : journal[run][c] # "none" => told[c] \in {"result", "unknown"}
    BY <2>4 DEF Covered
  <2>6. Covered'
    BY <1>5, <2>1, <2>3, <2>5 DEF CallsAnswer, Covered, ledgerVars, runVars
  <2> QED
    BY <1>5, <1>s, <2>6 DEF CallsAnswer, Recorded, ledgerVars, Dispatching
<1>6. CASE Refuse
  <2>1. Covered'
    BY <1>6, <1>r, TellCovers DEF Refuse, Recorded, ledgerVars, runVars, Looping
  <2> QED
    BY <1>6, <1>s, <2>1 DEF Refuse, Recorded, ledgerVars, Dispatching
<1>7. ASSUME pc = "batch", batch # <<>>, SaveCheckpoint,
             UNCHANGED journal \/ RecordStart
      PROVE  SavedCovers'
  <2>1. run \in Run /\ Covered
    BY <1>7, <1>r DEF Recorded, Looping
  <2>2. Head(batch) \in Call /\ told[Head(batch)] # "no"
    BY <1>7, <2>1, HeadInCall, TailElements DEF Covered
  <2>3. ASSUME NEW c \in Call, journal'[run][c] # "none" PROVE told[c] # "no"
    <3>1. CASE c = Head(batch)
      BY <2>2, <3>1
    <3>2. CASE journal[run][c] # "none"
      BY <2>1, <3>2 DEF Covered
    <3> QED
      BY <1>7, <2>1, <2>2, <2>3, <3>1, <3>2 DEF RecordStart
  <2>4. \A r \in Run \ {run} : journal'[r] = journal[r] /\ saved'[r] = saved[r]
    BY <1>7 DEF RecordStart, SaveCheckpoint
  <2>5. saved'[run].told = told
    BY <1>7, <2>1 DEF SaveCheckpoint
  <2> QED
    BY <2>3, <2>4, <2>5 DEF Recorded, HasCheckpoint
<1>8. CASE SkipCommitted
  <2>1. Covered'
    BY <1>8, <1>r, TellCovers DEF SkipCommitted, Recorded, runVars, Looping
  <2> QED
    BY <1>8, <1>7, <2>1 DEF SkipCommitted, Recorded, Dispatching
<1>9. CASE Dispatch
  <2>1. run \in Run /\ Covered /\ Head(batch) \in Call
    BY <1>9, <1>r, HeadInCall DEF Dispatch, Recorded, Looping
  <2>2. Started(run, Head(batch))'
    BY <1>9, <2>1 DEF Dispatch, Started, RecordStart, runVars
  <2>3. \A c \in Call : c # Head(batch) => journal'[run][c] = journal[run][c]
    BY <1>9, <2>1 DEF Dispatch, RecordStart
  <2>4. Covered'
    BY <1>9, <2>1, <2>3, TailElements DEF Dispatch, Covered, runVars
  <2>5. SavedCovers'
    BY <1>7, <1>9 DEF Dispatch
  <2> QED
    BY <1>9, <2>2, <2>4, <2>5 DEF Dispatch, Recorded
<1>10. CASE AuthRequired \/ AwaitDecision
  BY <1>10, <1>s DEF AuthRequired, AwaitDecision, Recorded, Covered, Started, ledgerVars,
     loopVars, runVars, Looping, Dispatching
<1>11. CASE Succeed \/ Fail \/ CutShort
  BY <1>11, EndRecorded DEF Succeed, Fail, CutShort, Return, Dispatching
<1>12. CASE HearDecision \/ StopWaiting
  BY <1>12, EndRecorded DEF HearDecision, StopWaiting, Dispatching
<1> QED
  BY <1>1, <1>2, <1>3, <1>4, <1>5, <1>6, <1>8, <1>9, <1>10, <1>11, <1>12 DEF Loop

LEMMA RecordedStep == TypeOK /\ Placed /\ Newest /\ Recorded /\ [Next]_vars => Recorded'
<1> SUFFICES ASSUME TypeOK, Placed, Newest, Recorded, [Next]_vars PROVE Recorded'
  OBVIOUS
<1> USE DEF Recorded, Covered, HasCheckpoint, Started, ledgerVars, loopVars, Looping, Dispatching
<1>1. CASE Outside \/ UNCHANGED vars
  <2>1. UNCHANGED taskVars
    BY <1>1, OutsideKeeps DEF vars, taskVars, runVars, sessionVars
  <2> QED
    BY <2>1 DEF taskVars
<1>2. ASSUME NEW by \in Caller, Claim(by) PROVE Recorded'
  BY <1>2 DEF Claim
<1>3. CASE Prepare
  <2>1. CASE ResumeRun /\ phase = "Recovery"
    BY <1>3, <2>1 DEF Prepare, ResumeRun, Newest, Unfinished
  <2>2. CASE StartRun
    <3>1. run' \in Run /\ run' > runs
      BY <2>2, RunAssumption DEF StartRun, Run, TypeOK, RunTypeOK
    <3> QED
      BY <1>3, <2>2, <3>1 DEF Prepare, Newest
  <2> QED
    BY <1>3, <2>1, <2>2 DEF Prepare
<1>4. CASE Launch
  BY <1>4 DEF Launch, ContinueRun, ArmRun
<1>5. CASE ContextFails
  BY <1>5 DEF ContextFails
<1>6. CASE Work
  BY <1>6, RecordedLoop DEF Work
<1>7. CASE Close
  BY <1>7 DEF Close
<1>8. CASE Rest
  BY <1>8 DEF Rest
<1>9. CASE Restart
  BY <1>9 DEF Restart, ForgetAttempt
<1> QED
  BY <1>1, <1>2, <1>3, <1>4, <1>5, <1>6, <1>7, <1>8, <1>9 DEF Next, Outside

-----------------------------------------------------------------------------
(* No call is left open. *)

LEMMA OpenLoop ==
  ASSUME TypeOK, Placed, OnlyKilledCallsStayOpen, Loop
  PROVE  OnlyKilledCallsStayOpen'
<1> USE DEF TypeOK, LoopTypeOK, OnlyKilledCallsStayOpen, Started, InHand, ledgerVars, loopVars,
    runVars
<1>1. CASE BeginAttempt \/ StopAtHead \/ Ask \/ AnswerLost \/ FinalAnswer \/ CallsAnswer
           \/ BatchDone \/ Refuse \/ SkipCommitted
  <2>1. pc \notin Dispatching /\ journal' = journal /\ killed' = killed
    BY <1>1 DEF BeginAttempt, StopAtHead, Ask, AnswerLost, FinalAnswer, CallsAnswer,
       BatchDone, Refuse, SkipCommitted, Dispatching
  <2> QED
    BY <2>1
<1>2. CASE Dispatch
  <2>1. run \in Run /\ Head(batch) \in Call
    BY <1>2, HeadInCall DEF Dispatch, Placed, Active, Looping
  <2>2. InHand = {} /\ InHand' = {<<run, Head(batch)>>}
    BY <1>2 DEF Dispatch, Dispatching
  <2>3. \A r \in Run, c \in Call :
          <<r, c>> # <<run, Head(batch)>> => journal'[r][c] = journal[r][c]
    BY <1>2, <2>1 DEF Dispatch, RecordStart
  <2> QED
    BY <1>2, <2>2, <2>3 DEF Dispatch
<1>3. CASE AuthRequired \/ AwaitDecision
  BY <1>3 DEF AuthRequired, AwaitDecision, Dispatching
<1>4. ASSUME pc \in Dispatching, RecordEnd, killed' = killed PROVE OnlyKilledCallsStayOpen'
  <2>1. run \in Run /\ Head(batch) \in Call
    BY <1>4, HeadInCall DEF Placed, Active, Looping
  <2>2. /\ journal'[run][Head(batch)] = "closed"
        /\ \A r \in Run, c \in Call :
             <<r, c>> # <<run, Head(batch)>> => journal'[r][c] = journal[r][c]
    BY <1>4, <2>1 DEF RecordEnd
  <2> QED
    BY <1>4, <2>2
<1>5. CASE Succeed \/ Fail \/ CutShort \/ HearDecision \/ StopWaiting
  BY <1>4, <1>5 DEF Succeed, Fail, CutShort, HearDecision, StopWaiting, Dispatching
<1>6. CASE Timeout
  BY <1>6 DEF Timeout
<1> QED
  BY <1>1, <1>2, <1>3, <1>5, <1>6 DEF Loop

LEMMA OpenStep ==
  TypeOK /\ Placed /\ OnlyKilledCallsStayOpen /\ [Next]_vars => OnlyKilledCallsStayOpen'
<1> SUFFICES ASSUME TypeOK, Placed, OnlyKilledCallsStayOpen, [Next]_vars
             PROVE  OnlyKilledCallsStayOpen'
  OBVIOUS
<1>1. ASSUME UNCHANGED ledgerVars, pc \notin Dispatching PROVE OnlyKilledCallsStayOpen'
  BY <1>1 DEF OnlyKilledCallsStayOpen, Started, InHand, ledgerVars
<1>2. CASE Outside \/ UNCHANGED vars
  <2>1. UNCHANGED taskVars
    BY <1>2, OutsideKeeps DEF vars, taskVars, runVars, sessionVars
  <2> QED
    BY <2>1 DEF taskVars, OnlyKilledCallsStayOpen, Started, InHand, ledgerVars, loopVars
<1>3. ASSUME NEW by \in Caller, Claim(by) PROVE OnlyKilledCallsStayOpen'
  BY <1>1, <1>3 DEF Claim, Placed, Dispatching
<1>4. CASE Prepare \/ Launch \/ ContextFails \/ Close \/ Rest
  BY <1>1, <1>4 DEF Prepare, Launch, ContextFails, Close, Rest, Dispatching
<1>5. CASE Work
  BY <1>5, OpenLoop DEF Work
<1>6. CASE Restart
  BY <1>6 DEF Restart, ForgetAttempt, OnlyKilledCallsStayOpen, Started
<1> QED
  BY <1>2, <1>3, <1>4, <1>5, <1>6 DEF Next, Outside

-----------------------------------------------------------------------------
(* A decision reaches its call. *)

\* What the user decides, and a grant that expires, while a call waits.
LEMMA GateKeeps ==
  ASSUME TypeOK, Placed, Requested, UNCHANGED <<pc, req>>,
         \/ \E id \in Request, verdict \in Verdict : Resolve(id, verdict)
         \/ \E c \in Call : Evict(c)
         \/ UNCHANGED gateVars
  PROVE  Requested'
<1> USE DEF TypeOK, GateTypeOK, Requested, DecisionReachesWaiter
<1>q. pc \in {"blocked", "waiting"} => req \in Request
  BY DEF Placed, LoopTypeOK
<1>1. ASSUME NEW id \in Request, NEW verdict \in Verdict, Resolve(id, verdict) PROVE Requested'
  <2>1. verdict # "none"
    BY DEF Verdict
  <2>2. CASE id = req
    <3>1. IsPending(req) /\ ~IsPending(req)'
      BY <1>1, <2>2 DEF Resolve, IsPending, Removed
    <3> QED
      BY <1>1, <1>q, <2>1, <2>2, <3>1 DEF Resolve
  <2>3. CASE id # req
    <3>1. \A c : <<req, c>> \in pending' <=> <<req, c>> \in pending
      BY <1>1, <2>3 DEF Resolve, Removed
    <3>2. IsPending(req)' <=> IsPending(req)
      BY <1>1, <3>1 DEF IsPending
    <3>3. /\ req \in senders' <=> req \in senders
          /\ decided'[req] = decided[req] /\ heard'[req] = heard[req]
          /\ early'[req] = early[req]
      BY <1>1, <2>3 DEF Resolve
    <3> QED
      BY <1>1, <3>2, <3>3
  <2> QED
    BY <2>2, <2>3
<1>2. ASSUME NEW c \in Call, Evict(c) PROVE Requested'
  BY <1>2 DEF Evict, IsPending
<1>3. CASE UNCHANGED gateVars
  BY <1>3 DEF gateVars, IsPending
<1> QED
  BY <1>1, <1>2, <1>3

LEMMA RequestedStep == TypeOK /\ Placed /\ Requested /\ [Next]_vars => Requested'
<1> SUFFICES ASSUME TypeOK, Placed, Requested, [Next]_vars PROVE Requested'
  OBVIOUS
<1> USE DEF TypeOK, GateTypeOK
<1>1. ASSUME pc' \notin {"blocked", "waiting"} PROVE Requested'
  BY <1>1 DEF Requested, DecisionReachesWaiter
<1>2. CASE Submit \/ Decide \/ GrantExpires
  BY <1>2, GateKeeps DEF Submit, Decide, GrantExpires, loopVars, Verdict
<1>3. CASE Enqueue \/ FlushDone \/ Cancel \/ HearIdle \/ DrainDone \/ UNCHANGED vars
  BY <1>3, GateKeeps DEF Enqueue, FlushDone, Cancel, HearIdle, DrainDone, vars, loopVars
<1>4. ASSUME NEW by \in Caller, Intrude(by) PROVE Requested'
  BY <1>4, GateKeeps DEF Intrude, loopVars
<1>5. CASE Prepare \/ Launch \/ ContextFails \/ Close \/ Rest \/ Restart
  BY <1>1, <1>5 DEF Prepare, Launch, ContextFails, Close, Rest, Restart, ForgetAttempt
<1>6. ASSUME NEW by \in Caller, Claim(by) PROVE Requested'
  BY <1>1, <1>6 DEF Claim
<1>7. CASE AuthRequired
  <2>1. PICK id \in Request : SetPending(id, Head(batch)) /\ req' = id
    BY <1>7 DEF AuthRequired
  <2>2. Head(batch) \in Call
    BY <1>7, HeadInCall DEF AuthRequired, Placed, Dispatching, LoopTypeOK
  <2>3. IsPending(req)'
    BY <2>1, <2>2 DEF SetPending, IsPending
  <2>4. /\ req' \notin senders' /\ early'[req'] = "none"
        /\ heard'[req'] = "none" /\ decided'[req'] = "none"
    BY <2>1 DEF SetPending, Fresh
  <2>5. pc' = "blocked"
    BY <1>7 DEF AuthRequired
  <2> QED
    BY <2>3, <2>4, <2>5 DEF Requested, DecisionReachesWaiter
<1>8. CASE AwaitDecision
  <2>1. req \in Request /\ req' = req /\ pc = "blocked" /\ pc' = "waiting"
    BY <1>8 DEF AwaitDecision, loopVars, Placed, LoopTypeOK
  <2>2. IsPending(req)' <=> IsPending(req)
    BY <1>8, <2>1 DEF AwaitDecision, Register, IsPending
  <2>3. CASE IsPending(req)
    <3>1. req \in senders' /\ decided'[req] = "none" /\ heard'[req] = "none"
      BY <1>8, <2>1, <2>3 DEF AwaitDecision, Register, Requested
    <3> QED
      BY <2>1, <2>2, <2>3, <3>1 DEF Requested, DecisionReachesWaiter
  <2>4. CASE ~IsPending(req)
    <3>1. decided'[req] # "none" /\ heard'[req] = decided'[req]
      BY <1>8, <2>1, <2>4 DEF AwaitDecision, Register, Requested
    <3> QED
      BY <2>1, <2>2, <2>4, <3>1 DEF Requested, DecisionReachesWaiter
  <2> QED
    BY <2>3, <2>4
<1>9. CASE BeginAttempt \/ StopAtHead \/ Ask \/ AnswerLost \/ FinalAnswer \/ CallsAnswer
           \/ BatchDone \/ Refuse \/ SkipCommitted \/ Dispatch
  BY <1>1, <1>9 DEF BeginAttempt, StopAtHead, Ask, AnswerLost, FinalAnswer, CallsAnswer,
     BatchDone, Refuse, SkipCommitted, Dispatch, Leave
<1>10. CASE Succeed \/ Fail \/ CutShort \/ HearDecision \/ StopWaiting \/ Timeout
  BY <1>1, <1>10 DEF Succeed, Fail, CutShort, HearDecision, StopWaiting, Timeout, Return, Tell,
     Leave
<1> QED
  BY <1>2, <1>3, <1>4, <1>5, <1>6, <1>7, <1>8, <1>9, <1>10 DEF Next, Work, Loop

-----------------------------------------------------------------------------
(* The invariant *)

LEMMA InitInv == Init => IInv
<1> SUFFICES ASSUME Init PROVE IInv
  OBVIOUS
<1> USE DEF Init, RunInit, GateInit, LoopInit, SessionInit
<1>1. RunTypeOK /\ GateTypeOK
  BY RunAssumption DEF RunTypeOK, Phase, GateTypeOK, NoAnswer, Answer
<1>2. LoopTypeOK
  BY DEF LoopTypeOK, Place, NothingTold, NoCheckpoint, Known, Status
<1>3. SessionTypeOK
  BY RunAssumption, SessionAssumption DEF SessionTypeOK, Caller
<1>4. Placed
  BY DEF Placed, Active, Looping, Dispatching
<1>5. Newest /\ Recorded
  BY DEF Newest, Recorded, Unfinished, HasCheckpoint, NoCheckpoint, Active, Looping, Dispatching
<1>6. OnlyKilledCallsStayOpen /\ Requested
  BY DEF OnlyKilledCallsStayOpen, Started, Requested, DecisionReachesWaiter
<1> QED
  BY <1>1, <1>2, <1>3, <1>4, <1>5, <1>6 DEF IInv, TypeOK

LEMMA Inductive == Spec => []IInv
<1>1. IInv /\ [Next]_vars => IInv'
  BY TypeStep, PlacedStep, NewestStep, RecordedStep, OpenStep, RequestedStep DEF IInv
<1> QED
  BY InitInv, <1>1, PTL DEF Spec

-----------------------------------------------------------------------------
(* Every variable of the session stays in its domain. *)
THEOREM SessionTypes == Spec => []TypeOK
<1>1. IInv => TypeOK
  BY DEF IInv
<1> QED
  BY Inductive, <1>1, PTL

(* Whatever the ledger holds of a run, the model has been told when it is  *)
(* asked again, after any number of cancellations, timeouts and crashes.   *)
THEOREM NoEffectIsSilent == Spec => []NoSilentEffect
<1>1. IInv => NoSilentEffect
  <2> SUFFICES ASSUME IInv, pc = "asking", NEW c \in Call, journal[run][c] # "none"
               PROVE  told[c] \in {"result", "unknown"}
    BY DEF NoSilentEffect
  <2>1. Covered /\ batch = <<>>
    BY DEF IInv, Recorded, Placed, Looping
  <2> QED
    BY <2>1 DEF Covered
<1> QED
  BY Inductive, <1>1, PTL

(* No way out of the dispatcher leaves a call started: only a crash and    *)
(* the timeout of an attempt do.                                           *)
THEOREM CallsAreClosed == Spec => []OnlyKilledCallsStayOpen
<1>1. IInv => OnlyKilledCallsStayOpen
  BY DEF IInv
<1> QED
  BY Inductive, <1>1, PTL

(* A waiting call has a request that can still be decided, or the decision *)
(* that was made of it.                                                    *)
THEOREM DecisionsArrive == Spec => []DecisionReachesWaiter
<1>1. IInv => DecisionReachesWaiter
  BY DEF IInv, Requested
<1> QED
  BY Inductive, <1>1, PTL

-----------------------------------------------------------------------------
(* What no step does *)

LEMMA JournalStep ==
  ASSUME TypeOK, Placed, [Next]_vars,
         NEW r \in Run, NEW c \in Call, Committed(r, c), Started(r, c)'
  PROVE  Started(r, c)
<1> USE DEF TypeOK, LoopTypeOK, Started, ledgerVars
<1>1. CASE Outside \/ UNCHANGED vars
  BY <1>1, OutsideKeeps DEF vars, taskVars
<1>2. ASSUME NEW by \in Caller, Claim(by) PROVE Started(r, c)
  BY <1>2 DEF Claim
<1>3. CASE Prepare \/ Launch \/ ContextFails \/ Close \/ Rest \/ Restart
  BY <1>3 DEF Prepare, Launch, ContextFails, Close, Rest, Restart, ForgetAttempt
<1>4. CASE BeginAttempt \/ StopAtHead \/ Ask \/ AnswerLost \/ FinalAnswer \/ CallsAnswer
           \/ BatchDone \/ Refuse \/ SkipCommitted \/ AuthRequired \/ AwaitDecision \/ Timeout
  BY <1>4 DEF BeginAttempt, StopAtHead, Ask, AnswerLost, FinalAnswer, CallsAnswer,
     BatchDone, Refuse, SkipCommitted, AuthRequired, AwaitDecision, Timeout
<1>5. CASE Dispatch
  <2>1. run \in Run /\ Head(batch) \in Call
    BY <1>5, HeadInCall DEF Dispatch, Placed, Active, Looping
  <2> QED
    BY <1>5, <2>1 DEF Dispatch, RecordStart
<1>6. CASE Succeed \/ Fail \/ CutShort \/ HearDecision \/ StopWaiting
  <2>1. run \in Run /\ Head(batch) \in Call /\ RecordEnd
    BY <1>6, HeadInCall DEF Succeed, Fail, CutShort, HearDecision, StopWaiting, Placed, Active,
       Looping, Dispatching
  <2> QED
    BY <2>1 DEF RecordEnd
<1> QED
  BY <1>1, <1>2, <1>3, <1>4, <1>5, <1>6 DEF Next, Outside, Work, Loop

(* A call that must not be repeated is started once in a run after it has  *)
(* completed, in whatever process the run continues.                       *)
THEOREM CommittedCallsRest == Spec => CommittedNeverRepeats
<1>1. IInv /\ [Next]_vars =>
        [\A r \in Run, c \in Call : Committed(r, c) => (Started(r, c)' => Started(r, c))]_vars
  BY JournalStep DEF IInv
<1> QED
  BY Inductive, <1>1, PTL DEF Spec, CommittedNeverRepeats

LEMMA FinishedStep ==
  ASSUME TypeOK, Placed, [Next]_vars, NEW r \in finished
  PROVE  r \in finished' /\ journal'[r] = journal[r] /\ saved'[r] = saved[r]
<1> USE DEF runVars, ledgerVars
<1>1. CASE Outside \/ UNCHANGED vars
  BY <1>1, OutsideKeeps DEF vars, taskVars
<1>2. ASSUME NEW by \in Caller, Claim(by)
      PROVE  r \in finished' /\ journal'[r] = journal[r] /\ saved'[r] = saved[r]
  BY <1>2 DEF Claim
<1>3. CASE Prepare \/ Launch \/ ContextFails \/ Rest
  BY <1>3 DEF Prepare, StartRun, ResumeRun, Launch, ContinueRun, ArmRun, ContextFails, Rest
<1>4. CASE Close
  BY <1>4 DEF Close, FinishRun
<1>5. CASE Restart
  BY <1>5 DEF Restart, Reopen, ForgetAttempt
<1>6. CASE Work
  <2>1. UNCHANGED runVars /\ run \notin finished
    BY <1>6, PlacedLoop DEF Work, Placed, Active, Looping
  <2>2. r \in Run \ {run}
    BY <2>1, RunAssumption DEF TypeOK, RunTypeOK, Run
  <2> QED
    BY <1>6, <2>1, <2>2, LoopLocal DEF Work
<1> QED
  BY <1>1, <1>2, <1>3, <1>4, <1>5, <1>6 DEF Next, Outside

(* A run that the ledger has as finished is never written to again.        *)
THEOREM FinishedRunsRest == Spec => FinishedStaysFinished
<1>1. IInv /\ [Next]_vars =>
        [\A r \in finished :
           r \in finished' /\ journal'[r] = journal[r] /\ saved'[r] = saved[r]]_vars
  BY FinishedStep DEF IInv
<1> QED
  BY Inductive, <1>1, PTL DEF Spec, FinishedStaysFinished

LEMMA CrashStep ==
  ASSUME TypeOK, Placed, Newest, [Next]_vars, pc \in Dispatching, restarts' # restarts
  PROVE  run' = run /\ phase' = "Recovery"
<1> USE DEF sessionVars, userVars
<1>1. Restart
  <2>1. CASE Submit \/ Enqueue \/ FlushDone \/ Cancel \/ Decide \/ GrantExpires
             \/ HearIdle \/ DrainDone \/ UNCHANGED vars
    BY <2>1 DEF Submit, Enqueue, FlushDone, Cancel, Decide, GrantExpires, HearIdle, DrainDone,
       vars
  <2>2. ASSUME NEW by \in Caller, Claim(by) \/ Intrude(by) PROVE FALSE
    BY <2>2 DEF Claim, Intrude
  <2>3. CASE Prepare \/ Launch \/ ContextFails \/ Work \/ Close \/ Rest
    BY <2>3 DEF Prepare, Launch, ContextFails, Work, Close, Rest
  <2> QED
    BY <2>1, <2>2, <2>3 DEF Next
<1>2. PICK r \in Unfinished \cup {0} : (\A s \in Unfinished : s <= r) /\ Reopen(r)
  BY <1>1 DEF Restart
<1>3. /\ run \in 1 .. runs \ finished /\ HasCheckpoint(run)
      /\ \A s \in Unfinished : s <= run
  BY DEF Placed, Newest, Active, Looping, TypeOK, RunTypeOK, Run
<1>4. run \in Unfinished
  BY <1>3 DEF Unfinished
<1>5. r = run
  BY <1>2, <1>3, <1>4 DEF Unfinished, TypeOK, RunTypeOK
<1> QED
  BY <1>2, <1>3, <1>5 DEF Reopen, TypeOK, RunTypeOK

(* The process that follows a crash in the middle of a call offers the run *)
(* of that call for recovery.                                              *)
THEOREM CrashesAreRecovered == Spec => CrashIsRecovered
<1>1. IInv /\ [Next]_vars =>
        [(pc \in Dispatching /\ restarts' # restarts) => run' = run /\ phase' = "Recovery"]_vars
  BY CrashStep DEF IInv
<1> QED
  BY Inductive, <1>1, PTL DEF Spec, CrashIsRecovered

-----------------------------------------------------------------------------
(* One task at a time, within its budget *)

(* AgentController::run claims the session only when no task is left: one  *)
(* that is stuck, or resting before it reports Idle, still holds it.       *)
NoTaskIsReplaced == [][pc' = "claimed" /\ pc # "claimed" => pc = "none"]_vars

THEOREM TasksTakeTurns == Spec => NoTaskIsReplaced
<1>1. ASSUME IInv, [Next]_vars, pc' = "claimed", pc # "claimed" PROVE pc = "none"
  <2>1. CASE Outside \/ UNCHANGED vars
    BY <1>1, <2>1, OutsideKeeps DEF vars, taskVars
  <2>2. ASSUME NEW by \in Caller, Claim(by) PROVE pc = "none"
    BY <1>1, <2>2 DEF Claim, IInv, Placed
  <2>3. CASE Prepare \/ Launch \/ ContextFails \/ Close \/ Rest \/ Restart
    BY <1>1, <2>3 DEF Prepare, Launch, ContextFails, Close, Rest, Restart, ForgetAttempt
  <2>4. CASE Work
    BY <1>1, <2>4, PlacedLoop DEF Work, IInv, Looping, Dispatching
  <2> QED
    BY <1>1, <2>1, <2>2, <2>3, <2>4 DEF Next, Outside
<1>2. IInv /\ [Next]_vars => [pc' = "claimed" /\ pc # "claimed" => pc = "none"]_vars
  BY <1>1
<1> QED
  BY Inductive, <1>2, PTL DEF Spec, NoTaskIsReplaced

(* No answer of the model holds more than N calls. *)
AtMost(N) == \A answer \in Answers : Len(answer) <= N

(* The budget is looked at before the model is asked and after a call that *)
(* was dispatched, not between the calls of one answer that are refused,   *)
(* passed over or unauthorized.  The counter of the loop and the one of    *)
(* the checkpoint therefore stay less than N above max_tool_calls: a new   *)
(* process goes on with the counter it finds.                              *)
Within(N) ==
  /\ \A r \in Run : saved[r].made < MaxCalls + N
  /\ made < MaxCalls + N
  /\ pc = "asking" => made < MaxCalls
  /\ pc = "batch" => made + Len(batch) < MaxCalls + N
  /\ pc \in Dispatching => made + Len(batch) <= MaxCalls + N

LEMMA TailLength ==
  ASSUME NEW S, NEW q \in Seq(S), q # <<>>
  PROVE  Len(Tail(q)) = Len(q) - 1 /\ Len(q) \in Nat \ {0}
OBVIOUS

\* A call that returns takes its own place in the answer with it.
LEMMA ReturnWithin ==
  ASSUME NEW N \in Nat, IInv, Within(N), pc \in Dispatching, saved' = saved, run' = run,
         Leave \/ \E knowledge \in Known : Tell(knowledge)
  PROVE  Within(N)'
<1> USE CallAssumption DEF Looping, Dispatching
<1>1. /\ batch \in Seq(Call) /\ batch # <<>> /\ made \in Nat
      /\ \A r \in Run : saved[r].made < MaxCalls + N
      /\ made + Len(batch) <= MaxCalls + N
  BY DEF IInv, TypeOK, LoopTypeOK, Placed, Within
<1>2. Len(Tail(batch)) = Len(batch) - 1 /\ Len(batch) \in Nat \ {0}
  BY <1>1, TailLength
<1>3. CASE Leave
  BY <1>1, <1>3 DEF Within, Leave, NoLocals
<1>4. ASSUME NEW knowledge \in Known, Tell(knowledge) PROVE Within(N)'
  <2>1. batch' = Tail(batch) /\ pc' = "batch" /\ made' = made
    BY <1>4 DEF Tell
  <2> QED
    BY <1>1, <1>2, <2>1 DEF Within
<1> QED
  BY <1>3, <1>4
\* A call that is dispatched or passed over is counted before it is run.
LEMMA SaveWithin ==
  ASSUME NEW N \in Nat, IInv, Within(N), SkipCommitted \/ Dispatch
  PROVE  Within(N)'
<1> USE CallAssumption DEF Looping, Dispatching
<1>1. /\ pc = "batch" /\ batch \in Seq(Call) /\ batch # <<>> /\ made \in Nat /\ run \in Run
      /\ saved \in [Run -> [made : Nat, told : [Call -> Known]]]
      /\ \A r \in Run : saved[r].made < MaxCalls + N
      /\ made + Len(batch) < MaxCalls + N
      /\ run' = run /\ made' = made + 1 /\ SaveCheckpoint
  BY DEF SkipCommitted, Dispatch, IInv, TypeOK, LoopTypeOK, Placed, Active, Within, runVars
<1>2. Len(Tail(batch)) = Len(batch) - 1 /\ Len(batch) \in Nat \ {0}
  BY <1>1, TailLength
<1>3. \A r \in Run : saved'[r].made = IF r = run THEN made + 1 ELSE saved[r].made
  BY <1>1 DEF SaveCheckpoint
<1>4. made + 1 < MaxCalls + N
  BY <1>1, <1>2
<1>5. (\A r \in Run : saved'[r].made < MaxCalls + N) /\ saved'[run].made = made + 1
  BY <1>1, <1>3, <1>4
<1>6. CASE SkipCommitted
  <2>1. batch' = Tail(batch) /\ pc' = "batch"
    BY <1>1, <1>6 DEF SkipCommitted
  <2> QED
    BY <1>1, <1>2, <1>4, <1>5, <2>1 DEF Within
<1>7. CASE Dispatch
  <2>1. batch' = batch /\ pc' = "running"
    BY <1>7 DEF Dispatch
  <2> QED
    BY <1>1, <1>2, <1>4, <1>5, <2>1 DEF Within
<1> QED
  BY <1>6, <1>7

LEMMA LoopWithin ==
  ASSUME NEW N \in Nat, AtMost(N), IInv, Within(N), Loop
  PROVE  Within(N)'
<1> USE CallAssumption DEF Looping, Dispatching, ledgerVars, runVars, loopVars
<1>1. /\ made \in Nat /\ batch \in Seq(Call) /\ (pc \in Looping \cup {"context"} => run \in Run)
      /\ \A r \in Run : saved[r].made \in Nat /\ saved[r].made < MaxCalls + N
      /\ made < MaxCalls + N
  BY DEF IInv, TypeOK, LoopTypeOK, Placed, Active, Within
<1>2. CASE BeginAttempt
  BY <1>1, <1>2 DEF BeginAttempt, Within
<1>3. CASE StopAtHead \/ AnswerLost \/ Timeout
  BY <1>1, <1>3 DEF StopAtHead, AnswerLost, Timeout, Leave, NoLocals, Within
<1>4. CASE Ask
  BY <1>1, <1>4 DEF Ask, Within
<1>5. CASE FinalAnswer
  <2>1. CASE pc' = "head" /\ UNCHANGED <<loopVars, saved>>
    BY <1>1, <1>5, <2>1 DEF FinalAnswer, Within
  <2>2. CASE Leave /\ saved' = [saved EXCEPT ![run] = NoCheckpoint]
    <3>1. \A r \in Run : saved'[r] = NoCheckpoint \/ saved'[r] = saved[r]
      BY <2>2 DEF IInv, TypeOK, LoopTypeOK
    <3>2. \A r \in Run : saved'[r].made < MaxCalls + N
      BY <1>1, <3>1 DEF NoCheckpoint
    <3> QED
      BY <1>1, <2>2, <3>2 DEF Leave, NoLocals, Within
  <2> QED
    BY <1>5, <2>1, <2>2 DEF FinalAnswer
<1>6. CASE CallsAnswer
  <2>1. PICK b \in Answers : batch' = b
    BY <1>6 DEF CallsAnswer
  <2>2. Len(b) \in Nat /\ Len(b) <= N
    BY <2>1 DEF AtMost
  <2>3. /\ pc = "asking" /\ pc' = "batch" /\ made' = made /\ saved' = saved /\ run' = run
        /\ made < MaxCalls
    BY <1>6 DEF CallsAnswer, Within
  <2> QED
    BY <1>1, <2>1, <2>2, <2>3 DEF Within
<1>7. CASE BatchDone
  BY <1>1, <1>7 DEF BatchDone, Within
<1>8. CASE Refuse
  <2>1. /\ pc = "batch" /\ batch # <<>> /\ pc' = "batch" /\ made' = made + 1
        /\ batch' = Tail(batch) /\ saved' = saved /\ run' = run
        /\ made + Len(batch) < MaxCalls + N
    BY <1>8 DEF Refuse, Within
  <2>2. Len(Tail(batch)) = Len(batch) - 1 /\ Len(batch) \in Nat \ {0}
    BY <1>1, <2>1, TailLength
  <2> QED
    BY <1>1, <2>1, <2>2 DEF Within
<1>9. CASE SkipCommitted \/ Dispatch
  BY <1>9, SaveWithin
<1>10. CASE AuthRequired \/ AwaitDecision
  BY <1>1, <1>10 DEF AuthRequired, AwaitDecision, Within
<1>11. CASE Succeed \/ Fail \/ CutShort \/ HearDecision \/ StopWaiting
  <2>1. /\ pc \in Dispatching /\ saved' = saved /\ run' = run
        /\ Leave \/ \E knowledge \in Known : Tell(knowledge)
    BY <1>11 DEF Succeed, Fail, CutShort, HearDecision, StopWaiting, Return, Known
  <2> QED
    BY <2>1, ReturnWithin
<1> QED
  BY <1>2, <1>3, <1>4, <1>5, <1>6, <1>7, <1>8, <1>9, <1>10, <1>11 DEF Loop

LEMMA WithinStep ==
  ASSUME NEW N \in Nat, AtMost(N), IInv, Within(N), [Next]_vars
  PROVE  Within(N)'
<1> USE DEF ledgerVars, loopVars
<1>1. CASE Outside \/ UNCHANGED vars
  BY <1>1, OutsideKeeps DEF vars, taskVars, runVars, Within
<1>2. ASSUME NEW by \in Caller, Claim(by) PROVE Within(N)'
  BY <1>2 DEF Claim, runVars, Within, Looping, Dispatching
<1>3. CASE Prepare \/ Launch \/ ContextFails \/ Close \/ Rest
  <2>1. /\ saved' = saved /\ made' = made
        /\ pc' \notin Looping
    BY <1>3 DEF Prepare, Launch, ContextFails, Close, Rest, Looping, Dispatching
  <2> QED
    BY <2>1 DEF Within, Looping, Dispatching
<1>4. CASE Restart
  <2>1. saved' = saved /\ made' = 0 /\ pc' = "none"
    BY <1>4 DEF Restart, ForgetAttempt, NoLocals
  <2> QED
    BY <2>1, CallAssumption DEF Within, Looping, Dispatching
<1>5. CASE Work
  BY <1>5, LoopWithin DEF Work
<1> QED
  BY <1>1, <1>2, <1>3, <1>4, <1>5 DEF Next, Outside

(* However often its process dies, a run stays within the budget and the   *)
(* rest of one answer.                                                     *)
THEOREM BudgetOutlivesCrashes ==
  ASSUME NEW N \in Nat, AtMost(N)
  PROVE  Spec => []Within(N)
<1>1. Init => Within(N)
  BY CallAssumption DEF Init, LoopInit, Within, NoCheckpoint, Looping, Dispatching
<1>2. IInv /\ Within(N) /\ [Next]_vars => Within(N)'
  BY WithinStep
<1> QED
  BY Inductive, <1>1, <1>2, PTL DEF Spec

(* A row started in the ledger raises the counter that a crash leaves, and *)
(* only the end of its run by a final answer takes that counter back.      *)
CallsAreCounted ==
  [][\A r \in Run :
       /\ (\E c \in Call : ~Started(r, c) /\ Started(r, c)') => saved'[r].made > saved[r].made
       /\ saved'[r].made < saved[r].made => saved'[r] = NoCheckpoint /\ pc' = "ended"]_vars

(* The counter of the checkpoint is never ahead of the loop's. *)
CounterKept == pc \in Looping => saved[run].made <= made

LEMMA CounterLoop == IInv /\ CounterKept /\ Loop => CounterKept'
<1> SUFFICES ASSUME IInv, CounterKept, Loop PROVE CounterKept'
  OBVIOUS
<1> USE DEF CounterKept, Looping, Dispatching, ledgerVars, runVars, loopVars
<1>1. /\ made \in Nat /\ run' = run /\ run \in Run
      /\ saved \in [Run -> [made : Nat, told : [Call -> Known]]] /\ saved[run].made \in Nat
  BY PlacedLoop DEF IInv, TypeOK, LoopTypeOK, Placed, Active
<1>2. CASE BeginAttempt \/ StopAtHead \/ Ask \/ AnswerLost \/ CallsAnswer \/ BatchDone \/ Timeout
  BY <1>1, <1>2 DEF BeginAttempt, StopAtHead, Ask, AnswerLost, CallsAnswer, BatchDone, Timeout,
     Leave
<1>3. CASE Refuse \/ AuthRequired \/ AwaitDecision
  BY <1>1, <1>3 DEF Refuse, AuthRequired, AwaitDecision
<1>4. CASE FinalAnswer
  BY <1>1, <1>4 DEF FinalAnswer, Leave
<1>5. CASE SkipCommitted \/ Dispatch
  <2>1. made' = made + 1 /\ SaveCheckpoint
    BY <1>5 DEF SkipCommitted, Dispatch
  <2> QED
    BY <1>1, <2>1 DEF SaveCheckpoint
<1>6. CASE Succeed \/ Fail \/ CutShort \/ HearDecision \/ StopWaiting
  BY <1>1, <1>6 DEF Succeed, Fail, CutShort, HearDecision, StopWaiting, Return, Tell, Leave
<1> QED
  BY <1>2, <1>3, <1>4, <1>5, <1>6 DEF Loop

LEMMA CounterStep == IInv /\ CounterKept /\ [Next]_vars => CounterKept'
<1> SUFFICES ASSUME IInv, CounterKept, [Next]_vars PROVE CounterKept'
  OBVIOUS
<1> USE DEF CounterKept
<1>1. CASE Outside \/ UNCHANGED vars
  BY <1>1, OutsideKeeps DEF vars, taskVars, runVars, loopVars, ledgerVars
<1>2. ASSUME NEW by \in Caller, Claim(by) PROVE CounterKept'
  BY <1>2 DEF Claim, Looping, Dispatching
<1>3. CASE Prepare \/ Launch \/ ContextFails \/ Close \/ Rest \/ Restart
  BY <1>3 DEF Prepare, Launch, ContextFails, Close, Rest, Restart, ForgetAttempt, Looping,
     Dispatching
<1>4. CASE Work
  BY <1>4, CounterLoop DEF Work
<1> QED
  BY <1>1, <1>2, <1>3, <1>4 DEF Next, Outside

LEMMA CountedLoop ==
  ASSUME IInv, CounterKept, Loop, NEW r \in Run
  PROVE  /\ (\E c \in Call : ~Started(r, c) /\ Started(r, c)') => saved'[r].made > saved[r].made
         /\ saved'[r].made < saved[r].made => saved'[r] = NoCheckpoint /\ pc' = "ended"
<1> USE DEF ledgerVars, Started
<1>1. /\ journal \in [Run -> [Call -> Status]]
      /\ saved \in [Run -> [made : Nat, told : [Call -> Known]]] /\ made \in Nat
      /\ saved[r].made \in Nat
  BY DEF IInv, TypeOK, LoopTypeOK
<1>2. CASE BeginAttempt \/ StopAtHead \/ Ask \/ AnswerLost \/ CallsAnswer \/ BatchDone
           \/ Refuse \/ AuthRequired \/ AwaitDecision \/ Timeout
  <2>1. journal' = journal /\ saved' = saved
    BY <1>2 DEF BeginAttempt, StopAtHead, Ask, AnswerLost, CallsAnswer, BatchDone, Refuse,
       AuthRequired, AwaitDecision, Timeout
  <2> QED
    BY <1>1, <2>1
<1>3. CASE FinalAnswer
  <2>1. journal' = journal
    BY <1>3 DEF FinalAnswer
  <2>2. saved'[r] = saved[r] \/ (saved'[r] = NoCheckpoint /\ pc' = "ended")
    BY <1>1, <1>3 DEF FinalAnswer, Leave
  <2> QED
    BY <1>1, <2>1, <2>2
<1>4. CASE SkipCommitted \/ Dispatch
  <2>1. pc = "batch" /\ SaveCheckpoint /\ run \in Run /\ saved[run].made <= made
    BY <1>4 DEF SkipCommitted, Dispatch, CounterKept, Looping, IInv, Placed, Active
  <2>2. \A s \in Run : saved'[s] = IF s = run THEN [made |-> made + 1, told |-> told] ELSE saved[s]
    BY <1>1, <2>1 DEF SaveCheckpoint
  <2>3. CASE r = run
    BY <1>1, <2>1, <2>2, <2>3
  <2>4. CASE r # run
    <3>1. journal'[r] = journal[r] /\ saved'[r] = saved[r]
      BY <2>4, LoopLocal DEF IInv
    <3> QED
      BY <1>1, <3>1
  <2> QED
    BY <2>3, <2>4
<1>5. CASE Succeed \/ Fail \/ CutShort \/ HearDecision \/ StopWaiting
  <2>1. saved' = saved /\ RecordEnd
    BY <1>5 DEF Succeed, Fail, CutShort, HearDecision, StopWaiting
  <2>2. \A c \in Call : Started(r, c)' => Started(r, c)
    BY <1>1, <2>1 DEF RecordEnd
  <2> QED
    BY <1>1, <2>1, <2>2
<1> QED
  BY <1>2, <1>3, <1>4, <1>5 DEF Loop

(* With the bound above: over all the processes it lives in, a run         *)
(* dispatches less than MaxCalls + N calls.                                *)
THEOREM CallsSpendTheBudget == Spec => CallsAreCounted
<1> DEFINE Counted(r) ==
       /\ (\E c \in Call : ~Started(r, c) /\ Started(r, c)') => saved'[r].made > saved[r].made
       /\ saved'[r].made < saved[r].made => saved'[r] = NoCheckpoint /\ pc' = "ended"
<1>1. ASSUME IInv, CounterKept, [Next]_vars, NEW r \in Run PROVE Counted(r)
  <2>1. CASE journal' = journal /\ saved' = saved
    BY <1>1, <2>1 DEF Started, IInv, TypeOK, LoopTypeOK
  <2>2. CASE Work
    BY <1>1, <2>2, CountedLoop DEF Work
  <2>3. CASE Outside \/ UNCHANGED vars
    BY <2>1, <2>3, OutsideKeeps DEF vars, taskVars, ledgerVars
  <2>4. ASSUME NEW by \in Caller, Claim(by) PROVE Counted(r)
    BY <2>1, <2>4 DEF Claim, ledgerVars
  <2>5. CASE Prepare \/ Launch \/ ContextFails \/ Close \/ Rest \/ Restart
    BY <2>1, <2>5 DEF Prepare, Launch, ContextFails, Close, Rest, Restart, ForgetAttempt, ledgerVars
  <2> QED
    BY <1>1, <2>2, <2>3, <2>4, <2>5 DEF Next, Outside
<1>2. IInv /\ CounterKept /\ [Next]_vars => [\A r \in Run : Counted(r)]_vars
  BY <1>1
<1>3. Init => CounterKept
  BY DEF Init, LoopInit, CounterKept, Looping, Dispatching
<1> QED
  BY Inductive, CounterStep, <1>2, <1>3, PTL DEF Spec, CallsAreCounted

-----------------------------------------------------------------------------
(* The session implements RunLedger.                                       *)

(* A checkpoint names at least the call it was saved for. *)
Filled ==
  \A r \in Run : HasCheckpoint(r) <=> \E c \in Call : saved[r].told[c] # "no"

LEMMA SavesName ==
  ASSUME IInv, pc = "batch", batch # <<>>, SaveCheckpoint
  PROVE  /\ run \in Run /\ Head(batch) \in Call /\ told[Head(batch)] # "no"
         /\ saved'[run].made > 0 /\ saved'[run].told = told
         /\ \A r \in Run \ {run} : saved'[r] = saved[r]
<1> USE DEF IInv, TypeOK, LoopTypeOK
<1>1. run \in Run /\ Head(batch) \in Call
  BY HeadInCall DEF Placed, Active, Looping
<1>2. told[Head(batch)] # "no"
  <2>1. Covered
    BY DEF Recorded, Looping
  <2>2. 1 \in DOMAIN batch /\ Head(batch) = batch[1]
    BY TailElements
  <2> QED
    BY <2>1, <2>2 DEF Covered
<1>3. \A r \in Run \ {run} : saved'[r] = saved[r]
  BY DEF SaveCheckpoint
<1>4. saved'[run].made > 0 /\ saved'[run].told = told
  BY <1>1 DEF SaveCheckpoint
<1> QED
  BY <1>1, <1>2, <1>3, <1>4

LEMMA FilledStep == IInv /\ Filled /\ [Next]_vars => Filled'
<1> SUFFICES ASSUME IInv, Filled, [Next]_vars PROVE Filled'
  OBVIOUS
<1>0. ASSUME saved' = saved PROVE Filled'
  BY <1>0 DEF Filled, HasCheckpoint
<1>1. CASE Outside \/ UNCHANGED vars
  BY <1>0, <1>1, OutsideKeeps DEF IInv, vars, taskVars, ledgerVars
<1>2. ASSUME NEW by \in Caller, Claim(by) PROVE Filled'
  BY <1>0, <1>2 DEF Claim, ledgerVars
<1>3. CASE Prepare \/ Launch \/ ContextFails \/ Close \/ Rest \/ Restart
  BY <1>0, <1>3 DEF Prepare, Launch, ContextFails, Close, Rest, Restart, ForgetAttempt, ledgerVars
<1>4. CASE FinalAnswer
  <2>1. CASE saved' = [saved EXCEPT ![run] = NoCheckpoint]
    <3>1. \A r \in Run : saved'[r] = NoCheckpoint \/ saved'[r] = saved[r]
      BY <2>1 DEF IInv, TypeOK, LoopTypeOK
    <3> QED
      BY <3>1 DEF Filled, HasCheckpoint, NoCheckpoint, NothingTold
  <2> QED
    BY <1>0, <1>4, <2>1 DEF FinalAnswer
<1>5. CASE SkipCommitted \/ Dispatch
  <2>1. pc = "batch" /\ batch # <<>> /\ SaveCheckpoint
    BY <1>5 DEF SkipCommitted, Dispatch
  <2> QED
    BY <2>1, SavesName DEF Filled, HasCheckpoint
<1>6. CASE Loop /\ ~ (FinalAnswer \/ SkipCommitted \/ Dispatch)
  BY <1>0, <1>6 DEF Loop, BeginAttempt, StopAtHead, Ask, AnswerLost, CallsAnswer, BatchDone, Refuse,
     Succeed, Fail, CutShort, AuthRequired, AwaitDecision, HearDecision, StopWaiting, Timeout,
     ledgerVars
<1> QED
  BY <1>1, <1>2, <1>3, <1>4, <1>5, <1>6 DEF Next, Outside, Work

LEMMA SameRecoverable ==
  ASSUME IInv, Filled
  PROVE  Ledger!Recoverable = Unfinished
<1>1. \A r \in 1 .. runs : r \in Run
  BY RunAssumption DEF IInv, TypeOK, RunTypeOK, Run
<1>2. \A r \in 1 .. runs : HasCheckpoint(r) <=> NamedCalls[r] # {}
  BY <1>1 DEF Filled, NamedCalls
<1> QED
  BY <1>2 DEF Ledger!Recoverable, Unfinished

(* What the steps of an attempt look like from outside. *)
LEMMA QuietStep ==
  ASSUME UNCHANGED <<run, runs, finished, journal, committed, saved>>,
         UNCHANGED <<HeldStage, CallInHand>>
  PROVE  UNCHANGED Ledger!vars
BY DEF Ledger!vars, HeldRun, NamedCalls

LEMMA AttemptMaps ==
  ASSUME IInv, Loop
  PROVE  [Ledger!Next]_(Ledger!vars)
<1> USE DEF Looping, Dispatching
<1>0. run \in Run /\ run' = run /\ runs' = runs /\ finished' = finished
  BY PlacedLoop DEF IInv, Placed, Active, runVars
<1>1. CASE BeginAttempt \/ Ask \/ CallsAnswer \/ BatchDone \/ Refuse
           \/ (FinalAnswer /\ pc' = "head")
  <2>1. /\ UNCHANGED <<journal, committed, saved>>
        /\ pc \in {"context", "head", "asking", "batch"} /\ pc' \in {"head", "asking", "batch"}
    BY <1>1 DEF BeginAttempt, Ask, CallsAnswer, BatchDone, Refuse, FinalAnswer, Leave, ledgerVars
  <2>2. UNCHANGED <<HeldStage, CallInHand>>
    BY <2>1 DEF HeldStage, CallInHand
  <2> QED
    BY <1>0, <2>1, <2>2, QuietStep
<1>2. CASE AuthRequired \/ AwaitDecision
  <2>1. /\ UNCHANGED <<journal, committed, saved, batch>>
        /\ pc \in Dispatching /\ pc' \in Dispatching
    BY <1>2 DEF AuthRequired, AwaitDecision, ledgerVars, loopVars
  <2>2. UNCHANGED <<HeldStage, CallInHand>>
    BY <2>1 DEF HeldStage, CallInHand
  <2> QED
    BY <1>0, <2>1, <2>2, QuietStep
<1>3. CASE StopAtHead \/ AnswerLost \/ Timeout
  <2>1. /\ UNCHANGED <<journal, committed, saved>>
        /\ pc \in Looping /\ pc' = "ended"
    BY <1>3 DEF StopAtHead, AnswerLost, Timeout, Leave, ledgerVars
  <2>2. /\ HeldStage = "open" /\ HeldStage' = "closing" /\ HeldRun' = HeldRun
        /\ CallInHand' = {} /\ NamedCalls' = NamedCalls
    BY <1>0, <2>1 DEF HeldStage, HeldRun, CallInHand, NamedCalls
  <2>3. Ledger!GiveUp
    BY <1>0, <2>1, <2>2 DEF Ledger!GiveUp
  <2> QED
    BY <2>3 DEF Ledger!Next
<1>4. CASE FinalAnswer /\ pc' # "head"
  <2>1. /\ UNCHANGED <<journal, committed>>
        /\ saved' = [saved EXCEPT ![run] = NoCheckpoint]
        /\ pc = "asking" /\ pc' = "ended"
    BY <1>4 DEF FinalAnswer, Leave
  <2>2. /\ HeldStage = "open" /\ HeldStage' = "closing" /\ HeldRun = run /\ HeldRun' = HeldRun
        /\ CallInHand = {} /\ CallInHand' = {}
    BY <1>0, <2>1 DEF HeldStage, HeldRun, CallInHand
  <2>3. NamedCalls' = [NamedCalls EXCEPT ![HeldRun] = {}]
    <3>1. \A r \in Run : saved'[r] = IF r = run THEN NoCheckpoint ELSE saved[r]
      BY <1>0, <2>1 DEF IInv, TypeOK, LoopTypeOK
    <3>2. {c \in Call : NoCheckpoint.told[c] # "no"} = {}
      BY DEF NoCheckpoint, NothingTold
    <3> QED
      BY <1>0, <2>2, <3>1, <3>2 DEF NamedCalls
  <2>4. Ledger!Answer
    BY <1>0, <2>1, <2>2, <2>3 DEF Ledger!Answer
  <2> QED
    BY <2>4 DEF Ledger!Next
<1>5. CASE SkipCommitted \/ Dispatch
  <2> DEFINE c == Head(batch)
  <2>1. /\ pc = "batch" /\ batch # <<>> /\ SaveCheckpoint /\ UNCHANGED committed
        /\ pc' \in {"batch", "running"}
    BY <1>5 DEF SkipCommitted, Dispatch
  <2>2. /\ c \in Call /\ told[c] # "no" /\ saved'[run].told = told
        /\ \A r \in Run \ {run} : saved'[r] = saved[r]
    BY <2>1, SavesName
  <2>3. /\ HeldStage = "open" /\ HeldStage' = "open" /\ HeldRun = run /\ HeldRun' = HeldRun
        /\ CallInHand = {}
    BY <1>0, <2>1 DEF HeldStage, HeldRun, CallInHand
  <2>4. Ledger!Checkpoint(c)
    <3> DEFINE K == {d \in Call : told[d] # "no"}
    <3>1. NamedCalls' = [NamedCalls EXCEPT ![HeldRun] = K]
      BY <1>0, <2>2, <2>3 DEF NamedCalls
    <3>2. Covered
      BY <2>1 DEF IInv, Recorded
    <3>3. ASSUME NEW d \in Call, journal[run][d] # "none" PROVE told[d] # "no"
      BY <3>2, <3>3 DEF Covered
    <3>4. Ledger!Recorded(HeldRun) \cup {c} \subseteq K
      BY <2>2, <2>3, <3>3 DEF Ledger!Recorded
    <3> QED
      BY <3>1, <3>4 DEF Ledger!Checkpoint
  <2>5. Ledger!MustNotRepeat(c) <=> Committed(run, c)
    BY <2>2, <2>3 DEF Ledger!MustNotRepeat, Committed
  <2>6. CASE SkipCommitted
    <3>1. journal' = journal /\ CallInHand' = {} /\ Committed(run, c)
      BY <2>6 DEF SkipCommitted, CallInHand
    <3>2. Ledger!PassOver(c)
      BY <1>0, <2>1, <2>3, <2>4, <2>5, <3>1 DEF Ledger!PassOver
    <3> QED
      BY <2>2, <3>2 DEF Ledger!Next
  <2>7. CASE Dispatch
    <3>1. /\ journal' = [journal EXCEPT ![HeldRun][c] = "started"]
          /\ CallInHand' = {c} /\ ~ Committed(run, c)
      BY <2>3, <2>7 DEF Dispatch, RecordStart, CallInHand
    <3>2. Ledger!StartCall(c)
      BY <1>0, <2>1, <2>3, <2>4, <2>5, <3>1 DEF Ledger!StartCall
    <3> QED
      BY <2>2, <3>2 DEF Ledger!Next
  <2> QED
    BY <1>5, <2>6, <2>7
<1>6. CASE Succeed \/ Fail \/ CutShort \/ HearDecision \/ StopWaiting
  <2> DEFINE c == Head(batch)
  <2>1. /\ pc \in Dispatching /\ pc' \in {"batch", "ended"} /\ saved' = saved
        /\ RecordEnd
        /\ committed' = committed \/ committed' = [committed EXCEPT ![run] = @ \cup {c}]
    BY <1>6 DEF Succeed, Fail, CutShort, HearDecision, StopWaiting, Return, Tell, Leave
  <2>2. /\ HeldRun = run /\ HeldRun' = HeldRun
        /\ CallInHand = {c} /\ CallInHand' = {} /\ HeldStage' \in {"open", "closing"}
        /\ NamedCalls' = NamedCalls
    BY <1>0, <2>1 DEF HeldStage, HeldRun, CallInHand, NamedCalls
  <2>3. c \in Call
    BY <2>1, HeadInCall DEF IInv, Placed, TypeOK, LoopTypeOK
  <2>4. Ledger!EndCall(c)
    BY <1>0, <2>1, <2>2 DEF Ledger!EndCall, RecordEnd
  <2> QED
    BY <2>3, <2>4 DEF Ledger!Next
<1> QED
  BY <1>1, <1>2, <1>3, <1>4, <1>5, <1>6 DEF Loop

LEMMA SessionMaps ==
  ASSUME IInv, Filled, [Next]_vars
  PROVE  [Ledger!Next]_(Ledger!vars)
<1> USE DEF Looping, Dispatching
<1>1. CASE Outside \/ UNCHANGED vars
  <2>1. UNCHANGED <<pc, batch, run, runs, finished, journal, committed, saved>>
    BY <1>1, OutsideKeeps DEF IInv, vars, taskVars, runVars, loopVars, ledgerVars
  <2> QED
    BY <2>1, QuietStep DEF HeldStage, CallInHand
<1>2. ASSUME NEW by \in Caller, Claim(by) PROVE UNCHANGED Ledger!vars
  <2>1. /\ pc = "none" /\ pc' = "claimed"
        /\ UNCHANGED <<run, runs, finished, journal, committed, saved>>
    BY <1>2 DEF Claim, IInv, Placed, runVars, ledgerVars
  <2> QED
    BY <2>1, QuietStep DEF HeldStage, CallInHand
<1>3. CASE Launch \/ ContextFails \/ Rest
  <2>1. /\ \/ pc \in {"resuming", "starting", "context"} /\ pc' \in {"context", "stuck"}
           \/ pc = "resting" /\ pc' = "none"
        /\ UNCHANGED <<run, runs, finished, journal, committed, saved>>
    BY <1>3 DEF Launch, ContinueRun, ArmRun, ContextFails, Rest, runVars, ledgerVars
  <2> QED
    BY <2>1, QuietStep DEF HeldStage, CallInHand
<1>4. CASE Prepare
  <2>1. pc = "claimed" /\ UNCHANGED <<journal, committed, saved>>
    BY <1>4 DEF Prepare, ledgerVars
  <2>2. /\ HeldStage = "none" /\ CallInHand = {} /\ NamedCalls' = NamedCalls
    BY <2>1 DEF HeldStage, CallInHand, NamedCalls
  <2>3. CASE pc' = "resuming" /\ phase = "Recovery" /\ ResumeRun
    <3>1. run \in Unfinished /\ \A r \in Unfinished : r <= run
      BY <2>3 DEF IInv, Newest
    <3>2. /\ HeldStage' = "open" /\ CallInHand' = {} /\ HeldRun' = run
          /\ UNCHANGED <<runs, finished>>
      BY <2>3 DEF HeldStage, CallInHand, HeldRun, ResumeRun
    <3>3. Ledger!TakeUp(run)
      BY <2>1, <2>2, <3>1, <3>2, SameRecoverable DEF Ledger!TakeUp
    <3>4. run \in Ledger!Run
      BY <3>1, RunAssumption DEF Unfinished, Ledger!Run, IInv, TypeOK, RunTypeOK
    <3> QED
      BY <3>3, <3>4 DEF Ledger!Next
  <2>4. CASE pc' = "starting" /\ StartRun
    <3>1. /\ HeldStage' = "open" /\ CallInHand' = {} /\ HeldRun' = run'
      BY <2>4 DEF HeldStage, CallInHand, HeldRun
    <3>2. Ledger!Begin
      BY <2>1, <2>2, <2>4, <3>1 DEF Ledger!Begin, StartRun
    <3> QED
      BY <3>2 DEF Ledger!Next
  <2> QED
    BY <1>4, <2>3, <2>4 DEF Prepare
<1>5. CASE Work
  BY <1>5, AttemptMaps DEF Work
<1>6. CASE Close
  <2>1. /\ pc = "ended" /\ pc' = "resting" /\ finished' = finished \cup {run}
        /\ UNCHANGED <<run, runs, journal, committed, saved>>
    BY <1>6 DEF Close, FinishRun, ledgerVars
  <2>2. /\ HeldStage = "closing" /\ HeldRun = run /\ HeldStage' = "none" /\ HeldRun' = 0
        /\ CallInHand = {} /\ CallInHand' = {} /\ NamedCalls' = NamedCalls
    BY <2>1 DEF HeldStage, HeldRun, CallInHand, NamedCalls
  <2>3. Ledger!Finish
    BY <2>1, <2>2 DEF Ledger!Finish
  <2> QED
    BY <2>3 DEF Ledger!Next
<1>7. CASE Restart
  <2>1. pc' = "none" /\ UNCHANGED <<runs, finished, journal, committed, saved>>
    BY <1>7 DEF Restart, Reopen, ForgetAttempt
  <2>2. Ledger!Die
    BY <2>1 DEF Ledger!Die, HeldStage, HeldRun, CallInHand, NamedCalls
  <2> QED
    BY <2>2 DEF Ledger!Next
<1> QED
  BY <1>1, <1>2, <1>3, <1>4, <1>5, <1>6, <1>7 DEF Next, Outside

LEMMA LedgerInit == Init => Ledger!Init /\ Filled
<1> SUFFICES ASSUME Init PROVE Ledger!Init /\ Filled
  OBVIOUS
<1>1. /\ pc = "none" /\ runs = 0 /\ finished = {}
      /\ journal = [r \in Run |-> [c \in Call |-> "none"]]
      /\ committed = [r \in Run |-> {}]
      /\ saved = [r \in Run |-> NoCheckpoint]
  BY DEF Init, RunInit, LoopInit
<1>2. \A r \in Run : {c \in Call : saved[r].told[c] # "no"} = {}
  BY <1>1 DEF NoCheckpoint, NothingTold
<1>3. Filled
  BY <1>1, <1>2 DEF Filled, HasCheckpoint, NoCheckpoint
<1>4. /\ HeldStage = "none" /\ HeldRun = 0 /\ CallInHand = {}
      /\ NamedCalls = [r \in Run |-> {}]
  BY <1>1, <1>2 DEF HeldStage, HeldRun, CallInHand, NamedCalls, Looping, Dispatching
<1> QED
  BY <1>1, <1>3, <1>4 DEF Ledger!Init, Ledger!Run, Run

(* Threads, stops, decisions, timeouts and crashes leave one sequential    *)
(* ledger: every step of the session is one step of RunLedger, or none.    *)
THEOREM SessionKeepsLedger == Spec => ImplementsLedger
<1>1. IInv /\ Filled /\ [Next]_vars => [Ledger!Next]_(Ledger!vars)
  BY SessionMaps
<1> QED
  BY Inductive, LedgerInit, FilledStep, <1>1, PTL DEF Spec, ImplementsLedger, Ledger!Spec
=============================================================================
