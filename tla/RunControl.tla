----------------------------- MODULE RunControl -----------------------------
(***************************************************************************)
(* The run controller (agent/run.rs): one object that the session, its     *)
(* tasks and the user's interface share.  Every field has its own lock, so *)
(* start_run and begin_resume are seen half done; each is in two steps.    *)
(*                                                                         *)
(* Left out: the texts an interruption carries.  record_partial,           *)
(* record_completed_step and set_current_tool have no caller outside the   *)
(* tests, so build_recovery_prompt finds nothing to recover and answers    *)
(* None for every interruption; the second attempt that app.rs makes of a  *)
(* recovery prompt is therefore never reached, and with it the action that *)
(* determine_action chose only words the reason a run stopped.             *)
(***************************************************************************)
EXTENDS Naturals

CONSTANT MaxRuns     \* bound on run ids

ASSUME RunAssumption == MaxRuns \in Nat \ {0}

VARIABLES
  run,       \* run_id, 0 before the first run
  runs,      \* how many ids were handed out
  phase,     \* state, the tool and approval states aside
  marks,     \* interrupted, interruption_ctx present, cancel_token cancelled
  finished   \* runs with a run_finished row in the ledger

runVars == <<run, runs, phase, marks, finished>>

Run == 1 .. MaxRuns

Phase == {"Idle", "Active", "Recovery", "Interrupted", "Finished"}

Mark == {"interrupted", "noted", "cancelled"}

RunTypeOK ==
  /\ runs \in 0 .. MaxRuns
  /\ run \in 0 .. runs
  /\ phase \in Phase
  /\ marks \subseteq Mark
  /\ finished \subseteq 1 .. runs

RunInit == run = 0 /\ runs = 0 /\ phase = "Idle" /\ marks = {} /\ finished = {}

(* start_run up to the Started event: the id and the flag, the old token   *)
StartRun ==
  /\ runs < MaxRuns
  /\ runs' = runs + 1
  /\ run' = runs + 1
  /\ phase' = "Active"
  /\ marks' = marks \ {"interrupted", "noted"}
  /\ UNCHANGED finished

(* the rest of start_run: the new token *)
ArmRun ==
  /\ marks' = marks \ {"cancelled"}
  /\ UNCHANGED <<run, runs, phase, finished>>

(* Faulty variant: a resumption makes up a run id *)
ResumeNewRun ==
  /\ run' = runs + 1
  /\ marks' = marks \ {"cancelled"}
  /\ UNCHANGED <<runs, phase, finished>>

(* begin_resume takes the two in the other order *)
ResumeRun ==
  /\ marks' = marks \ {"cancelled"}
  /\ UNCHANGED <<run, runs, phase, finished>>

ContinueRun ==
  /\ marks' = marks \ {"interrupted"}
  /\ phase' = "Active"
  /\ UNCHANGED <<run, runs, finished>>

(* a second interruption is only added to the context of the first *)
Interrupt ==
  /\ IF {"interrupted", "noted"} \subseteq marks
     THEN UNCHANGED <<marks, phase>>
     ELSE marks' = Mark /\ phase' = "Interrupted"
  /\ UNCHANGED <<run, runs, finished>>

RequestCancel ==
  /\ run # 0
  /\ marks' = marks \cup {"interrupted", "cancelled"}
  /\ phase' = "Interrupted"
  /\ UNCHANGED <<run, runs, finished>>

FinishRun ==
  /\ phase' = "Finished"
  /\ marks' = marks \ {"interrupted"}
  /\ finished' = finished \cup {run}
  /\ UNCHANGED <<run, runs>>

(* a new process: an unfinished run r is restored, or there is none (0) *)
Reopen(r) ==
  /\ run' = r
  /\ phase' = IF r = 0 THEN "Idle" ELSE "Recovery"
  /\ marks' = IF r = 0 THEN {} ELSE {"interrupted"}
  /\ UNCHANGED <<runs, finished>>
=============================================================================
