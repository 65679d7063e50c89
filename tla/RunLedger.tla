----------------------------- MODULE RunLedger -----------------------------
(***************************************************************************)
(* What the chat session promises about the records of its runs, however   *)
(* its threads interleave, whatever the user stops or approves, and        *)
(* wherever the process dies: one run at a time is held and written, one   *)
(* call of it at a time is open, the row of a call comes after a           *)
(* checkpoint that names it and every earlier call of the run, a run that  *)
(* a crash left is taken up again from the newest checkpoint or not at     *)
(* all, and a finished run is not written again.                           *)
(***************************************************************************)
EXTENDS Naturals

CONSTANTS MaxRuns, Call, Replayable

VARIABLES
  stage,       \* of the run that is held: "open" to calls, "closing", or none
  held,        \* the run that is held, 0 without one
  hand,        \* the open call of a living attempt, if any
  runs,        \* how many runs were begun
  finished,    \* runs that are over
  journal,     \* the status of each call of each run
  committed,   \* calls of each run that have completed
  named        \* the calls each run's checkpoint names, none without one

vars == <<stage, held, hand, runs, finished, journal, committed, named>>

Run == 1 .. MaxRuns

Stage == {"none", "open", "closing"}

Recoverable == {r \in 1 .. runs \ finished : named[r] # {}}

Recorded(r) == {c \in Call : journal[r][c] # "none"}

MustNotRepeat(c) == c \in committed[held] \ Replayable

Init ==
  /\ stage = "none" /\ held = 0 /\ hand = {}
  /\ runs = 0 /\ finished = {}
  /\ journal = [r \in Run |-> [c \in Call |-> "none"]]
  /\ committed = [r \in Run |-> {}]
  /\ named = [r \in Run |-> {}]

Begin ==
  /\ stage = "none" /\ runs < MaxRuns
  /\ runs' = runs + 1
  /\ stage' = "open" /\ held' = runs + 1
  /\ UNCHANGED <<hand, finished, journal, committed, named>>

TakeUp(r) ==
  /\ stage = "none"
  /\ r \in Recoverable /\ \A s \in Recoverable : s <= r
  /\ stage' = "open" /\ held' = r
  /\ UNCHANGED <<hand, runs, finished, journal, committed, named>>

Checkpoint(c) ==
  \E K \in SUBSET Call :
    /\ Recorded(held) \cup {c} \subseteq K
    /\ named' = [named EXCEPT ![held] = K]

StartCall(c) ==
  /\ stage = "open" /\ hand = {}
  /\ ~MustNotRepeat(c)
  /\ Checkpoint(c)
  /\ journal' = [journal EXCEPT ![held][c] = "started"]
  /\ hand' = {c}
  /\ UNCHANGED <<stage, held, runs, finished, committed>>

PassOver(c) ==
  /\ stage = "open" /\ hand = {}
  /\ MustNotRepeat(c)
  /\ Checkpoint(c)
  /\ UNCHANGED <<stage, held, hand, runs, finished, journal, committed>>

EndCall(c) ==
  /\ hand = {c}
  /\ journal' = [journal EXCEPT ![held][c] = "closed"]
  /\ committed' \in {committed, [committed EXCEPT ![held] = @ \cup {c}]}
  /\ hand' = {}
  /\ stage' \in {"open", "closing"}
  /\ UNCHANGED <<held, runs, finished, named>>

Answer ==
  /\ stage = "open" /\ hand = {}
  /\ named' = [named EXCEPT ![held] = {}]
  /\ stage' = "closing"
  /\ UNCHANGED <<held, hand, runs, finished, journal, committed>>

\* The attempt ends, with the call in hand as it is.
GiveUp ==
  /\ stage = "open"
  /\ stage' = "closing" /\ hand' = {}
  /\ UNCHANGED <<held, runs, finished, journal, committed, named>>

Finish ==
  /\ stage = "closing"
  /\ finished' = finished \cup {held}
  /\ stage' = "none" /\ held' = 0
  /\ UNCHANGED <<hand, runs, journal, committed, named>>

Die ==
  /\ stage' = "none" /\ held' = 0 /\ hand' = {}
  /\ UNCHANGED <<runs, finished, journal, committed, named>>

Next ==
  \/ Begin \/ Answer \/ GiveUp \/ Finish \/ Die
  \/ \E r \in Run : TakeUp(r)
  \/ \E c \in Call : StartCall(c) \/ PassOver(c) \/ EndCall(c)

Spec == Init /\ [][Next]_vars
=============================================================================
