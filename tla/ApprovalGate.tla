---------------------------- MODULE ApprovalGate ----------------------------
(***************************************************************************)
(* Approvals (authority/mod.rs): the pending requests, the senders through *)
(* which a decision reaches the call that waits, the decisions that came   *)
(* before their call waited, and the grants of the gate.                   *)
(*                                                                         *)
(* A request is named by a number that no live request has; a grant is for *)
(* the tool and program of a call, here the call itself.  All operations   *)
(* hold the lock of the pending map, except the tail of take_pending,      *)
(* whose other removals are of an id that nobody can still decide.  A      *)
(* decision on a request whose waiter was dropped stays in its channel.    *)
(***************************************************************************)
EXTENDS Naturals

CONSTANTS
  Call,          \* tool calls: a tool with its arguments
  MaxRequests    \* bound on live approval requests

ASSUME GateAssumption == MaxRequests \in Nat

VARIABLES
  pending,    \* PENDING_AUTH: requests with the call they are about
  senders,    \* AUTH_OUTCOME_TX: requests with a call that waits
  early,      \* AUTH_RESOLVED
  heard,      \* what the one-shot channel of a request carries
  grants,     \* the cache of the gate
  decided     \* history: the user's decision on a live request

gateVars == <<pending, senders, early, heard, grants, decided>>

Request == 1 .. MaxRequests

Verdict == {"approved", "denied"}

Answer == Verdict \cup {"none"}

NoAnswer == [id \in Request |-> "none"]

GateTypeOK ==
  /\ pending \subseteq Request \X Call
  /\ senders \subseteq Request
  /\ early \in [Request -> Answer]
  /\ heard \in [Request -> Answer]
  /\ grants \subseteq Call
  /\ decided \in [Request -> Answer]

GateInit ==
  /\ pending = {} /\ senders = {}
  /\ early = NoAnswer /\ heard = NoAnswer /\ grants = {} /\ decided = NoAnswer

IsPending(id) == \E c \in Call : <<id, c>> \in pending

Removed(id) == {p \in pending : p[1] # id}

Fresh(id) == ~IsPending(id) /\ id \notin senders /\ early[id] = "none"

(* set_pending *)
SetPending(id, c) ==
  /\ Fresh(id)
  /\ pending' = pending \cup {<<id, c>>}
  /\ heard' = [heard EXCEPT ![id] = "none"]
  /\ decided' = [decided EXCEPT ![id] = "none"]
  /\ UNCHANGED <<senders, early, grants>>

(* approve_pending and deny_pending: to the sender if there is one, kept   *)
(* for the call that has yet to wait if there is none                      *)
Resolve(id, verdict) ==
  /\ IsPending(id)
  /\ pending' = Removed(id)
  /\ senders' = senders \ {id}
  /\ heard' = IF id \in senders THEN [heard EXCEPT ![id] = verdict] ELSE heard
  /\ early' = IF id \in senders THEN early ELSE [early EXCEPT ![id] = verdict]
  /\ grants' = grants \cup {c \in Call : verdict = "approved" /\ <<id, c>> \in pending}
  /\ decided' = [decided EXCEPT ![id] = verdict]

(* Faulty variant: register_auth_outcome_tx, which does not look at the request *)
RegisterBlindly(id) ==
  /\ senders' = senders \cup {id}
  /\ UNCHANGED <<pending, early, heard, grants, decided>>

(* register_waiter_if_pending *)
Register(id) ==
  /\ IF IsPending(id)
     THEN senders' = senders \cup {id} /\ UNCHANGED <<early, heard>>
     ELSE /\ heard' = [heard EXCEPT ![id] = early[id]]
          /\ early' = [early EXCEPT ![id] = "none"]
          /\ UNCHANGED senders
  /\ UNCHANGED <<pending, grants, decided>>

(* the waiting call receives the decision, and the channel is gone *)
Receive(id) ==
  /\ heard[id] # "none"
  /\ heard' = [heard EXCEPT ![id] = "none"]
  /\ decided' = [decided EXCEPT ![id] = "none"]
  /\ UNCHANGED <<pending, senders, early, grants>>

(* take_pending, by the waiting call itself: its channel is gone too *)
TakePending(id) ==
  /\ pending' = Removed(id)
  /\ senders' = senders \ {id}
  /\ early' = [early EXCEPT ![id] = "none"]
  /\ heard' = [heard EXCEPT ![id] = "none"]
  /\ decided' = [decided EXCEPT ![id] = "none"]
  /\ UNCHANGED grants

(* evict_expired, called by the next check *)
Evict(c) ==
  /\ c \in grants
  /\ grants' = grants \ {c}
  /\ UNCHANGED <<pending, senders, early, heard, decided>>

(* what a new process starts with *)
ForgetRequests ==
  /\ pending' = {} /\ senders' = {}
  /\ early' = NoAnswer /\ heard' = NoAnswer /\ grants' = {} /\ decided' = NoAnswer
=============================================================================
