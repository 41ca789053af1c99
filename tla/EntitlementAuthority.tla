------------------------ MODULE EntitlementAuthority ------------------------
(***************************************************************************)
(* What the entitlement authority of one (tenant_id, app_id) pair promises *)
(* its callers, with no tables, transactions or locks: a register of       *)
(* numbered contents that is replaced by compare-and-swap, and answers     *)
(* that can be explained by what the register held while the request was   *)
(* open.                                                                   *)
(*                                                                         *)
(* An answered snapshot takes its header from one version and its keys     *)
(* from the same version or a later one: the promise is no stronger,       *)
(* because the code reads the two by separate statements.                  *)
(***************************************************************************)
EXTENDS Integers, Sequences

CONSTANTS
  Requests,   \* callers
  Calls,      \* the requests they may make
  Foundation, \* the content of version 0
  Valid(_),   \* the calls that pass validation
  Reason(_, _, _)  \* the decision on a snapshot, a key and a time

VARIABLES
  history,  \* the contents of version 1, 2, ...
  now,      \* the wall clock
  open,     \* is the request of a caller being served?
  call,     \* its arguments
  since,    \* the version and time at which it arrived
  wrote,    \* the version it has stored, 0 if none
  view,     \* the snapshot answered
  answer    \* the outcome answered

vars == <<history, now, open, call, since, wrote, view, answer>>

Current == Len(history)
At(n) == IF n = 0 THEN Foundation ELSE history[n]
Snapshot(v, w) == [version |-> v, status |-> At(v).status,
                   validUntil |-> At(v).validUntil,
                   keys |-> IF v = 0 THEN {} ELSE At(w).keys]

Init ==
  /\ history = <<>>
  /\ now = 0
  /\ open = [r \in Requests |-> FALSE]
  /\ \E c \in Calls : call = [r \in Requests |-> c]
  /\ since = [r \in Requests |-> [version |-> 0, time |-> 0]]
  /\ wrote = [r \in Requests |-> 0]
  /\ view = [r \in Requests |-> Snapshot(0, 0)]
  /\ answer = [r \in Requests |-> "none"]

Submit(r, c) ==
  /\ ~open[r]
  /\ open' = [open EXCEPT ![r] = Valid(c)]
  /\ call' = [call EXCEPT ![r] = c]
  /\ since' = [since EXCEPT ![r] = [version |-> Current, time |-> now]]
  /\ wrote' = [wrote EXCEPT ![r] = 0]
  /\ view' = [view EXCEPT ![r] = Snapshot(0, 0)]
  /\ answer' = [answer EXCEPT ![r] = IF Valid(c) THEN "none" ELSE "invalid"]
  /\ UNCHANGED <<history, now>>

\* Compare-and-swap: at most once for a request, and only over the version it expects.
Swap(r) ==
  /\ open[r]
  /\ call[r].op = "update"
  /\ wrote[r] = 0
  /\ call[r].expected = Current
  /\ history' = Append(history, call[r].content)
  /\ wrote' = [wrote EXCEPT ![r] = Current + 1]

Apply(r) ==
  /\ Swap(r)
  /\ UNCHANGED <<now, open, call, since, view, answer>>

Close(r, a) ==
  /\ open[r]
  /\ open' = [open EXCEPT ![r] = FALSE]
  /\ answer' = [answer EXCEPT ![r] = a]

ApplyUnacknowledged(r) ==
  /\ Swap(r)
  /\ Close(r, "failed")
  /\ UNCHANGED <<now, call, since, view>>

Conflict(r) ==
  /\ call[r].op = "update"
  /\ wrote[r] = 0
  /\ call[r].expected # Current
  /\ Close(r, "conflict")
  /\ UNCHANGED <<history, now, call, since, wrote, view>>

Failure(r) ==
  /\ Close(r, "failed")
  /\ UNCHANGED <<history, now, call, since, wrote, view>>

\* An update answers with what it stored or a later version, a read with a version
\* that was current after it arrived.
Answer(r) ==
  \E v \in 0 .. Current : \E w \in v .. Current :
    /\ IF call[r].op = "update" THEN wrote[r] # 0 /\ v >= wrote[r]
                                ELSE v >= since[r].version
    /\ view' = [view EXCEPT ![r] = Snapshot(v, w)]
    /\ Close(r, IF call[r].op = "decide" THEN Reason(Snapshot(v, w), call[r].key, now)
                                         ELSE "snapshot")
    /\ UNCHANGED <<history, now, call, since, wrote>>

Tick ==
  /\ now' = now + 1
  /\ UNCHANGED <<history, open, call, since, wrote, view, answer>>

Next ==
  \/ \E r \in Requests, c \in Calls : Submit(r, c)
  \/ \E r \in Requests :
       Apply(r) \/ ApplyUnacknowledged(r) \/ Conflict(r) \/ Failure(r) \/ Answer(r)
  \/ Tick

Spec == Init /\ [][Next]_vars
=============================================================================
