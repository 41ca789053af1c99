-------------------------------- MODULE DetailPage --------------------------------
(***************************************************************************)
(* The page of one customer or of one membership: it loads what its        *)
(* address names, and of a membership it can change the status.            *)
(*                                                                         *)
(* The page stays when the address changes to another of its kind, as it   *)
(* does when the operator jumps in the history; its requests are neither   *)
(* cancelled nor told apart, and a function of an earlier render goes on   *)
(* with the address it was made for.                                       *)
(***************************************************************************)
EXTENDS Naturals, Sequences, SequencesExt

CONSTANTS
  Ids,         \* users or memberships
  NoId,
  MaxVersion,  \* bound: changes of each
  MaxLoads     \* bound: requests in flight when the operator does something

VARIABLES
  page,      \* "customer" or "member"
  url,       \* the id in pathname
  version,   \* of each user or membership, in the service
  loads,     \* the requests in flight, in the order they were sent
  shown,     \* user, member: what the last answer held
  loading,   \* the page shows nothing else; of a membership until it has one or a failure
  error,
  editor,    \* the drawer is open
  job,       \* updateStatus under way: the id, whether it is loading, the version made
  success,   \* the notice
  outcome,   \* auxiliary: the id and version the notice is about
  stray      \* auxiliary: the last answer was about another page or overtaken by a younger one

form == <<editor, job, success, outcome>>
vars == <<page, url, version, loads, shown, loading, error, form, stray>>

Blank == [id |-> NoId, version |-> 0]
NoJob == [id |-> NoId, step |-> "none", made |-> 0]
Load(id, by) == [id |-> id, since |-> version[id], by |-> by, late |-> FALSE]

Init ==
  /\ page \in {"customer", "member"}
  /\ url \in Ids
  /\ version = [id \in Ids |-> 1]
  /\ loads = <<Load(url, "page")>>
  /\ shown = Blank
  /\ loading = TRUE
  /\ error = FALSE
  /\ editor = FALSE
  /\ job = NoJob
  /\ success = FALSE
  /\ outcome = Blank
  /\ stray = FALSE

\* Mutant: the effect does not depend on the address.
JumpUnnoticed(id) ==
  /\ id # url
  /\ Len(loads) < MaxLoads
  /\ url' = id
  /\ UNCHANGED <<page, version, loads, shown, loading, error, form, stray>>

\* The address changes, the effect of the page runs again.
Jump(id) ==
  /\ id # url
  /\ Len(loads) < MaxLoads
  /\ url' = id
  /\ loads' = Append(loads, Load(id, "page"))
  /\ loading' = (page = "customer" \/ shown = Blank)
  /\ error' = FALSE
  /\ UNCHANGED <<page, version, shown, form, stray>>

\* Request i is over; the ones sent before it are late from now on.
Over(i) ==
  loads' = RemoveAt([j \in DOMAIN loads |-> [loads[j] EXCEPT !.late = @ \/ j < i]], i)

\* setUser, setMember: whatever the address is by now.
Show(i) ==
  /\ \E v \in loads[i].since .. version[loads[i].id] : shown' = [id |-> loads[i].id, version |-> v]
  /\ stray' = (loads[i].late \/ loads[i].id # url)
  /\ loading' = FALSE

Arrives(i) ==
  /\ loads[i].by = "page"
  /\ Over(i)
  /\ Show(i)
  /\ UNCHANGED <<page, url, version, error, form>>

Fails(i) ==
  /\ loads[i].by = "page"
  /\ Over(i)
  /\ error' = TRUE
  /\ loading' = FALSE
  /\ UNCHANGED <<page, url, version, shown, form, stray>>

\* The drawer of the status, which the page offers as soon as it has a membership, beside
\* a failure to load it again too.
Edit ==
  /\ page = "member"
  /\ shown # Blank
  /\ ~editor /\ job = NoJob
  /\ editor' = TRUE
  /\ UNCHANGED <<page, url, version, loads, shown, loading, error, job, success, outcome, stray>>

\* The button waits for the call, but closing the drawer by other means does not.
Cancel ==
  /\ editor
  /\ editor' = FALSE
  /\ UNCHANGED <<page, url, version, loads, shown, loading, error, job, success, outcome, stray>>

\* updateStatus, for the membership of the address.
UpdateStatus ==
  /\ editor /\ job = NoJob
  /\ Len(loads) < MaxLoads
  /\ job' = [id |-> url, step |-> "sent", made |-> 0]
  /\ success' = FALSE
  /\ outcome' = Blank
  /\ UNCHANGED <<page, url, version, loads, shown, loading, error, editor, stray>>

\* The service stores the status; others change memberships and users too.
Store ==
  /\ job.step = "sent" /\ job.made = 0
  /\ version[job.id] < MaxVersion
  /\ version' = [version EXCEPT ![job.id] = @ + 1]
  /\ job' = [job EXCEPT !.made = version'[job.id]]
  /\ UNCHANGED <<page, url, loads, shown, loading, error, editor, success, outcome, stray>>

OthersChange(id) ==
  /\ version[id] < MaxVersion
  /\ version' = [version EXCEPT ![id] = @ + 1]
  /\ UNCHANGED <<page, url, loads, shown, loading, error, form, stray>>

\* The notice, and the drawer closes.
Succeed ==
  /\ success' = TRUE
  /\ outcome' = [id |-> job.id, version |-> job.made]
  /\ editor' = FALSE
  /\ job' = NoJob

\* Mutant: success is told before the membership was read again.
AcceptedAtOnce ==
  /\ job.step = "sent" /\ job.made # 0
  /\ Succeed
  /\ UNCHANGED <<page, url, version, loads, shown, loading, error, stray>>

\* The call is answered: load of that render, for the same membership.
Accepted ==
  /\ job.step = "sent" /\ job.made # 0
  /\ job' = [job EXCEPT !.step = "reload"]
  /\ loads' = Append(loads, Load(job.id, "job"))
  /\ error' = FALSE
  /\ UNCHANGED <<page, url, version, shown, loading, editor, success, outcome, stray>>

\* The call fails, or its answer is lost; the drawer stays.
Failed ==
  /\ job.step = "sent"
  /\ job' = NoJob
  /\ UNCHANGED <<page, url, version, loads, shown, loading, error, editor, success, outcome, stray>>

Refreshed(i) ==
  /\ loads[i].by = "job"
  /\ Over(i)
  /\ Show(i)
  /\ Succeed
  /\ UNCHANGED <<page, url, version, error>>

NotRefreshed(i) ==
  /\ loads[i].by = "job"
  /\ Over(i)
  /\ error' = TRUE
  /\ job' = NoJob
  /\ UNCHANGED <<page, url, version, shown, loading, editor, success, outcome, stray>>

Next ==
  \/ \E id \in Ids : Jump(id) \/ OthersChange(id)
  \/ \E i \in DOMAIN loads : Arrives(i) \/ Fails(i) \/ Refreshed(i) \/ NotRefreshed(i)
  \/ Edit \/ Cancel \/ UpdateStatus \/ Store \/ Accepted \/ Failed

Spec == Init /\ [][Next]_vars

-----------------------------------------------------------------------------
(* Properties.                                                                *)

\* The type invariant.
TypeOK ==
  /\ page \in {"customer", "member"} /\ url \in Ids
  /\ version \in [Ids -> 1 .. MaxVersion]
  /\ \A i \in DOMAIN loads : loads[i].id \in Ids /\ loads[i].since \in 1 .. version[loads[i].id]
  /\ shown = Blank \/ (shown.id \in Ids /\ shown.version \in 1 .. version[shown.id])
  /\ job.id \in Ids \cup {NoId} /\ job.step \in {"none", "sent", "reload"}
  /\ {loading, error, editor, success, stray} \subseteq BOOLEAN

\* CustomerDetail, MemberDetailPage: once its requests are over, a page shows a failure or
\* what its address names, unless the last answer was about a page that was left or came
\* after that of a younger request; it never goes on loading.
DetailIsOfUrl ==
  loads = <<>> => ~loading /\ (error \/ stray \/ shown.id = url)

\* updateStatus: when success is told, the page has the membership with the status that was
\* saved, or has been left for another, unless an answer was overtaken.
SavedIsShown ==
  success /\ ~error /\ ~stray =>
    outcome.version # 0 /\ (shown.id = outcome.id => shown.version >= outcome.version)
=============================================================================
