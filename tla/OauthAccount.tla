------------------------------ MODULE OauthAccount ------------------------------
(***************************************************************************)
(* The OAuth accounts of a tenant: the page that lists them and the        *)
(* controller that composes an account of an integration, a client, a      *)
(* surface and a secret, four resources of IAM that are written one        *)
(* request at a time.                                                      *)
(*                                                                         *)
(* Requests of one save run in turn and those of a switch side by side; a  *)
(* request may be refused, may not get through, or may be carried out and  *)
(* its answer lost.  Nothing keeps the page from starting a save or a      *)
(* switch while another is under way, because what it disables is the      *)
(* state it has copied before the controller says that it saves.           *)
(***************************************************************************)
EXTENDS Naturals

CONSTANTS
  Accounts,        \* OAuth accounts there can be
  NoAccount,       \* an account that has no id yet
  NoAccountDraft,  \* the drawer is closed
  NoAccountJob,
  Jobs,            \* bound: calls of the controller that can be under way at once
  MaxCalls         \* bound: calls of the controller

VARIABLES
  stored,   \* IAM: integration, client and surface of an account, enabled or not
  strays,   \* requests in flight that nobody waits for any more
  gone,     \* accounts that were deleted, whose ids IAM gives to no other
  jobs,     \* the calls of the controller under way
  calls,    \* how many were made
  state,    \* of the controller
  view,     \* workspace: the copy of it the page shows
  accountDraft, \* the drawer
  notice,   \* the page shows a failure with a button to retry
  spoiled,  \* auxiliary: accounts whose resources may disagree
  undone,   \* auxiliary: accounts of which every trace known was deleted again
  overlapped, \* auxiliary: two calls have been under way at once since the page was idle
  foreign     \* auxiliary: somebody else, or a stray, changed an account since then

iam == <<stored, strays, gone>>
pageState == <<view, accountDraft, notice>>
aux == <<spoiled, undone, overlapped, foreign>>
vars == <<iam, jobs, calls, state, pageState, aux>>

Resources == {"integration", "client", "surface"}
Flags == {"none", "on", "off"}
Flag(enabled) == IF enabled THEN "on" ELSE "off"

-----------------------------------------------------------------------------
(* Lists.                                                                     *)

\* toAccounts: what is there of an integration when the three lists were read.
ToAccounts(read) ==
  {[account |-> x, enabled |-> read["integration"][x] = "on",
    client |-> read["client"][x] # "none", surface |-> read["surface"][x] # "none"]
     : x \in {x \in Accounts : read["integration"][x] # "none"}}

Nothing == [r \in Resources |-> [x \in Accounts |-> "none"]]
Column(r) == [x \in Accounts |-> stored[x][r]]

\* A call: what it still has to do, and what its lists have read so far.
Job(kind, row, enabled, step, todo) ==
  [kind |-> kind, account |-> row.account, enabled |-> enabled, step |-> step, todo |-> todo,
   read |-> Nothing, clean |-> TRUE]

NewRow == [account |-> NoAccount, enabled |-> TRUE, client |-> FALSE, surface |-> FALSE]
LoadJob == Job("load", NewRow, TRUE, "load", Resources)

Init ==
  /\ \E seeded \in SUBSET Accounts :
       stored = [x \in Accounts |-> [r \in Resources |-> IF x \in seeded THEN "on" ELSE "none"]]
  /\ strays = {}
  /\ gone = {}
  /\ \E j \in Jobs : jobs = [i \in Jobs |-> IF i = j THEN LoadJob ELSE NoAccountJob]
  /\ calls = 1
  /\ state = [status |-> "loading", accounts |-> {}, loaded |-> FALSE]
  /\ view = [status |-> "idle", accounts |-> {}, loaded |-> FALSE]
  /\ accountDraft = NoAccountDraft
  /\ notice = FALSE
  /\ spoiled = {} /\ undone = {}
  /\ overlapped = FALSE /\ foreign = FALSE

-----------------------------------------------------------------------------
(* Calls.                                                                     *)

Active == {j \in Jobs : jobs[j] # NoAccountJob}
On(x) == {j \in Active : jobs[j].account = x /\ x # NoAccount}

Complete(row) ==
  /\ row.client \/ stored[row.account].client = "none"
  /\ row.surface \/ stored[row.account].surface = "none"

\* Nothing else is on its way for the account, and the row knows all of it.
Alone(row) ==
  row.account = NoAccount \/
    (On(row.account) = {} /\ Complete(row) /\ \A s \in strays : s.account # row.account)

\* A call of the controller for an account, or for a new one.
Start(kind, row, enabled, step, todo) ==
  /\ calls < MaxCalls
  /\ calls' = calls + 1
  /\ \E j \in Jobs \ Active :
       jobs' = [i \in Jobs |->
         IF i = j THEN [Job(kind, row, enabled, step, todo) EXCEPT !.clean = Alone(row)]
         ELSE IF i \in On(row.account) THEN [jobs[i] EXCEPT !.clean = FALSE] ELSE jobs[i]]
  /\ spoiled' = IF Alone(row) THEN spoiled ELSE spoiled \cup {row.account}
  /\ overlapped' = (Active # {})
  /\ foreign' = (foreign /\ Active # {})
  /\ state' = [state EXCEPT !.status = IF kind = "load" THEN "loading" ELSE "saving"]

Known(row) == {"integration"} \cup (IF row.client THEN {"client"} ELSE {})
                \cup (IF row.surface THEN {"surface"} ELSE {})

\* Instead of the page there is a message as long as it loads and has no row: neither the
\* button of the notice nor the one for a new account, no row and no drawer.
Rendered == ~(view.status = "loading" /\ view.accounts = {})

\* reload: the page copies the state and then calls load.
Reload ==
  /\ Rendered
  /\ notice
  /\ notice' = FALSE
  /\ accountDraft = NoAccountDraft
  /\ view' = state
  /\ Start("load", NewRow, TRUE, "load", Resources)
  /\ UNCHANGED <<iam, accountDraft, undone>>

\* The drawer, for a new account or for the one in a row, with what the operator makes of
\* it; a new one needs the applications and providers that are read with the rows.
Open(row, enabled) ==
  /\ Rendered
  /\ row = NewRow => view.loaded
  /\ accountDraft = NoAccountDraft
  /\ accountDraft' = [account |-> row.account, enabled |-> enabled]
  /\ notice' = FALSE
  /\ UNCHANGED <<iam, jobs, calls, state, view, aux>>

\* The drawer can be left unless the page has seen that the controller saves.
Close ==
  /\ Rendered
  /\ accountDraft # NoAccountDraft
  /\ view.status # "saving"
  /\ accountDraft' = NoAccountDraft
  /\ UNCHANGED <<iam, jobs, calls, state, view, notice, aux>>

\* The rows of the controller with the account of the draft.  An account that is gone from
\* them is created anew.
Existing == {row \in state.accounts : row.account = accountDraft.account}

\* validateDraft throws, on a name of blanks for example: nothing is sent.
Refuse ==
  /\ Rendered
  /\ accountDraft # NoAccountDraft
  /\ view.status # "saving"
  /\ view' = state
  /\ notice' = FALSE
  /\ UNCHANGED <<iam, jobs, calls, state, accountDraft, aux>>

\* submit and saveAccount up to the first request.
Submit ==
  /\ Rendered
  /\ accountDraft # NoAccountDraft
  /\ view.status # "saving"
  /\ view' = state
  /\ notice' = FALSE
  /\ IF Existing = {}
     THEN Start("create", NewRow, accountDraft.enabled, "write", Resources \cup {"secret"})
     ELSE \E row \in Existing, secret \in SUBSET {"secret"} :
            Start("update", row, accountDraft.enabled, "write",
                  Known(row) \cup (IF row.client THEN secret ELSE {}))
  /\ UNCHANGED <<iam, accountDraft, undone>>

\* The switches of the rows, in the table as under their applications: disabled once the page
\* has seen that the controller saves, and behind the drawer.
Switchable == accountDraft = NoAccountDraft /\ view.status # "saving"

\* Mutant: the switch leaves the surface to the next save.
ToggleWithoutSurface(row) ==
  /\ Switchable
  /\ view' = state
  /\ notice' = FALSE
  /\ Start("toggle", row, ~row.enabled, "write", Known(row) \ {"surface"})
  /\ UNCHANGED <<iam, accountDraft, undone>>

\* toggleAccount and setAccountEnabled up to their requests.
Toggle(row) ==
  /\ Switchable
  /\ view' = state
  /\ notice' = FALSE
  /\ Start("toggle", row, ~row.enabled, "write", Known(row))
  /\ UNCHANGED <<iam, accountDraft, undone>>

-----------------------------------------------------------------------------
(* Requests.                                                                  *)

Rank == [integration |-> 1, client |-> 2, surface |-> 3, secret |-> 4]

\* The requests of a call that are in flight.
InFlight(job) ==
  {r \in job.todo :
     \/ job.kind = "toggle" \/ job.step = "load"
     \/ \A q \in job.todo : IF job.step = "undo" THEN Rank[r] >= Rank[q] ELSE Rank[r] <= Rank[q]}

\* IAM carries out a write for the account x, whose integration must be there.
Carried(kind, x, r, enabled) ==
  IF r = "secret"
  THEN stored[x].client # "none" /\ UNCHANGED stored
  ELSE /\ kind # "create" => stored[x][r] # "none"
       /\ (kind = "create" /\ r # "integration") => stored[x].integration # "none"
       /\ stored' = [stored EXCEPT ![x][r] = Flag(enabled)]

\* The account a request is about; the first one of a creation finds one there never was.
Subject(job, r) ==
  IF job.kind = "create" /\ r = "integration"
  THEN {x \in Accounts \ gone : \A q \in Resources : stored[x][q] = "none"}
  ELSE {job.account}

\* The last write is answered: load, unless there is more to write.
Written(j, x, r) ==
  LET job == jobs[j]
      last == job.todo = {r} IN
  /\ jobs' = [jobs EXCEPT ![j].account = x,
                          ![j].todo = IF last THEN Resources ELSE @ \ {r},
                          ![j].step = IF last THEN "load" ELSE @]
  /\ state' = IF last THEN [state EXCEPT !.status = "loading"] ELSE state
  /\ spoiled' = IF last /\ job.clean /\ job.kind # "create" THEN spoiled \ {x} ELSE spoiled

\* A write is carried out and answered.
Write(j, r) ==
  /\ jobs[j].step = "write"
  /\ \E x \in Subject(jobs[j], r) :
       /\ Carried(jobs[j].kind, x, r, jobs[j].enabled)
       /\ Written(j, x, r)
  /\ UNCHANGED <<strays, gone, calls, pageState, undone, overlapped, foreign>>

\* Mutant: a failure leaves the page as it is.
FailUnseen(j) ==
  /\ jobs' = [jobs EXCEPT ![j] = NoAccountJob]
  /\ state' = [state EXCEPT !.status = "error"]
  /\ notice' = (notice \/ jobs[j].kind \in {"toggle", "load"})
  /\ UNCHANGED view

\* The call has failed: the controller says so, then the page copies its state.  The notice
\* of a save is in the drawer.
Fail(j) ==
  /\ jobs' = [jobs EXCEPT ![j] = NoAccountJob]
  /\ state' = [state EXCEPT !.status = "error"]
  /\ view' = state'
  /\ notice' = (notice \/ jobs[j].kind \in {"toggle", "load"})

\* Mutant: only the integration is deleted again.
ForgetfulUndo(job) == IF job.account = NoAccount THEN {} ELSE {"integration"}

\* Mutant: whether there is an integration is not looked at.
UndoAnyway(job) == {"integration"} \cup (IF "client" \in job.todo THEN {} ELSE {"client"})

\* What createAccount knows of what it made.
ToUndo(job) ==
  (IF job.account = NoAccount THEN {} ELSE {"integration"})
    \cup (IF "client" \in job.todo THEN {} ELSE {"client"})

\* A write fails, or its answer gets lost.  A creation deletes what it knows of; the other
\* requests of a switch go on.
FailWrite(j, r) ==
  LET job == jobs[j] IN
  /\ job.step = "write"
  /\ \E lost \in BOOLEAN :
       /\ IF lost THEN \E x \in Subject(job, r) : Carried(job.kind, x, r, job.enabled)
                  ELSE UNCHANGED stored
       /\ IF job.kind = "create" /\ ToUndo(job) # {}
          THEN /\ jobs' = [jobs EXCEPT ![j].step = "undo", ![j].todo = ToUndo(job),
                                       ![j].clean = ~lost]
               /\ UNCHANGED <<state, view, notice>>
          ELSE Fail(j)
  /\ strays' = strays \cup {[account |-> job.account, resource |-> q, enabled |-> job.enabled]
                              : q \in (IF job.kind = "toggle" THEN job.todo \ {r} ELSE {})}
  /\ spoiled' = spoiled \cup ({job.account} \cap Accounts)
  /\ UNCHANGED <<gone, calls, accountDraft, undone, overlapped, foreign>>

\* A deletion of createAccount ends; whether it failed is not looked at.
Undo(j, r) ==
  LET job == jobs[j]
      last == job.todo = {r} IN
  /\ job.step = "undo"
  /\ \E done \in BOOLEAN :
       /\ stored' = IF done THEN [stored EXCEPT ![job.account][r] = "none"] ELSE stored
       /\ gone' = IF done /\ r = "integration" THEN gone \cup {job.account} ELSE gone
       /\ undone' = IF last /\ done /\ job.clean THEN undone \cup {job.account} ELSE undone
       /\ IF last
          THEN Fail(j)
          ELSE /\ jobs' = [jobs EXCEPT ![j].todo = @ \ {r}, ![j].clean = @ /\ done]
               /\ UNCHANGED <<state, view, notice>>
  /\ UNCHANGED <<strays, calls, accountDraft, spoiled, overlapped, foreign>>

\* A list is read.
Read(j, r) ==
  /\ jobs[j].step = "load"
  /\ jobs[j].todo # {r}
  /\ jobs' = [jobs EXCEPT ![j].todo = @ \ {r}, ![j].read[r] = Column(r)]
  /\ UNCHANGED <<iam, calls, state, pageState, aux>>

\* The last list is read: the rows replace the ones there are, a drawer closes after a save.
Loaded(j, r) ==
  LET job == jobs[j] IN
  /\ job.step = "load"
  /\ job.todo = {r}
  /\ jobs' = [jobs EXCEPT ![j] = NoAccountJob]
  /\ state' = [status |-> "ready", accounts |-> ToAccounts([job.read EXCEPT ![r] = Column(r)]),
                loaded |-> TRUE]
  /\ view' = state'
  /\ accountDraft' = IF job.kind \in {"create", "update"} THEN NoAccountDraft ELSE accountDraft
  /\ UNCHANGED <<iam, calls, notice, aux>>

\* A list cannot be read; whatever the call has changed, it has failed.
FailRead(j) ==
  /\ jobs[j].step = "load"
  /\ Fail(j)
  /\ UNCHANGED <<iam, calls, accountDraft, aux>>

\* A request nobody waits for is carried out, or not.
Stray(s) ==
  /\ strays' = strays \ {s}
  /\ \/ UNCHANGED stored
     \/ stored[s.account][s.resource] # "none" /\ stored' = [stored EXCEPT ![s.account][s.resource] = Flag(s.enabled)]
  /\ foreign' = TRUE
  /\ UNCHANGED <<gone, jobs, calls, state, pageState, spoiled, undone, overlapped>>

\* Another operator deletes an account.
OthersDelete(x) ==
  /\ stored[x].integration # "none"
  /\ stored' = [stored EXCEPT ![x] = [r \in Resources |-> "none"]]
  /\ gone' = gone \cup {x}
  /\ foreign' = TRUE
  /\ undone' = undone \cup {x}
  /\ UNCHANGED <<strays, jobs, calls, state, pageState, spoiled, overlapped>>

Next ==
  \/ Reload \/ Close \/ Refuse \/ Submit
  \/ \E enabled \in BOOLEAN : \E row \in view.accounts \cup {NewRow} : Open(row, enabled)
  \/ \E row \in view.accounts : Toggle(row)
  \/ \E j \in Active :
       \/ FailRead(j)
       \/ \E r \in InFlight(jobs[j]) :
            Write(j, r) \/ FailWrite(j, r) \/ Undo(j, r) \/ Read(j, r) \/ Loaded(j, r)
  \/ \E s \in strays : Stray(s)
  \/ \E x \in Accounts : OthersDelete(x)

Spec == Init /\ [][Next]_vars

-----------------------------------------------------------------------------
(* Properties.                                                                *)

Rows == [account : Accounts, enabled : BOOLEAN, client : BOOLEAN, surface : BOOLEAN]
States == [status : {"idle", "loading", "saving", "ready", "error"}, accounts : SUBSET Rows,
           loaded : BOOLEAN]

JobRecords ==
  [kind : {"load", "create", "update", "toggle"}, account : Accounts \cup {NoAccount}, enabled : BOOLEAN,
   step : {"write", "undo", "load"}, todo : SUBSET (Resources \cup {"secret"}),
   read : [Resources -> [Accounts -> Flags]], clean : BOOLEAN]

\* The type invariant.
TypeOK ==
  /\ stored \in [Accounts -> [Resources -> Flags]]
  /\ strays \subseteq [account : Accounts, resource : Resources, enabled : BOOLEAN]
  /\ \A j \in Active :
       /\ jobs[j] \in JobRecords
       /\ jobs[j].todo # {}
       /\ jobs[j].step = "undo" => jobs[j].account # NoAccount
  /\ state.status \in {"loading", "saving", "ready", "error"} /\ state.accounts \subseteq Rows
  /\ view.status \in {"idle", "loading", "saving", "ready", "error"} /\ view.accounts \subseteq Rows
  /\ \/ accountDraft = NoAccountDraft
     \/ accountDraft \in [account : Accounts \cup {NoAccount}, enabled : BOOLEAN]
  /\ spoiled \subseteq Accounts /\ gone \subseteq Accounts /\ undone \subseteq gone

\* createAccount: a creation that failed leaves neither its integration nor its client,
\* provided that no answer got lost and the deletions went through, even if the account was
\* seen and switched while it was made.
NothingLeft ==
  \A x \in undone : stored[x].integration = "none" /\ stored[x].client = "none"

\* setAccountEnabled, updateAccount: the resources of an account are enabled or disabled
\* together, except while requests for it are on their way and after a call for it that
\* failed, overlapped with another or knew only a part of it; a later call that does
\* neither sets them right.
EnabledTogether ==
  \A x \in Accounts \ spoiled :
    (On(x) = {} /\ \A s \in strays : s.account # x) =>
      \E flag \in Flags : {stored[x][r] : r \in Resources} \subseteq {"none", flag}

\* load, submit, toggleAccount: once nothing is under way, the page shows the state of the
\* controller, no button is disabled any more, and unless calls overlapped or others
\* changed something, a page that reports no failure shows what is stored.
ShownIsStored ==
  Active = {} =>
    /\ view = state
    /\ view.status \in {"ready", "error"}
    /\ view.status = "ready" /\ ~overlapped /\ ~foreign =>
         view.accounts = ToAccounts([r \in Resources |-> Column(r)])
=============================================================================
