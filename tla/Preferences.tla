------------------------------- MODULE Preferences -------------------------------
(***************************************************************************)
(* The preferences of operators: a row per user, read and replaced by      *)
(* requests of the app API and listed by the backend API.                  *)
(*                                                                         *)
(* Every statement runs by itself on a connection of the pool.  Requests   *)
(* of one user interleave between statements; a statement may fail, the    *)
(* upsert also after it was carried out.                                   *)
(***************************************************************************)
EXTENDS Naturals, FiniteSets

CONSTANTS
  Users,     \* of one tenant
  Values,    \* keys and theme of a body
  NoTheme,   \* the one of them without a theme
  Default,   \* what default_preference holds
  Requests,  \* bound: requests ever made; their names serve as the ids uuid makes
  Unanswered,
  MaxTime    \* bound: of the clock

VARIABLES
  rows,      \* platform_manager_preference
  clock,
  writes,    \* auxiliary: how often the row of a user was written
  requests   \* what was asked, how far it is and its answer

vars == <<rows, clock, writes, requests>>

Unsent ==
  [kind |-> "none", user |-> CHOOSE u \in Users : TRUE, value |-> Default, step |-> "unsent",
   now |-> 0, since |-> [u \in Users |-> 0], made |-> 0, answer |-> Unanswered]

Init ==
  /\ rows = {}
  /\ clock = 1
  /\ writes = [u \in Users |-> 0]
  /\ requests = [r \in Requests |-> Unsent]

Ask(r, kind, u, v) ==
  /\ requests[r].step = "unsent"
  /\ requests' = [requests EXCEPT ![r] = [Unsent EXCEPT
       !.kind = kind, !.user = u, !.value = v, !.step = "asked", !.since = writes]]
  /\ UNCHANGED <<rows, clock, writes>>

Answer(r, a) == requests' = [requests EXCEPT ![r].step = "answered", ![r].answer = a]

Problem(status) == [status |-> status, rows |-> {}]
Success(found) == [status |-> "ok", rows |-> found]

\* find_by_tenant_and_user, of at most one row.
Find(u) == {row \in rows : row.user = u}

DefaultPreference(u) ==
  [user |-> u, id |-> Unanswered, value |-> Default, created |-> 0, updated |-> 0, n |-> 0]

\* retrieve_preferences.
Retrieve(r) ==
  LET u == requests[r].user IN
  /\ requests[r].kind = "retrieve"
  /\ requests[r].step = "asked"
  /\ IF Find(u) = {} THEN Answer(r, Success({DefaultPreference(u)}))
                     ELSE \E row \in Find(u) : Answer(r, Success({row}))
  /\ UNCHANGED <<rows, clock, writes>>

\* list_for_admin.
ListForAdmin(r) ==
  /\ requests[r].kind = "list"
  /\ requests[r].step = "asked"
  /\ Answer(r, Success(rows))
  /\ UNCHANGED <<rows, clock, writes>>

\* update_preferences: a body without a theme is refused, any other gets an id and a time.
Prepare(r) ==
  /\ requests[r].kind = "update"
  /\ requests[r].step = "asked"
  /\ IF requests[r].value = NoTheme
     THEN Answer(r, Problem("bad_request"))
     ELSE requests' = [requests EXCEPT ![r].step = "prepared", ![r].now = clock]
  /\ UNCHANGED <<rows, clock, writes>>

\* Mutant: without ON CONFLICT and the constraint it names.
InsertRow(r) ==
  LET q == requests[r] IN
  rows' = rows \cup {[user |-> q.user, id |-> r, value |-> q.value,
                      created |-> q.now, updated |-> q.now, n |-> writes'[q.user]]}

\* Mutant: ON CONFLICT DO NOTHING.
InsertOnce(r) ==
  LET q == requests[r] IN
  rows' = IF Find(q.user) # {} THEN rows
          ELSE rows \cup {[user |-> q.user, id |-> r, value |-> q.value,
                           created |-> q.now, updated |-> q.now, n |-> writes'[q.user]]}

\* The statement: a row that is there keeps its id and creation time.
WriteRow(r) ==
  LET q == requests[r] IN
  rows' = IF Find(q.user) # {}
          THEN {IF row.user = q.user
                THEN [row EXCEPT !.value = q.value, !.updated = q.now, !.n = writes'[q.user]]
                ELSE row : row \in rows}
          ELSE rows \cup {[user |-> q.user, id |-> r, value |-> q.value,
                           created |-> q.now, updated |-> q.now, n |-> writes'[q.user]]}

\* upsert_preference is carried out, and answered or not.
Upsert(r) ==
  /\ requests[r].step = "prepared"
  /\ writes' = [writes EXCEPT ![requests[r].user] = @ + 1]
  /\ WriteRow(r)
  /\ \/ requests' = [requests EXCEPT ![r].step = "written", ![r].made = writes'[requests[r].user]]
     \/ Answer(r, Problem("bad_request"))
  /\ UNCHANGED clock

\* The row is read back by a statement of its own.
ReadBack(r) ==
  /\ requests[r].step = "written"
  /\ IF Find(requests[r].user) = {}
     THEN Answer(r, Problem("bad_request"))
     ELSE \E row \in Find(requests[r].user) : Answer(r, Success({row}))
  /\ UNCHANGED <<rows, clock, writes>>

\* A statement fails: the app API answers a failed update as a bad request.
Fail(r) ==
  /\ requests[r].step \in {"asked", "prepared", "written"}
  /\ requests[r].kind = "update" => requests[r].step # "asked"
  /\ Answer(r, Problem(IF requests[r].kind = "update" THEN "bad_request" ELSE "server_error"))
  /\ UNCHANGED <<rows, clock, writes>>

Tick ==
  /\ clock < MaxTime
  /\ clock' = clock + 1
  /\ UNCHANGED <<rows, writes, requests>>

Next ==
  \/ \E r \in Requests :
       \/ Ask(r, "list", Unsent.user, Default)
       \/ \E u \in Users : Ask(r, "retrieve", u, Default)
       \/ \E u \in Users, v \in Values : Ask(r, "update", u, v)
       \/ Retrieve(r) \/ ListForAdmin(r) \/ Prepare(r) \/ Upsert(r) \/ ReadBack(r) \/ Fail(r)
  \/ Tick

Spec == Init /\ [][Next]_vars

-----------------------------------------------------------------------------
(* Properties.                                                                *)

\* What requests may be answered with.
Answers ==
  [status : {"ok", "bad_request", "server_error"},
   rows : SUBSET [user : Users, id : Requests \cup {Unanswered}, value : Values \cup {Default},
                  created : Nat, updated : Nat, n : Nat]]

\* The type invariant.
TypeOK ==
  /\ rows \subseteq [user : Users, id : Requests, value : Values, created : 1 .. clock,
                     updated : 1 .. clock, n : 1 .. Cardinality(Requests)]
  /\ clock \in 1 .. MaxTime
  /\ \A r \in Requests :
       /\ requests[r].step \in {"unsent", "asked", "prepared", "written", "answered"}
       /\ requests[r].value \in Values \cup {Default}
       /\ requests[r].step = "answered" <=> requests[r].answer # Unanswered

Answered(kinds) ==
  {r \in Requests : requests[r].kind \in kinds /\ requests[r].step = "answered"
                      /\ requests[r].answer.status = "ok"}

\* find_by_tenant_and_user, upsert_preference, list_for_admin: whatever interleaves, an
\* update is answered with its own values or with later ones, and a retrieval or a list
\* with nothing older than what was stored when it was asked; the default stands only for
\* a row that was not there then.
AnswersAreCurrent ==
  \A r \in Answered({"retrieve", "list", "update"}) :
    LET found == requests[r].answer.rows
        since(u) == IF requests[r].kind = "update" THEN requests[r].made ELSE requests[r].since[u] IN
    /\ \A row \in found : row.n >= since(row.user) /\ (row.n = 0 <=> row.value = Default)
    /\ requests[r].kind = "list" =>
         \A u \in Users : requests[r].since[u] > 0 => \E row \in found : row.user = u

\* ON CONFLICT (tenant_id, user_id) DO UPDATE: concurrent first updates of a user make one
\* row, which keeps the id and the creation time it was made with.
OneRowPerUser ==
  /\ \A x, y \in rows : x.user = y.user => x = y
  /\ \A r \in Answered({"retrieve", "list", "update"}) :
       \A x \in requests[r].answer.rows, y \in rows :
         x.user = y.user /\ x.n > 0 => x.id = y.id /\ x.created = y.created
=============================================================================
