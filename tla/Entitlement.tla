----------------------------- MODULE Entitlement -----------------------------
(***************************************************************************)
(* The commercial entitlement authority of one (tenant_id, app_id) pair:   *)
(* ManagerService over SqlxManagerRepository over PostgreSQL in its        *)
(* default READ COMMITTED isolation.                                       *)
(*                                                                         *)
(* A request is served by one async task.  A step of it is one statement   *)
(* sent to the database together with the code up to the next statement,   *)
(* so that the statements of concurrent requests interleave.  Every        *)
(* statement filters by tenant_id and app_id, so requests about another    *)
(* pair touch no row of this module.                                       *)
(*                                                                         *)
(* Left out of the data: tier, updated_by and updated_at, which are stored *)
(* and returned and never tested.                                          *)
(***************************************************************************)
EXTENDS Integers, Sequences

CONSTANTS
  Requests,    \* concurrent callers, each with at most one request in flight
  Keys,        \* entitlement keys
  Contents,    \* the contents callers ask to be stored
  Never,       \* valid_until IS NULL
  NoKey,       \* the key argument of a request that names none
  NoRequest,   \* no transaction holds the snapshot row
  MaxVersion,  \* bound: no caller expects a version that would exceed it
  MaxTime      \* bound: the wall clock stops here

Statuses == {"active", "suspended", "expired"}

Content == [status: Statuses, validUntil: Nat \cup {Never}, keys: SUBSET Keys]

ASSUME ContentsAssumption == Contents \subseteq Content
ASSUME SentinelAssumption ==
  /\ Never \notin Nat
  /\ NoKey \notin Keys
  /\ NoRequest \notin Requests
ASSUME BoundAssumption == MaxVersion \in Nat /\ MaxTime \in Nat

VARIABLES
  header,    \* the row of platform_manager_entitlement_snapshot; version 0: no row
  grant,     \* the rows of platform_manager_entitlement_grant
  holder,    \* the request whose open transaction owns the snapshot row
  now,       \* the wall clock
  history,   \* auxiliary: the contents committed as version 1, 2, ...
  phase,     \* the statement each request is about to send
  call,      \* the arguments of each request
  since,     \* auxiliary: the version and the time at which each request arrived
  existing,  \* existing_version.unwrap_or(0) of each update
  staged,    \* what the open transaction of each update has written
  view,      \* the snapshot each request has read and answers with
  wrote,     \* auxiliary: the version each update has committed, 0 if none
  answer     \* the outcome of each request

store == <<header, grant, history>>
progress == <<call, since, existing, staged, view, wrote, answer>>
vars == <<header, grant, holder, now, history, phase, call, since, existing,
          staged, view, wrote, answer>>

Header == [version: Nat, status: Statuses, validUntil: Nat \cup {Never}]
View == [version: Nat, status: Statuses, validUntil: Nat \cup {Never},
         keys: SUBSET Keys]

\* foundation_snapshot: what a pair without a row is answered with.
FoundationContent == [status |-> "active", validUntil |-> Never, keys |-> {}]
NoHeader == [version |-> 0, status |-> "active", validUntil |-> Never]
NoView == [version |-> 0, status |-> "active", validUntil |-> Never, keys |-> {}]
NothingStaged == [header |-> NoHeader, rows |-> [k \in Keys |-> "unwritten"]]

\* The requests of the three endpoints.  "wellFormed" stands for the validators
\* of app id, tier, status, updated_by, number of keys and key codes, and for the
\* handler's parse of expectedVersion.
Forms ==
  [op: {"update"}, wellFormed: BOOLEAN, expected: -1 .. MaxVersion - 1,
   content: Contents, key: {NoKey}]
  \cup [op: {"retrieve"}, wellFormed: BOOLEAN, expected: {0},
        content: {FoundationContent}, key: {NoKey}]
  \cup [op: {"decide"}, wellFormed: BOOLEAN, expected: {0},
        content: {FoundationContent}, key: Keys]

\* What else is in a malformed request is not looked at, so that the updates that
\* expect no version stand for all of them.
Calls == {c \in Forms : c.wellFormed \/ (c.op = "update" /\ c.expected = 0)}

NoCall == [op |-> "retrieve", wellFormed |-> TRUE, expected |-> 0,
           content |-> FoundationContent, key |-> NoKey]

ReadPhases == {"header", "grants", "respond"}
LockedPhases == {"revoke", "grant", "commit"}
Phases == {"idle", "lock", "write"} \cup LockedPhases \cup ReadPhases
Decisions == {"snapshot_inactive", "snapshot_expired", "entitlement_missing",
              "entitlement_active"}
Answers == {"none", "invalid", "conflict", "failed", "snapshot"} \cup Decisions

Current == Len(history)
At(n) == IF n = 0 THEN FoundationContent ELSE history[n]
\* Mutant: the grant query forgets revoked_at IS NULL.
AllGrantedKeys == {k \in Keys : grant[k] # "absent"}

ActiveKeys == {k \in Keys : grant[k] = "active"}
Expired(until, t) == until # Never /\ until <= t

Init ==
  /\ header = NoHeader
  /\ grant = [k \in Keys |-> "absent"]
  /\ holder = NoRequest
  /\ now = 0
  /\ history = <<>>
  /\ phase = [r \in Requests |-> "idle"]
  /\ call = [r \in Requests |-> NoCall]
  /\ since = [r \in Requests |-> [version |-> 0, time |-> 0]]
  /\ existing = [r \in Requests |-> 0]
  /\ staged = [r \in Requests |-> NothingStaged]
  /\ view = [r \in Requests |-> NoView]
  /\ wrote = [r \in Requests |-> 0]
  /\ answer = [r \in Requests |-> "none"]

-----------------------------------------------------------------------------
(* Arrival of a request, and its end.                                        *)

\* The checks of the service before it reaches the repository.
Valid(c) == c.wellFormed /\ (c.op = "update" => c.expected >= 0)

Arrive(r, c) ==
  /\ phase[r] = "idle"
  /\ call' = [call EXCEPT ![r] = c]
  /\ since' = [since EXCEPT ![r] = [version |-> Current, time |-> now]]
  /\ existing' = [existing EXCEPT ![r] = 0]
  /\ staged' = [staged EXCEPT ![r] = NothingStaged]
  /\ view' = [view EXCEPT ![r] = NoView]
  /\ wrote' = [wrote EXCEPT ![r] = 0]
  /\ UNCHANGED <<store, holder, now>>

Accept(r, c) ==
  /\ Valid(c)
  /\ Arrive(r, c)
  /\ phase' = [phase EXCEPT ![r] = IF c.op = "update" THEN "lock" ELSE "header"]
  /\ answer' = [answer EXCEPT ![r] = "none"]

Reject(r, c) ==
  /\ ~Valid(c)
  /\ Arrive(r, c)
  /\ answer' = [answer EXCEPT ![r] = "invalid"]
  /\ UNCHANGED phase

Finish(r, a) ==
  /\ phase' = [phase EXCEPT ![r] = "idle"]
  /\ answer' = [answer EXCEPT ![r] = a]

\* Mutant: a failed or finished transaction is leaked and keeps its row lock.
LeakRow(r) == UNCHANGED holder

\* A transaction that ends, by commit or by the rollback of a dropped one, gives
\* the row back.
Release(r) == holder' = IF holder = r THEN NoRequest ELSE holder

-----------------------------------------------------------------------------
(* replace_commercial_entitlement, statement by statement.                   *)

\* Mutant: the version is selected without FOR UPDATE.
SelectWithoutLock == TRUE

\* SELECT version ... FOR UPDATE waits for the owner of a row and locks it.  With
\* no committed row it returns none at once and locks nothing.
RowAvailable == header.version > 0 => holder = NoRequest

\* Mutant: the expected version is compared only when a row exists.
VersionMatchesIfAny(r) == header.version > 0 => header.version = call[r].expected

VersionMatches(r) == header.version = call[r].expected

LockHeader(r) ==
  /\ phase[r] = "lock"
  /\ RowAvailable
  /\ VersionMatches(r)
  /\ existing' = [existing EXCEPT ![r] = header.version]
  /\ holder' = IF header.version > 0 THEN r ELSE holder
  /\ phase' = [phase EXCEPT ![r] = "write"]
  /\ UNCHANGED <<store, now, call, since, staged, view, wrote, answer>>

\* VersionConflict: the transaction is dropped, which rolls it back.
RefuseVersion(r) ==
  /\ phase[r] = "lock"
  /\ RowAvailable
  /\ ~VersionMatches(r)
  /\ existing' = [existing EXCEPT ![r] = header.version]
  /\ Finish(r, "conflict")
  /\ UNCHANGED <<store, holder, now, call, since, staged, view, wrote>>

NextHeader(r) == [version |-> call[r].expected + 1,
                  status |-> call[r].content.status,
                  validUntil |-> call[r].content.validUntil]

\* UPDATE ... WHERE version = $9: no row is written if the version moved on.
UpdateHeader(r) ==
  /\ phase[r] = "write"
  /\ existing[r] > 0
  /\ staged' = [staged EXCEPT ![r].header =
                  IF header.version = call[r].expected THEN NextHeader(r) ELSE NoHeader]
  /\ phase' = [phase EXCEPT ![r] = "revoke"]
  /\ UNCHANGED <<store, holder, now, call, since, existing, view, wrote, answer>>

\* INSERT waits for another uncommitted insert of the same pair.
InsertHeader(r) ==
  /\ phase[r] = "write"
  /\ existing[r] = 0
  /\ header.version = 0
  /\ holder = NoRequest
  /\ holder' = r
  /\ staged' = [staged EXCEPT ![r].header = NextHeader(r)]
  /\ phase' = [phase EXCEPT ![r] = "revoke"]
  /\ UNCHANGED <<store, now, call, since, existing, view, wrote, answer>>

\* The other insert was committed: UNIQUE (tenant_id, app_id) fails this one.
InsertDuplicate(r) ==
  /\ phase[r] = "write"
  /\ existing[r] = 0
  /\ header.version > 0
  /\ Finish(r, "failed")
  /\ UNCHANGED <<store, holder, now, call, since, existing, staged, view, wrote>>

\* What a statement of r's transaction finds in the grant table: its own writes
\* over what is committed.
Found(r, k) ==
  IF staged[r].rows[k] # "unwritten" THEN staged[r].rows[k] ELSE grant[k]

\* Mutant: grants that the new content does not list are never revoked.
RevokeNothing(r) ==
  /\ phase[r] = "revoke"
  /\ phase' = [phase EXCEPT ![r] = "grant"]
  /\ UNCHANGED <<store, holder, now, call, since, existing, staged, view, wrote, answer>>

\* Mutant: the revocation is sent to the pool instead of the open transaction.
RevokeOutsideTransaction(r) ==
  /\ phase[r] = "revoke"
  /\ grant' = [k \in Keys |-> IF grant[k] = "active" THEN "revoked" ELSE grant[k]]
  /\ phase' = [phase EXCEPT ![r] = "grant"]
  /\ UNCHANGED <<header, history, holder, now, call, since, existing, staged, view,
                 wrote, answer>>

RevokeGrants(r) ==
  /\ phase[r] = "revoke"
  /\ staged' = [staged EXCEPT ![r].rows =
                  [k \in Keys |-> IF Found(r, k) = "active" THEN "revoked"
                                  ELSE staged[r].rows[k]]]
  /\ phase' = [phase EXCEPT ![r] = "grant"]
  /\ UNCHANGED <<store, holder, now, call, since, existing, view, wrote, answer>>

\* The loop of INSERT ... ON CONFLICT DO UPDATE SET revoked_at = NULL.
UpsertGrants(r) ==
  /\ phase[r] = "grant"
  /\ staged' = [staged EXCEPT ![r].rows =
                  [k \in Keys |-> IF k \in call[r].content.keys THEN "active"
                                  ELSE staged[r].rows[k]]]
  /\ phase' = [phase EXCEPT ![r] = "commit"]
  /\ UNCHANGED <<store, holder, now, call, since, existing, view, wrote, answer>>

Install(r) ==
  /\ phase[r] = "commit"
  /\ header' = IF staged[r].header.version > 0 THEN staged[r].header ELSE header
  /\ grant' = [k \in Keys |-> Found(r, k)]
  /\ history' = Append(history, call[r].content)
  /\ wrote' = [wrote EXCEPT ![r] = Current + 1]
  /\ Release(r)
  /\ existing' = [existing EXCEPT ![r] = 0]
  /\ staged' = [staged EXCEPT ![r] = NothingStaged]
  /\ UNCHANGED <<now, call, since, view>>

Commit(r) ==
  /\ Install(r)
  /\ phase' = [phase EXCEPT ![r] = "header"]
  /\ UNCHANGED answer

\* Mutant: a commit error is reported as a version conflict.
CommitErrorIsConflict(r) == Install(r) /\ Finish(r, "conflict")

\* The commit is done and its acknowledgement is lost: the code reports a storage
\* error.
CommitUnacknowledged(r) == Install(r) /\ Finish(r, "failed")

-----------------------------------------------------------------------------
(* find_commercial_entitlement: two statements on the pool, each with a       *)
(* snapshot of its own; update reads its result back the same way.            *)

ReadHeader(r) ==
  /\ phase[r] = "header"
  /\ view' = [view EXCEPT ![r] =
                [version |-> header.version, status |-> header.status,
                 validUntil |-> header.validUntil, keys |-> {}]]
  /\ phase' = [phase EXCEPT ![r] = IF header.version = 0 THEN "respond" ELSE "grants"]
  /\ UNCHANGED <<store, holder, now, call, since, existing, staged, wrote, answer>>

\* Mutant: the second statement also refreshes the version it returns.
ReadGrantsAndVersion(r) ==
  /\ phase[r] = "grants"
  /\ view' = [view EXCEPT ![r].keys = ActiveKeys, ![r].version = header.version]
  /\ phase' = [phase EXCEPT ![r] = "respond"]
  /\ UNCHANGED <<store, holder, now, call, since, existing, staged, wrote, answer>>

ReadGrants(r) ==
  /\ phase[r] = "grants"
  /\ view' = [view EXCEPT ![r].keys = ActiveKeys]
  /\ phase' = [phase EXCEPT ![r] = "respond"]
  /\ UNCHANGED <<store, holder, now, call, since, existing, staged, wrote, answer>>

\* decide_commercial_entitlement on the snapshot read, at the time t.
Reason(v, k, t) ==
  CASE v.status # "active"                                -> "snapshot_inactive"
    [] v.status = "active" /\ Expired(v.validUntil, t)    -> "snapshot_expired"
    [] v.status = "active" /\ ~Expired(v.validUntil, t)
         /\ k \notin v.keys                               -> "entitlement_missing"
    [] OTHER                                              -> "entitlement_active"

\* An update that read no row back is "missing after transaction".
Outcome(r) ==
  CASE call[r].op = "decide"                            -> Reason(view[r], call[r].key, now)
    [] call[r].op = "update" /\ view[r].version = 0     -> "failed"
    [] OTHER                                            -> "snapshot"

Respond(r) ==
  /\ phase[r] = "respond"
  /\ Finish(r, Outcome(r))
  /\ UNCHANGED <<store, holder, now, call, since, existing, staged, view, wrote>>

-----------------------------------------------------------------------------
\* A statement fails, the connection is lost or the process dies before the next
\* step: an open transaction is rolled back, and the caller sees a failure.
Fail(r) ==
  /\ phase[r] # "idle"
  /\ Finish(r, "failed")
  /\ Release(r)
  /\ existing' = [existing EXCEPT ![r] = 0]
  /\ staged' = [staged EXCEPT ![r] = NothingStaged]
  /\ view' = [view EXCEPT ![r] = NoView]
  /\ UNCHANGED <<store, now, call, since, wrote>>

Tick ==
  /\ now < MaxTime
  /\ now' = now + 1
  /\ UNCHANGED <<store, holder, phase, progress>>

Step(r) ==
  \/ LockHeader(r) \/ RefuseVersion(r)
  \/ UpdateHeader(r) \/ InsertHeader(r) \/ InsertDuplicate(r)
  \/ RevokeGrants(r) \/ UpsertGrants(r)
  \/ Commit(r) \/ CommitUnacknowledged(r)
  \/ ReadHeader(r) \/ ReadGrants(r) \/ Respond(r)

Next ==
  \/ \E r \in Requests, c \in Calls : Accept(r, c) \/ Reject(r, c)
  \/ \E r \in Requests : Step(r) \/ Fail(r)
  \/ Tick

Spec == Init /\ [][Next]_vars

(***************************************************************************)
(* A task that can take its next step is polled until it does.  A lock     *)
(* wait ends because PostgreSQL serves the waiters of a row in turn, so a  *)
(* waiter that finds the row free again and again gets it: strong fairness *)
(* for the two statements that wait.                                       *)
(***************************************************************************)
Fairness ==
  \A r \in Requests :
    /\ WF_vars(Step(r))
    /\ SF_vars(LockHeader(r) \/ RefuseVersion(r) \/ InsertHeader(r) \/ InsertDuplicate(r))

FairSpec == Spec /\ Fairness

-----------------------------------------------------------------------------
(* Properties.                                                               *)

\* Every variable has its type, and a row is owned only by an update that is
\* inside its transaction.
TypeOK ==
  /\ header \in Header
  /\ grant \in [Keys -> {"absent", "active", "revoked"}]
  /\ holder \in Requests \cup {NoRequest}
  /\ \A r \in Requests : holder = r => phase[r] \in {"write"} \cup LockedPhases
  /\ now \in Nat
  /\ history \in Seq(Content)
  /\ phase \in [Requests -> Phases]
  /\ call \in [Requests -> Calls \cup {NoCall}]
  /\ since \in [Requests -> [version: Nat, time: Nat]]
  /\ existing \in [Requests -> Nat]
  /\ staged \in [Requests -> [header: Header,
                              rows: [Keys -> {"unwritten", "active", "revoked"}]]]
  /\ view \in [Requests -> View]
  /\ wrote \in [Requests -> Nat]
  /\ answer \in [Requests -> Answers]

\* The two tables together always hold exactly the content of the last committed
\* replacement: the header row carries its status, its expiry and its position in
\* the order of commits, and the grants not revoked are its keys, whatever the
\* interleaving of replacements, rollbacks and lost acknowledgements.
StoreIsLatestVersion ==
  /\ header = [version |-> Current, status |-> At(Current).status,
               validUntil |-> At(Current).validUntil]
  /\ ActiveKeys = At(Current).keys

\* No lost update: an update commits at most the version after the one it
\* expected, with its own content, and no two updates commit the same version, so
\* of several that expect one version at most one ever takes effect.
NoLostUpdate ==
  \A r \in Requests : wrote[r] # 0 =>
    /\ wrote[r] \in 1 .. Current
    /\ wrote[r] = call[r].expected + 1
    /\ history[wrote[r]] = call[r].content
    /\ \A q \in Requests \ {r} : wrote[q] # wrote[r]

\* The status code tells the caller the truth: 400 and 409 mean that nothing was
\* stored, and 200 to an update means that it was stored and that the snapshot in
\* the body is of this version or a later one.
AnswersAreHonest ==
  \A r \in Requests :
    /\ answer[r] \in {"invalid", "conflict"} => wrote[r] = 0
    /\ answer[r] = "snapshot" /\ call[r].op = "update" =>
         wrote[r] # 0 /\ view[r].version >= wrote[r]

\* A snapshot read as two statements may mix two versions, but never one that
\* bears the current version number: a caller that edits what it was shown and
\* sends that version back either edits the stored content or is refused.
CurrentViewIsExact ==
  \A r \in Requests :
    answer[r] = "snapshot" /\ view[r].version = Current =>
      /\ view[r].status = At(Current).status
      /\ view[r].validUntil = At(Current).validUntil
      /\ view[r].keys = At(Current).keys

\* Fail closed: an allowed decision rests on a snapshot version that was current
\* at some time during the request, active and not expired when the request
\* arrived, and on a key that such a version or a later one has granted.
AllowedIsBacked ==
  \A r \in Requests : answer[r] = "entitlement_active" =>
    LET v == view[r].version
    IN  /\ v \in since[r].version .. Current
        /\ At(v).status = "active"
        /\ ~Expired(At(v).validUntil, since[r].time)
        /\ \E w \in v .. Current : call[r].key \in At(w).keys

\* The stored rows never change without the version moving on by exactly one, so
\* equal version numbers mean equal stored snapshots.
RowsChangeWithVersion ==
  [][header' # header \/ grant' # grant =>
       header'.version = header.version + 1]_vars

\* Every request is answered: no wait for the snapshot row lasts for ever.
EveryRequestIsAnswered ==
  \A r \in Requests : phase[r] # "idle" ~> phase[r] = "idle"

\* What the runbook says of an allowed verify decision: it carries the snapshot
\* version whose grant it was decided on.
AllowedByItsVersion ==
  \A r \in Requests : answer[r] = "entitlement_active" =>
    call[r].key \in At(view[r].version).keys

\* What the API description says of updates: 409 for a snapshot version conflict,
\* 500 for an unexpected server failure.  A statement the database turns down
\* because another replacement took the expected version is the former.
LostRaceIsConflict ==
  [][\A r \in Requests :
       Step(r) /\ phase[r] = "write" /\ phase'[r] = "idle" =>
         answer'[r] = "conflict"]_vars


-----------------------------------------------------------------------------
(* The inductive invariant behind the properties: what each statement of a    *)
(* request may rely on when it is sent.                                       *)

\* An update inside replace_commercial_entitlement: the snapshot row it found is
\* its own until it ends, so the version it compared is still the current one and
\* its writes are over the committed rows.
TransactionOk(r) ==
  /\ phase[r] \in {"lock", "write"} \cup LockedPhases =>
       call[r].op = "update" /\ call[r].expected >= 0 /\ wrote[r] = 0
  /\ phase[r] \in {"lock", "write"} => staged[r] = NothingStaged
  /\ phase[r] = "write" =>
       /\ existing[r] = call[r].expected
       /\ existing[r] > 0 => holder = r /\ Current = call[r].expected
  /\ holder = r => phase[r] \in LockedPhases \/ (phase[r] = "write" /\ existing[r] > 0)
  /\ phase[r] \in LockedPhases =>
       /\ holder = r
       /\ Current = call[r].expected
       /\ staged[r].header = NextHeader(r)
  /\ phase[r] = "revoke" => staged[r].rows = NothingStaged.rows
  /\ phase[r] = "grant" => \A k \in Keys : Found(r, k) # "active"
  /\ phase[r] = "commit" =>
       \A k \in Keys : Found(r, k) = "active" <=> k \in call[r].content.keys

\* An outcome is given once, after the update it reports on was stored or refused.
OutcomeOk(r) ==
  /\ phase[r] # "idle" => answer[r] = "none"
  /\ answer[r] \in {"invalid", "conflict"} => wrote[r] = 0
  /\ phase[r] \in ReadPhases /\ call[r].op = "update" => wrote[r] # 0
  /\ \/ phase[r] \in {"grants", "respond"}
     \/ answer[r] = "snapshot"
     => (call[r].op = "update" => wrote[r] # 0 /\ view[r].version >= wrote[r])

HasRead(r) == phase[r] = "respond" \/ answer[r] \in {"snapshot"} \cup Decisions

\* A snapshot read is the header of one version under the keys of the same or a
\* later one, and is exact as long as its version is the current one.
ReadOk(r) ==
  /\ since[r].version <= Current
  /\ since[r].time <= now
  /\ phase[r] = "grants" \/ HasRead(r) =>
       /\ view[r].version \in since[r].version .. Current
       /\ view[r].status = At(view[r].version).status
       /\ view[r].validUntil = At(view[r].version).validUntil
  /\ HasRead(r) =>
       /\ \E w \in view[r].version .. Current : view[r].keys = At(w).keys
       /\ view[r].version = Current => view[r].keys = At(Current).keys
  /\ answer[r] = "entitlement_active" =>
       /\ view[r].status = "active"
       /\ ~Expired(view[r].validUntil, since[r].time)
       /\ call[r].key \in view[r].keys

IInv ==
  /\ TypeOK
  /\ StoreIsLatestVersion
  /\ NoLostUpdate
  /\ \A r \in Requests : TransactionOk(r) /\ OutcomeOk(r) /\ ReadOk(r)
=============================================================================
