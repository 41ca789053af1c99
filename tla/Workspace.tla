------------------------------- MODULE Workspace -------------------------------
(***************************************************************************)
(* A page of the administration modules: a table over a collection that    *)
(* other operators change too, the search box and pager that ask for other *)
(* rows, and the drawers and dialogs that change an entry.                 *)
(*                                                                         *)
(* Trade, membership, marketing, customer and IAM catalog pages differ in  *)
(* how a change of the query becomes a request, in whether a mutation      *)
(* waits for the rows to be read again, and in what they let the operator  *)
(* do meanwhile: `at' is the page that is open.  One entry of its          *)
(* collection is followed.  The services behind the pages are external: a  *)
(* mutation takes effect at one instant while it is in flight, an answer   *)
(* holds the collection as it was at some time while it was asked for, and *)
(* either may fail or get lost.                                            *)
(***************************************************************************)
EXTENDS Naturals, Sequences, SequencesExt

CONSTANTS
  Texts,       \* what can be typed in a search box or chosen as a filter
  NoText,      \* the empty search box
  NoEditor,    \* no drawer or dialog is open
  NoJob,       \* no mutation is pending
  MaxPage,     \* bound: pages of the table
  MaxVersion,  \* bound: versions of the collection
  MaxLoads     \* bound: list requests in flight when the operator asks for more

ASSUME TextAssumption == NoText \notin Texts
\* No value of a pending mutation stands for none.
ASSUME NoJobAssumption ==
  NoJob \notin [kind : {"create", "edit", "confirm"}, base : Nat, made : Nat, stage : {"sent", "reload"}]
ASSUME MaxAssumption == MaxPage \in Nat \ {0} /\ MaxVersion \in Nat \ {0} /\ MaxLoads \in Nat \ {0}

VARIABLES
  at,        \* the page that is open
  version,   \* of the collection: how often it was changed
  stamp,     \* the version an edit last changed the entry with, where edits name versions
  page,      \* page, of the pager
  text,      \* the search box
  sent,      \* the text the rows are asked for with
  timer,     \* a window.setTimeout is pending
  loads,     \* the list requests in flight, in the order they were sent
  shown,     \* the answer in the table
  loading,
  error,     \* the table shows that it could not be loaded
  editor,    \* the drawer or dialog that is open
  job,       \* the mutation that is pending
  feedback,  \* the notices shown of the last mutation
  outcome,   \* auxiliary: the version that mutation is known to have made, or 0
  overtaken, \* auxiliary: the table shows an answer to a request older than one answered
  lost       \* auxiliary: an edit replaced a version its operator had not seen

server == <<version, stamp>>
query == <<page, text, sent>>
list == <<loads, loading, error>>
table == <<shown, overtaken>>
form == <<editor, job, feedback, outcome>>
vars == <<at, server, query, timer, list, table, form, lost>>

-----------------------------------------------------------------------------
(* The pages.                                                                 *)
(*   filter     none, immediate, submitted (the text is asked for after 300   *)
(*              ms) or debounced (every request is sent after 250 ms)         *)
(*   rowsStay   the rows are shown while others are loaded                     *)
(*   actions    what rows and toolbar offer an operator who may manage         *)
(*   refresh    how the rows are read again after a mutation: awaited before   *)
(*              the operator is told, by a key the table watches, or silently  *)
(*              after the operator is told                                     *)
(*   versioned  an edit names the version it was made from                     *)

\* What the read-only tables of trade have in common: a pager and nothing else.
TradeTable ==
  [filter |-> "none", paged |-> TRUE, rowsStay |-> TRUE, actions |-> {},
   refresh |-> "awaited", versioned |-> FALSE]
AfterSalesPage == TradeTable
ShipmentsPage == TradeTable
PackagesPage == TradeTable
TokenBankPage == TradeTable

\* Refund and withdrawal reviews, each confirmed.
RequestPage == [TradeTable EXCEPT !.actions = {"confirm"}]
TradePages == {AfterSalesPage, ShipmentsPage, PackagesPage, TokenBankPage, RequestPage}

\* The rows of membership and customer tables are replaced while others are loaded.
EntitlementsPage == [TradeTable EXCEPT !.rowsStay = FALSE]
MembersPage == [EntitlementsPage EXCEPT !.filter = "submitted"]

\* Plans, package groups and packages; the confirmed action disables a row.
CatalogCrudPage ==
  [EntitlementsPage EXCEPT !.filter = "immediate", !.actions = {"create", "edit", "confirm"}]

\* The overviews ask once for what they count.
MembershipOverview == [EntitlementsPage EXCEPT !.paged = FALSE]
MembershipPages == {MembershipOverview, MembersPage, CatalogCrudPage, EntitlementsPage}

CustomerOverview == MembershipOverview
CustomerDirectory == MembersPage
CustomerPages == {CustomerOverview, CustomerDirectory}

\* The tables of marketing wait before every request.
OperationsTable == [EntitlementsPage EXCEPT !.filter = "debounced", !.refresh = "keyed"]
ReadOnlyTable == OperationsTable
MarketingOverview == MembershipOverview

\* The confirmed action deletes.  The switch of an offer is in OfferSwitch, its other
\* drawers are in CouponDesk.
MarketingCampaigns ==
  [OperationsTable EXCEPT !.actions = {"create", "edit", "confirm"}, !.versioned = TRUE]
MarketingOffers == MarketingCampaigns

MarketingStocks == [OperationsTable EXCEPT !.actions = {"create"}]
MarketingCodeBatches == MarketingStocks
MarketingDistributions == MarketingStocks
MarketingPages == {MarketingOverview, MarketingCampaigns, MarketingOffers, MarketingStocks,
                   MarketingCodeBatches, MarketingDistributions, ReadOnlyTable}

\* Roles, permissions and policies.
IamCatalogWorkspace ==
  [TradeTable EXCEPT !.paged = FALSE, !.rowsStay = FALSE, !.refresh = "silent",
                     !.actions = {"create", "edit", "confirm"}]

Pages == TradePages \cup MembershipPages \cup CustomerPages \cup MarketingPages \cup {IamCatalogWorkspace}

-----------------------------------------------------------------------------
(* The table.                                                                 *)

Query == [page |-> page, text |-> sent]

\* A list request: the query it is for, the version that was there when it was sent,
\* who waits for it, and whether a younger one has been answered.
Load(q, by) == [query |-> q, since |-> version, by |-> by, late |-> FALSE]

Blank == [query |-> [page |-> 0, text |-> NoText], version |-> 0]

Init ==
  /\ at \in Pages
  /\ version = 1
  /\ stamp = 1
  /\ page = 1
  /\ text = NoText
  /\ sent = NoText
  /\ timer = (at.filter = "debounced")
  /\ loads = IF at.filter = "debounced" THEN <<>> ELSE <<Load(Query, "table")>>
  /\ shown = Blank
  /\ loading = TRUE
  /\ error = FALSE
  /\ editor = NoEditor
  /\ job = NoJob
  /\ feedback = {}
  /\ outcome = 0
  /\ overtaken = FALSE
  /\ lost = FALSE

\* reload: the request of the rows, by the table or by a mutation that waits for it.
Reload(q, by) ==
  /\ loads' = Append(loads, Load(q, by))
  /\ loading' = TRUE
  /\ error' = FALSE

\* Mutant: the effect misses the text in its dependencies.
MissingDependency ==
  IF page' = page THEN UNCHANGED <<timer, list>>
  ELSE IF at.filter = "debounced"
  THEN timer' = TRUE /\ UNCHANGED list
  ELSE Reload([page |-> page', text |-> sent'], "table") /\ UNCHANGED timer

\* The effect of a table whose query is now another.
QueryChanged ==
  IF at.filter = "debounced"
  THEN timer' = TRUE /\ UNCHANGED list
  ELSE Reload([page |-> page', text |-> sent'], "table") /\ UNCHANGED timer

\* The bound on list requests.
Room == Len(loads) < MaxLoads

\* A drawer or dialog covers the page.
Uncovered == editor = NoEditor /\ Room

\* Mutant: the pager does not know the last page.
SetAnyPage ==
  /\ Uncovered
  /\ at.paged
  /\ ~loading
  /\ page' \in {page - 1, page + 1}
  /\ UNCHANGED <<text, sent>>
  /\ QueryChanged
  /\ UNCHANGED <<at, server, table, form, lost>>

\* The pager, which waits for the rows.
SetPage ==
  /\ Uncovered
  /\ at.paged
  /\ ~loading
  /\ page' \in 1 .. MaxPage \ {page}
  /\ UNCHANGED <<text, sent>>
  /\ QueryChanged
  /\ UNCHANGED <<at, server, table, form, lost>>

\* The search box goes back to the first page at once; its text is asked for after a
\* pause.
TypeToSubmit ==
  /\ Uncovered
  /\ at.filter = "submitted"
  /\ text' \in (Texts \cup {NoText}) \ {text}
  /\ page' = 1
  /\ UNCHANGED sent
  /\ timer' = TRUE
  /\ IF page = 1 THEN UNCHANGED list ELSE Reload([page |-> 1, text |-> sent], "table")
  /\ UNCHANGED <<at, server, table, form, lost>>

\* The status filter, and the search box whose every change restarts the pause before
\* the request.
Type ==
  /\ Uncovered
  /\ at.filter \in {"immediate", "debounced"}
  /\ text' \in (Texts \cup {NoText}) \ {text}
  /\ sent' = text'
  /\ page' = 1
  /\ QueryChanged
  /\ UNCHANGED <<at, server, table, form, lost>>

\* The pause after the last change of the text is over.
SubmitText ==
  /\ timer
  /\ Room
  /\ at.filter = "submitted"
  /\ timer' = FALSE
  /\ sent' = text
  /\ IF sent = text THEN UNCHANGED list ELSE Reload([page |-> page, text |-> text], "table")
  /\ UNCHANGED <<at, server, page, text, table, form, lost>>

\* The pause after the last change of the query is over.
SendRequest ==
  /\ timer
  /\ Room
  /\ at.filter = "debounced"
  /\ timer' = FALSE
  /\ Reload(Query, "table")
  /\ UNCHANGED <<at, server, query, table, form, lost>>

\* Request i is over; the ones sent before it are late from now on.
Over(i) ==
  loads' = RemoveAt([j \in DOMAIN loads |-> [loads[j] EXCEPT !.late = @ \/ j < i]], i)

\* setResult with the rows request i was answered with.
ShowRows(i) ==
  /\ \E v \in loads[i].since .. version : shown' = [query |-> loads[i].query, version |-> v]
  /\ overtaken' = loads[i].late

\* An answer to the table: whichever comes last stays.
RowsArrive(i) ==
  /\ loads[i].by = "table"
  /\ Over(i)
  /\ ShowRows(i)
  /\ loading' = FALSE
  /\ UNCHANGED <<at, server, query, timer, error, form, lost>>

\* Mutant: an IAM catalog stays loading when its first request fails.
RowsFailLoading(i) ==
  /\ loads[i].by = "table"
  /\ Over(i)
  /\ loading' = (at.refresh = "silent")
  /\ error' = TRUE
  /\ UNCHANGED <<at, server, query, timer, table, form, lost>>

\* The table's request fails.  An IAM catalog has one place for the failures to load
\* and to save.
RowsFail(i) ==
  /\ loads[i].by = "table"
  /\ Over(i)
  /\ loading' = FALSE
  /\ error' = TRUE
  /\ feedback' = IF at.refresh = "silent" THEN feedback \ {"error"} ELSE feedback
  /\ UNCHANGED <<at, server, query, timer, table, editor, job, outcome, lost>>

-----------------------------------------------------------------------------
(* Drawers and dialogs.                                                       *)

\* The drawers of marketing and IAM clear the notices when they open, those of trade and
\* membership do not, and neither does a dialog.
Clears(kind) == at.refresh \in {"keyed", "silent"} /\ kind # "confirm"

\* The drafts that name the version they were made from.
Carries(kind) == at.versioned /\ kind = "edit"

\* begin, openEditor, setReviewTarget, setDisableTarget, setDeleteTarget: an edit starts
\* from the row that is shown, with its version.
Open(kind) ==
  /\ editor = NoEditor
  /\ job = NoJob
  /\ kind \in at.actions
  /\ kind = "create" \/ (shown # Blank /\ (at.rowsStay \/ ~loading))
  /\ editor' = [kind |-> kind, base |-> IF Carries(kind) THEN shown.version ELSE 0]
  /\ IF Clears(kind)
     THEN /\ feedback' = {}
          /\ outcome' = 0
          /\ error' = IF at.refresh = "silent" THEN FALSE ELSE error
     ELSE UNCHANGED <<feedback, outcome, error>>
  /\ UNCHANGED <<at, server, query, timer, loads, loading, table, job, lost>>

\* A drawer or dialog waits for its mutation, except the drawer of an IAM catalog:
\* resetEditor closes it and clears the notices whatever is pending.
Cancel ==
  /\ editor # NoEditor
  /\ editor' = NoEditor
  /\ IF at.refresh = "silent" /\ editor.kind # "confirm"
     THEN feedback' = {} /\ outcome' = 0 /\ error' = FALSE
     ELSE job = NoJob /\ UNCHANGED <<feedback, outcome, error>>
  /\ UNCHANGED <<at, server, query, timer, loads, loading, table, job, lost>>

\* Marketing forms check dates, amounts, quantities and identifiers themselves.
Reject ==
  /\ editor # NoEditor
  /\ job = NoJob
  /\ at.refresh = "keyed"
  /\ editor.kind # "confirm"
  /\ feedback' = {"error"}
  /\ outcome' = 0
  /\ UNCHANGED <<at, server, query, timer, list, table, editor, job, lost>>

\* Mutant: the edit names the version of the row in the table by now.
SubmitShown ==
  /\ editor # NoEditor
  /\ job = NoJob
  /\ Room
  /\ job' = [kind |-> editor.kind, base |-> shown.version, made |-> 0, stage |-> "sent"]
  /\ feedback' = {}
  /\ outcome' = 0
  /\ UNCHANGED <<at, server, query, timer, list, table, editor, lost>>

\* submit, executeReview, disable, save and remove, up to the call of the service.
Submit ==
  /\ editor # NoEditor
  /\ job = NoJob
  /\ Room
  /\ job' = [kind |-> editor.kind, base |-> editor.base, made |-> 0, stage |-> "sent"]
  /\ feedback' = {}
  /\ outcome' = 0
  /\ error' = IF at.refresh = "silent" THEN FALSE ELSE error
  /\ UNCHANGED <<at, server, query, timer, loads, loading, table, editor, lost>>

\* The service makes the change; it refuses an edit that names an old version.
Store ==
  /\ job # NoJob
  /\ job.stage = "sent"
  /\ job.made = 0
  /\ version < MaxVersion
  /\ Carries(job.kind) => job.base >= stamp
  /\ version' = version + 1
  /\ stamp' = IF Carries(job.kind) THEN version' ELSE stamp
  /\ job' = [job EXCEPT !.made = version']
  /\ lost' = (lost \/ (Carries(job.kind) /\ editor.base < stamp))
  /\ UNCHANGED <<at, query, timer, list, table, editor, feedback, outcome>>

\* Another operator changes the entry.
OthersChange ==
  /\ version < MaxVersion
  /\ version' = version + 1
  /\ stamp' = IF at.versioned THEN version' ELSE stamp
  /\ UNCHANGED <<at, query, timer, list, table, form, lost>>

Succeed ==
  /\ feedback' = {"success"}
  /\ outcome' = job.made

\* The call is answered on a page that tells the operator when the rows are read again.
AcceptedAwaited ==
  /\ at.refresh = "awaited"
  /\ Reload(Query, "job")
  /\ job' = [job EXCEPT !.stage = "reload"]
  /\ UNCHANGED <<timer, editor, feedback, outcome>>

\* Mutant: the refresh key stays the same.
AcceptedUnkeyed ==
  /\ at.refresh = "keyed"
  /\ Succeed
  /\ editor' = NoEditor
  /\ job' = NoJob
  /\ UNCHANGED <<timer, list>>

\* The call is answered on a marketing page: the drawer closes, the key changes.
AcceptedKeyed ==
  /\ at.refresh = "keyed"
  /\ Succeed
  /\ editor' = NoEditor
  /\ job' = NoJob
  /\ timer' = TRUE
  /\ UNCHANGED list

\* The call is answered on an IAM catalog: told first, then refreshed; a dialog stays.
AcceptedSilent ==
  /\ at.refresh = "silent"
  /\ Succeed
  /\ editor' = IF job.kind = "confirm" THEN editor ELSE NoEditor
  /\ job' = [job EXCEPT !.stage = "reload"]
  /\ loads' = Append(loads, Load(Query, "job"))
  /\ UNCHANGED <<timer, loading, error>>

Accepted ==
  /\ job # NoJob
  /\ job.stage = "sent"
  /\ job.made # 0
  /\ AcceptedAwaited \/ AcceptedKeyed \/ AcceptedSilent
  /\ UNCHANGED <<at, server, query, table, lost>>

\* The call fails: refused, not delivered, or its answer got lost, so that the page does
\* not know what was made.
Failed ==
  /\ job # NoJob
  /\ job.stage = "sent"
  /\ job' = NoJob
  /\ feedback' = {"error"}
  /\ outcome' = 0
  /\ error' = IF at.refresh = "silent" THEN FALSE ELSE error
  /\ UNCHANGED <<at, server, query, timer, loads, loading, table, editor, lost>>

\* The rows a mutation asked for arrive.
Refreshed(i) ==
  /\ loads[i].by = "job"
  /\ Over(i)
  /\ ShowRows(i)
  /\ job' = NoJob
  /\ IF at.refresh = "awaited"
     THEN Succeed /\ loading' = FALSE /\ editor' = NoEditor
     ELSE /\ editor' = IF job.kind = "confirm" THEN NoEditor ELSE editor
          /\ UNCHANGED <<feedback, outcome, loading>>
  /\ UNCHANGED <<at, server, query, timer, error, lost>>

\* The rows a mutation asked for cannot be read.
NotRefreshed(i) ==
  /\ loads[i].by = "job"
  /\ Over(i)
  /\ job' = NoJob
  /\ outcome' = job.made
  /\ IF at.refresh = "awaited"
     THEN feedback' = {"error"} /\ loading' = FALSE /\ error' = TRUE
     ELSE feedback' = feedback \cup {"error"} /\ error' = FALSE /\ UNCHANGED loading
  /\ UNCHANGED <<at, server, query, timer, table, editor, lost>>

-----------------------------------------------------------------------------
ListStep(i) == RowsArrive(i) \/ RowsFail(i)
RefreshStep(i) == Refreshed(i) \/ NotRefreshed(i)

Next ==
  \/ SetPage \/ TypeToSubmit \/ Type
  \/ SubmitText \/ SendRequest
  \/ \E i \in DOMAIN loads : ListStep(i) \/ RefreshStep(i)
  \/ \E kind \in {"create", "edit", "confirm"} : Open(kind)
  \/ Cancel \/ Reject \/ Submit
  \/ Store \/ Accepted \/ Failed
  \/ OthersChange

Spec == Init /\ [][Next]_vars

\* Timers end, and each request is answered or fails when it is the oldest at the latest;
\* operators and the service need not act.
Fairness ==
  /\ WF_vars(SubmitText \/ SendRequest)
  /\ WF_vars(loads # <<>> /\ (ListStep(1) \/ RefreshStep(1)))
  /\ WF_vars(Accepted \/ Failed)

FairSpec == Spec /\ Fairness

-----------------------------------------------------------------------------
(* Properties.                                                                *)

Queries == [page : 1 .. MaxPage, text : Texts \cup {NoText}]

\* The type invariant.
TypeOK ==
  /\ at \in Pages
  /\ version \in 1 .. MaxVersion /\ stamp \in 1 .. version
  /\ page \in 1 .. MaxPage /\ {text, sent} \subseteq Texts \cup {NoText}
  /\ {timer, loading, error, overtaken, lost} \subseteq BOOLEAN
  /\ loads \in Seq([query : Queries, since : 1 .. version, by : {"table", "job"}, late : BOOLEAN])
  /\ shown = Blank \/ shown \in [query : Queries, version : 1 .. version]
  /\ editor = NoEditor \/ editor \in [kind : at.actions, base : 0 .. version]
  /\ \/ job = NoJob
     \/ job \in [kind : at.actions, base : 0 .. version, made : 0 .. version,
                 stage : {"sent", "reload"}]
  /\ feedback \subseteq {"error", "success"}
  /\ outcome \in 0 .. version

\* Nothing is under way any more: the table has asked for what the boxes say, has its
\* answers and no failure to show.
Settled == loads = <<>> /\ ~timer /\ ~error

\* useTradePage, useMembershipPage, useCustomerDirectory, usePromotionPage: a settled
\* table shows the rows of the page and text the operator sees in the boxes, unless the
\* answers arrived in another order than the requests were sent, which no page guards
\* against.
RowsAreOfQuery ==
  at.paged /\ Settled /\ ~overtaken => shown.query = [page |-> page, text |-> text]

\* executeReview, submit, disable, save, remove: the operator is told of success only when
\* the service has made the change, and unless an answer was overtaken the rows then show
\* it: at once where the rows are awaited, otherwise when the table has settled.
SuccessIsShown ==
  "success" \in feedback =>
    /\ outcome # 0
    /\ (at.refresh = "awaited" \/ (Settled /\ feedback = {"success"} /\ job = NoJob)) /\ ~overtaken
         => shown.version >= outcome

\* begin and updateCampaign, updateOffer: no edit made on a marketing page replaces a
\* change its operator had not seen when the drawer opened, whatever the table behind the
\* drawer has loaded since.
NoLostEdit == ~lost

\* finally: whatever fails or is overtaken, no page stays loading and no button stays
\* disabled for ever.
WaitsEnd == (loading ~> ~loading) /\ (job # NoJob ~> job = NoJob)

\* As the message of the reviews in trade says ("The action failed and no status was
\* changed. Try again."): a failure that is shown there means that nothing was changed, as
\* far as the service has told the page; a lost answer is left out.
FailureMeansUnchanged == at = RequestPage /\ "error" \in feedback => outcome = 0
=============================================================================
