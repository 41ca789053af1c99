---------------------------- MODULE WorkspaceProofs ----------------------------
(***************************************************************************)
(* The safety properties of Workspace, for every page and every number of  *)
(* texts, rows, versions and requests.                                     *)
(***************************************************************************)
EXTENDS Workspace, RequestSequences

-----------------------------------------------------------------------------
(* The inductive invariant.                                                   *)

LoadRecords == [query : Queries, since : Nat \ {0}, by : {"table", "job"}, late : BOOLEAN]

ServerTypes == version \in 1 .. MaxVersion /\ stamp \in 1 .. version
QueryTypes ==
  /\ page \in 1 .. MaxPage /\ text \in Texts \cup {NoText} /\ sent \in Texts \cup {NoText}
  /\ timer \in BOOLEAN
ListTypes ==
  /\ loads \in Seq(LoadRecords) /\ \A i \in DOMAIN loads : loads[i].since <= version
  /\ loading \in BOOLEAN /\ error \in BOOLEAN
TableTypes ==
  /\ shown = Blank \/ shown \in [query : Queries, version : 1 .. version]
  /\ overtaken \in BOOLEAN
FormTypes ==
  /\ editor = NoEditor \/ editor \in [kind : at.actions, base : 0 .. version]
  /\ \/ job = NoJob
     \/ job \in [kind : at.actions, base : 0 .. version, made : 0 .. version,
                 stage : {"sent", "reload"}]
  /\ feedback \subseteq {"error", "success"}
  /\ outcome \in 0 .. version

Types == at \in Pages /\ ServerTypes /\ QueryTypes /\ ListTypes /\ TableTypes /\ FormTypes

\* Of two requests the one sent first is late first, and saw no younger version.
InOrder ==
  \A j, k \in DOMAIN loads :
    j < k => (loads[k].late => loads[j].late) /\ loads[j].since <= loads[k].since

\* At most one request reads the rows again for the mutation, which is then made.
JobOk ==
  /\ job # NoJob /\ job.stage = "reload" => job.made # 0 /\ at.refresh # "keyed"
  /\ \A i \in DOMAIN loads :
       loads[i].by = "job" =>
         /\ job # NoJob /\ job.stage = "reload" /\ loads[i].since >= job.made
         /\ \A j \in DOMAIN loads : loads[j].by = "job" => i = j

\* While a page waits for the service its drawer stays as it was submitted.
EditorOk ==
  job # NoJob /\ job.stage = "sent" /\ at.refresh # "silent" =>
    editor # NoEditor /\ editor.base = job.base /\ editor.kind = job.kind

\* A request that no younger one has overtaken is under way.
Awaited == \E i \in DOMAIN loads : ~loads[i].late

\* A search box or pager whose change is not asked for yet.
Pausing == timer /\ at.filter = "debounced"

\* What the table shows, or is going to show, is what is asked for.
QueryOk ==
  /\ text = sent \/ (timer /\ at.filter = "submitted")
  /\ at.refresh # "silent" /\ ~Pausing =>
       /\ \A i \in DOMAIN loads : i = Len(loads) /\ ~loads[i].late => loads[i].query = Query
       /\ Awaited \/ error \/ overtaken \/ shown.query = Query

\* Rows that were read after the change, unless overtaken.
Fresh == overtaken \/ shown.version >= outcome

\* Success is told of a change that is made.
ToldOk ==
  /\ outcome # 0
  /\ job # NoJob => at.refresh = "silent" /\ job.stage = "reload" /\ outcome = job.made

\* The rows are read again before success is told, or a failure to read them shows.
RereadOk ==
  /\ \A i \in DOMAIN loads : ~loads[i].late => loads[i].since >= outcome
  /\ Fresh \/ (at.refresh = "silent" /\ (error \/ "error" \in feedback))

\* The rows are read again when the refresh key has changed and the pause is over.
KeyedOk ==
  /\ \A i \in DOMAIN loads : i = Len(loads) /\ ~loads[i].late => loads[i].since >= outcome
  /\ Awaited \/ error \/ Fresh

SuccessOk ==
  "success" \in feedback =>
    /\ ToldOk
    /\ job = NoJob /\ at.refresh # "keyed" => RereadOk
    /\ at.refresh = "keyed" /\ ~timer => KeyedOk

Inv == Types /\ InOrder /\ JobOk /\ EditorOk /\ QueryOk /\ SuccessOk /\ lost = FALSE

\* What the pages have in common.
PageOk(p) ==
  /\ p \in [filter : {"none", "immediate", "submitted", "debounced"}, paged : BOOLEAN,
            rowsStay : BOOLEAN, actions : SUBSET {"create", "edit", "confirm"},
            refresh : {"awaited", "keyed", "silent"}, versioned : BOOLEAN]
  /\ (p.refresh = "keyed") = (p.filter = "debounced")
  /\ p.refresh = "silent" => p.filter = "none" /\ p.paged = FALSE
  /\ p.versioned = TRUE => p.refresh = "keyed"

LEMMA PageFacts == ASSUME NEW p \in Pages PROVE PageOk(p)
<1>1. PageOk(TradeTable) /\ TradeTable.filter = "none" /\ TradeTable.refresh = "awaited"
        /\ TradeTable.versioned = FALSE
  BY DEF PageOk, TradeTable
<1>2. \A q \in TradePages : PageOk(q)
  BY <1>1 DEF PageOk, TradePages, AfterSalesPage, ShipmentsPage, PackagesPage, TokenBankPage,
    RequestPage
<1>3. PageOk(EntitlementsPage) /\ EntitlementsPage.filter = "none"
        /\ EntitlementsPage.refresh = "awaited" /\ EntitlementsPage.versioned = FALSE
  BY <1>1 DEF PageOk, EntitlementsPage
<1>4. \A q \in MembershipPages \cup CustomerPages : PageOk(q)
  <2>1. PageOk(MembersPage)
    BY <1>3 DEF PageOk, MembersPage
  <2>2. PageOk(CatalogCrudPage)
    BY <1>3 DEF PageOk, CatalogCrudPage
  <2>3. PageOk(MembershipOverview)
    BY <1>3 DEF PageOk, MembershipOverview
  <2> QED
    BY <1>3, <2>1, <2>2, <2>3 DEF MembershipPages, CustomerPages, CustomerOverview,
      CustomerDirectory
<1>5. PageOk(OperationsTable) /\ OperationsTable.filter = "debounced"
        /\ OperationsTable.refresh = "keyed" /\ OperationsTable.versioned = FALSE
  BY <1>3 DEF PageOk, OperationsTable
<1>6. \A q \in MarketingPages : PageOk(q)
  <2>1. PageOk(MarketingCampaigns)
    BY <1>5 DEF PageOk, MarketingCampaigns
  <2>2. PageOk(MarketingStocks)
    BY <1>5 DEF PageOk, MarketingStocks
  <2>3. PageOk(MembershipOverview)
    BY <1>3 DEF PageOk, MembershipOverview
  <2> QED
    BY <1>5, <2>1, <2>2, <2>3 DEF MarketingPages, MarketingOverview, MarketingOffers,
      MarketingCodeBatches, MarketingDistributions, ReadOnlyTable
<1>7. PageOk(IamCatalogWorkspace)
  BY <1>1 DEF PageOk, IamCatalogWorkspace
<1> QED
  BY <1>2, <1>4, <1>6, <1>7 DEF Pages

-----------------------------------------------------------------------------
(* Requests that are sent and requests that end.                              *)

\* A request that ends leaves the others as they were, those sent before it late.
LEMMA LoadOver ==
  ASSUME loads \in Seq(LoadRecords), NEW i \in DOMAIN loads, Over(i)
  PROVE  /\ loads' \in Seq(LoadRecords) /\ Len(loads') = Len(loads) - 1
         /\ \A j \in DOMAIN loads' :
              /\ Was(i, j) \in DOMAIN loads \ {i}
              /\ loads'[j].query = loads[Was(i, j)].query /\ loads'[j].by = loads[Was(i, j)].by
              /\ loads'[j].since = loads[Was(i, j)].since
              /\ loads'[j].late = (loads[Was(i, j)].late \/ Was(i, j) < i)
<1>0. PICK s : s = [j \in DOMAIN loads |-> [loads[j] EXCEPT !.late = @ \/ j < i]]
  OBVIOUS
<1>1. \A j \in DOMAIN loads : loads[j] \in LoadRecords
  OBVIOUS
<1>2. \A j \in DOMAIN loads :
        /\ s[j] \in LoadRecords
        /\ s[j].query = loads[j].query /\ s[j].by = loads[j].by /\ s[j].since = loads[j].since
        /\ s[j].late = (loads[j].late \/ j < i)
  BY <1>0, <1>1 DEF LoadRecords
<1>3. s \in Seq(LoadRecords) /\ DOMAIN s = DOMAIN loads /\ Len(s) = Len(loads)
  <2>1. DOMAIN loads = 1 .. Len(loads) /\ Len(loads) \in Nat
    OBVIOUS
  <2>2. s \in [1 .. Len(loads) -> LoadRecords]
    BY <1>0, <1>2, <2>1
  <2> QED
    BY <1>0, <2>1, <2>2
<1>4. loads' = Without(s, i)
  BY <1>0 DEF Over, RemoveAt, Without
<1>5. s \in Seq(LoadRecords) /\ i \in DOMAIN s
  BY <1>3
<1>6. /\ loads' \in Seq(LoadRecords) /\ Len(loads') = Len(s) - 1
      /\ \A j \in DOMAIN loads' : Was(i, j) \in DOMAIN s \ {i} /\ loads'[j] = s[Was(i, j)]
  <2>1. Without(s, i) \in Seq(LoadRecords) /\ Len(Without(s, i)) = Len(s) - 1
    BY <1>5, Removed
  <2>2. \A j \in DOMAIN Without(s, i) :
          Was(i, j) \in DOMAIN s \ {i} /\ Without(s, i)[j] = s[Was(i, j)]
    BY <1>5, Removed
  <2> QED
    BY <1>4, <2>1, <2>2
<1> QED
  BY <1>2, <1>3, <1>6

\* The youngest request that goes on was the youngest, unless that is over, when all others
\* are late; the ones that are not late were sent after the one that is over.
LEMMA YoungestLoad ==
  ASSUME loads \in Seq(LoadRecords), InOrder, NEW i \in DOMAIN loads, Over(i)
  PROVE  /\ InOrder'
         /\ Awaited => Awaited' \/ (i = Len(loads) /\ ~loads[i].late)
         /\ \A j \in DOMAIN loads' : j = Len(loads') /\ ~loads'[j].late =>
              \E k \in DOMAIN loads :
                /\ k = Len(loads) /\ ~loads[k].late
                /\ loads'[j].query = loads[k].query /\ loads'[j].since = loads[k].since
         /\ \A j \in DOMAIN loads' : ~loads'[j].late =>
              \E k \in DOMAIN loads :
                ~loads[k].late /\ loads'[j].since = loads[k].since /\ loads[i].since <= loads[k].since
<1>1. /\ loads \in Seq(LoadRecords) /\ loads' \in Seq(LoadRecords) /\ Len(loads') = Len(loads) - 1
      /\ \A j \in DOMAIN loads' :
              /\ Was(i, j) \in DOMAIN loads \ {i}
              /\ loads'[j].query = loads[Was(i, j)].query /\ loads'[j].by = loads[Was(i, j)].by
              /\ loads'[j].since = loads[Was(i, j)].since
              /\ loads'[j].late = (loads[Was(i, j)].late \/ Was(i, j) < i)
  BY LoadOver
<1>2. /\ Len(loads) \in Nat /\ DOMAIN loads = 1 .. Len(loads) /\ DOMAIN loads' = 1 .. Len(loads) - 1
      /\ i \in 1 .. Len(loads)
  BY <1>1
<1>3. ASSUME NEW j \in DOMAIN loads', ~loads'[j].late
      PROVE  /\ Was(i, j) \in DOMAIN loads /\ ~loads[Was(i, j)].late /\ i < Was(i, j)
             /\ j = Len(loads') => Was(i, j) = Len(loads)
  <2>1. loads'[j].late = (loads[Was(i, j)].late \/ Was(i, j) < i) /\ Was(i, j) \in DOMAIN loads \ {i}
    BY <1>1
  <2>2. ~loads[Was(i, j)].late /\ ~(Was(i, j) < i)
    BY <1>3, <2>1
  <2>3. i < Was(i, j) /\ j = Len(loads') => Was(i, j) = Len(loads)
    BY <1>1, <1>2, <2>1, <2>2 DEF Was
  <2>4. i < Was(i, j)
    BY <1>2, <2>1, <2>2
  <2> QED
    BY <2>1, <2>2, <2>3, <2>4
<1>4. ASSUME NEW j \in DOMAIN loads', NEW k \in DOMAIN loads', j < k
      PROVE  /\ loads'[k].late => loads'[j].late
             /\ loads'[j].since <= loads'[k].since
  <2>1. Was(i, j) < Was(i, k) /\ Was(i, j) \in DOMAIN loads /\ Was(i, k) \in DOMAIN loads
    BY <1>1, <1>2, <1>4 DEF Was
  <2>2. /\ loads[Was(i, k)].late => loads[Was(i, j)].late
        /\ loads[Was(i, j)].since <= loads[Was(i, k)].since
    BY <2>1 DEF InOrder
  <2>3. Was(i, k) < i => Was(i, j) < i
    BY <1>2, <2>1
  <2> QED
    BY <1>1, <1>4, <2>2, <2>3
<1>5. ASSUME Awaited PROVE Awaited' \/ (i = Len(loads) /\ ~loads[i].late)
  <2>1. PICK k \in DOMAIN loads : ~loads[k].late
    BY <1>5 DEF Awaited
  <2>2. PICK m \in Nat : m = Len(loads)
    BY <1>2
  <2>3. m \in DOMAIN loads /\ ~loads[m].late
    BY <1>2, <2>1, <2>2 DEF InOrder
  <2>4. CASE i # m
    <3>1. m - 1 \in DOMAIN loads' /\ ~(m - 1 < i) /\ m - 1 + 1 = m
      BY <1>2, <2>2, <2>4
    <3>2. Was(i, m - 1) = m
      BY <3>1 DEF Was
    <3>3. loads'[m - 1].late = (loads[m].late \/ m < i) /\ ~(m < i)
      BY <1>1, <1>2, <2>2, <3>1, <3>2
    <3> QED
      BY <2>3, <3>1, <3>3 DEF Awaited
  <2> QED
    BY <2>2, <2>3, <2>4
<1>6. InOrder'
  BY <1>4 DEF InOrder
<1>7. ASSUME NEW j \in DOMAIN loads', ~loads'[j].late
      PROVE  \E k \in DOMAIN loads :
               ~loads[k].late /\ loads'[j].since = loads[k].since /\ loads[i].since <= loads[k].since
  <2>1. loads[i].since <= loads[Was(i, j)].since
    BY <1>3, <1>7 DEF InOrder
  <2> QED
    BY <1>1, <1>3, <1>7, <2>1
<1>8. ASSUME NEW j \in DOMAIN loads', j = Len(loads'), ~loads'[j].late
      PROVE  \E k \in DOMAIN loads :
                /\ k = Len(loads) /\ ~loads[k].late
                /\ loads'[j].query = loads[k].query /\ loads'[j].since = loads[k].since
  BY <1>1, <1>3, <1>8
<1> QED
  BY <1>5, <1>6, <1>7, <1>8

\* A request that is sent is the youngest, and sees the version that is there.
LEMMA LoadSent ==
  ASSUME ServerTypes, ListTypes, InOrder, NEW q \in Queries, NEW by1 \in {"table", "job"},
         loads' = Append(loads, Load(q, by1))
  PROVE  /\ loads' \in Seq(LoadRecords) /\ \A i \in DOMAIN loads' : loads'[i].since <= version
         /\ InOrder' /\ Awaited'
         /\ \A j \in DOMAIN loads' :
              \/ j \in DOMAIN loads /\ j < Len(loads') /\ loads'[j] = loads[j]
              \/ /\ j = Len(loads') /\ loads'[j].query = q /\ loads'[j].by = by1
                 /\ loads'[j].since = version /\ ~loads'[j].late
<1>1. PICK r : r = [query |-> q, since |-> version, by |-> by1, late |-> FALSE]
  OBVIOUS
<1>2. r \in LoadRecords /\ r.query = q /\ r.by = by1 /\ r.since = version /\ ~r.late
  BY <1>1 DEF ServerTypes, LoadRecords
<1>3. loads \in Seq(LoadRecords) /\ loads' = Append(loads, r)
  BY <1>1 DEF ListTypes, Load
<1>4. /\ Append(loads, r) \in Seq(LoadRecords) /\ Len(Append(loads, r)) = Len(loads) + 1
      /\ \A j \in DOMAIN Append(loads, r) :
           \/ j \in DOMAIN loads /\ j < Len(loads) + 1 /\ Append(loads, r)[j] = loads[j]
           \/ j = Len(loads) + 1 /\ Append(loads, r)[j] = r
  BY <1>2, <1>3, Appended
<1>5. /\ Len(loads) \in Nat /\ DOMAIN loads = 1 .. Len(loads) /\ DOMAIN loads' = 1 .. Len(loads) + 1
      /\ Len(loads') = Len(loads) + 1
  BY <1>3, <1>4
<1>6. \A j \in DOMAIN loads' :
        \/ j \in DOMAIN loads /\ j < Len(loads') /\ loads'[j] = loads[j]
        \/ j = Len(loads') /\ loads'[j] = r
  BY <1>3, <1>4, <1>5
<1>7. \A j \in DOMAIN loads : loads[j].since <= version
  BY DEF ListTypes
<1>8. Awaited'
  <2>1. Len(loads) + 1 \in DOMAIN loads' /\ ~(Len(loads) + 1 \in DOMAIN loads)
    BY <1>5
  <2>2. loads'[Len(loads) + 1] = r
    BY <1>6, <2>1
  <2> QED
    BY <1>2, <2>1, <2>2 DEF Awaited
<1>9. ASSUME NEW j \in DOMAIN loads', NEW k \in DOMAIN loads', j < k
      PROVE  (loads'[k].late => loads'[j].late) /\ loads'[j].since <= loads'[k].since
  <2>1. CASE k \in DOMAIN loads /\ loads'[k] = loads[k]
    <3>1. j \in DOMAIN loads /\ loads'[j] = loads[j]
      BY <1>5, <1>6, <1>9, <2>1
    <3> QED
      BY <1>9, <2>1, <3>1 DEF InOrder
  <2>2. CASE k = Len(loads') /\ loads'[k] = r
    <3>1. j \in DOMAIN loads /\ loads'[j] = loads[j]
      BY <1>5, <1>6, <1>9, <2>2
    <3> QED
      BY <1>2, <1>7, <2>2, <3>1
  <2> QED
    BY <1>6, <2>1, <2>2
<1>10. InOrder'
  BY <1>9 DEF InOrder
<1>11. \A j \in DOMAIN loads' : loads'[j].since <= version
  <2>1. version <= version
    BY DEF ServerTypes
  <2> QED
    BY <1>2, <1>6, <1>7, <2>1
<1>12. loads' \in Seq(LoadRecords)
  BY <1>3, <1>4
<1> QED
  BY <1>2, <1>6, <1>8, <1>10, <1>11, <1>12

\* The request of a mutation is the only one, and once it ends there is none.
LEMMA JobOver ==
  ASSUME loads \in Seq(LoadRecords), JobOk, NEW i \in DOMAIN loads, Over(i)
  PROVE  \A j \in DOMAIN loads' :
           loads'[j].by = "job" =>
             /\ loads[i].by # "job" /\ job # NoJob /\ job.stage = "reload"
             /\ loads'[j].since >= job.made
             /\ \A k \in DOMAIN loads' : loads'[k].by = "job" => j = k
<1>1. /\ Len(loads') = Len(loads) - 1
      /\ \A j \in DOMAIN loads' :
              /\ Was(i, j) \in DOMAIN loads \ {i}
              /\ loads'[j].by = loads[Was(i, j)].by /\ loads'[j].since = loads[Was(i, j)].since
      /\ loads' \in Seq(LoadRecords)
  BY LoadOver
<1>2. i \in Nat /\ DOMAIN loads' \subseteq Nat
  BY <1>1
<1>3. \A j, k \in DOMAIN loads' : Was(i, j) = Was(i, k) => j = k
  BY <1>2 DEF Was
<1>4. \A j, k \in DOMAIN loads : loads[j].by = "job" /\ loads[k].by = "job" => j = k
  BY DEF JobOk
<1>5. \A j \in DOMAIN loads' : loads'[j].by = "job" => loads[i].by # "job"
  BY <1>1, <1>4
<1>6. \A j, k \in DOMAIN loads' : loads'[j].by = "job" /\ loads'[k].by = "job" => j = k
  BY <1>1, <1>3, <1>4
<1>7. \A j \in DOMAIN loads' :
        loads'[j].by = "job" =>
          job # NoJob /\ job.stage = "reload" /\ loads'[j].since >= job.made
  BY <1>1 DEF JobOk
<1> QED
  BY <1>5, <1>6, <1>7

-----------------------------------------------------------------------------
(* The initial states, and what the invariant implies.                        *)

LEMMA InitInv == Init => Inv
<1> SUFFICES ASSUME Init PROVE Inv
  OBVIOUS
<1>1. PageOk(at) /\ at \in Pages
  BY PageFacts DEF Init
<1>2. ServerTypes /\ QueryTypes /\ TableTypes /\ FormTypes
  <2>1. (at.filter = "debounced") \in BOOLEAN
    OBVIOUS
  <2>2. timer \in BOOLEAN
    BY <2>1 DEF Init
  <2>3. QueryTypes
    BY <2>2, MaxAssumption DEF Init, QueryTypes
  <2>4. ServerTypes
    BY MaxAssumption DEF Init, ServerTypes
  <2>5. TableTypes
    BY DEF Init, TableTypes
  <2>6. outcome \in 0 .. version
    BY DEF Init
  <2>7. FormTypes
    BY <2>6 DEF Init, FormTypes
  <2> QED
    BY <2>3, <2>4, <2>5, <2>7
<1>3. Query \in Queries
  BY MaxAssumption DEF Init, Query, Queries
<1>4. PICK r : r = [query |-> Query, since |-> 1, by |-> "table", late |-> FALSE]
  OBVIOUS
<1>5. r \in LoadRecords /\ r.query = Query /\ r.by = "table" /\ r.since = 1 /\ ~r.late
  BY <1>3, <1>4 DEF LoadRecords
<1>6. loads = IF at.filter = "debounced" THEN <<>> ELSE <<r>>
  BY <1>4 DEF Init, Load
<1>7. loads \in Seq(LoadRecords) /\ \A i \in DOMAIN loads : i = 1 /\ loads[i] = r
  BY <1>5, <1>6
<1>8. ListTypes
  <2>1. version = 1 /\ loading \in BOOLEAN /\ error \in BOOLEAN
    BY DEF Init
  <2>2. \A i \in DOMAIN loads : loads[i].since <= version
    BY <1>5, <1>7, <2>1
  <2> QED
    BY <1>7, <2>1, <2>2 DEF ListTypes
<1>9. InOrder /\ JobOk
  BY <1>5, <1>7 DEF Init, InOrder, JobOk
<1>10. at.filter # "debounced" => Awaited
  BY <1>5, <1>6, <1>7 DEF Awaited
<1>11. QueryOk
  <2>1. text = sent
    BY DEF Init
  <2>2. at.filter = "debounced" => Pausing
    BY DEF Init, Pausing
  <2> QED
    BY <1>5, <1>7, <1>10, <2>1, <2>2 DEF QueryOk
<1> QED
  BY <1>1, <1>2, <1>8, <1>9, <1>11 DEF Init, Inv, Types, EditorOk, SuccessOk

LEMMA InvProperties == Inv => TypeOK /\ RowsAreOfQuery /\ SuccessIsShown /\ NoLostEdit
<1> SUFFICES ASSUME Inv PROVE TypeOK /\ RowsAreOfQuery /\ SuccessIsShown /\ NoLostEdit
  OBVIOUS
<1>1. PageOk(at)
  BY PageFacts DEF Inv, Types
<1>2. TypeOK
  <2> DEFINE S == [query : Queries, since : 1 .. version, by : {"table", "job"}, late : BOOLEAN]
  <2>1. loads \in Seq(S)
    <3>1. loads \in Seq(LoadRecords) /\ \A i \in DOMAIN loads : loads[i].since <= version
      BY DEF Inv, Types, ListTypes
    <3>2. version \in Nat
      BY DEF Inv, Types, ServerTypes
    <3>3. ASSUME NEW i \in DOMAIN loads PROVE loads[i] \in S
      <4>1. loads[i] \in LoadRecords /\ loads[i].since <= version
        BY <3>1
      <4> QED
        BY <3>2, <4>1 DEF LoadRecords
    <3>4. DOMAIN loads = 1 .. Len(loads) /\ Len(loads) \in Nat /\ loads = [i \in DOMAIN loads |-> loads[i]]
      BY <3>1
    <3> HIDE DEF S
    <3>5. loads \in [1 .. Len(loads) -> S]
      BY <3>3, <3>4
    <3> QED
      BY <3>4, <3>5
  <2>2. {timer, loading, error, overtaken, lost} \subseteq BOOLEAN
    BY DEF Inv, Types, QueryTypes, ListTypes, TableTypes
  <2>3. {text, sent} \subseteq Texts \cup {NoText}
    BY DEF Inv, Types, QueryTypes
  <2> QED
    BY <2>1, <2>2, <2>3 DEF TypeOK, Inv, Types, ServerTypes, QueryTypes, TableTypes, FormTypes
<1>3. RowsAreOfQuery
  <2> SUFFICES ASSUME at.paged, Settled, ~overtaken PROVE shown.query = [page |-> page, text |-> text]
    BY DEF RowsAreOfQuery
  <2>1. at.refresh # "silent"
    BY <1>1 DEF PageOk
  <2>2. ~Awaited /\ ~error /\ ~timer
    BY DEF Settled, Awaited
  <2> QED
    BY <2>1, <2>2 DEF Inv, QueryOk, Pausing, Query
<1>4. SuccessIsShown
  <2> SUFFICES ASSUME "success" \in feedback PROVE
        /\ outcome # 0
        /\ (at.refresh = "awaited" \/ (Settled /\ feedback = {"success"} /\ job = NoJob)) /\ ~overtaken
             => shown.version >= outcome
    BY DEF SuccessIsShown
  <2>1. /\ ToldOk
        /\ job = NoJob /\ at.refresh # "keyed" => RereadOk
        /\ at.refresh = "keyed" /\ ~timer => KeyedOk
    BY DEF Inv, SuccessOk
  <2>2. CASE at.refresh = "awaited"
    BY <2>1, <2>2 DEF ToldOk, RereadOk, Fresh
  <2>3. CASE Settled /\ feedback = {"success"} /\ job = NoJob /\ at.refresh # "awaited"
    <3>1. ~Awaited /\ ~error /\ ~timer /\ "error" \notin feedback
      BY <2>3 DEF Settled, Awaited
    <3> QED
      BY <2>1, <2>3, <3>1 DEF ToldOk, RereadOk, KeyedOk, Fresh
  <2> QED
    BY <2>1, <2>2, <2>3 DEF ToldOk
<1> QED
  BY <1>2, <1>3, <1>4 DEF Inv, NoLostEdit

-----------------------------------------------------------------------------
(* The search box and the pager.                                              *)

\* A request for what is asked for by now.
LEMMA ReloadStep ==
  ASSUME Inv, at.refresh # "silent", QueryTypes', Reload(Query', "table"),
         text' = sent' \/ (timer' /\ at.filter = "submitted"),
         UNCHANGED <<at, server, table, form, lost>>
  PROVE  Inv'
<1>0. UNCHANGED <<at, version, stamp, shown, overtaken, editor, job, feedback, outcome, lost>>
  BY DEF server, table, form
<1>1. Query' \in Queries
  BY DEF QueryTypes, Query, Queries
<1>2. loads' = Append(loads, Load(Query', "table")) /\ loading' = TRUE /\ error' = FALSE
  BY DEF Reload
<1>3. /\ loads' \in Seq(LoadRecords) /\ \A i \in DOMAIN loads' : loads'[i].since <= version
      /\ InOrder' /\ Awaited'
      /\ \A j \in DOMAIN loads' :
           \/ j \in DOMAIN loads /\ j < Len(loads') /\ loads'[j] = loads[j]
           \/ /\ j = Len(loads') /\ loads'[j].query = Query' /\ loads'[j].by = "table"
              /\ loads'[j].since = version /\ ~loads'[j].late
  <2>1. PICK q \in Queries : q = Query'
    BY <1>1
  <2>2. ServerTypes /\ ListTypes /\ InOrder /\ loads' = Append(loads, Load(q, "table"))
    BY <1>2, <2>1 DEF Inv, Types
  <2> QED
    BY <2>1, <2>2, LoadSent
<1>4. ListTypes' /\ Types'
  <2>1. ListTypes'
    BY <1>0, <1>2, <1>3 DEF ListTypes
  <2>2. ServerTypes' /\ TableTypes'
    BY <1>0 DEF Inv, Types, ServerTypes, TableTypes
  <2>3. FormTypes'
    BY <1>0 DEF Inv, Types, FormTypes
  <2> QED
    BY <1>0, <2>1, <2>2, <2>3 DEF Inv, Types
<1>5. JobOk'
  <2>1. \A j \in DOMAIN loads' : loads'[j].by = "job" => j \in DOMAIN loads /\ loads'[j] = loads[j]
    BY <1>3
  <2> QED
    BY <1>0, <2>1 DEF Inv, JobOk
<1>6. EditorOk'
  BY <1>0 DEF Inv, EditorOk
<1>7. QueryOk'
  <2>1. \A i \in DOMAIN loads' : i = Len(loads') => loads'[i].query = Query'
    BY <1>3
  <2> QED
    BY <1>0, <1>3, <2>1 DEF QueryOk
<1>8. SuccessOk'
  <2> SUFFICES ASSUME "success" \in feedback PROVE SuccessOk'
    BY <1>0 DEF SuccessOk
  <2>1. /\ ToldOk
        /\ job = NoJob /\ at.refresh # "keyed" => RereadOk
    BY DEF Inv, SuccessOk
  <2>2. ToldOk'
    BY <1>0, <2>1 DEF ToldOk
  <2>3. outcome <= version
    BY DEF Inv, Types, FormTypes, ServerTypes
  <2>4. KeyedOk'
    <3>1. \A i \in DOMAIN loads' : i = Len(loads') => loads'[i].since = version
      BY <1>3
    <3> QED
      BY <1>0, <1>3, <2>3, <3>1 DEF KeyedOk, Inv, Types, FormTypes, ServerTypes
  <2>5. ASSUME job = NoJob, at.refresh # "keyed" PROVE RereadOk'
    <3>1. \A i \in DOMAIN loads' : ~loads'[i].late => loads'[i].since >= outcome
      <4>1. version >= outcome
        BY DEF Inv, Types, FormTypes, ServerTypes
      <4> QED
        BY <1>3, <2>1, <2>5, <4>1 DEF RereadOk
    <3>2. Fresh \/ (at.refresh = "silent" /\ (error \/ "error" \in feedback))
      BY <2>1, <2>5 DEF RereadOk
    <3> QED
      BY <1>0, <3>1, <3>2 DEF RereadOk, Fresh
  <2> QED
    BY <1>0, <2>2, <2>4, <2>5 DEF SuccessOk
<1> QED
  BY <1>0, <1>3, <1>4, <1>5, <1>6, <1>7, <1>8 DEF Inv

\* A change of what is asked for that waits for the pause, or none.
LEMMA PauseStep ==
  ASSUME Inv, QueryTypes', Pausing' \/ (Query' = Query /\ at.filter = "submitted"),
         text' = sent' \/ (timer' /\ at.filter = "submitted"),
         UNCHANGED <<at, server, list, table, form, lost>>
  PROVE  Inv'
<1>0. UNCHANGED <<at, version, stamp, loads, loading, error, shown, overtaken, editor, job, feedback, outcome, lost>>
  BY DEF server, list, table, form
<1>1. PageOk(at)
  BY PageFacts DEF Inv, Types
<1>2. Types'
  BY <1>0 DEF Inv, Types, ServerTypes, ListTypes, TableTypes, FormTypes
<1>3. InOrder' /\ JobOk' /\ EditorOk'
  BY <1>0 DEF Inv, InOrder, JobOk, EditorOk
<1>4. QueryOk'
  <2>1. CASE Pausing'
    BY <1>0, <2>1 DEF QueryOk
  <2>2. CASE Query' = Query /\ at.filter = "submitted"
    <3>1. ~Pausing /\ at.refresh # "silent"
      BY <1>1, <2>2 DEF Pausing, PageOk
    <3> QED
      BY <1>0, <2>2, <3>1 DEF Inv, QueryOk, Awaited
  <2> QED
    BY <2>1, <2>2
<1>5. SuccessOk'
  <2>1. at.refresh = "keyed" => timer'
    BY <1>0, <1>1 DEF PageOk, Pausing
  <2> QED
    BY <1>0, <2>1 DEF Inv, SuccessOk, ToldOk, RereadOk, Fresh
<1> QED
  BY <1>0, <1>2, <1>3, <1>4, <1>5 DEF Inv

LEMMA QueryStep ==
  ASSUME Inv, SetPage \/ TypeToSubmit \/ Type \/ SubmitText \/ SendRequest
  PROVE  Inv'
<1>1. PageOk(at) /\ at \in Pages /\ QueryTypes /\ 1 \in 1 .. MaxPage
  BY PageFacts, MaxAssumption DEF Inv, Types
<1>2. ASSUME QueryChanged, QueryTypes', text' = sent' \/ (timer' /\ at.filter = "submitted"),
             at.refresh # "silent", UNCHANGED <<at, server, table, form, lost>>
      PROVE  Inv'
  <2>1. CASE at.filter = "debounced"
    <3>1. Pausing' /\ UNCHANGED list
      BY <1>2, <2>1 DEF QueryChanged, Pausing
    <3> QED
      BY <1>2, <3>1, PauseStep
  <2>2. CASE at.filter # "debounced"
    <3>1. Reload(Query', "table")
      BY <1>2, <2>2 DEF QueryChanged, Query
    <3> QED
      BY <1>2, <3>1, ReloadStep
  <2> QED
    BY <2>1, <2>2
<1>3. CASE SetPage
  <2>1. at.refresh # "silent" /\ QueryChanged /\ UNCHANGED <<at, server, table, form, lost>>
    BY <1>1, <1>3 DEF SetPage, PageOk
  <2>2. page' \in 1 .. MaxPage /\ text' = text /\ sent' = sent
    BY <1>3 DEF SetPage
  <2>3. timer' = TRUE \/ timer' = timer
    BY <2>1 DEF QueryChanged
  <2>4. QueryTypes'
    BY <1>1, <2>2, <2>3 DEF QueryTypes
  <2>5. at.filter = "submitted" => timer' = timer
    BY <2>1 DEF QueryChanged
  <2>6. text' = sent' \/ (timer' /\ at.filter = "submitted")
    BY <2>2, <2>5 DEF Inv, QueryOk
  <2> QED
    BY <1>2, <2>1, <2>4, <2>6
<1>4. CASE TypeToSubmit
  <2>1. at.filter = "submitted" /\ at.refresh # "silent" /\ UNCHANGED <<at, server, table, form, lost>>
          /\ text' \in Texts \cup {NoText} /\ page' = 1 /\ sent' = sent /\ timer' = TRUE
    BY <1>1, <1>4 DEF TypeToSubmit, PageOk
  <2>2. QueryTypes'
    BY <1>1, <2>1 DEF QueryTypes
  <2>3. CASE page = 1
    <3>1. UNCHANGED list /\ Query' = Query
      BY <1>4, <2>1, <2>3 DEF TypeToSubmit, Query
    <3> QED
      BY <2>1, <2>2, <3>1, PauseStep
  <2>4. CASE page # 1
    <3>1. Reload(Query', "table")
      BY <1>4, <2>1, <2>4 DEF TypeToSubmit, Query
    <3> QED
      BY <2>1, <2>2, <3>1, ReloadStep
  <2> QED
    BY <2>3, <2>4
<1>5. CASE Type
  <2>1. at.refresh # "silent" /\ QueryChanged /\ UNCHANGED <<at, server, table, form, lost>>
          /\ text' \in Texts \cup {NoText} /\ page' = 1 /\ sent' = text'
    BY <1>1, <1>5 DEF Type, PageOk
  <2>2. timer' = TRUE \/ timer' = timer
    BY <2>1 DEF QueryChanged
  <2>3. QueryTypes'
    BY <1>1, <2>1, <2>2 DEF QueryTypes
  <2> QED
    BY <1>2, <2>1, <2>3
<1>6. CASE SubmitText
  <2>1. at.filter = "submitted" /\ at.refresh # "silent" /\ UNCHANGED <<at, server, table, form, lost>>
          /\ text' = text /\ page' = page /\ sent' = text /\ timer' = FALSE
    BY <1>1, <1>6 DEF SubmitText, PageOk
  <2>2. QueryTypes'
    BY <1>1, <2>1 DEF QueryTypes
  <2>3. CASE sent = text
    <3>1. UNCHANGED list /\ Query' = Query
      BY <1>6, <2>1, <2>3 DEF SubmitText, Query
    <3> QED
      BY <2>1, <2>2, <3>1, PauseStep
  <2>4. CASE sent # text
    <3>1. Reload(Query', "table")
      BY <1>6, <2>1, <2>4 DEF SubmitText, Query
    <3> QED
      BY <2>1, <2>2, <3>1, ReloadStep
  <2> QED
    BY <2>3, <2>4
<1>7. CASE SendRequest
  <2>1. at.filter = "debounced" /\ at.refresh # "silent" /\ UNCHANGED <<at, server, table, form, lost>>
          /\ text' = text /\ page' = page /\ sent' = sent /\ timer' = FALSE /\ Reload(Query, "table")
    BY <1>1, <1>7 DEF SendRequest, PageOk, query
  <2>2. QueryTypes' /\ Reload(Query', "table")
    BY <1>1, <2>1 DEF QueryTypes, Query, Reload, Load
  <2>3. text' = sent'
    BY <2>1 DEF Inv, QueryOk
  <2> QED
    BY <2>1, <2>2, <2>3, ReloadStep
<1> QED
  BY <1>3, <1>4, <1>5, <1>6, <1>7

-----------------------------------------------------------------------------
(* Answers to list requests.                                                  *)

\* What every end of a request does to the list.
LEMMA EndOfLoad ==
  ASSUME Inv, NEW i \in DOMAIN loads, Over(i), version' = version,
         loading' \in BOOLEAN, error' \in BOOLEAN
  PROVE  ListTypes' /\ InOrder'
<1>1. loads \in Seq(LoadRecords) /\ InOrder /\ \A k \in DOMAIN loads : loads[k].since <= version
  BY DEF Inv, Types, ListTypes
<1>2. loads' \in Seq(LoadRecords) /\ \A j \in DOMAIN loads' :
        Was(i, j) \in DOMAIN loads /\ loads'[j].since = loads[Was(i, j)].since
  BY <1>1, LoadOver
<1>3. InOrder'
  BY <1>1, YoungestLoad
<1> QED
  BY <1>1, <1>2, <1>3 DEF ListTypes

\* The rows that are shown are those of the youngest request, or others are to come, or they
\* are overtaken.
LEMMA ShownQuery ==
  ASSUME Inv, NEW i \in DOMAIN loads, Over(i), ShowRows(i) \/ error',
         error => error', UNCHANGED <<at, query, timer>>
  PROVE  QueryOk'
<1>0. UNCHANGED <<at, page, text, sent, timer>>
  BY DEF query
<1>1. loads \in Seq(LoadRecords) /\ InOrder
  BY DEF Inv, Types, ListTypes
<1>2. text' = sent' \/ (timer' /\ at'.filter = "submitted")
  BY <1>0 DEF Inv, QueryOk
<1>3. SUFFICES ASSUME at.refresh # "silent", ~Pausing
      PROVE  /\ \A j \in DOMAIN loads' : j = Len(loads') /\ ~loads'[j].late => loads'[j].query = Query
             /\ Awaited' \/ error' \/ overtaken' \/ shown'.query = Query
  BY <1>0, <1>2 DEF QueryOk, Pausing, Query
<1>4. /\ \A j \in DOMAIN loads : j = Len(loads) /\ ~loads[j].late => loads[j].query = Query
      /\ Awaited \/ error \/ overtaken \/ shown.query = Query
  BY <1>3 DEF Inv, QueryOk
<1>5. /\ Awaited => Awaited' \/ (i = Len(loads) /\ ~loads[i].late)
      /\ \A j \in DOMAIN loads' : j = Len(loads') /\ ~loads'[j].late =>
           \E k \in DOMAIN loads :
             k = Len(loads) /\ ~loads[k].late /\ loads'[j].query = loads[k].query
  BY <1>1, YoungestLoad
<1>6. ASSUME ShowRows(i) PROVE Awaited' \/ overtaken' \/ shown'.query = Query
  <2>1. overtaken' = loads[i].late /\ shown'.query = loads[i].query
    BY <1>6 DEF ShowRows
  <2>2. CASE Awaited
    BY <1>4, <1>5, <2>1, <2>2
  <2>3. CASE ~Awaited
    BY <2>1, <2>3 DEF Awaited
  <2> QED
    BY <2>2, <2>3
<1> QED
  BY <1>4, <1>5, <1>6

\* An answer to a request that was sent after a change, or when all that are not late were,
\* shows it unless it is overtaken, and so do the ones to come.
LEMMA ShownFresh ==
  ASSUME Inv, NEW i \in DOMAIN loads, Over(i), NEW v \in Nat,
         loads[i].since >= v \/ \A k \in DOMAIN loads : ~loads[k].late => loads[k].since >= v
  PROVE  /\ \A j \in DOMAIN loads' : ~loads'[j].late => loads'[j].since >= v
         /\ ShowRows(i) => overtaken' \/ shown'.version >= v
<1>1. loads \in Seq(LoadRecords) /\ InOrder
  BY DEF Inv, Types, ListTypes
<1>2. \A j \in DOMAIN loads' : ~loads'[j].late =>
        \E k \in DOMAIN loads :
          ~loads[k].late /\ loads'[j].since = loads[k].since /\ loads[i].since <= loads[k].since
  BY <1>1, YoungestLoad
<1>3. ASSUME NEW k \in DOMAIN loads PROVE loads[k].since \in Nat
  <2>1. loads[k] \in LoadRecords
    BY <1>1
  <2> QED
    BY <2>1 DEF LoadRecords
<1>4. ASSUME NEW j \in DOMAIN loads', ~loads'[j].late PROVE loads'[j].since >= v
  <2>1. PICK k \in DOMAIN loads :
          ~loads[k].late /\ loads'[j].since = loads[k].since /\ loads[i].since <= loads[k].since
    BY <1>2, <1>4
  <2>2. loads[k].since \in Nat /\ loads[i].since \in Nat
    BY <1>3
  <2> QED
    BY <2>1, <2>2
<1>5. ASSUME ShowRows(i), ~overtaken' PROVE shown'.version >= v
  <2>1. PICK w \in loads[i].since .. version : shown' = [query |-> loads[i].query, version |-> w]
    BY <1>5 DEF ShowRows
  <2>2. ~loads[i].late
    BY <1>5 DEF ShowRows
  <2>3. loads[i].since >= v /\ loads[i].since \in Nat /\ version \in Nat /\ shown'.version = w
    BY <1>3, <2>1, <2>2 DEF Inv, Types, ServerTypes
  <2> QED
    BY <2>3
<1> QED
  BY <1>4, <1>5

\* What is shown is an answer.
LEMMA ShownTypes ==
  ASSUME Inv, NEW i \in DOMAIN loads, ShowRows(i), version' = version
  PROVE  TableTypes'
<1>1. PICK w \in loads[i].since .. version : shown' = [query |-> loads[i].query, version |-> w]
  BY DEF ShowRows
<1>2. overtaken' = loads[i].late
  BY DEF ShowRows
<1>3. loads[i] \in LoadRecords /\ version \in Nat
  BY DEF Inv, Types, ListTypes, ServerTypes
<1>4. loads[i].query \in Queries /\ loads[i].since \in Nat \ {0} /\ loads[i].late \in BOOLEAN
  BY <1>3 DEF LoadRecords
<1>5. w \in 1 .. version
  BY <1>3, <1>4
<1> QED
  BY <1>1, <1>2, <1>4, <1>5 DEF TableTypes

LEMMA ArriveStep == ASSUME Inv, NEW i \in DOMAIN loads, RowsArrive(i) PROVE Inv'
<1>0. /\ Over(i) /\ ShowRows(i) /\ loading' = FALSE /\ UNCHANGED <<at, query, timer>>
      /\ UNCHANGED <<version, stamp, page, text, sent, error, editor, job, feedback, outcome, lost>>
  BY DEF RowsArrive, server, query, form
<1>1. loads \in Seq(LoadRecords) /\ InOrder /\ JobOk
  BY DEF Inv, Types, ListTypes
<1>2. Types' /\ InOrder'
  <2>1. ListTypes' /\ InOrder'
    <3>1. loading' \in BOOLEAN /\ error' \in BOOLEAN
      BY <1>0 DEF Inv, Types, ListTypes
    <3> QED
      BY <1>0, <3>1, EndOfLoad
  <2>2. TableTypes'
    BY <1>0, ShownTypes
  <2> QED
    BY <1>0, <2>1, <2>2 DEF Inv, Types, ServerTypes, QueryTypes, FormTypes
<1>3. JobOk'
  <2>1. \A j \in DOMAIN loads' :
           loads'[j].by = "job" =>
             /\ job # NoJob /\ job.stage = "reload" /\ loads'[j].since >= job.made
             /\ \A k \in DOMAIN loads' : loads'[k].by = "job" => j = k
    BY <1>0, <1>1, JobOver
  <2> QED
    BY <1>0, <1>1, <2>1 DEF JobOk
<1>4. EditorOk'
  BY <1>0 DEF Inv, EditorOk
<1>5. QueryOk'
  BY <1>0, ShownQuery
<1>6. SuccessOk'
  <2> SUFFICES ASSUME "success" \in feedback PROVE SuccessOk'
    BY <1>0 DEF SuccessOk
  <2>1. /\ ToldOk
        /\ job = NoJob /\ at.refresh # "keyed" => RereadOk
        /\ at.refresh = "keyed" /\ ~timer => KeyedOk
    BY DEF Inv, SuccessOk
  <2>2. ToldOk' /\ outcome \in Nat
    BY <1>0, <2>1 DEF ToldOk, Inv, Types, FormTypes, ServerTypes
  <2>3. ASSUME RereadOk PROVE RereadOk'
    <3>1. /\ \A j \in DOMAIN loads' : ~loads'[j].late => loads'[j].since >= outcome
          /\ overtaken' \/ shown'.version >= outcome
      BY <1>0, <2>2, <2>3, ShownFresh DEF RereadOk
    <3> QED
      BY <1>0, <3>1 DEF RereadOk, Fresh
  <2>4. ASSUME KeyedOk PROVE KeyedOk'
    <3>1. /\ Awaited => Awaited' \/ (i = Len(loads) /\ ~loads[i].late)
          /\ \A j \in DOMAIN loads' : j = Len(loads') /\ ~loads'[j].late =>
               \E k \in DOMAIN loads :
                 k = Len(loads) /\ ~loads[k].late /\ loads'[j].since = loads[k].since
      BY <1>0, <1>1, YoungestLoad
    <3>2. \A j \in DOMAIN loads' : j = Len(loads') /\ ~loads'[j].late => loads'[j].since >= outcome
      BY <2>4, <3>1 DEF KeyedOk
    <3>3. CASE ~loads[i].late /\ i = Len(loads)
      <4>1. loads[i].since >= outcome
        BY <2>4, <3>3 DEF KeyedOk
      <4>2. overtaken' \/ shown'.version >= outcome
        BY <1>0, <2>2, <4>1, ShownFresh
      <4> QED
        BY <1>0, <3>2, <4>2 DEF KeyedOk, Fresh
    <3>4. CASE Awaited /\ ~(~loads[i].late /\ i = Len(loads))
      BY <1>0, <3>1, <3>2, <3>4 DEF KeyedOk
    <3>5. CASE ~Awaited
      <4>1. overtaken'
        BY <1>0, <3>5 DEF Awaited, ShowRows
      <4> QED
        BY <1>0, <3>2, <4>1 DEF KeyedOk, Fresh
    <3> QED
      BY <3>3, <3>4, <3>5
  <2> QED
    BY <1>0, <2>1, <2>2, <2>3, <2>4 DEF SuccessOk
<1> QED
  BY <1>0, <1>2, <1>3, <1>4, <1>5, <1>6 DEF Inv

LEMMA FailStep == ASSUME Inv, NEW i \in DOMAIN loads, RowsFail(i) PROVE Inv'
<1>0. /\ Over(i) /\ loading' = FALSE /\ error' = TRUE /\ UNCHANGED <<at, query, timer>>
      /\ feedback' = IF at.refresh = "silent" THEN feedback \ {"error"} ELSE feedback
      /\ UNCHANGED <<version, stamp, page, text, sent, shown, overtaken, editor, job, outcome, lost>>
  BY DEF RowsFail, server, query, table
<1>1. loads \in Seq(LoadRecords) /\ InOrder /\ JobOk
  BY DEF Inv, Types, ListTypes
<1>2. Types' /\ InOrder'
  <2>1. ListTypes' /\ InOrder'
    BY <1>0, EndOfLoad
  <2>2. feedback' \subseteq {"error", "success"}
    BY <1>0 DEF Inv, Types, FormTypes
  <2> QED
    BY <1>0, <2>1, <2>2 DEF Inv, Types, ServerTypes, QueryTypes, TableTypes, FormTypes
<1>3. JobOk'
  <2>1. \A j \in DOMAIN loads' :
           loads'[j].by = "job" =>
             /\ job # NoJob /\ job.stage = "reload" /\ loads'[j].since >= job.made
             /\ \A k \in DOMAIN loads' : loads'[k].by = "job" => j = k
    BY <1>0, <1>1, JobOver
  <2> QED
    BY <1>0, <1>1, <2>1 DEF JobOk
<1>4. EditorOk'
  BY <1>0 DEF Inv, EditorOk
<1>5. QueryOk'
  BY <1>0, ShownQuery
<1>6. SuccessOk'
  <2> SUFFICES ASSUME "success" \in feedback PROVE SuccessOk'
    BY <1>0 DEF SuccessOk
  <2>1. /\ ToldOk
        /\ job = NoJob /\ at.refresh # "keyed" => RereadOk
        /\ at.refresh = "keyed" /\ ~timer => KeyedOk
    BY DEF Inv, SuccessOk
  <2>2. ToldOk' /\ outcome \in Nat
    BY <1>0, <2>1 DEF ToldOk, Inv, Types, FormTypes, ServerTypes
  <2>3. ASSUME RereadOk PROVE RereadOk'
    <3>1. \A j \in DOMAIN loads' : ~loads'[j].late => loads'[j].since >= outcome
      BY <1>0, <2>2, <2>3, ShownFresh DEF RereadOk
    <3> QED
      BY <1>0, <2>3, <3>1 DEF RereadOk, Fresh
  <2>4. ASSUME KeyedOk PROVE KeyedOk'
    <3>1. \A j \in DOMAIN loads' : j = Len(loads') /\ ~loads'[j].late =>
            \E k \in DOMAIN loads :
              k = Len(loads) /\ ~loads[k].late /\ loads'[j].since = loads[k].since
      BY <1>0, <1>1, YoungestLoad
    <3> QED
      BY <1>0, <2>4, <3>1 DEF KeyedOk
  <2> QED
    BY <1>0, <2>1, <2>2, <2>3, <2>4 DEF SuccessOk
<1> QED
  BY <1>0, <1>2, <1>3, <1>4, <1>5, <1>6 DEF Inv

\* What the request of a mutation says of it.
LEMMA OfJob ==
  ASSUME Inv, NEW i \in DOMAIN loads, loads[i].by = "job", Over(i)
  PROVE  /\ job # NoJob /\ job.stage = "reload" /\ job.made # 0 /\ job.made \in Nat
         /\ job.made \in 0 .. version /\ loads[i].since >= job.made
         /\ at.refresh \in {"awaited", "silent"}
         /\ \A j \in DOMAIN loads' : loads'[j].by # "job"
<1>1. loads \in Seq(LoadRecords) /\ JobOk
  BY DEF Inv, Types, ListTypes
<1>2. job # NoJob /\ job.stage = "reload" /\ loads[i].since >= job.made
  BY <1>1 DEF JobOk
<1>3. job.made # 0 /\ at.refresh # "keyed"
  BY <1>1, <1>2 DEF JobOk
<1>4. at.refresh \in {"awaited", "silent"}
  BY <1>3, PageFacts DEF Inv, Types, PageOk
<1>5. job.made \in 0 .. version /\ version \in Nat
  BY <1>2 DEF Inv, Types, FormTypes, ServerTypes
<1>6. \A j \in DOMAIN loads' : loads'[j].by # "job"
  BY <1>1, JobOver
<1> QED
  BY <1>2, <1>3, <1>4, <1>5, <1>6

LEMMA RefreshedStep == ASSUME Inv, NEW i \in DOMAIN loads, Refreshed(i) PROVE Inv'
<1>0. /\ Over(i) /\ ShowRows(i) /\ loads[i].by = "job" /\ job' = NoJob
      /\ UNCHANGED <<at, query, timer>>
      /\ UNCHANGED <<version, stamp, page, text, sent, error, lost>>
  BY DEF Refreshed, server, query
<1>1. /\ job # NoJob /\ job.stage = "reload" /\ job.made # 0 /\ job.made \in Nat
      /\ job.made \in 0 .. version /\ loads[i].since >= job.made
      /\ at.refresh \in {"awaited", "silent"}
      /\ \A j \in DOMAIN loads' : loads'[j].by # "job"
  BY <1>0, OfJob
<1>2. \/ /\ at.refresh = "awaited" /\ feedback' = {"success"} /\ outcome' = job.made
         /\ loading' = FALSE /\ editor' = NoEditor
      \/ /\ at.refresh = "silent" /\ UNCHANGED <<feedback, outcome, loading>>
         /\ editor' = NoEditor \/ editor' = editor
  BY <1>1 DEF Refreshed, Succeed
<1>3. Types' /\ InOrder'
  <2>1. ListTypes' /\ InOrder'
    <3>1. loading' \in BOOLEAN /\ error' \in BOOLEAN
      BY <1>0, <1>2 DEF Inv, Types, ListTypes
    <3> QED
      BY <1>0, <3>1, EndOfLoad
  <2>2. TableTypes'
    BY <1>0, ShownTypes
  <2>3. outcome' \in 0 .. version /\ feedback' \subseteq {"error", "success"}
    BY <1>1, <1>2 DEF Inv, Types, FormTypes
  <2>4. FormTypes'
    BY <1>0, <1>2, <2>3 DEF Inv, Types, FormTypes
  <2> QED
    BY <1>0, <2>1, <2>2, <2>4 DEF Inv, Types, ServerTypes, QueryTypes
<1>4. JobOk' /\ EditorOk'
  BY <1>0, <1>1 DEF JobOk, EditorOk
<1>5. QueryOk'
  BY <1>0, ShownQuery
<1>6. SuccessOk'
  <2> SUFFICES ASSUME "success" \in feedback' PROVE SuccessOk'
    BY DEF SuccessOk
  <2>1. outcome' = job.made
    BY <1>1, <1>2 DEF Inv, SuccessOk, ToldOk
  <2>2. ToldOk'
    BY <1>0, <1>1, <2>1 DEF ToldOk
  <2>3. RereadOk'
    <3>1. /\ \A j \in DOMAIN loads' : ~loads'[j].late => loads'[j].since >= job.made
          /\ overtaken' \/ shown'.version >= job.made
      BY <1>0, <1>1, ShownFresh
    <3> QED
      BY <2>1, <3>1 DEF RereadOk, Fresh
  <2>4. at'.refresh # "keyed"
    BY <1>0, <1>1
  <2> QED
    BY <2>2, <2>3, <2>4 DEF SuccessOk
<1> QED
  BY <1>0, <1>3, <1>4, <1>5, <1>6 DEF Inv

LEMMA NotRefreshedStep == ASSUME Inv, NEW i \in DOMAIN loads, NotRefreshed(i) PROVE Inv'
<1>0. /\ Over(i) /\ loads[i].by = "job" /\ job' = NoJob /\ outcome' = job.made
      /\ UNCHANGED <<at, query, timer>>
      /\ UNCHANGED <<version, stamp, page, text, sent, shown, overtaken, editor, lost>>
  BY DEF NotRefreshed, server, query, table
<1>1. /\ job # NoJob /\ job.stage = "reload" /\ job.made # 0 /\ job.made \in Nat
      /\ job.made \in 0 .. version /\ loads[i].since >= job.made
      /\ at.refresh \in {"awaited", "silent"}
      /\ \A j \in DOMAIN loads' : loads'[j].by # "job"
  BY <1>0, OfJob
<1>2. \/ at.refresh = "awaited" /\ feedback' = {"error"} /\ loading' = FALSE /\ error' = TRUE
      \/ /\ at.refresh = "silent" /\ feedback' = feedback \cup {"error"}
         /\ error' = FALSE /\ UNCHANGED loading
  BY <1>1 DEF NotRefreshed
<1>3. Types' /\ InOrder'
  <2>1. ListTypes' /\ InOrder'
    <3>1. loading' \in BOOLEAN /\ error' \in BOOLEAN
      BY <1>0, <1>2 DEF Inv, Types, ListTypes
    <3> QED
      BY <1>0, <3>1, EndOfLoad
  <2>2. feedback' \subseteq {"error", "success"}
    BY <1>2 DEF Inv, Types, FormTypes
  <2>3. FormTypes'
    BY <1>0, <1>1, <2>2 DEF Inv, Types, FormTypes
  <2> QED
    BY <1>0, <2>1, <2>3 DEF Inv, Types, ServerTypes, QueryTypes, TableTypes
<1>4. JobOk' /\ EditorOk'
  BY <1>0, <1>1 DEF JobOk, EditorOk
<1>5. QueryOk'
  <2>1. CASE at.refresh = "awaited"
    BY <1>0, <1>2, <2>1, ShownQuery
  <2>2. CASE at.refresh = "silent"
    BY <1>0, <2>2 DEF Inv, QueryOk
  <2> QED
    BY <1>1, <2>1, <2>2
<1>6. SuccessOk'
  <2> SUFFICES ASSUME "success" \in feedback' PROVE SuccessOk'
    BY DEF SuccessOk
  <2>1. at.refresh = "silent" /\ "error" \in feedback'
    BY <1>2
  <2>2. ToldOk'
    BY <1>0, <1>1 DEF ToldOk
  <2>3. \A j \in DOMAIN loads' : ~loads'[j].late => loads'[j].since >= job.made
    BY <1>0, <1>1, ShownFresh
  <2>4. RereadOk'
    BY <1>0, <2>1, <2>3 DEF RereadOk
  <2> QED
    BY <1>0, <2>1, <2>2, <2>4 DEF SuccessOk
<1> QED
  BY <1>0, <1>3, <1>4, <1>5, <1>6 DEF Inv

-----------------------------------------------------------------------------
(* Drawers, dialogs and the service.                                          *)

\* Steps that leave the list, the table and the mutation alone.
LEMMA FormStep ==
  ASSUME Inv, UNCHANGED <<at, server, query, timer, loads, loading, table, job, lost>>,
         editor' = NoEditor \/ editor' \in [kind : at.actions, base : 0 .. version],
         EditorOk', at.refresh # "silent" => error' = error, error' \in BOOLEAN,
         \/ UNCHANGED <<feedback, outcome, error>>
         \/ feedback' \in {{}, {"error"}} /\ outcome' = 0
  PROVE  Inv'
<1>0. UNCHANGED <<at, version, stamp, page, text, sent, timer, loads, loading, shown, overtaken, job, lost>>
  BY DEF server, query, table
<1>1. Types'
  <2>1. feedback' \subseteq {"error", "success"}
    BY DEF Inv, Types, FormTypes
  <2>2. outcome' \in 0 .. version
    BY DEF Inv, Types, FormTypes, ServerTypes
  <2>3. FormTypes' /\ ListTypes'
    BY <1>0, <2>1, <2>2 DEF Inv, Types, FormTypes, ListTypes
  <2> QED
    BY <1>0, <2>3 DEF Inv, Types, ServerTypes, QueryTypes, TableTypes
<1>2. InOrder' /\ JobOk'
  BY <1>0 DEF Inv, InOrder, JobOk
<1>3. QueryOk'
  BY <1>0 DEF Inv, QueryOk, Pausing, Awaited, Query
<1>4. SuccessOk'
  <2>1. CASE UNCHANGED <<feedback, outcome, error>>
    BY <1>0, <2>1 DEF Inv, SuccessOk, ToldOk, RereadOk, KeyedOk, Fresh, Awaited
  <2>2. CASE feedback' \in {{}, {"error"}}
    BY <2>2 DEF SuccessOk
  <2> QED
    BY <2>1, <2>2
<1> QED
  BY <1>0, <1>1, <1>2, <1>3, <1>4 DEF Inv

LEMMA DrawerStep ==
  ASSUME Inv, (\E kind \in {"create", "edit", "confirm"} : Open(kind)) \/ Cancel \/ Reject
  PROVE  Inv'
<1>1. error \in BOOLEAN /\ version \in 1 .. MaxVersion
  BY DEF Inv, Types, ListTypes, ServerTypes
<1>2. ASSUME NEW kind \in {"create", "edit", "confirm"}, Open(kind) PROVE Inv'
  <2>1. UNCHANGED <<at, server, query, timer, loads, loading, table, job, lost>> /\ job = NoJob
          /\ kind \in at.actions
    BY <1>2 DEF Open
  <2>2. \/ UNCHANGED <<feedback, outcome, error>>
        \/ /\ feedback' = {} /\ outcome' = 0
           /\ error' = IF at.refresh = "silent" THEN FALSE ELSE error
    BY <1>2 DEF Open
  <2>3. PICK b : b = (IF Carries(kind) THEN shown.version ELSE 0)
    OBVIOUS
  <2>4. editor' = [kind |-> kind, base |-> b]
    BY <1>2, <2>3 DEF Open
  <2>5. b \in 0 .. version
    <3>1. shown = Blank \/ shown \in [query : Queries, version : 1 .. version]
      BY DEF Inv, Types, TableTypes
    <3>2. shown.version \in 0 .. version
      BY <1>1, <3>1 DEF Blank
    <3> QED
      BY <1>1, <2>3, <3>2
  <2>6. editor' \in [kind : at.actions, base : 0 .. version]
    BY <2>1, <2>4, <2>5
  <2>7. EditorOk'
    BY <2>1 DEF EditorOk
  <2>8. error' \in BOOLEAN /\ (at.refresh # "silent" => error' = error)
    BY <1>1, <2>2
  <2> QED
    BY <2>1, <2>2, <2>6, <2>7, <2>8, FormStep
<1>3. CASE Cancel
  <2>1. UNCHANGED <<at, server, query, timer, loads, loading, table, job, lost>> /\ editor' = NoEditor
    BY <1>3 DEF Cancel
  <2>2. \/ at.refresh = "silent" /\ feedback' = {} /\ outcome' = 0 /\ error' = FALSE
        \/ /\ at.refresh # "silent" \/ editor.kind = "confirm"
           /\ job = NoJob /\ UNCHANGED <<feedback, outcome, error>>
    BY <1>3 DEF Cancel
  <2>3. EditorOk'
    BY <2>1, <2>2 DEF EditorOk
  <2>4. error' \in BOOLEAN /\ (at.refresh # "silent" => error' = error)
    BY <1>1, <2>2
  <2> QED
    BY <2>1, <2>2, <2>3, <2>4, FormStep
<1>4. CASE Reject
  <2>1. UNCHANGED <<at, server, query, timer, loads, loading, table, job, lost>>
          /\ UNCHANGED <<editor, error>> /\ feedback' = {"error"} /\ outcome' = 0
    BY <1>4 DEF Reject, list
  <2>2. EditorOk' /\ (editor' = NoEditor \/ editor' \in [kind : at.actions, base : 0 .. version])
    BY <2>1 DEF Inv, EditorOk, Types, FormTypes
  <2> QED
    BY <1>1, <2>1, <2>2, FormStep
<1> QED
  BY <1>2, <1>3, <1>4

\* A mutation that is called has made nothing yet.
LEMMA SubmitStep == ASSUME Inv, Submit PROVE Inv'
<1>0. /\ UNCHANGED <<at, version, stamp, page, text, sent, timer, loads, loading, shown, overtaken, editor, lost>>
      /\ editor # NoEditor /\ job = NoJob /\ feedback' = {} /\ outcome' = 0
      /\ error' = IF at.refresh = "silent" THEN FALSE ELSE error
  BY DEF Submit, server, query, table
<1>1. PICK r : r = [kind |-> editor.kind, base |-> editor.base, made |-> 0, stage |-> "sent"]
  OBVIOUS
<1>2. job' = r
  BY <1>1 DEF Submit
<1>3. editor \in [kind : at.actions, base : 0 .. version] /\ 0 \in 0 .. version
  BY <1>0 DEF Inv, Types, FormTypes, ServerTypes
<1>4. /\ r \in [kind : at.actions, base : 0 .. version, made : 0 .. version, stage : {"sent", "reload"}]
      /\ r.kind = editor.kind /\ r.base = editor.base /\ r.stage = "sent"
  BY <1>1, <1>3
<1>5. Types'
  <2>1. FormTypes'
    BY <1>0, <1>2, <1>3, <1>4 DEF FormTypes
  <2>2. ListTypes'
    BY <1>0 DEF Inv, Types, ListTypes
  <2> QED
    BY <1>0, <2>1, <2>2 DEF Inv, Types, ServerTypes, QueryTypes, TableTypes
<1>6. InOrder' /\ JobOk' /\ EditorOk'
  BY <1>0, <1>2, <1>4 DEF Inv, InOrder, JobOk, EditorOk
<1>7. QueryOk'
  BY <1>0 DEF Inv, QueryOk, Pausing, Awaited, Query
<1> QED
  BY <1>0, <1>5, <1>6, <1>7 DEF Inv, SuccessOk

\* While a mutation is at the service no success is told and no rows are read for it.
LEMMA AtService ==
  ASSUME Inv, job # NoJob, job.stage = "sent"
  PROVE  "success" \notin feedback /\ \A j \in DOMAIN loads : loads[j].by # "job"
BY DEF Inv, JobOk, SuccessOk, ToldOk

LEMMA StoreStep == ASSUME Inv, Store PROVE Inv'
<1>0. /\ UNCHANGED <<at, page, text, sent, timer, loads, loading, error, shown, overtaken, editor, feedback, outcome>>
      /\ job # NoJob /\ job.stage = "sent" /\ version < MaxVersion /\ version' = version + 1
      /\ stamp' = version' \/ stamp' = stamp
      /\ job' = [job EXCEPT !.made = version']
      /\ Carries(job.kind) => job.base >= stamp
  BY DEF Store, query, list, table
<1>1. "success" \notin feedback /\ \A j \in DOMAIN loads : loads[j].by # "job"
  BY <1>0, AtService
<1>2. job \in [kind : at.actions, base : 0 .. version, made : 0 .. version, stage : {"sent", "reload"}]
  BY <1>0 DEF Inv, Types, FormTypes
<1>3. /\ version \in Nat /\ version' \in 1 .. MaxVersion /\ stamp \in 1 .. version
      /\ stamp' \in 1 .. version' /\ 0 .. version \subseteq 0 .. version'
      /\ 1 .. version \subseteq 1 .. version' /\ version' \in 0 .. version'
  <2>1. version \in 1 .. MaxVersion /\ stamp \in 1 .. version /\ MaxVersion \in Nat
    BY MaxAssumption DEF Inv, Types, ServerTypes
  <2>2. version \in Nat /\ version' \in 1 .. MaxVersion
    BY <1>0, <2>1
  <2>3. stamp' \in 1 .. version' /\ version' \in 0 .. version'
    BY <1>0, <2>1, <2>2
  <2> QED
    BY <1>0, <2>1, <2>2, <2>3
<1>4. /\ job' \in [kind : at.actions, base : 0 .. version', made : 0 .. version', stage : {"sent", "reload"}]
      /\ job'.kind = job.kind /\ job'.base = job.base /\ job'.stage = "sent"
  BY <1>0, <1>2, <1>3
<1>5. Types'
  <2>1. FormTypes'
    <3>1. editor' = NoEditor \/ editor' \in [kind : at'.actions, base : 0 .. version']
      BY <1>0, <1>3 DEF Inv, Types, FormTypes
    <3>2. outcome' \in 0 .. version' /\ feedback' \subseteq {"error", "success"}
      BY <1>0, <1>3 DEF Inv, Types, FormTypes
    <3> QED
      BY <1>0, <1>4, <3>1, <3>2 DEF FormTypes
  <2>2. ListTypes'
    <3>1. \A i \in DOMAIN loads : loads[i].since \in Nat /\ loads[i].since <= version
      <4>1. ASSUME NEW i \in DOMAIN loads PROVE loads[i].since \in Nat /\ loads[i].since <= version
        <5>1. loads[i] \in LoadRecords
          BY DEF Inv, Types, ListTypes
        <5> QED
          BY <5>1 DEF Inv, Types, ListTypes, LoadRecords
      <4> QED
        BY <4>1
    <3>2. \A i \in DOMAIN loads : loads[i].since <= version'
      BY <1>0, <1>3, <3>1
    <3> QED
      BY <1>0, <3>2 DEF Inv, Types, ListTypes
  <2>3. TableTypes'
    BY <1>0, <1>3 DEF Inv, Types, TableTypes, Blank
  <2>4. ServerTypes'
    BY <1>3 DEF ServerTypes
  <2> QED
    BY <1>0, <2>1, <2>2, <2>3, <2>4 DEF Inv, Types, QueryTypes
<1>6. InOrder' /\ JobOk' /\ EditorOk'
  BY <1>0, <1>1, <1>4 DEF Inv, InOrder, JobOk, EditorOk
<1>7. QueryOk' /\ SuccessOk'
  BY <1>0, <1>1 DEF Inv, QueryOk, Pausing, Awaited, Query, SuccessOk
<1>8. lost' = FALSE
  <2>1. ~(Carries(job.kind) /\ editor.base < stamp)
    <3> SUFFICES ASSUME Carries(job.kind) PROVE ~(editor.base < stamp)
      OBVIOUS
    <3>1. at.versioned = TRUE /\ PageOk(at)
      <4>1. PageOk(at) /\ at.versioned
        BY PageFacts DEF Inv, Types, Carries
      <4> QED
        BY <4>1 DEF PageOk
    <3>2. at.refresh # "silent"
      BY <3>1 DEF PageOk
    <3>3. editor.base = job.base
      BY <1>0, <3>2 DEF Inv, EditorOk
    <3>4. job.base \in Nat /\ stamp \in Nat /\ job.base >= stamp
      BY <1>0, <1>2, <1>3
    <3> QED
      BY <3>3, <3>4
  <2>2. lost' = (lost \/ (Carries(job.kind) /\ editor.base < stamp))
    BY DEF Store
  <2> QED
    BY <2>1, <2>2 DEF Inv
<1> QED
  BY <1>5, <1>6, <1>7, <1>8 DEF Inv

LEMMA OthersStep == ASSUME Inv, OthersChange PROVE Inv'
<1>0. /\ UNCHANGED <<at, page, text, sent, timer, loads, loading, error, shown, overtaken, editor, job, feedback, outcome, lost>>
      /\ version < MaxVersion /\ version' = version + 1 /\ (stamp' = version' \/ stamp' = stamp)
  BY DEF OthersChange, query, list, table, form
<1>1. /\ version \in Nat /\ version' \in 1 .. MaxVersion /\ stamp' \in 1 .. version'
      /\ 0 .. version \subseteq 0 .. version' /\ 1 .. version \subseteq 1 .. version'
  <2>1. version \in 1 .. MaxVersion /\ stamp \in 1 .. version /\ MaxVersion \in Nat
    BY MaxAssumption DEF Inv, Types, ServerTypes
  <2>2. version \in Nat /\ version' \in 1 .. MaxVersion
    BY <1>0, <2>1
  <2>3. stamp' \in 1 .. version'
    BY <1>0, <2>1, <2>2
  <2> QED
    BY <1>0, <2>1, <2>2, <2>3
<1>2. FormTypes'
  <2>1. editor' = NoEditor \/ editor' \in [kind : at'.actions, base : 0 .. version']
    BY <1>0, <1>1 DEF Inv, Types, FormTypes
  <2>2. \/ job' = NoJob
        \/ job' \in [kind : at'.actions, base : 0 .. version', made : 0 .. version', stage : {"sent", "reload"}]
    BY <1>0, <1>1 DEF Inv, Types, FormTypes
  <2>3. outcome' \in 0 .. version' /\ feedback' \subseteq {"error", "success"}
    BY <1>0, <1>1 DEF Inv, Types, FormTypes
  <2> QED
    BY <2>1, <2>2, <2>3 DEF FormTypes
<1>3. ListTypes'
  <2>1. ASSUME NEW i \in DOMAIN loads PROVE loads[i].since <= version'
    <3>1. loads[i] \in LoadRecords /\ loads[i].since <= version
      BY DEF Inv, Types, ListTypes
    <3> QED
      BY <1>0, <1>1, <3>1 DEF LoadRecords
  <2> QED
    BY <1>0, <2>1 DEF Inv, Types, ListTypes
<1>4. TableTypes' /\ ServerTypes'
  BY <1>0, <1>1 DEF Inv, Types, TableTypes, ServerTypes, Blank
<1>5. Types'
  BY <1>0, <1>2, <1>3, <1>4 DEF Inv, Types, QueryTypes
<1>6. InOrder' /\ JobOk' /\ EditorOk' /\ QueryOk'
  BY <1>0 DEF Inv, InOrder, JobOk, EditorOk, QueryOk, Pausing, Awaited, Query
<1>7. SuccessOk'
  BY <1>0 DEF Inv, SuccessOk, ToldOk, RereadOk, KeyedOk, Fresh, Awaited
<1> QED
  BY <1>0, <1>5, <1>6, <1>7 DEF Inv

\* A mutation whose rows are read again before its end.
LEMMA RereadStep ==
  ASSUME Inv, job # NoJob, job.stage = "sent", job.made # 0,
         at.refresh \in {"awaited", "silent"},
         loads' = Append(loads, Load(Query, "job")), job' = [job EXCEPT !.stage = "reload"],
         loading' \in BOOLEAN, error' \in BOOLEAN,
         editor' = editor \/ editor' = NoEditor,
         \/ UNCHANGED <<feedback, outcome>>
         \/ at.refresh = "silent" /\ feedback' = {"success"} /\ outcome' = job.made,
         UNCHANGED <<at, server, query, timer, table, lost>>
  PROVE  Inv'
<1>0. UNCHANGED <<at, version, stamp, page, text, sent, timer, shown, overtaken, lost>>
  BY DEF server, query, table
<1>1. /\ "success" \notin feedback
      /\ \A j \in DOMAIN loads : loads[j].by # "job"
  BY AtService
<1>2. job \in [kind : at.actions, base : 0 .. version, made : 0 .. version, stage : {"sent", "reload"}]
  BY DEF Inv, Types, FormTypes
<1>3. /\ job' \in [kind : at.actions, base : 0 .. version, made : 0 .. version, stage : {"sent", "reload"}]
      /\ job'.made = job.made /\ job'.stage = "reload"
  BY <1>2
<1>4. job' # NoJob /\ version \in Nat /\ job.made <= version
  <2>1. PageOk(at) /\ version \in Nat
    BY PageFacts DEF Inv, Types, ServerTypes
  <2>2. at.actions \subseteq {"create", "edit", "confirm"} /\ 0 .. version \subseteq Nat
    BY <2>1 DEF PageOk
  <2>3. job' \in [kind : {"create", "edit", "confirm"}, base : Nat, made : Nat, stage : {"sent", "reload"}]
    BY <1>3, <2>2
  <2>4. job.made <= version
    BY <1>2, <2>1
  <2> QED
    BY <2>1, <2>3, <2>4, NoJobAssumption
<1>5. Query \in Queries
  BY DEF Inv, Types, QueryTypes, Query, Queries
<1>6. /\ loads' \in Seq(LoadRecords) /\ \A i \in DOMAIN loads' : loads'[i].since <= version
      /\ InOrder' /\ Awaited'
      /\ \A j \in DOMAIN loads' :
           \/ j \in DOMAIN loads /\ j < Len(loads') /\ loads'[j] = loads[j]
           \/ /\ j = Len(loads') /\ loads'[j].query = Query /\ loads'[j].by = "job"
              /\ loads'[j].since = version /\ ~loads'[j].late
  <2>1. ServerTypes /\ ListTypes /\ InOrder
    BY DEF Inv, Types
  <2> QED
    BY <1>5, <2>1, LoadSent
<1>7. Types'
  <2>1. outcome' \in 0 .. version /\ feedback' \subseteq {"error", "success"}
    BY <1>2 DEF Inv, Types, FormTypes
  <2>2. editor' = NoEditor \/ editor' \in [kind : at.actions, base : 0 .. version]
    BY DEF Inv, Types, FormTypes
  <2>3. FormTypes'
    BY <1>0, <1>3, <2>1, <2>2 DEF FormTypes
  <2>4. ListTypes'
    BY <1>0, <1>6 DEF ListTypes
  <2> QED
    BY <1>0, <2>3, <2>4 DEF Inv, Types, ServerTypes, QueryTypes, TableTypes
<1>8. JobOk'
  <2>1. \A j \in DOMAIN loads' : loads'[j].by = "job" => j = Len(loads') /\ loads'[j].since = version
    BY <1>1, <1>6
  <2>2. version >= job'.made
    BY <1>2, <1>3, <1>4
  <2> QED
    BY <1>0, <1>3, <1>4, <2>1, <2>2 DEF JobOk
<1>9. EditorOk'
  BY <1>3 DEF EditorOk
<1>10. QueryOk'
  <2>1. \A i \in DOMAIN loads' : i = Len(loads') => loads'[i].query = Query
    BY <1>6
  <2> QED
    BY <1>0, <1>6, <2>1 DEF Inv, QueryOk, Query
<1>11. SuccessOk'
  BY <1>0, <1>1, <1>3, <1>4 DEF SuccessOk, ToldOk
<1> QED
  BY <1>0, <1>6, <1>7, <1>8, <1>9, <1>10, <1>11 DEF Inv

LEMMA AcceptedStep == ASSUME Inv, Accepted PROVE Inv'
<1>0. job # NoJob /\ job.stage = "sent" /\ job.made # 0 /\ UNCHANGED <<at, server, query, table, lost>>
  BY DEF Accepted
<1>1. CASE AcceptedAwaited
  <2>1. /\ at.refresh = "awaited" /\ loads' = Append(loads, Load(Query, "job"))
        /\ loading' = TRUE /\ error' = FALSE /\ job' = [job EXCEPT !.stage = "reload"]
        /\ UNCHANGED <<timer, editor, feedback, outcome>>
    BY <1>1 DEF AcceptedAwaited, Reload
  <2> QED
    BY <1>0, <2>1, RereadStep
<1>2. CASE AcceptedSilent
  <2>1. /\ at.refresh = "silent" /\ loads' = Append(loads, Load(Query, "job"))
        /\ feedback' = {"success"} /\ outcome' = job.made
        /\ editor' = editor \/ editor' = NoEditor
        /\ job' = [job EXCEPT !.stage = "reload"] /\ UNCHANGED <<timer, loading, error>>
    BY <1>2 DEF AcceptedSilent, Succeed
  <2>2. loading' \in BOOLEAN /\ error' \in BOOLEAN
    BY <2>1 DEF Inv, Types, ListTypes
  <2> QED
    BY <1>0, <2>1, <2>2, RereadStep
<1>3. CASE AcceptedKeyed
  <2>0. /\ UNCHANGED <<at, version, stamp, page, text, sent, loads, loading, error, shown, overtaken, lost>>
        /\ at.refresh = "keyed" /\ feedback' = {"success"} /\ outcome' = job.made
        /\ editor' = NoEditor /\ job' = NoJob /\ timer' = TRUE
    BY <1>0, <1>3 DEF AcceptedKeyed, Succeed, server, query, table, list
  <2>1. PageOk(at) /\ job.made \in 0 .. version
    BY <1>0, PageFacts DEF Inv, Types, FormTypes
  <2>2. FormTypes'
    <3>1. feedback' \subseteq {"error", "success"}
      BY <2>0
    <3> QED
      BY <2>0, <2>1, <3>1 DEF FormTypes
  <2>3. Types'
    BY <2>0, <2>2 DEF Inv, Types, ServerTypes, QueryTypes, ListTypes, TableTypes
  <2>4. \A j \in DOMAIN loads : loads[j].by # "job"
    BY <1>0, AtService
  <2>5. InOrder' /\ JobOk' /\ EditorOk'
    BY <2>0, <2>4 DEF Inv, InOrder, JobOk, EditorOk
  <2>6. Pausing' /\ at.filter # "submitted"
    BY <2>0, <2>1 DEF Pausing, PageOk
  <2>7. QueryOk'
    BY <2>0, <2>6 DEF Inv, QueryOk
  <2>8. SuccessOk'
    BY <1>0, <2>0 DEF SuccessOk, ToldOk
  <2> QED
    BY <2>0, <2>3, <2>5, <2>7, <2>8 DEF Inv
<1> QED
  BY <1>1, <1>2, <1>3 DEF Accepted

LEMMA FailedStep == ASSUME Inv, Failed PROVE Inv'
<1>0. /\ UNCHANGED <<at, version, stamp, page, text, sent, timer, loads, loading, shown, overtaken, editor, lost>>
      /\ job # NoJob /\ job.stage = "sent" /\ job' = NoJob
      /\ feedback' = {"error"} /\ outcome' = 0
      /\ error' = IF at.refresh = "silent" THEN FALSE ELSE error
  BY DEF Failed, server, query, table
<1>1. \A j \in DOMAIN loads : loads[j].by # "job"
  BY <1>0, AtService
<1>2. Types'
  <2>1. outcome' \in 0 .. version /\ feedback' \subseteq {"error", "success"}
    BY <1>0 DEF Inv, Types, ServerTypes
  <2>2. FormTypes' /\ ListTypes'
    BY <1>0, <2>1 DEF Inv, Types, FormTypes, ListTypes
  <2> QED
    BY <1>0, <2>2 DEF Inv, Types, ServerTypes, QueryTypes, TableTypes
<1>3. InOrder' /\ JobOk' /\ EditorOk'
  BY <1>0, <1>1 DEF Inv, InOrder, JobOk, EditorOk
<1>4. QueryOk' /\ SuccessOk'
  BY <1>0 DEF Inv, QueryOk, Pausing, Awaited, Query, SuccessOk
<1> QED
  BY <1>0, <1>2, <1>3, <1>4 DEF Inv

-----------------------------------------------------------------------------
(* The theorems.                                                              *)

LEMMA StepInv == Inv /\ [Next]_vars => Inv'
<1> SUFFICES ASSUME Inv, [Next]_vars PROVE Inv'
  OBVIOUS
<1>1. CASE SetPage \/ TypeToSubmit \/ Type \/ SubmitText \/ SendRequest
  BY <1>1, QueryStep
<1>2. CASE \E i \in DOMAIN loads : ListStep(i) \/ RefreshStep(i)
  BY <1>2, ArriveStep, FailStep, RefreshedStep, NotRefreshedStep DEF ListStep, RefreshStep
<1>3. CASE (\E kind \in {"create", "edit", "confirm"} : Open(kind)) \/ Cancel \/ Reject
  BY <1>3, DrawerStep
<1>4. CASE Submit
  BY <1>4, SubmitStep
<1>5. CASE Store
  BY <1>5, StoreStep
<1>6. CASE Accepted
  BY <1>6, AcceptedStep
<1>7. CASE Failed
  BY <1>7, FailedStep
<1>8. CASE OthersChange
  BY <1>8, OthersStep
<1>9. CASE UNCHANGED vars
  BY <1>9 DEF vars, server, query, list, table, form, Inv, Types, ServerTypes, QueryTypes,
    ListTypes, TableTypes, FormTypes, InOrder, JobOk, EditorOk, QueryOk, Pausing, Awaited, Query,
    SuccessOk, ToldOk, RereadOk, KeyedOk, Fresh
<1> QED
  BY <1>1, <1>2, <1>3, <1>4, <1>5, <1>6, <1>7, <1>8, <1>9 DEF Next

LEMMA Invariance == Spec => []Inv
BY InitInv, StepInv, PTL DEF Spec

\* The type invariant, for every page and every number of texts, versions and requests.
THEOREM TypeCorrect == Spec => []TypeOK
BY Invariance, InvProperties, PTL

\* useTradePage, useMembershipPage, useCustomerDirectory, usePromotionPage: a table with
\* nothing under way shows the rows of the page and text in the boxes, unless an answer
\* was overtaken.
THEOREM QueryShown == Spec => []RowsAreOfQuery
BY Invariance, InvProperties, PTL

\* executeReview, submit, disable, save, remove: success is told only of a change that the
\* service has made, and the rows show it, unless an answer was overtaken.
THEOREM SuccessShown == Spec => []SuccessIsShown
BY Invariance, InvProperties, PTL

\* begin, updateCampaign, updateOffer: an edit names the version its drawer was opened
\* with, so it replaces no change its operator had not seen.
THEOREM EditsKept == Spec => []NoLostEdit
BY Invariance, InvProperties, PTL
=============================================================================
