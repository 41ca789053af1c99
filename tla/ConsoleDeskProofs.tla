--------------------------- MODULE ConsoleDeskProofs ---------------------------
(***************************************************************************)
(* The safety properties of the two parts of Console in which a page has   *)
(* requests in flight that end in any order: the detail pages and the      *)
(* switches of offers, for every value of the constants.                   *)
(***************************************************************************)
EXTENDS ConsoleProofs, RequestSequences

-----------------------------------------------------------------------------
(* The detail pages.                                                          *)

LoadRecords == [id : Ids, since : Nat \ {0}, by : {"page", "job"}, late : BOOLEAN]

DetailTypes ==
  /\ Detail!TypeOK
  /\ loads \in Seq(LoadRecords)
  /\ shown \in [id : Ids, version : Nat \ {0}] \cup {Detail!Blank}
  /\ outcome \in [id : Ids, version : Nat \ {0}] \cup {Detail!Blank}
  /\ job \in [id : Ids, step : {"sent", "reload"}, made : Nat] \cup {Detail!NoJob}
  /\ job.step # "none" => job.made <= version[job.id]
  /\ job.step = "reload" => job.made # 0
  /\ outcome # Detail!Blank => outcome.version <= version[outcome.id]

\* At most one request reads a membership again, for the job there is; it and the ones sent
\* later find what the job has made.
JobOk ==
  \A i \in DOMAIN loads :
    loads[i].by = "job" =>
      /\ job.step = "reload" /\ loads[i].id = job.id
      /\ \A j \in DOMAIN loads : loads[j].by = "job" => i = j
      /\ \A j \in DOMAIN loads : j >= i /\ loads[j].id = job.id => loads[j].since >= job.made

\* Once success is told, a request either finds what was saved or is late.
SuccessOk ==
  success =>
    /\ job = Detail!NoJob /\ outcome # Detail!Blank
    /\ stray \/ (shown.id = outcome.id => shown.version >= outcome.version)
    /\ \A i \in DOMAIN loads :
         loads[i].late \/ (loads[i].id = outcome.id => loads[i].since >= outcome.version)

DetailInv ==
  /\ DetailTypes
  /\ JobOk
  /\ SuccessOk
  /\ loading => \E i \in DOMAIN loads : loads[i].by = "page"
  /\ loads = <<>> => error \/ stray \/ shown.id = url

LEMMA DetailProperties == DetailInv => Detail!DetailIsOfUrl /\ Detail!SavedIsShown
<1> SUFFICES ASSUME DetailInv PROVE Detail!DetailIsOfUrl /\ Detail!SavedIsShown
  OBVIOUS
<1>1. Detail!DetailIsOfUrl
  BY DEF DetailInv, DetailTypes, Detail!TypeOK, Detail!DetailIsOfUrl
<1>2. Detail!SavedIsShown
  BY ConsoleAssumption DEF DetailInv, DetailTypes, SuccessOk, Detail!SavedIsShown, Detail!Blank
<1> QED
  BY <1>1, <1>2

LEMMA DetailInit == Detail!Init => DetailInv
<1> SUFFICES ASSUME Detail!Init PROVE DetailInv
  OBVIOUS
<1> DEFINE first == [id |-> url, since |-> 1, by |-> "page", late |-> FALSE]
<1>1. loads = <<first>> /\ url \in Ids /\ version \in [Ids -> Nat \ {0}] /\ version[url] = 1
  BY DEF Detail!Init, Detail!Load
<1>2. loads \in Seq(LoadRecords) /\ Len(loads) = 1 /\ loads[1] = first
  BY <1>1 DEF LoadRecords
<1>3. Detail!TypeOK
  <2>1. \A i \in DOMAIN loads : i = 1
    BY <1>2
  <2>2. \A i \in DOMAIN loads : loads[i].id \in Ids /\ loads[i].since \in 1 .. version[loads[i].id]
    BY <1>1, <1>2, <2>1
  <2>3. version \in [Ids -> 1 .. MaxVersion]
    BY BoundsAssumption DEF Detail!Init
  <2> QED
    BY <2>2, <2>3 DEF Detail!Init, Detail!TypeOK, Detail!NoJob
<1>4. JobOk /\ SuccessOk
  BY <1>1, <1>2 DEF JobOk, SuccessOk, Detail!Init
<1> QED
  BY <1>1, <1>2, <1>3, <1>4 DEF DetailInv, DetailTypes, Detail!Init, Detail!NoJob

\* A request that ends leaves the others as they were, those sent before it late.
LEMMA OverStep ==
  ASSUME loads \in Seq(LoadRecords), NEW i \in DOMAIN loads, Detail!Over(i)
  PROVE  /\ loads' \in Seq(LoadRecords) /\ Len(loads') = Len(loads) - 1
         /\ \A j \in DOMAIN loads' :
              /\ Was(i, j) \in DOMAIN loads \ {i}
              /\ loads'[j].id = loads[Was(i, j)].id /\ loads'[j].by = loads[Was(i, j)].by
              /\ loads'[j].since = loads[Was(i, j)].since
              /\ loads'[j].late = (loads[Was(i, j)].late \/ Was(i, j) < i)
<1>0. PICK s : s = [j \in DOMAIN loads |-> [loads[j] EXCEPT !.late = @ \/ j < i]]
  OBVIOUS
<1>1. \A j \in DOMAIN loads : loads[j] \in LoadRecords
  OBVIOUS
<1>2. \A j \in DOMAIN loads :
        /\ s[j] \in LoadRecords
        /\ s[j].id = loads[j].id /\ s[j].by = loads[j].by /\ s[j].since = loads[j].since
        /\ s[j].late = (loads[j].late \/ j < i)
  BY <1>0, <1>1 DEF LoadRecords
<1>3. s \in Seq(LoadRecords) /\ DOMAIN s = DOMAIN loads /\ Len(s) = Len(loads)
  <2>1. DOMAIN loads = 1 .. Len(loads) /\ Len(loads) \in Nat
    OBVIOUS
  <2>2. s \in [1 .. Len(loads) -> LoadRecords]
    BY <1>0, <1>2, <2>1
  <2> QED
    BY <1>0, <2>1, <2>2
<1>4. loads' = Without(s, i)
  BY <1>0 DEF Detail!Over, Detail!RemoveAt, Without
<1>5. s \in Seq(LoadRecords) /\ i \in DOMAIN s
  BY <1>3
<1>6. /\ loads' \in Seq(LoadRecords) /\ Len(loads') = Len(s) - 1
      /\ \A j \in DOMAIN loads' : Was(i, j) \in DOMAIN s \ {i} /\ loads'[j] = s[Was(i, j)]
  <2>1. Without(s, i) \in Seq(LoadRecords) /\ Len(Without(s, i)) = Len(s) - 1
    BY <1>5, Removed
  <2>2. \A j \in DOMAIN Without(s, i) :
          Was(i, j) \in DOMAIN s \ {i} /\ Without(s, i)[j] = s[Was(i, j)]
    BY <1>5, Removed
  <2> QED
    BY <1>4, <2>1, <2>2
<1> QED
  BY <1>2, <1>3, <1>6

\* A request that is sent finds at least what there is by now.
LEMMA SentStep ==
  ASSUME DetailInv, NEW id \in Ids, NEW by1 \in {"page", "job"},
         loads' = Append(loads, Detail!Load(id, by1)), UNCHANGED version
  PROVE  /\ loads' \in Seq(LoadRecords) /\ loads' # <<>>
         /\ \A i \in DOMAIN loads' : loads'[i].id \in Ids /\ loads'[i].since \in 1 .. version'[loads'[i].id]
         /\ \A j \in DOMAIN loads' :
              \/ j \in DOMAIN loads /\ j < Len(loads) + 1 /\ loads'[j] = loads[j]
              \/ /\ j = Len(loads) + 1 /\ loads'[j].id = id /\ loads'[j].by = by1
                 /\ loads'[j].since = version[id] /\ ~loads'[j].late
         /\ Len(loads) + 1 \in DOMAIN loads'
<1> DEFINE r == Detail!Load(id, by1)
<1>1. /\ loads \in Seq(LoadRecords) /\ version \in [Ids -> Nat \ {0}]
      /\ \A i \in DOMAIN loads : loads[i].id \in Ids /\ loads[i].since \in 1 .. version[loads[i].id]
  BY BoundsAssumption DEF DetailInv, DetailTypes, Detail!TypeOK
<1>2. /\ r \in LoadRecords /\ r.id = id /\ r.by = by1 /\ r.since = version[id] /\ ~r.late
      /\ version[id] \in Nat \ {0}
  BY <1>1 DEF Detail!Load, LoadRecords
<1>3. PICK x \in LoadRecords : x = r
  BY <1>2
<1>4. /\ Append(loads, x) \in Seq(LoadRecords) /\ Len(Append(loads, x)) = Len(loads) + 1
      /\ \A j \in DOMAIN Append(loads, x) :
           \/ j \in DOMAIN loads /\ j < Len(loads) + 1 /\ Append(loads, x)[j] = loads[j]
           \/ j = Len(loads) + 1 /\ Append(loads, x)[j] = x
  BY <1>1, Appended
<1>5. loads' = Append(loads, x)
  BY <1>3
<1>6. \A j \in DOMAIN loads' :
        \/ j \in DOMAIN loads /\ j < Len(loads) + 1 /\ loads'[j] = loads[j]
        \/ j = Len(loads) + 1 /\ loads'[j] = x
  BY <1>4, <1>5
<1>7. loads' \in Seq(LoadRecords) /\ loads' # <<>> /\ Len(loads) + 1 \in DOMAIN loads'
  BY <1>1, <1>4, <1>5
<1> HIDE DEF r
<1> QED
  BY <1>1, <1>2, <1>3, <1>6, <1>7

LEMMA JumpStep ==
  ASSUME DetailInv, NEW id \in Ids, Detail!Jump(id)
  PROVE  DetailInv'
<1>1. UNCHANGED <<page, version, shown, editor, job, success, outcome, stray>>
  BY DEF Detail!Jump, Detail!form
<1>2. /\ loads' \in Seq(LoadRecords) /\ loads' # <<>>
      /\ \A i \in DOMAIN loads' : loads'[i].id \in Ids /\ loads'[i].since \in 1 .. version'[loads'[i].id]
      /\ \A j \in DOMAIN loads' :
           \/ j \in DOMAIN loads /\ j < Len(loads) + 1 /\ loads'[j] = loads[j]
           \/ /\ j = Len(loads) + 1 /\ loads'[j].id = id /\ loads'[j].by = "page"
              /\ loads'[j].since = version[id] /\ ~loads'[j].late
      /\ Len(loads) + 1 \in DOMAIN loads'
  BY <1>1, SentStep DEF Detail!Jump
<1>3. url' = id /\ error' = FALSE /\ loading' \in BOOLEAN
  BY DEF Detail!Jump
<1>4. DetailTypes'
  BY <1>1, <1>2, <1>3 DEF DetailInv, DetailTypes, Detail!TypeOK
<1>5. JobOk'
  BY <1>1, <1>2 DEF DetailInv, DetailTypes, JobOk
<1>6. SuccessOk'
  BY <1>1, <1>2 DEF DetailInv, DetailTypes, SuccessOk
<1> QED
  BY <1>2, <1>4, <1>5, <1>6 DEF DetailInv

LEMMA AcceptedStep ==
  ASSUME DetailInv, Detail!Accepted
  PROVE  DetailInv'
<1>0. /\ job.step = "sent" /\ job.id \in Ids /\ job \in [id : Ids, step : {"sent", "reload"}, made : Nat]
      /\ job.made # 0 /\ job.made <= version[job.id] /\ ~success
      /\ \A i \in DOMAIN loads : loads[i].by # "job"
  BY DEF DetailInv, DetailTypes, Detail!NoJob, JobOk, SuccessOk, Detail!Accepted
<1>1. UNCHANGED <<page, url, version, shown, loading, editor, success, outcome, stray>>
  BY DEF Detail!Accepted
<1>2. /\ loads' \in Seq(LoadRecords) /\ loads' # <<>>
      /\ \A i \in DOMAIN loads' : loads'[i].id \in Ids /\ loads'[i].since \in 1 .. version'[loads'[i].id]
      /\ \A j \in DOMAIN loads' :
           \/ j \in DOMAIN loads /\ j < Len(loads) + 1 /\ loads'[j] = loads[j]
           \/ /\ j = Len(loads) + 1 /\ loads'[j].id = job.id /\ loads'[j].by = "job"
              /\ loads'[j].since = version[job.id] /\ ~loads'[j].late
      /\ Len(loads) + 1 \in DOMAIN loads'
  BY <1>0, <1>1, SentStep DEF Detail!Accepted
<1>3. /\ error' = FALSE
      /\ job' \in [id : Ids, step : {"sent", "reload"}, made : Nat]
      /\ job'.id = job.id /\ job'.step = "reload" /\ job'.made = job.made
  BY <1>0 DEF Detail!Accepted
<1>4. DetailTypes'
  BY <1>0, <1>1, <1>2, <1>3 DEF DetailInv, DetailTypes, Detail!TypeOK
<1>5. JobOk'
  <2>1. ASSUME NEW i \in DOMAIN loads', loads'[i].by = "job"
        PROVE  i = Len(loads) + 1
    BY <1>0, <1>2, <2>1
  <2>2. ASSUME NEW j \in DOMAIN loads', j >= Len(loads) + 1
        PROVE  j = Len(loads) + 1
    BY <1>2, <2>2
  <2>3. loads'[Len(loads) + 1].id = job'.id /\ loads'[Len(loads) + 1].since >= job'.made
    BY <1>0, <1>2, <1>3
  <2> QED
    BY <1>3, <2>1, <2>2, <2>3 DEF JobOk
<1>6. SuccessOk'
  BY <1>0, <1>1 DEF SuccessOk
<1>7. loading' => \E i \in DOMAIN loads' : loads'[i].by = "page"
  <2>1. \A j \in DOMAIN loads : j \in DOMAIN loads' /\ loads'[j] = loads[j]
    BY <1>1, <1>2 DEF DetailInv, DetailTypes
  <2> QED
    BY <1>1, <2>1 DEF DetailInv
<1> QED
  BY <1>2, <1>4, <1>5, <1>6, <1>7 DEF DetailInv

\* What the steps that end a request have in common.
LEMMA EndOfRequest ==
  ASSUME DetailInv, NEW i \in DOMAIN loads, Detail!Over(i), UNCHANGED version
  PROVE  /\ loads' \in Seq(LoadRecords)
         /\ \A j \in DOMAIN loads' : loads'[j].id \in Ids /\ loads'[j].since \in 1 .. version'[loads'[j].id]
         /\ \A j \in DOMAIN loads' :
              /\ j \in Nat /\ Was(i, j) \in DOMAIN loads \ {i}
              /\ loads'[j].id = loads[Was(i, j)].id /\ loads'[j].by = loads[Was(i, j)].by
              /\ loads'[j].since = loads[Was(i, j)].since
              /\ loads[Was(i, j)].late => loads'[j].late
              /\ Was(i, j) < i => loads'[j].late
         /\ \A j, k \in DOMAIN loads' : (j >= k <=> Was(i, j) >= Was(i, k)) /\ (Was(i, j) = Was(i, k) => j = k)
         /\ \A k \in DOMAIN loads \ {i} : \E j \in DOMAIN loads' : Was(i, j) = k
<1>1. loads \in Seq(LoadRecords) /\ i \in Nat
  BY DEF DetailInv, DetailTypes
<1>2. /\ loads' \in Seq(LoadRecords) /\ Len(loads') = Len(loads) - 1
      /\ \A j \in DOMAIN loads' :
           /\ Was(i, j) \in DOMAIN loads \ {i}
           /\ loads'[j].id = loads[Was(i, j)].id /\ loads'[j].by = loads[Was(i, j)].by
           /\ loads'[j].since = loads[Was(i, j)].since
           /\ loads'[j].late = (loads[Was(i, j)].late \/ Was(i, j) < i)
  BY <1>1, OverStep
<1>3. \A j \in DOMAIN loads' : j \in Nat
  BY <1>2
<1>4. \A j, k \in DOMAIN loads' : (j >= k <=> Was(i, j) >= Was(i, k)) /\ (Was(i, j) = Was(i, k) => j = k)
  BY <1>1, <1>3 DEF Was
<1>a. \A j \in DOMAIN loads' :
        (loads[Was(i, j)].late => loads'[j].late) /\ (Was(i, j) < i => loads'[j].late)
  BY <1>2
<1>5. ASSUME NEW k \in DOMAIN loads \ {i}
      PROVE  \E j \in DOMAIN loads' : Was(i, j) = k
  <2>1. k \in 1 .. Len(loads) /\ i \in 1 .. Len(loads) /\ DOMAIN loads' = 1 .. Len(loads) - 1
    BY <1>1, <1>2
  <2>2. CASE k < i
    BY <2>1, <2>2 DEF Was
  <2>3. CASE k > i
    <3>1. k - 1 \in DOMAIN loads' /\ Was(i, k - 1) = k
      BY <2>1, <2>3 DEF Was
    <3> QED
      BY <3>1
  <2> QED
    BY <2>1, <2>2, <2>3
<1>6. \A j \in DOMAIN loads' : loads'[j].id \in Ids /\ loads'[j].since \in 1 .. version'[loads'[j].id]
  BY <1>2 DEF DetailInv, DetailTypes, Detail!TypeOK
<1> QED
  BY <1>2, <1>3, <1>4, <1>5, <1>6, <1>a

LEMMA JobOverStep ==
  ASSUME DetailInv, NEW i \in DOMAIN loads, Detail!Over(i), UNCHANGED version,
         loads[i].by = "job" \/ UNCHANGED job
  PROVE  JobOk'
<1>1. /\ \A j \in DOMAIN loads' :
           /\ Was(i, j) \in DOMAIN loads \ {i}
           /\ loads'[j].id = loads[Was(i, j)].id /\ loads'[j].by = loads[Was(i, j)].by
           /\ loads'[j].since = loads[Was(i, j)].since
      /\ \A j, k \in DOMAIN loads' : (j >= k <=> Was(i, j) >= Was(i, k)) /\ (Was(i, j) = Was(i, k) => j = k)
  BY EndOfRequest
<1>2. CASE loads[i].by = "job"
  <2>1. \A j \in DOMAIN loads' : loads'[j].by # "job"
    BY <1>1, <1>2 DEF DetailInv, JobOk
  <2> QED
    BY <2>1 DEF JobOk
<1>3. CASE UNCHANGED job
  <2>1. ASSUME NEW k \in DOMAIN loads', loads'[k].by = "job"
        PROVE  /\ job'.step = "reload" /\ loads'[k].id = job'.id
               /\ \A j \in DOMAIN loads' : loads'[j].by = "job" => k = j
               /\ \A j \in DOMAIN loads' :
                    j >= k /\ loads'[j].id = job'.id => loads'[j].since >= job'.made
    <3>1. /\ Was(i, k) \in DOMAIN loads /\ loads[Was(i, k)].by = "job"
          /\ loads'[k].id = loads[Was(i, k)].id
      BY <1>1, <2>1
    <3>2. /\ job.step = "reload" /\ loads[Was(i, k)].id = job.id
          /\ \A j \in DOMAIN loads : loads[j].by = "job" => Was(i, k) = j
          /\ \A j \in DOMAIN loads :
               j >= Was(i, k) /\ loads[j].id = job.id => loads[j].since >= job.made
      BY <3>1 DEF DetailInv, JobOk
    <3> QED
      BY <1>1, <1>3, <2>1, <3>1, <3>2
  <2> QED
    BY <2>1 DEF JobOk
<1> QED
  BY <1>2, <1>3

\* The answer that is shown is what its request was sent for, or stray.
LEMMA ShowStep ==
  ASSUME DetailInv, NEW i \in DOMAIN loads, Detail!Show(i)
  PROVE  /\ shown' \in [id : Ids, version : Nat \ {0}] /\ shown'.id = loads[i].id
         /\ shown'.version >= loads[i].since /\ shown'.version \in 1 .. version[shown'.id]
         /\ loads[i].late => stray'
         /\ loads[i].id # url => stray'
         /\ stray' \in BOOLEAN /\ loading' = FALSE
         /\ loads[i].id \in Ids /\ loads[i].since \in Nat
<1>1. /\ version \in [Ids -> Nat \ {0}] /\ loads[i] \in LoadRecords
      /\ loads[i].id \in Ids /\ loads[i].since \in 1 .. version[loads[i].id]
  BY BoundsAssumption DEF DetailInv, DetailTypes, Detail!TypeOK
<1>2. PICK v \in loads[i].since .. version[loads[i].id] : shown' = [id |-> loads[i].id, version |-> v]
  BY DEF Detail!Show
<1>3. loads[i].late \in BOOLEAN /\ loads[i].id \in Ids /\ version[loads[i].id] \in Nat
  BY <1>1 DEF LoadRecords
<1>4. /\ stray' \in BOOLEAN /\ loading' = FALSE
      /\ loads[i].late => stray'
      /\ loads[i].id # url => stray'
  BY <1>3 DEF Detail!Show
<1>5. /\ shown' \in [id : Ids, version : Nat \ {0}] /\ shown'.id = loads[i].id
      /\ shown'.version >= loads[i].since /\ shown'.version \in 1 .. version[shown'.id]
  BY <1>1, <1>2
<1> QED
  BY <1>1, <1>4, <1>5

LEMMA ArrivesStep ==
  ASSUME DetailInv, NEW i \in DOMAIN loads, Detail!Arrives(i)
  PROVE  DetailInv'
<1>1. /\ loads[i].by = "page" /\ Detail!Over(i) /\ Detail!Show(i)
      /\ UNCHANGED <<page, url, version, error, editor, job, success, outcome>>
  BY DEF Detail!Arrives, Detail!form
<1>2. JobOk'
  BY <1>1, JobOverStep
<1>3. DetailTypes'
  BY <1>1, EndOfRequest, ShowStep DEF DetailInv, DetailTypes, Detail!TypeOK
<1>4. SuccessOk'
  <2>1. ASSUME success
        PROVE  stray' \/ (shown'.id = outcome.id => shown'.version >= outcome.version)
    <3>1. loads[i].late \/ (loads[i].id = outcome.id => loads[i].since >= outcome.version)
      BY <2>1 DEF DetailInv, SuccessOk
    <3>2. outcome.version \in Nat
      BY <2>1 DEF DetailInv, DetailTypes, SuccessOk
    <3>3. /\ loads[i].late => stray'
          /\ shown'.id = loads[i].id /\ shown'.version >= loads[i].since
          /\ shown'.version \in Nat /\ loads[i].since \in Nat
      BY <1>1, ShowStep
    <3> QED
      BY <3>1, <3>2, <3>3
  <2>2. ASSUME success, NEW j \in DOMAIN loads'
        PROVE  loads'[j].late \/ (loads'[j].id = outcome.id => loads'[j].since >= outcome.version)
    BY <1>1, <2>2, EndOfRequest DEF DetailInv, SuccessOk
  <2> QED
    BY <1>1, <2>1, <2>2 DEF DetailInv, SuccessOk
<1> QED
  BY <1>1, <1>2, <1>3, <1>4, ShowStep DEF DetailInv

LEMMA RefreshedStep ==
  ASSUME DetailInv, NEW i \in DOMAIN loads, Detail!Refreshed(i)
  PROVE  DetailInv'
<1>1. /\ loads[i].by = "job" /\ Detail!Over(i) /\ Detail!Show(i)
      /\ UNCHANGED <<page, url, version, error>>
      /\ success' = TRUE /\ outcome' = [id |-> job.id, version |-> job.made] /\ editor' = FALSE
      /\ job' = Detail!NoJob
  BY DEF Detail!Refreshed, Detail!Succeed
<1>2. /\ job.step = "reload" /\ job \in [id : Ids, step : {"sent", "reload"}, made : Nat]
      /\ job.made # 0 /\ job.made <= version[job.id] /\ loads[i].id = job.id
      /\ \A j \in DOMAIN loads : j >= i /\ loads[j].id = job.id => loads[j].since >= job.made
      /\ loads \in Seq(LoadRecords)
  BY <1>1 DEF DetailInv, DetailTypes, JobOk, Detail!NoJob
<1>3. JobOk'
  BY <1>1, JobOverStep
<1>4. outcome' \in [id : Ids, version : Nat \ {0}] /\ outcome'.id = job.id /\ outcome'.version = job.made
  BY <1>1, <1>2
<1>5. DetailTypes'
  <2>1. Detail!TypeOK'
    BY <1>1, EndOfRequest, ShowStep DEF DetailInv, DetailTypes, Detail!TypeOK, Detail!NoJob
  <2>2. outcome'.version <= version'[outcome'.id]
    BY <1>1, <1>2, <1>4
  <2>3. loads' \in Seq(LoadRecords) /\ shown' \in [id : Ids, version : Nat \ {0}]
    BY <1>1, EndOfRequest, ShowStep
  <2> QED
    BY <1>1, <1>4, <2>1, <2>2, <2>3 DEF DetailTypes, Detail!NoJob
<1>6. SuccessOk'
  <2>1. outcome' # Detail!Blank
    BY <1>4 DEF Detail!Blank
  <2>2. shown'.id = outcome'.id => shown'.version >= outcome'.version
    <3>1. loads[i].since >= job.made
      BY <1>2
    <3>2. shown'.version >= loads[i].since /\ shown'.version \in Nat /\ loads[i].since \in Nat
      BY <1>1, ShowStep
    <3> QED
      BY <1>2, <1>4, <3>1, <3>2
  <2>3. ASSUME NEW j \in DOMAIN loads', loads'[j].id = outcome'.id
        PROVE  loads'[j].late \/ loads'[j].since >= outcome'.version
    <3>1. /\ Was(i, j) \in DOMAIN loads \ {i} /\ loads'[j].id = loads[Was(i, j)].id
          /\ loads'[j].since = loads[Was(i, j)].since
          /\ Was(i, j) < i => loads'[j].late
      BY <1>1, EndOfRequest
    <3>2. Was(i, j) < i \/ Was(i, j) >= i
      BY <1>2, <3>1
    <3> QED
      BY <1>2, <1>4, <2>3, <3>1, <3>2
  <2> QED
    BY <1>1, <2>1, <2>2, <2>3 DEF SuccessOk
<1> QED
  BY <1>1, <1>2, <1>3, <1>5, <1>6, ShowStep DEF DetailInv

\* A failed request changes nothing but what the page says of it.
LEMMA FailStep ==
  ASSUME DetailInv, NEW i \in DOMAIN loads, Detail!Fails(i) \/ Detail!NotRefreshed(i)
  PROVE  DetailInv'
<1>1. /\ Detail!Over(i) /\ error' = TRUE
      /\ UNCHANGED <<page, url, version, shown, stray, editor, success, outcome>>
      /\ \/ UNCHANGED job /\ loads[i].by = "page" /\ loading' = FALSE
         \/ job' = Detail!NoJob /\ loads[i].by = "job" /\ UNCHANGED loading
  BY DEF Detail!Fails, Detail!NotRefreshed, Detail!form
<1>2. JobOk'
  BY <1>1, JobOverStep
<1>3. DetailTypes'
  <2>1. /\ loads' \in Seq(LoadRecords)
        /\ \A j \in DOMAIN loads' : loads'[j].id \in Ids /\ loads'[j].since \in 1 .. version'[loads'[j].id]
    BY <1>1, EndOfRequest
  <2>2. /\ error' \in BOOLEAN /\ loading' \in BOOLEAN
        /\ UNCHANGED job \/ job' = [id |-> NoId, step |-> "none", made |-> 0]
    BY <1>1 DEF DetailInv, DetailTypes, Detail!TypeOK, Detail!NoJob
  <2>3. Detail!TypeOK'
    BY <1>1, <2>1, <2>2 DEF DetailInv, DetailTypes, Detail!TypeOK, Detail!Blank
  <2> QED
    BY <1>1, <2>1, <2>2, <2>3 DEF DetailInv, DetailTypes, Detail!NoJob, Detail!Blank
<1>4. SuccessOk'
  <2>1. ASSUME success, NEW j \in DOMAIN loads'
        PROVE  loads'[j].late \/ (loads'[j].id = outcome.id => loads'[j].since >= outcome.version)
    BY <1>1, <2>1, EndOfRequest DEF DetailInv, SuccessOk
  <2> QED
    BY <1>1, <2>1 DEF DetailInv, SuccessOk
<1>5. loading' => \E j \in DOMAIN loads' : loads'[j].by = "page"
  <2>1. CASE loads[i].by = "page"
    BY <1>1, <2>1
  <2>2. CASE loads[i].by = "job" /\ loading
    <3>1. PICK k \in DOMAIN loads \ {i} : loads[k].by = "page"
      BY <2>2 DEF DetailInv
    <3> QED
      BY <1>1, <3>1, EndOfRequest
  <2> QED
    BY <1>1, <2>1, <2>2
<1> QED
  BY <1>1, <1>2, <1>3, <1>4, <1>5 DEF DetailInv

\* A version that grows leaves what was found as old as it was.
LEMMA VersionStep ==
  ASSUME DetailInv, NEW id \in Ids, version[id] < MaxVersion,
         version' = [version EXCEPT ![id] = @ + 1],
         \/ UNCHANGED job
         \/ job.step = "sent" /\ job.id = id /\ job' = [job EXCEPT !.made = version'[id]],
         UNCHANGED <<page, url, loads, shown, loading, error, editor, success, outcome, stray>>
  PROVE  DetailInv'
<1>1. /\ version \in [Ids -> Nat \ {0}] /\ version' \in [Ids -> 1 .. MaxVersion]
      /\ version'[id] \in Nat \ {0}
      /\ \A x \in Ids : version[x] <= version'[x] /\ version[x] \in Nat /\ version'[x] \in Nat
  BY BoundsAssumption DEF DetailInv, DetailTypes, Detail!TypeOK
<1>2. /\ job' \in [id : Ids, step : {"sent", "reload"}, made : Nat] \cup {Detail!NoJob}
      /\ job'.step # "none" => job'.id \in Ids /\ job'.made <= version'[job'.id]
      /\ job'.step = "reload" => UNCHANGED job
  <2>1. CASE UNCHANGED job
    BY <1>1, <2>1 DEF DetailInv, DetailTypes, Detail!NoJob
  <2>2. CASE job.step = "sent" /\ job.id = id /\ job' = [job EXCEPT !.made = version'[id]]
    <3>1. job \in [id : Ids, step : {"sent", "reload"}, made : Nat]
      BY <2>2 DEF DetailInv, DetailTypes, Detail!NoJob
    <3> QED
      BY <1>1, <2>2, <3>1
  <2> QED
    BY <2>1, <2>2
<1>3. DetailTypes'
  <2>1. \A i \in DOMAIN loads' : loads'[i].id \in Ids /\ loads'[i].since \in 1 .. version'[loads'[i].id]
    BY <1>1 DEF DetailInv, DetailTypes, Detail!TypeOK
  <2>2. shown' = Detail!Blank \/ (shown'.id \in Ids /\ shown'.version \in 1 .. version'[shown'.id])
    BY <1>1 DEF DetailInv, DetailTypes, Detail!TypeOK, Detail!Blank
  <2>3. outcome' # Detail!Blank => outcome'.version <= version'[outcome'.id]
    BY <1>1 DEF DetailInv, DetailTypes
  <2>4. job'.step = "reload" => job'.made # 0
    BY <1>2 DEF DetailInv, DetailTypes
  <2>5. Detail!TypeOK'
    BY <1>1, <1>2, <2>1, <2>2 DEF DetailInv, DetailTypes, Detail!TypeOK, Detail!NoJob, Detail!Blank
  <2> QED
    BY <1>2, <2>3, <2>4, <2>5 DEF DetailInv, DetailTypes, Detail!Blank, Detail!NoJob
<1>4. JobOk'
  <2>1. CASE UNCHANGED job
    BY <2>1 DEF DetailInv, JobOk
  <2>2. CASE job.step = "sent"
    BY <2>2 DEF DetailInv, JobOk
  <2> QED
    BY <2>1, <2>2
<1>5. SuccessOk'
  <2>1. success => UNCHANGED job
    BY DEF DetailInv, SuccessOk, Detail!NoJob
  <2> QED
    BY <2>1 DEF DetailInv, SuccessOk, Detail!NoJob, Detail!Blank
<1> QED
  BY <1>3, <1>4, <1>5 DEF DetailInv

\* The drawer and the call before it is answered leave the requests alone.
LEMMA DrawerStep ==
  ASSUME DetailInv, Detail!Edit \/ Detail!Cancel \/ Detail!UpdateStatus \/ Detail!Failed
  PROVE  DetailInv'
<1>1. /\ UNCHANGED <<page, url, version, loads, shown, loading, error, stray>> /\ editor' \in BOOLEAN
      /\ \/ UNCHANGED <<job, success, outcome>>
         \/ /\ job.step # "reload" /\ job' \in [id : Ids, step : {"sent"}, made : {0}] /\ success' = FALSE
            /\ outcome' = Detail!Blank
         \/ job.step = "sent" /\ job' = Detail!NoJob /\ UNCHANGED <<success, outcome>>
  <2>1. editor \in BOOLEAN /\ url \in Ids
    BY DEF DetailInv, DetailTypes, Detail!TypeOK
  <2>2. CASE Detail!Edit \/ Detail!Cancel
    BY <2>1, <2>2 DEF Detail!Edit, Detail!Cancel
  <2>3. CASE Detail!UpdateStatus
    BY <2>1, <2>3 DEF Detail!UpdateStatus, Detail!NoJob
  <2>4. CASE Detail!Failed
    BY <2>1, <2>4 DEF Detail!Failed
  <2> QED
    BY <2>2, <2>3, <2>4
<1>2. DetailTypes'
  <2>1. /\ success' \in BOOLEAN
        /\ outcome' \in [id : Ids, version : Nat \ {0}] \cup {Detail!Blank}
        /\ outcome' # Detail!Blank => outcome' = outcome
        /\ job' \in [id : Ids, step : {"sent", "reload"}, made : Nat] \cup {Detail!NoJob}
        /\ job' = job \/ (job'.made = 0 /\ job'.step # "reload")
    <3>1. /\ success \in BOOLEAN
          /\ outcome \in [id : Ids, version : Nat \ {0}] \cup {Detail!Blank}
          /\ job \in [id : Ids, step : {"sent", "reload"}, made : Nat] \cup {Detail!NoJob}
      BY DEF DetailInv, DetailTypes, Detail!TypeOK
    <3>2. CASE UNCHANGED <<job, success, outcome>>
      BY <3>1, <3>2
    <3>3. CASE /\ job' \in [id : Ids, step : {"sent"}, made : {0}] /\ success' = FALSE
               /\ outcome' = Detail!Blank
      <4>1. job' \in [id : Ids, step : {"sent", "reload"}, made : Nat]
        BY <3>3
      <4>2. job'.made = 0 /\ job'.step # "reload"
        BY <3>3
      <4> QED
        BY <3>3, <4>1, <4>2
    <3>4. CASE job' = Detail!NoJob /\ UNCHANGED <<success, outcome>>
      <4>1. job'.made = 0 /\ job'.step # "reload"
        BY <3>4 DEF Detail!NoJob
      <4> QED
        BY <3>1, <3>4, <4>1
    <3> QED
      BY <1>1, <3>2, <3>3, <3>4
  <2>2. job'.id \in Ids \cup {NoId} /\ job'.step \in {"none", "sent", "reload"}
    BY <2>1 DEF Detail!NoJob
  <2>3. Detail!TypeOK'
    BY <1>1, <2>1, <2>2 DEF DetailInv, DetailTypes, Detail!TypeOK, Detail!Blank
  <2>4. job'.step # "none" => job'.made <= version'[job'.id]
    <3>1. CASE job' = job
      BY <1>1, <3>1 DEF DetailInv, DetailTypes
    <3>2. CASE job'.made = 0 /\ job'.step # "none"
      BY <1>1, <2>1, <3>2, BoundsAssumption DEF DetailInv, DetailTypes, Detail!TypeOK, Detail!NoJob
    <3> QED
      BY <2>1, <3>1, <3>2
  <2> QED
    BY <1>1, <2>1, <2>3, <2>4 DEF DetailInv, DetailTypes, Detail!Blank
<1>3. JobOk'
  BY <1>1 DEF DetailInv, JobOk
<1>4. SuccessOk'
  BY <1>1 DEF DetailInv, SuccessOk
<1> QED
  BY <1>1, <1>2, <1>3, <1>4 DEF DetailInv

LEMMA DetailStep == DetailInv /\ [Detail!Next]_detailVars => DetailInv'
<1> SUFFICES ASSUME DetailInv, [Detail!Next]_detailVars PROVE DetailInv'
  OBVIOUS
<1>1. ASSUME NEW id \in Ids, Detail!OthersChange(id)
      PROVE  DetailInv'
  BY <1>1, VersionStep DEF Detail!OthersChange, Detail!form
<1>2. CASE Detail!Store
  <2>1. job.id \in Ids
    BY <1>2 DEF DetailInv, DetailTypes, Detail!Store, Detail!NoJob
  <2> QED
    BY <1>2, <2>1, VersionStep DEF Detail!Store
<1>3. CASE UNCHANGED detailVars
  BY <1>3 DEF detailVars, DetailInv, DetailTypes, JobOk, SuccessOk, Detail!TypeOK, Detail!NoJob,
     Detail!Blank
<1> QED
  BY <1>1, <1>2, <1>3, JumpStep, AcceptedStep, ArrivesStep, RefreshedStep, FailStep, DrawerStep
  DEF Detail!Next

LEMMA DetailInvariance == Spec => []DetailInv
<1>1. Init => DetailInv
  BY DetailInit DEF Init
<1>2. DetailInv /\ [Next]_vars => DetailInv'
  BY EachByItself, DetailStep
<1> QED
  BY <1>1, <1>2, PTL DEF Spec

\* CustomerDetail, MemberDetailPage: however addresses, answers and failures interleave, a page
\* whose requests are over shows what its address names or a failure, and has stopped loading.
THEOREM DetailOfUrl == Spec => []DetailIsOfUrl
<1>1. DetailInv => DetailIsOfUrl
  BY DetailProperties DEF DetailIsOfUrl
<1> QED
  BY <1>1, DetailInvariance, PTL

\* updateStatus: when success is told, the page has what was saved, whatever else is in flight.
THEOREM SavedShown == Spec => []SavedIsShown
<1>1. DetailInv => SavedIsShown
  BY DetailProperties DEF SavedIsShown
<1> QED
  BY <1>1, DetailInvariance, PTL

-----------------------------------------------------------------------------
(* The switches of offers.                                                    *)

ReadRecords == [query : Queries, by : {"table", "switch"}, found : SUBSET SUBSET Offers, late : BOOLEAN]
SwitchRecords == [offer : Offers, enable : BOOLEAN, query : Queries, made : BOOLEAN]

SwitchTypes ==
  /\ Switches!TypeOK
  /\ reads \in Seq(ReadRecords)
  /\ switches \in Seq(SwitchRecords)

\* Requests that are late were sent before those that are not.
LateFirst == \A i, j \in DOMAIN reads : i < j /\ reads[j].late => reads[i].late

\* A switch that is not excused is under way by itself, disabled, and does what was chosen.
SwitchOk(j) ==
  switches[j].offer \notin excused =>
    /\ statusPendingId = switches[j].offer
    /\ \A k \in DOMAIN switches : k = j
    /\ \A i \in DOMAIN reads : reads[i].by # "switch"
    /\ switches[j].enable <=> switches[j].offer \in chosen
    /\ switches[j].made => (switches[j].offer \in active <=> switches[j].offer \in chosen)

\* An offer that is neither excused nor being switched is as chosen, and the youngest request
\* finds it so, or the table shows it so unless it tells otherwise.
OfferOk(x) ==
  /\ x \in active <=> x \in chosen
  /\ \A i \in DOMAIN reads : i = Len(reads) /\ ~reads[i].late =>
       \A found \in reads[i].found : x \in found <=> x \in chosen
  /\ (\A i \in DOMAIN reads : reads[i].late) /\ ~outrun /\ ~failed => (x \in listed.active <=> x \in chosen)

\* The same of what the search box says.
QueryOk ==
  ~pause =>
    /\ \A i \in DOMAIN reads : i = Len(reads) /\ ~reads[i].late =>
         reads[i].by = "switch" \/ reads[i].query = query
    /\ (\A i \in DOMAIN reads : reads[i].late) /\ ~outrun /\ ~failed => listed.query = query \/ strayed

SwitchesInv ==
  /\ SwitchTypes
  /\ LateFirst
  /\ \A j \in DOMAIN switches : SwitchOk(j)
  /\ \A x \in Offers : x \in excused \/ x \in Switches!UnderWay \/ OfferOk(x)
  /\ QueryOk

LEMMA SwitchesProperty == SwitchesInv => Switches!ChoiceIsShown
<1> SUFFICES ASSUME SwitchesInv, switches = <<>>, reads = <<>>, ~pause, ~failed, ~outrun
             PROVE  /\ \A x \in Offers \ excused : x \in listed.active <=> x \in chosen
                    /\ listed.query = query \/ strayed
  BY DEF Switches!ChoiceIsShown
<1>1. DOMAIN reads = {} /\ Switches!UnderWay = {}
  BY DEF Switches!UnderWay
<1> QED
  BY <1>1 DEF SwitchesInv, OfferOk, QueryOk

LEMMA SwitchesInit == Switches!Init => SwitchesInv
<1> SUFFICES ASSUME Switches!Init PROVE SwitchesInv
  OBVIOUS
<1> USE DEF Switches!Init
<1>1. DOMAIN reads = {} /\ DOMAIN switches = {}
  OBVIOUS
<1>2. MaxSwitches \in Nat
  BY BoundsAssumption
<1>3. Switches!TypeOK
  <2>1. active \in SUBSET Offers /\ listed.active = active /\ chosen = active /\ excused = {}
    OBVIOUS
  <2>2. query \in Queries /\ listed.query = query
    BY QueriesAssumption
  <2>3. pause \in BOOLEAN /\ hidden \in BOOLEAN /\ failed \in BOOLEAN /\ outrun \in BOOLEAN /\ strayed \in BOOLEAN
    OBVIOUS
  <2>4. used \in 0 .. MaxSwitches /\ statusPendingId \in Offers \cup {NoOffer}
    BY <1>2
  <2> QED
    BY <1>1, <2>1, <2>2, <2>3, <2>4 DEF Switches!TypeOK
<1>4. SwitchTypes /\ LateFirst /\ QueryOk
  BY <1>1, <1>3 DEF SwitchTypes, LateFirst, QueryOk
<1>5. \A x \in Offers : OfferOk(x)
  BY <1>1 DEF OfferOk
<1> QED
  BY <1>1, <1>4, <1>5 DEF SwitchesInv

\* A list request that ends leaves the others as they were, those sent before it late.
LEMMA ReadOver ==
  ASSUME reads \in Seq(ReadRecords), NEW i \in DOMAIN reads, Switches!Over(i)
  PROVE  /\ reads' \in Seq(ReadRecords) /\ Len(reads') = Len(reads) - 1
         /\ \A j \in DOMAIN reads' :
              /\ Was(i, j) \in DOMAIN reads \ {i}
              /\ reads'[j].query = reads[Was(i, j)].query /\ reads'[j].by = reads[Was(i, j)].by
              /\ reads'[j].found = reads[Was(i, j)].found
              /\ reads'[j].late = (reads[Was(i, j)].late \/ Was(i, j) < i)
<1>0. PICK s : s = [j \in DOMAIN reads |-> [reads[j] EXCEPT !.late = @ \/ j < i]]
  OBVIOUS
<1>1. \A j \in DOMAIN reads : reads[j] \in ReadRecords
  OBVIOUS
<1>2. \A j \in DOMAIN reads :
        /\ s[j] \in ReadRecords
        /\ s[j].query = reads[j].query /\ s[j].by = reads[j].by /\ s[j].found = reads[j].found
        /\ s[j].late = (reads[j].late \/ j < i)
  BY <1>0, <1>1 DEF ReadRecords
<1>3. s \in Seq(ReadRecords) /\ DOMAIN s = DOMAIN reads /\ Len(s) = Len(reads)
  <2>1. DOMAIN reads = 1 .. Len(reads) /\ Len(reads) \in Nat
    OBVIOUS
  <2>2. s \in [1 .. Len(reads) -> ReadRecords]
    BY <1>0, <1>2, <2>1
  <2> QED
    BY <1>0, <2>1, <2>2
<1>4. reads' = Without(s, i)
  BY <1>0 DEF Switches!Over, Switches!RemoveAt, Without
<1>5. s \in Seq(ReadRecords) /\ i \in DOMAIN s
  BY <1>3
<1>6. /\ reads' \in Seq(ReadRecords) /\ Len(reads') = Len(s) - 1
      /\ \A j \in DOMAIN reads' : Was(i, j) \in DOMAIN s \ {i} /\ reads'[j] = s[Was(i, j)]
  <2>1. Without(s, i) \in Seq(ReadRecords) /\ Len(Without(s, i)) = Len(s) - 1
    BY <1>5, Removed
  <2>2. \A j \in DOMAIN Without(s, i) :
          Was(i, j) \in DOMAIN s \ {i} /\ Without(s, i)[j] = s[Was(i, j)]
    BY <1>5, Removed
  <2> QED
    BY <1>4, <2>1, <2>2
<1> QED
  BY <1>2, <1>3, <1>6

\* A list request that is sent finds what there is by now.
LEMMA ReadSent ==
  ASSUME SwitchTypes, NEW q \in Queries, NEW by1 \in {"table", "switch"}, Switches!Reload(q, by1)
  PROVE  /\ reads' \in Seq(ReadRecords)
         /\ \A j \in DOMAIN reads' :
              \/ j \in DOMAIN reads /\ j < Len(reads') /\ reads'[j] = reads[j]
              \/ /\ j = Len(reads') /\ reads'[j].query = q /\ reads'[j].by = by1
                 /\ reads'[j].found = {active} /\ ~reads'[j].late
         /\ Len(reads') \in DOMAIN reads' /\ Len(reads') = Len(reads) + 1
<1>1. PICK r : r = [query |-> q, by |-> by1, found |-> {active}, late |-> FALSE]
  OBVIOUS
<1>2. r \in ReadRecords /\ r.query = q /\ r.by = by1 /\ r.found = {active} /\ ~r.late
  BY <1>1 DEF SwitchTypes, Switches!TypeOK, ReadRecords
<1>3. /\ reads \in Seq(ReadRecords) /\ reads' = Append(reads, r)
  BY <1>1 DEF SwitchTypes, Switches!Reload, Switches!List
<1>4. /\ Append(reads, r) \in Seq(ReadRecords) /\ Len(Append(reads, r)) = Len(reads) + 1
      /\ \A j \in DOMAIN Append(reads, r) :
           \/ j \in DOMAIN reads /\ j < Len(reads) + 1 /\ Append(reads, r)[j] = reads[j]
           \/ j = Len(reads) + 1 /\ Append(reads, r)[j] = r
  BY <1>2, <1>3, Appended
<1>5. Len(reads) + 1 \in DOMAIN Append(reads, r)
  BY <1>3
<1> QED
  BY <1>2, <1>3, <1>4, <1>5

\* A switch whose call is over leaves the others as they were.
LEMMA SwitchOver ==
  ASSUME SwitchTypes, NEW i \in DOMAIN switches, switches' = Switches!RemoveAt(switches, i)
  PROVE  /\ switches' \in Seq(SwitchRecords)
         /\ \A j \in DOMAIN switches' :
              Was(i, j) \in DOMAIN switches \ {i} /\ switches'[j] = switches[Was(i, j)]
         /\ \A k \in DOMAIN switches \ {i} : \E j \in DOMAIN switches' : Was(i, j) = k
<1>1. switches \in Seq(SwitchRecords) /\ switches' = Without(switches, i)
  BY DEF SwitchTypes, Switches!RemoveAt, Without
<1>2. Without(switches, i) \in Seq(SwitchRecords) /\ Len(Without(switches, i)) = Len(switches) - 1
  BY <1>1, Removed
<1>3. \A j \in DOMAIN Without(switches, i) :
        Was(i, j) \in DOMAIN switches \ {i} /\ Without(switches, i)[j] = switches[Was(i, j)]
  BY <1>1, Removed
<1>4. ASSUME NEW k \in DOMAIN switches \ {i} PROVE \E j \in DOMAIN switches' : Was(i, j) = k
  <2>1. DOMAIN switches = 1 .. Len(switches) /\ Len(switches) \in Nat /\ DOMAIN switches' = 1 .. Len(switches) - 1
    BY <1>1, <1>2
  <2>2. CASE k < i
    BY <2>1, <2>2 DEF Was
  <2>3. CASE k > i
    <3>1. k - 1 \in DOMAIN switches' /\ Was(i, k - 1) = k
      BY <2>1, <2>3 DEF Was
    <3> QED
      BY <3>1
  <2> QED
    BY <2>1, <2>2, <2>3
<1> QED
  BY <1>1, <1>2, <1>3, <1>4

\* Of the requests that go on when one is over, the youngest is the one it was, unless that is
\* over, when all of them are late.
LEMMA YoungestOver ==
  ASSUME SwitchTypes, LateFirst, NEW i \in DOMAIN reads, Switches!Over(i)
  PROVE  /\ i = Len(reads) => \A j \in DOMAIN reads' : reads'[j].late
         /\ \A j \in DOMAIN reads' : j = Len(reads') /\ ~reads'[j].late =>
              \E k \in DOMAIN reads :
                /\ k = Len(reads) /\ ~reads[k].late /\ reads'[j].found = reads[k].found
                /\ reads'[j].by = reads[k].by /\ reads'[j].query = reads[k].query
         /\ (\A j \in DOMAIN reads' : reads'[j].late) =>
              i = Len(reads) \/ \A j \in DOMAIN reads : reads[j].late
         /\ LateFirst'
<1>1. /\ reads \in Seq(ReadRecords) /\ reads' \in Seq(ReadRecords) /\ Len(reads') = Len(reads) - 1
      /\ \A j \in DOMAIN reads' :
              /\ Was(i, j) \in DOMAIN reads \ {i}
              /\ reads'[j].query = reads[Was(i, j)].query /\ reads'[j].by = reads[Was(i, j)].by
              /\ reads'[j].found = reads[Was(i, j)].found
              /\ reads'[j].late = (reads[Was(i, j)].late \/ Was(i, j) < i)
  BY ReadOver DEF SwitchTypes
<1>2. /\ Len(reads) \in Nat /\ DOMAIN reads = 1 .. Len(reads) /\ DOMAIN reads' = 1 .. Len(reads) - 1
      /\ i \in 1 .. Len(reads)
  BY <1>1
<1>3. ASSUME NEW j \in DOMAIN reads', i = Len(reads) PROVE reads'[j].late
  <2>1. Was(i, j) < i
    BY <1>1, <1>2, <1>3
  <2> QED
    BY <1>1, <2>1
<1>4. ASSUME NEW j \in DOMAIN reads', j = Len(reads'), ~reads'[j].late
      PROVE  Was(i, j) = Len(reads) /\ Was(i, j) \in DOMAIN reads /\ ~reads[Was(i, j)].late
  <2>1. i # Len(reads)
    BY <1>3, <1>4
  <2>2. Was(i, j) = Len(reads)
    BY <1>1, <1>2, <1>4, <2>1 DEF Was
  <2> QED
    BY <1>1, <1>4, <2>2
<1>5. ASSUME \A j \in DOMAIN reads' : reads'[j].late, i # Len(reads), NEW j \in DOMAIN reads
      PROVE  reads[j].late
  <2>1. PICK m \in Nat : m = Len(reads)
    BY <1>2
  <2>2. m - 1 \in DOMAIN reads' /\ ~(m - 1 < i) /\ m - 1 + 1 = m
    BY <1>2, <1>5, <2>1
  <2>3. Was(i, m - 1) = m
    BY <2>2 DEF Was
  <2>4. ~(m < i) /\ reads'[m - 1].late
    BY <1>2, <1>5, <2>1, <2>2
  <2>5. reads[m].late
    BY <1>1, <2>2, <2>3, <2>4
  <2> QED
    BY <1>2, <2>1, <2>5 DEF LateFirst
<1>6. ASSUME NEW j \in DOMAIN reads', NEW k \in DOMAIN reads', j < k, reads'[k].late
      PROVE  reads'[j].late
  <2>1. Was(i, j) < Was(i, k) /\ Was(i, j) \in DOMAIN reads /\ Was(i, k) \in DOMAIN reads
    BY <1>1, <1>2, <1>6 DEF Was
  <2>2. CASE reads[Was(i, k)].late
    BY <1>1, <2>1, <2>2 DEF LateFirst
  <2>3. CASE Was(i, k) < i
    <3>1. Was(i, j) < i
      BY <1>2, <2>1, <2>3
    <3> QED
      BY <1>1, <3>1
  <2> QED
    BY <1>1, <1>6, <2>2, <2>3
<1>7. LateFirst'
  BY <1>6 DEF LateFirst
<1> QED
  BY <1>1, <1>3, <1>4, <1>5, <1>7

\* A search, and an answer or a failure of the list.
LEMMA SearchStep ==
  ASSUME SwitchesInv, NEW q \in Queries, Switches!Search(q)
  PROVE  SwitchesInv'
<1> USE DEF Switches!Search, Switches!table, Switches!calls
<1>1. SwitchTypes'
  BY DEF SwitchesInv, SwitchTypes, Switches!TypeOK
<1>2. LateFirst' /\ QueryOk'
  BY DEF SwitchesInv, LateFirst, QueryOk
<1>3. \A j \in DOMAIN switches' : SwitchOk(j)'
  BY DEF SwitchesInv, SwitchOk
<1>4. \A x \in Offers : x \in excused' \/ x \in Switches!UnderWay' \/ OfferOk(x)'
  BY DEF SwitchesInv, OfferOk, Switches!UnderWay
<1> QED
  BY <1>1, <1>2, <1>3, <1>4 DEF SwitchesInv

\* What the end of a list request leaves: a switch that is not excused is still disabled.
LEMMA ListOver ==
  ASSUME SwitchesInv, NEW i \in DOMAIN reads, Switches!Over(i), Switches!Enable(reads[i].by),
         UNCHANGED <<active, query, pause, switches, used, chosen, excused>>,
         listed'.active \in SUBSET Offers, listed'.query \in Queries,
         hidden' \in BOOLEAN, failed' \in BOOLEAN, outrun' \in BOOLEAN, strayed' \in BOOLEAN
  PROVE  SwitchTypes' /\ LateFirst' /\ \A j \in DOMAIN switches' : SwitchOk(j)'
<1>1. /\ reads \in Seq(ReadRecords) /\ reads' \in Seq(ReadRecords)
      /\ \A j \in DOMAIN reads' :
           /\ Was(i, j) \in DOMAIN reads
           /\ reads'[j].query = reads[Was(i, j)].query /\ reads'[j].by = reads[Was(i, j)].by
           /\ reads'[j].found = reads[Was(i, j)].found
  BY ReadOver DEF SwitchesInv, SwitchTypes
<1>2. SwitchTypes'
  <2>1. \A j \in DOMAIN reads' : reads'[j].found # {} /\ reads'[j].query \in Queries
    BY <1>1 DEF SwitchesInv, SwitchTypes, Switches!TypeOK
  <2>2. statusPendingId' \in Offers \cup {NoOffer}
    BY DEF SwitchesInv, SwitchTypes, Switches!TypeOK, Switches!Enable
  <2>3. Switches!TypeOK'
    BY <2>1, <2>2 DEF SwitchesInv, SwitchTypes, Switches!TypeOK
  <2> QED
    BY <1>1, <2>3 DEF SwitchesInv, SwitchTypes
<1>3. ASSUME NEW j \in DOMAIN switches' PROVE SwitchOk(j)'
  <2>1. SwitchOk(j)
    BY <1>3 DEF SwitchesInv
  <2>2. switches[j].offer \notin excused => statusPendingId' = statusPendingId
    BY <2>1 DEF SwitchOk, Switches!Enable
  <2> QED
    BY <1>1, <2>1, <2>2 DEF SwitchOk
<1> QED
  BY <1>2, <1>3, YoungestOver DEF SwitchesInv

LEMMA RowsStep ==
  ASSUME SwitchesInv, NEW i \in DOMAIN reads, Switches!RowsArrive(i)
  PROVE  SwitchesInv'
<1>1. PICK found \in reads[i].found : listed' = [query |-> reads[i].query, active |-> found]
  BY DEF Switches!RowsArrive
<1>2. /\ listed'.query = reads[i].query /\ listed'.active = found /\ reads[i] \in ReadRecords
      /\ outrun' = reads[i].late /\ strayed' = (reads[i].by = "switch" /\ reads[i].query # query)
      /\ hidden' = FALSE /\ UNCHANGED <<active, query, pause, failed, switches, used, chosen, excused>>
      /\ Switches!Over(i) /\ Switches!Enable(reads[i].by)
  BY <1>1 DEF Switches!RowsArrive, SwitchesInv, SwitchTypes
<1>3. SwitchTypes' /\ LateFirst' /\ \A j \in DOMAIN switches' : SwitchOk(j)'
  <2>1. listed'.active \in SUBSET Offers /\ listed'.query \in Queries
    BY <1>2 DEF ReadRecords
  <2>2. outrun' \in BOOLEAN /\ strayed' \in BOOLEAN /\ failed' \in BOOLEAN /\ hidden' \in BOOLEAN
    <3>1. outrun' \in BOOLEAN
      BY <1>2 DEF ReadRecords
    <3>2. strayed' \in BOOLEAN
      BY <1>2
    <3>3. failed' \in BOOLEAN
      BY <1>2 DEF SwitchesInv, SwitchTypes, Switches!TypeOK
    <3> QED
      BY <1>2, <3>1, <3>2, <3>3
  <2> QED
    BY <1>2, <2>1, <2>2, ListOver
<1>4. /\ \A j \in DOMAIN reads' : j = Len(reads') /\ ~reads'[j].late =>
           \E k \in DOMAIN reads :
             /\ k = Len(reads) /\ ~reads[k].late /\ reads'[j].found = reads[k].found
             /\ reads'[j].by = reads[k].by /\ reads'[j].query = reads[k].query
      /\ (\A j \in DOMAIN reads' : reads'[j].late) => i = Len(reads) \/ \A j \in DOMAIN reads : reads[j].late
  BY <1>2, YoungestOver DEF SwitchesInv
<1>5. ASSUME NEW x \in Offers, x \notin excused', x \notin Switches!UnderWay' PROVE OfferOk(x)'
  <2>1. OfferOk(x)
    BY <1>2, <1>5 DEF SwitchesInv, Switches!UnderWay
  <2>2. \A j \in DOMAIN reads' : j = Len(reads') /\ ~reads'[j].late =>
          \A f \in reads'[j].found : x \in f <=> x \in chosen'
    BY <1>2, <1>4, <2>1 DEF OfferOk
  <2>3. (\A j \in DOMAIN reads' : reads'[j].late) /\ ~outrun' => (x \in listed'.active <=> x \in chosen')
    BY <1>2, <1>4, <2>1 DEF OfferOk
  <2> QED
    BY <1>2, <2>1, <2>2, <2>3 DEF OfferOk
<1>6. QueryOk'
  <2>1. ASSUME ~pause
        PROVE  /\ \A j \in DOMAIN reads' : j = Len(reads') /\ ~reads'[j].late =>
                    reads'[j].by = "switch" \/ reads'[j].query = query'
               /\ (\A j \in DOMAIN reads' : reads'[j].late) /\ ~outrun' => listed'.query = query' \/ strayed'
    BY <1>2, <1>4, <2>1 DEF SwitchesInv, QueryOk
  <2> QED
    BY <1>2, <2>1 DEF QueryOk
<1> QED
  BY <1>3, <1>5, <1>6 DEF SwitchesInv

LEMMA RowsFailStep ==
  ASSUME SwitchesInv, NEW i \in DOMAIN reads, Switches!RowsFail(i)
  PROVE  SwitchesInv'
<1>2. /\ failed' = TRUE /\ UNCHANGED <<listed, outrun, strayed>>
      /\ hidden' = FALSE /\ UNCHANGED <<active, query, pause, switches, used, chosen, excused>>
      /\ Switches!Over(i) /\ Switches!Enable(reads[i].by)
  BY DEF Switches!RowsFail
<1>3. SwitchTypes' /\ LateFirst' /\ \A j \in DOMAIN switches' : SwitchOk(j)'
  <2>1. listed'.active \in SUBSET Offers /\ listed'.query \in Queries
    BY <1>2 DEF SwitchesInv, SwitchTypes, Switches!TypeOK
  <2>2. outrun' \in BOOLEAN /\ strayed' \in BOOLEAN /\ failed' \in BOOLEAN /\ hidden' \in BOOLEAN
    BY <1>2 DEF SwitchesInv, SwitchTypes, Switches!TypeOK
  <2> QED
    BY <1>2, <2>1, <2>2, ListOver
<1>4. \A j \in DOMAIN reads' : j = Len(reads') /\ ~reads'[j].late =>
        \E k \in DOMAIN reads :
          /\ k = Len(reads) /\ ~reads[k].late /\ reads'[j].found = reads[k].found
          /\ reads'[j].by = reads[k].by /\ reads'[j].query = reads[k].query
  BY <1>2, YoungestOver DEF SwitchesInv
<1>5. ASSUME NEW x \in Offers, x \notin excused', x \notin Switches!UnderWay' PROVE OfferOk(x)'
  <2>1. OfferOk(x)
    BY <1>2, <1>5 DEF SwitchesInv, Switches!UnderWay
  <2> QED
    BY <1>2, <1>4, <2>1 DEF OfferOk
<1>6. QueryOk'
  BY <1>2, <1>4 DEF SwitchesInv, QueryOk
<1> QED
  BY <1>3, <1>5, <1>6 DEF SwitchesInv

\* A list request is sent: whatever holds of the rows by now, it finds.
LEMMA ReloadTypes ==
  ASSUME SwitchesInv, NEW q \in Queries, NEW by1 \in {"table", "switch"}, Switches!Reload(q, by1),
         switches' \in Seq(SwitchRecords), UNCHANGED <<active, query, chosen, excused, used, statusPendingId>>,
         pause' \in BOOLEAN
  PROVE  /\ SwitchTypes' /\ LateFirst'
         /\ \A x \in Offers : (x \in active <=> x \in chosen) => OfferOk(x)'
         /\ (q = query \/ by1 = "switch") => QueryOk'
<1>1. /\ reads' \in Seq(ReadRecords)
      /\ \A j \in DOMAIN reads' :
           \/ j \in DOMAIN reads /\ j < Len(reads') /\ reads'[j] = reads[j]
           \/ /\ j = Len(reads') /\ reads'[j].query = q /\ reads'[j].by = by1
              /\ reads'[j].found = {active} /\ ~reads'[j].late
      /\ Len(reads') \in DOMAIN reads'
  BY ReadSent DEF SwitchesInv
<1>2. ~reads'[Len(reads')].late
  BY <1>1
<1>3. SwitchTypes'
  <2>1. \A j \in DOMAIN reads' : reads'[j].found # {} /\ reads'[j].query \in Queries
    BY <1>1 DEF SwitchesInv, SwitchTypes, Switches!TypeOK
  <2>2. \A j \in DOMAIN switches' : switches'[j].offer \in Offers
    <3>1. \A j \in DOMAIN switches' : switches'[j] \in SwitchRecords
      OBVIOUS
    <3> QED
      BY <3>1 DEF SwitchRecords
  <2>3. Switches!TypeOK'
    BY <2>1, <2>2 DEF SwitchesInv, SwitchTypes, Switches!TypeOK, Switches!Reload
  <2> QED
    BY <1>1, <2>3 DEF SwitchTypes
<1>4. LateFirst'
  <2>1. \A j, k \in DOMAIN reads' : j < k /\ reads'[k].late => reads'[j].late
    <3> SUFFICES ASSUME NEW j \in DOMAIN reads', NEW k \in DOMAIN reads', j < k, reads'[k].late
                 PROVE  reads'[j].late
      OBVIOUS
    <3>1. k \in DOMAIN reads /\ k < Len(reads') /\ reads'[k] = reads[k]
      BY <1>1
    <3>2. j \in DOMAIN reads /\ reads'[j] = reads[j]
      BY <1>1, <3>1
    <3> QED
      BY <3>1, <3>2 DEF SwitchesInv, LateFirst
  <2> QED
    BY <2>1 DEF LateFirst
<1>5. ASSUME NEW x \in Offers, x \in active <=> x \in chosen PROVE OfferOk(x)'
  BY <1>1, <1>2, <1>5 DEF OfferOk
<1>6. ASSUME q = query \/ by1 = "switch" PROVE QueryOk'
  BY <1>1, <1>2, <1>6 DEF QueryOk
<1> QED
  BY <1>3, <1>4, <1>5, <1>6

LEMMA SendStep ==
  ASSUME SwitchesInv, Switches!SendRequest
  PROVE  SwitchesInv'
<1>1. /\ Switches!Reload(query, "table") /\ pause' = FALSE
      /\ UNCHANGED <<active, query, chosen, excused, switches, used, statusPendingId>>
  BY DEF Switches!SendRequest, Switches!calls
<1>2. query \in Queries /\ switches' \in Seq(SwitchRecords)
  BY <1>1 DEF SwitchesInv, SwitchTypes, Switches!TypeOK
<1>3. /\ SwitchTypes' /\ LateFirst' /\ QueryOk'
      /\ \A x \in Offers : (x \in active <=> x \in chosen) => OfferOk(x)'
  BY <1>1, <1>2, ReloadTypes
<1>4. ASSUME NEW j \in DOMAIN switches' PROVE SwitchOk(j)'
  <2>1. SwitchOk(j)
    BY <1>1, <1>4 DEF SwitchesInv
  <2>2. \A k \in DOMAIN reads' : (k \in DOMAIN reads /\ reads'[k] = reads[k]) \/ reads'[k].by = "table"
    BY <1>1, <1>2, ReadSent DEF SwitchesInv
  <2> QED
    BY <1>1, <2>1, <2>2 DEF SwitchOk
<1>5. ASSUME NEW x \in Offers, x \notin excused', x \notin Switches!UnderWay' PROVE OfferOk(x)'
  <2>1. OfferOk(x)
    BY <1>1, <1>5 DEF SwitchesInv, Switches!UnderWay
  <2> QED
    BY <1>3, <2>1 DEF OfferOk
<1> QED
  BY <1>3, <1>4, <1>5 DEF SwitchesInv

\* The switch of an offer is used: another one under way excuses both.
LEMMA ToggleStep ==
  ASSUME SwitchesInv, NEW x \in Offers, Switches!Toggle(x)
  PROVE  SwitchesInv'
<1>1. /\ statusPendingId # x /\ statusPendingId' = x /\ used < MaxSwitches /\ used' = used + 1
      /\ UNCHANGED <<active, query, pause, listed, reads, hidden, failed, outrun, strayed>>
      /\ chosen' = IF x \in listed.active THEN chosen \ {x} ELSE chosen \cup {x}
      /\ excused' = Switches!Excused(x)
  BY DEF Switches!Toggle, Switches!table
<1>2. PICK w : w = [offer |-> x, enable |-> x \notin listed.active, query |-> query, made |-> FALSE]
  OBVIOUS
<1>3. w \in SwitchRecords /\ w.offer = x /\ (w.enable <=> x \in chosen') /\ ~w.made
  BY <1>1, <1>2 DEF SwitchesInv, SwitchTypes, Switches!TypeOK, SwitchRecords
<1>4. /\ switches' \in Seq(SwitchRecords)
      /\ \A j \in DOMAIN switches' :
           \/ j \in DOMAIN switches /\ switches'[j] = switches[j]
           \/ j = Len(switches) + 1 /\ switches'[j] = w
      /\ Len(switches) + 1 \in DOMAIN switches' /\ DOMAIN switches \subseteq DOMAIN switches'
      /\ \A j \in DOMAIN switches : switches'[j] = switches[j]
      /\ switches'[Len(switches) + 1] = w
  <2>1. switches \in Seq(SwitchRecords) /\ switches' = Append(switches, w)
    BY <1>2 DEF SwitchesInv, SwitchTypes, Switches!Toggle
  <2> QED
    BY <1>3, <2>1
<1>5. Switches!UnderWay' = Switches!UnderWay \cup {x}
  BY <1>3, <1>4 DEF Switches!UnderWay
<1>6. \A y \in Switches!UnderWay : y \in excused' /\ x \in excused'
  <2> SUFFICES ASSUME NEW y \in Switches!UnderWay PROVE y \in excused' /\ x \in excused'
    OBVIOUS
  <2>1. CASE y # x
    BY <1>1, <2>1 DEF Switches!Excused
  <2>2. CASE y = x
    <3>1. x \in excused
      BY <1>1, <2>2 DEF SwitchesInv, SwitchOk, Switches!UnderWay
    <3> QED
      BY <1>1, <2>2, <3>1 DEF Switches!Excused
  <2> QED
    BY <2>1, <2>2
<1>7. x \notin excused' => \A i \in DOMAIN reads : reads[i].by # "switch"
  BY <1>1 DEF Switches!Excused
<1>8. SwitchTypes'
  <2>1. excused' \in SUBSET Offers /\ chosen' \in SUBSET Offers
    BY <1>1 DEF SwitchesInv, SwitchTypes, Switches!TypeOK, Switches!Excused, Switches!UnderWay
  <2>2. \A j \in DOMAIN switches' : switches'[j].offer \in Offers
    BY <1>3, <1>4 DEF SwitchesInv, SwitchTypes, Switches!TypeOK
  <2>3. used' \in 0 .. MaxSwitches
    <3>1. MaxSwitches \in Nat /\ used \in 0 .. MaxSwitches
      BY BoundsAssumption DEF SwitchesInv, SwitchTypes, Switches!TypeOK
    <3> QED
      BY <1>1, <3>1
  <2>4. Switches!TypeOK'
    BY <1>1, <2>1, <2>2, <2>3 DEF SwitchesInv, SwitchTypes, Switches!TypeOK
  <2> QED
    BY <1>1, <1>4, <2>4 DEF SwitchesInv, SwitchTypes
<1>9. ASSUME NEW j \in DOMAIN switches' PROVE SwitchOk(j)'
  <2>1. CASE j \in DOMAIN switches
    BY <1>4, <1>6, <2>1 DEF SwitchOk, Switches!UnderWay
  <2>2. CASE j = Len(switches) + 1
    <3>1. x \notin excused' => \A k \in DOMAIN switches' : k = j
      BY <1>4, <1>6, <2>2 DEF Switches!UnderWay
    <3> QED
      BY <1>1, <1>3, <1>4, <1>7, <2>2, <3>1 DEF SwitchOk
  <2> QED
    BY <1>4, <1>9, <2>1, <2>2
<1>10. ASSUME NEW y \in Offers, y \notin excused', y \notin Switches!UnderWay' PROVE OfferOk(y)'
  <2>1. y # x /\ y \notin excused /\ y \notin Switches!UnderWay
    BY <1>1, <1>5, <1>10 DEF Switches!Excused
  <2>2. OfferOk(y)
    BY <2>1 DEF SwitchesInv
  <2> QED
    BY <1>1, <2>1, <2>2 DEF OfferOk
<1>11. LateFirst' /\ QueryOk'
  BY <1>1 DEF SwitchesInv, LateFirst, QueryOk
<1> QED
  BY <1>8, <1>9, <1>10, <1>11 DEF SwitchesInv

\* The service enables other offers: every request in flight may find that.
LEMMA BecomesStep ==
  ASSUME SwitchesInv, NEW offers \in SUBSET Offers, Switches!Becomes(offers),
         UNCHANGED <<query, pause, listed, hidden, failed, outrun, strayed, used, statusPendingId, chosen>>,
         switches' \in Seq(SwitchRecords), excused \subseteq excused', excused' \in SUBSET Offers
  PROVE  /\ SwitchTypes' /\ LateFirst' /\ QueryOk'
         /\ DOMAIN reads' = DOMAIN reads /\ \A i \in DOMAIN reads' : reads'[i].by = reads[i].by
         /\ \A x \in Offers : OfferOk(x) /\ (x \in offers <=> x \in active) => OfferOk(x)'
<1>1. /\ active' = offers
      /\ reads' = [i \in DOMAIN reads |-> [reads[i] EXCEPT !.found = @ \cup {offers}]]
      /\ reads \in Seq(ReadRecords) /\ \A i \in DOMAIN reads : reads[i] \in ReadRecords
  BY DEF Switches!Becomes, SwitchesInv, SwitchTypes
<1>2. \A i \in DOMAIN reads :
        /\ reads'[i] \in ReadRecords /\ reads'[i].query = reads[i].query /\ reads'[i].by = reads[i].by
        /\ reads'[i].late = reads[i].late /\ reads'[i].found = reads[i].found \cup {offers}
  BY <1>1 DEF ReadRecords
<1>3. reads' \in Seq(ReadRecords) /\ DOMAIN reads' = DOMAIN reads /\ Len(reads') = Len(reads)
  <2>1. DOMAIN reads = 1 .. Len(reads) /\ Len(reads) \in Nat
    BY <1>1
  <2>2. reads' \in [1 .. Len(reads) -> ReadRecords]
    BY <1>1, <1>2, <2>1
  <2> QED
    BY <1>1, <2>1, <2>2
<1>4. SwitchTypes'
  <2>1. \A j \in DOMAIN reads' : reads'[j].found # {} /\ reads'[j].query \in Queries
    BY <1>2, <1>3 DEF SwitchesInv, SwitchTypes, Switches!TypeOK
  <2>2. \A j \in DOMAIN switches' : switches'[j].offer \in Offers
    <3>1. \A j \in DOMAIN switches' : switches'[j] \in SwitchRecords
      OBVIOUS
    <3> QED
      BY <3>1 DEF SwitchRecords
  <2>3. Switches!TypeOK'
    BY <1>1, <2>1, <2>2 DEF SwitchesInv, SwitchTypes, Switches!TypeOK
  <2> QED
    BY <1>3, <2>3 DEF SwitchTypes
<1>5. LateFirst' /\ QueryOk'
  BY <1>2, <1>3 DEF SwitchesInv, LateFirst, QueryOk
<1>6. ASSUME NEW x \in Offers, OfferOk(x), x \in offers <=> x \in active PROVE OfferOk(x)'
  <2>1. \A i \in DOMAIN reads' : i = Len(reads') /\ ~reads'[i].late =>
          \A f \in reads'[i].found : x \in f <=> x \in chosen'
    <3> SUFFICES ASSUME NEW i \in DOMAIN reads', i = Len(reads'), ~reads'[i].late, NEW f \in reads'[i].found
                 PROVE  x \in f <=> x \in chosen
      OBVIOUS
    <3>1. i \in DOMAIN reads /\ i = Len(reads) /\ ~reads[i].late /\ f \in reads[i].found \cup {offers}
      BY <1>2, <1>3
    <3> QED
      BY <1>6, <3>1 DEF OfferOk
  <2>2. (\A i \in DOMAIN reads' : reads'[i].late) => \A i \in DOMAIN reads : reads[i].late
    BY <1>2, <1>3
  <2> QED
    BY <1>1, <1>6, <2>1, <2>2 DEF OfferOk
<1> QED
  BY <1>2, <1>3, <1>4, <1>5, <1>6

LEMMA SwitchStored ==
  ASSUME SwitchesInv, NEW i \in DOMAIN switches, Switches!Store(i)
  PROVE  SwitchesInv'
<1> DEFINE x == switches[i].offer
           offers == IF switches[i].enable THEN active \cup {x} ELSE active \ {x}
<1>1. switches \in Seq(SwitchRecords) /\ switches[i] \in SwitchRecords /\ x \in Offers /\ active \in SUBSET Offers
  <2>1. switches \in Seq(SwitchRecords) /\ active \in SUBSET Offers
    BY DEF SwitchesInv, SwitchTypes, Switches!TypeOK
  <2>2. switches[i] \in SwitchRecords
    BY <2>1
  <2> QED
    BY <2>1, <2>2 DEF SwitchRecords
<1>2. /\ Switches!Becomes(offers) /\ offers \in SUBSET Offers /\ active' = offers
      /\ switches' = [switches EXCEPT ![i].made = TRUE]
      /\ UNCHANGED <<query, pause, listed, hidden, failed, outrun, strayed, used, statusPendingId, chosen, excused>>
  BY <1>1 DEF Switches!Store, Switches!Becomes
<1>3. /\ switches' \in Seq(SwitchRecords) /\ DOMAIN switches' = DOMAIN switches
      /\ \A j \in DOMAIN switches' :
           /\ switches'[j].offer = switches[j].offer /\ switches'[j].enable = switches[j].enable
           /\ j # i => switches'[j] = switches[j]
  <2>1. \A j \in DOMAIN switches : switches[j] \in SwitchRecords /\ [switches[j] EXCEPT !.made = TRUE] \in SwitchRecords
    <3>1. \A j \in DOMAIN switches : switches[j] \in SwitchRecords
      BY <1>1
    <3> QED
      BY <3>1 DEF SwitchRecords
  <2>2. switches'[i] = [switches[i] EXCEPT !.made = TRUE] /\ \A j \in DOMAIN switches : j # i => switches'[j] = switches[j]
    BY <1>1, <1>2
  <2>3. DOMAIN switches' = 1 .. Len(switches) /\ Len(switches) \in Nat /\ DOMAIN switches = 1 .. Len(switches)
    BY <1>1, <1>2
  <2>4. switches' \in [1 .. Len(switches) -> SwitchRecords]
    BY <1>1, <1>2, <2>1, <2>2, <2>3
  <2>5. switches' \in Seq(SwitchRecords)
    BY <2>3, <2>4
  <2>6. switches'[i].offer = switches[i].offer /\ switches'[i].enable = switches[i].enable
    BY <1>1, <2>2 DEF SwitchRecords
  <2> QED
    BY <2>2, <2>3, <2>5, <2>6
<1>4. excused' \in SUBSET Offers /\ excused \subseteq excused'
  BY <1>2 DEF SwitchesInv, SwitchTypes, Switches!TypeOK
<1> HIDE DEF offers
<1>5. /\ SwitchTypes' /\ LateFirst' /\ QueryOk'
      /\ DOMAIN reads' = DOMAIN reads /\ \A k \in DOMAIN reads' : reads'[k].by = reads[k].by
      /\ \A y \in Offers : OfferOk(y) /\ (y \in offers <=> y \in active) => OfferOk(y)'
  BY <1>2, <1>3, <1>4, BecomesStep
<1>6. ASSUME NEW j \in DOMAIN switches' PROVE SwitchOk(j)'
  <2>1. SwitchOk(j) /\ j \in DOMAIN switches
    BY <1>3, <1>6 DEF SwitchesInv
  <2>2. switches[j].offer \notin excused => j = i
    BY <2>1 DEF SwitchOk
  <2>3. x \in active' <=> switches[i].enable
    BY <1>2 DEF offers
  <2> QED
    BY <1>2, <1>3, <1>5, <2>1, <2>2, <2>3 DEF SwitchOk
<1>7. Switches!UnderWay' = Switches!UnderWay /\ x \in Switches!UnderWay
  BY <1>3 DEF Switches!UnderWay
<1>8. ASSUME NEW y \in Offers, y \notin excused', y \notin Switches!UnderWay' PROVE OfferOk(y)'
  <2>1. y # x /\ OfferOk(y)
    BY <1>2, <1>7, <1>8 DEF SwitchesInv
  <2>2. y \in offers <=> y \in active
    BY <2>1 DEF offers
  <2> QED
    BY <1>5, <2>1, <2>2
<1> QED
  BY <1>5, <1>6, <1>8 DEF SwitchesInv

LEMMA OthersStep ==
  ASSUME SwitchesInv, NEW x \in Offers, Switches!OthersSwitch(x)
  PROVE  SwitchesInv'
<1> DEFINE offers == IF x \in active THEN active \ {x} ELSE active \cup {x}
<1>1. switches \in Seq(SwitchRecords) /\ active \in SUBSET Offers /\ excused \in SUBSET Offers
  BY DEF SwitchesInv, SwitchTypes, Switches!TypeOK
<1>2. /\ Switches!Becomes(offers) /\ offers \in SUBSET Offers /\ active' = offers /\ excused' = excused \cup {x}
      /\ UNCHANGED <<query, pause, listed, hidden, failed, outrun, strayed, used, statusPendingId, chosen, switches>>
  BY <1>1 DEF Switches!OthersSwitch, Switches!Becomes, Switches!calls
<1>3. \A y \in Offers : y # x => (y \in offers <=> y \in active)
  OBVIOUS
<1> HIDE DEF offers
<1>4. /\ SwitchTypes' /\ LateFirst' /\ QueryOk'
      /\ DOMAIN reads' = DOMAIN reads /\ \A k \in DOMAIN reads' : reads'[k].by = reads[k].by
      /\ \A y \in Offers : OfferOk(y) /\ (y \in offers <=> y \in active) => OfferOk(y)'
  BY <1>1, <1>2, BecomesStep
<1>5. ASSUME NEW j \in DOMAIN switches' PROVE SwitchOk(j)'
  <2>1. SwitchOk(j) /\ switches[j].offer \in Offers
    BY <1>2, <1>5 DEF SwitchesInv, SwitchTypes, Switches!TypeOK
  <2> QED
    BY <1>2, <1>3, <1>4, <2>1 DEF SwitchOk
<1>6. ASSUME NEW y \in Offers, y \notin excused', y \notin Switches!UnderWay' PROVE OfferOk(y)'
  <2>1. y # x /\ OfferOk(y)
    BY <1>2, <1>6 DEF SwitchesInv, Switches!UnderWay
  <2> QED
    BY <1>3, <1>4, <2>1
<1> QED
  BY <1>4, <1>5, <1>6 DEF SwitchesInv

\* A switch is answered: if it is not excused it is the only one, and the rows are read again.
LEMMA SwitchAccepted ==
  ASSUME SwitchesInv, NEW i \in DOMAIN switches, Switches!Accepted(i)
  PROVE  SwitchesInv'
<1>1. /\ switches[i].made /\ switches' = Switches!RemoveAt(switches, i)
      /\ Switches!Reload(switches[i].query, "switch")
      /\ UNCHANGED <<active, query, pause, used, statusPendingId, chosen, excused>>
  BY DEF Switches!Accepted
<1>2. /\ switches' \in Seq(SwitchRecords)
      /\ \A j \in DOMAIN switches' : Was(i, j) \in DOMAIN switches \ {i} /\ switches'[j] = switches[Was(i, j)]
      /\ \A k \in DOMAIN switches \ {i} : \E j \in DOMAIN switches' : Was(i, j) = k
  BY <1>1, SwitchOver DEF SwitchesInv
<1>3. switches[i].query \in Queries
  <2>1. switches[i] \in SwitchRecords
    BY DEF SwitchesInv, SwitchTypes
  <2> QED
    BY <2>1 DEF SwitchRecords
<1>4. pause' \in BOOLEAN
  BY <1>1 DEF SwitchesInv, SwitchTypes, Switches!TypeOK
<1>5. /\ SwitchTypes' /\ LateFirst' /\ QueryOk'
      /\ \A x \in Offers : (x \in active <=> x \in chosen) => OfferOk(x)'
  BY <1>1, <1>2, <1>3, <1>4, ReloadTypes
<1>6. ASSUME NEW j \in DOMAIN switches' PROVE SwitchOk(j)'
  <2>1. SwitchOk(Was(i, j)) /\ Was(i, j) # i /\ switches'[j] = switches[Was(i, j)]
    BY <1>2, <1>6 DEF SwitchesInv
  <2>2. switches[Was(i, j)].offer \in excused
    BY <2>1 DEF SwitchOk
  <2> QED
    BY <1>1, <2>1, <2>2 DEF SwitchOk
<1>7. ASSUME NEW x \in Offers, x \notin excused', x \notin Switches!UnderWay' PROVE OfferOk(x)'
  <2>1. CASE x \in Switches!UnderWay
    <3>1. PICK k \in DOMAIN switches : x = switches[k].offer
      BY <2>1 DEF Switches!UnderWay
    <3>2. k = i
      BY <1>2, <1>7, <3>1 DEF Switches!UnderWay
    <3>3. x \in active <=> x \in chosen
      BY <1>1, <1>7, <3>1, <3>2 DEF SwitchesInv, SwitchOk
    <3> QED
      BY <1>5, <3>3
  <2>2. CASE x \notin Switches!UnderWay
    <3>1. OfferOk(x)
      BY <1>1, <1>7, <2>2 DEF SwitchesInv
    <3> QED
      BY <1>5, <3>1 DEF OfferOk
  <2> QED
    BY <2>1, <2>2
<1> QED
  BY <1>5, <1>6, <1>7 DEF SwitchesInv

LEMMA RefusedStep ==
  ASSUME SwitchesInv, NEW i \in DOMAIN switches, Switches!Refused(i)
  PROVE  SwitchesInv'
<1>1. /\ switches' = Switches!RemoveAt(switches, i) /\ excused' = excused \cup {switches[i].offer}
      /\ statusPendingId' = NoOffer
      /\ UNCHANGED <<active, query, pause, listed, reads, hidden, failed, outrun, strayed, used, chosen>>
  BY DEF Switches!Refused, Switches!table, Switches!Enable
<1>2. /\ switches' \in Seq(SwitchRecords)
      /\ \A j \in DOMAIN switches' : Was(i, j) \in DOMAIN switches \ {i} /\ switches'[j] = switches[Was(i, j)]
      /\ \A k \in DOMAIN switches \ {i} : \E j \in DOMAIN switches' : Was(i, j) = k
  BY <1>1, SwitchOver DEF SwitchesInv
<1>3. SwitchTypes'
  <2>1. \A j \in DOMAIN switches' : switches'[j].offer \in Offers
    BY <1>2 DEF SwitchesInv, SwitchTypes, Switches!TypeOK
  <2>2. excused' \in SUBSET Offers
    BY <1>1 DEF SwitchesInv, SwitchTypes, Switches!TypeOK
  <2>3. Switches!TypeOK'
    BY <1>1, <2>1, <2>2 DEF SwitchesInv, SwitchTypes, Switches!TypeOK
  <2> QED
    BY <1>1, <1>2, <2>3 DEF SwitchesInv, SwitchTypes
<1>4. LateFirst' /\ QueryOk'
  BY <1>1 DEF SwitchesInv, LateFirst, QueryOk
<1>5. ASSUME NEW j \in DOMAIN switches' PROVE SwitchOk(j)'
  <2>1. SwitchOk(Was(i, j)) /\ Was(i, j) # i /\ switches'[j] = switches[Was(i, j)]
    BY <1>2, <1>5 DEF SwitchesInv
  <2>2. switches[Was(i, j)].offer \in excused
    BY <2>1 DEF SwitchOk
  <2> QED
    BY <1>1, <2>1, <2>2 DEF SwitchOk
<1>6. ASSUME NEW x \in Offers, x \notin excused', x \notin Switches!UnderWay' PROVE OfferOk(x)'
  <2>1. x \notin excused /\ x # switches[i].offer
    BY <1>1, <1>6
  <2>2. x \notin Switches!UnderWay
    BY <1>2, <1>6, <2>1 DEF Switches!UnderWay
  <2>3. OfferOk(x)
    BY <2>1, <2>2 DEF SwitchesInv
  <2> QED
    BY <1>1, <2>3 DEF OfferOk
<1> QED
  BY <1>3, <1>4, <1>5, <1>6 DEF SwitchesInv

LEMMA SwitchesStep == SwitchesInv /\ [Switches!Next]_switchesVars => SwitchesInv'
<1> SUFFICES ASSUME SwitchesInv, [Switches!Next]_switchesVars PROVE SwitchesInv'
  OBVIOUS
<1>1. CASE UNCHANGED switchesVars
  <2>1. SwitchTypes'
    BY <1>1 DEF switchesVars, SwitchesInv, SwitchTypes, Switches!TypeOK
  <2>2. LateFirst' /\ QueryOk' /\ \A j \in DOMAIN switches' : SwitchOk(j)'
    BY <1>1 DEF switchesVars, SwitchesInv, LateFirst, QueryOk, SwitchOk
  <2>3. \A x \in Offers : x \in excused' \/ x \in Switches!UnderWay' \/ OfferOk(x)'
    BY <1>1 DEF switchesVars, SwitchesInv, OfferOk, Switches!UnderWay
  <2> QED
    BY <2>1, <2>2, <2>3 DEF SwitchesInv
<1> QED
  BY <1>1, SearchStep, SendStep, ToggleStep, OthersStep, SwitchStored, SwitchAccepted, RefusedStep,
     RowsStep, RowsFailStep
  DEF Switches!Next

LEMMA SwitchesInvariance == Spec => []SwitchesInv
<1>1. Init => SwitchesInv
  BY SwitchesInit DEF Init
<1>2. SwitchesInv /\ [Next]_vars => SwitchesInv'
  BY EachByItself, SwitchesStep
<1> QED
  BY <1>1, <1>2, PTL DEF Spec

\* toggleStatus, reload: whatever is switched and searched meanwhile, the table ends up showing
\* what was chosen.
THEOREM ChoiceShown == Spec => []ChoiceIsShown
<1>1. SwitchesInv => ChoiceIsShown
  BY SwitchesProperty DEF ChoiceIsShown
<1> QED
  BY <1>1, SwitchesInvariance, PTL

=============================================================================
