-------------------------- MODULE EntitlementProofs --------------------------
(***************************************************************************)
(* The safety properties of Entitlement for every set of requests, keys    *)
(* and contents and every bound, and that the service and its repository   *)
(* implement EntitlementAuthority: each step maps to the step of the       *)
(* register its caller may think of, or to none.                           *)
(***************************************************************************)
EXTENDS EntitlementRefinement, SequenceTheorems, TLAPS

-----------------------------------------------------------------------------
(* Facts about the values the model is built from.                            *)

\* Every request the endpoints accept, and the one Init starts from, has fields of
\* the expected types.
LEMMA CallTypes ==
  ASSUME NEW c \in Calls \cup {NoCall}
  PROVE  /\ c.op \in {"update", "retrieve", "decide"}
         /\ c.wellFormed \in BOOLEAN
         /\ c.expected \in Int
         /\ c.content \in Content
         /\ c.key \in Keys \cup {NoKey}
         /\ c.op = "decide" => c.key \in Keys
<1>1. FoundationContent \in Content
  BY DEF FoundationContent, Content, Statuses
<1>2. CASE c = NoCall
  BY <1>1, <1>2 DEF NoCall
<1>3. CASE c \in Forms
  BY <1>1, <1>3, ContentsAssumption, BoundAssumption DEF Forms
<1> QED
  BY <1>2, <1>3 DEF Calls

\* A transaction that is over has written nothing that counts.
LEMMA NothingStagedType ==
  NothingStaged \in [header: Header, rows: [Keys -> {"unwritten", "active", "revoked"}]]
  BY DEF NothingStaged, NoHeader, Header, Statuses

\* A committed content is at its version for ever, and the new one is at the next.
LEMMA HistoryGrows ==
  ASSUME NEW h \in Seq(Content), NEW c \in Content
  PROVE  /\ Append(h, c) \in Seq(Content)
         /\ Len(Append(h, c)) = Len(h) + 1
         /\ \A n \in 1 .. Len(h) : Append(h, c)[n] = h[n]
         /\ Append(h, c)[Len(h) + 1] = c
  BY AppendProperties

\* Whatever the version, its content has the type of a content.
LEMMA ContentTypes ==
  ASSUME history \in Seq(Content)
  PROVE  /\ Current \in Nat
         /\ \A n \in 0 .. Current : At(n) \in Content
<1>1. FoundationContent \in Content
  BY DEF FoundationContent, Content, Statuses
<1>2. Len(history) \in Nat /\ \A n \in 1 .. Len(history) : history[n] \in Content
  BY ElementOfSeq, LenProperties
<1> QED
  BY <1>1, <1>2 DEF Current, At

\* What the open transactions and the wait for the snapshot row start from.
LEMMA InitIInv == Init => IInv
<1> SUFFICES ASSUME Init PROVE IInv
  OBVIOUS
<1> USE DEF Init
<1>1. history \in Seq(Content) /\ Current = 0 /\ At(Current) = FoundationContent
  BY DEF Current, At
<1>2. TypeOK
  <2>1. NoHeader \in Header /\ NoView \in View
    BY DEF NoHeader, NoView, Header, View, Statuses
  <2> QED
    BY <1>1, <2>1, NothingStagedType, SentinelAssumption DEF TypeOK, Phases, Answers
<1>3. StoreIsLatestVersion
  BY <1>1 DEF StoreIsLatestVersion, NoHeader, FoundationContent, ActiveKeys
<1>4. NoLostUpdate
  BY DEF NoLostUpdate
<1>5. ASSUME NEW r \in Requests
      PROVE  TransactionOk(r) /\ OutcomeOk(r) /\ ReadOk(r)
  <2>1. /\ since[r].version = 0 /\ since[r].time = 0 /\ wrote[r] = 0
        /\ phase[r] = "idle" /\ answer[r] = "none" /\ holder # r
    BY SentinelAssumption
  <2>2. ~HasRead(r)
    BY <2>1 DEF HasRead, Decisions
  <2>3. TransactionOk(r)
    BY <2>1 DEF TransactionOk, LockedPhases
  <2>4. OutcomeOk(r)
    BY <2>1 DEF OutcomeOk, ReadPhases
  <2>5. ReadOk(r)
    BY <1>1, <2>1, <2>2 DEF ReadOk
  <2> QED
    BY <2>3, <2>4, <2>5
<1> QED
  BY <1>2, <1>3, <1>4, <1>5 DEF IInv

-----------------------------------------------------------------------------
(* What a step leaves alone.                                                  *)

\* The step is not one of the request q.
Bystander(q) ==
  /\ phase'[q] = phase[q] /\ call'[q] = call[q] /\ since'[q] = since[q]
  /\ existing'[q] = existing[q] /\ staged'[q] = staged[q] /\ view'[q] = view[q]
  /\ wrote'[q] = wrote[q] /\ answer'[q] = answer[q]
  /\ holder' = q <=> holder = q

\* A step that leaves both tables and the history alone leaves the contents of
\* every version and the active keys alone.
LEMMA StoreKept ==
  ASSUME UNCHANGED store
  PROVE  /\ header' = header /\ grant' = grant /\ history' = history
         /\ Current' = Current
         /\ \A n \in Nat : At(n)' = At(n)
         /\ At(Current)' = At(Current)
         /\ StoreIsLatestVersion => StoreIsLatestVersion'
  BY DEF store, Current, At, StoreIsLatestVersion, ActiveKeys

\* The part of the invariant about a request survives the steps of others that
\* leave the store alone.
LEMMA BystanderKept ==
  ASSUME IInv, NEW q \in Requests, UNCHANGED store, Bystander(q),
         now' \in Nat, now <= now'
  PROVE  TransactionOk(q)' /\ OutcomeOk(q)' /\ ReadOk(q)'
<1> USE DEF IInv, Bystander
<1>1. /\ header' = header /\ grant' = grant /\ Current' = Current
      /\ \A n \in Nat : At(n)' = At(n)
      /\ At(Current)' = At(Current)
  BY StoreKept
<1>2. Current \in Nat /\ view[q].version \in Nat /\ since[q].time \in Nat /\ now \in Nat
  BY ContentTypes DEF TypeOK, View
<1>3. TransactionOk(q)'
  <2>1. \A k \in Keys : Found(q, k)' = Found(q, k)
    BY <1>1 DEF Found
  <2>2. NextHeader(q)' = NextHeader(q)
    BY DEF NextHeader
  <2> QED
    BY <1>1, <2>1, <2>2 DEF TransactionOk
<1>4. OutcomeOk(q)'
  BY DEF OutcomeOk
<1>5. ReadOk(q)'
  <2>1. HasRead(q)' <=> HasRead(q)
    BY DEF HasRead
  <2>2. Expired(view[q].validUntil, since[q].time)' <=> Expired(view[q].validUntil, since[q].time)
    BY DEF Expired
  <2> QED
    BY <1>1, <1>2, <2>1, <2>2 DEF ReadOk
<1> QED
  BY <1>3, <1>4, <1>5

-----------------------------------------------------------------------------
(* One lemma for each action: it preserves the inductive invariant.           *)

\* A request that arrives has read and stored nothing.
LEMMA ArriveStep ==
  ASSUME IInv, NEW r \in Requests, NEW c \in Calls, Accept(r, c) \/ Reject(r, c)
  PROVE  IInv'
<1> USE DEF IInv
<1>1. /\ Arrive(r, c) /\ UNCHANGED <<store, holder, now>> /\ Current \in Nat /\ now \in Nat
      /\ phase[r] = "idle"
  BY ContentTypes DEF Accept, Reject, Arrive, TypeOK
<1>2. \/ /\ Valid(c)
         /\ phase' = [phase EXCEPT ![r] = IF c.op = "update" THEN "lock" ELSE "header"]
         /\ answer' = [answer EXCEPT ![r] = "none"]
      \/ phase' = phase /\ answer' = [answer EXCEPT ![r] = "invalid"]
  BY DEF Accept, Reject
<1>3. /\ call'[r] = c /\ since'[r] = [version |-> Current, time |-> now]
      /\ staged'[r] = NothingStaged /\ wrote'[r] = 0 /\ answer'[r] \in {"none", "invalid"}
  BY <1>1, <1>2 DEF Arrive, TypeOK
<1>4. phase'[r] = "idle" \/ (phase'[r] = "lock" /\ c.op = "update" /\ c.expected >= 0)
        \/ (phase'[r] = "header" /\ c.op # "update")
  BY <1>1, <1>2 DEF TypeOK, Valid
<1>5. phase'[r] # "idle" => answer'[r] = "none"
  BY <1>1, <1>2 DEF TypeOK
<1>6. ASSUME NEW q \in Requests, q # r
      PROVE  TransactionOk(q)' /\ OutcomeOk(q)' /\ ReadOk(q)'
  <2>1. Bystander(q)
    BY <1>1, <1>2, <1>6 DEF TypeOK, Bystander, Arrive
  <2> QED
    BY <1>1, <2>1, BystanderKept
<1>7. TransactionOk(r)'
  <2>1. holder' # r
    BY <1>1 DEF TransactionOk, LockedPhases
  <2> QED
    BY <1>3, <1>4, <2>1 DEF TransactionOk, LockedPhases
<1>8. OutcomeOk(r)'
  BY <1>3, <1>4, <1>5 DEF OutcomeOk, ReadPhases
<1>9. ReadOk(r)'
  <2>1. ~HasRead(r)' /\ Current' = Current /\ now' = now
    BY <1>1, <1>3, <1>4, StoreKept DEF HasRead, Decisions
  <2> QED
    BY <1>1, <1>3, <1>4, <2>1 DEF ReadOk
<1>10. TypeOK'
  <2>1. NoView \in View /\ NothingStaged \in
          [header: Header, rows: [Keys -> {"unwritten", "active", "revoked"}]]
    BY NothingStagedType DEF NoView, View, Statuses
  <2>2. phase' \in [Requests -> Phases] /\ answer' \in [Requests -> Answers]
    BY <1>2 DEF TypeOK, Phases, Answers, ReadPhases
  <2>3. \A q \in Requests : holder' = q => phase'[q] \in {"write"} \cup LockedPhases
    BY <1>6, <1>7 DEF TransactionOk
  <2> QED
    BY <1>1, <2>1, <2>2, <2>3, StoreKept DEF TypeOK, Arrive
<1>11. StoreIsLatestVersion' /\ NoLostUpdate'
  BY <1>1, <1>3, StoreKept DEF NoLostUpdate, TypeOK, store, Arrive
<1> QED
  BY <1>6, <1>7, <1>8, <1>9, <1>10, <1>11

\* The row that is locked carries the expected version.
LEMMA LockHeaderStep ==
  ASSUME IInv, NEW r \in Requests, LockHeader(r)
  PROVE  IInv'
<1> USE DEF IInv, LockHeader
<1>1. UNCHANGED <<store, now>> /\ Current \in Nat
  BY ContentTypes DEF TypeOK
<1>2. ASSUME NEW q \in Requests, q # r
      PROVE  TransactionOk(q)' /\ OutcomeOk(q)' /\ ReadOk(q)'
  <2>1. Bystander(q)
    BY <1>2, SentinelAssumption DEF TypeOK, Bystander, RowAvailable
  <2> QED
    BY <1>1, <1>2, <2>1, BystanderKept DEF TypeOK
<1>3. TransactionOk(r)'
  BY <1>1, StoreKept, CallTypes DEF TypeOK, TransactionOk, LockedPhases, ReadPhases, StoreIsLatestVersion, RowAvailable, VersionMatches, Header
<1>4. OutcomeOk(r)'
  BY <1>1, StoreKept, CallTypes DEF TypeOK, TransactionOk, OutcomeOk, LockedPhases, ReadPhases, StoreIsLatestVersion
<1>5. ReadOk(r)'
  BY <1>1, StoreKept DEF TypeOK, ReadOk, HasRead, OutcomeOk, Decisions, View
<1>6. TypeOK'
  <2>1. \A q \in Requests : holder' = q => phase'[q] \in {"write"} \cup LockedPhases
    BY <1>2, <1>3 DEF TransactionOk
  <2> QED
    BY <1>1, <2>1, StoreKept, CallTypes DEF TypeOK, Phases, Answers, LockedPhases, ReadPhases, RowAvailable, Header
<1>7. StoreIsLatestVersion' /\ NoLostUpdate'
  BY <1>1, StoreKept DEF NoLostUpdate, TypeOK, store
<1> QED
  BY <1>2, <1>3, <1>4, <1>5, <1>6, <1>7

\* A refused update has stored nothing.
LEMMA RefuseVersionStep ==
  ASSUME IInv, NEW r \in Requests, RefuseVersion(r)
  PROVE  IInv'
<1> USE DEF IInv, RefuseVersion, Finish
<1>1. UNCHANGED <<store, now>> /\ Current \in Nat
  BY ContentTypes DEF TypeOK
<1>2. ASSUME NEW q \in Requests, q # r
      PROVE  TransactionOk(q)' /\ OutcomeOk(q)' /\ ReadOk(q)'
  <2>1. Bystander(q)
    BY <1>2, SentinelAssumption DEF TypeOK, Bystander
  <2> QED
    BY <1>1, <1>2, <2>1, BystanderKept DEF TypeOK
<1>3. TransactionOk(r)'
  BY <1>1, StoreKept, CallTypes DEF TypeOK, TransactionOk, LockedPhases, ReadPhases, StoreIsLatestVersion
<1>4. OutcomeOk(r)'
  BY <1>1, StoreKept, CallTypes DEF TypeOK, TransactionOk, OutcomeOk, LockedPhases, ReadPhases, StoreIsLatestVersion
<1>5. ReadOk(r)'
  BY <1>1, StoreKept DEF TypeOK, ReadOk, HasRead, OutcomeOk, Decisions, View
<1>6. TypeOK'
  <2>1. \A q \in Requests : holder' = q => phase'[q] \in {"write"} \cup LockedPhases
    BY <1>2, <1>3 DEF TransactionOk
  <2> QED
    BY <1>1, <2>1, StoreKept, CallTypes DEF TypeOK, Phases, Answers, LockedPhases, ReadPhases, Header
<1>7. StoreIsLatestVersion' /\ NoLostUpdate'
  BY <1>1, StoreKept DEF NoLostUpdate, TypeOK, store
<1> QED
  BY <1>2, <1>3, <1>4, <1>5, <1>6, <1>7

\* The owner of the row finds the version it compared, so the UPDATE writes.
LEMMA UpdateHeaderStep ==
  ASSUME IInv, NEW r \in Requests, UpdateHeader(r)
  PROVE  IInv'
<1> USE DEF IInv, UpdateHeader
<1>1. UNCHANGED <<store, now>> /\ Current \in Nat
  BY ContentTypes DEF TypeOK
<1>2. ASSUME NEW q \in Requests, q # r
      PROVE  TransactionOk(q)' /\ OutcomeOk(q)' /\ ReadOk(q)'
  <2>1. Bystander(q)
    BY <1>2, SentinelAssumption DEF TypeOK, Bystander
  <2> QED
    BY <1>1, <1>2, <2>1, BystanderKept DEF TypeOK
<1>3. TransactionOk(r)'
  <2>1. call[r].op = "update" /\ call[r].expected >= 0 /\ wrote[r] = 0
        /\ holder = r /\ Current = call[r].expected /\ staged[r] = NothingStaged
    BY DEF TransactionOk
  <2>2. header.version = call[r].expected
    BY <2>1 DEF StoreIsLatestVersion
  <2>3. phase'[r] = "revoke" /\ staged'[r] = [NothingStaged EXCEPT !.header = NextHeader(r)]
    BY <2>1, <2>2 DEF TypeOK
  <2>4. staged'[r].header = NextHeader(r)' /\ staged'[r].rows = NothingStaged.rows
    BY <2>3 DEF NothingStaged, NextHeader
  <2> QED
    BY <1>1, <2>1, <2>3, <2>4, StoreKept DEF TransactionOk, LockedPhases
<1>4. OutcomeOk(r)'
  BY <1>1, StoreKept, CallTypes DEF TypeOK, TransactionOk, OutcomeOk, LockedPhases, ReadPhases, StoreIsLatestVersion
<1>5. ReadOk(r)'
  BY <1>1, StoreKept DEF TypeOK, ReadOk, HasRead, OutcomeOk, Decisions, View
<1>6. TypeOK'
  <2>1. \A q \in Requests : holder' = q => phase'[q] \in {"write"} \cup LockedPhases
    BY <1>2, <1>3 DEF TransactionOk
  <2>2. NextHeader(r) \in Header /\ NoHeader \in Header
    <3>1. call[r] \in Calls \cup {NoCall} /\ call[r].expected >= 0
      BY DEF TypeOK, TransactionOk
    <3>2. call[r].expected + 1 \in Nat /\ call[r].content \in Content
      BY <3>1, CallTypes
    <3> QED
      BY <3>2 DEF NextHeader, NoHeader, Header, Content, Statuses
  <2>3. staged' \in [Requests -> [header: Header, rows: [Keys -> {"unwritten", "active", "revoked"}]]]
    BY <2>2 DEF TypeOK
  <2> QED
    BY <1>1, <2>1, <2>3, StoreKept DEF TypeOK, Phases, LockedPhases
<1>7. StoreIsLatestVersion' /\ NoLostUpdate'
  BY <1>1, StoreKept DEF NoLostUpdate, TypeOK, store
<1> QED
  BY <1>2, <1>3, <1>4, <1>5, <1>6, <1>7

\* The first update of a pair to insert the row owns it.
LEMMA InsertHeaderStep ==
  ASSUME IInv, NEW r \in Requests, InsertHeader(r)
  PROVE  IInv'
<1> USE DEF IInv, InsertHeader
<1>1. UNCHANGED <<store, now>> /\ Current \in Nat
  BY ContentTypes DEF TypeOK
<1>2. ASSUME NEW q \in Requests, q # r
      PROVE  TransactionOk(q)' /\ OutcomeOk(q)' /\ ReadOk(q)'
  <2>1. Bystander(q)
    BY <1>2, SentinelAssumption DEF TypeOK, Bystander
  <2> QED
    BY <1>1, <1>2, <2>1, BystanderKept DEF TypeOK
<1>3. TransactionOk(r)'
  <2>1. call[r].op = "update" /\ call[r].expected = 0 /\ wrote[r] = 0 /\ staged[r] = NothingStaged
    BY DEF TransactionOk
  <2>2. Current = 0
    BY DEF StoreIsLatestVersion
  <2>3. phase'[r] = "revoke" /\ staged'[r] = [NothingStaged EXCEPT !.header = NextHeader(r)]
    BY <2>1 DEF TypeOK
  <2>4. staged'[r].header = NextHeader(r)' /\ staged'[r].rows = NothingStaged.rows
    BY <2>3 DEF NothingStaged, NextHeader
  <2> QED
    BY <1>1, <2>1, <2>2, <2>3, <2>4, StoreKept DEF TransactionOk, LockedPhases
<1>4. OutcomeOk(r)'
  BY <1>1, StoreKept, CallTypes DEF TypeOK, TransactionOk, OutcomeOk, LockedPhases, ReadPhases, StoreIsLatestVersion
<1>5. ReadOk(r)'
  BY <1>1, StoreKept DEF TypeOK, ReadOk, HasRead, OutcomeOk, Decisions, View
<1>6. TypeOK'
  <2>1. \A q \in Requests : holder' = q => phase'[q] \in {"write"} \cup LockedPhases
    BY <1>2, <1>3 DEF TransactionOk
  <2>2. NextHeader(r) \in Header /\ NoHeader \in Header
    <3>1. call[r] \in Calls \cup {NoCall} /\ call[r].expected >= 0
      BY DEF TypeOK, TransactionOk
    <3>2. call[r].expected + 1 \in Nat /\ call[r].content \in Content
      BY <3>1, CallTypes
    <3> QED
      BY <3>2 DEF NextHeader, NoHeader, Header, Content, Statuses
  <2>3. staged' \in [Requests -> [header: Header, rows: [Keys -> {"unwritten", "active", "revoked"}]]]
    BY <2>2 DEF TypeOK
  <2> QED
    BY <1>1, <2>1, <2>3, StoreKept DEF TypeOK, Phases, LockedPhases
<1>7. StoreIsLatestVersion' /\ NoLostUpdate'
  BY <1>1, StoreKept DEF NoLostUpdate, TypeOK, store
<1> QED
  BY <1>2, <1>3, <1>4, <1>5, <1>6, <1>7

\* The loser of two first updates holds nothing.
LEMMA InsertDuplicateStep ==
  ASSUME IInv, NEW r \in Requests, InsertDuplicate(r)
  PROVE  IInv'
<1> USE DEF IInv, InsertDuplicate, Finish
<1>1. UNCHANGED <<store, now>> /\ Current \in Nat
  BY ContentTypes DEF TypeOK
<1>2. ASSUME NEW q \in Requests, q # r
      PROVE  TransactionOk(q)' /\ OutcomeOk(q)' /\ ReadOk(q)'
  <2>1. Bystander(q)
    BY <1>2, SentinelAssumption DEF TypeOK, Bystander
  <2> QED
    BY <1>1, <1>2, <2>1, BystanderKept DEF TypeOK
<1>3. TransactionOk(r)'
  <2>1. holder # r
    BY DEF TransactionOk, LockedPhases
  <2>2. phase'[r] = "idle"
    BY DEF TypeOK
  <2> QED
    BY <2>1, <2>2 DEF TransactionOk, LockedPhases
<1>4. OutcomeOk(r)'
  BY <1>1, StoreKept, CallTypes DEF TypeOK, TransactionOk, OutcomeOk, LockedPhases, ReadPhases, StoreIsLatestVersion
<1>5. ReadOk(r)'
  BY <1>1, StoreKept DEF TypeOK, ReadOk, HasRead, OutcomeOk, Decisions, View
<1>6. TypeOK'
  <2>1. \A q \in Requests : holder' = q => phase'[q] \in {"write"} \cup LockedPhases
    BY <1>2, <1>3 DEF TransactionOk
  <2> QED
    BY <1>1, <2>1, StoreKept, CallTypes DEF TypeOK, Phases, Answers, LockedPhases, ReadPhases
<1>7. StoreIsLatestVersion' /\ NoLostUpdate'
  BY <1>1, StoreKept DEF NoLostUpdate, TypeOK, store
<1> QED
  BY <1>2, <1>3, <1>4, <1>5, <1>6, <1>7

\* After the revocation the transaction finds no active grant.
LEMMA RevokeGrantsStep ==
  ASSUME IInv, NEW r \in Requests, RevokeGrants(r)
  PROVE  IInv'
<1> USE DEF IInv, RevokeGrants
<1>1. UNCHANGED <<store, now>> /\ Current \in Nat
  BY ContentTypes DEF TypeOK
<1>2. ASSUME NEW q \in Requests, q # r
      PROVE  TransactionOk(q)' /\ OutcomeOk(q)' /\ ReadOk(q)'
  <2>1. Bystander(q)
    BY <1>2, SentinelAssumption DEF TypeOK, Bystander
  <2> QED
    BY <1>1, <1>2, <2>1, BystanderKept DEF TypeOK
<1>3. TransactionOk(r)'
  <2>1. /\ call[r].op = "update" /\ call[r].expected >= 0 /\ wrote[r] = 0
        /\ holder = r /\ Current = call[r].expected /\ staged[r].header = NextHeader(r)
    BY DEF TransactionOk, LockedPhases
  <2>2. /\ phase'[r] = "grant"
        /\ staged'[r].header = staged[r].header
        /\ \A k \in Keys : staged'[r].rows[k] = IF Found(r, k) = "active" THEN "revoked"
                                                ELSE staged[r].rows[k]
    BY DEF TypeOK
  <2>3. \A k \in Keys : Found(r, k)' # "active"
    BY <2>2 DEF TypeOK, Found, store
  <2>4. NextHeader(r)' = NextHeader(r)
    BY DEF NextHeader
  <2> QED
    BY <1>1, <2>1, <2>2, <2>3, <2>4, StoreKept DEF TransactionOk, LockedPhases
<1>4. OutcomeOk(r)'
  BY <1>1, StoreKept, CallTypes DEF TypeOK, TransactionOk, OutcomeOk, LockedPhases, ReadPhases, StoreIsLatestVersion
<1>5. ReadOk(r)'
  BY <1>1, StoreKept DEF TypeOK, ReadOk, HasRead, OutcomeOk, Decisions, View
<1>6. TypeOK'
  <2>1. \A q \in Requests : holder' = q => phase'[q] \in {"write"} \cup LockedPhases
    BY <1>2, <1>3 DEF TransactionOk
  <2>2. staged' \in [Requests -> [header: Header, rows: [Keys -> {"unwritten", "active", "revoked"}]]]
    BY DEF TypeOK
  <2> QED
    BY <1>1, <2>1, <2>2, StoreKept DEF TypeOK, Phases, LockedPhases
<1>7. StoreIsLatestVersion' /\ NoLostUpdate'
  BY <1>1, StoreKept DEF NoLostUpdate, TypeOK, store
<1> QED
  BY <1>2, <1>3, <1>4, <1>5, <1>6, <1>7

\* After the upserts the transaction finds the listed keys active, and no other.
LEMMA UpsertGrantsStep ==
  ASSUME IInv, NEW r \in Requests, UpsertGrants(r)
  PROVE  IInv'
<1> USE DEF IInv, UpsertGrants
<1>1. UNCHANGED <<store, now>> /\ Current \in Nat
  BY ContentTypes DEF TypeOK
<1>2. ASSUME NEW q \in Requests, q # r
      PROVE  TransactionOk(q)' /\ OutcomeOk(q)' /\ ReadOk(q)'
  <2>1. Bystander(q)
    BY <1>2, SentinelAssumption DEF TypeOK, Bystander
  <2> QED
    BY <1>1, <1>2, <2>1, BystanderKept DEF TypeOK
<1>3. TransactionOk(r)'
  <2>1. /\ call[r].op = "update" /\ call[r].expected >= 0 /\ wrote[r] = 0
        /\ holder = r /\ Current = call[r].expected /\ staged[r].header = NextHeader(r)
        /\ \A k \in Keys : Found(r, k) # "active"
    BY DEF TransactionOk, LockedPhases
  <2>2. /\ phase'[r] = "commit"
        /\ staged'[r].header = staged[r].header
        /\ \A k \in Keys : staged'[r].rows[k] = IF k \in call[r].content.keys THEN "active"
                                                ELSE staged[r].rows[k]
    BY DEF TypeOK
  <2>3. \A k \in Keys : Found(r, k)' = "active" <=> k \in call[r].content.keys
    BY <2>1, <2>2 DEF TypeOK, Found, store
  <2>4. NextHeader(r)' = NextHeader(r)
    BY DEF NextHeader
  <2> QED
    BY <1>1, <2>1, <2>2, <2>3, <2>4, StoreKept DEF TransactionOk, LockedPhases
<1>4. OutcomeOk(r)'
  BY <1>1, StoreKept, CallTypes DEF TypeOK, TransactionOk, OutcomeOk, LockedPhases, ReadPhases, StoreIsLatestVersion
<1>5. ReadOk(r)'
  BY <1>1, StoreKept DEF TypeOK, ReadOk, HasRead, OutcomeOk, Decisions, View
<1>6. TypeOK'
  <2>1. \A q \in Requests : holder' = q => phase'[q] \in {"write"} \cup LockedPhases
    BY <1>2, <1>3 DEF TransactionOk
  <2>2. staged' \in [Requests -> [header: Header, rows: [Keys -> {"unwritten", "active", "revoked"}]]]
    BY DEF TypeOK
  <2> QED
    BY <1>1, <2>1, <2>2, StoreKept DEF TypeOK, Phases, LockedPhases
<1>7. StoreIsLatestVersion' /\ NoLostUpdate'
  BY <1>1, StoreKept DEF NoLostUpdate, TypeOK, store
<1> QED
  BY <1>2, <1>3, <1>4, <1>5, <1>6, <1>7

\* A rollback gives the row back and leaves nothing of the transaction.
LEMMA FailStep ==
  ASSUME IInv, NEW r \in Requests, Fail(r)
  PROVE  IInv'
<1> USE DEF IInv, Fail, Finish
<1>1. UNCHANGED <<store, now>> /\ Current \in Nat
  BY ContentTypes DEF TypeOK
<1>2. ASSUME NEW q \in Requests, q # r
      PROVE  TransactionOk(q)' /\ OutcomeOk(q)' /\ ReadOk(q)'
  <2>1. Bystander(q)
    BY <1>2, SentinelAssumption DEF TypeOK, Bystander, Release
  <2> QED
    BY <1>1, <1>2, <2>1, BystanderKept DEF TypeOK
<1>3. TransactionOk(r)'
  <2>1. holder' # r /\ phase'[r] = "idle"
    BY SentinelAssumption DEF TypeOK, Release
  <2> QED
    BY <2>1 DEF TransactionOk, LockedPhases
<1>4. OutcomeOk(r)'
  BY <1>1, StoreKept, CallTypes DEF TypeOK, TransactionOk, OutcomeOk, LockedPhases, ReadPhases, StoreIsLatestVersion
<1>5. ReadOk(r)'
  BY <1>1, StoreKept DEF TypeOK, ReadOk, HasRead, OutcomeOk, Decisions, View
<1>6. TypeOK'
  <2>1. \A q \in Requests : holder' = q => phase'[q] \in {"write"} \cup LockedPhases
    BY <1>2, <1>3 DEF TransactionOk
  <2>2. NoView \in View /\ holder' \in Requests \cup {NoRequest}
    BY DEF NoView, View, Statuses, Release, TypeOK
  <2>3. existing' \in [Requests -> Nat] /\ staged' \in [Requests -> [header: Header,
                              rows: [Keys -> {"unwritten", "active", "revoked"}]]]
    BY NothingStagedType DEF TypeOK
  <2> QED
    BY <1>1, <2>1, <2>2, <2>3, StoreKept DEF TypeOK, Phases, Answers
<1>7. StoreIsLatestVersion' /\ NoLostUpdate'
  BY <1>1, StoreKept DEF NoLostUpdate, TypeOK, store
<1> QED
  BY <1>2, <1>3, <1>4, <1>5, <1>6, <1>7

\* A header read is that of the current version.
LEMMA ReadHeaderStep ==
  ASSUME IInv, NEW r \in Requests, ReadHeader(r)
  PROVE  IInv'
<1> USE DEF IInv, ReadHeader
<1>1. UNCHANGED <<store, now>> /\ Current \in Nat
  BY ContentTypes DEF TypeOK
<1>2. ASSUME NEW q \in Requests, q # r
      PROVE  TransactionOk(q)' /\ OutcomeOk(q)' /\ ReadOk(q)'
  <2>1. Bystander(q)
    BY <1>2, SentinelAssumption DEF TypeOK, Bystander
  <2> QED
    BY <1>1, <1>2, <2>1, BystanderKept DEF TypeOK
<1>3. TransactionOk(r)'
  BY <1>1, StoreKept, CallTypes DEF TypeOK, TransactionOk, LockedPhases, ReadPhases, StoreIsLatestVersion
<1>4. OutcomeOk(r)'
  BY <1>1, StoreKept, CallTypes DEF TypeOK, TransactionOk, OutcomeOk, LockedPhases, ReadPhases, StoreIsLatestVersion, NoLostUpdate
<1>5. ReadOk(r)'
  <2>1. view'[r] = [version |-> header.version, status |-> header.status,
                    validUntil |-> header.validUntil, keys |-> {}]
    BY DEF TypeOK
  <2>2. /\ view'[r].version = Current
        /\ view'[r].status = At(Current).status
        /\ view'[r].validUntil = At(Current).validUntil
        /\ view'[r].keys = {}
    BY <2>1 DEF StoreIsLatestVersion
  <2>3. answer'[r] = "none" /\ phase'[r] = IF Current = 0 THEN "respond" ELSE "grants"
    BY DEF OutcomeOk, TypeOK, StoreIsLatestVersion
  <2>4. HasRead(r)' => Current = 0 /\ At(Current).keys = {}
    BY <2>3 DEF HasRead, Decisions, At, FoundationContent
  <2>5. since'[r] = since[r] /\ since[r].version \in Nat /\ since[r].version <= Current
    BY DEF TypeOK, ReadOk
  <2>6. Current' = Current /\ At(Current)' = At(Current) /\ now' = now
    BY <1>1, StoreKept
  <2>7. view'[r].version \in since'[r].version .. Current'
    BY <1>1, <2>2, <2>5, <2>6
  <2>8. At(view[r].version)' = At(Current)'
    BY <2>2, <2>6 DEF At
  <2>9. HasRead(r)' => view'[r].keys = At(Current)'.keys /\ Current' \in view'[r].version .. Current'
    BY <1>1, <2>2, <2>4, <2>6
  <2> QED
    BY <1>1, <2>2, <2>3, <2>5, <2>6, <2>7, <2>8, <2>9 DEF ReadOk
<1>6. TypeOK'
  <2>1. \A q \in Requests : holder' = q => phase'[q] \in {"write"} \cup LockedPhases
    BY <1>2, <1>3 DEF TransactionOk
  <2> QED
    BY <1>1, <2>1, StoreKept, CallTypes DEF TypeOK, Phases, Answers, LockedPhases, ReadPhases, View, Header
<1>7. StoreIsLatestVersion' /\ NoLostUpdate'
  BY <1>1, StoreKept DEF NoLostUpdate, TypeOK, store
<1> QED
  BY <1>2, <1>3, <1>4, <1>5, <1>6, <1>7

\* Grants read after the header are those of its version or a later one.
LEMMA ReadGrantsStep ==
  ASSUME IInv, NEW r \in Requests, ReadGrants(r)
  PROVE  IInv'
<1> USE DEF IInv, ReadGrants
<1>1. UNCHANGED <<store, now>> /\ Current \in Nat
  BY ContentTypes DEF TypeOK
<1>2. ASSUME NEW q \in Requests, q # r
      PROVE  TransactionOk(q)' /\ OutcomeOk(q)' /\ ReadOk(q)'
  <2>1. Bystander(q)
    BY <1>2, SentinelAssumption DEF TypeOK, Bystander
  <2> QED
    BY <1>1, <1>2, <2>1, BystanderKept DEF TypeOK
<1>3. TransactionOk(r)'
  BY <1>1, StoreKept, CallTypes DEF TypeOK, TransactionOk, LockedPhases, ReadPhases, StoreIsLatestVersion
<1>4. OutcomeOk(r)'
  BY <1>1, StoreKept, CallTypes DEF TypeOK, TransactionOk, OutcomeOk, LockedPhases, ReadPhases, StoreIsLatestVersion
<1>5. ReadOk(r)'
  <2>1. /\ view'[r] = [view[r] EXCEPT !.keys = ActiveKeys]
        /\ phase'[r] = "respond" /\ answer'[r] = "none"
    BY DEF TypeOK, OutcomeOk
  <2>2. /\ view'[r].version = view[r].version
        /\ view'[r].status = view[r].status
        /\ view'[r].validUntil = view[r].validUntil
        /\ view'[r].keys = At(Current).keys
        /\ view[r].version \in Nat
    BY <2>1 DEF TypeOK, View, StoreIsLatestVersion
  <2>3. view[r].version \in since[r].version .. Current /\ since[r].version \in Nat
    BY DEF ReadOk, TypeOK
  <2> QED
    BY <1>1, <2>1, <2>2, <2>3, StoreKept DEF ReadOk
<1>6. TypeOK'
  <2>1. \A q \in Requests : holder' = q => phase'[q] \in {"write"} \cup LockedPhases
    BY <1>2, <1>3 DEF TransactionOk
  <2>2. view' \in [Requests -> View]
    BY DEF TypeOK, View, ActiveKeys
  <2> QED
    BY <1>1, <2>1, <2>2, StoreKept DEF TypeOK, Phases, ReadPhases
<1>7. StoreIsLatestVersion' /\ NoLostUpdate'
  BY <1>1, StoreKept DEF NoLostUpdate, TypeOK, store
<1> QED
  BY <1>2, <1>3, <1>4, <1>5, <1>6, <1>7

\* An outcome restates what was read.
LEMMA RespondStep ==
  ASSUME IInv, NEW r \in Requests, Respond(r)
  PROVE  IInv'
<1> USE DEF IInv, Respond, Finish, Outcome, Reason
<1>1. UNCHANGED <<store, now>> /\ Current \in Nat
  BY ContentTypes DEF TypeOK
<1>2. ASSUME NEW q \in Requests, q # r
      PROVE  TransactionOk(q)' /\ OutcomeOk(q)' /\ ReadOk(q)'
  <2>1. Bystander(q)
    BY <1>2, SentinelAssumption DEF TypeOK, Bystander
  <2> QED
    BY <1>1, <1>2, <2>1, BystanderKept DEF TypeOK
<1>3. TransactionOk(r)'
  BY <1>1, StoreKept, CallTypes DEF TypeOK, TransactionOk, LockedPhases, ReadPhases, StoreIsLatestVersion
<1>4. OutcomeOk(r)'
  BY <1>1, StoreKept, CallTypes DEF TypeOK, TransactionOk, OutcomeOk, LockedPhases, ReadPhases, StoreIsLatestVersion, Decisions
<1>5. ReadOk(r)'
  <2>1. view'[r] = view[r] /\ since'[r] = since[r] /\ call'[r] = call[r] /\ HasRead(r)
    BY DEF HasRead
  <2>2. answer'[r] = "entitlement_active" =>
          view[r].status = "active" /\ ~Expired(view[r].validUntil, now)
            /\ call[r].key \in view[r].keys
    BY DEF TypeOK
  <2>3. ~Expired(view[r].validUntil, now) => ~Expired(view[r].validUntil, since[r].time)
    BY DEF Expired, TypeOK, View, ReadOk
  <2>4. view[r].version \in Nat
    BY DEF TypeOK, View
  <2> QED
    BY <1>1, <2>1, <2>2, <2>3, <2>4, StoreKept DEF ReadOk, Expired
<1>6. TypeOK'
  <2>1. \A q \in Requests : holder' = q => phase'[q] \in {"write"} \cup LockedPhases
    BY <1>2, <1>3 DEF TransactionOk
  <2> QED
    BY <1>1, <2>1, StoreKept, CallTypes DEF TypeOK, Phases, Answers, LockedPhases, ReadPhases, Decisions
<1>7. StoreIsLatestVersion' /\ NoLostUpdate'
  BY <1>1, StoreKept DEF NoLostUpdate, TypeOK, store
<1> QED
  BY <1>2, <1>3, <1>4, <1>5, <1>6, <1>7

\* The replacement that commits owns the row and compared the version that is still
\* the current one: it becomes the next version, whole, and no one else's.
LEMMA InstallStep ==
  ASSUME IInv, NEW r \in Requests, Commit(r) \/ CommitUnacknowledged(r)
  PROVE  IInv'
<1> USE DEF IInv
<1>1. /\ Install(r) /\ phase[r] = "commit"
      /\ \/ phase' = [phase EXCEPT ![r] = "header"] /\ answer' = answer
         \/ phase' = [phase EXCEPT ![r] = "idle"] /\ answer' = [answer EXCEPT ![r] = "failed"]
  BY DEF Commit, CommitUnacknowledged, Finish, Install
<1>2. /\ call[r].op = "update" /\ holder = r /\ Current = call[r].expected /\ wrote[r] = 0
      /\ staged[r].header = NextHeader(r)
      /\ \A k \in Keys : Found(r, k) = "active" <=> k \in call[r].content.keys
  BY <1>1 DEF TransactionOk, LockedPhases
<1>3. Current \in Nat /\ call[r].content \in Content
  BY ContentTypes, CallTypes DEF TypeOK
<1>4. /\ history' = Append(history, call[r].content)
      /\ history' \in Seq(Content)
      /\ Current' = Current + 1
      /\ \A n \in 1 .. Current : history'[n] = history[n]
      /\ history'[Current + 1] = call[r].content
  <2>1. history' = Append(history, call[r].content)
    BY <1>1 DEF Install
  <2> QED
    BY <1>3, <2>1, HistoryGrows DEF TypeOK, Current
<1>5. /\ \A n \in 0 .. Current : At(n)' = At(n)
      /\ At(Current)' = call[r].content
  <2>1. ASSUME NEW n \in 0 .. Current
        PROVE  At(n)' = At(n)
    <3>1. n = 0 \/ n \in 1 .. Current
      BY <1>3, <2>1
    <3>2. n # 0 => history'[n] = history[n]
      BY <1>4, <3>1
    <3> QED
      BY <3>2 DEF At
  <2>2. At(Current)' = history'[Current']
    BY <1>3, <1>4 DEF At
  <2> QED
    BY <1>4, <2>1, <2>2
<1>6. header' = NextHeader(r) /\ header'.version = Current + 1
  BY <1>1, <1>2, <1>3 DEF Install, NextHeader
<1>7. StoreIsLatestVersion'
  <2>1. grant' = [k \in Keys |-> Found(r, k)]
    BY <1>1 DEF Install
  <2>2. call[r].content.keys \subseteq Keys
    BY <1>3 DEF Content
  <2>3. ActiveKeys' = call[r].content.keys
    BY <1>2, <2>1, <2>2 DEF ActiveKeys
  <2> QED
    BY <1>2, <1>3, <1>4, <1>5, <1>6, <2>3 DEF StoreIsLatestVersion, NextHeader
<1>8. NoLostUpdate'
  <2>1. wrote' = [wrote EXCEPT ![r] = Current + 1] /\ call' = call
    BY <1>1 DEF Install
  <2>2. wrote'[r] = Current + 1 /\ \A q \in Requests \ {r} : wrote'[q] = wrote[q]
    BY <2>1 DEF TypeOK
  <2>3. \A q \in Requests : wrote[q] # 0 => wrote[q] \in 1 .. Current
    BY DEF NoLostUpdate
  <2>4. ASSUME NEW q \in Requests, wrote'[q] # 0
        PROVE  /\ wrote'[q] \in 1 .. Current'
               /\ wrote'[q] = call'[q].expected + 1
               /\ history'[wrote'[q]] = call'[q].content
               /\ \A p \in Requests \ {q} : wrote'[p] # wrote'[q]
    <3>1. CASE q = r
      <4>1. wrote'[q] = Current + 1 /\ Current + 1 \in 1 .. Current'
        BY <1>3, <1>4, <2>2, <3>1
      <4>2. call'[q] = call[r]
        BY <2>1, <3>1
      <4>3. \A p \in Requests \ {q} : wrote'[p] # Current + 1
        BY <1>3, <2>2, <2>3, <3>1
      <4> QED
        BY <1>2, <1>4, <4>1, <4>2, <4>3
    <3>2. CASE q # r
      <4>1. wrote'[q] = wrote[q] /\ wrote[q] \in 1 .. Current
        BY <2>2, <2>3, <2>4, <3>2
      <4>2. /\ wrote[q] = call[q].expected + 1 /\ history[wrote[q]] = call[q].content
            /\ \A p \in Requests \ {q} : wrote[p] # wrote[q]
        BY <2>4, <4>1 DEF NoLostUpdate
      <4>3. wrote[q] \in 1 .. Current' /\ wrote[q] # Current + 1
        BY <1>3, <1>4, <4>1
      <4>4. \A p \in Requests \ {q} : wrote'[p] # wrote[q]
        BY <2>2, <4>2, <4>3
      <4> QED
        BY <1>4, <2>1, <4>1, <4>2, <4>3, <4>4
    <3> QED
      BY <3>1, <3>2
  <2> QED
    BY <2>4 DEF NoLostUpdate
<1>9. holder' = NoRequest /\ NoRequest \notin Requests
  BY <1>1, <1>2, SentinelAssumption DEF Install, Release
<1>10. ASSUME NEW q \in Requests, phase[q] \notin LockedPhases \/ q = r
       PROVE  TransactionOk(q)'
  <2>1. phase'[q] \notin LockedPhases
    BY <1>1, <1>10 DEF TypeOK, LockedPhases
  <2>2. holder' # q
    BY <1>9
  <2>3. phase[q] = "write" => existing[q] = 0 \/ holder = q
    BY DEF TransactionOk, TypeOK
  <2>4. phase'[q] = "write" => q # r /\ existing'[q] = 0 /\ existing'[q] = call'[q].expected
    BY <1>1, <1>2, <1>10, <2>3 DEF TypeOK, Install, TransactionOk
  <2>5. phase'[q] \in {"lock", "write"} =>
          /\ call'[q].op = "update" /\ call'[q].expected >= 0 /\ wrote'[q] = 0
          /\ staged'[q] = NothingStaged
    BY <1>1 DEF TypeOK, Install, TransactionOk
  <2> QED
    BY <2>1, <2>2, <2>4, <2>5 DEF TransactionOk, LockedPhases
<1>11. ASSUME NEW q \in Requests
       PROVE  TransactionOk(q)'
  BY <1>2, <1>10 DEF TransactionOk
<1>12. ASSUME NEW q \in Requests
       PROVE  OutcomeOk(q)'
  <2>1. CASE q = r
    <3>1. answer[r] = "none"
      BY <1>1 DEF OutcomeOk
    <3>2. /\ wrote'[r] = Current + 1
          /\ \/ phase'[r] = "header" /\ answer'[r] = "none"
             \/ phase'[r] = "idle" /\ answer'[r] = "failed"
      BY <1>1, <3>1 DEF TypeOK, Install
    <3> QED
      BY <1>3, <2>1, <3>2 DEF OutcomeOk, ReadPhases
  <2>2. CASE q # r
    <3>1. /\ phase'[q] = phase[q] /\ answer'[q] = answer[q] /\ call'[q] = call[q]
          /\ wrote'[q] = wrote[q] /\ view'[q] = view[q]
      BY <1>1, <2>2 DEF TypeOK, Install
    <3>2. OutcomeOk(q)
      OBVIOUS
    <3> HIDE DEF IInv
    <3> QED
      BY <3>1, <3>2 DEF OutcomeOk
  <2> QED
    BY <2>1, <2>2
<1>13. ASSUME NEW q \in Requests
       PROVE  ReadOk(q)'
  <2>1. /\ since'[q] = since[q] /\ view'[q] = view[q] /\ call'[q] = call[q] /\ now' = now
        /\ since[q].version \in Nat /\ view[q].version \in Nat
    BY <1>1 DEF Install, TypeOK, View
  <2>2. /\ phase'[q] = "grants" => phase[q] = "grants"
        /\ HasRead(q)' => HasRead(q)
        /\ answer'[q] = "entitlement_active" => answer[q] = "entitlement_active"
    BY <1>1 DEF HasRead, TypeOK, Decisions
  <2>3. Expired(view[q].validUntil, since[q].time)' <=> Expired(view[q].validUntil, since[q].time)
    BY <2>1 DEF Expired
  <2>4. phase[q] = "grants" \/ HasRead(q) =>
          /\ view[q].version \in 0 .. Current
          /\ At(view[q].version)' = At(view[q].version)
    BY <1>3, <1>5, <2>1 DEF ReadOk
  <2>5. HasRead(q) => \E w \in view[q].version .. Current' : view[q].keys = At(w)'.keys
    BY <1>3, <1>4, <1>5, <2>1 DEF ReadOk
  <2> QED
    BY <1>3, <1>4, <2>1, <2>2, <2>3, <2>4, <2>5 DEF ReadOk
<1>14. TypeOK'
  <2>1. header' \in Header
    BY <1>3, <1>6 DEF NextHeader, Header, Content
  <2>2. grant' \in [Keys -> {"absent", "active", "revoked"}]
    BY <1>1 DEF Install, Found, TypeOK
  <2>3. wrote' \in [Requests -> Nat]
    BY <1>1, <1>3 DEF Install, TypeOK
  <2>4. existing' \in [Requests -> Nat] /\ staged' \in [Requests -> [header: Header,
                              rows: [Keys -> {"unwritten", "active", "revoked"}]]]
    BY <1>1, NothingStagedType DEF Install, TypeOK
  <2> QED
    BY <1>1, <1>4, <1>9, <2>1, <2>2, <2>3, <2>4 DEF TypeOK, Install, Phases, Answers, ReadPhases
<1> QED
  BY <1>7, <1>8, <1>11, <1>12, <1>13, <1>14

\* Time passes for every request alike.
LEMMA TickStep ==
  ASSUME IInv, Tick \/ UNCHANGED vars
  PROVE  IInv'
<1> USE DEF IInv
<1>1. UNCHANGED store /\ now' \in Nat /\ now <= now'
  BY DEF Tick, vars, store, TypeOK
<1>2. UNCHANGED <<holder, phase, progress>>
  BY DEF Tick, vars, progress
<1>3. ASSUME NEW q \in Requests
      PROVE  TransactionOk(q)' /\ OutcomeOk(q)' /\ ReadOk(q)'
  BY <1>1, <1>2, BystanderKept DEF Bystander, progress
<1>4. TypeOK'
  BY <1>1, <1>2 DEF TypeOK, store, progress
<1>5. StoreIsLatestVersion' /\ NoLostUpdate'
  BY <1>1, <1>2, StoreKept DEF NoLostUpdate, progress
<1> QED
  BY <1>3, <1>4, <1>5

-----------------------------------------------------------------------------
(* The invariant, and the properties it implies.                              *)

\* Whatever the interleaving of statements, failures and clock ticks, every request
\* may rely on what the invariant grants it.
THEOREM Invariance == Spec => []IInv
<1>1. IInv /\ [Next]_vars => IInv'
  <2>1. SUFFICES ASSUME IInv, [Next]_vars PROVE IInv'
    OBVIOUS
  <2>2. CASE \E r \in Requests, c \in Calls : Accept(r, c) \/ Reject(r, c)
    BY <2>1, <2>2, ArriveStep
  <2>3. ASSUME NEW r \in Requests, Step(r) \/ Fail(r)
        PROVE  IInv'
    BY <2>1, <2>3, LockHeaderStep, RefuseVersionStep, UpdateHeaderStep, InsertHeaderStep,
       InsertDuplicateStep, RevokeGrantsStep, UpsertGrantsStep, InstallStep, FailStep,
       ReadHeaderStep, ReadGrantsStep, RespondStep DEF Step
  <2>4. CASE Tick \/ UNCHANGED vars
    BY <2>1, <2>4, TickStep
  <2> QED
    BY <2>1, <2>2, <2>3, <2>4 DEF Next
<1> QED
  BY <1>1, InitIInv, PTL DEF Spec

\* Every variable keeps its type, for any requests, keys, contents and bounds.
THEOREM TypeCorrectness == Spec => []TypeOK
<1>1. IInv => TypeOK
  BY DEF IInv
<1> QED
  BY <1>1, Invariance, PTL

\* The tables hold the last committed replacement, whole and alone.
THEOREM StoreCorrectness == Spec => []StoreIsLatestVersion
<1>1. IInv => StoreIsLatestVersion
  BY DEF IInv
<1> QED
  BY <1>1, Invariance, PTL

\* No replacement is lost to a concurrent one that expected the same version.
THEOREM UpdateSafety == Spec => []NoLostUpdate
<1>1. IInv => NoLostUpdate
  BY DEF IInv
<1> QED
  BY <1>1, Invariance, PTL

\* The outcome of an update says whether it was stored.
THEOREM OutcomeHonesty == Spec => []AnswersAreHonest
<1>1. IInv => AnswersAreHonest
  BY DEF IInv, AnswersAreHonest, OutcomeOk
<1> QED
  BY <1>1, Invariance, PTL

\* What bears the current version is the current content, although it was read by
\* two statements.
THEOREM ViewExactness == Spec => []CurrentViewIsExact
<1>1. IInv => CurrentViewIsExact
  BY DEF IInv, CurrentViewIsExact, ReadOk, HasRead
<1> QED
  BY <1>1, Invariance, PTL

\* Nothing is allowed without a grant and an active, unexpired version behind it.
THEOREM FailClosed == Spec => []AllowedIsBacked
<1>1. IInv => AllowedIsBacked
  <2>1. SUFFICES ASSUME IInv, NEW r \in Requests, answer[r] = "entitlement_active"
                 PROVE  AllowedIsBacked!(r)!2
    BY DEF AllowedIsBacked
  <2>2. ReadOk(r) /\ HasRead(r)
    BY <2>1 DEF IInv, HasRead, Decisions
  <2> QED
    BY <2>1, <2>2 DEF ReadOk, Expired
<1> QED
  BY <1>1, Invariance, PTL

\* A row changes only with the version, and the version only by one.
THEOREM VersionDiscipline == Spec => RowsChangeWithVersion
<1>1. IInv /\ [Next]_vars =>
        [header' # header \/ grant' # grant => header'.version = header.version + 1]_vars
  <2>1. SUFFICES ASSUME IInv, Next, ~UNCHANGED <<header, grant>>
                 PROVE  header'.version = header.version + 1
    OBVIOUS
  <2>2. PICK r \in Requests : Install(r)
    BY <2>1 DEF Next, Step, Accept, Reject, Arrive, LockHeader, RefuseVersion, UpdateHeader,
       InsertHeader, InsertDuplicate, RevokeGrants, UpsertGrants, Commit,
       CommitUnacknowledged, ReadHeader, ReadGrants, Respond, Fail, Tick, store
  <2>3. /\ staged[r].header = NextHeader(r) /\ Current = call[r].expected
        /\ header.version = Current /\ Current \in Nat
    BY <2>1, <2>2, ContentTypes
       DEF IInv, TransactionOk, LockedPhases, Install, StoreIsLatestVersion, TypeOK
  <2> QED
    BY <2>2, <2>3 DEF Install, NextHeader
<1> QED
  BY <1>1, Invariance, PTL DEF Spec, RowsChangeWithVersion

-----------------------------------------------------------------------------
(* What a request has read.                                                   *)

\* The invariant of the reads holds at the start and is kept by every step.
LEMMA InitReadInOrder == Init => ReadInOrder
  BY DEF Init, ReadInOrder, LockedPhases

LEMMA ReadInOrderStep ==
  ASSUME IInv, ReadInOrder, [Next]_vars
  PROVE  ReadInOrder'
<1> USE DEF IInv, TypeOK, ReadInOrder, LockedPhases
<1>1. ASSUME NEW r \in Requests, NEW c \in Calls, Accept(r, c) \/ Reject(r, c)
      PROVE  ReadInOrder'
  BY <1>1 DEF Accept, Reject, Arrive, store
<1>2. ASSUME NEW r \in Requests, LockHeader(r) \/ RefuseVersion(r) \/ UpdateHeader(r)
                \/ InsertHeader(r) \/ InsertDuplicate(r) \/ RevokeGrants(r) \/ UpsertGrants(r)
      PROVE  ReadInOrder'
  BY <1>2 DEF LockHeader, RefuseVersion, UpdateHeader, InsertHeader, InsertDuplicate, RevokeGrants,
     UpsertGrants, Finish, store
<1>3. ASSUME NEW r \in Requests, Commit(r) \/ CommitUnacknowledged(r)
      PROVE  ReadInOrder'
  BY <1>3 DEF Commit, CommitUnacknowledged, Install, Finish
<1>4. ASSUME NEW r \in Requests, ReadHeader(r)
      PROVE  ReadInOrder'
  BY <1>4 DEF ReadHeader, store, Header, View
<1>5. ASSUME NEW r \in Requests, ReadGrants(r)
      PROVE  ReadInOrder'
  <2>1. view'[r].version = view[r].version
    BY <1>5 DEF ReadGrants, View
  <2> QED
    BY <1>5, <2>1 DEF ReadGrants, store
<1>6. ASSUME NEW r \in Requests, Respond(r) \/ Fail(r)
      PROVE  ReadInOrder'
  BY <1>6 DEF Respond, Fail, Finish, store
<1>7. CASE Tick \/ UNCHANGED vars
  BY <1>7 DEF Tick, store, progress, vars
<1> QED
  BY <1>1, <1>2, <1>3, <1>4, <1>5, <1>6, <1>7 DEF Next, Step

-----------------------------------------------------------------------------
(* The mapping of the steps.                                                  *)

\* A statement that stores nothing and answers nothing is none of the register's steps.
LEMMA QuietStep ==
  ASSUME TypeOK, TypeOK', NEW r \in Requests, phase[r] # "idle", phase'[r] # "idle",
         \A q \in Requests \ {r} : phase'[q] = phase[q] /\ view'[q] = view[q],
         UNCHANGED <<history, now, call, since, wrote, answer>>
  PROVE  UNCHANGED Authority!vars
  BY DEF Authority!vars, TypeOK

\* The end of a request that has not answered with a snapshot.
LEMMA ClosingStep ==
  ASSUME TypeOK, NEW r \in Requests, NEW a, phase[r] # "idle", Finish(r, a),
         view'[r] = NoView, view' = [view EXCEPT ![r] = view'[r]]
  PROVE  /\ Authority!Close(r, a)
         /\ UNCHANGED [q \in Requests |-> IF phase[q] = "idle" THEN view[q] ELSE NoView]
  BY DEF Authority!Close, Finish, TypeOK

\* A compare-and-swap over the version the update expects.
LEMMA SwapStep ==
  ASSUME IInv, NEW r \in Requests, Install(r)
  PROVE  Authority!Swap(r)
  BY DEF IInv, TypeOK, TransactionOk, LockedPhases, Install, Authority!Swap, Authority!Current, Current

\* The snapshot of a request that has read both tables is one the register may answer.
LEMMA AnswerStep ==
  ASSUME IInv, ReadInOrder, NEW r \in Requests, Respond(r)
  PROVE  Authority!Answer(r)
<1> DEFINE v == view[r].version
<1>1. /\ TypeOK /\ OutcomeOk(r) /\ ReadOk(r) /\ phase[r] = "respond" /\ HasRead(r)
      /\ view[r] \in View /\ v \in Nat /\ since[r].version \in Nat /\ wrote[r] \in Nat
  BY DEF IInv, Respond, HasRead, TypeOK, View
<1>2. /\ v \in since[r].version .. Current
      /\ view[r].status = At(v).status
      /\ view[r].validUntil = At(v).validUntil
  BY <1>1 DEF ReadOk
<1>3. PICK w \in v .. Current : view[r].keys = At(w).keys
  BY <1>1 DEF ReadOk
<1>4. call[r].op = "update" => wrote[r] # 0 /\ v >= wrote[r]
  BY <1>1 DEF OutcomeOk
<1>5. Current \in Nat /\ Authority!Current = Current /\ v \in 0 .. Authority!Current
  BY <1>1, <1>2, ContentTypes DEF Authority!Current, Current, TypeOK
<1>6. view[r] = Authority!Snapshot(v, w)
  BY <1>1, <1>2, <1>3, <1>5 DEF Authority!Snapshot, Authority!At, At, View, FoundationContent, ReadInOrder
<1>7. Outcome(r) = IF call[r].op = "decide" THEN Reason(view[r], call[r].key, now) ELSE "snapshot"
  BY <1>1, <1>4 DEF Outcome
<1>8. /\ [q \in Requests |-> IF phase'[q] = "idle" THEN view'[q] ELSE NoView]
           = [[q \in Requests |-> IF phase[q] = "idle" THEN view[q] ELSE NoView] EXCEPT ![r] = view[r]]
      /\ Authority!Close(r, Outcome(r))
      /\ UNCHANGED <<history, now, call, since, wrote>>
  BY <1>1 DEF Respond, Finish, Authority!Close, TypeOK, store
<1>9. /\ IF call[r].op = "update" THEN wrote[r] # 0 /\ v >= wrote[r] ELSE v >= since[r].version
      /\ w \in v .. Authority!Current
      /\ Authority!Close(r, IF call[r].op = "decide"
                            THEN Reason(Authority!Snapshot(v, w), call[r].key, now) ELSE "snapshot")
  <2>1. v >= since[r].version
    BY <1>1, <1>2
  <2> QED
    BY <2>1, <1>4, <1>5, <1>6, <1>7, <1>8 DEF Authority!Close
<1> HIDE DEF v
<1> QED
  BY <1>5, <1>6, <1>8, <1>9, Zenon DEF Authority!Answer

\* Every step of the code is a step of the register or none.
LEMMA StepSimulation ==
  ASSUME IInv, ReadInOrder, IInv', [Next]_vars
  PROVE  [Authority!Next]_Authority!vars
<1> USE DEF Authority!Next
<1> TypeOK /\ TypeOK' /\ (\A r \in Requests : TransactionOk(r))
  BY DEF IInv
<1>1. ASSUME NEW r \in Requests, NEW c \in Calls, Accept(r, c) \/ Reject(r, c)
      PROVE  Authority!Submit(r, c)
  <2>1. Authority!Snapshot(0, 0) = NoView
    BY DEF Authority!Snapshot, Authority!At, FoundationContent, NoView
  <2>2. Authority!Current = Current
    BY DEF Authority!Current, Current
  <2>3. /\ phase[r] = "idle" /\ phase' = [phase EXCEPT ![r] = phase'[r]]
        /\ (phase'[r] # "idle") = Valid(c)
        /\ view' = [view EXCEPT ![r] = NoView]
        /\ answer' = [answer EXCEPT ![r] = IF Valid(c) THEN "none" ELSE "invalid"]
        /\ Arrive(r, c)
    <3>1. Valid(c) \in BOOLEAN
      BY DEF Valid
    <3>2. CASE Accept(r, c)
      BY <3>1, <3>2 DEF Accept, Arrive, TypeOK
    <3>3. CASE Reject(r, c)
      BY <3>1, <3>3 DEF Reject, Arrive, TypeOK
    <3> QED
      BY <1>1, <3>2, <3>3
  <2>4. [q \in Requests |-> phase'[q] # "idle"]
          = [[q \in Requests |-> phase[q] # "idle"] EXCEPT ![r] = Valid(c)]
    BY <2>3 DEF TypeOK
  <2>5. [q \in Requests |-> IF phase'[q] = "idle" THEN view'[q] ELSE NoView]
          = [[q \in Requests |-> IF phase[q] = "idle" THEN view[q] ELSE NoView] EXCEPT ![r] = NoView]
    BY <2>3 DEF TypeOK
  <2> QED
    BY <2>1, <2>2, <2>3, <2>4, <2>5 DEF Arrive, Authority!Submit, store
<1>2. ASSUME NEW r \in Requests, LockHeader(r) \/ UpdateHeader(r) \/ InsertHeader(r)
                \/ RevokeGrants(r) \/ UpsertGrants(r) \/ ReadHeader(r) \/ ReadGrants(r)
      PROVE  UNCHANGED Authority!vars
  <2>1. /\ phase[r] # "idle" /\ phase'[r] # "idle"
        /\ \A q \in Requests \ {r} : phase'[q] = phase[q] /\ view'[q] = view[q]
        /\ UNCHANGED <<history, now, call, since, wrote, answer>>
    BY <1>2 DEF LockHeader, UpdateHeader, InsertHeader, RevokeGrants, UpsertGrants, ReadHeader,
       ReadGrants, TypeOK, store
  <2> QED
    BY <2>1, QuietStep
<1>3. ASSUME NEW r \in Requests, RefuseVersion(r)
      PROVE  Authority!Conflict(r)
  <2>1. view[r] = NoView /\ view' = view /\ phase[r] # "idle" /\ Finish(r, "conflict")
    BY <1>3 DEF RefuseVersion, ReadInOrder
  <2>2. Authority!Close(r, "conflict")
        /\ UNCHANGED [q \in Requests |-> IF phase[q] = "idle" THEN view[q] ELSE NoView]
    BY <2>1, ClosingStep DEF TypeOK
  <2>3. call[r].op = "update" /\ wrote[r] = 0 /\ header.version = Authority!Current
    BY <1>3 DEF RefuseVersion, TransactionOk, IInv, StoreIsLatestVersion, Authority!Current, Current
  <2> QED
    BY <1>3, <2>2, <2>3 DEF Authority!Conflict, RefuseVersion, VersionMatches, store
<1>4. ASSUME NEW r \in Requests, InsertDuplicate(r) \/ Fail(r)
      PROVE  Authority!Failure(r)
  <2>1. /\ view'[r] = NoView /\ view' = [view EXCEPT ![r] = view'[r]]
        /\ phase[r] # "idle" /\ Finish(r, "failed")
        /\ UNCHANGED <<history, now, call, since, wrote>>
    BY <1>4 DEF InsertDuplicate, Fail, ReadInOrder, TypeOK, store
  <2> QED
    BY <2>1, ClosingStep DEF Authority!Failure
<1>5. ASSUME NEW r \in Requests, Commit(r)
      PROVE  Authority!Apply(r)
  <2>1. Authority!Swap(r)
    BY <1>5, SwapStep DEF Commit
  <2>2. UNCHANGED <<[q \in Requests |-> phase[q] # "idle"],
                    [q \in Requests |-> IF phase[q] = "idle" THEN view[q] ELSE NoView]>>
    BY <1>5 DEF Commit, Install, TypeOK
  <2> QED
    BY <1>5, <2>1, <2>2 DEF Commit, Install, Authority!Apply
<1>6. ASSUME NEW r \in Requests, CommitUnacknowledged(r)
      PROVE  Authority!ApplyUnacknowledged(r)
  <2>1. Authority!Swap(r)
    BY <1>6, SwapStep DEF CommitUnacknowledged
  <2>2. view[r] = NoView /\ view' = view /\ phase[r] # "idle" /\ Finish(r, "failed")
    BY <1>6 DEF CommitUnacknowledged, Install, ReadInOrder, LockedPhases
  <2>3. Authority!Close(r, "failed")
        /\ UNCHANGED [q \in Requests |-> IF phase[q] = "idle" THEN view[q] ELSE NoView]
    BY <2>2, ClosingStep DEF TypeOK
  <2> QED
    BY <1>6, <2>1, <2>3 DEF CommitUnacknowledged, Install, Authority!ApplyUnacknowledged
<1>7. ASSUME NEW r \in Requests, Respond(r)
      PROVE  Authority!Answer(r)
  BY <1>7, AnswerStep
<1>8. CASE Tick
  BY <1>8 DEF Tick, Authority!Tick, store, progress
<1>9. CASE UNCHANGED vars
  BY <1>9 DEF vars, Authority!vars
<1> QED
  BY <1>1, <1>2, <1>3, <1>4, <1>5, <1>6, <1>7, <1>8, <1>9 DEF Next, Step

\* The first states of the code are first states of the register.
LEMMA InitSimulation == Init => Authority!Init
<1>1. Authority!Snapshot(0, 0) = NoView
  BY DEF Authority!Snapshot, Authority!At, FoundationContent, NoView
<1> QED
  BY <1>1 DEF Init, Authority!Init

\* replace_commercial_entitlement, find_commercial_entitlement and
\* decide_commercial_entitlement, however the statements of concurrent requests
\* interleave, fail or lose their answers, implement the compare-and-swap register
\* with interval reads.
THEOREM Refinement == Spec => ImplementsAuthority
<1>1. Spec => []ReadInOrder
  <2>1. IInv /\ ReadInOrder /\ [Next]_vars => ReadInOrder'
    BY ReadInOrderStep
  <2> QED
    BY <2>1, InitReadInOrder, Invariance, PTL DEF Spec
<1>2. IInv /\ IInv' /\ ReadInOrder /\ [Next]_vars => [Authority!Next]_Authority!vars
  BY StepSimulation
<1> QED
  BY <1>1, <1>2, InitSimulation, Invariance, PTL DEF Spec, ImplementsAuthority, Authority!Spec
=============================================================================
