-------------------------- MODULE OperatorGuardProofs --------------------------
(***************************************************************************)
(* The safety properties of OperatorGuard, for every number of tabs, token *)
(* pairs and requests, and the one that holds of one tab only.             *)
(***************************************************************************)
EXTENDS OperatorGuard, TLAPS

-----------------------------------------------------------------------------
(* The session bridge below the guard.                                        *)

Keys == Tokens \cup {NoTokens}
Sessions == Bridge!Session \cup {NoSession}

\* The sessions there are: issued by IAM, and none in the legacy copies.
SessionInv ==
  /\ Bridge!TypeOK
  /\ legacy = [t \in Tabs |-> NoSession]
  /\ used \subseteq Tokens
  /\ KeyOf(local) \in used \cup {NoTokens}
  /\ \A t \in Tabs : Key(t) \in used \cup {NoTokens}

\* The tabs other than t keep their sessions.
OthersKeep(t) == \A u \in Tabs \ {t} : memory'[u] = memory[u] /\ loaded'[u] = loaded[u]

LEMMA KeyFacts ==
  ASSUME NEW s \in Sessions
  PROVE  /\ KeyOf(s) \in Keys
         /\ KeyOf(s) = NoTokens <=> s = NoSession
         /\ s # NoSession => KeyOf(s) = s.tokens
BY GuardAssumption DEF Sessions, Keys, KeyOf, Bridge!Session

LEMMA TokensFacts ==
  ASSUME NEW s \in Sessions PROVE Bridge!TokensOf(s) \in Tokens \cup {NoTokens, NoManager}
BY GuardAssumption DEF Sessions, Bridge!TokensOf, Bridge!Session

LEMMA MergedFacts ==
  ASSUME NEW a \in Sessions, NEW b \in Bridge!Session
  PROVE  Bridge!Merge(a, b) \in Bridge!Session /\ Bridge!Merge(a, b).tokens = b.tokens
BY GuardAssumption DEF Sessions, Bridge!Merge, Bridge!Session

LEMMA ToldTypes ==
  ASSUME NEW t \in Tabs, NEW m \in [Tabs -> Nat]
  PROVE  Bridge!Told(t, m) \in [Tabs -> Nat] /\ Bridge!Told(t, m)[t] = m[t]
BY DEF Bridge!Told

\* Reading the storage.
LEMMA ReadFacts ==
  ASSUME SessionInv, NEW t \in Tabs, Bridge!ReadStorage(t), Bridge!Migrate(t)
  PROVE  /\ local' \in Sessions /\ legacy' = legacy /\ memory' \in [Tabs -> Sessions]
         /\ loaded' \in [Tabs -> BOOLEAN] /\ unsaved' \in [Tabs -> BOOLEAN]
         /\ loaded'[t] /\ memory'[t] = local /\ local' = local
         /\ OthersKeep(t)
<1>1. local \in Sessions /\ legacy = [u \in Tabs |-> NoSession] /\ memory \in [Tabs -> Sessions]
        /\ loaded \in [Tabs -> BOOLEAN] /\ unsaved \in [Tabs -> BOOLEAN]
  BY DEF SessionInv, Bridge!TypeOK, Sessions
<1>2. memory' = [memory EXCEPT ![t] = local] /\ legacy' = legacy /\ loaded' = [loaded EXCEPT ![t] = TRUE]
  BY <1>1 DEF Bridge!ReadStorage
<1>3. local' = local /\ unsaved' \in [Tabs -> BOOLEAN]
  BY <1>1, <1>2 DEF Bridge!Migrate
<1> QED
  BY <1>1, <1>2, <1>3 DEF OthersKeep

\* Saving a session.
LEMMA SaveFacts ==
  ASSUME SessionInv, NEW t \in Tabs, NEW s \in Sessions, Bridge!Save(t, s)
  PROVE  /\ local' \in {local, s} /\ legacy' = legacy
         /\ memory' = [memory EXCEPT ![t] = s]
         /\ mail' \in [Tabs -> Nat] /\ unsaved' \in [Tabs -> BOOLEAN]
         /\ mail'[t] = mail[t]
<1>1. legacy = [u \in Tabs |-> NoSession] /\ memory \in [Tabs -> Sessions]
        /\ mail \in [Tabs -> Nat] /\ unsaved \in [Tabs -> BOOLEAN]
  BY DEF SessionInv, Bridge!TypeOK, Sessions
<1>2. CASE s = memory[t]
  BY <1>1, <1>2 DEF Bridge!Save
<1>3. CASE s # memory[t]
  <2>1. mail' = Bridge!Told(t, mail) /\ memory' = [memory EXCEPT ![t] = s]
          /\ legacy' = [legacy EXCEPT ![t] = NoSession]
          /\ \/ local' = s /\ unsaved' = [unsaved EXCEPT ![t] = FALSE]
             \/ local' = local /\ unsaved' = [unsaved EXCEPT ![t] = TRUE]
    BY <1>3 DEF Bridge!Save
  <2> QED
    BY <1>1, <2>1, ToldTypes
<1> QED
  BY <1>2, <1>3

LEMMA SyncFacts ==
  ASSUME SessionInv, NEW t \in Tabs, NEW s \in Sessions, Bridge!Sync(t, s)
  PROVE  /\ tokens' \in [Tabs -> Tokens \cup {NoTokens, NoManager}]
         /\ tokens[t] = NoManager => tokens'[t] = NoManager
         /\ \A u \in Tabs \ {t} : tokens'[u] = tokens[u]
BY TokensFacts DEF Bridge!Sync, SessionInv, Bridge!TypeOK

LEMMA OpenKeeps ==
  ASSUME SessionInv, NEW t \in Tabs, Bridge!Load(t), used' = used
  PROVE  SessionInv' /\ OthersKeep(t) /\ loaded'[t] /\ memory[t] = NoSession /\ mail'[t] = mail[t]
<1>1. /\ ~loaded[t] /\ mail' = Bridge!Told(t, mail) /\ tokens' = tokens /\ expired' = expired
      /\ Bridge!ReadStorage(t) /\ Bridge!Migrate(t)
  BY DEF Bridge!Load
<1>2. mail' \in [Tabs -> Nat] /\ mail'[t] = mail[t]
  BY <1>1, ToldTypes DEF SessionInv, Bridge!TypeOK
<1>3. /\ local' \in Sessions /\ legacy' = legacy /\ memory' \in [Tabs -> Sessions]
      /\ loaded' \in [Tabs -> BOOLEAN] /\ unsaved' \in [Tabs -> BOOLEAN]
      /\ loaded'[t] /\ memory'[t] = local /\ local' = local
      /\ OthersKeep(t)
  BY <1>1, ReadFacts
<1>4. memory[t] = NoSession
  BY <1>1 DEF SessionInv, Bridge!TypeOK
<1>5. Bridge!TypeOK'
  BY <1>1, <1>2, <1>3 DEF SessionInv, Bridge!TypeOK, Sessions, OthersKeep
<1>6. \A u \in Tabs : Key(u)' \in used \cup {NoTokens}
  BY <1>3 DEF SessionInv, OthersKeep, Key
<1> QED
  BY <1>2, <1>3, <1>4, <1>5, <1>6 DEF SessionInv

LEMMA RuntimeKeeps ==
  ASSUME SessionInv, NEW t \in Tabs, Bridge!UseTokenManager(t), used' = used
  PROVE  SessionInv' /\ memory' = memory /\ loaded' = loaded /\ mail' = mail
<1>1. memory[t] \in Sessions
  BY DEF SessionInv, Bridge!TypeOK, Sessions
<1>2. /\ tokens' = [tokens EXCEPT ![t] = Bridge!TokensOf(memory[t])] /\ loaded[t]
      /\ UNCHANGED <<local, legacy, memory, loaded, mail, expired, unsaved>>
  BY DEF Bridge!UseTokenManager
<1>3. Bridge!TypeOK'
  BY <1>1, <1>2, TokensFacts DEF SessionInv, Bridge!TypeOK
<1> QED
  BY <1>2, <1>3 DEF SessionInv, Key

LEMMA ClearKeeps ==
  ASSUME SessionInv, NEW t \in Tabs, Bridge!Clear(t), used' = used
  PROVE  /\ SessionInv' /\ OthersKeep(t) /\ loaded' = loaded /\ memory'[t] = NoSession
         /\ loaded[t] /\ mail'[t] = mail[t]
<1>1. NoSession \in Sessions /\ memory \in [Tabs -> Sessions] /\ local \in Sessions
  BY DEF Sessions, SessionInv, Bridge!TypeOK
<1>2. Bridge!Save(t, NoSession) /\ Bridge!Sync(t, NoSession) /\ loaded' = loaded /\ expired' = expired
        /\ loaded[t]
  BY DEF Bridge!Clear
<1>3. /\ local' \in {local, NoSession} /\ legacy' = legacy
      /\ memory' = [memory EXCEPT ![t] = NoSession]
      /\ mail' \in [Tabs -> Nat] /\ unsaved' \in [Tabs -> BOOLEAN] /\ mail'[t] = mail[t]
  BY <1>1, <1>2, SaveFacts
<1>4. /\ tokens' \in [Tabs -> Tokens \cup {NoTokens, NoManager}]
      /\ \A u \in Tabs \ {t} : tokens'[u] = tokens[u]
  BY <1>1, <1>2, SyncFacts
<1>5. Bridge!TypeOK'
  BY <1>1, <1>2, <1>3, <1>4 DEF SessionInv, Bridge!TypeOK, Sessions
<1>6. KeyOf(local') \in used \cup {NoTokens} /\ \A u \in Tabs : Key(u)' \in used \cup {NoTokens}
  BY <1>1, <1>3 DEF SessionInv, Key, KeyOf
<1> QED
  BY <1>1, <1>2, <1>3, <1>5, <1>6 DEF SessionInv, OthersKeep

LEMMA IssueKeeps ==
  ASSUME SessionInv, NEW t \in Tabs, NEW s \in Bridge!Session, Bridge!Commit(t, s),
         used' = used \cup {s.tokens}
  PROVE  /\ SessionInv' /\ OthersKeep(t) /\ loaded' = loaded /\ Key(t)' = s.tokens
         /\ loaded[t] /\ mail'[t] = mail[t] /\ s.tokens \in Tokens
<1>1. memory \in [Tabs -> Sessions] /\ local \in Sessions /\ memory[t] \in Sessions
  BY DEF Sessions, SessionInv, Bridge!TypeOK
<1>2. PICK n : n = Bridge!Merge(memory[t], s)
  OBVIOUS
<1>3. n \in Bridge!Session /\ n.tokens = s.tokens /\ n \in Sessions /\ s.tokens \in Tokens /\ n # NoSession
  BY <1>1, <1>2, MergedFacts, GuardAssumption DEF Sessions, Bridge!Session
<1>4. Bridge!Save(t, n) /\ Bridge!Sync(t, n) /\ loaded' = loaded /\ expired' = expired
        /\ tokens[t] # NoManager
  BY <1>2 DEF Bridge!Commit
<1>5. /\ local' \in {local, n} /\ legacy' = legacy /\ memory' = [memory EXCEPT ![t] = n]
      /\ mail' \in [Tabs -> Nat] /\ unsaved' \in [Tabs -> BOOLEAN] /\ mail'[t] = mail[t]
  BY <1>3, <1>4, SaveFacts
<1>6. /\ tokens' \in [Tabs -> Tokens \cup {NoTokens, NoManager}]
      /\ \A u \in Tabs \ {t} : tokens'[u] = tokens[u]
  BY <1>3, <1>4, SyncFacts
<1>7. loaded[t]
  BY <1>4 DEF SessionInv, Bridge!TypeOK
<1>8. Bridge!TypeOK'
  BY <1>1, <1>3, <1>4, <1>5, <1>6, <1>7 DEF SessionInv, Bridge!TypeOK, Sessions
<1>9. /\ used' \subseteq Tokens /\ KeyOf(local') \in used' \cup {NoTokens}
      /\ \A u \in Tabs : Key(u)' \in used' \cup {NoTokens}
      /\ Key(t)' = s.tokens
  BY <1>1, <1>3, <1>5 DEF SessionInv, Key, KeyOf
<1> QED
  BY <1>1, <1>3, <1>4, <1>5, <1>7, <1>8, <1>9 DEF SessionInv, OthersKeep

LEMMA StorageKeeps ==
  ASSUME SessionInv, NEW t \in Tabs, Bridge!StorageEvent(t), used' = used
  PROVE  SessionInv' /\ OthersKeep(t) /\ loaded'[t] /\ mail[t] > 0
<1>1. /\ mail[t] > 0 /\ mail' = Bridge!Told(t, [mail EXCEPT ![t] = mail[t] - 1])
      /\ Bridge!Sync(t, memory'[t]) /\ expired' = expired
      /\ Bridge!ReadStorage(t) /\ Bridge!Migrate(t)
  BY DEF Bridge!StorageEvent
<1>2. mail' \in [Tabs -> Nat]
  <2>1. [mail EXCEPT ![t] = mail[t] - 1] \in [Tabs -> Nat]
    BY <1>1 DEF SessionInv, Bridge!TypeOK
  <2> QED
    BY <1>1, <2>1, ToldTypes
<1>3. /\ local' \in Sessions /\ legacy' = legacy /\ memory' \in [Tabs -> Sessions]
      /\ loaded' \in [Tabs -> BOOLEAN] /\ unsaved' \in [Tabs -> BOOLEAN]
      /\ loaded'[t] /\ memory'[t] = local /\ local' = local
      /\ OthersKeep(t)
  BY <1>1, ReadFacts
<1>4. /\ tokens' \in [Tabs -> Tokens \cup {NoTokens, NoManager}]
      /\ \A u \in Tabs \ {t} : tokens'[u] = tokens[u]
  <2>1. memory'[t] \in Sessions
    BY <1>3
  <2> QED
    BY <1>1, <2>1, SyncFacts
<1>5. Bridge!TypeOK'
  BY <1>1, <1>2, <1>3, <1>4 DEF SessionInv, Bridge!TypeOK, Sessions, OthersKeep
<1>6. \A u \in Tabs : Key(u)' \in used \cup {NoTokens}
  BY <1>3 DEF SessionInv, OthersKeep, Key
<1> QED
  BY <1>1, <1>3, <1>5, <1>6 DEF SessionInv

-----------------------------------------------------------------------------
(* The requests of one tab.                                                   *)

Requests == [key : Keys, valid : BOOLEAN, awaited : {"nobody", "stale", "active"}]

\* The requests r of a tab whose pending one is p and whose session has the key k: back are
\* the keys another tab brought back, u the ones IAM has issued, open says that the tab has
\* read its session.  A request that is no longer the pending one is for a session the tab
\* has left, and if it has that session again then another tab brought it back.
RequestsOk(r, p, k, back, u, open) ==
  /\ r \in [Slots -> Requests] /\ p \in Slots \cup {NoSlot}
  /\ \A n \in Slots : r[n] = Idle \/ (r[n].key \in u /\ open)
  /\ \A n \in Slots :
       r[n] # Idle /\ r[n].valid = TRUE /\ n # p /\ r[n].key = k => k \in back
  /\ \A m, n \in Slots :
       r[m] # Idle /\ r[n] # Idle /\ r[m].valid = TRUE /\ r[n].valid = TRUE /\ r[m].key = r[n].key
         => m = n \/ r[m].key \in back
  /\ p # NoSlot => r[p] # Idle /\ r[p].valid = TRUE

\* Who waits for them makes no difference.
LEMMA AwaitedAnew ==
  ASSUME NEW r, NEW p, NEW k, NEW back, NEW u \in SUBSET Tokens, NEW open,
         RequestsOk(r, p, k, back, u, open),
         NEW r1 \in [Slots -> Requests],
         \A n \in Slots : /\ r1[n].key = r[n].key /\ r1[n].valid = r[n].valid
                          /\ r[n] = Idle => r1[n] = Idle
  PROVE  RequestsOk(r1, p, k, back, u, open)
<1>1. \A n \in Slots : r1[n] = Idle => r[n] = Idle
  BY GuardAssumption DEF RequestsOk, Idle
<1> QED
  BY <1>1, SlotAssumption DEF RequestsOk

\* A request is over.
LEMMA OneOver ==
  ASSUME NEW r, NEW p, NEW k, NEW back, NEW u \in SUBSET Tokens, NEW open,
         RequestsOk(r, p, k, back, u, open), NEW n \in Slots
  PROVE  RequestsOk([r EXCEPT ![n] = Idle], IF p = n THEN NoSlot ELSE p, k, back, u, open)
<1>1. PICK r1 : r1 = [r EXCEPT ![n] = Idle]
  OBVIOUS
<1>2. Idle \in Requests
  BY DEF Idle, Requests, Keys
<1>3. /\ r1 \in [Slots -> Requests] /\ r1[n] = Idle
      /\ \A m \in Slots \ {n} : r1[m] = r[m]
  BY <1>1, <1>2 DEF RequestsOk
<1>4. PICK p1 : p1 = IF p = n THEN NoSlot ELSE p
  OBVIOUS
<1>5. RequestsOk(r1, p1, k, back, u, open)
  <2>1. p1 \in Slots \cup {NoSlot} /\ (p1 # NoSlot => p1 = p /\ p # n /\ p \in Slots)
    BY <1>4 DEF RequestsOk
  <2>2. \A m \in Slots : m # n /\ m # p1 => m # p
    BY <1>4
  <2> QED
    BY <1>3, <2>1, <2>2 DEF RequestsOk
<1> QED
  BY <1>1, <1>4, <1>5

\* None of the requests can confirm a session any more.
LEMMA AllOutdated ==
  ASSUME NEW r, NEW p, NEW k, NEW back, NEW u \in SUBSET Tokens, NEW open,
         RequestsOk(r, p, k, back, u, open), NEW k1, NEW back1, NEW open1, open => open1
  PROVE  RequestsOk([n \in Slots |-> IF r[n] = Idle THEN Idle ELSE [r[n] EXCEPT !.valid = FALSE]],
                    NoSlot, k1, back1, u, open1)
<1>1. PICK r1 : r1 = [n \in Slots |-> IF r[n] = Idle THEN Idle ELSE [r[n] EXCEPT !.valid = FALSE]]
  OBVIOUS
<1>2. Idle \in Requests /\ \A n \in Slots : r[n] \in Requests
  BY DEF Idle, Requests, Keys, RequestsOk
<1>3. \A n \in Slots : r1[n] \in Requests /\ r1[n].valid = FALSE /\ r1[n].key = r[n].key
        /\ (r[n] = Idle => r1[n] = Idle)
  BY <1>1, <1>2 DEF Requests, Idle
<1>4. r1 \in [Slots -> Requests]
  BY <1>1, <1>3
<1>5. RequestsOk(r1, NoSlot, k1, back1, u, open1)
  BY <1>3, <1>4 DEF RequestsOk
<1> QED
  BY <1>1, <1>5

\* A request is sent for the session of the tab.
LEMMA OneSent ==
  ASSUME NEW r, NEW p, NEW k \in Tokens, NEW back, NEW u \in SUBSET Tokens, NEW open,
         RequestsOk(r, p, k, back, u, open), open, k \in u,
         NEW n \in Slots, r[n] = Idle, p # NoSlot => r[p].key # k
  PROVE  RequestsOk([r EXCEPT ![n] = [key |-> k, valid |-> TRUE, awaited |-> "active"]],
                    n, k, back, u, open)
<1>1. PICK q : q = [key |-> k, valid |-> TRUE, awaited |-> "active"]
  OBVIOUS
<1>2. q \in Requests /\ q.key = k /\ q # Idle /\ q.valid = TRUE
  BY <1>1, GuardAssumption DEF Requests, Idle, Keys
<1>3. PICK r1 : r1 = [r EXCEPT ![n] = q]
  OBVIOUS
<1>4. /\ r1 \in [Slots -> Requests] /\ r1[n] = q
      /\ \A m \in Slots \ {n} : r1[m] = r[m]
  BY <1>2, <1>3 DEF RequestsOk
<1>5. \A m \in Slots \ {n} : r[m] # Idle /\ r[m].valid = TRUE /\ r[m].key = k => k \in back
  BY SlotAssumption DEF RequestsOk
<1>6. RequestsOk(r1, n, k, back, u, open)
  BY <1>2, <1>4, <1>5, SlotAssumption DEF RequestsOk
<1> QED
  BY <1>1, <1>3, <1>6

\* The tab has another session, which is new to it or which another tab brought back.
LEMMA OtherSession ==
  ASSUME NEW r, NEW p, NEW k, NEW back, NEW u \in SUBSET Tokens, NEW open,
         RequestsOk(r, p, k, back, u, open),
         NEW k1, NEW back1, NEW u1, NEW open1, back \subseteq back1, u \subseteq u1, open => open1,
         k1 = k \/ \A n \in Slots : r[n] # Idle /\ r[n].key = k1 => k1 \in back1
  PROVE  RequestsOk(r, p, k1, back1, u1, open1)
BY DEF RequestsOk

-----------------------------------------------------------------------------
(* The inductive invariant.                                                   *)

GuardTypes ==
  /\ page \in [Tabs -> {"login", "admin"}]
  /\ status \in [Tabs -> Statuses]
  /\ shown \in [Tabs -> Statuses]
  /\ observed \in [Tabs -> Keys]
  /\ listening \in [Tabs -> BOOLEAN]
  /\ due \in [Tabs -> BOOLEAN]
  /\ leaving \in [Tabs -> BOOLEAN]

ChecksTypes ==
  /\ request \in [Tabs -> [Slots -> Requests]]
  /\ pending \in [Tabs -> Slots \cup {NoSlot}]
  /\ verified \in [Tabs -> Keys]
  /\ confirmed \subseteq Tokens
  /\ issued \in [Tabs -> SUBSET Tokens]
  /\ restored \in [Tabs -> SUBSET Tokens]

\* Of one tab: only a mounted guard has listeners, effects and requests that are awaited.
TabOk(t) ==
  /\ RequestsOk(request[t], pending[t], Key(t), restored[t], used, loaded[t])
  /\ listening[t] \/ due[t] => page[t] = "admin"
  /\ page[t] = "login" => \A n \in Slots : request[t][n].awaited = "nobody"

Inv == SessionInv /\ GuardTypes /\ ChecksTypes /\ \A t \in Tabs : TabOk(t)

LEMMA InitInv == Init => Inv
<1> SUFFICES ASSUME Init PROVE Inv
  OBVIOUS
<1>1. /\ local \in Sessions /\ memory = [t \in Tabs |-> NoSession] /\ loaded = [t \in Tabs |-> FALSE]
      /\ legacy = [t \in Tabs |-> NoSession] /\ used = {KeyOf(local)} \ {NoTokens}
  BY DEF Init, Bridge!Init, Sessions
<1>2. KeyOf(local) \in Keys
  BY <1>1, KeyFacts
<1>3. SessionInv
  <2>1. Bridge!TypeOK
    BY <1>1 DEF Init, Bridge!Init, Bridge!TypeOK, Sessions
  <2>2. \A t \in Tabs : Key(t) = NoTokens
    BY <1>1 DEF Key, KeyOf
  <2> QED
    BY <1>1, <1>2, <2>1, <2>2 DEF SessionInv, Keys
<1>4. GuardTypes /\ ChecksTypes
  <2>1. Idle \in Requests /\ NoTokens \in Keys
    BY DEF Idle, Requests, Keys
  <2>2. GuardTypes
    BY <2>1 DEF Init, GuardTypes, Statuses
  <2>3. ChecksTypes
    BY <2>1 DEF Init, ChecksTypes
  <2> QED
    BY <2>2, <2>3
<1>5. ASSUME NEW t \in Tabs PROVE TabOk(t)
  <2>1. /\ request[t] = [n \in Slots |-> Idle] /\ pending[t] = NoSlot /\ page[t] = "login"
        /\ ~listening[t] /\ ~due[t]
    BY DEF Init
  <2>2. request[t] \in [Slots -> Requests]
    BY <1>4 DEF ChecksTypes
  <2>3. RequestsOk(request[t], pending[t], Key(t), restored[t], used, loaded[t])
    BY <2>1, <2>2 DEF RequestsOk
  <2>4. Idle.awaited = "nobody"
    BY DEF Idle
  <2> QED
    BY <2>1, <2>3, <2>4 DEF TabOk
<1> QED
  BY <1>3, <1>4, <1>5 DEF Inv

LEMMA InvProperties == Inv => TypeOK /\ ChecksAreShared
<1> SUFFICES ASSUME Inv PROVE TypeOK /\ ChecksAreShared
  OBVIOUS
<1>1. TypeOK
  <2>1. \A t \in Tabs : page[t] = "login" =>
          ~listening[t] /\ \A n \in Slots : request[t][n].awaited = "nobody"
    BY DEF Inv, TabOk
  <2> QED
    BY <2>1 DEF TypeOK, Inv, SessionInv, GuardTypes, ChecksTypes, Requests, Keys
<1>2. ChecksAreShared
  <2> SUFFICES ASSUME NEW t \in Tabs
      PROVE  /\ \A m, n \in InFlight(t) :
                  request[t][m].valid /\ request[t][n].valid /\ request[t][m].key = request[t][n].key
                    => m = n \/ request[t][m].key \in restored[t]
             /\ pending[t] # NoSlot => pending[t] \in InFlight(t) /\ request[t][pending[t]].valid
    BY DEF ChecksAreShared
  <2>1. RequestsOk(request[t], pending[t], Key(t), restored[t], used, loaded[t])
    BY DEF Inv, TabOk
  <2>2. \A n \in Slots : request[t][n].valid \in BOOLEAN
    BY <2>1 DEF RequestsOk, Requests
  <2> QED
    BY <2>1, <2>2 DEF RequestsOk, InFlight
<1> QED
  BY <1>1, <1>2

\* A step of one tab: the others are as they were.
OneTab(t) ==
  /\ OthersKeep(t)
  /\ \A u \in Tabs \ {t} :
       /\ page'[u] = page[u] /\ listening'[u] = listening[u] /\ due'[u] = due[u]
       /\ request'[u] = request[u] /\ pending'[u] = pending[u] /\ restored'[u] = restored[u]

LEMMA OneTabInv ==
  ASSUME Inv, NEW t \in Tabs, OneTab(t), used \subseteq used',
         SessionInv', GuardTypes', ChecksTypes', TabOk(t)'
  PROVE  Inv'
<1>1. ASSUME NEW u \in Tabs \ {t} PROVE TabOk(u)'
  <2>1. /\ memory'[u] = memory[u] /\ loaded'[u] = loaded[u]
        /\ page'[u] = page[u] /\ listening'[u] = listening[u] /\ due'[u] = due[u]
        /\ request'[u] = request[u] /\ pending'[u] = pending[u] /\ restored'[u] = restored[u]
    BY DEF OneTab, OthersKeep
  <2>2. RequestsOk(request[u], pending[u], Key(u), restored[u], used, loaded[u]) /\ TabOk(u)
    BY DEF Inv, TabOk
  <2>3. RequestsOk(request[u], pending[u], Key(u), restored[u], used', loaded[u])
    <3>1. used \in SUBSET Tokens
      BY DEF Inv, SessionInv
    <3> QED
      BY <2>2, <3>1, OtherSession
  <2> QED
    BY <2>1, <2>2, <2>3 DEF TabOk, Key
<1> QED
  BY <1>1 DEF Inv

-----------------------------------------------------------------------------
(* Steps of the guard.                                                        *)

LEMMA SessionSame ==
  ASSUME SessionInv, UNCHANGED <<session, used>>
  PROVE  /\ SessionInv' /\ memory' = memory /\ loaded' = loaded
         /\ \A t \in Tabs : OthersKeep(t) /\ Key(t)' = Key(t)
BY DEF SessionInv, session, Bridge!TypeOK, OthersKeep, Key

\* What is known of a tab.
LEMMA TabFacts ==
  ASSUME Inv, NEW t \in Tabs
  PROVE  /\ RequestsOk(request[t], pending[t], Key(t), restored[t], used, loaded[t])
         /\ used \in SUBSET Tokens /\ Key(t) \in used \cup {NoTokens} /\ Key(t) \in Keys
         /\ memory[t] \in Sessions
         /\ memory[t] # NoSession => loaded[t] = TRUE /\ Key(t) \in used /\ Key(t) \in Tokens
         /\ Key(t) # NoTokens => memory[t] # NoSession
         /\ memory[t] = NoSession => Key(t) = NoTokens
         /\ page[t] \in {"login", "admin"} /\ loaded[t] \in BOOLEAN
<1>1. /\ RequestsOk(request[t], pending[t], Key(t), restored[t], used, loaded[t])
      /\ used \in SUBSET Tokens /\ Key(t) \in used \cup {NoTokens}
      /\ page[t] \in {"login", "admin"} /\ loaded[t] \in BOOLEAN
      /\ memory[t] \in Sessions /\ (loaded[t] = FALSE => memory[t] = NoSession)
  BY DEF Inv, TabOk, SessionInv, GuardTypes, Bridge!TypeOK, Sessions
<1>2. KeyOf(memory[t]) \in Keys /\ (KeyOf(memory[t]) = NoTokens <=> memory[t] = NoSession)
  BY <1>1, KeyFacts
<1> QED
  BY <1>1, <1>2 DEF Key, Keys

LEMMA MountStep == ASSUME Inv, NEW t \in Tabs, Mount(t) PROVE Inv'
<1>1. PICK s \in {"verified", "checking"} :
        status' = [status EXCEPT ![t] = s] /\ shown' = [shown EXCEPT ![t] = s]
  BY DEF Mount
<1>2. /\ page' = [page EXCEPT ![t] = "admin"] /\ observed' = [observed EXCEPT ![t] = Key(t)]
      /\ due' = [due EXCEPT ![t] = TRUE]
      /\ UNCHANGED <<session, used>>
      /\ UNCHANGED <<request, pending, verified, listening, leaving, confirmed, issued, restored>>
  BY DEF Mount, checks
<1>3. SessionInv' /\ OthersKeep(t) /\ memory' = memory /\ loaded' = loaded /\ used' = used /\ Key(t)' = Key(t)
  BY <1>2, SessionSame DEF Inv
<1>4. GuardTypes'
  BY <1>1, <1>2, TabFacts DEF Inv, GuardTypes, Statuses
<1>5. ChecksTypes'
  BY <1>2 DEF Inv, ChecksTypes
<1>6. page'[t] = "admin"
  BY <1>2 DEF Inv, GuardTypes
<1>7. TabOk(t)'
  <2>1. RequestsOk(request[t], pending[t], Key(t), restored[t], used, loaded[t])'
    BY <1>2, <1>3, TabFacts
  <2> QED
    BY <1>6, <2>1 DEF TabOk
<1>8. OneTab(t)
  BY <1>2, <1>3 DEF OneTab, Inv, GuardTypes
<1> QED
  BY <1>3, <1>4, <1>5, <1>7, <1>8, OneTabInv

\* The effect of a guard verifies the session there is.
LEMMA VerifyStep ==
  ASSUME Inv, NEW t \in Tabs, Key(t) # NoTokens, Verify(t, Key(t)), page[t] = "admin",
         due' = [due EXCEPT ![t] = FALSE], listening' = [listening EXCEPT ![t] = TRUE],
         UNCHANGED <<shown, page, leaving, confirmed, issued, used, restored>>
  PROVE  Inv'
<1>0. /\ RequestsOk(request[t], pending[t], Key(t), restored[t], used, loaded[t])
      /\ used \in SUBSET Tokens /\ Key(t) \in used /\ Key(t) \in Tokens /\ Key(t) \in Keys
      /\ loaded[t] = TRUE /\ SessionInv
  BY TabFacts DEF Inv
<1>1. /\ page' = page /\ page'[t] = "admin" /\ shown' \in [Tabs -> Statuses]
      /\ listening' \in [Tabs -> BOOLEAN] /\ due' \in [Tabs -> BOOLEAN] /\ leaving' \in [Tabs -> BOOLEAN]
      /\ page' \in [Tabs -> {"login", "admin"}]
      /\ \A u \in Tabs \ {t} : listening'[u] = listening[u] /\ due'[u] = due[u]
  BY DEF Inv, GuardTypes
<1>2. SUFFICES /\ SessionInv' /\ memory' = memory /\ loaded' = loaded
               /\ status' \in [Tabs -> Statuses] /\ observed' \in [Tabs -> Keys]
               /\ request' \in [Tabs -> [Slots -> Requests]]
               /\ pending' \in [Tabs -> Slots \cup {NoSlot}] /\ verified' = verified
               /\ \A u \in Tabs \ {t} : request'[u] = request[u] /\ pending'[u] = pending[u]
               /\ RequestsOk(request'[t], pending'[t], Key(t), restored[t], used, loaded[t])
  <2>1. SessionInv' /\ used \subseteq used'
    BY <1>2
  <2>2. OneTab(t)
    BY <1>1, <1>2 DEF OneTab, OthersKeep
  <2>3. GuardTypes'
    BY <1>1, <1>2 DEF GuardTypes
  <2>4. ChecksTypes'
    BY <1>2 DEF Inv, ChecksTypes
  <2>5. TabOk(t)'
    BY <1>1, <1>2 DEF TabOk, Key
  <2> QED
    BY <2>1, <2>2, <2>3, <2>4, <2>5, OneTabInv
<1>3. CASE verified[t] = Key(t) /\ status' = [status EXCEPT ![t] = "verified"]
             /\ observed' = [observed EXCEPT ![t] = Key(t)] /\ UNCHANGED <<session, checks>>
  <2>1. SessionInv' /\ memory' = memory /\ loaded' = loaded
    BY <1>0, <1>3, SessionSame
  <2>2. request' = request /\ pending' = pending /\ verified' = verified
    BY <1>3 DEF checks
  <2> QED
    BY <1>0, <1>3, <2>1, <2>2 DEF Inv, GuardTypes, ChecksTypes, Statuses
<1>4. CASE pending[t] # NoSlot /\ Join(t) /\ UNCHANGED <<session, status, observed, pending, verified>>
  <2>1. SessionInv' /\ memory' = memory /\ loaded' = loaded
    BY <1>0, <1>4, SessionSame
  <2>2. PICK p \in Slots : p = pending[t]
    BY <1>4 DEF Inv, ChecksTypes
  <2>3. request[t] \in [Slots -> Requests] /\ request[t][p] # Idle
    BY <1>0, <1>4, <2>2 DEF RequestsOk
  <2>4. PICK r1 : r1 = [request[t] EXCEPT ![p].awaited = "active"]
    OBVIOUS
  <2>5. request' = [request EXCEPT ![t] = r1]
    BY <1>4, <2>2, <2>4 DEF Join
  <2>6. r1 \in [Slots -> Requests] /\ \A n \in Slots :
          /\ r1[n].key = request[t][n].key /\ r1[n].valid = request[t][n].valid
          /\ request[t][n] = Idle => r1[n] = Idle
    BY <2>3, <2>4 DEF Requests
  <2>7. RequestsOk(r1, pending[t], Key(t), restored[t], used, loaded[t])
    BY <1>0, <2>6, AwaitedAnew
  <2>8. request' \in [Tabs -> [Slots -> Requests]] /\ request'[t] = r1
          /\ \A u \in Tabs \ {t} : request'[u] = request[u]
    BY <2>5, <2>6 DEF Inv, ChecksTypes
  <2> QED
    BY <1>4, <2>1, <2>7, <2>8 DEF Inv, GuardTypes, ChecksTypes
<1>5. CASE /\ pending[t] # NoSlot => request[t][pending[t]].key # Key(t)
           /\ \E n \in Slots \ InFlight(t) :
                /\ request' = [request EXCEPT ![t][n] =
                                 [key |-> Key(t), valid |-> TRUE, awaited |-> "active"]]
                /\ pending' = [pending EXCEPT ![t] = n]
           /\ Bridge!UseTokenManager(t) \/ UNCHANGED session
           /\ UNCHANGED <<status, observed, verified>>
  <2>1. SessionInv' /\ memory' = memory /\ loaded' = loaded
    <3>1. CASE Bridge!UseTokenManager(t)
      BY <1>0, <3>1, RuntimeKeeps
    <3>2. CASE UNCHANGED session
      BY <1>0, <3>2, SessionSame
    <3> QED
      BY <1>5, <3>1, <3>2
  <2>2. PICK n \in Slots : /\ request[t][n] = Idle
                           /\ request' = [request EXCEPT ![t][n] =
                                 [key |-> Key(t), valid |-> TRUE, awaited |-> "active"]]
                           /\ pending' = [pending EXCEPT ![t] = n]
    BY <1>5 DEF InFlight
  <2>3. PICK r1 : r1 = [request[t] EXCEPT ![n] = [key |-> Key(t), valid |-> TRUE, awaited |-> "active"]]
    OBVIOUS
  <2>4. RequestsOk(r1, n, Key(t), restored[t], used, loaded[t])
    BY <1>0, <1>5, <2>2, <2>3, OneSent
  <2>5. r1 \in [Slots -> Requests]
    BY <2>4 DEF RequestsOk
  <2>6. request' = [request EXCEPT ![t] = r1]
    BY <2>2, <2>3
  <2>7. request' \in [Tabs -> [Slots -> Requests]] /\ request'[t] = r1
          /\ \A u \in Tabs \ {t} : request'[u] = request[u]
    BY <2>5, <2>6 DEF Inv, ChecksTypes
  <2>8. pending' \in [Tabs -> Slots \cup {NoSlot}] /\ pending'[t] = n
          /\ \A u \in Tabs \ {t} : pending'[u] = pending[u]
    BY <2>2 DEF Inv, ChecksTypes
  <2> QED
    BY <1>5, <2>1, <2>4, <2>7, <2>8 DEF Inv, GuardTypes
<1> QED
  BY <1>3, <1>4, <1>5 DEF Verify

LEMMA EffectsStep == ASSUME Inv, NEW t \in Tabs, RunEffects(t) PROVE Inv'
<1>1. /\ due[t] /\ due' = [due EXCEPT ![t] = FALSE] /\ listening' = [listening EXCEPT ![t] = TRUE]
      /\ UNCHANGED <<shown, page, leaving, confirmed, issued, used, restored>>
  BY DEF RunEffects
<1>2. page[t] = "admin"
  BY <1>1 DEF Inv, TabOk
<1>3. CASE Key(t) # NoTokens /\ Verify(t, Key(t))
  BY <1>1, <1>2, <1>3, VerifyStep
<1>4. CASE /\ status' = [status EXCEPT ![t] = "anonymous"] \/ status' = status
           /\ UNCHANGED <<session, checks, observed>>
  <2>1. SessionInv' /\ OthersKeep(t) /\ memory' = memory /\ loaded' = loaded /\ Key(t)' = Key(t)
    BY <1>1, <1>4, SessionSame DEF Inv
  <2>2. UNCHANGED <<request, pending, verified>>
    BY <1>4 DEF checks
  <2>3. GuardTypes' /\ ChecksTypes'
    BY <1>1, <1>4, <2>2 DEF Inv, GuardTypes, ChecksTypes, Statuses
  <2>4. TabOk(t)'
    <3>1. RequestsOk(request[t], pending[t], Key(t), restored[t], used, loaded[t])'
      BY <1>1, <2>1, <2>2, TabFacts
    <3> QED
      BY <1>1, <1>2, <3>1 DEF TabOk
  <2>5. OneTab(t)
    BY <1>1, <2>1, <2>2 DEF OneTab, Inv, GuardTypes
  <2> QED
    BY <1>1, <2>1, <2>3, <2>4, <2>5, OneTabInv
<1> QED
  BY <1>3, <1>4 DEF RunEffects

\* A step of one tab after which its requests are r and the pending one is p.
LEMMA ChecksStep ==
  ASSUME Inv, NEW t \in Tabs, NEW r, NEW p,
         request' = [request EXCEPT ![t] = r], pending' = [pending EXCEPT ![t] = p],
         RequestsOk(r, p, Key(t)', restored'[t], used', loaded'[t]),
         verified' \in [Tabs -> Keys], confirmed' \subseteq Tokens, issued' \in [Tabs -> SUBSET Tokens],
         restored' \in [Tabs -> SUBSET Tokens],
         SessionInv', OthersKeep(t), used \subseteq used', GuardTypes',
         listening'[t] \/ due'[t] => page'[t] = "admin",
         page'[t] = "login" => \A n \in Slots : r[n].awaited = "nobody",
         \A u \in Tabs \ {t} : /\ page'[u] = page[u] /\ listening'[u] = listening[u]
                               /\ due'[u] = due[u] /\ restored'[u] = restored[u]
  PROVE  Inv'
<1>1. r \in [Slots -> Requests] /\ p \in Slots \cup {NoSlot}
  BY DEF RequestsOk
<1>2. /\ request' \in [Tabs -> [Slots -> Requests]] /\ request'[t] = r
      /\ pending' \in [Tabs -> Slots \cup {NoSlot}] /\ pending'[t] = p
      /\ \A u \in Tabs \ {t} : request'[u] = request[u] /\ pending'[u] = pending[u]
  BY <1>1 DEF Inv, ChecksTypes
<1>3. ChecksTypes'
  BY <1>2 DEF ChecksTypes
<1>4. TabOk(t)'
  BY <1>2 DEF TabOk
<1>5. OneTab(t)
  BY <1>2 DEF OneTab
<1> QED
  BY <1>3, <1>4, <1>5, OneTabInv

LEMMA PendingSame ==
  ASSUME Inv, NEW t \in Tabs, pending' = pending PROVE pending' = [pending EXCEPT ![t] = pending[t]]
BY DEF Inv, ChecksTypes

\* Who waits once an effect or the guard is over.
LEMMA WaitersFacts ==
  ASSUME Inv, NEW t \in Tabs
  PROVE  /\ RequestsOk(Abandoned(request[t]), pending[t], Key(t), restored[t], used, loaded[t])
         /\ RequestsOk(Unmounted(request[t]), pending[t], Key(t), restored[t], used, loaded[t])
         /\ \A n \in Slots : Unmounted(request[t])[n].awaited = "nobody"
<1>1. RequestsOk(request[t], pending[t], Key(t), restored[t], used, loaded[t]) /\ used \in SUBSET Tokens
  BY TabFacts
<1>2. request[t] \in [Slots -> Requests] /\ Idle \in Requests
  BY <1>1 DEF RequestsOk, Idle, Requests, Keys
<1>3. PICK r1 : r1 = Abandoned(request[t])
  OBVIOUS
<1>4. r1 \in [Slots -> Requests] /\ \A n \in Slots :
        /\ r1[n].key = request[t][n].key /\ r1[n].valid = request[t][n].valid
        /\ request[t][n] = Idle => r1[n] = Idle
  BY <1>2, <1>3 DEF Abandoned, Requests, Idle
<1>5. PICK r2 : r2 = Unmounted(request[t])
  OBVIOUS
<1>6. r2 \in [Slots -> Requests] /\ \A n \in Slots :
        /\ r2[n].key = request[t][n].key /\ r2[n].valid = request[t][n].valid
        /\ request[t][n] = Idle => r2[n] = Idle
        /\ r2[n].awaited = "nobody"
  BY <1>2, <1>5 DEF Unmounted, Requests, Idle
<1> QED
  BY <1>1, <1>3, <1>4, <1>5, <1>6, AwaitedAnew

LEMMA RenderStep == ASSUME Inv, NEW t \in Tabs, Render(t) PROVE Inv'
<1>1. /\ page[t] = "admin" /\ UNCHANGED <<session, used>>
      /\ UNCHANGED <<pending, verified, leaving, confirmed, issued, restored>>
  BY DEF Render
<1>2. SessionInv' /\ OthersKeep(t) /\ loaded' = loaded /\ used' = used /\ Key(t)' = Key(t)
  BY <1>1, SessionSame DEF Inv
<1>3. pending' = [pending EXCEPT ![t] = pending[t]]
  BY <1>1, PendingSame
<1>4. ASSUME NEW r, request' = [request EXCEPT ![t] = r],
             RequestsOk(r, pending[t], Key(t), restored[t], used, loaded[t]), GuardTypes',
             listening'[t] \/ due'[t] => page'[t] = "admin",
             page'[t] = "login" => \A n \in Slots : r[n].awaited = "nobody",
             \A u \in Tabs \ {t} : page'[u] = page[u] /\ listening'[u] = listening[u] /\ due'[u] = due[u]
      PROVE  Inv'
  <2>1. verified' \in [Tabs -> Keys] /\ confirmed' \subseteq Tokens /\ issued' \in [Tabs -> SUBSET Tokens]
          /\ restored' \in [Tabs -> SUBSET Tokens] /\ restored' = restored
    BY <1>1 DEF Inv, ChecksTypes
  <2>2. RequestsOk(r, pending[t], Key(t)', restored'[t], used', loaded'[t])
    BY <1>2, <1>4, <2>1
  <2>3. \A u \in Tabs \ {t} : /\ page'[u] = page[u] /\ listening'[u] = listening[u]
                              /\ due'[u] = due[u] /\ restored'[u] = restored[u]
    BY <1>4, <2>1
  <2> QED
    BY <1>2, <1>3, <1>4, <2>1, <2>2, <2>3, ChecksStep
<1>5. CASE Leave(t) /\ request' = [request EXCEPT ![t] = Unmounted(request[t])]
  <2>1. GuardTypes' /\ ~listening'[t] /\ ~due'[t] /\ \A u \in Tabs \ {t} :
          page'[u] = page[u] /\ listening'[u] = listening[u] /\ due'[u] = due[u]
    BY <1>1, <1>5 DEF Leave, Inv, GuardTypes, Statuses, Keys
  <2> QED
    BY <1>4, <1>5, <2>1, WaitersFacts
<1>6. CASE /\ shown' = [shown EXCEPT ![t] = status[t]]
           /\ due' = [due EXCEPT ![t] = (status[t] = "checking")]
           /\ request' = [request EXCEPT ![t] = Abandoned(request[t])]
           /\ UNCHANGED <<status, observed, listening, page>>
  <2>1. (status[t] = "checking") \in BOOLEAN
    OBVIOUS
  <2>2. GuardTypes' /\ page'[t] = "admin" /\ \A u \in Tabs \ {t} :
          page'[u] = page[u] /\ listening'[u] = listening[u] /\ due'[u] = due[u]
    BY <1>1, <1>6, <2>1 DEF Inv, GuardTypes
  <2> QED
    BY <1>4, <1>6, <2>2, WaitersFacts
<1> QED
  BY <1>5, <1>6 DEF Render

LEMMA NavigateStep == ASSUME Inv, NEW t \in Tabs, Navigate(t) PROVE Inv'
<1>1. /\ page[t] = "admin" /\ UNCHANGED <<session, used>>
      /\ request' = [request EXCEPT ![t] = Abandoned(request[t])]
      /\ due' = [due EXCEPT ![t] = TRUE]
      /\ UNCHANGED <<pending, verified, leaving, confirmed, issued, restored>>
      /\ UNCHANGED <<status, shown, observed, listening, page>>
  BY DEF Navigate
<1>2. SessionInv' /\ OthersKeep(t) /\ loaded' = loaded /\ used' = used /\ Key(t)' = Key(t)
  BY <1>1, SessionSame DEF Inv
<1>3. pending' = [pending EXCEPT ![t] = pending[t]]
  BY <1>1, PendingSame
<1>4. GuardTypes' /\ page'[t] = "admin" /\ \A u \in Tabs \ {t} :
        page'[u] = page[u] /\ listening'[u] = listening[u] /\ due'[u] = due[u] /\ restored'[u] = restored[u]
  BY <1>1 DEF Inv, GuardTypes
<1>5. verified' \in [Tabs -> Keys] /\ confirmed' \subseteq Tokens /\ issued' \in [Tabs -> SUBSET Tokens]
        /\ restored' \in [Tabs -> SUBSET Tokens] /\ restored' = restored
  BY <1>1 DEF Inv, ChecksTypes
<1>6. RequestsOk(Abandoned(request[t]), pending[t], Key(t)', restored'[t], used', loaded'[t])
  BY <1>2, <1>5, WaitersFacts
<1> QED
  BY <1>1, <1>2, <1>3, <1>4, <1>5, <1>6, ChecksStep

\* A request that ends is over for those who wait, and its slot is free.
LEMMA EndFacts ==
  ASSUME Inv, NEW t \in Tabs, NEW n \in Slots
  PROVE  /\ RequestsOk(Without(t, n), IF pending[t] = n THEN NoSlot ELSE pending[t], Key(t),
                       restored[t], used, loaded[t])
         /\ page[t] = "login" => \A m \in Slots : Without(t, n)[m].awaited = "nobody"
<1>1. RequestsOk(request[t], pending[t], Key(t), restored[t], used, loaded[t]) /\ used \in SUBSET Tokens
  BY TabFacts
<1>2. RequestsOk(Without(t, n), IF pending[t] = n THEN NoSlot ELSE pending[t], Key(t),
                 restored[t], used, loaded[t])
  BY <1>1, OneOver DEF Without
<1>3. request[t] \in [Slots -> Requests]
  BY <1>1 DEF RequestsOk
<1>4. page[t] = "login" => \A m \in Slots : Without(t, n)[m].awaited = "nobody"
  BY <1>3 DEF Without, Idle, Inv, TabOk
<1> QED
  BY <1>2, <1>4

\* IAM answers or the request fails for another reason: the session stays.
LEMMA AnsweredStep ==
  ASSUME Inv, NEW t \in Tabs, NEW n \in Slots,
         request' = [request EXCEPT ![t] = Without(t, n)], Settled(t, n),
         NEW v \in Keys, NEW o \in Keys, NEW s \in Statuses,
         verified' = [verified EXCEPT ![t] = v], observed' = [observed EXCEPT ![t] = o],
         status' = [status EXCEPT ![t] = s], confirmed' \subseteq Tokens,
         UNCHANGED <<session, shown, listening, due, page, leaving, issued, used, restored>>
  PROVE  Inv'
<1>1. SessionInv' /\ OthersKeep(t) /\ loaded' = loaded /\ used' = used /\ Key(t)' = Key(t)
  BY SessionSame DEF Inv
<1>2. pending' = [pending EXCEPT ![t] = IF pending[t] = n THEN NoSlot ELSE pending[t]]
  BY DEF Settled
<1>3. GuardTypes'
  BY DEF Inv, GuardTypes
<1>4. verified' \in [Tabs -> Keys] /\ confirmed' \subseteq Tokens /\ issued' \in [Tabs -> SUBSET Tokens]
        /\ restored' \in [Tabs -> SUBSET Tokens] /\ restored' = restored
  BY DEF Inv, ChecksTypes
<1>5. RequestsOk(Without(t, n), IF pending[t] = n THEN NoSlot ELSE pending[t], Key(t)',
                 restored'[t], used', loaded'[t])
  BY <1>1, <1>4, EndFacts
<1>6. /\ listening'[t] \/ due'[t] => page'[t] = "admin"
      /\ page'[t] = "login" => \A m \in Slots : Without(t, n)[m].awaited = "nobody"
      /\ \A u \in Tabs \ {t} : /\ page'[u] = page[u] /\ listening'[u] = listening[u]
                               /\ due'[u] = due[u] /\ restored'[u] = restored[u]
  BY EndFacts DEF Inv, TabOk
<1> QED
  BY <1>1, <1>2, <1>3, <1>4, <1>5, <1>6, ChecksStep

\* A request in flight is for a session IAM has issued.
LEMMA FlightFacts ==
  ASSUME Inv, NEW t \in Tabs, NEW n \in InFlight(t)
  PROVE  n \in Slots /\ request[t][n].key \in Tokens /\ loaded[t] = TRUE
BY TabFacts DEF InFlight, RequestsOk

LEMMA ConfirmStep == ASSUME Inv, NEW t \in Tabs, NEW n \in Slots, Confirm(t, n) PROVE Inv'
<1>1. PICK k : k = IF memory[t] = NoSession THEN request[t][n].key ELSE Key(t)
  OBVIOUS
<1>2. PICK v : v = IF request[t][n].valid THEN k ELSE verified[t]
  OBVIOUS
<1>3. PICK o : o = IF request[t][n].awaited # "nobody" THEN k ELSE observed[t]
  OBVIOUS
<1>4. PICK s : s = IF request[t][n].awaited = "active" THEN "verified" ELSE status[t]
  OBVIOUS
<1>5. n \in InFlight(t)
  BY DEF Confirm
<1>6. request[t][n].key \in Tokens /\ Key(t) \in Keys
  BY <1>5, FlightFacts, TabFacts
<1>7. k \in Keys /\ v \in Keys /\ o \in Keys /\ s \in Statuses
  BY <1>1, <1>2, <1>3, <1>4, <1>6 DEF Inv, ChecksTypes, GuardTypes, Statuses, Keys
<1>8. /\ request' = [request EXCEPT ![t] = Without(t, n)] /\ Settled(t, n)
      /\ verified' = [verified EXCEPT ![t] = v]
      /\ observed' = [observed EXCEPT ![t] = o]
      /\ status' = [status EXCEPT ![t] = s]
      /\ confirmed' = confirmed \cup {request[t][n].key}
      /\ UNCHANGED <<session, shown, listening, due, page, leaving, issued, used, restored>>
  BY <1>1, <1>2, <1>3, <1>4 DEF Confirm
<1>9. confirmed' \subseteq Tokens
  BY <1>6, <1>8 DEF Inv, ChecksTypes
<1> QED
  BY <1>7, <1>8, <1>9, AnsweredStep

LEMMA BreakStep == ASSUME Inv, NEW t \in Tabs, NEW n \in Slots, Break(t, n) PROVE Inv'
<1>1. PICK s : s = IF request[t][n].awaited = "active" THEN FailClosed ELSE status[t]
  OBVIOUS
<1>2. s \in Statuses /\ verified[t] \in Keys /\ observed[t] \in Keys
  BY <1>1 DEF Inv, GuardTypes, ChecksTypes, FailClosed, Statuses
<1>3. /\ request' = [request EXCEPT ![t] = Without(t, n)] /\ Settled(t, n)
      /\ status' = [status EXCEPT ![t] = s]
      /\ UNCHANGED <<session, verified, shown, observed, listening, due, page, leaving,
                     confirmed, issued, used, restored>>
  BY <1>1 DEF Break
<1>4. verified' = [verified EXCEPT ![t] = verified[t]] /\ observed' = [observed EXCEPT ![t] = observed[t]]
        /\ confirmed' \subseteq Tokens
  BY <1>3 DEF Inv, GuardTypes, ChecksTypes
<1> QED
  BY <1>2, <1>3, <1>4, AnsweredStep

-----------------------------------------------------------------------------
(* Steps that change the session.                                             *)

\* The requests r once none of them can confirm a session any more.
Outdated(r) ==
  [n \in Slots |-> IF r[n] = Idle THEN Idle ELSE [r[n] EXCEPT !.valid = FALSE]]

LEMMA OutdatedAwaited ==
  ASSUME NEW r \in [Slots -> Requests], \A n \in Slots : r[n].awaited = "nobody"
  PROVE  \A n \in Slots : Outdated(r)[n].awaited = "nobody"
BY DEF Outdated, Requests, Idle

\* The session of a tab changes and its checks are out of date.
LEMMA InvalidateStep ==
  ASSUME Inv, NEW t \in Tabs, NEW r, NEW p, Invalidate(t, r),
         RequestsOk(r, p, Key(t), restored[t], used, loaded[t]),
         SessionInv', OthersKeep(t), used' = used, loaded[t] => loaded'[t], GuardTypes',
         confirmed' \subseteq Tokens, issued' \in [Tabs -> SUBSET Tokens],
         restored' \in [Tabs -> SUBSET Tokens],
         listening'[t] \/ due'[t] => page'[t] = "admin",
         page'[t] = "login" => \A n \in Slots : r[n].awaited = "nobody",
         \A u \in Tabs \ {t} : /\ page'[u] = page[u] /\ listening'[u] = listening[u]
                               /\ due'[u] = due[u] /\ restored'[u] = restored[u]
  PROVE  Inv'
<1>1. /\ request' = [request EXCEPT ![t] = Outdated(r)] /\ pending' = [pending EXCEPT ![t] = NoSlot]
      /\ verified' = [verified EXCEPT ![t] = NoTokens]
  BY DEF Invalidate, Outdated
<1>2. verified' \in [Tabs -> Keys]
  BY <1>1 DEF Inv, ChecksTypes, Keys
<1>3. RequestsOk(Outdated(r), NoSlot, Key(t)', restored'[t], used, loaded'[t])
  <2>1. used \in SUBSET Tokens
    BY TabFacts
  <2> QED
    BY <2>1, AllOutdated DEF Outdated
<1>4. page'[t] = "login" => \A n \in Slots : Outdated(r)[n].awaited = "nobody"
  BY OutdatedAwaited DEF RequestsOk
<1> QED
  BY <1>1, <1>2, <1>3, <1>4, ChecksStep

LEMMA RefuseStep == ASSUME Inv, NEW t \in Tabs, NEW n \in Slots, Refuse(t, n) PROVE Inv'
<1>1. /\ Bridge!Clear(t) /\ Invalidate(t, Without(t, n))
      /\ UNCHANGED <<shown, listening, due, page, leaving, confirmed, issued, used, restored>>
  BY DEF Refuse
<1>2. SessionInv' /\ OthersKeep(t) /\ loaded' = loaded
  BY <1>1, ClearKeeps DEF Inv
<1>3. \/ /\ observed' = [observed EXCEPT ![t] = NoTokens]
         /\ status' = [status EXCEPT ![t] = "anonymous"]
      \/ observed' = observed /\ status' = [status EXCEPT ![t] = "anonymous"]
      \/ observed' = observed /\ status' = [status EXCEPT ![t] = status[t]]
  BY DEF Refuse, Gone
<1>4. GuardTypes'
  BY <1>1, <1>3 DEF Inv, GuardTypes, Statuses, Keys
<1>5. /\ confirmed' \subseteq Tokens /\ issued' \in [Tabs -> SUBSET Tokens]
      /\ restored' \in [Tabs -> SUBSET Tokens]
  BY <1>1 DEF Inv, ChecksTypes
<1>6. /\ listening'[t] \/ due'[t] => page'[t] = "admin"
      /\ page'[t] = "login" => \A m \in Slots : Without(t, n)[m].awaited = "nobody"
      /\ \A u \in Tabs \ {t} : /\ page'[u] = page[u] /\ listening'[u] = listening[u]
                               /\ due'[u] = due[u] /\ restored'[u] = restored[u]
  BY <1>1, EndFacts DEF Inv, TabOk
<1>7. PICK p : RequestsOk(Without(t, n), p, Key(t), restored[t], used, loaded[t])
  BY EndFacts
<1> QED
  BY <1>1, <1>2, <1>4, <1>5, <1>6, <1>7, InvalidateStep

\* Steps of the session bridge that leave the guard and its checks alone.
LEMMA BridgeStep ==
  ASSUME Inv, NEW t \in Tabs, SessionInv', OthersKeep(t), loaded[t] => loaded'[t], used \subseteq used',
         issued' \in [Tabs -> SUBSET Tokens],
         UNCHANGED <<checks, guard, page, leaving, confirmed, restored>>,
         Key(t)' = Key(t) \/ \A n \in Slots : request[t][n] # Idle => request[t][n].key # Key(t)'
  PROVE  Inv'
<1>1. UNCHANGED <<request, pending, verified, status, shown, observed, listening, due, page, leaving, confirmed, restored>>
  BY DEF checks, guard
<1>2. GuardTypes' /\ ChecksTypes'
  BY <1>1 DEF Inv, GuardTypes, ChecksTypes
<1>3. RequestsOk(request[t], pending[t], Key(t)', restored[t], used', loaded'[t])
  <2>1. PICK k : k = Key(t)'
    OBVIOUS
  <2>2. RequestsOk(request[t], pending[t], Key(t), restored[t], used, loaded[t])
    BY TabFacts
  <2>3. RequestsOk(request[t], pending[t], k, restored[t], used', loaded'[t])
    BY <2>1, <2>2 DEF RequestsOk
  <2> QED
    BY <2>1, <2>3
<1>4. TabOk(t)'
  BY <1>1, <1>3 DEF Inv, TabOk
<1>5. OneTab(t)
  BY <1>1 DEF OneTab
<1> QED
  BY <1>2, <1>4, <1>5, OneTabInv

LEMMA OpenStep == ASSUME Inv, NEW t \in Tabs, Open(t) PROVE Inv'
<1>1. /\ Bridge!Load(t) /\ UNCHANGED <<checks, guard, page, leaving, confirmed, restored>>
      /\ issued' = issued /\ used' = used /\ SessionInv
  BY DEF Open, Inv
<1>2. SessionInv' /\ OthersKeep(t) /\ loaded'[t]
  BY <1>1, OpenKeeps
<1>3. loaded[t] # TRUE
  BY <1>1 DEF Bridge!Load
<1>4. \A n \in Slots : request[t][n] = Idle
  <2>1. RequestsOk(request[t], pending[t], Key(t), restored[t], used, loaded[t]) /\ loaded[t] = FALSE
    BY <1>3, TabFacts
  <2> QED
    BY <2>1 DEF RequestsOk
<1>5. issued' \in [Tabs -> SUBSET Tokens]
  BY <1>1 DEF Inv, ChecksTypes
<1> QED
  BY <1>1, <1>2, <1>4, <1>5, BridgeStep

LEMMA RuntimeStep == ASSUME Inv, NEW t \in Tabs, CreateRuntime(t) PROVE Inv'
<1>1. /\ Bridge!UseTokenManager(t) /\ UNCHANGED <<checks, guard, page, leaving, confirmed, restored>>
      /\ issued' = issued /\ used' = used /\ SessionInv
  BY DEF CreateRuntime, Inv
<1>2. SessionInv' /\ memory' = memory /\ loaded' = loaded
  BY <1>1, RuntimeKeeps
<1>3. OthersKeep(t) /\ Key(t)' = Key(t)
  BY <1>2 DEF OthersKeep, Key
<1>4. issued' \in [Tabs -> SUBSET Tokens]
  BY <1>1 DEF Inv, ChecksTypes
<1> QED
  BY <1>1, <1>2, <1>3, <1>4, BridgeStep

LEMMA IssueStep == ASSUME Inv, NEW t \in Tabs, NEW s \in Bridge!Session, Issue(t, s) PROVE Inv'
<1>1. /\ s.tokens \notin used \/ s.tokens = Key(t)
      /\ Bridge!Commit(t, s) /\ UNCHANGED <<checks, guard, page, leaving, confirmed, restored>>
      /\ issued' = [issued EXCEPT ![t] = issued[t] \cup {s.tokens}]
      /\ used' = used \cup {s.tokens} /\ SessionInv
  BY DEF Issue, Inv
<1>2. SessionInv' /\ OthersKeep(t) /\ loaded' = loaded /\ Key(t)' = s.tokens /\ s.tokens \in Tokens
  BY <1>1, IssueKeeps
<1>3. issued' \in [Tabs -> SUBSET Tokens]
  BY <1>1, <1>2 DEF Inv, ChecksTypes
<1>4. \A n \in Slots : request[t][n] # Idle => request[t][n].key \in used
  BY TabFacts DEF RequestsOk
<1>5. Key(t)' = Key(t) \/ \A n \in Slots : request[t][n] # Idle => request[t][n].key # Key(t)'
  BY <1>1, <1>2, <1>4
<1> QED
  BY <1>1, <1>2, <1>3, <1>5, BridgeStep

LEMMA StorageStep == ASSUME Inv, NEW t \in Tabs, SessionStorageChange(t) PROVE Inv'
<1>1. /\ Bridge!StorageEvent(t) /\ SessionInv
      /\ UNCHANGED <<shown, listening, due, page, leaving, confirmed, issued, used>>
  BY DEF SessionStorageChange, Inv
<1>2. SessionInv' /\ OthersKeep(t) /\ loaded'[t]
  BY <1>1, StorageKeeps
<1>3. PICK k : k = KeyOf(memory'[t])
  OBVIOUS
<1>4. /\ Key(t)' = k
      /\ restored' = [restored EXCEPT ![t] = restored[t] \cup
                        (({request[t][n].key : n \in InFlight(t)} \cap {k}) \ {Key(t)})]
      /\ \/ /\ Gone(t) /\ Invalidate(t, request[t])
         \/ /\ k # NoTokens
            /\ observed' = [observed EXCEPT ![t] = k]
            /\ status' = [status EXCEPT ![t] = "checking"]
            /\ Invalidate(t, request[t])
         \/ UNCHANGED <<checks, observed, status>>
  BY <1>3 DEF SessionStorageChange, Key
<1>5. k \in Keys
  <2>1. memory'[t] \in Sessions
    BY <1>2 DEF SessionInv, Bridge!TypeOK, Sessions
  <2> QED
    BY <1>3, <2>1, KeyFacts
<1>6. GuardTypes'
  BY <1>1, <1>4, <1>5 DEF Gone, Inv, GuardTypes, Statuses, Keys
<1>7. /\ confirmed' \subseteq Tokens /\ issued' \in [Tabs -> SUBSET Tokens]
      /\ restored' \in [Tabs -> SUBSET Tokens] /\ restored[t] \subseteq restored'[t]
      /\ \A u \in Tabs \ {t} : restored'[u] = restored[u]
      /\ restored'[t] = restored[t] \cup
                        (({request[t][n].key : n \in InFlight(t)} \cap {k}) \ {Key(t)})
  <2>1. \A n \in InFlight(t) : request[t][n].key \in Tokens
    BY FlightFacts
  <2>2. restored[t] \cup (({request[t][n].key : n \in InFlight(t)} \cap {k}) \ {Key(t)}) \in SUBSET Tokens
    BY <2>1 DEF Inv, ChecksTypes
  <2> QED
    BY <1>1, <1>4, <2>2 DEF Inv, ChecksTypes
<1>8. /\ listening'[t] \/ due'[t] => page'[t] = "admin"
      /\ page'[t] = "login" => \A n \in Slots : request[t][n].awaited = "nobody"
      /\ \A u \in Tabs \ {t} : page'[u] = page[u] /\ listening'[u] = listening[u] /\ due'[u] = due[u]
  BY <1>1 DEF Inv, TabOk
<1>9. RequestsOk(request[t], pending[t], Key(t), restored[t], used, loaded[t]) /\ used \in SUBSET Tokens
  BY TabFacts
<1>10. CASE Invalidate(t, request[t])
  BY <1>1, <1>2, <1>6, <1>7, <1>8, <1>9, <1>10, InvalidateStep
<1>11. CASE UNCHANGED <<checks, observed, status>>
  <2>1. UNCHANGED <<request, pending, verified>>
    BY <1>11 DEF checks
  <2>2. k = Key(t) \/ \A n \in Slots : request[t][n] # Idle /\ request[t][n].key = k => k \in restored'[t]
    BY <1>7 DEF InFlight
  <2>3. RequestsOk(request[t], pending[t], k, restored'[t], used, loaded'[t])
    <3>1. PICK back : back = restored'[t]
      OBVIOUS
    <3>2. \A n \in Slots : request[t][n] # Idle /\ request[t][n].key = k => k = Key(t) \/ k \in back
      BY <2>2, <3>1
    <3>3. restored[t] \subseteq back
      BY <1>7, <3>1
    <3>4. RequestsOk(request[t], pending[t], k, back, used, loaded'[t])
      BY <1>2, <1>9, <3>2, <3>3 DEF RequestsOk
    <3> QED
      BY <3>1, <3>4
  <2>4. request' = [request EXCEPT ![t] = request[t]] /\ pending' = [pending EXCEPT ![t] = pending[t]]
          /\ verified' \in [Tabs -> Keys]
    BY <2>1 DEF Inv, ChecksTypes
  <2>5. used' = used /\ used \subseteq used'
    BY <1>1
  <2>6. RequestsOk(request[t], pending[t], Key(t)', restored'[t], used', loaded'[t])
    BY <1>4, <2>3, <2>5
  <2> QED
    BY <1>2, <1>6, <1>7, <1>8, <2>4, <2>5, <2>6, ChecksStep
<1> QED
  BY <1>4, <1>10, <1>11

LEMMA SignOutStep == ASSUME Inv, NEW t \in Tabs, SignOut(t) PROVE Inv'
<1>1. /\ leaving' = [leaving EXCEPT ![t] = TRUE] /\ UNCHANGED <<session, used>>
      /\ UNCHANGED <<request, pending, verified, status, shown, observed, listening, due, page, confirmed, issued, restored>>
  BY DEF SignOut, checks, guard
<1>2. SessionInv' /\ memory' = memory /\ loaded' = loaded /\ OthersKeep(t)
  BY <1>1, SessionSame DEF Inv
<1>3. GuardTypes' /\ ChecksTypes'
  BY <1>1 DEF Inv, GuardTypes, ChecksTypes
<1>4. OneTab(t) /\ TabOk(t)'
  BY <1>1, <1>2 DEF OneTab, Inv, TabOk, Key
<1> QED
  BY <1>1, <1>2, <1>3, <1>4, OneTabInv

LEMMA SignedOutStep == ASSUME Inv, NEW t \in Tabs, SignedOut(t) PROVE Inv'
<1>1. /\ Bridge!Clear(t) /\ leaving' = [leaving EXCEPT ![t] = FALSE] /\ Leave(t)
      /\ UNCHANGED <<confirmed, issued, used, restored>>
  BY DEF SignedOut
<1>2. SessionInv' /\ OthersKeep(t) /\ loaded' = loaded /\ memory'[t] = NoSession
  BY <1>1, ClearKeeps DEF Inv
<1>3. GuardTypes' /\ ~listening'[t] /\ ~due'[t] /\ \A u \in Tabs \ {t} :
        page'[u] = page[u] /\ listening'[u] = listening[u] /\ due'[u] = due[u] /\ restored'[u] = restored[u]
  BY <1>1 DEF Leave, Inv, GuardTypes, Statuses, Keys
<1>4. /\ confirmed' \subseteq Tokens /\ issued' \in [Tabs -> SUBSET Tokens]
      /\ restored' \in [Tabs -> SUBSET Tokens]
  BY <1>1 DEF Inv, ChecksTypes
<1>5. /\ RequestsOk(Unmounted(request[t]), pending[t], Key(t), restored[t], used, loaded[t])
      /\ \A n \in Slots : Unmounted(request[t])[n].awaited = "nobody"
  BY WaitersFacts
<1>6. CASE Invalidate(t, Unmounted(request[t]))
  BY <1>1, <1>2, <1>3, <1>4, <1>5, <1>6, InvalidateStep
<1>7. CASE request' = [request EXCEPT ![t] = Unmounted(request[t])] /\ UNCHANGED <<pending, verified>>
  <2>1. pending' = [pending EXCEPT ![t] = pending[t]] /\ verified' \in [Tabs -> Keys]
    BY <1>7 DEF Inv, ChecksTypes
  <2>2. Key(t)' = NoTokens /\ used \in SUBSET Tokens
    BY <1>2, TabFacts DEF Key, KeyOf
  <2>3. \A n \in Slots : Unmounted(request[t])[n] # Idle => Unmounted(request[t])[n].key \in Tokens
    BY <1>5, <2>2 DEF RequestsOk
  <2>4. RequestsOk(Unmounted(request[t]), pending[t], NoTokens, restored[t], used, loaded[t])
    BY <1>5, <2>2, <2>3, GuardAssumption, OtherSession
  <2>5. RequestsOk(Unmounted(request[t]), pending[t], Key(t)', restored'[t], used', loaded'[t])
    BY <1>1, <1>2, <2>2, <2>4
  <2>6. used \subseteq used'
    BY <1>1
  <2> QED
    BY <1>2, <1>3, <1>4, <1>5, <1>7, <2>1, <2>5, <2>6, ChecksStep
<1> QED
  BY <1>6, <1>7 DEF SignedOut

-----------------------------------------------------------------------------
(* The theorems about every number of tabs.                                   *)

LEMMA StepInv == Inv /\ [Next]_vars => Inv'
<1> SUFFICES ASSUME Inv, [Next]_vars PROVE Inv'
  OBVIOUS
<1>1. CASE UNCHANGED vars
  <2>1. UNCHANGED <<session, used>> /\ SessionInv
    BY <1>1 DEF vars, Inv
  <2>2. SessionInv' /\ memory' = memory /\ loaded' = loaded
    BY <2>1, SessionSame
  <2> QED
    BY <1>1, <2>2 DEF vars, checks, guard, Inv, GuardTypes, ChecksTypes, TabOk, Key
<1>2. ASSUME NEW t \in Tabs, Turn(t) PROVE Inv'
  BY <1>2, MountStep, EffectsStep, RenderStep, ConfirmStep, BreakStep, RefuseStep, OpenStep,
    RuntimeStep, StorageStep, SignedOutStep DEF Turn
<1>3. ASSUME NEW t \in Tabs, Navigate(t) \/ SignOut(t) PROVE Inv'
  BY <1>3, NavigateStep, SignOutStep
<1>4. ASSUME NEW t \in Tabs, NEW s \in Bridge!Session, Issue(t, s) PROVE Inv'
  BY <1>4, IssueStep
<1> QED
  BY <1>1, <1>2, <1>3, <1>4 DEF Next

LEMMA Invariance == Spec => []Inv
BY InitInv, StepInv, PTL DEF Spec

\* The type invariant, for every number of tabs, token pairs and requests.
THEOREM TypeCorrect == Spec => []TypeOK
BY Invariance, InvProperties, PTL

\* verifyCurrentOperatorSession, invalidateCurrentOperatorSessionVerification: guards that
\* check one session share one request, which is still on its way and may confirm it, unless
\* another tab brought back a session that was being checked when this tab left it.
THEOREM OneCheck == Spec => []ChecksAreShared
BY Invariance, InvProperties, PTL
\* The guard acts on the session through the bridge alone: every step of it is a step of
\* SessionBridge, or leaves the session as it is.
THEOREM OverTheBridge == Spec => Bridge!Spec
<1>1. Init => Bridge!Init
  BY DEF Init
<1>2. [Next]_vars => [Bridge!Next]_(Bridge!bridge)
  <2> SUFFICES ASSUME [Next]_vars PROVE Bridge!Next \/ UNCHANGED session
    BY DEF Bridge!bridge, session
  <2>1. CASE UNCHANGED vars
    BY <2>1 DEF vars
  <2>2. ASSUME NEW t \in Tabs, Turn(t)
        PROVE  \/ Bridge!Load(t) \/ Bridge!UseTokenManager(t) \/ Bridge!Clear(t) \/ Bridge!StorageEvent(t)
               \/ UNCHANGED session
    BY <2>2 DEF Turn, Mount, RunEffects, Verify, Render, Confirm, Break, Refuse, Open, CreateRuntime,
      SessionStorageChange, SignedOut
  <2>3. ASSUME NEW t \in Tabs, Navigate(t) \/ SignOut(t) PROVE UNCHANGED session
    BY <2>3 DEF Navigate, SignOut
  <2>4. ASSUME NEW t \in Tabs, NEW s \in Bridge!Session, Issue(t, s) PROVE Bridge!Commit(t, s)
    BY <2>4 DEF Issue
  <2> QED
    BY <2>1, <2>2, <2>3, <2>4 DEF Next, Bridge!Next
<1> QED
  BY <1>1, <1>2, PTL DEF Spec, Bridge!Spec

-----------------------------------------------------------------------------
(* One tab.  No other tab sends it storage events, so the session of a request in flight is   *)
(* the session of the tab until IAM issues another one or the session goes.                   *)

Known(t) == confirmed \cup issued[t]

\* What the tab goes by: the session it notes as verified, the one its requests are for and
\* the one its guard shows as verified.
SoleOk(t) ==
  /\ mail[t] = 0
  /\ page[t] = "admin" => loaded[t] = TRUE
  /\ verified[t] # NoTokens => verified[t] \in Known(t)
  /\ memory[t] # NoSession =>
       /\ \A n \in Slots :
            request[t][n] # Idle => request[t][n].key = Key(t) \/ Key(t) \in issued[t]
       /\ page[t] = "admin" /\ status[t] = "verified" => Key(t) \in Known(t)

SoleInv == Inv /\ \A t \in Tabs : SoleOk(t)

LEMMA SoleInit == Init => SoleInv
<1> SUFFICES ASSUME Init, NEW t \in Tabs PROVE SoleOk(t)
  BY InitInv DEF SoleInv
<1>1. mail[t] = 0 /\ memory[t] = NoSession /\ page[t] = "login" /\ verified[t] = NoTokens
  BY DEF Init, Bridge!Init
<1> QED
  BY <1>1 DEF SoleOk

LEMMA SoleProperties == SoleInv => ValidatedBeforeRendered
BY DEF SoleInv, SoleOk, Known, ValidatedBeforeRendered

\* What is needed of a step that keeps the session, where more is known after it.
LEMMA SameSessionSole ==
  ASSUME NEW t \in Tabs, SoleOk(t), mail'[t] = 0, memory' = memory, loaded' = loaded,
         confirmed \subseteq confirmed', issued' = issued,
         page'[t] = "admin" => loaded[t] = TRUE,
         verified'[t] # NoTokens => verified'[t] \in Known(t)',
         \A n \in Slots : memory[t] # NoSession /\ request'[t][n] # Idle =>
           request'[t][n].key = Key(t) \/ Key(t) \in issued[t],
         page'[t] = "admin" /\ status'[t] = "verified" /\ memory[t] # NoSession => Key(t) \in Known(t)'
  PROVE  SoleOk(t)'
<1>1. Key(t)' = Key(t)
  BY DEF Key
<1> QED
  BY <1>1 DEF SoleOk

\* What is needed of a step after which the session is gone.
LEMMA NoSessionSole ==
  ASSUME NEW t \in Tabs, SoleOk(t), mail'[t] = 0, memory'[t] = NoSession, loaded' = loaded,
         confirmed' = confirmed, issued' = issued, page'[t] = "admin" => loaded[t] = TRUE,
         verified'[t] \in {verified[t], NoTokens}
  PROVE  SoleOk(t)'
BY DEF SoleOk, Known

LEMMA MountSole == ASSUME SoleInv, NEW t \in Tabs, Mount(t) PROVE SoleOk(t)'
<1>1. /\ memory[t] # NoSession /\ page' = [page EXCEPT ![t] = "admin"]
      /\ status' = [status EXCEPT ![t] = IF verified[t] = Key(t) THEN "verified" ELSE "checking"]
      /\ UNCHANGED <<mail, memory, loaded, request, verified, confirmed, issued>>
  BY DEF Mount, session, checks
<1>2. SoleOk(t) /\ status \in [Tabs -> Statuses] /\ loaded[t] = TRUE /\ Key(t) # NoTokens
  BY <1>1, TabFacts, GuardAssumption DEF SoleInv, Inv, GuardTypes
<1>3. status'[t] = "verified" => verified[t] = Key(t)
  BY <1>1, <1>2
<1> QED
  BY <1>1, <1>2, <1>3, SameSessionSole DEF SoleOk, Known

LEMMA EffectsSole == ASSUME SoleInv, NEW t \in Tabs, RunEffects(t) PROVE SoleOk(t)'
<1>1. SoleOk(t) /\ Inv /\ SessionInv
  BY DEF SoleInv, Inv
<1>2. due[t] /\ UNCHANGED <<page, confirmed, issued, used>>
  BY DEF RunEffects
<1>3. CASE UNCHANGED <<session, checks>> /\ (status'[t] = "verified" => status[t] = "verified")
  <2>1. UNCHANGED <<mail, memory, loaded, request, verified>>
    BY <1>3 DEF session, checks
  <2> QED
    BY <1>1, <1>2, <1>3, <2>1, SameSessionSole DEF SoleOk, Known
<1>4. CASE Key(t) # NoTokens /\ verified[t] = Key(t) /\ UNCHANGED <<session, checks>>
  <2>1. UNCHANGED <<mail, memory, loaded, request, verified>>
    BY <1>4 DEF session, checks
  <2> QED
    BY <1>1, <1>2, <1>4, <2>1, SameSessionSole DEF SoleOk, Known
<1>5. CASE pending[t] # NoSlot /\ Join(t) /\ UNCHANGED <<session, status, verified>>
  <2>1. UNCHANGED <<mail, memory, loaded>>
    BY <1>5 DEF session
  <2>2. \A n \in Slots : request'[t][n] # Idle =>
          request'[t][n].key = request[t][n].key /\ request[t][n] # Idle
    <3>1. PICK p \in Slots : p = pending[t]
      BY <1>1, <1>5 DEF Inv, ChecksTypes
    <3>2. request \in [Tabs -> [Slots -> Requests]] /\ request[t][p] # Idle
      BY <1>1, <1>5, <3>1, TabFacts DEF RequestsOk, Inv, ChecksTypes
    <3>3. request' = [request EXCEPT ![t][p].awaited = "active"]
      BY <1>5, <3>1 DEF Join
    <3>4. request'[t] = [request[t] EXCEPT ![p].awaited = "active"]
      BY <3>2, <3>3
    <3> QED
      BY <3>2, <3>4 DEF Requests
  <2> QED
    BY <1>1, <1>2, <1>5, <2>1, <2>2, SameSessionSole DEF SoleOk, Known
<1>6. CASE /\ \E n \in Slots : request' = [request EXCEPT ![t][n] =
                                  [key |-> Key(t), valid |-> TRUE, awaited |-> "active"]]
           /\ Bridge!UseTokenManager(t) \/ UNCHANGED session
           /\ UNCHANGED <<status, verified>>
  <2>1. memory' = memory /\ loaded' = loaded /\ mail' = mail
    BY <1>6 DEF session, Bridge!UseTokenManager
  <2>2. \A n \in Slots : request'[t][n] # Idle =>
          request'[t][n].key = Key(t) \/ request'[t][n] = request[t][n]
    <3>1. request \in [Tabs -> [Slots -> Requests]]
      BY <1>1 DEF Inv, ChecksTypes
    <3>2. PICK n \in Slots : request' = [request EXCEPT ![t][n] =
                               [key |-> Key(t), valid |-> TRUE, awaited |-> "active"]]
      BY <1>6
    <3> QED
      BY <3>1, <3>2
  <2> QED
    BY <1>1, <1>2, <1>6, <2>1, <2>2, SameSessionSole DEF SoleOk, Known
<1> QED
  <2>1. status \in [Tabs -> Statuses]
    BY <1>1 DEF Inv, GuardTypes
  <2> QED
    BY <1>3, <1>4, <1>5, <1>6, <2>1 DEF RunEffects, Verify

\* A step that only changes who waits for the requests.
LEMMA WaitersSole ==
  ASSUME SoleInv, NEW t \in Tabs, NEW r \in [Slots -> Requests],
         \A n \in Slots : r[n].key = request[t][n].key /\ (request[t][n] = Idle => r[n] = Idle),
         request' = [request EXCEPT ![t] = r], page'[t] = "admin" => page[t] = "admin",
         status'[t] = "verified" => status[t] = "verified",
         UNCHANGED <<session, verified, confirmed, issued>>
  PROVE  SoleOk(t)'
<1>1. SoleOk(t) /\ request'[t] = r
  BY DEF SoleInv, Inv, ChecksTypes
<1>2. UNCHANGED <<mail, memory, loaded>>
  BY DEF session
<1> QED
  BY <1>1, <1>2, SameSessionSole DEF SoleOk, Known

LEMMA WaitersKeys ==
  ASSUME Inv, NEW t \in Tabs
  PROVE  /\ Abandoned(request[t]) \in [Slots -> Requests] /\ Unmounted(request[t]) \in [Slots -> Requests]
         /\ \A n \in Slots :
              /\ Abandoned(request[t])[n].key = request[t][n].key
              /\ Unmounted(request[t])[n].key = request[t][n].key
              /\ request[t][n] = Idle => Abandoned(request[t])[n] = Idle /\ Unmounted(request[t])[n] = Idle
<1>1. request[t] \in [Slots -> Requests] /\ Idle \in Requests
  BY DEF Inv, ChecksTypes, Idle, Requests, Keys
<1> QED
  BY <1>1 DEF Abandoned, Unmounted, Requests, Idle

LEMMA RenderSole == ASSUME SoleInv, NEW t \in Tabs, Render(t) PROVE SoleOk(t)'
<1>1. Inv /\ status \in [Tabs -> Statuses] /\ page[t] = "admin"
  BY DEF SoleInv, Inv, GuardTypes, Render
<1>2. UNCHANGED <<session, verified, confirmed, issued>>
  BY DEF Render
<1>3. status'[t] = "verified" => status[t] = "verified"
  BY <1>1 DEF Render, Leave
<1>4. \/ request' = [request EXCEPT ![t] = Unmounted(request[t])]
      \/ request' = [request EXCEPT ![t] = Abandoned(request[t])]
  BY DEF Render
<1> QED
  BY <1>1, <1>2, <1>3, <1>4, WaitersKeys, WaitersSole

LEMMA NavigateSole == ASSUME SoleInv, NEW t \in Tabs, Navigate(t) PROVE SoleOk(t)'
<1>1. /\ request' = [request EXCEPT ![t] = Abandoned(request[t])] /\ Inv
      /\ UNCHANGED <<session, verified, confirmed, issued, status, page>>
  BY DEF Navigate, SoleInv
<1> QED
  BY <1>1, WaitersKeys, WaitersSole

LEMMA ConfirmSole == ASSUME SoleInv, NEW t \in Tabs, NEW n \in Slots, Confirm(t, n) PROVE SoleOk(t)'
<1>1. /\ SoleOk(t) /\ request \in [Tabs -> [Slots -> Requests]] /\ verified \in [Tabs -> Keys]
      /\ status \in [Tabs -> Statuses] /\ request[t][n] # Idle
  BY DEF SoleInv, Inv, ChecksTypes, GuardTypes, Confirm, InFlight
<1>2. UNCHANGED <<mail, memory, loaded, page, issued>>
  BY DEF Confirm, session
<1>3. PICK k : k = IF memory[t] = NoSession THEN request[t][n].key ELSE Key(t)
  OBVIOUS
<1>4. /\ request' = [request EXCEPT ![t] = Without(t, n)]
      /\ verified' = [verified EXCEPT ![t] = IF request[t][n].valid THEN k ELSE verified[t]]
      /\ status' = [status EXCEPT ![t] = IF request[t][n].awaited = "active" THEN "verified" ELSE status[t]]
      /\ confirmed' = confirmed \cup {request[t][n].key}
  BY <1>3 DEF Confirm
<1>5. k \in confirmed' \cup issued[t] /\ (memory[t] # NoSession => Key(t) \in confirmed' \cup issued[t])
  BY <1>1, <1>3, <1>4 DEF SoleOk
<1>6. verified'[t] # NoTokens => verified'[t] \in Known(t)'
  BY <1>1, <1>2, <1>4, <1>5 DEF SoleOk, Known
<1>7. \A m \in Slots : request'[t][m] # Idle => request'[t][m] = request[t][m]
  BY <1>1, <1>4 DEF Without
<1> QED
  <2>1. mail'[t] = 0 /\ confirmed \subseteq confirmed' /\ (page'[t] = "admin" => loaded[t] = TRUE)
    BY <1>1, <1>2, <1>4 DEF SoleOk
  <2>2. \A m \in Slots : memory[t] # NoSession /\ request'[t][m] # Idle =>
          request'[t][m].key = Key(t) \/ Key(t) \in issued[t]
    BY <1>1, <1>7 DEF SoleOk
  <2>3. memory[t] # NoSession => Key(t) \in Known(t)'
    BY <1>2, <1>5 DEF Known
  <2> QED
    BY <1>1, <1>2, <1>6, <2>1, <2>2, <2>3, SameSessionSole

LEMMA BreakSole == ASSUME SoleInv, NEW t \in Tabs, NEW n \in Slots, Break(t, n) PROVE SoleOk(t)'
<1>1. /\ SoleOk(t) /\ request \in [Tabs -> [Slots -> Requests]] /\ status \in [Tabs -> Statuses]
  BY DEF SoleInv, Inv, ChecksTypes, GuardTypes
<1>2. UNCHANGED <<mail, memory, loaded, page, verified, confirmed, issued>>
  BY DEF Break, session
<1>3. \A m \in Slots : request'[t][m] # Idle => request'[t][m] = request[t][m]
  BY <1>1 DEF Break, Without
<1>4. status'[t] = "verified" => status[t] = "verified"
  BY <1>1 DEF Break, FailClosed
<1> QED
  BY <1>1, <1>2, <1>3, <1>4, SameSessionSole DEF SoleOk, Known

LEMMA RefuseSole == ASSUME SoleInv, NEW t \in Tabs, NEW n \in Slots, Refuse(t, n) PROVE SoleOk(t)'
<1>1. SoleOk(t) /\ SessionInv /\ verified \in [Tabs -> Keys]
  BY DEF SoleInv, Inv, ChecksTypes
<1>2. Bridge!Clear(t) /\ UNCHANGED <<page, confirmed, issued, used>>
  BY DEF Refuse
<1>3. memory'[t] = NoSession /\ loaded' = loaded /\ mail'[t] = mail[t]
  BY <1>1, <1>2, ClearKeeps
<1>4. verified'[t] = NoTokens
  BY <1>1 DEF Refuse, Invalidate
<1> QED
  BY <1>1, <1>2, <1>3, <1>4, NoSessionSole DEF SoleOk

LEMMA SignedOutSole == ASSUME SoleInv, NEW t \in Tabs, SignedOut(t) PROVE SoleOk(t)'
<1>1. SoleOk(t) /\ SessionInv /\ verified \in [Tabs -> Keys] /\ page \in [Tabs -> {"login", "admin"}]
  BY DEF SoleInv, Inv, ChecksTypes, GuardTypes
<1>2. Bridge!Clear(t) /\ UNCHANGED <<confirmed, issued, used>> /\ page'[t] = "login"
  BY <1>1 DEF SignedOut, Leave
<1>3. memory'[t] = NoSession /\ loaded' = loaded /\ mail'[t] = mail[t]
  BY <1>1, <1>2, ClearKeeps
<1>4. verified'[t] \in {verified[t], NoTokens}
  BY <1>1 DEF SignedOut, Invalidate
<1> QED
  BY <1>1, <1>2, <1>3, <1>4, NoSessionSole DEF SoleOk

LEMMA OpenSole == ASSUME SoleInv, NEW t \in Tabs, Open(t) PROVE SoleOk(t)'
<1>1. /\ Bridge!Load(t) /\ UNCHANGED <<checks, page, confirmed, issued, used>>
      /\ SoleOk(t) /\ Inv /\ SessionInv
  BY DEF Open, guard, SoleInv, Inv
<1>2. loaded'[t] = TRUE /\ mail'[t] = mail[t]
  <2>1. SessionInv' /\ loaded'[t] /\ mail'[t] = mail[t]
    BY <1>1, OpenKeeps
  <2> QED
    BY <2>1 DEF SessionInv, Bridge!TypeOK
<1>3. loaded[t] # TRUE /\ page[t] # "admin"
  BY <1>1 DEF Bridge!Load, SoleOk
<1>4. \A n \in Slots : request[t][n] = Idle
  <2>1. RequestsOk(request[t], pending[t], Key(t), restored[t], used, loaded[t]) /\ loaded[t] = FALSE
    BY <1>1, <1>3, TabFacts
  <2> QED
    BY <2>1 DEF RequestsOk
<1> QED
  BY <1>1, <1>2, <1>3, <1>4 DEF SoleOk, Known, checks

LEMMA RuntimeSole == ASSUME SoleInv, NEW t \in Tabs, CreateRuntime(t) PROVE SoleOk(t)'
<1>1. UNCHANGED <<mail, memory, loaded, request, verified, page, status, confirmed, issued>>
  BY DEF CreateRuntime, Bridge!UseTokenManager, checks, guard
<1> QED
  BY <1>1, SameSessionSole DEF SoleInv, SoleOk, Known

LEMMA IssueSole ==
  ASSUME SoleInv, NEW t \in Tabs, NEW s \in Bridge!Session, Issue(t, s) PROVE SoleOk(t)'
<1>1. /\ Bridge!Commit(t, s) /\ UNCHANGED <<request, verified, page, confirmed>>
      /\ issued' = [issued EXCEPT ![t] = issued[t] \cup {s.tokens}]
      /\ used' = used \cup {s.tokens}
      /\ SoleOk(t) /\ SessionInv /\ issued \in [Tabs -> SUBSET Tokens]
  BY DEF Issue, checks, SoleInv, Inv, ChecksTypes
<1>2. loaded' = loaded /\ Key(t)' = s.tokens /\ mail'[t] = mail[t]
  BY <1>1, IssueKeeps
<1>3. issued'[t] = issued[t] \cup {s.tokens}
  BY <1>1
<1> QED
  BY <1>1, <1>2, <1>3 DEF SoleOk, Known

\* A step of the only tab.
LEMMA SoleStep == ASSUME NEW x, Tabs = {x} PROVE SoleInv /\ [Next]_vars => SoleInv'
<1> SUFFICES ASSUME SoleInv, [Next]_vars PROVE SoleInv'
  OBVIOUS
<1>1. Inv' /\ x \in Tabs
  BY StepInv DEF SoleInv
<1>2. SUFFICES SoleOk(x)'
  BY <1>1, <1>2 DEF SoleInv
<1>3. CASE UNCHANGED vars
  BY <1>3 DEF vars, session, checks, guard, SoleInv, SoleOk, Known, Key
<1>4. CASE Turn(x)
  <2>1. ~SessionStorageChange(x)
    <3>1. mail[x] = 0
      BY <1>1 DEF SoleInv, SoleOk
    <3> QED
      BY <3>1 DEF SessionStorageChange, Bridge!StorageEvent
  <2> QED
    BY <1>1, <1>4, <2>1, MountSole, EffectsSole, RenderSole, ConfirmSole, BreakSole, RefuseSole,
      OpenSole, RuntimeSole, SignedOutSole DEF Turn
<1>5. CASE Navigate(x)
  BY <1>1, <1>5, NavigateSole
<1>6. CASE SignOut(x)
  BY <1>1, <1>6 DEF SignOut, session, checks, guard, SoleInv, SoleOk, Known, Key
<1>7. ASSUME NEW s \in Bridge!Session, Issue(x, s) PROVE SoleOk(x)'
  BY <1>1, <1>7, IssueSole
<1> QED
  BY <1>3, <1>4, <1>5, <1>6, <1>7 DEF Next

\* RequireOperatorSession with one tab open, for every number of token pairs and requests:
\* a protected route is rendered for a session that IAM has confirmed or issued to the tab.
THEOREM ValidatedFirst == ASSUME NEW x, Tabs = {x} PROVE Spec => []ValidatedBeforeRendered
<1>1. SoleInv /\ [Next]_vars => SoleInv'
  BY SoleStep
<1> QED
  BY <1>1, SoleInit, SoleProperties, PTL DEF Spec
=============================================================================
