------------------------- MODULE SessionBridgeProofs -------------------------
(***************************************************************************)
(* The safety properties of SessionBridge for every number of tabs, token  *)
(* pairs and contexts, and whatever the bound on the queued events.        *)
(***************************************************************************)
EXTENDS SessionBridge, TLAPS

-----------------------------------------------------------------------------
(* Facts about the operators of a step.                                       *)

\* A commit stores a session of the tokens it was given, and of the context it was
\* given or, for the tokens the tab has, the one the tab has.
LEMMA MergeFacts ==
  ASSUME NEW current \in Session \cup {NoSession}, NEW next \in Session
  PROVE  /\ Merge(current, next) \in Session
         /\ Merge(current, next).tokens = next.tokens
         /\ current # NoSession /\ current.tokens = next.tokens /\ current.context # NoContext
            => Merge(current, next).context # NoContext
  BY SessionAssumption DEF Merge, Session

\* The TokenManager holds no tokens but those of the session.
LEMMA TokensOfFacts ==
  ASSUME NEW s \in Session \cup {NoSession}
  PROVE  /\ TokensOf(s) \in Tokens \cup {NoTokens, NoManager}
         /\ TokensOf(s) \in Tokens => s # NoSession /\ s.tokens = TokensOf(s)
  BY SessionAssumption DEF TokensOf, Session

\* A change of localStorage queues an event in every other tab, and nothing takes one
\* from the queue.
LEMMA ToldFacts ==
  ASSUME NEW t \in Tabs, NEW m \in [Tabs -> Nat]
  PROVE  /\ Told(t, m) \in [Tabs -> Nat]
         /\ Told(t, m)[t] = m[t]
         /\ \A u \in Tabs : Told(t, m)[u] >= m[u]
         /\ \A u \in Tabs \ {t} : local' # local => Told(t, m)[u] > 0
         /\ \A u \in Tabs : local' = local => Told(t, m)[u] = m[u]
  BY DEF Told

-----------------------------------------------------------------------------
(* The inductive invariant.                                                   *)

\* What the steps preserve: each conjunct with the types.
Inv ==
  /\ TypeOK
  /\ StaleOnlyWhileMail
  /\ TokensFollowSession

LEMMA InitInv == Init => Inv
  BY SessionAssumption DEF Init, Inv, TypeOK, StaleOnlyWhileMail, TokensFollowSession

\* Reading the storage again makes the tab agree with it, or notes that it could not.
LEMMA ReadAndMigrate ==
  ASSUME Inv, NEW t \in Tabs, ReadStorage(t), Migrate(t)
  PROVE  /\ local' \in Session \cup {NoSession}
         /\ legacy' \in [Tabs -> Session \cup {NoSession}]
         /\ memory' \in [Tabs -> Session \cup {NoSession}]
         /\ loaded' \in [Tabs -> BOOLEAN]
         /\ unsaved' \in [Tabs -> BOOLEAN]
         /\ loaded'[t]
         /\ unsaved'[t] \/ memory'[t] = local'
         /\ \A u \in Tabs \ {t} : /\ memory'[u] = memory[u]
                                  /\ loaded'[u] = loaded[u]
                                  /\ unsaved'[u] = unsaved[u]
  BY DEF Inv, TypeOK, ReadStorage, Migrate

\* So does saving a session, also when it is the one in memory and nothing is written.
LEMMA SaveKeepsAgreement ==
  ASSUME Inv, NEW t \in Tabs, NEW s \in Session \cup {NoSession}, Save(t, s)
  PROVE  /\ local' \in Session \cup {NoSession}
         /\ legacy' \in [Tabs -> Session \cup {NoSession}]
         /\ memory' \in [Tabs -> Session \cup {NoSession}]
         /\ unsaved' \in [Tabs -> BOOLEAN]
         /\ mail' \in [Tabs -> Nat]
         /\ memory'[t] = s
         /\ s = memory[t] => local' = local /\ mail' = mail /\ unsaved' = unsaved
         /\ s # memory[t] => unsaved'[t] \/ local' = s
         /\ mail'[t] = mail[t]
         /\ \A u \in Tabs \ {t} : /\ memory'[u] = memory[u]
                                  /\ unsaved'[u] = unsaved[u]
                                  /\ mail'[u] >= mail[u]
                                  /\ local' # local => mail'[u] > 0
<1>0. mail \in [Tabs -> Nat]
  BY DEF Inv, TypeOK
<1>1. CASE s = memory[t]
  BY <1>0, <1>1 DEF Save, Inv, TypeOK
<1>2. CASE s # memory[t]
  <2>1. mail' = Told(t, mail)
    BY <1>2 DEF Save
  <2>2. /\ mail' \in [Tabs -> Nat]
        /\ mail'[t] = mail[t]
        /\ \A u \in Tabs \ {t} : mail'[u] >= mail[u] /\ (local' # local => mail'[u] > 0)
    BY <1>0, <2>1, ToldFacts
  <2>3. /\ memory' = [memory EXCEPT ![t] = s]
        /\ legacy' = [legacy EXCEPT ![t] = NoSession]
        /\ \/ local' = s /\ unsaved' = [unsaved EXCEPT ![t] = FALSE]
           \/ local' = local /\ unsaved' = [unsaved EXCEPT ![t] = TRUE]
    BY <1>2 DEF Save
  <2> QED
    BY <1>2, <2>2, <2>3 DEF Inv, TypeOK
<1> QED
  BY <1>1, <1>2

\* The TokenManager is synced with the session just saved.
LEMMA SyncFollows ==
  ASSUME Inv, NEW t \in Tabs, NEW s \in Session \cup {NoSession}, Sync(t, s)
  PROVE  /\ tokens' \in [Tabs -> Tokens \cup {NoTokens, NoManager}]
         /\ tokens[t] = NoManager => tokens'[t] = NoManager
         /\ tokens'[t] \in Tokens => s # NoSession /\ s.tokens = tokens'[t]
         /\ \A u \in Tabs \ {t} : tokens'[u] = tokens[u]
  BY TokensOfFacts, SessionAssumption DEF Sync, Inv, TypeOK

-----------------------------------------------------------------------------
(* One lemma for each action.                                                 *)

LEMMA LoadInv == ASSUME Inv, NEW t \in Tabs, Load(t) PROVE Inv'
<1>1. mail' = Told(t, mail) /\ tokens' = tokens /\ expired' = expired /\ ~loaded[t]
  BY DEF Load
<1>2. mail \in [Tabs -> Nat] /\ tokens[t] = NoManager
  BY <1>1 DEF Inv, TypeOK
<1>3. ReadStorage(t) /\ Migrate(t)
  BY DEF Load
<1>4. TypeOK'
  BY <1>1, <1>2, <1>3, ReadAndMigrate, ToldFacts DEF Inv, TypeOK
<1>5. StaleOnlyWhileMail'
  BY <1>1, <1>2, <1>3, ReadAndMigrate, ToldFacts DEF Inv, StaleOnlyWhileMail
<1>6. TokensFollowSession'
  BY <1>1, <1>2, <1>3, ReadAndMigrate, SessionAssumption DEF Inv, TokensFollowSession
<1> QED
  BY <1>4, <1>5, <1>6 DEF Inv

LEMMA UseTokenManagerInv == ASSUME Inv, NEW t \in Tabs, UseTokenManager(t) PROVE Inv'
<1>1. memory[t] \in Session \cup {NoSession}
  BY DEF Inv, TypeOK
<1>2. TypeOK'
  BY <1>1, TokensOfFacts DEF Inv, TypeOK, UseTokenManager
<1>3. StaleOnlyWhileMail'
  BY DEF Inv, StaleOnlyWhileMail, UseTokenManager
<1>4. TokensFollowSession'
  BY <1>1, TokensOfFacts DEF Inv, TypeOK, TokensFollowSession, UseTokenManager
<1> QED
  BY <1>2, <1>3, <1>4 DEF Inv

\* Commit and Clear save a session in a tab that has read the storage.
LEMMA SaveInv ==
  ASSUME Inv, NEW t \in Tabs, NEW s \in Session \cup {NoSession},
         loaded[t], Save(t, s), Sync(t, s), UNCHANGED <<loaded, expired>>
  PROVE  Inv'
<1>1. TypeOK'
  BY SaveKeepsAgreement, SyncFollows DEF Inv, TypeOK
<1>2. StaleOnlyWhileMail'
  BY SaveKeepsAgreement DEF Inv, TypeOK, StaleOnlyWhileMail
<1>3. TokensFollowSession'
  BY SaveKeepsAgreement, SyncFollows DEF Inv, TypeOK, TokensFollowSession
<1> QED
  BY <1>1, <1>2, <1>3 DEF Inv

LEMMA CommitInv == ASSUME Inv, NEW t \in Tabs, NEW next \in Session, Commit(t, next) PROVE Inv'
<1> DEFINE s == Merge(memory[t], next)
<1>1. memory[t] \in Session \cup {NoSession} /\ loaded[t]
  BY DEF Commit, Inv, TypeOK
<1>2. s \in Session
  BY <1>1, MergeFacts
<1>3. Save(t, s) /\ Sync(t, s) /\ UNCHANGED <<loaded, expired>>
  BY DEF Commit
<1> HIDE DEF s
<1> QED
  BY <1>1, <1>2, <1>3, SaveInv

LEMMA ClearInv == ASSUME Inv, NEW t \in Tabs, Clear(t) PROVE Inv'
  BY SaveInv DEF Clear

LEMMA StorageEventInv == ASSUME Inv, NEW t \in Tabs, StorageEvent(t) PROVE Inv'
<1> DEFINE m == [mail EXCEPT ![t] = mail[t] - 1]
<1>1. m \in [Tabs -> Nat] /\ \A u \in Tabs \ {t} : m[u] = mail[u]
  BY DEF StorageEvent, Inv, TypeOK
<1>2. mail' = Told(t, m) /\ ReadStorage(t) /\ Migrate(t) /\ Sync(t, memory'[t])
      /\ expired' = expired
  BY DEF StorageEvent
<1> HIDE DEF m
<1>3. memory'[t] \in Session \cup {NoSession}
  BY <1>2, ReadAndMigrate
<1>4. TypeOK'
  BY <1>1, <1>2, <1>3, ReadAndMigrate, SyncFollows, ToldFacts DEF Inv, TypeOK
<1>5. StaleOnlyWhileMail'
  BY <1>1, <1>2, ReadAndMigrate, ToldFacts DEF Inv, StaleOnlyWhileMail
<1>6. TokensFollowSession'
  BY <1>2, <1>3, ReadAndMigrate, SyncFollows DEF Inv, TokensFollowSession
<1> QED
  BY <1>4, <1>5, <1>6 DEF Inv

LEMMA ReloadInv == ASSUME Inv, NEW t \in Tabs, Reload(t) PROVE Inv'
<1>1. TypeOK'
  BY DEF Inv, TypeOK, Reload
<1>2. StaleOnlyWhileMail'
  BY DEF Inv, TypeOK, StaleOnlyWhileMail, Reload
<1>3. TokensFollowSession'
  BY SessionAssumption DEF Inv, TypeOK, TokensFollowSession, Reload
<1> QED
  BY <1>1, <1>2, <1>3 DEF Inv

LEMMA ExpireInv == ASSUME Inv, NEW k \in Tokens, Expire(k) PROVE Inv'
  BY DEF Inv, TypeOK, StaleOnlyWhileMail, TokensFollowSession, Expire

\* A step of the bridge, of whichever tab, and a step that is none of its own preserve
\* the invariant.
LEMMA NextInv == Inv /\ [Next]_bridge => Inv'
<1> SUFFICES ASSUME Inv, [Next]_bridge PROVE Inv'
  OBVIOUS
<1>1. CASE UNCHANGED bridge
  BY <1>1 DEF Inv, TypeOK, StaleOnlyWhileMail, TokensFollowSession, bridge
<1>2. ASSUME NEW t \in Tabs, Load(t) PROVE Inv'
  BY <1>2, LoadInv
<1>3. ASSUME NEW t \in Tabs, UseTokenManager(t) PROVE Inv'
  BY <1>3, UseTokenManagerInv
<1>4. ASSUME NEW t \in Tabs, Clear(t) PROVE Inv'
  BY <1>4, ClearInv
<1>5. ASSUME NEW t \in Tabs, StorageEvent(t) PROVE Inv'
  BY <1>5, StorageEventInv
<1>6. ASSUME NEW t \in Tabs, Reload(t) PROVE Inv'
  BY <1>6, ReloadInv
<1>7. ASSUME NEW t \in Tabs, NEW s \in Session, Commit(t, s) PROVE Inv'
  BY <1>7, CommitInv
<1>8. ASSUME NEW k \in Tokens, Expire(k) PROVE Inv'
  BY <1>8, ExpireInv
<1> QED
  BY <1>1, <1>2, <1>3, <1>4, <1>5, <1>6, <1>7, <1>8 DEF Next

-----------------------------------------------------------------------------
(* Theorems.                                                                  *)

\* The invariant holds in every reachable state of the bridge, whatever the number of
\* tabs and of logins.
THEOREM BridgeInvariance == Spec => []Inv
  BY InitInv, NextInv, PTL DEF Spec

\* Every variable of the bridge has its type, and a tab that has not read the storage
\* holds no session and no TokenManager.
THEOREM BridgeTypes == Spec => []TypeOK
<1>1. Inv => TypeOK
  BY DEF Inv
<1> QED
  BY <1>1, BridgeInvariance, PTL

\* A tab with no storage event to come has the stored session, unless its own write
\* failed: what iamOperatorSessionBridge keeps across tabs.
THEOREM TabsAgree == Spec => []StaleOnlyWhileMail
<1>1. Inv => StaleOnlyWhileMail
  BY DEF Inv
<1> QED
  BY <1>1, BridgeInvariance, PTL

\* The TokenManager of a tab never holds the tokens of a session the tab has left: what
\* operatorSession keeps in step with the bridge.
THEOREM TokensAreOfTheSession == Spec => []TokensFollowSession
<1>1. Inv => TokensFollowSession
  BY DEF Inv
<1> QED
  BY <1>1, BridgeInvariance, PTL

\* A commit without a context in the tab that has one for the tokens keeps it.
LEMMA CommitKeepsContext ==
  ASSUME Inv, NEW t \in Tabs, NEW next \in Session, Commit(t, next), NEW u \in Tabs,
         memory[u] # NoSession, memory'[u] # NoSession,
         memory'[u].tokens = memory[u].tokens, memory[u].context # NoContext
  PROVE  memory'[u].context # NoContext
<1> DEFINE s == Merge(memory[t], next)
<1>1. memory[t] \in Session \cup {NoSession}
  BY DEF Inv, TypeOK
<1>2. /\ s \in Session
      /\ s.tokens = next.tokens
      /\ memory[t] # NoSession /\ memory[t].tokens = next.tokens /\ memory[t].context # NoContext
         => s.context # NoContext
  BY <1>1, MergeFacts
<1>3. Save(t, s)
  BY DEF Commit
<1> HIDE DEF s
<1>4. memory'[t] = s /\ \A v \in Tabs \ {t} : memory'[v] = memory[v]
  BY <1>2, <1>3, SaveKeepsAgreement
<1>5. CASE u = t
  BY <1>2, <1>4, <1>5
<1>6. CASE u # t
  BY <1>4, <1>6
<1> QED
  BY <1>5, <1>6

\* The context of a tab's tokens is lost by no step but the tab's storage event: what
\* mergeRuntimeSessionCommit is for.
THEOREM ContextIsKept == Spec => ContextSurvivesCommit
<1> DEFINE
      Kept == \A t \in Tabs :
                /\ memory[t] # NoSession /\ memory'[t] # NoSession
                /\ memory'[t].tokens = memory[t].tokens
                /\ mail'[t] >= mail[t]
                => (memory[t].context # NoContext => memory'[t].context # NoContext)
<1>1. Inv /\ [Next]_bridge => [Kept]_bridge
  <2> SUFFICES ASSUME Inv, Next, NEW u \in Tabs,
                      memory[u] # NoSession, memory'[u] # NoSession,
                      memory'[u].tokens = memory[u].tokens, mail'[u] >= mail[u],
                      memory[u].context # NoContext
               PROVE  memory'[u].context # NoContext
    OBVIOUS
  <2>1. ASSUME NEW t \in Tabs, Load(t) PROVE memory'[u] = memory[u]
    BY <2>1 DEF Load, ReadStorage, Inv, TypeOK
  <2>2. ASSUME NEW t \in Tabs, UseTokenManager(t) PROVE memory'[u] = memory[u]
    BY <2>2 DEF UseTokenManager
  <2>3. ASSUME NEW t \in Tabs, Clear(t) PROVE memory'[u] = memory[u]
    <3>1. memory' = [memory EXCEPT ![t] = NoSession] \/ memory' = memory
      BY <2>3 DEF Clear, Save
    <3> QED
      BY <3>1 DEF Inv, TypeOK
  <2>4. ASSUME NEW t \in Tabs, StorageEvent(t) PROVE memory'[u] = memory[u]
    <3>1. mail[t] > 0 /\ mail \in [Tabs -> Nat] /\ memory \in [Tabs -> Session \cup {NoSession}]
      BY <2>4 DEF StorageEvent, Inv, TypeOK
    <3>2. mail'[t] = mail[t] - 1
      BY <2>4, <3>1 DEF StorageEvent, Told
    <3>3. u # t
      BY <3>1, <3>2
    <3> QED
      BY <2>4, <3>1, <3>3 DEF StorageEvent, ReadStorage
  <2>5. ASSUME NEW t \in Tabs, Reload(t) PROVE memory'[u] = memory[u]
    BY <2>5 DEF Reload, Inv, TypeOK
  <2>6. ASSUME NEW t \in Tabs, NEW s \in Session, Commit(t, s) PROVE memory'[u].context # NoContext
    BY <2>6, CommitKeepsContext
  <2>7. ASSUME NEW k \in Tokens, Expire(k) PROVE memory'[u] = memory[u]
    BY <2>7 DEF Expire
  <2> QED
    BY <2>1, <2>2, <2>3, <2>4, <2>5, <2>6, <2>7 DEF Next
<1> HIDE DEF Kept
<1>2. Spec => [][Kept]_bridge
  BY <1>1, BridgeInvariance, PTL DEF Spec
<1> QED
  BY <1>2 DEF Kept, ContextSurvivesCommit
=============================================================================
