---------------------------- MODULE SessionBridge ----------------------------
(***************************************************************************)
(* The IAM session of one operator in the tabs of one browser:             *)
(* iamOperatorSessionBridge over localStorage, and the TokenManager that   *)
(* operatorSession keeps in step with it.                                  *)
(*                                                                         *)
(* A step of a tab is one turn of its event loop.  A change of the         *)
(* localStorage key by one tab queues a storage event in every other tab,  *)
(* and a tab may take any number of steps before it handles the event.     *)
(*                                                                         *)
(* A session is its token pair and its application context; sessionId and  *)
(* user are kept and merged as context is.  A stored text that is not a    *)
(* session with both tokens reads as no session.                           *)
(***************************************************************************)
EXTENDS Naturals

CONSTANTS
  Tabs,       \* the tabs of the browser
  Tokens,     \* token pairs issued by IAM
  Contexts,   \* application contexts issued by IAM
  NoContext,  \* session.context === undefined
  NoSession,  \* null
  NoTokens,   \* a TokenManager without the tokens of a session
  NoManager,  \* globalTokenManager === null
  MaxMail     \* bound: no session is stored while a tab has this many events queued

Session == [tokens: Tokens, context: Contexts \cup {NoContext}]

ASSUME SessionAssumption ==
  /\ NoSession \notin Session
  /\ NoTokens \notin Tokens
  /\ NoManager \notin Tokens \cup {NoTokens}
  /\ NoContext \notin Contexts
  /\ MaxMail \in Nat

VARIABLES
  local,    \* localStorage[MANAGER_IAM_SESSION_FULL_KEY]
  legacy,   \* sessionStorage[MANAGER_IAM_SESSION_FULL_KEY] of each tab
  memory,   \* memorySession
  loaded,   \* storageLoaded
  tokens,   \* globalTokenManager: the token pair it holds
  mail,     \* storage events queued for each tab
  expired,  \* the token pairs whose expiresAt has passed
  unsaved   \* auxiliary: the tab's last write to localStorage failed

bridge == <<local, legacy, memory, loaded, tokens, mail, expired, unsaved>>

Init ==
  /\ local \in Session \cup {NoSession}
  /\ legacy \in [Tabs -> Session \cup {NoSession}]
  /\ memory = [t \in Tabs |-> NoSession]
  /\ loaded = [t \in Tabs |-> FALSE]
  /\ tokens = [t \in Tabs |-> NoManager]
  /\ mail = [t \in Tabs |-> 0]
  /\ expired = {}
  /\ unsaved = [t \in Tabs |-> FALSE]

-----------------------------------------------------------------------------
\* The browser tells the other tabs, with queued events m, of a change of localStorage
\* by t.
Told(t, m) == [u \in Tabs |-> IF u # t /\ local' # local THEN m[u] + 1 ELSE m[u]]

\* syncOperatorTokenManagerFromIamSession: what the TokenManager holds for a session.
TokensOf(s) ==
  IF s # NoSession /\ s.tokens \notin expired THEN s.tokens ELSE NoTokens

\* Mutant: a token-only commit replaces the session as it stands.
MergeNothing(current, next) == next

\* mergeRuntimeSessionCommit: the token-only commit of an IAM refresh does not lose
\* the context of the same tokens.
Merge(current, next) ==
  IF /\ current # NoSession /\ next # NoSession
     /\ current.tokens = next.tokens
     /\ next.context = NoContext
  THEN [next EXCEPT !.context = current.context]
  ELSE next

-----------------------------------------------------------------------------
\* Mutant: the storage is read and storageLoaded is not set.
ReadStorageAgain(t) ==
  /\ memory' = [memory EXCEPT ![t] = IF local # NoSession THEN local ELSE legacy[t]]
  /\ legacy' = [legacy EXCEPT ![t] = NoSession]
  /\ UNCHANGED loaded

\* loadManagerIamSession in a tab that has not loaded: localStorage first, then the
\* legacy copy in sessionStorage, which goes.
ReadStorage(t) ==
  /\ memory' = [memory EXCEPT ![t] = IF local # NoSession THEN local ELSE legacy[t]]
  /\ legacy' = [legacy EXCEPT ![t] = NoSession]
  /\ loaded' = [loaded EXCEPT ![t] = TRUE]

\* What it read from the legacy copy it writes to localStorage; writeStorage swallows
\* a failing setItem.
Migrate(t) ==
  \/ /\ local' = memory'[t]
     /\ unsaved' = [unsaved EXCEPT ![t] = FALSE]
  \/ /\ memory'[t] # local
     /\ UNCHANGED local
     /\ unsaved' = [unsaved EXCEPT ![t] = TRUE]

Load(t) ==
  /\ ~loaded[t]
  /\ ReadStorage(t)
  /\ Migrate(t)
  /\ mail' = Told(t, mail)
  /\ UNCHANGED <<tokens, expired>>

\* getOperatorTokenManager: the IAM runtime or a client is created, with the TokenManager
\* if it is the first.
UseTokenManager(t) ==
  /\ loaded[t]
  /\ tokens' = [tokens EXCEPT ![t] = TokensOf(memory[t])]
  /\ UNCHANGED <<local, legacy, memory, loaded, mail, expired, unsaved>>

\* Mutant: saving a session does not notify the TokenManager.
SyncNothing(t, s) == UNCHANGED tokens

\* The session-changed listeners and the session bridge of the IAM runtime sync the
\* TokenManager with the session just saved.
Sync(t, s) ==
  tokens' = [tokens EXCEPT ![t] = IF tokens[t] = NoManager THEN NoManager ELSE TokensOf(s)]

\* saveManagerIamSession of a session: writeStorage swallows a failing setItem, and
\* a session equal to the one in memory is not written at all.
Save(t, s) ==
  IF s = memory[t]
  THEN UNCHANGED <<local, legacy, memory, mail, unsaved>>
  ELSE /\ memory' = [memory EXCEPT ![t] = s]
       /\ legacy' = [legacy EXCEPT ![t] = NoSession]
       /\ \/ /\ local' = s
             /\ unsaved' = [unsaved EXCEPT ![t] = FALSE]
          \/ /\ s # NoSession
             /\ UNCHANGED local
             /\ unsaved' = [unsaved EXCEPT ![t] = TRUE]
       /\ mail' = Told(t, mail)

\* commitManagerIamSession: the IAM runtime, which has the TokenManager, signed in,
\* refreshed or completed a session.
Commit(t, next) ==
  LET s == Merge(memory[t], next)
  IN  /\ tokens[t] # NoManager
      /\ \A u \in Tabs : mail[u] < MaxMail
      /\ Save(t, s)
      /\ Sync(t, s)
      /\ UNCHANGED <<loaded, expired>>

\* clearManagerIamSession and the reset of the TokenManager, at sign-out or when IAM
\* refuses the session.
Clear(t) ==
  /\ loaded[t]
  /\ Save(t, NoSession)
  /\ Sync(t, NoSession)
  /\ UNCHANGED <<loaded, expired>>

\* Mutant: the storage listener does not drop the session in memory.
KeepSession(t) ==
  /\ mail[t] > 0
  /\ mail' = [mail EXCEPT ![t] = mail[t] - 1]
  /\ UNCHANGED <<local, legacy, memory, loaded, tokens, expired, unsaved>>

\* The storage listener: whatever the event says, the session is read again.
StorageEvent(t) ==
  /\ mail[t] > 0
  /\ ReadStorage(t)
  /\ Migrate(t)
  /\ mail' = Told(t, [mail EXCEPT ![t] = mail[t] - 1])
  /\ Sync(t, memory'[t])
  /\ UNCHANGED expired

\* The page of a tab is loaded again: its module state and its queued events go.
Reload(t) ==
  /\ loaded[t]
  /\ memory' = [memory EXCEPT ![t] = NoSession]
  /\ loaded' = [loaded EXCEPT ![t] = FALSE]
  /\ tokens' = [tokens EXCEPT ![t] = NoManager]
  /\ mail' = [mail EXCEPT ![t] = 0]
  /\ unsaved' = [unsaved EXCEPT ![t] = FALSE]
  /\ UNCHANGED <<local, legacy, expired>>

Expire(k) ==
  /\ k \notin expired
  /\ expired' = expired \cup {k}
  /\ UNCHANGED <<local, legacy, memory, loaded, tokens, mail, unsaved>>

Next ==
  \/ \E t \in Tabs : Load(t) \/ UseTokenManager(t) \/ Clear(t) \/ StorageEvent(t) \/ Reload(t)
  \/ \E t \in Tabs, s \in Session : Commit(t, s)
  \/ \E k \in Tokens : Expire(k)

Spec == Init /\ [][Next]_bridge

\* A queued storage event is delivered, and a tab that is open renders a route.
Fairness == \A t \in Tabs : WF_bridge(StorageEvent(t)) /\ WF_bridge(Load(t))

FairSpec == Spec /\ Fairness

-----------------------------------------------------------------------------
(* Properties.                                                               *)

\* Every variable has its type, and a tab that has not read the storage holds
\* nothing.
TypeOK ==
  /\ local \in Session \cup {NoSession}
  /\ legacy \in [Tabs -> Session \cup {NoSession}]
  /\ memory \in [Tabs -> Session \cup {NoSession}]
  /\ loaded \in [Tabs -> BOOLEAN]
  /\ tokens \in [Tabs -> Tokens \cup {NoTokens, NoManager}]
  /\ mail \in [Tabs -> Nat]
  /\ expired \subseteq Tokens
  /\ unsaved \in [Tabs -> BOOLEAN]
  /\ \A t \in Tabs : ~loaded[t] => memory[t] = NoSession /\ tokens[t] = NoManager

\* The tabs agree: a tab whose session is not the stored one has a storage event to
\* come or could not write its own.  Neither the order in which tabs write and
\* events arrive nor the write that is skipped for an equal session leaves two
\* tabs with different sessions for good.
StaleOnlyWhileMail ==
  \A t \in Tabs :
    loaded[t] /\ mail[t] = 0 /\ ~unsaved[t] => memory[t] = local

\* No request is sent with the tokens of a session the tab has left: whichever way
\* the session changed, the one TokenManager follows it in the same turn.
TokensFollowSession ==
  \A t \in Tabs :
    tokens[t] \in Tokens => memory[t] # NoSession /\ memory[t].tokens = tokens[t]

\* The intermediate token-only commit of IAM takes the context, and with it the
\* permissions, of the current tokens from no tab: within a tab the context of a token
\* pair is lost only by a storage event.
ContextSurvivesCommit ==
  [][\A t \in Tabs :
       /\ memory[t] # NoSession /\ memory'[t] # NoSession
       /\ memory'[t].tokens = memory[t].tokens
       /\ mail'[t] >= mail[t]
       => (memory[t].context # NoContext => memory'[t].context # NoContext)]_bridge

\* Signing out in one tab ends the session of all: every tab drops it, unless a
\* session is stored again.
SignOutReachesEveryTab ==
  \A t \in Tabs :
    local = NoSession /\ ~unsaved[t] ~> memory[t] = NoSession \/ local # NoSession \/ unsaved[t]
=============================================================================
