------------------------------ MODULE RuntimeConfig ------------------------------
(***************************************************************************)
(* The public configuration the sign-in pages wait for: one promise that   *)
(* every caller shares, and the hook that loads it, shows how it stands    *)
(* and can try again.  Requests end in any order; a hook whose effect was  *)
(* cleaned up ignores them.  A request that is answered fails all the same *)
(* when the answers lack what the sign-in pages cannot do without.         *)
(***************************************************************************)
EXTENDS FiniteSets

CONSTANTS
  Requests,   \* bound: requests of the configuration
  NoRequest

VARIABLES
  promise,     \* managerAuthRuntimeConfigPromise
  sent,        \* the requests, and how they stand
  abandoned,   \* auxiliary: the ones a reset let go
  hook         \* useManagerAuthRuntimeConfig: what it waits for and what it shows

vars == <<promise, sent, abandoned, hook>>

-----------------------------------------------------------------------------
Pending == {r \in DOMAIN sent : sent[r] = "pending"}
Unmounted == [status |-> "unmounted", waits |-> NoRequest]

\* loadManagerAuthRuntimeConfig, called by the effect of the hook, which waits for its answer.
Load(p) ==
  \E r \in Requests :
    /\ IF p = NoRequest
       THEN sent[r] = "unsent" /\ sent' = [sent EXCEPT ![r] = "pending"]
       ELSE r = p /\ UNCHANGED sent
    /\ promise' = r
    /\ hook' = [status |-> IF sent'[r] = "resolved" THEN "ready" ELSE "loading", waits |-> r]

Mount ==
  /\ hook = Unmounted
  /\ Load(promise)
  /\ UNCHANGED abandoned

Unmount ==
  /\ hook # Unmounted
  /\ hook' = Unmounted
  /\ UNCHANGED <<promise, sent, abandoned>>

\* resetManagerAuthRuntimeConfig.
Abandon == abandoned' = abandoned \cup ({promise} \ {NoRequest})

\* retry: a reset, and the next attempt of the effect.
Retry ==
  /\ hook.status \in {"loading", "ready", "unavailable"}
  /\ Abandon
  /\ Load(NoRequest)

\* resetManagerIamRuntime lets it go without a retry.
Reset ==
  /\ promise # NoRequest
  /\ Abandon
  /\ promise' = NoRequest
  /\ UNCHANGED <<sent, hook>>

\* Mutant: the effect does not note that it was cleaned up.
ShowsAnyway(r, status) == IF hook # Unmounted THEN [hook EXCEPT !.status = status] ELSE hook

\* An answer, if the effect that waits for it has not been cleaned up.
Shows(r, status) == IF hook.status = "loading" /\ hook.waits = r THEN [hook EXCEPT !.status = status] ELSE hook

Resolves(r) ==
  /\ sent' = [sent EXCEPT ![r] = "resolved"]
  /\ hook' = Shows(r, "ready")
  /\ UNCHANGED <<promise, abandoned>>

\* Mutant: a failure clears whatever promise there is.
FailsBlindly(r) ==
  /\ sent' = [sent EXCEPT ![r] = "rejected"]
  /\ hook' = Shows(r, "unavailable")
  /\ promise' = NoRequest
  /\ UNCHANGED abandoned

\* A failure clears the promise if it is still the one.
Fails(r) ==
  /\ sent' = [sent EXCEPT ![r] = "rejected"]
  /\ hook' = Shows(r, "unavailable")
  /\ promise' = IF promise = r THEN NoRequest ELSE promise
  /\ UNCHANGED abandoned

\* What must be there: in the answer about the runtime and in the one about verification.
OfRuntime == {"auth", "oauthLoginEnabled", "loginMethods"}
OfPolicy == {"emailCodeLoginEnabled", "emailVerificationRequired", "phoneCodeLoginEnabled",
             "phoneVerificationRequired", "registrationEnabled", "qrLoginEnabled"}

\* unwrapSdkData and the readers of required flags and lists throw on what is missing; an
\* answer that is no record carries nothing.
Complete(found) == OfRuntime \cup OfPolicy \subseteq found

\* Both answers are there, and carry what was found in them.
Answered(r, found) == IF Complete(found) THEN Resolves(r) ELSE Fails(r)

Init ==
  /\ promise = NoRequest
  /\ sent = [r \in Requests |-> "unsent"]
  /\ abandoned = {}
  /\ hook = Unmounted

Next ==
  \/ Mount \/ Unmount \/ Retry \/ Reset
  \/ \E r \in Pending :
       \/ \E found \in SUBSET (OfRuntime \cup OfPolicy) : Answered(r, found)
       \/ Fails(r)

Spec == Init /\ [][Next]_vars

-----------------------------------------------------------------------------
(* Properties.                                                                *)

\* The type invariant.
TypeOK ==
  /\ promise \in Requests \cup {NoRequest}
  /\ sent \in [Requests -> {"unsent", "pending", "resolved", "rejected"}]
  /\ abandoned \subseteq Requests
  /\ hook.status \in {"unmounted", "loading", "ready", "unavailable"}
  /\ hook.waits \in Requests \cup {NoRequest}

\* loadManagerAuthRuntimeConfig: a failed promise is not kept for the next caller, and as
\* long as a request is pending that no reset let go, every caller shares it.
PromiseIsShared ==
  /\ promise # NoRequest => sent[promise] \in {"pending", "resolved"}
  /\ \A r \in Pending : r \in abandoned \/ r = promise

\* useManagerAuthRuntimeConfig: after retries, resets and remounts, in whichever order the
\* requests end, the hook shows how the request of its last attempt stands.
HookShowsLastAttempt ==
  hook # Unmounted =>
    hook.status = CASE sent[hook.waits] = "pending" -> "loading"
                    [] sent[hook.waits] = "resolved" -> "ready"
                    [] sent[hook.waits] = "rejected" -> "unavailable"
=============================================================================
