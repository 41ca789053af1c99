------------------------------ MODULE CouponDesk ------------------------------
(***************************************************************************)
(* Where the marketing pages put coupons into circulation: the drawers     *)
(* that set up the stock of an offer and generate codes from it, and the   *)
(* task that distributes coupons to users.  Notices are as in Workspace.   *)
(*                                                                         *)
(* A drawer holds a draft; the picker of its stock asks for the options    *)
(* after a pause, and in the offers' drawer takes the first one by itself, *)
(* through the callback of the render in which the question was put.  The  *)
(* promotion service is external: it answers a request with a known        *)
(* idempotency key by what it did before, refuses more than is available,  *)
(* and an answer may get lost.                                             *)
(***************************************************************************)
EXTENDS Naturals, Sequences, FiniteSets

CONSTANTS
  Offers,        \* coupons
  Stocks,        \* of coupons
  OfferOf,       \* whose stock it is
  NoOffer, NoStock, NoTimer, NoCall,
  MaxQuantity,   \* bound: coupons
  MaxDrafts,     \* bound: drawers opened
  MaxAsked,      \* bound: option requests in flight
  MaxKeys,       \* bound: idempotency keys made
  MaxIssues      \* bound: requests the service carries out

VARIABLES
  available,  \* quantity of each stock, in the service
  issues,     \* auxiliary: what the service carried out
  form,       \* the drawer that is open: of the offers "stock" or "batch"; "codes", "distribution"
  offer,      \* stockOffer, batchOffer
  draft,
  drafts,     \* how many were begun: the number of the draft
  keys,       \* how many uuid() made: the last key
  asked,      \* option requests of pickers in flight
  timer,      \* the picker waits before it asks, with the draft of that render
  options,    \* of the picker
  seen,       \* batchStocks: the quantities seen available
  call,       \* the mutation of the drawer
  typed,      \* auxiliary: the quantity typed in last
  replaced    \* auxiliary: the automatic choice took it back

service == <<available, issues>>
drawer == <<form, offer, draft, drafts, keys>>
picker == <<asked, timer, options, seen>>
vars == <<service, drawer, picker, call, typed, replaced>>

Forms == {"stock", "batch", "codes", "distribution"}
Quantities == 1 .. MaxQuantity
NoDraft == [stock |-> NoStock, quantity |-> 1, key |-> 0]

Init ==
  /\ available = [s \in Stocks |-> MaxQuantity]
  /\ issues = {}
  /\ form = "none"
  /\ offer = NoOffer
  /\ draft = NoDraft
  /\ drafts = 0
  /\ keys = 0
  /\ asked = {}
  /\ timer = NoTimer
  /\ options = {}
  /\ seen = {}
  /\ call = NoCall
  /\ typed = 1
  /\ replaced = FALSE

-----------------------------------------------------------------------------
(* Drawers.                                                                   *)

\* beginStockSetup and beginCodeBatch of an active offer, and the buttons of the other
\* pages; only batches have their key from the start.  A distribution begins with what was
\* left in it, unless its page was left meanwhile.
Begin(f, o) ==
  /\ form = "none"
  /\ drafts < MaxDrafts
  /\ keys < MaxKeys
  /\ form' = f
  /\ offer' = IF f \in {"stock", "batch"} THEN o ELSE NoOffer
  /\ drafts' = drafts + 1
  /\ keys' = IF f \in {"batch", "codes"} THEN keys + 1 ELSE keys
  /\ draft' \in IF f = "distribution" THEN {NoDraft, draft}
                ELSE {[NoDraft EXCEPT !.key = IF f = "stock" THEN 0 ELSE keys']}
  /\ typed' = draft'.quantity
  /\ replaced' = FALSE
  /\ timer' = IF f = "stock" THEN NoTimer ELSE draft'
  /\ options' = {}
  /\ seen' = IF f = "batch" THEN {} ELSE seen
  /\ UNCHANGED <<service, asked, call>>

\* The cleanup of the picker's effect: the timer is cleared, answers are ignored.
Forget == asked' = {[a EXCEPT !.active = FALSE] : a \in asked}

\* The drawer is gone, and the picker in it.
Close ==
  /\ form' = "none"
  /\ offer' = NoOffer
  /\ timer' = NoTimer
  /\ options' = {}
  /\ Forget
  /\ UNCHANGED <<drafts, keys>>

\* onCancel waits for the mutation; it only hides a distribution.
Cancel ==
  /\ form # "none"
  /\ call = NoCall
  /\ Close
  /\ draft' = IF form = "distribution" THEN draft ELSE NoDraft
  /\ typed' = 1
  /\ replaced' = FALSE
  /\ UNCHANGED <<service, seen, call>>

\* A number typed in the drawer; the inputs stay enabled while the mutation is pending.
Type(q) ==
  /\ form # "none"
  /\ draft.quantity # q
  /\ draft' = [draft EXCEPT !.quantity = q]
  /\ typed' = q
  /\ replaced' = FALSE
  /\ UNCHANGED <<service, form, offer, drafts, keys, picker, call>>

-----------------------------------------------------------------------------
(* EntityPicker.                                                              *)

\* The effect runs again because the value or the text is another: the callback of this
\* render is the one an answer will call.
Rerun(d) == timer' = d /\ Forget

\* The pause is over; the offers' drawer asks for stock of its offer.
Ask ==
  /\ timer # NoTimer
  /\ Cardinality(asked) < MaxAsked
  /\ asked' = asked \cup {[offer |-> offer, draft |-> timer, active |-> TRUE]}
  /\ timer' = NoTimer
  /\ UNCHANGED <<service, drawer, options, seen, call, typed, replaced>>

\* The operator searches for other options.
Search ==
  /\ form \in {"batch", "codes", "distribution"}
  /\ timer = NoTimer
  /\ Rerun(draft)
  /\ UNCHANGED <<service, drawer, options, seen, call, typed, replaced>>

\* What a request finds: active stock of any offer, and in the offers' drawer stock of its
\* offer with something left.
Found(a) == {s \in Stocks : a.offer = NoOffer \/ (OfferOf[s] = a.offer /\ available[s] > 0)}

\* loadBatchStockOptions notes what it found even if nobody waits for it any more.
Note(found, o) ==
  seen' = IF o = NoOffer THEN seen
          ELSE {n \in seen : n.stock \notin found}
                 \cup {[stock |-> s, quantity |-> available[s]] : s \in found}

\* onValueChange of the render in which the request was put.
SelectFirst(a, s) ==
  /\ draft' = [a.draft EXCEPT !.stock = s]
  /\ replaced' = (replaced \/ a.draft.quantity # draft.quantity)
  /\ timer' = draft'
  /\ asked' = {[b EXCEPT !.active = FALSE] : b \in asked \ {a}}

\* Mutant: the answer is taken although the effect was cleaned up.
AnswerAnyway(a) ==
  LET found == Found(a) IN
  /\ Note(found, a.offer)
  /\ IF form # "none"
     THEN /\ options' = found
          /\ IF form = "batch" /\ a.draft.stock = NoStock /\ found # {}
             THEN \E s \in found : SelectFirst(a, s)
             ELSE asked' = asked \ {a} /\ UNCHANGED <<draft, replaced, timer>>
     ELSE asked' = asked \ {a} /\ UNCHANGED <<options, draft, replaced, timer>>
  /\ UNCHANGED <<service, form, offer, drafts, keys, call, typed>>

\* The options arrive.  The offers' drawer selects the first if none is selected yet.
Answer(a) ==
  LET found == Found(a) IN
  /\ Note(found, a.offer)
  /\ IF a.active
     THEN /\ options' = found \cup (options \cap {a.draft.stock})
          /\ IF form = "batch" /\ a.draft.stock = NoStock /\ found # {}
             THEN \E s \in found : SelectFirst(a, s)
             ELSE asked' = asked \ {a} /\ UNCHANGED <<draft, replaced, timer>>
     ELSE asked' = asked \ {a} /\ UNCHANGED <<options, draft, replaced, timer>>
  /\ UNCHANGED <<service, form, offer, drafts, keys, call, typed>>

\* The options cannot be read.
NoAnswer(a) ==
  /\ asked' = asked \ {a}
  /\ options' = IF a.active THEN {} ELSE options
  /\ UNCHANGED <<service, drawer, timer, seen, call, typed, replaced>>

\* Mutant: a choice goes through the callback of an earlier render.
ChooseStale(s) ==
  /\ s \in options \ {draft.stock}
  /\ draft' = [NoDraft EXCEPT !.key = draft.key, !.stock = s]
  /\ Rerun(draft')
  /\ UNCHANGED <<service, form, offer, drafts, keys, options, seen, call, typed, replaced>>

\* The operator chooses an option: the callback of the last render.
Choose(s) ==
  /\ s \in options \ {draft.stock}
  /\ draft' = [draft EXCEPT !.stock = s]
  /\ Rerun(draft')
  /\ UNCHANGED <<service, form, offer, drafts, keys, options, seen, call, typed, replaced>>

-----------------------------------------------------------------------------
(* Mutations.                                                                 *)

\* The checks of the forms: a stock is chosen, and in the offers' drawer no more than was
\* seen available of it is asked for.
Complete ==
  /\ form # "stock" => draft.stock # NoStock
  /\ form = "batch" => \A n \in seen : n.stock = draft.stock => draft.quantity <= n.quantity

\* Mutant: every attempt has a key of its own.
KeyOfAttempt == IF form = "stock" THEN 0 ELSE keys + 1

\* A distribution has a new key each time it is submitted, stock has none, and a batch the
\* key of its draft.
KeyToSend == IF form = "distribution" THEN keys + 1 ELSE draft.key

\* submitStock, submitBatch and submit up to the call.
Submit ==
  /\ form # "none"
  /\ call = NoCall
  /\ Complete
  /\ KeyToSend <= MaxKeys
  /\ call' = [form |-> form, offer |-> offer, draft |-> drafts, stock |-> draft.stock,
              quantity |-> draft.quantity, key |-> KeyToSend, made |-> FALSE]
  /\ keys' = IF KeyToSend > keys THEN KeyToSend ELSE keys
  /\ UNCHANGED <<service, form, offer, draft, drafts, picker, typed, replaced>>

Known(k) == k # 0 /\ \E i \in issues : i.form # "stock" /\ i.key = k

\* The service carries the request out, or has done so under this key.
Make ==
  /\ call # NoCall
  /\ ~call.made
  /\ IF Known(call.key)
     THEN UNCHANGED service /\ call' = [call EXCEPT !.made = TRUE]
     ELSE /\ Cardinality(issues) < MaxIssues
          /\ issues' = issues \cup {[form |-> call.form, offer |-> call.offer, draft |-> call.draft,
                                     stock |-> call.stock, key |-> call.key,
                                     number |-> Cardinality(issues)]}
          /\ IF call.form = "stock"
             THEN \E s \in Stocks :
                    /\ OfferOf[s] = call.offer
                    /\ available[s] = 0
                    /\ available' = [available EXCEPT ![s] = call.quantity]
                    /\ call' = [call EXCEPT !.made = TRUE, !.stock = s]
             ELSE /\ available[call.stock] >= call.quantity
                  /\ available' = [available EXCEPT ![call.stock] = @ - call.quantity]
                  /\ call' = [call EXCEPT !.made = TRUE]
  /\ UNCHANGED <<drawer, picker, typed, replaced>>

\* The drawer closes with a notice on the page; stock that was set up is noted as seen.
Accepted ==
  /\ call # NoCall
  /\ call.made
  /\ call' = NoCall
  /\ seen' = IF call.form # "stock" THEN seen
             ELSE {n \in seen : n.stock # call.stock}
                    \cup {[stock |-> call.stock, quantity |-> call.quantity]}
  /\ Close
  /\ draft' = NoDraft
  /\ typed' = 1
  /\ replaced' = FALSE
  /\ UNCHANGED service

\* The drawer stays with a notice, its draft and the key in it.
Failed ==
  /\ call # NoCall
  /\ call' = NoCall
  /\ UNCHANGED <<service, drawer, picker, typed, replaced>>

\* Other operators and users take coupons.
OthersTake(s) ==
  /\ available[s] > 0
  /\ available' = [available EXCEPT ![s] = 0]
  /\ UNCHANGED <<issues, drawer, picker, call, typed, replaced>>

Next ==
  \/ \E o \in Offers, f \in Forms : Begin(f, o)
  \/ \E q \in Quantities : Type(q)
  \/ Cancel \/ Search \/ Ask
  \/ \E a \in asked : Answer(a) \/ NoAnswer(a)
  \/ \E s \in Stocks : Choose(s) \/ OthersTake(s)
  \/ Submit \/ Make \/ Accepted \/ Failed

Spec == Init /\ [][Next]_vars

-----------------------------------------------------------------------------
(* Properties.                                                                *)

Drafts == [stock : Stocks \cup {NoStock}, quantity : Quantities, key : 0 .. MaxKeys]
Requests == [form : Forms, offer : Offers \cup {NoOffer}, draft : 1 .. MaxDrafts,
             stock : Stocks \cup {NoStock}, quantity : Quantities, key : 0 .. MaxKeys, made : BOOLEAN]

\* The type invariant.
TypeOK ==
  /\ available \in [Stocks -> 0 .. MaxQuantity]
  /\ form \in Forms \cup {"none"} /\ offer \in Offers \cup {NoOffer}
  /\ draft \in Drafts /\ drafts \in 0 .. MaxDrafts /\ keys \in 0 .. MaxKeys
  /\ asked \subseteq [offer : Offers \cup {NoOffer}, draft : Drafts, active : BOOLEAN]
  /\ timer = NoTimer \/ timer \in Drafts
  /\ options \subseteq Stocks
  /\ seen \subseteq [stock : Stocks, quantity : Quantities]
  /\ call = NoCall \/ call \in Requests
  /\ typed \in Quantities /\ replaced \in BOOLEAN

\* loadBatchStockOptions and the cleanup of EntityPicker: codes are generated from stock of
\* the offer whose drawer was open, although stock looked for on behalf of an earlier drawer
\* can arrive in a later one.
CodesAreOfTheOffer ==
  \A i \in issues : i.form = "batch" => OfferOf[i.stock] = i.offer

\* emptyCodeBatch, submitBatch: however often a batch is submitted again after a failure or
\* a lost answer, its codes are generated once.
OncePerDraft ==
  \A i, j \in issues : i.draft = j.draft /\ i.form \in {"batch", "codes"} => i = j

\* EntityPicker, CouponBatchDrawer: what was typed stays in the draft; only the automatic
\* choice of a stock, made through the callback of an earlier render, takes it back.
TypedIsKept == form # "none" => draft.quantity = typed \/ replaced
=============================================================================
