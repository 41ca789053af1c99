---------------------------- MODULE ConsoleStoreProofs ----------------------------
(***************************************************************************)
(* The safety properties of the two parts of Console in which an external  *)
(* service carries out what a page asks for, and answers get lost: the     *)
(* coupons put into circulation and the OAuth accounts, for every value of *)
(* the constants.                                                          *)
(***************************************************************************)
EXTENDS ConsoleDeskProofs

-----------------------------------------------------------------------------
(* Coupons.                                                                   *)

CouponTypes ==
  /\ Coupons!TypeOK
  /\ \A i \in issues : i.form \in Coupons!Forms /\ i.draft \in 1 .. drafts

\* The drawer has a draft of its own; stock is set up without a key, codes never are, and the
\* offers' drawer has stock of its offer only.
DrawerOk ==
  /\ form # "none" => drafts >= 1
  /\ form = "stock" => draft.key = 0
  /\ form \in {"batch", "codes"} => draft.key # 0
  /\ options # {} => form \notin {"none", "stock"}
  /\ form = "batch" =>
       /\ offer \in Offers
       /\ \A s \in options : OfferOf[s] = offer
       /\ draft.stock \in Stocks => OfferOf[draft.stock] = offer

\* Whoever may still change the draft has its key and asks for stock of its offer.
PickerOk ==
  /\ timer # NoTimer => form \notin {"none", "stock"} /\ timer.key = draft.key
  /\ \A a \in asked :
       a.active => form \notin {"none", "stock"} /\ a.offer = offer /\ a.draft.key = draft.key

\* The call is of the drawer, which cannot be left meanwhile.
CallOk ==
  call # NoCall =>
    /\ call.form = form /\ call.offer = offer /\ call.draft = drafts
    /\ form # "distribution" => call.key = draft.key
    /\ call.form # "stock" \/ call.made => call.stock \in Stocks
    /\ call.form = "batch" => OfferOf[call.stock] = call.offer

\* What was carried out for the draft in the drawer was so under the key of the draft.
IssuesOk ==
  \A i \in issues :
    i.draft = drafts /\ form # "none" =>
      i.form = form /\ (form \in {"batch", "codes"} => i.key = draft.key)

CouponInv ==
  /\ CouponTypes /\ DrawerOk /\ PickerOk /\ CallOk /\ IssuesOk
  /\ Coupons!CodesAreOfTheOffer /\ Coupons!OncePerDraft /\ Coupons!TypedIsKept

LEMMA CouponBounds == {MaxQuantity, MaxDrafts, MaxKeys} \subseteq Nat \ {0}
  BY BoundsAssumption

LEMMA CouponInit == Coupons!Init => CouponInv
<1> SUFFICES ASSUME Coupons!Init PROVE CouponInv
  OBVIOUS
<1> USE ConsoleAssumption, CouponBounds
  DEF Coupons!Init, CouponInv, CouponTypes, DrawerOk, PickerOk, CallOk, IssuesOk, Coupons!TypeOK,
      Coupons!CodesAreOfTheOffer, Coupons!OncePerDraft, Coupons!TypedIsKept, Coupons!NoDraft,
      Coupons!Drafts, Coupons!Quantities, Coupons!Forms
<1>1. CouponTypes
  <2>1. draft \in Coupons!Drafts /\ available \in [Stocks -> 0 .. MaxQuantity]
    BY CouponBounds
  <2>2. typed \in Coupons!Quantities /\ drafts \in 0 .. MaxDrafts /\ keys \in 0 .. MaxKeys
    BY CouponBounds
  <2> QED
    BY <2>1, <2>2
<1>2. DrawerOk /\ PickerOk /\ CallOk /\ IssuesOk
  OBVIOUS
<1> QED
  BY <1>1, <1>2

\* A drawer opens with the next draft.
LEMMA BeginStep ==
  ASSUME CouponInv, NEW o \in Offers, NEW f \in Coupons!Forms, Coupons!Begin(f, o)
  PROVE  CouponInv'
<1> USE DEF Coupons!Begin, Coupons!service
<1>1. /\ drafts \in Nat /\ drafts' = drafts + 1 /\ drafts' \in 1 .. MaxDrafts
      /\ keys' \in 0 .. MaxKeys /\ keys' \in {keys, keys + 1} /\ draft' \in Coupons!Drafts
      /\ f = "stock" => draft'.key = 0
      /\ f \in {"batch", "codes"} => draft'.key # 0 /\ draft'.stock = NoStock
  BY ConsoleAssumption, CouponBounds
  DEF CouponInv, CouponTypes, Coupons!TypeOK, Coupons!Drafts, Coupons!NoDraft, Coupons!Quantities
<1>2. CouponTypes'
  <2>1. \A i \in issues : i.form \in Coupons!Forms /\ i.draft \in 1 .. drafts'
    BY <1>1 DEF CouponInv, CouponTypes
  <2>2. draft'.quantity \in Coupons!Quantities
    BY <1>1 DEF Coupons!Drafts
  <2>3. /\ form' \in Coupons!Forms /\ offer' \in Offers \cup {NoOffer} /\ seen' \subseteq seen
        /\ timer' = NoTimer \/ timer' \in Coupons!Drafts
    BY <1>1 DEF CouponInv, CouponTypes, Coupons!TypeOK
  <2>4. drafts' \in 0 .. MaxDrafts
    BY <1>1
  <2>5. Coupons!TypeOK'
    BY <1>1, <2>2, <2>3, <2>4 DEF CouponInv, CouponTypes, Coupons!TypeOK
  <2> QED
    BY <2>1, <2>5 DEF CouponTypes
<1>3. DrawerOk'
  BY <1>1, ConsoleAssumption DEF DrawerOk
<1>4. PickerOk'
  <2>1. \A a \in asked : ~a.active
    BY DEF CouponInv, PickerOk, CouponTypes, Coupons!TypeOK
  <2>3. timer' # NoTimer => f # "stock" /\ timer' = draft'
    OBVIOUS
  <2> QED
    BY <2>1, <2>3 DEF PickerOk, Coupons!Forms
<1>5. CallOk'
  BY DEF CouponInv, CallOk, CouponTypes, Coupons!TypeOK, Coupons!Requests, Coupons!Forms
<1>6. IssuesOk'
  BY <1>1 DEF CouponInv, IssuesOk, CouponTypes
<1>7. Coupons!CodesAreOfTheOffer' /\ Coupons!OncePerDraft' /\ Coupons!TypedIsKept'
  BY DEF CouponInv, Coupons!CodesAreOfTheOffer, Coupons!OncePerDraft, Coupons!TypedIsKept
<1> QED
  BY <1>2, <1>3, <1>4, <1>5, <1>6, <1>7 DEF CouponInv

\* What a drawer does to its draft other than a choice.
LEMMA TypeStep ==
  ASSUME CouponInv, NEW q \in Coupons!Quantities, Coupons!Type(q)
  PROVE  CouponInv'
<1> USE DEF Coupons!Type, Coupons!service, Coupons!picker
<1>1. /\ draft \in Coupons!Drafts /\ draft' = [draft EXCEPT !.quantity = q]
      /\ draft'.stock = draft.stock /\ draft'.key = draft.key /\ draft'.quantity = q
      /\ draft' \in Coupons!Drafts
  BY DEF CouponInv, CouponTypes, Coupons!TypeOK, Coupons!Drafts
<1>2. CouponTypes'
  <2>1. \A i \in issues : i.form \in Coupons!Forms /\ i.draft \in 1 .. drafts
    BY DEF CouponInv, CouponTypes
  <2>2. Coupons!TypeOK'
    BY <1>1 DEF CouponInv, CouponTypes, Coupons!TypeOK
  <2> QED
    BY <2>1, <2>2 DEF CouponTypes
<1>3. DrawerOk' /\ PickerOk'
  BY <1>1 DEF CouponInv, DrawerOk, PickerOk
<1>4. CallOk' /\ IssuesOk'
  BY <1>1 DEF CouponInv, CallOk, IssuesOk
<1>5. Coupons!CodesAreOfTheOffer' /\ Coupons!OncePerDraft' /\ Coupons!TypedIsKept'
  BY <1>1 DEF CouponInv, Coupons!CodesAreOfTheOffer, Coupons!OncePerDraft, Coupons!TypedIsKept
<1> QED
  BY <1>2, <1>3, <1>4, <1>5 DEF CouponInv

\* The drawer goes, and with it who could change the draft.
LEMMA CloseStep ==
  ASSUME CouponInv, Coupons!Close, draft' \in Coupons!Drafts, typed' = 1, replaced' = FALSE,
         seen' \subseteq [stock : Stocks, quantity : Coupons!Quantities], call' = NoCall,
         UNCHANGED <<available, issues>>
  PROVE  CouponInv'
<1> USE DEF Coupons!Close, Coupons!Forget
<1>1. \A a \in asked' : /\ a \in [offer : Offers \cup {NoOffer}, draft : Coupons!Drafts, active : BOOLEAN]
                         /\ ~a.active
  BY DEF CouponInv, CouponTypes, Coupons!TypeOK
<1>2. CouponTypes'
  <2>1. \A i \in issues : i.form \in Coupons!Forms /\ i.draft \in 1 .. drafts
    BY DEF CouponInv, CouponTypes
  <2>2. typed' \in Coupons!Quantities
    BY CouponBounds DEF Coupons!Quantities
  <2>3. Coupons!TypeOK'
    BY <1>1, <2>2 DEF CouponInv, CouponTypes, Coupons!TypeOK
  <2> QED
    BY <2>1, <2>3 DEF CouponTypes
<1>3. DrawerOk' /\ PickerOk'
  BY <1>1 DEF DrawerOk, PickerOk
<1>4. CallOk' /\ IssuesOk'
  BY DEF CallOk, IssuesOk
<1>5. Coupons!CodesAreOfTheOffer' /\ Coupons!OncePerDraft' /\ Coupons!TypedIsKept'
  BY DEF CouponInv, Coupons!CodesAreOfTheOffer, Coupons!OncePerDraft, Coupons!TypedIsKept
<1> QED
  BY <1>2, <1>3, <1>4, <1>5 DEF CouponInv

LEMMA CancelStep ==
  ASSUME CouponInv, Coupons!Cancel
  PROVE  CouponInv'
<1>1. draft' \in Coupons!Drafts
  BY CouponBounds
  DEF Coupons!Cancel, CouponInv, CouponTypes, Coupons!TypeOK, Coupons!Drafts, Coupons!NoDraft, Coupons!Quantities
<1> QED
  BY <1>1, CloseStep DEF Coupons!Cancel, Coupons!service, CouponInv, CouponTypes, Coupons!TypeOK

\* Stock that was set up is noted as seen.
LEMMA AcceptedCall ==
  ASSUME CouponInv, Coupons!Accepted
  PROVE  CouponInv'
<1>1. draft' \in Coupons!Drafts
  BY CouponBounds DEF Coupons!Accepted, Coupons!Drafts, Coupons!NoDraft, Coupons!Quantities
<1>2. seen' \subseteq [stock : Stocks, quantity : Coupons!Quantities]
  <2>1. call \in Coupons!Requests /\ call.stock \in Stocks /\ call.quantity \in Coupons!Quantities
    BY DEF Coupons!Accepted, CouponInv, CouponTypes, Coupons!TypeOK, CallOk, Coupons!Requests
  <2> QED
    BY <2>1 DEF Coupons!Accepted, CouponInv, CouponTypes, Coupons!TypeOK
<1> QED
  BY <1>1, <1>2, CloseStep DEF Coupons!Accepted, Coupons!service

\* A picker that may change the draft gives it stock of the offer and keeps its key.
AskedOk(a) ==
  /\ a \in [offer : Offers \cup {NoOffer}, draft : Coupons!Drafts, active : BOOLEAN]
  /\ a.active => form \notin {"none", "stock"} /\ a.offer = offer /\ a.draft.key = draft.key

OfOffer(stocks) ==
  /\ stocks \subseteq Stocks
  /\ stocks # {} => form \notin {"none", "stock"}
  /\ form = "batch" => \A s \in stocks : OfferOf[s] = offer

LEMMA PickerStep ==
  ASSUME CouponInv,
         UNCHANGED <<available, issues, form, offer, drafts, keys, call, typed>>,
         draft' \in Coupons!Drafts, draft'.key = draft.key,
         draft'.stock = draft.stock \/ OfOffer({draft'.stock}),
         OfOffer(options'),
         seen' \subseteq [stock : Stocks, quantity : Coupons!Quantities],
         timer' # NoTimer => timer' \in Coupons!Drafts /\ form \notin {"none", "stock"} /\ timer'.key = draft.key,
         \A a \in asked' : AskedOk(a),
         replaced' \in BOOLEAN, Coupons!TypedIsKept'
  PROVE  CouponInv'
<1>1. CouponTypes'
  <2>1. \A i \in issues : i.form \in Coupons!Forms /\ i.draft \in 1 .. drafts
    BY DEF CouponInv, CouponTypes
  <2>2. Coupons!TypeOK'
    BY DEF CouponInv, CouponTypes, Coupons!TypeOK, AskedOk, OfOffer
  <2> QED
    BY <2>1, <2>2 DEF CouponTypes
<1>2. DrawerOk'
  BY DEF CouponInv, DrawerOk, OfOffer
<1>3. PickerOk'
  BY DEF PickerOk, AskedOk
<1>4. CallOk' /\ IssuesOk'
  BY DEF CouponInv, CallOk, IssuesOk
<1>5. Coupons!CodesAreOfTheOffer' /\ Coupons!OncePerDraft'
  BY DEF CouponInv, Coupons!CodesAreOfTheOffer, Coupons!OncePerDraft
<1> QED
  BY <1>1, <1>2, <1>3, <1>4, <1>5 DEF CouponInv

\* What PickerStep asks for, where nothing of it changes.
LEMMA PickerKept ==
  ASSUME CouponInv
  PROVE  /\ draft \in Coupons!Drafts /\ OfOffer(options) /\ Coupons!TypedIsKept
         /\ seen \subseteq [stock : Stocks, quantity : Coupons!Quantities]
         /\ timer # NoTimer => timer \in Coupons!Drafts /\ form \notin {"none", "stock"} /\ timer.key = draft.key
         /\ \A a \in asked : AskedOk(a) /\ AskedOk([a EXCEPT !.active = FALSE])
         /\ replaced \in BOOLEAN /\ offer \in Offers \cup {NoOffer}
         /\ (form = "batch" => offer # NoOffer) /\ available \in [Stocks -> 0 .. MaxQuantity]
<1>1. \A a \in asked : AskedOk(a) /\ AskedOk([a EXCEPT !.active = FALSE])
  <2> SUFFICES ASSUME NEW a \in asked PROVE AskedOk(a) /\ AskedOk([a EXCEPT !.active = FALSE])
    OBVIOUS
  <2>1. a \in [offer : Offers \cup {NoOffer}, draft : Coupons!Drafts, active : BOOLEAN]
    BY DEF CouponInv, CouponTypes, Coupons!TypeOK
  <2> QED
    BY <2>1 DEF AskedOk, CouponInv, PickerOk
<1>2. OfOffer(options)
  BY DEF CouponInv, CouponTypes, Coupons!TypeOK, DrawerOk, OfOffer
<1>3. timer # NoTimer => timer \in Coupons!Drafts /\ form \notin {"none", "stock"} /\ timer.key = draft.key
  BY DEF CouponInv, CouponTypes, Coupons!TypeOK, PickerOk
<1>4. form = "batch" => offer # NoOffer
  BY ConsoleAssumption DEF CouponInv, DrawerOk
<1>5. replaced \in BOOLEAN
  BY DEF CouponInv, CouponTypes, Coupons!TypeOK
<1> QED
  BY <1>1, <1>2, <1>3, <1>4, <1>5 DEF CouponInv, CouponTypes, Coupons!TypeOK

\* The pause of a picker is over, or begins anew.
LEMMA AskStep ==
  ASSUME CouponInv, Coupons!Ask \/ Coupons!Search
  PROVE  CouponInv'
<1>1. /\ UNCHANGED <<available, issues, form, offer, drafts, keys, call, typed, draft, options, seen, replaced>>
      /\ Coupons!TypedIsKept'
  BY PickerKept
  DEF Coupons!Ask, Coupons!Search, Coupons!Rerun, Coupons!service, Coupons!drawer, Coupons!TypedIsKept
<1>2. CASE Coupons!Ask
  <2>1. /\ timer # NoTimer /\ timer' = NoTimer
        /\ asked' = asked \cup {[offer |-> offer, draft |-> timer, active |-> TRUE]}
    BY <1>2 DEF Coupons!Ask
  <2>2. AskedOk([offer |-> offer, draft |-> timer, active |-> TRUE])
    BY <2>1, PickerKept DEF AskedOk
  <2>3. \A a \in asked' : AskedOk(a)
    BY <2>1, <2>2, PickerKept
  <2> QED
    BY <1>1, <2>1, <2>3, PickerKept, PickerStep
<1>3. CASE Coupons!Search
  <2>1. timer' = draft /\ form \notin {"none", "stock"}
    BY <1>3 DEF Coupons!Search, Coupons!Rerun
  <2>2. \A a \in asked' : AskedOk(a)
    BY <1>3, PickerKept DEF Coupons!Search, Coupons!Rerun, Coupons!Forget
  <2> QED
    BY <1>1, <2>1, <2>2, PickerKept, PickerStep
<1> QED
  BY <1>2, <1>3

\* The operator chooses an option.
LEMMA ChooseStep ==
  ASSUME CouponInv, NEW s \in Stocks, Coupons!Choose(s)
  PROVE  CouponInv'
<1> USE DEF Coupons!Choose, Coupons!Rerun, Coupons!Forget, Coupons!service
<1>1. /\ UNCHANGED <<available, issues, form, offer, drafts, keys, call, typed, options, seen, replaced>>
      /\ timer' = draft'
  OBVIOUS
<1>2. /\ draft' = [draft EXCEPT !.stock = s] /\ draft'.stock = s /\ draft'.key = draft.key
      /\ draft'.quantity = draft.quantity /\ draft' \in Coupons!Drafts
  BY PickerKept DEF Coupons!Drafts
<1>3. OfOffer({draft'.stock})
  BY <1>2, PickerKept DEF OfOffer
<1>4. form \notin {"none", "stock"}
  BY PickerKept DEF OfOffer
<1>5. \A a \in asked' : AskedOk(a)
  BY PickerKept
<1>6. Coupons!TypedIsKept'
  BY <1>1, <1>2, PickerKept DEF Coupons!TypedIsKept
<1> QED
  BY <1>1, <1>2, <1>3, <1>4, <1>5, <1>6, PickerKept, PickerStep

\* An answer, or none, is noted; the first of the options may be chosen by itself.
LEMMA AnswerCouponStep ==
  ASSUME CouponInv, NEW a \in asked, Coupons!Answer(a)
  PROVE  CouponInv'
<1> DEFINE found == Coupons!Found(a)
<1>1. UNCHANGED <<available, issues, form, offer, drafts, keys, call, typed>>
  BY DEF Coupons!Answer, Coupons!service
<1>2. AskedOk(a) /\ (a.active => OfOffer(found)) /\ found \subseteq Stocks
  <2>1. AskedOk(a) /\ found \subseteq Stocks
    BY PickerKept DEF Coupons!Found
  <2>2. ASSUME a.active, form = "batch", NEW s \in found
        PROVE  OfferOf[s] = offer
    BY <2>1, <2>2, PickerKept DEF AskedOk, Coupons!Found
  <2> HIDE DEF found
  <2> QED
    BY <2>1, <2>2 DEF AskedOk, OfOffer
<1>3. seen' \subseteq [stock : Stocks, quantity : Coupons!Quantities]
  <2>1. Coupons!Note(found, a.offer)
    BY DEF Coupons!Answer
  <2>2. a.offer # NoOffer => \A s \in found : s \in Stocks /\ available[s] \in Coupons!Quantities
    BY PickerKept, CouponBounds DEF Coupons!Found, Coupons!Quantities
  <2> HIDE DEF found
  <2> QED
    BY <2>1, <2>2, PickerKept DEF Coupons!Note
<1>4. OfOffer(options')
  BY <1>2, PickerKept DEF Coupons!Answer, OfOffer
<1>5. CASE asked' = asked \ {a} /\ UNCHANGED <<draft, replaced, timer>>
  <2>1. Coupons!TypedIsKept'
    BY <1>1, <1>5, PickerKept DEF Coupons!TypedIsKept
  <2>2. \A b \in asked' : AskedOk(b)
    BY <1>5, PickerKept
  <2> QED
    BY <1>1, <1>3, <1>4, <1>5, <2>1, <2>2, PickerKept, PickerStep
<1>6. ASSUME a.active, form = "batch", NEW s \in found, Coupons!SelectFirst(a, s)
      PROVE  CouponInv'
  <2>1. /\ draft' = [a.draft EXCEPT !.stock = s] /\ timer' = draft'
        /\ replaced' = (replaced \/ a.draft.quantity # draft.quantity)
        /\ asked' = {[b EXCEPT !.active = FALSE] : b \in asked \ {a}}
    BY <1>6 DEF Coupons!SelectFirst
  <2>2. /\ draft'.stock = s /\ draft'.key = draft.key /\ draft' \in Coupons!Drafts
        /\ draft'.quantity = a.draft.quantity
    BY <1>2, <1>6, <2>1 DEF AskedOk, Coupons!Drafts
  <2>3. OfOffer({draft'.stock})
    BY <1>2, <1>6, <2>2 DEF OfOffer
  <2>4. \A b \in asked' : AskedOk(b)
    BY <2>1, PickerKept
  <2>5. Coupons!TypedIsKept' /\ replaced' \in BOOLEAN
    BY <1>1, <1>6, <2>1, <2>2, PickerKept DEF Coupons!TypedIsKept
  <2> QED
    BY <1>1, <1>3, <1>4, <1>6, <2>1, <2>2, <2>3, <2>4, <2>5, PickerStep
<1> HIDE DEF found
<1>7. \/ asked' = asked \ {a} /\ UNCHANGED <<draft, replaced, timer>>
      \/ a.active /\ form = "batch" /\ \E s \in found : Coupons!SelectFirst(a, s)
  BY DEF Coupons!Answer, found
<1> QED
  BY <1>5, <1>6, <1>7

LEMMA NoAnswerStep ==
  ASSUME CouponInv, NEW a \in asked, Coupons!NoAnswer(a)
  PROVE  CouponInv'
<1> USE DEF Coupons!NoAnswer, Coupons!service, Coupons!drawer
<1>1. UNCHANGED <<available, issues, form, offer, draft, drafts, keys, call, typed, timer, seen, replaced>>
  OBVIOUS
<1>2. OfOffer(options')
  BY PickerKept DEF OfOffer
<1>3. Coupons!TypedIsKept'
  BY <1>1, PickerKept DEF Coupons!TypedIsKept
<1>4. \A b \in asked' : AskedOk(b)
  BY PickerKept
<1> QED
  BY <1>1, <1>2, <1>3, <1>4, PickerKept, PickerStep

\* A mutation is called with what is in the drawer.
LEMMA SubmitStep ==
  ASSUME CouponInv, Coupons!Submit
  PROVE  CouponInv'
<1> USE DEF Coupons!Submit, Coupons!service, Coupons!picker
<1>1. /\ UNCHANGED <<available, issues, form, offer, draft, drafts, asked, timer, options, seen, typed, replaced>>
      /\ form \in Coupons!Forms
      /\ call' = [form |-> form, offer |-> offer, draft |-> drafts, stock |-> draft.stock,
                  quantity |-> draft.quantity, key |-> Coupons!KeyToSend, made |-> FALSE]
  BY DEF CouponInv, CouponTypes, Coupons!TypeOK
<1>2. /\ draft \in Coupons!Drafts /\ keys \in 0 .. MaxKeys
      /\ drafts \in 1 .. MaxDrafts /\ offer \in Offers \cup {NoOffer}
  BY CouponBounds DEF CouponInv, CouponTypes, DrawerOk, Coupons!TypeOK
<1>3. Coupons!KeyToSend \in 0 .. MaxKeys
  BY <1>2, CouponBounds DEF Coupons!KeyToSend, Coupons!Drafts
<1>4. CouponTypes'
  <2>1. call' \in Coupons!Requests
    BY <1>1, <1>2, <1>3 DEF Coupons!Requests, Coupons!Drafts
  <2>2. keys' \in 0 .. MaxKeys
    BY <1>2, <1>3
  <2>3. \A i \in issues : i.form \in Coupons!Forms /\ i.draft \in 1 .. drafts
    BY DEF CouponInv, CouponTypes
  <2>4. Coupons!TypeOK'
    BY <1>1, <2>1, <2>2 DEF CouponInv, CouponTypes, Coupons!TypeOK
  <2> QED
    BY <1>1, <2>3, <2>4 DEF CouponTypes
<1>5. CallOk'
  <2>1. form # "stock" => draft.stock \in Stocks
    BY <1>2 DEF Coupons!Complete, Coupons!Drafts
  <2>2. form # "distribution" => Coupons!KeyToSend = draft.key
    BY DEF Coupons!KeyToSend
  <2> QED
    BY <1>1, <2>1, <2>2 DEF CouponInv, CallOk, DrawerOk
<1>6. DrawerOk' /\ PickerOk' /\ IssuesOk'
  BY <1>1 DEF CouponInv, DrawerOk, PickerOk, IssuesOk
<1>7. Coupons!CodesAreOfTheOffer' /\ Coupons!OncePerDraft' /\ Coupons!TypedIsKept'
  BY <1>1 DEF CouponInv, Coupons!CodesAreOfTheOffer, Coupons!OncePerDraft, Coupons!TypedIsKept
<1> QED
  BY <1>4, <1>5, <1>6, <1>7 DEF CouponInv

\* Only the service changes, and the call under way is over, or carried out if it was not new.
LEMMA ServiceStep ==
  ASSUME CouponInv, UNCHANGED <<issues, form, offer, draft, drafts, keys, asked, timer, options, seen,
                                typed, replaced>>,
         available' \in [Stocks -> 0 .. MaxQuantity],
         \/ call' \in {call, NoCall}
         \/ /\ call # NoCall /\ call.form # "stock"
            /\ call' = [call EXCEPT !.made = TRUE]
  PROVE  CouponInv'
<1>1. \/ call' \in {call, NoCall}
      \/ /\ call # NoCall /\ call \in Coupons!Requests /\ call' \in Coupons!Requests /\ call.form # "stock"
         /\ call'.form = call.form /\ call'.offer = call.offer /\ call'.draft = call.draft
         /\ call'.key = call.key /\ call'.stock = call.stock
  BY DEF CouponInv, CouponTypes, Coupons!TypeOK, Coupons!Requests
<1>2. CouponTypes'
  <2>1. \A i \in issues : i.form \in Coupons!Forms /\ i.draft \in 1 .. drafts
    BY DEF CouponInv, CouponTypes
  <2>2. Coupons!TypeOK'
    BY <1>1 DEF CouponInv, CouponTypes, Coupons!TypeOK
  <2> QED
    BY <2>1, <2>2 DEF CouponTypes
<1>3. CallOk'
  BY <1>1 DEF CouponInv, CallOk
<1>4. DrawerOk' /\ PickerOk' /\ IssuesOk'
  BY DEF CouponInv, DrawerOk, PickerOk, IssuesOk
<1>5. Coupons!CodesAreOfTheOffer' /\ Coupons!OncePerDraft' /\ Coupons!TypedIsKept'
  BY DEF CouponInv, Coupons!CodesAreOfTheOffer, Coupons!OncePerDraft, Coupons!TypedIsKept
<1> QED
  BY <1>2, <1>3, <1>4, <1>5 DEF CouponInv

LEMMA LastOfItself == ASSUME NEW m \in Nat, NEW d \in 1 .. m PROVE d \in 1 .. d
  OBVIOUS

\* The service carries out a call it does not know the key of: had it done so for this draft
\* before, it would know the key.
LEMMA IssueStep ==
  ASSUME CouponInv, UNCHANGED <<form, offer, draft, drafts, keys, asked, timer, options, seen,
                                typed, replaced>>,
         available' \in [Stocks -> 0 .. MaxQuantity],
         call # NoCall, ~Coupons!Known(call.key), NEW n,
         issues' = issues \cup {[form |-> call.form, offer |-> call.offer, draft |-> call.draft,
                                 stock |-> call.stock, key |-> call.key, number |-> n]},
         \/ call' = [call EXCEPT !.made = TRUE] /\ call.form # "stock"
         \/ \E s \in Stocks : call' = [call EXCEPT !.made = TRUE, !.stock = s] /\ call.form = "stock"
  PROVE  CouponInv'
<1> DEFINE issue == [form |-> call.form, offer |-> call.offer, draft |-> call.draft,
                     stock |-> call.stock, key |-> call.key, number |-> n]
<1>1. /\ call \in Coupons!Requests /\ call.form = form /\ call.offer = offer /\ call.draft = drafts
      /\ form # "distribution" => call.key = draft.key
      /\ form \in Coupons!Forms /\ drafts \in 1 .. MaxDrafts
      /\ call.form = "batch" => OfferOf[call.stock] = call.offer
  BY DEF CouponInv, CallOk, CouponTypes, Coupons!TypeOK, Coupons!Requests
<1>2. /\ call' \in Coupons!Requests
      /\ call'.form = call.form /\ call'.offer = call.offer /\ call'.draft = call.draft /\ call'.key = call.key /\ call'.stock \in Stocks
      /\ call.form # "stock" => call'.stock = call.stock
  BY <1>1 DEF CouponInv, CallOk, Coupons!Requests
<1>3. /\ issue.form = form /\ issue.offer = offer /\ issue.draft = drafts /\ issue.key = call.key
      /\ issue.stock = call.stock /\ issues' = issues \cup {issue}
  BY <1>1
<1> HIDE DEF issue
<1>4. CouponTypes'
  <2>1. \A i \in issues' : i.form \in Coupons!Forms /\ i.draft \in 1 .. drafts'
    <3>1. drafts \in 1 .. drafts
      <4>1. MaxDrafts \in Nat
        BY CouponBounds
      <4>2. drafts \in 1 .. MaxDrafts
        BY <1>1
      <4> QED
        BY <4>1, <4>2, LastOfItself, Zenon
    <3>2. issue.form \in Coupons!Forms /\ issue.draft \in 1 .. drafts
      BY <1>1, <1>3, <3>1
    <3>3. \A i \in issues : i.form \in Coupons!Forms /\ i.draft \in 1 .. drafts
      BY DEF CouponInv, CouponTypes
    <3> QED
      BY <1>3, <3>2, <3>3
  <2>2. Coupons!TypeOK'
    BY <1>2 DEF CouponInv, CouponTypes, Coupons!TypeOK
  <2> QED
    BY <2>1, <2>2 DEF CouponTypes
<1>5. CallOk'
  BY <1>1, <1>2 DEF CallOk
<1>6. DrawerOk' /\ PickerOk'
  BY DEF CouponInv, DrawerOk, PickerOk
<1>7. IssuesOk'
  BY <1>1, <1>3 DEF CouponInv, IssuesOk
<1>8. Coupons!CodesAreOfTheOffer'
  BY <1>1, <1>3 DEF CouponInv, Coupons!CodesAreOfTheOffer
<1>9. Coupons!OncePerDraft'
  <2>1. ASSUME NEW i \in issues, i.draft = drafts
        PROVE  i.form = form /\ form \notin {"batch", "codes"}
    <3>1. i.form = form /\ (form \in {"batch", "codes"} => i.key = draft.key)
      BY <1>1, <2>1 DEF CouponInv, IssuesOk, Coupons!Forms
    <3>2. form \in {"batch", "codes"} => draft.key # 0 /\ call.key = draft.key
      BY <1>1 DEF CouponInv, DrawerOk
    <3> QED
      BY <3>1, <3>2 DEF Coupons!Known
  <2> QED
    BY <1>3, <2>1 DEF CouponInv, Coupons!OncePerDraft
<1>10. Coupons!TypedIsKept'
  BY DEF CouponInv, Coupons!TypedIsKept
<1> QED
  BY <1>4, <1>5, <1>6, <1>7, <1>8, <1>9, <1>10 DEF CouponInv

LEMMA MakeStep ==
  ASSUME CouponInv, Coupons!Make
  PROVE  CouponInv'
<1>1. /\ UNCHANGED <<form, offer, draft, drafts, keys, asked, timer, options, seen, typed, replaced>>
      /\ call # NoCall
  BY DEF Coupons!Make, Coupons!drawer, Coupons!picker
<1>2. /\ call \in Coupons!Requests /\ call.key \in 0 .. MaxKeys /\ call.quantity \in Coupons!Quantities
      /\ available \in [Stocks -> 0 .. MaxQuantity]
      /\ call.form # "stock" => call.stock \in Stocks
      /\ call.form = "stock" => call.key = 0
  BY <1>1 DEF CouponInv, CouponTypes, Coupons!TypeOK, Coupons!Requests, CallOk, DrawerOk
<1>3. CASE Coupons!Known(call.key)
  <2>1. UNCHANGED <<available, issues>> /\ call' = [call EXCEPT !.made = TRUE] /\ call.form # "stock"
    BY <1>2, <1>3 DEF Coupons!Make, Coupons!service, Coupons!Known
  <2> QED
    BY <1>1, <1>2, <2>1, ServiceStep
<1>4. CASE ~Coupons!Known(call.key)
  <2>1. PICK n : issues' = issues \cup {[form |-> call.form, offer |-> call.offer, draft |-> call.draft,
                                         stock |-> call.stock, key |-> call.key, number |-> n]}
    BY <1>4 DEF Coupons!Make
  <2>2. CASE call.form = "stock"
    <3>1. PICK s \in Stocks : /\ available' = [available EXCEPT ![s] = call.quantity]
                              /\ call' = [call EXCEPT !.made = TRUE, !.stock = s]
      BY <1>4, <2>2 DEF Coupons!Make
    <3>2. available' \in [Stocks -> 0 .. MaxQuantity]
      BY <1>2, <3>1, CouponBounds DEF Coupons!Quantities
    <3>3. \E x \in Stocks : call' = [call EXCEPT !.made = TRUE, !.stock = x] /\ call.form = "stock"
      BY <2>2, <3>1
    <3> QED
      BY <1>1, <1>4, <2>1, <3>2, <3>3, IssueStep
  <2>3. CASE call.form # "stock"
    <3>1. /\ available[call.stock] >= call.quantity
          /\ available' = [available EXCEPT ![call.stock] = @ - call.quantity]
          /\ call' = [call EXCEPT !.made = TRUE]
      BY <1>4, <2>3 DEF Coupons!Make
    <3>2. available' \in [Stocks -> 0 .. MaxQuantity]
      BY <1>2, <2>3, <3>1, CouponBounds DEF Coupons!Quantities
    <3> QED
      BY <1>1, <1>4, <2>1, <2>3, <3>1, <3>2, IssueStep
  <2> QED
    BY <2>2, <2>3
<1> QED
  BY <1>3, <1>4

LEMMA CouponStep == CouponInv /\ [Coupons!Next]_couponsVars => CouponInv'
<1> SUFFICES ASSUME CouponInv, [Coupons!Next]_couponsVars PROVE CouponInv'
  OBVIOUS
<1>1. available \in [Stocks -> 0 .. MaxQuantity]
  BY DEF CouponInv, CouponTypes, Coupons!TypeOK
<1>2. CASE Coupons!Failed
  BY <1>1, <1>2, ServiceStep DEF Coupons!Failed, Coupons!service, Coupons!drawer, Coupons!picker
<1>3. ASSUME NEW s \in Stocks, Coupons!OthersTake(s) PROVE CouponInv'
  <2>1. available' \in [Stocks -> 0 .. MaxQuantity]
    BY <1>1, <1>3, CouponBounds DEF Coupons!OthersTake
  <2> QED
    BY <1>3, <2>1, ServiceStep DEF Coupons!OthersTake, Coupons!drawer, Coupons!picker
<1>4. CASE UNCHANGED couponsVars
  BY <1>1, <1>4, ServiceStep DEF couponsVars
<1> QED
  BY <1>2, <1>3, <1>4, BeginStep, TypeStep, CancelStep, AskStep, AnswerCouponStep, NoAnswerStep, ChooseStep,
     SubmitStep, MakeStep, AcceptedCall
  DEF Coupons!Next

LEMMA CouponInvariance == Spec => []CouponInv
<1>1. Init => CouponInv
  BY CouponInit DEF Init
<1>2. CouponInv /\ [Next]_vars => CouponInv'
  BY EachByItself, CouponStep
<1> QED
  BY <1>1, <1>2, PTL DEF Spec

\* loadBatchStockOptions, EntityPicker, submitBatch: whatever drawers opened and closed while
\* options were asked for, codes are generated from stock of the offer they are for.
THEOREM OfTheOffer == Spec => []CodesAreOfTheOffer
<1>1. CouponInv => CodesAreOfTheOffer
  BY DEF CouponInv, CodesAreOfTheOffer
<1> QED
  BY <1>1, CouponInvariance, PTL

\* emptyCodeBatch, submitBatch: however often a batch is submitted, its codes are generated
\* once.
THEOREM Once == Spec => []OncePerDraft
<1>1. CouponInv => OncePerDraft
  BY DEF CouponInv, OncePerDraft
<1> QED
  BY <1>1, CouponInvariance, PTL

\* CouponBatchDrawer: only the automatic choice takes back what was typed.
THEOREM Typed == Spec => []TypedIsKept
<1>1. CouponInv => TypedIsKept
  BY DEF CouponInv, TypedIsKept
<1> QED
  BY <1>1, CouponInvariance, PTL

-----------------------------------------------------------------------------
(* OAuth accounts.                                                            *)

OauthTypes ==
  /\ Oauth!TypeOK
  /\ jobs \in [Jobs -> Oauth!JobRecords \cup {NoAccountJob}]
  /\ state \in Oauth!States /\ view \in Oauth!States
  /\ overlapped \in BOOLEAN /\ foreign \in BOOLEAN

\* The accounts that are or were there: no creation is given one of their ids.
Born == {x \in Accounts : x \in gone \/ \E r \in Oauth!Resources : stored[x][r] # "none"}

AllBorn ==
  /\ \A row \in state.accounts \cup view.accounts : row.account \in Born
  /\ \A j \in Oauth!Active :
       /\ jobs[j].account # NoAccount => jobs[j].account \in Born
       /\ \A x \in Accounts : jobs[j].read["integration"][x] # "none" => x \in Born

\* What a call of its kind does, and for which account.
KindOk(j) ==
  /\ jobs[j].kind = "load" => jobs[j].step = "load" /\ jobs[j].account = NoAccount
  /\ jobs[j].kind \in {"update", "toggle"} => jobs[j].step # "undo" /\ jobs[j].account # NoAccount
  /\ jobs[j].step = "load" \/ jobs[j].kind = "toggle" => jobs[j].todo \subseteq Oauth!Resources

Creates(j, x) == j \in Oauth!Active /\ jobs[j].kind = "create" /\ jobs[j].step # "load" /\ jobs[j].account = x

\* A creation goes from the integration to the client, has its account to itself, and knows
\* what it made unless an answer got lost.
CreateOk(j) ==
  jobs[j].kind = "create" /\ jobs[j].step # "load" =>
    /\ jobs[j].step = "write" =>
         /\ "integration" \in jobs[j].todo <=> jobs[j].account = NoAccount
         /\ "integration" \in jobs[j].todo => "client" \in jobs[j].todo
    /\ jobs[j].step = "undo" => "integration" \in jobs[j].todo /\ jobs[j].todo \subseteq {"integration", "client"}
    /\ jobs[j].account # NoAccount =>
         /\ jobs[j].account \in gone \/ stored[jobs[j].account]["integration"] # "none"
         /\ \A i \in Oauth!Active : Creates(i, jobs[j].account) => i = j
         /\ (jobs[j].step = "write" <=> "client" \in jobs[j].todo) /\ (jobs[j].step = "undo" => jobs[j].clean) =>
              stored[jobs[j].account]["client"] = "none"

Together(x, flag) == \A r \in Oauth!Resources : stored[x][r] \in {"none", flag}
NoStrays(x) == \A s \in strays : s.account # x

\* A change of an account that began alone is alone, and what it has still to do is all that
\* may disagree.
AloneOk(j) ==
  jobs[j].kind \in {"update", "toggle"} /\ jobs[j].step = "write" /\ jobs[j].clean =>
    /\ Oauth!On(jobs[j].account) = {j}
    /\ NoStrays(jobs[j].account)
    /\ \A r \in Oauth!Resources \ jobs[j].todo :
         stored[jobs[j].account][r] \in {"none", Oauth!Flag(jobs[j].enabled)}

\* An account that is not spoiled is changed by one call at a time, which is not undone.
SettledOk(x) ==
  /\ NoStrays(x)
  /\ \A j \in Oauth!On(x) :
       /\ jobs[j].step # "undo"
       /\ jobs[j].step = "write" =>
            IF jobs[j].kind = "create"
            THEN Oauth!On(x) = {j} /\ Together(x, Oauth!Flag(jobs[j].enabled))
            ELSE jobs[j].clean
  /\ (\A j \in Oauth!On(x) : jobs[j].step = "load") => \E flag \in Oauth!Flags : Together(x, flag)

\* What lists read at once would show.
Listed == Oauth!ToAccounts([r \in Oauth!Resources |-> Oauth!Column(r)])

\* The page has the state of the controller when nothing is under way; lists read with
\* nothing else going on are what is stored.
ShownOk ==
  /\ Oauth!Active = {} => view = state /\ state.status \in {"ready", "error"}
  /\ ~overlapped => \A i, j \in Oauth!Active : i = j
  /\ ~overlapped /\ ~foreign =>
       /\ \A j \in Oauth!Active : jobs[j].step = "load" =>
            \A r \in Oauth!Resources \ jobs[j].todo : jobs[j].read[r] = Oauth!Column(r)
       /\ Oauth!Active = {} /\ state.status = "ready" =>
            state.accounts = Listed

OauthInv ==
  /\ OauthTypes /\ AllBorn
  /\ \A j \in Oauth!Active : KindOk(j) /\ CreateOk(j) /\ AloneOk(j)
  /\ \A x \in Accounts \ spoiled : SettledOk(x)
  /\ Oauth!NothingLeft
  /\ ShownOk

LEMMA OauthProperties == OauthInv => Oauth!NothingLeft /\ Oauth!EnabledTogether /\ Oauth!ShownIsStored
<1> SUFFICES ASSUME OauthInv PROVE Oauth!NothingLeft /\ Oauth!EnabledTogether /\ Oauth!ShownIsStored
  OBVIOUS
<1>1. Oauth!EnabledTogether
  <2> SUFFICES ASSUME NEW x \in Accounts \ spoiled, Oauth!On(x) = {}
               PROVE  \E flag \in Oauth!Flags : {stored[x][r] : r \in Oauth!Resources} \subseteq {"none", flag}
    BY DEF Oauth!EnabledTogether
  <2>1. PICK flag \in Oauth!Flags : Together(x, flag)
    BY DEF OauthInv, SettledOk
  <2> QED
    BY <2>1 DEF Together
<1>2. Oauth!ShownIsStored
  BY DEF OauthInv, ShownOk, Oauth!ShownIsStored, Listed
<1> QED
  BY <1>1, <1>2 DEF OauthInv

LEMMA OauthInit == Oauth!Init => OauthInv
<1> SUFFICES ASSUME Oauth!Init PROVE OauthInv
  OBVIOUS
<1>1. PICK seeded \in SUBSET Accounts :
        stored = [x \in Accounts |-> [r \in Oauth!Resources |-> IF x \in seeded THEN "on" ELSE "none"]]
  BY DEF Oauth!Init
<1>2. PICK j \in Jobs : jobs = [i \in Jobs |-> IF i = j THEN Oauth!LoadJob ELSE NoAccountJob]
  BY DEF Oauth!Init
<1>3. /\ Oauth!LoadJob \in Oauth!JobRecords /\ Oauth!LoadJob.kind = "load" /\ Oauth!LoadJob.step = "load"
      /\ Oauth!LoadJob.account = NoAccount /\ Oauth!LoadJob.todo = Oauth!Resources
      /\ \A x \in Accounts : Oauth!LoadJob.read["integration"][x] = "none"
      /\ Oauth!Resources # {}
  BY DEF Oauth!LoadJob, Oauth!Job, Oauth!NewRow, Oauth!Nothing, Oauth!JobRecords, Oauth!Resources, Oauth!Flags
<1>4. /\ Oauth!Active = {j} /\ jobs[j] = Oauth!LoadJob
      /\ jobs \in [Jobs -> Oauth!JobRecords \cup {NoAccountJob}]
  BY <1>2, <1>3, JobAssumption DEF Oauth!Active
<1>5. Oauth!TypeOK
  <2>1. stored \in [Accounts -> [Oauth!Resources -> Oauth!Flags]]
    BY <1>1 DEF Oauth!Flags
  <2> QED
    BY <1>3, <1>4, <2>1 DEF Oauth!TypeOK, Oauth!Init
<1>6. OauthTypes
  BY <1>4, <1>5 DEF OauthTypes, Oauth!Init, Oauth!States
<1>7. AllBorn
  BY <1>3, <1>4 DEF AllBorn, Oauth!Init
<1>8. \A i \in Oauth!Active : KindOk(i) /\ CreateOk(i) /\ AloneOk(i)
  BY <1>3, <1>4 DEF KindOk, CreateOk, AloneOk
<1>9. ASSUME NEW x \in Accounts \ spoiled PROVE SettledOk(x)
  <2>1. Oauth!On(x) = {} /\ NoStrays(x)
    BY <1>3, <1>4 DEF Oauth!On, NoStrays, Oauth!Init
  <2>2. Together(x, "on")
    BY <1>1 DEF Together
  <2> QED
    BY <2>1, <2>2 DEF SettledOk, Oauth!Flags
<1>10. Oauth!NothingLeft
  BY DEF Oauth!NothingLeft, Oauth!Init
<1>11. ShownOk
  BY <1>3, <1>4 DEF ShownOk, Oauth!Init
<1> QED
  BY <1>6, <1>7, <1>8, <1>9, <1>10, <1>11 DEF OauthInv

\* Opening and leaving the drawer, and a draft that is refused.
LEMMA PageStep ==
  ASSUME OauthInv, Oauth!Close \/ Oauth!Refuse \/ UNCHANGED oauthVars
                   \/ \E enabled \in BOOLEAN : \E row \in view.accounts \cup {Oauth!NewRow} : Oauth!Open(row, enabled)
  PROVE  OauthInv'
<1>1. /\ UNCHANGED <<stored, strays, gone, jobs, state, spoiled, undone, overlapped, foreign>>
      /\ view' \in {view, state}
      /\ \/ accountDraft' = NoAccountDraft
         \/ accountDraft' \in [account : Accounts \cup {NoAccount}, enabled : BOOLEAN]
  <2>1. \/ accountDraft = NoAccountDraft
        \/ accountDraft \in [account : Accounts \cup {NoAccount}, enabled : BOOLEAN]
    BY DEF OauthInv, OauthTypes, Oauth!TypeOK
  <2>2. \A row \in view.accounts \cup {Oauth!NewRow} : row.account \in Accounts \cup {NoAccount}
    BY DEF OauthInv, OauthTypes, Oauth!TypeOK, Oauth!Rows, Oauth!NewRow
  <2>3. CASE Oauth!Close \/ Oauth!Refuse \/ UNCHANGED oauthVars
    BY <2>1, <2>3 DEF Oauth!Close, Oauth!Refuse, Oauth!iam, Oauth!aux, oauthVars
  <2>4. ASSUME NEW enabled \in BOOLEAN, NEW row \in view.accounts \cup {Oauth!NewRow}, Oauth!Open(row, enabled)
        PROVE  <1>1!1 /\ <1>1!2 /\ <1>1!3
    BY <2>2, <2>4 DEF Oauth!Open, Oauth!iam, Oauth!aux
  <2> QED
    BY <2>3, <2>4
<1>2. OauthTypes'
  BY <1>1 DEF OauthInv, OauthTypes, Oauth!TypeOK, Oauth!Active
<1>3. AllBorn'
  BY <1>1 DEF OauthInv, AllBorn, Oauth!Active, Born
<1>4. \A j \in Oauth!Active' : KindOk(j)' /\ CreateOk(j)' /\ AloneOk(j)'
  BY <1>1 DEF OauthInv, KindOk, CreateOk, AloneOk, Creates, Oauth!Active, Oauth!On, NoStrays
<1>5. \A x \in Accounts \ spoiled' : SettledOk(x)'
  BY <1>1 DEF OauthInv, SettledOk, Oauth!Active, Oauth!On, NoStrays, Together
<1>6. Oauth!NothingLeft'
  BY <1>1 DEF OauthInv, Oauth!NothingLeft
<1>7. ShownOk'
  <2>1. Oauth!Active' = Oauth!Active /\ \A r : Oauth!Column(r)' = Oauth!Column(r)
    BY <1>1 DEF Oauth!Active, Oauth!Column
  <2>2. ShownOk /\ (Oauth!Active = {} => view' = view)
    BY <1>1 DEF OauthInv, ShownOk
  <2>3. Listed' = Listed
    BY <1>1 DEF Listed, Oauth!ToAccounts, Oauth!Column
  <2> QED
    BY <1>1, <2>1, <2>2, <2>3 DEF ShownOk
<1> QED
  BY <1>2, <1>3, <1>4, <1>5, <1>6, <1>7 DEF OauthInv

\* What is known of a call under way.
LEMMA JobTypes ==
  ASSUME OauthInv, NEW j \in Oauth!Active
  PROVE  /\ j \in Jobs /\ jobs[j] \in Oauth!JobRecords /\ jobs[j].todo # {}
         /\ jobs[j].kind \in {"load", "create", "update", "toggle"}
         /\ jobs[j].account \in Accounts \cup {NoAccount} /\ jobs[j].enabled \in BOOLEAN
         /\ jobs[j].step \in {"write", "undo", "load"}
         /\ jobs[j].todo \subseteq Oauth!Resources \cup {"secret"}
         /\ jobs[j].read \in [Oauth!Resources -> [Accounts -> Oauth!Flags]] /\ jobs[j].clean \in BOOLEAN
         /\ jobs[j].step = "undo" => jobs[j].account # NoAccount
         /\ KindOk(j) /\ CreateOk(j) /\ AloneOk(j)
<1>1. j \in Jobs /\ jobs[j] \in Oauth!JobRecords /\ jobs[j].todo # {} /\ (jobs[j].step = "undo" => jobs[j].account # NoAccount)
  BY DEF OauthInv, OauthTypes, Oauth!TypeOK, Oauth!Active
<1> QED
  BY <1>1 DEF Oauth!JobRecords, OauthInv

\* The calls under way once one more is, and those for an account.
LEMMA StartJobs ==
  ASSUME OauthInv, NEW kind \in {"load", "create", "update", "toggle"}, NEW row, NEW enabled \in BOOLEAN,
         NEW step \in {"write", "load"}, NEW todo \in SUBSET (Oauth!Resources \cup {"secret"}),
         row.account \in Accounts \cup {NoAccount}, Oauth!Start(kind, row, enabled, step, todo)
  PROVE  \E k \in Jobs \ Oauth!Active :
           /\ jobs' \in [Jobs -> Oauth!JobRecords \cup {NoAccountJob}]
           /\ Oauth!Active' = Oauth!Active \cup {k}
           /\ jobs'[k] = [kind |-> kind, account |-> row.account, enabled |-> enabled, step |-> step, todo |-> todo,
                          read |-> Oauth!Nothing, clean |-> Oauth!Alone(row)]
           /\ \A i \in Oauth!Active :
                /\ jobs'[i].kind = jobs[i].kind /\ jobs'[i].account = jobs[i].account
                /\ jobs'[i].enabled = jobs[i].enabled /\ jobs'[i].step = jobs[i].step
                /\ jobs'[i].todo = jobs[i].todo /\ jobs'[i].read = jobs[i].read
                /\ jobs'[i].clean => jobs[i].clean /\ i \notin Oauth!On(row.account)
                /\ i \notin Oauth!On(row.account) => jobs'[i] = jobs[i]
<1>1. PICK k \in Jobs \ Oauth!Active :
        jobs' = [i \in Jobs |->
          IF i = k THEN [Oauth!Job(kind, row, enabled, step, todo) EXCEPT !.clean = Oauth!Alone(row)]
          ELSE IF i \in Oauth!On(row.account) THEN [jobs[i] EXCEPT !.clean = FALSE] ELSE jobs[i]]
  BY DEF Oauth!Start
<1>2. PICK w : w = [kind |-> kind, account |-> row.account, enabled |-> enabled, step |-> step, todo |-> todo,
                    read |-> Oauth!Nothing, clean |-> Oauth!Alone(row)]
  OBVIOUS
<1>3. Oauth!Alone(row) \in BOOLEAN
  BY DEF Oauth!Alone
<1>4. Oauth!Nothing \in [Oauth!Resources -> [Accounts -> Oauth!Flags]]
  BY DEF Oauth!Nothing, Oauth!Flags
<1>5. w \in Oauth!JobRecords
  BY <1>2, <1>3, <1>4 DEF Oauth!JobRecords
<1>6. jobs'[k] = w
  BY <1>1, <1>2 DEF Oauth!Job
<1>7. ASSUME NEW i \in Jobs, i # k
      PROVE  /\ jobs'[i] = IF i \in Oauth!On(row.account) THEN [jobs[i] EXCEPT !.clean = FALSE] ELSE jobs[i]
             /\ i \in Oauth!On(row.account) => i \in Oauth!Active
  BY <1>1, <1>7 DEF Oauth!On
<1>8. ASSUME NEW i \in Oauth!Active
      PROVE  /\ i # k /\ jobs'[i] \in Oauth!JobRecords
             /\ jobs'[i].kind = jobs[i].kind /\ jobs'[i].account = jobs[i].account
             /\ jobs'[i].enabled = jobs[i].enabled /\ jobs'[i].step = jobs[i].step
             /\ jobs'[i].todo = jobs[i].todo /\ jobs'[i].read = jobs[i].read
             /\ jobs'[i].clean => jobs[i].clean /\ i \notin Oauth!On(row.account)
             /\ i \notin Oauth!On(row.account) => jobs'[i] = jobs[i]
  <2>1. i \in Jobs /\ i # k /\ jobs[i] \in Oauth!JobRecords
    BY <1>1, <1>8, JobTypes
  <2>2. CASE i \in Oauth!On(row.account)
    BY <1>7, <2>1, <2>2 DEF Oauth!JobRecords
  <2>3. CASE i \notin Oauth!On(row.account)
    BY <1>7, <2>1, <2>3
  <2> QED
    BY <2>1, <2>2, <2>3
<1>9. ASSUME NEW i \in Jobs, i \notin Oauth!Active, i # k PROVE jobs'[i] = NoAccountJob
  BY <1>7, <1>9 DEF Oauth!Active
<1>10. jobs' \in [Jobs -> Oauth!JobRecords \cup {NoAccountJob}]
  BY <1>1, <1>5, <1>6, <1>8, <1>9
<1>11. Oauth!Active' = Oauth!Active \cup {k}
  <2>1. \A i \in Jobs : jobs'[i] # NoAccountJob <=> i \in Oauth!Active \/ i = k
    BY <1>5, <1>6, <1>8, <1>9, JobAssumption
  <2> QED
    BY <2>1 DEF Oauth!Active
<1> QED
  BY <1>2, <1>6, <1>8, <1>10, <1>11

\* A call begins: the ones for its account are no longer alone.
LEMMA StartStep ==
  ASSUME OauthInv, NEW kind \in {"load", "create", "update", "toggle"}, NEW row, NEW enabled \in BOOLEAN,
         NEW step \in {"write", "load"}, NEW todo \in SUBSET (Oauth!Resources \cup {"secret"}),
         row.account \in Accounts \cup {NoAccount}, todo # {},
         Oauth!Start(kind, row, enabled, step, todo),
         kind = "load" => step = "load" /\ row.account = NoAccount /\ todo = Oauth!Resources,
         kind = "create" => step = "write" /\ row.account = NoAccount /\ todo = Oauth!Resources \cup {"secret"},
         kind \in {"update", "toggle"} =>
           step = "write" /\ row.account # NoAccount /\ Oauth!Known(row) \subseteq todo /\ row.account \in Born,
         kind = "toggle" => todo \subseteq Oauth!Resources,
         view' = state,
         accountDraft' = NoAccountDraft \/ accountDraft' \in [account : Accounts \cup {NoAccount}, enabled : BOOLEAN],
         UNCHANGED <<stored, strays, gone, undone>>
  PROVE  OauthInv'
<1>1. PICK k \in Jobs \ Oauth!Active :
        /\ jobs' \in [Jobs -> Oauth!JobRecords \cup {NoAccountJob}]
        /\ Oauth!Active' = Oauth!Active \cup {k}
        /\ jobs'[k] = [kind |-> kind, account |-> row.account, enabled |-> enabled, step |-> step, todo |-> todo,
                       read |-> Oauth!Nothing, clean |-> Oauth!Alone(row)]
        /\ \A i \in Oauth!Active :
             /\ jobs'[i].kind = jobs[i].kind /\ jobs'[i].account = jobs[i].account
             /\ jobs'[i].enabled = jobs[i].enabled /\ jobs'[i].step = jobs[i].step
             /\ jobs'[i].todo = jobs[i].todo /\ jobs'[i].read = jobs[i].read
             /\ jobs'[i].clean => jobs[i].clean /\ i \notin Oauth!On(row.account)
             /\ i \notin Oauth!On(row.account) => jobs'[i] = jobs[i]
  BY StartJobs
<1>2. /\ jobs'[k].kind = kind /\ jobs'[k].account = row.account /\ jobs'[k].enabled = enabled
      /\ jobs'[k].step = step /\ jobs'[k].todo = todo /\ jobs'[k].read = Oauth!Nothing
      /\ jobs'[k].clean = Oauth!Alone(row)
  BY <1>1
<1>3. /\ spoiled' = IF Oauth!Alone(row) THEN spoiled ELSE spoiled \cup {row.account}
      /\ overlapped' = (Oauth!Active # {}) /\ foreign' = (foreign /\ Oauth!Active # {})
      /\ state' = [state EXCEPT !.status = IF kind = "load" THEN "loading" ELSE "saving"]
      /\ row.account = NoAccount => Oauth!Alone(row)
  BY DEF Oauth!Start, Oauth!Alone
<1>4. /\ state \in Oauth!States /\ state' \in Oauth!States /\ state'.accounts = state.accounts
      /\ state'.status \in {"loading", "saving"}
  BY <1>3 DEF OauthInv, OauthTypes, Oauth!States
<1>5. OauthTypes'
  <2>1. \A i \in Oauth!Active' : jobs'[i] \in Oauth!JobRecords /\ jobs'[i].todo # {}
                                 /\ (jobs'[i].step = "undo" => jobs'[i].account # NoAccount)
    <3> SUFFICES ASSUME NEW i \in Oauth!Active'
                 PROVE  jobs'[i] \in Oauth!JobRecords /\ jobs'[i].todo # {}
                        /\ (jobs'[i].step = "undo" => jobs'[i].account # NoAccount)
      OBVIOUS
    <3>1. jobs'[i] # NoAccountJob /\ i \in Jobs
      BY DEF Oauth!Active
    <3>2. jobs'[i].todo # {} /\ (jobs'[i].step = "undo" => jobs'[i].account # NoAccount)
      BY <1>1, <1>2, JobTypes
    <3> QED
      BY <1>1, <3>1, <3>2
  <2>2. spoiled' \subseteq Accounts
    BY <1>3 DEF OauthInv, OauthTypes, Oauth!TypeOK
  <2>3. Oauth!TypeOK'
    BY <1>4, <2>1, <2>2 DEF OauthInv, OauthTypes, Oauth!TypeOK, Oauth!States
  <2> QED
    BY <1>1, <1>3, <1>4, <2>3 DEF OauthTypes
<1>6. AllBorn'
  <2>1. \A x : x \in Born' <=> x \in Born
    BY DEF Born
  <2>2. \A r \in state'.accounts \cup view'.accounts : r.account \in Born
    BY <1>4 DEF OauthInv, AllBorn
  <2>3. ASSUME NEW i \in Oauth!Active'
        PROVE  /\ jobs'[i].account # NoAccount => jobs'[i].account \in Born
               /\ \A x \in Accounts : jobs'[i].read["integration"][x] # "none" => x \in Born
    <3>1. CASE i = k
      BY <1>2, <3>1 DEF Oauth!Nothing, Oauth!Resources
    <3>2. CASE i \in Oauth!Active
      BY <1>1, <3>2 DEF OauthInv, AllBorn
    <3> QED
      BY <1>1, <2>3, <3>1, <3>2
  <2> QED
    BY <2>1, <2>2, <2>3 DEF AllBorn
<1>7. /\ row.account # NoAccount => Oauth!On(row.account)' = Oauth!On(row.account) \cup {k}
      /\ \A x : x = NoAccount \/ x # row.account => Oauth!On(x)' = Oauth!On(x)
  BY <1>1, <1>2 DEF Oauth!On
<1>8. ASSUME NEW i \in Oauth!Active' PROVE KindOk(i)' /\ CreateOk(i)'
  <2>1. CASE i = k
    BY <1>2, <2>1 DEF KindOk, CreateOk, Oauth!Resources
  <2>2. CASE i \in Oauth!Active
    <3>1. KindOk(i)'
      BY <1>1, <2>2, JobTypes DEF KindOk
    <3>2. \A x, n : x # NoAccount /\ Creates(n, x)' => Creates(n, x) /\ n \in Oauth!Active
      BY <1>1, <1>2 DEF Creates
    <3>3. jobs'[i].clean => jobs[i].clean
      BY <1>1, <2>2
    <3>4. CreateOk(i)
      BY <2>2, JobTypes
    <3>5. /\ jobs'[i].kind = jobs[i].kind /\ jobs'[i].account = jobs[i].account
          /\ jobs'[i].step = jobs[i].step /\ jobs'[i].todo = jobs[i].todo
      BY <1>1, <2>2
    <3>6. CreateOk(i)'
      <4> SUFFICES ASSUME jobs[i].kind = "create", jobs[i].step # "load" PROVE CreateOk(i)'
        BY <3>5 DEF CreateOk
      <4>1. \A x, n : x = jobs[i].account /\ x # NoAccount /\ n \in Oauth!Active' /\ Creates(n, x)' => n = i
        BY <3>2, <3>4 DEF CreateOk
      <4>2. jobs[i].account # NoAccount =>
              /\ jobs[i].account \in gone \/ stored[jobs[i].account]["integration"] # "none"
              /\ (jobs[i].step = "write" <=> "client" \in jobs[i].todo) /\ (jobs[i].step = "undo" => jobs'[i].clean) =>
                   stored[jobs[i].account]["client"] = "none"
        BY <3>3, <3>4 DEF CreateOk
      <4> QED
        BY <3>4, <3>5, <4>1, <4>2 DEF CreateOk
    <3> QED
      BY <3>1, <3>6
  <2> QED
    BY <1>1, <1>8, <2>1, <2>2
<1>9. ASSUME NEW i \in Oauth!Active' PROVE AloneOk(i)'
  <2> SUFFICES ASSUME jobs'[i].kind \in {"update", "toggle"}, jobs'[i].step = "write", jobs'[i].clean
               PROVE  /\ Oauth!On(jobs[i].account)' = {i} /\ NoStrays(jobs[i].account)'
                      /\ \A r \in Oauth!Resources \ jobs'[i].todo :
                           stored[jobs'[i].account][r] \in {"none", Oauth!Flag(jobs'[i].enabled)}
    BY DEF AloneOk
  <2>1. CASE i = k
    <3>1. /\ Oauth!On(row.account) = {} /\ Oauth!Complete(row) /\ \A s \in strays : s.account # row.account
          /\ row.account # NoAccount /\ Oauth!Known(row) \subseteq todo
      BY <1>2, <2>1 DEF Oauth!Alone
    <3>2. \A r \in Oauth!Resources \ todo : stored[row.account][r] = "none"
      BY <3>1 DEF Oauth!Complete, Oauth!Known, Oauth!Resources
    <3> QED
      BY <1>2, <1>7, <2>1, <3>1, <3>2 DEF NoStrays
  <2>2. CASE i \in Oauth!Active
    <3>1. i \notin Oauth!On(row.account) /\ jobs[i].clean /\ jobs'[i] = jobs[i]
      BY <1>1, <2>2
    <3>2. AloneOk(i) /\ KindOk(i)
      BY <2>2, JobTypes
    <3>3. jobs[i].account # row.account \/ row.account = NoAccount
      BY <2>2, <3>1 DEF Oauth!On
    <3> QED
      BY <1>7, <3>1, <3>2, <3>3 DEF AloneOk, NoStrays
  <2> QED
    BY <1>1, <1>9, <2>1, <2>2
<1>10. ASSUME NEW x \in Accounts \ spoiled' PROVE SettledOk(x)'
  <2>1. SettledOk(x) /\ (x = row.account => Oauth!Alone(row))
    BY <1>3, <1>10 DEF OauthInv
  <2>2. CASE x # row.account
    BY <1>1, <1>7, <2>1, <2>2 DEF SettledOk, NoStrays, Together, Oauth!On
  <2>3. CASE x = row.account
    <3>1. x # NoAccount
      BY ConsoleAssumption
    <3>2. Oauth!On(x)' = {k} /\ kind \notin {"load", "create"} /\ step = "write" /\ jobs'[k].clean
      BY <1>2, <1>7, <2>1, <2>3, <3>1 DEF Oauth!Alone
    <3> QED
      BY <1>2, <2>1, <3>2 DEF SettledOk, NoStrays
  <2> QED
    BY <2>2, <2>3
<1>11. Oauth!NothingLeft'
  BY DEF OauthInv, Oauth!NothingLeft
<1>12. ShownOk'
  <2>1. Oauth!Active' # {}
    BY <1>1
  <2>2. ~overlapped' => Oauth!Active' = {k}
    BY <1>1, <1>3
  <2>3. jobs'[k].step = "load" => Oauth!Resources \ jobs'[k].todo = {}
    BY <1>2
  <2> QED
    BY <2>1, <2>2, <2>3 DEF ShownOk
<1> QED
  BY <1>5, <1>6, <1>8, <1>9, <1>10, <1>11, <1>12 DEF OauthInv

\* A load, a save or a switch begins.
LEMMA StartingStep ==
  ASSUME OauthInv, Oauth!Reload \/ Oauth!Submit \/ \E row \in view.accounts : Oauth!Toggle(row)
  PROVE  OauthInv'
<1>1. /\ state.accounts \subseteq Oauth!Rows /\ view.accounts \subseteq Oauth!Rows
      /\ \A row \in state.accounts \cup view.accounts : row.account \in Born
      /\ \/ accountDraft = NoAccountDraft
         \/ accountDraft \in [account : Accounts \cup {NoAccount}, enabled : BOOLEAN]
  BY DEF OauthInv, OauthTypes, Oauth!TypeOK, AllBorn
<1>2. Oauth!NewRow.account = NoAccount
  BY DEF Oauth!NewRow
<1>3. Oauth!Resources # {}
  BY DEF Oauth!Resources
<1>4. ASSUME NEW row \in state.accounts \cup view.accounts
      PROVE  /\ row.account \in Accounts /\ row.account # NoAccount /\ row.enabled \in BOOLEAN /\ row.account \in Born
             /\ Oauth!Known(row) \subseteq Oauth!Resources /\ Oauth!Known(row) # {}
  BY <1>1, ConsoleAssumption DEF Oauth!Rows, Oauth!Known, Oauth!Resources
<1>5. CASE Oauth!Reload
  <2>1. /\ Oauth!Start("load", Oauth!NewRow, TRUE, "load", Oauth!Resources) /\ view' = state
        /\ UNCHANGED <<stored, strays, gone, accountDraft, undone>>
    BY <1>5 DEF Oauth!Reload, Oauth!iam
  <2> QED
    BY <1>1, <1>2, <1>3, <2>1, StartStep
<1>6. CASE Oauth!Submit
  <2>1. /\ view' = state /\ accountDraft # NoAccountDraft /\ UNCHANGED <<stored, strays, gone, accountDraft, undone>>
    BY <1>6 DEF Oauth!Submit, Oauth!iam
  <2>2. accountDraft.enabled \in BOOLEAN
    BY <1>1, <2>1
  <2>3. CASE Oauth!Existing = {}
    <3>1. Oauth!Start("create", Oauth!NewRow, accountDraft.enabled, "write", Oauth!Resources \cup {"secret"})
      BY <1>6, <2>3 DEF Oauth!Submit
    <3> QED
      BY <1>1, <1>2, <1>3, <2>1, <2>2, <3>1, StartStep
  <2>4. CASE Oauth!Existing # {}
    <3>1. PICK row \in Oauth!Existing, secret \in SUBSET {"secret"} :
            Oauth!Start("update", row, accountDraft.enabled, "write",
                        Oauth!Known(row) \cup (IF row.client THEN secret ELSE {}))
      BY <1>6, <2>4 DEF Oauth!Submit
    <3>2. PICK todo : todo = Oauth!Known(row) \cup (IF row.client THEN secret ELSE {})
      OBVIOUS
    <3>3. row \in state.accounts
      BY DEF Oauth!Existing
    <3>4. todo \in SUBSET (Oauth!Resources \cup {"secret"}) /\ Oauth!Known(row) \subseteq todo /\ todo # {}
      BY <1>4, <3>2, <3>3
    <3> QED
      BY <1>1, <1>4, <2>1, <2>2, <3>1, <3>2, <3>3, <3>4, StartStep
  <2> QED
    BY <2>3, <2>4
<1>7. ASSUME NEW row \in view.accounts, Oauth!Toggle(row) PROVE OauthInv'
  <2>1. /\ Oauth!Start("toggle", row, ~row.enabled, "write", Oauth!Known(row)) /\ view' = state
        /\ UNCHANGED <<stored, strays, gone, accountDraft, undone>>
    BY <1>7 DEF Oauth!Toggle, Oauth!iam
  <2>2. Oauth!Known(row) \in SUBSET (Oauth!Resources \cup {"secret"})
    BY <1>4
  <2>3. (~row.enabled) \in BOOLEAN
    OBVIOUS
  <2> QED
    BY <1>1, <1>4, <2>1, <2>2, <2>3, StartStep
<1> QED
  BY <1>5, <1>6, <1>7

\* What a step of the call j that touches no account but x leaves of the other calls and of
\* the other accounts.
LEMMA OtherCalls ==
  ASSUME OauthInv, NEW j \in Oauth!Active, NEW x \in Accounts \cup {NoAccount},
         jobs[j].account = x \/ (jobs[j].account = NoAccount /\ x \notin Born),
         jobs[j].step # "load",
         Oauth!Active' \ {j} = Oauth!Active \ {j},
         \A i \in Oauth!Active \ {j} : jobs'[i] = jobs[i],
         j \in Oauth!Active' => jobs'[j].account = x /\ jobs'[j].kind = jobs[j].kind,
         \A y \in Accounts \ {x} : \A q \in Oauth!Resources : stored'[y][q] = stored[y][q],
         \A s \in strays' : s \in strays \/ s.account = x,
         gone \subseteq gone',
         x # NoAccount /\ jobs[j].kind # "create" =>
           /\ stored[x]["integration"] # "none" => stored'[x]["integration"] # "none"
           /\ stored[x]["client"] = "none" => stored'[x]["client"] = "none"
  PROVE  /\ \A i \in Oauth!Active \ {j} : KindOk(i)' /\ CreateOk(i)' /\ AloneOk(i)'
         /\ \A y \in Accounts \ (spoiled \cup {x}) : SettledOk(y)'
<1>1. \A i \in Oauth!Active : jobs[i].account # NoAccount => jobs[i].account \in Accounts /\ jobs[i].account \in Born
  BY JobTypes DEF OauthInv, AllBorn
<1>2. \A y \in Accounts \ {x} : Oauth!On(y)' = Oauth!On(y)
  <2> SUFFICES ASSUME NEW y \in Accounts \ {x} PROVE Oauth!On(y)' = Oauth!On(y)
    OBVIOUS
  <2>1. y # NoAccount /\ jobs[j].account # y /\ (j \in Oauth!Active' => jobs'[j].account # y)
    BY ConsoleAssumption
  <2> QED
    BY <2>1 DEF Oauth!On
<1>3. \A y \in Accounts \ {x} : NoStrays(y) => NoStrays(y)'
  BY DEF NoStrays
<1>4. ASSUME NEW i \in Oauth!Active \ {j} PROVE KindOk(i)'
  BY <1>4, JobTypes DEF KindOk
<1>5. ASSUME NEW i \in Oauth!Active \ {j} PROVE AloneOk(i)'
  <2> SUFFICES ASSUME jobs[i].kind \in {"update", "toggle"}, jobs[i].step = "write", jobs[i].clean PROVE AloneOk(i)'
    BY DEF AloneOk
  <2>1. PICK y : y = jobs[i].account /\ y = jobs'[i].account
    OBVIOUS
  <2>2. y # NoAccount /\ y \in Accounts /\ y \in Born
    BY <1>1, <2>1, JobTypes DEF KindOk
  <2>3. /\ Oauth!On(y) = {i} /\ NoStrays(y)
        /\ \A r \in Oauth!Resources \ jobs[i].todo : stored[y][r] \in {"none", Oauth!Flag(jobs[i].enabled)}
    BY <2>1, JobTypes DEF AloneOk
  <2>4. y # x
    BY <2>2, <2>3 DEF Oauth!On
  <2>5. /\ Oauth!On(y)' = {i} /\ NoStrays(y)'
        /\ \A r \in Oauth!Resources \ jobs'[i].todo : stored'[y][r] \in {"none", Oauth!Flag(jobs'[i].enabled)}
    BY <1>2, <1>3, <2>2, <2>3, <2>4
  <2> QED
    BY <2>1, <2>5 DEF AloneOk
<1>6. ASSUME NEW i \in Oauth!Active \ {j} PROVE CreateOk(i)'
  <2> SUFFICES ASSUME jobs[i].kind = "create", jobs[i].step # "load" PROVE CreateOk(i)'
    BY DEF CreateOk
  <2>1. PICK y : y = jobs[i].account /\ y = jobs'[i].account
    OBVIOUS
  <2>2. CreateOk(i)
    BY JobTypes
  <2>3. CASE y = NoAccount
    BY <2>1, <2>2, <2>3 DEF CreateOk
  <2>4. CASE y # NoAccount
    <3>1. y \in Accounts /\ y \in Born /\ Creates(i, y)
      BY <1>1, <2>1, <2>4 DEF Creates
    <3>2. x = y => jobs[j].kind # "create" /\ x # NoAccount
      BY <2>1, <2>2, <2>4, <3>1 DEF CreateOk, Creates
    <3>3. /\ y \in gone \/ stored[y]["integration"] # "none" => y \in gone' \/ stored'[y]["integration"] # "none"
          /\ stored[y]["client"] = "none" => stored'[y]["client"] = "none"
      BY <3>1, <3>2 DEF Oauth!Resources
    <3>4. ASSUME NEW n \in Oauth!Active', Creates(n, y)' PROVE n = i
      <4>1. CASE n = j
        BY <1>6, <2>1, <2>2, <3>1, <3>2, <3>4, <4>1 DEF CreateOk, Creates
      <4>2. CASE n # j
        BY <2>1, <2>2, <2>4, <3>4, <4>2 DEF CreateOk, Creates
      <4> QED
        BY <4>1, <4>2
    <3> QED
      BY <2>1, <2>2, <2>4, <3>3, <3>4 DEF CreateOk
  <2> QED
    BY <2>3, <2>4
<1>7. ASSUME NEW y \in Accounts \ (spoiled \cup {x}) PROVE SettledOk(y)'
  <2>1. SettledOk(y) /\ Oauth!On(y)' = Oauth!On(y) /\ NoStrays(y)'
    BY <1>2, <1>3 DEF OauthInv, SettledOk
  <2>2. \A i \in Oauth!On(y) : jobs'[i] = jobs[i]
    BY ConsoleAssumption DEF Oauth!On
  <2>3. \A flag : Together(y, flag)' <=> Together(y, flag)
    BY DEF Together
  <2> QED
    BY <2>1, <2>2, <2>3 DEF SettledOk
<1> QED
  BY <1>4, <1>5, <1>6, <1>7

\* The account a request is about, and what it leaves in IAM.
LEMMA CarriedFacts ==
  ASSUME OauthInv, NEW j \in Oauth!Active, NEW r \in Oauth!InFlight(jobs[j]), jobs[j].step = "write",
         NEW x \in Oauth!Subject(jobs[j], r), Oauth!Carried(jobs[j].kind, x, r, jobs[j].enabled)
  PROVE  /\ r \in jobs[j].todo /\ jobs[j].kind \in {"create", "update", "toggle"}
         /\ x \in Accounts /\ x # NoAccount
         /\ stored' \in [Accounts -> [Oauth!Resources -> Oauth!Flags]]
         /\ \A y \in Accounts, q \in Oauth!Resources : y # x \/ q # r => stored'[y][q] = stored[y][q]
         /\ r \in Oauth!Resources => stored'[x][r] = Oauth!Flag(jobs[j].enabled)
         /\ \/ /\ jobs[j].kind = "create" /\ r = "integration" /\ jobs[j].account = NoAccount /\ x \notin Born
            \/ jobs[j].account = x /\ (jobs[j].kind = "create" => r # "integration")
         /\ jobs[j].kind # "create" /\ r \in Oauth!Resources => stored[x][r] # "none"
         /\ jobs[j].kind = "create" /\ r \notin {"integration", "secret"} => stored[x]["integration"] # "none"
<1>1. r \in jobs[j].todo /\ jobs[j].kind \in {"create", "update", "toggle"}
  BY JobTypes DEF Oauth!InFlight, KindOk
<1>2. /\ jobs[j].todo \subseteq Oauth!Resources \cup {"secret"} /\ jobs[j].account \in Accounts \cup {NoAccount}
      /\ KindOk(j) /\ CreateOk(j)
  BY JobTypes
<1>3. \/ /\ jobs[j].kind = "create" /\ r = "integration" /\ jobs[j].account = NoAccount /\ x \notin Born /\ x \in Accounts
      \/ jobs[j].account = x /\ x # NoAccount /\ (jobs[j].kind = "create" => r # "integration")
  <2>1. CASE jobs[j].kind = "create" /\ r = "integration"
    BY <1>1, <1>2, <2>1 DEF Oauth!Subject, Born, CreateOk
  <2>2. CASE jobs[j].kind = "create" /\ r # "integration"
    <3>1. "integration" \notin jobs[j].todo
      <4> SUFFICES ASSUME "integration" \in jobs[j].todo PROVE FALSE
        OBVIOUS
      <4>1. Oauth!Rank[r] <= Oauth!Rank["integration"] /\ r \in {"client", "surface", "secret"}
        BY <1>1, <1>2, <2>2 DEF Oauth!InFlight, Oauth!Resources
      <4> QED
        BY <4>1 DEF Oauth!Rank
    <3> QED
      BY <1>2, <2>2, <3>1 DEF CreateOk, Oauth!Subject
  <2>3. CASE jobs[j].kind # "create"
    BY <1>1, <1>2, <2>3 DEF KindOk, Oauth!Subject
  <2> QED
    BY <2>1, <2>2, <2>3
<1>4. x \in Accounts /\ x # NoAccount
  BY <1>2, <1>3, ConsoleAssumption
<1>5. stored \in [Accounts -> [Oauth!Resources -> Oauth!Flags]] /\ Oauth!Flag(jobs[j].enabled) \in Oauth!Flags
  BY DEF OauthInv, OauthTypes, Oauth!TypeOK, Oauth!Flag, Oauth!Flags
<1>6. /\ stored' \in [Accounts -> [Oauth!Resources -> Oauth!Flags]]
      /\ \A y \in Accounts, q \in Oauth!Resources : y # x \/ q # r => stored'[y][q] = stored[y][q]
      /\ r \in Oauth!Resources => stored'[x][r] = Oauth!Flag(jobs[j].enabled)
  <2>1. CASE r = "secret"
    BY <1>5, <2>1 DEF Oauth!Carried, Oauth!Resources
  <2>2. CASE r # "secret"
    <3>1. r \in Oauth!Resources /\ stored' = [stored EXCEPT ![x][r] = Oauth!Flag(jobs[j].enabled)]
      BY <1>1, <1>2, <2>2 DEF Oauth!Carried
    <3> QED
      BY <1>4, <1>5, <3>1
  <2> QED
    BY <2>1, <2>2
<1>7. /\ jobs[j].kind # "create" /\ r \in Oauth!Resources => stored[x][r] # "none"
      /\ jobs[j].kind = "create" /\ r \notin {"integration", "secret"} => stored[x]["integration"] # "none"
  BY DEF Oauth!Carried, Oauth!Resources
<1> QED
  BY <1>1, <1>3, <1>4, <1>6, <1>7

\* A request that is carried out leaves what is there, and brings nothing back.
LEMMA CarriedKeeps ==
  ASSUME OauthInv, NEW j \in Oauth!Active, NEW r \in Oauth!InFlight(jobs[j]), jobs[j].step = "write",
         NEW x \in Oauth!Subject(jobs[j], r), Oauth!Carried(jobs[j].kind, x, r, jobs[j].enabled),
         UNCHANGED <<gone, undone>>
  PROVE  /\ Born \subseteq Born'
         /\ x \in Born' /\ Oauth!NothingLeft'
         /\ \A y \in Accounts : stored[y]["integration"] # "none" => stored'[y]["integration"] # "none"
         /\ jobs[j].kind # "create" => (stored[x]["client"] = "none" => stored'[x]["client"] = "none")
<1>1. /\ r \in jobs[j].todo /\ jobs[j].kind \in {"create", "update", "toggle"}
      /\ x \in Accounts /\ x # NoAccount
      /\ \A y \in Accounts, q \in Oauth!Resources : y # x \/ q # r => stored'[y][q] = stored[y][q]
      /\ r \in Oauth!Resources => stored'[x][r] = Oauth!Flag(jobs[j].enabled)
      /\ \/ /\ jobs[j].kind = "create" /\ r = "integration" /\ jobs[j].account = NoAccount /\ x \notin Born
         \/ jobs[j].account = x /\ (jobs[j].kind = "create" => r # "integration")
      /\ jobs[j].kind # "create" /\ r \in Oauth!Resources => stored[x][r] # "none"
      /\ jobs[j].kind = "create" /\ r \notin {"integration", "secret"} => stored[x]["integration"] # "none"
  BY CarriedFacts
<1>2. Oauth!Flag(jobs[j].enabled) # "none"
  BY DEF Oauth!Flag
<1>3. \A y \in Accounts, q \in Oauth!Resources : stored[y][q] # "none" => stored'[y][q] # "none"
  BY <1>1, <1>2
<1>4. Born \subseteq Born'
  BY <1>3 DEF Born
<1>5. x \in Born'
  <2>1. CASE x \in Born
    BY <1>1, <1>4, <2>1
  <2>2. CASE x \notin Born
    <3>1. r = "integration" /\ r \in Oauth!Resources
      BY <1>1, <2>2 DEF OauthInv, AllBorn, Oauth!Resources
    <3> QED
      BY <1>1, <1>2, <3>1 DEF Born
  <2> QED
    BY <2>1, <2>2
<1>6. ASSUME NEW y \in undone PROVE stored'[y]["integration"] = "none" /\ stored'[y]["client"] = "none"
  <2>1. y \in Accounts /\ y \in Born /\ stored[y]["integration"] = "none" /\ stored[y]["client"] = "none"
    BY DEF OauthInv, Oauth!NothingLeft, OauthTypes, Oauth!TypeOK, Born
  <2>2. x = y => r \notin {"integration", "client"}
    BY <1>1, <2>1 DEF Oauth!Resources
  <2> QED
    BY <1>1, <2>1, <2>2 DEF Oauth!Resources
<1> QED
  BY <1>1, <1>3, <1>4, <1>5, <1>6 DEF Oauth!NothingLeft, Oauth!Resources

\* A write is answered: the next one is due, or the lists.
LEMMA OauthWriteStep ==
  ASSUME OauthInv, NEW j \in Oauth!Active, NEW r \in Oauth!InFlight(jobs[j]), Oauth!Write(j, r)
  PROVE  OauthInv'
<1>1. PICK x \in Oauth!Subject(jobs[j], r) :
        Oauth!Carried(jobs[j].kind, x, r, jobs[j].enabled) /\ Oauth!Written(j, x, r)
  BY DEF Oauth!Write
<1>2. jobs[j].step = "write" /\ UNCHANGED <<strays, gone, view, accountDraft, undone, overlapped, foreign>>
  BY DEF Oauth!Write, Oauth!pageState
<1>3. /\ r \in jobs[j].todo /\ jobs[j].kind \in {"create", "update", "toggle"}
      /\ x \in Accounts /\ x # NoAccount
      /\ stored' \in [Accounts -> [Oauth!Resources -> Oauth!Flags]]
      /\ \A y \in Accounts, q \in Oauth!Resources : y # x \/ q # r => stored'[y][q] = stored[y][q]
      /\ r \in Oauth!Resources => stored'[x][r] = Oauth!Flag(jobs[j].enabled)
      /\ \/ /\ jobs[j].kind = "create" /\ r = "integration" /\ jobs[j].account = NoAccount /\ x \notin Born
         \/ jobs[j].account = x /\ (jobs[j].kind = "create" => r # "integration")
      /\ jobs[j].kind # "create" /\ r \in Oauth!Resources => stored[x][r] # "none"
      /\ jobs[j].kind = "create" /\ r \notin {"integration", "secret"} => stored[x]["integration"] # "none"
  BY <1>1, <1>2, CarriedFacts
<1>4. /\ Born \subseteq Born'
      /\ x \in Born' /\ Oauth!NothingLeft'
      /\ \A y \in Accounts : stored[y]["integration"] # "none" => stored'[y]["integration"] # "none"
      /\ jobs[j].kind # "create" => (stored[x]["client"] = "none" => stored'[x]["client"] = "none")
  BY <1>1, <1>2, CarriedKeeps, Zenon
<1>5. PICK last \in BOOLEAN : last <=> jobs[j].todo = {r}
  OBVIOUS
<1>6. /\ jobs' = [jobs EXCEPT ![j].account = x,
                              ![j].todo = IF last THEN Oauth!Resources ELSE @ \ {r},
                              ![j].step = IF last THEN "load" ELSE @]
      /\ state' = IF last THEN [state EXCEPT !.status = "loading"] ELSE state
      /\ spoiled' = IF last /\ jobs[j].clean /\ jobs[j].kind # "create" THEN spoiled \ {x} ELSE spoiled
  BY <1>1, <1>5 DEF Oauth!Written
<1>7. j \in Jobs /\ jobs[j] \in Oauth!JobRecords /\ KindOk(j) /\ CreateOk(j) /\ AloneOk(j)
  BY JobTypes
<1>8. jobs \in [Jobs -> Oauth!JobRecords \cup {NoAccountJob}]
  BY DEF OauthInv, OauthTypes
<1>9. /\ jobs'[j] \in Oauth!JobRecords /\ jobs'[j].account = x
      /\ jobs'[j].kind = jobs[j].kind /\ jobs'[j].enabled = jobs[j].enabled
      /\ jobs'[j].read = jobs[j].read /\ jobs'[j].clean = jobs[j].clean
      /\ last => jobs'[j].step = "load" /\ jobs'[j].todo = Oauth!Resources
      /\ ~last => jobs'[j].step = "write" /\ jobs'[j].todo = jobs[j].todo \ {r}
  BY <1>2, <1>3, <1>6, <1>7, <1>8 DEF Oauth!JobRecords
<1>10. \A i \in Jobs \ {j} : jobs'[i] = jobs[i]
  BY <1>6, <1>8
<1>11. jobs' \in [Jobs -> Oauth!JobRecords \cup {NoAccountJob}]
  <2>1. \A i \in Jobs : jobs'[i] \in Oauth!JobRecords \cup {NoAccountJob}
    BY <1>8, <1>9, <1>10
  <2>2. jobs' = [i \in Jobs |-> jobs'[i]]
    BY <1>6, <1>8
  <2> QED
    BY <2>1, <2>2
<1>12. Oauth!Active' = Oauth!Active
  BY <1>7, <1>9, <1>10, JobAssumption DEF Oauth!Active
<1>13. jobs'[j].todo # {}
  BY <1>3, <1>5, <1>9 DEF Oauth!Resources
<1>14. state' \in Oauth!States /\ state'.accounts = state.accounts
  BY <1>6 DEF OauthInv, OauthTypes, Oauth!States
<1>15. OauthTypes'
  <2>1. \A i \in Oauth!Active' : jobs'[i] \in Oauth!JobRecords /\ jobs'[i].todo # {}
                                 /\ (jobs'[i].step = "undo" => jobs'[i].account # NoAccount)
    <3> SUFFICES ASSUME NEW i \in Oauth!Active
                 PROVE  jobs'[i] \in Oauth!JobRecords /\ jobs'[i].todo # {}
                        /\ (jobs'[i].step = "undo" => jobs'[i].account # NoAccount)
      BY <1>12
    <3>1. CASE i = j
      BY <1>3, <1>9, <1>13, <3>1
    <3>2. CASE i # j
      <4>1. i \in Jobs /\ jobs[i] \in Oauth!JobRecords /\ jobs[i].todo # {}
            /\ (jobs[i].step = "undo" => jobs[i].account # NoAccount)
        BY JobTypes
      <4> QED
        BY <1>10, <3>2, <4>1
    <3> QED
      BY <3>1, <3>2
  <2>2. spoiled' \subseteq Accounts
    BY <1>6 DEF OauthInv, OauthTypes, Oauth!TypeOK
  <2>3. state'.status \in {"loading", "saving", "ready", "error"}
    BY <1>6, <1>14 DEF OauthInv, OauthTypes, Oauth!TypeOK, Oauth!States
  <2>4. Oauth!TypeOK'
    BY <1>2, <1>3, <1>14, <2>1, <2>2, <2>3 DEF OauthInv, OauthTypes, Oauth!TypeOK
  <2> QED
    BY <1>2, <1>11, <1>14, <2>4 DEF OauthInv, OauthTypes
<1>16. AllBorn'
  <2>1. \A row \in state'.accounts \cup view'.accounts : row.account \in Born'
    BY <1>2, <1>4, <1>14 DEF OauthInv, AllBorn, OauthTypes, Oauth!States, Oauth!Rows
  <2>2. ASSUME NEW i \in Oauth!Active, i # j
        PROVE  /\ jobs'[i].account # NoAccount => jobs'[i].account \in Born'
               /\ \A y \in Accounts : jobs'[i].read["integration"][y] # "none" => y \in Born'
    <3>1. i \in Jobs /\ jobs[i].account \in Accounts \cup {NoAccount}
      BY JobTypes
    <3>2. PICK a : a = jobs[i].account /\ a = jobs'[i].account
      BY <1>10, <2>2, <3>1
    <3>3. /\ a # NoAccount => a \in Born'
          /\ \A y \in Accounts : jobs[i].read["integration"][y] # "none" => y \in Born'
      BY <1>4, <3>1, <3>2 DEF OauthInv, AllBorn
    <3> QED
      BY <1>10, <2>2, <3>1, <3>2, <3>3 DEF Born
  <2>3. /\ jobs'[j].account \in Born'
        /\ \A y \in Accounts : jobs'[j].read["integration"][y] # "none" => y \in Born'
    BY <1>4, <1>9 DEF OauthInv, AllBorn, Born
  <2> QED
    BY <1>12, <2>1, <2>2, <2>3 DEF AllBorn
<1>17. /\ \A i \in Oauth!Active \ {j} : KindOk(i)' /\ CreateOk(i)' /\ AloneOk(i)'
       /\ \A y \in Accounts \ (spoiled \cup {x}) : SettledOk(y)'
  <2>1. \A i \in Oauth!Active \ {j} : jobs'[i] = jobs[i]
    BY <1>10 DEF Oauth!Active
  <2>2. x \in Accounts \cup {NoAccount} /\ (jobs[j].account = x \/ (jobs[j].account = NoAccount /\ x \notin Born))
    BY <1>3
  <2> QED
    BY <1>2, <1>3, <1>4, <1>9, <1>12, <2>1, <2>2, OtherCalls
<1>18. KindOk(j)'
  BY <1>2, <1>3, <1>7, <1>9 DEF KindOk
<1>19. CreateOk(j)'
  <2> SUFFICES ASSUME jobs[j].kind = "create", ~last PROVE CreateOk(j)'
    BY <1>9 DEF CreateOk
  <2>1. /\ jobs'[j].step = "write" /\ jobs'[j].todo = jobs[j].todo \ {r}
        /\ "integration" \in jobs[j].todo => r = "integration" /\ "client" \in jobs[j].todo
    BY <1>2, <1>3, <1>7, <1>9, ConsoleAssumption DEF CreateOk
  <2>2. x \in gone \/ stored'[x]["integration"] # "none"
    <3>1. CASE r = "integration"
      <4>1. r \in Oauth!Resources /\ Oauth!Flag(jobs[j].enabled) # "none"
        BY <3>1 DEF Oauth!Resources, Oauth!Flag
      <4> QED
        BY <1>3, <3>1, <4>1
    <3>2. CASE r # "integration"
      BY <1>2, <1>3, <1>4, <1>7, <3>2 DEF CreateOk
    <3> QED
      BY <3>1, <3>2
  <2>3. ASSUME NEW n \in Oauth!Active, n # j, Creates(n, x)' PROVE FALSE
    <3>1. n \in Jobs /\ jobs'[n] = jobs[n] /\ Creates(n, x)
      BY <1>10, <2>3 DEF Creates, Oauth!Active
    <3>2. x \in Born
      BY <1>3, <3>1 DEF Creates, OauthInv, AllBorn
    <3> QED
      BY <1>2, <1>3, <1>7, <2>3, <3>1, <3>2 DEF CreateOk
  <2>4. "client" \in jobs'[j].todo => stored'[x]["client"] = "none"
    <3> SUFFICES ASSUME "client" \in jobs[j].todo, r # "client" PROVE stored'[x]["client"] = "none"
      BY <2>1
    <3>1. stored'[x]["client"] = stored[x]["client"]
      BY <1>3 DEF Oauth!Resources
    <3>2. CASE x \in Born
      BY <1>2, <1>3, <1>7, <3>1, <3>2 DEF CreateOk
    <3>3. CASE x \notin Born
      BY <1>3, <3>1, <3>3 DEF Born, Oauth!Resources
    <3> QED
      BY <3>2, <3>3
  <2> QED
    BY <1>2, <1>3, <1>9, <1>12, <2>1, <2>2, <2>3, <2>4 DEF CreateOk
<1>20. AloneOk(j)'
  <2> SUFFICES ASSUME jobs[j].kind \in {"update", "toggle"}, jobs[j].clean, ~last PROVE AloneOk(j)'
    BY <1>9 DEF AloneOk
  <2>1. /\ Oauth!On(x) = {j} /\ NoStrays(x)
        /\ \A q \in Oauth!Resources \ jobs[j].todo : stored[x][q] \in {"none", Oauth!Flag(jobs[j].enabled)}
    BY <1>2, <1>3, <1>7 DEF AloneOk
  <2>2. \A q \in Oauth!Resources \ jobs'[j].todo : stored'[x][q] \in {"none", Oauth!Flag(jobs[j].enabled)}
    BY <1>3, <1>9, <2>1
  <2>3. Oauth!On(x)' = {j}
    BY <1>3, <1>9, <1>10, <1>12, <2>1 DEF Oauth!On, Oauth!Active
  <2> QED
    BY <1>2, <1>9, <2>1, <2>2, <2>3 DEF AloneOk, NoStrays
<1>21. ASSUME x \notin spoiled' PROVE SettledOk(x)'
  <2>1. Oauth!On(x)' = Oauth!On(x) \cup {j}
    BY <1>3, <1>9, <1>10, <1>12 DEF Oauth!On, Oauth!Active
  <2>2. Oauth!Flag(jobs[j].enabled) \in Oauth!Flags
    BY DEF Oauth!Flag, Oauth!Flags
  <2>3. CASE jobs[j].kind # "create"
    <3>1. j \in Oauth!On(x) /\ jobs[j].kind \in {"update", "toggle"}
      BY <1>3, <2>3 DEF Oauth!On
    <3>2. jobs[j].clean
      <4>1. x \in spoiled \/ SettledOk(x)
        BY <1>3 DEF OauthInv
      <4> QED
        BY <1>2, <1>6, <1>21, <2>3, <3>1, <4>1 DEF SettledOk
    <3>3. /\ Oauth!On(x) = {j} /\ NoStrays(x)
          /\ \A q \in Oauth!Resources \ jobs[j].todo : stored[x][q] \in {"none", Oauth!Flag(jobs[j].enabled)}
      BY <1>2, <1>3, <1>7, <3>1, <3>2 DEF AloneOk
    <3>4. last => Together(x, Oauth!Flag(jobs[j].enabled))'
      <4> SUFFICES ASSUME last, NEW q \in Oauth!Resources
                   PROVE  stored'[x][q] \in {"none", Oauth!Flag(jobs[j].enabled)}
        BY <1>9 DEF Together
      <4> QED
        BY <1>3, <1>5, <3>3
    <3>5. Oauth!On(x)' = {j}
      BY <2>1, <3>3
    <3> QED
      BY <1>2, <1>9, <2>2, <2>3, <3>2, <3>3, <3>4, <3>5 DEF SettledOk, NoStrays, Together
  <2>4. CASE jobs[j].kind = "create"
    <3>1. x \notin spoiled /\ SettledOk(x)
      BY <1>3, <1>6, <1>21, <2>4 DEF OauthInv
    <3>2. Oauth!On(x)' = {j} /\ Together(x, Oauth!Flag(jobs[j].enabled))
      <4>1. CASE x \in Born
        <5>1. j \in Oauth!On(x)
          BY <1>3, <4>1 DEF Oauth!On
        <5> QED
          BY <1>2, <2>1, <2>4, <3>1, <5>1 DEF SettledOk
      <4>2. CASE x \notin Born
        <5>1. Oauth!On(x) = {}
          BY <4>2 DEF OauthInv, AllBorn, Oauth!On
        <5>2. Together(x, Oauth!Flag(jobs[j].enabled))
          BY <1>3, <4>2 DEF Together, Born
        <5> QED
          BY <2>1, <5>1, <5>2
      <4> QED
        BY <4>1, <4>2
    <3>3. \A q \in Oauth!Resources : stored'[x][q] \in {"none", Oauth!Flag(jobs[j].enabled)}
      BY <1>3, <3>2 DEF Together
    <3> QED
      BY <1>2, <1>9, <2>2, <2>4, <3>1, <3>2, <3>3 DEF SettledOk, NoStrays, Together
  <2> QED
    BY <2>3, <2>4
<1>22. \A y \in Accounts \ spoiled' : SettledOk(y)'
  BY <1>6, <1>17, <1>21
<1>23. ShownOk'
  <2>1. Oauth!Active' # {}
    BY <1>12
  <2>2. ~overlapped => Oauth!Active' = {j}
    BY <1>12 DEF OauthInv, ShownOk
  <2>3. jobs'[j].step = "load" => Oauth!Resources \ jobs'[j].todo = {}
    BY <1>9
  <2> QED
    BY <1>2, <2>1, <2>2, <2>3 DEF ShownOk
<1>24. \A i \in Oauth!Active' : KindOk(i)' /\ CreateOk(i)' /\ AloneOk(i)'
  BY <1>12, <1>17, <1>18, <1>19, <1>20
<1> QED
  BY <1>4, <1>15, <1>16, <1>22, <1>23, <1>24 DEF OauthInv

\* What has been known of the accounts of the calls and of the rows stays true.
LEMMA BornKept ==
  ASSUME OauthInv, Born \subseteq Born',
         \A row \in state'.accounts \cup view'.accounts : row.account \in Born',
         \A i \in Oauth!Active' :
           i \in Oauth!Active /\ jobs'[i].account = jobs[i].account /\ jobs'[i].read = jobs[i].read
  PROVE  AllBorn'
<1>1. \A i \in Oauth!Active :
        /\ jobs[i].account # NoAccount => jobs[i].account \in Born
        /\ \A x \in Accounts : jobs[i].read["integration"][x] # "none" => x \in Born
  BY DEF OauthInv, AllBorn
<1>2. \A i \in Oauth!Active' :
        /\ jobs'[i].account # NoAccount => jobs'[i].account \in Born'
        /\ \A x \in Accounts : jobs'[i].read["integration"][x] # "none" => x \in Born'
  BY <1>1
<1> QED
  BY <1>2 DEF AllBorn

\* The calls under way once one has ended.
LEMMA EndJobs ==
  ASSUME OauthInv, NEW j \in Oauth!Active, jobs' = [jobs EXCEPT ![j] = NoAccountJob]
  PROVE  /\ jobs' \in [Jobs -> Oauth!JobRecords \cup {NoAccountJob}]
         /\ Oauth!Active' = Oauth!Active \ {j}
         /\ \A i \in Oauth!Active \ {j} :
              /\ jobs'[i] = jobs[i] /\ jobs'[i] \in Oauth!JobRecords /\ jobs'[i].todo # {}
              /\ jobs'[i].step = "undo" => jobs'[i].account # NoAccount
<1>1. jobs \in [Jobs -> Oauth!JobRecords \cup {NoAccountJob}] /\ j \in Jobs
  BY JobTypes DEF OauthInv, OauthTypes
<1>2. Oauth!Active' = Oauth!Active \ {j}
  BY <1>1 DEF Oauth!Active
<1>3. \A i \in Oauth!Active \ {j} : i \in Jobs /\ jobs'[i] = jobs[i]
  BY <1>1 DEF Oauth!Active
<1> QED
  BY <1>1, <1>2, <1>3, JobTypes

\* A failed call leaves the rows, and the page knows.
LEMMA FailShown ==
  ASSUME OauthInv, NEW j \in Oauth!Active, Oauth!Fail(j), UNCHANGED <<overlapped, foreign>>
  PROVE  /\ state' \in Oauth!States /\ view' = state' /\ state'.status = "error"
         /\ state'.accounts = state.accounts
         /\ ShownOk'
<1>1. /\ state' = [state EXCEPT !.status = "error"] /\ view' = state'
      /\ jobs' = [jobs EXCEPT ![j] = NoAccountJob]
  BY DEF Oauth!Fail
<1>2. state' \in Oauth!States /\ state'.status = "error" /\ state'.accounts = state.accounts
  BY <1>1 DEF OauthInv, OauthTypes, Oauth!States
<1>3. ~overlapped => Oauth!Active' = {}
  <2>1. Oauth!Active' = Oauth!Active \ {j}
    BY <1>1, EndJobs
  <2> QED
    BY <2>1 DEF OauthInv, ShownOk
<1>4. ShownOk'
  BY <1>1, <1>2, <1>3 DEF ShownOk
<1> QED
  BY <1>1, <1>2, <1>4

\* The types once a call has failed.
LEMMA FailTypes ==
  ASSUME OauthInv, NEW j \in Oauth!Active, Oauth!Fail(j), UNCHANGED <<overlapped, foreign, accountDraft>>,
         stored' \in [Accounts -> [Oauth!Resources -> Oauth!Flags]],
         strays' \subseteq [account : Accounts, resource : Oauth!Resources, enabled : BOOLEAN],
         spoiled' \subseteq Accounts, gone' \subseteq Accounts, undone' \subseteq gone'
  PROVE  OauthTypes'
<1>1. /\ state' \in Oauth!States /\ view' = state' /\ state'.status = "error"
      /\ jobs' = [jobs EXCEPT ![j] = NoAccountJob]
  BY FailShown DEF Oauth!Fail
<1>2. /\ jobs' \in [Jobs -> Oauth!JobRecords \cup {NoAccountJob}]
      /\ \A i \in Oauth!Active' :
           /\ jobs'[i] \in Oauth!JobRecords /\ jobs'[i].todo # {}
           /\ jobs'[i].step = "undo" => jobs'[i].account # NoAccount
  BY <1>1, EndJobs
<1>3. Oauth!TypeOK'
  <2>1. state'.accounts \subseteq Oauth!Rows
    BY <1>1 DEF Oauth!States
  <2> QED
    BY <1>1, <1>2, <2>1 DEF OauthInv, OauthTypes, Oauth!TypeOK
<1> QED
  BY <1>1, <1>2, <1>3 DEF OauthInv, OauthTypes

\* What a write leaves that fails, or whose answer gets lost.
LEMMA FailedFacts ==
  ASSUME OauthInv, NEW j \in Oauth!Active, NEW r \in Oauth!InFlight(jobs[j]), jobs[j].step = "write",
         NEW lost \in BOOLEAN,
         IF lost THEN \E x \in Oauth!Subject(jobs[j], r) : Oauth!Carried(jobs[j].kind, x, r, jobs[j].enabled)
                 ELSE UNCHANGED stored,
         UNCHANGED <<gone, undone>>
  PROVE  \E x \in Accounts \cup {NoAccount} :
           /\ jobs[j].account = x \/ (jobs[j].kind = "create" /\ jobs[j].account = NoAccount /\ x \notin Born)
           /\ stored' \in [Accounts -> [Oauth!Resources -> Oauth!Flags]]
           /\ \A y \in Accounts \ {x} : \A q \in Oauth!Resources : stored'[y][q] = stored[y][q]
           /\ Born \subseteq Born' /\ Oauth!NothingLeft'
           /\ \A y \in Accounts : stored[y]["integration"] # "none" => stored'[y]["integration"] # "none"
           /\ x # NoAccount /\ jobs[j].kind # "create" => (stored[x]["client"] = "none" => stored'[x]["client"] = "none")
           /\ ~lost => UNCHANGED stored
           /\ x # jobs[j].account => \E flag \in Oauth!Flags : Together(x, flag)'
<1>1. CASE lost
  <2>1. PICK x \in Oauth!Subject(jobs[j], r) : Oauth!Carried(jobs[j].kind, x, r, jobs[j].enabled)
    BY <1>1
  <2>2. /\ r \in jobs[j].todo /\ jobs[j].kind \in {"create", "update", "toggle"}
        /\ x \in Accounts /\ x # NoAccount
        /\ stored' \in [Accounts -> [Oauth!Resources -> Oauth!Flags]]
        /\ \A y \in Accounts, q \in Oauth!Resources : y # x \/ q # r => stored'[y][q] = stored[y][q]
        /\ r \in Oauth!Resources => stored'[x][r] = Oauth!Flag(jobs[j].enabled)
        /\ \/ /\ jobs[j].kind = "create" /\ r = "integration" /\ jobs[j].account = NoAccount /\ x \notin Born
           \/ jobs[j].account = x /\ (jobs[j].kind = "create" => r # "integration")
        /\ jobs[j].kind # "create" /\ r \in Oauth!Resources => stored[x][r] # "none"
        /\ jobs[j].kind = "create" /\ r \notin {"integration", "secret"} => stored[x]["integration"] # "none"
    BY <2>1, CarriedFacts
  <2>3. /\ Born \subseteq Born'
        /\ x \in Born' /\ Oauth!NothingLeft'
        /\ \A y \in Accounts : stored[y]["integration"] # "none" => stored'[y]["integration"] # "none"
        /\ jobs[j].kind # "create" => (stored[x]["client"] = "none" => stored'[x]["client"] = "none")
    BY <2>1, CarriedKeeps
  <2>4. ASSUME x # jobs[j].account PROVE \E flag \in Oauth!Flags : Together(x, flag)'
    <3>1. PICK flag : flag = Oauth!Flag(jobs[j].enabled) /\ flag \in Oauth!Flags
      BY DEF Oauth!Flag, Oauth!Flags
    <3>2. \A q \in Oauth!Resources : stored[x][q] = "none"
      BY <2>2, <2>4 DEF Born
    <3>3. \A q \in Oauth!Resources : stored'[x][q] \in {"none", flag}
      BY <2>2, <3>1, <3>2
    <3> QED
      BY <3>1, <3>3 DEF Together
  <2> QED
    BY <1>1, <2>2, <2>3, <2>4
<1>2. CASE ~lost
  <2>1. UNCHANGED <<stored, gone, undone>>
    BY <1>2
  <2>2. jobs[j].account \in Accounts \cup {NoAccount}
    BY JobTypes
  <2>3. Born' = Born /\ Oauth!NothingLeft'
    BY <2>1 DEF Born, OauthInv, Oauth!NothingLeft
  <2>4. stored \in [Accounts -> [Oauth!Resources -> Oauth!Flags]]
    BY DEF OauthInv, OauthTypes, Oauth!TypeOK
  <2> QED
    BY <2>1, <2>2, <2>3, <2>4
<1> QED
  BY <1>1, <1>2

\* A write fails: a creation begins to delete what it knows of, any other call ends.
LEMMA OauthFailStep ==
  ASSUME OauthInv, NEW j \in Oauth!Active, NEW r \in Oauth!InFlight(jobs[j]), Oauth!FailWrite(j, r)
  PROVE  OauthInv'
<1>1. PICK lost \in BOOLEAN :
        /\ IF lost THEN \E x \in Oauth!Subject(jobs[j], r) : Oauth!Carried(jobs[j].kind, x, r, jobs[j].enabled)
                   ELSE UNCHANGED stored
        /\ IF jobs[j].kind = "create" /\ Oauth!ToUndo(jobs[j]) # {}
           THEN /\ jobs' = [jobs EXCEPT ![j].step = "undo", ![j].todo = Oauth!ToUndo(jobs[j]), ![j].clean = ~lost]
                /\ UNCHANGED <<state, view, notice>>
           ELSE Oauth!Fail(j)
  BY DEF Oauth!FailWrite
<1>2. /\ jobs[j].step = "write" /\ UNCHANGED <<gone, accountDraft, undone, overlapped, foreign>>
      /\ strays' = strays \cup {[account |-> jobs[j].account, resource |-> q, enabled |-> jobs[j].enabled]
                                   : q \in (IF jobs[j].kind = "toggle" THEN jobs[j].todo \ {r} ELSE {})}
      /\ spoiled' = spoiled \cup ({jobs[j].account} \cap Accounts)
  BY DEF Oauth!FailWrite
<1>3. PICK x \in Accounts \cup {NoAccount} :
        /\ jobs[j].account = x \/ (jobs[j].kind = "create" /\ jobs[j].account = NoAccount /\ x \notin Born)
        /\ stored' \in [Accounts -> [Oauth!Resources -> Oauth!Flags]]
        /\ \A y \in Accounts \ {x} : \A q \in Oauth!Resources : stored'[y][q] = stored[y][q]
        /\ Born \subseteq Born' /\ Oauth!NothingLeft'
        /\ \A y \in Accounts : stored[y]["integration"] # "none" => stored'[y]["integration"] # "none"
        /\ x # NoAccount /\ jobs[j].kind # "create" => (stored[x]["client"] = "none" => stored'[x]["client"] = "none")
        /\ ~lost => UNCHANGED stored
        /\ x # jobs[j].account => \E flag \in Oauth!Flags : Together(x, flag)'
  BY <1>1, <1>2, FailedFacts
<1>4. /\ j \in Jobs /\ jobs[j] \in Oauth!JobRecords /\ jobs[j].enabled \in BOOLEAN
      /\ jobs[j].account \in Accounts \cup {NoAccount}
      /\ jobs[j].kind \in {"load", "create", "update", "toggle"} /\ KindOk(j) /\ CreateOk(j)
  BY JobTypes
<1>5. /\ strays' \subseteq [account : Accounts, resource : Oauth!Resources, enabled : BOOLEAN]
      /\ \A s \in strays' : s \in strays \/ s.account = x
      /\ spoiled' \subseteq Accounts /\ gone' \subseteq Accounts /\ undone' \subseteq gone'
      /\ jobs[j].kind = "create" => strays' = strays
  <2>1. jobs[j].kind = "toggle" => jobs[j].account \in Accounts /\ jobs[j].todo \subseteq Oauth!Resources
    BY <1>4 DEF KindOk
  <2>2. strays' \subseteq [account : Accounts, resource : Oauth!Resources, enabled : BOOLEAN]
    BY <1>2, <1>4, <2>1 DEF OauthInv, OauthTypes, Oauth!TypeOK
  <2>3. /\ \A s \in strays' : s \in strays \/ s.account = x
        /\ jobs[j].kind = "create" => strays' = strays
    BY <1>2, <1>3, <1>4
  <2>4. spoiled' \subseteq Accounts /\ gone' \subseteq Accounts /\ undone' \subseteq gone'
    BY <1>2 DEF OauthInv, OauthTypes, Oauth!TypeOK
  <2> QED
    BY <2>2, <2>3, <2>4
<1>6. /\ state.accounts \subseteq Oauth!Rows /\ view.accounts \subseteq Oauth!Rows
      /\ \A row \in state.accounts \cup view.accounts : row.account \in Born'
  BY <1>3 DEF OauthInv, OauthTypes, Oauth!TypeOK, AllBorn
<1>7. ASSUME Oauth!Active' \ {j} = Oauth!Active \ {j},
             \A i \in Oauth!Active \ {j} : jobs'[i] = jobs[i],
             j \in Oauth!Active' => jobs'[j].account = x /\ jobs'[j].kind = jobs[j].kind
      PROVE  /\ \A i \in Oauth!Active \ {j} : KindOk(i)' /\ CreateOk(i)' /\ AloneOk(i)'
             /\ \A y \in Accounts \ (spoiled \cup {x}) : SettledOk(y)'
  <2>1. jobs[j].account = x \/ (jobs[j].account = NoAccount /\ x \notin Born)
    BY <1>3
  <2>2. x # NoAccount /\ jobs[j].kind # "create" =>
           /\ stored[x]["integration"] # "none" => stored'[x]["integration"] # "none"
           /\ stored[x]["client"] = "none" => stored'[x]["client"] = "none"
    BY <1>3
  <2>3. gone \subseteq gone' /\ jobs[j].step # "load"
    BY <1>2
  <2> QED
    BY <1>3, <1>5, <1>7, <2>1, <2>2, <2>3, OtherCalls
<1>8. CASE jobs[j].kind = "create" /\ Oauth!ToUndo(jobs[j]) # {}
  <2>1. /\ jobs' = [jobs EXCEPT ![j].step = "undo", ![j].todo = Oauth!ToUndo(jobs[j]), ![j].clean = ~lost]
        /\ UNCHANGED <<state, view>>
    BY <1>1, <1>8
  <2>2. /\ jobs[j].account = x /\ x \in Accounts /\ x # NoAccount /\ x \in spoiled'
        /\ Oauth!ToUndo(jobs[j]) = {"integration"} \cup (IF "client" \in jobs[j].todo THEN {} ELSE {"client"})
    BY <1>2, <1>3, <1>4, <1>8 DEF CreateOk, Oauth!ToUndo
  <2>3. jobs \in [Jobs -> Oauth!JobRecords \cup {NoAccountJob}] /\ (~lost) \in BOOLEAN
    BY DEF OauthInv, OauthTypes
  <2>4. /\ jobs'[j] \in Oauth!JobRecords /\ jobs'[j].account = x
        /\ jobs'[j].kind = "create" /\ jobs'[j].read = jobs[j].read
        /\ jobs'[j].step = "undo" /\ jobs'[j].todo = Oauth!ToUndo(jobs[j]) /\ jobs'[j].clean = ~lost
    BY <1>4, <1>8, <2>1, <2>2, <2>3 DEF Oauth!JobRecords, Oauth!Resources
  <2>5. \A i \in Jobs \ {j} : jobs'[i] = jobs[i]
    BY <2>1, <2>3
  <2>6. jobs' \in [Jobs -> Oauth!JobRecords \cup {NoAccountJob}]
    <3>1. jobs' = [i \in Jobs |-> jobs'[i]]
      BY <2>1, <2>3
    <3> QED
      BY <2>3, <2>4, <2>5, <3>1
  <2>7. Oauth!Active' = Oauth!Active /\ \A i \in Oauth!Active \ {j} : i \in Jobs /\ jobs'[i] = jobs[i]
    BY <1>4, <2>4, <2>5, JobAssumption DEF Oauth!Active
  <2>8. OauthTypes'
    <3>1. ASSUME NEW i \in Oauth!Active'
          PROVE  jobs'[i] \in Oauth!JobRecords /\ jobs'[i].todo # {}
                 /\ (jobs'[i].step = "undo" => jobs'[i].account # NoAccount)
      <4>1. CASE i = j
        BY <2>2, <2>4, <4>1
      <4>2. CASE i # j
        BY <2>7, <4>2, JobTypes
      <4> QED
        BY <4>1, <4>2
    <3>2. Oauth!TypeOK'
      BY <1>2, <1>3, <1>5, <2>1, <3>1 DEF OauthInv, OauthTypes, Oauth!TypeOK
    <3> QED
      BY <1>2, <2>1, <2>6, <3>2 DEF OauthInv, OauthTypes
  <2>9. AllBorn'
    <3>1. \A i \in Oauth!Active' : /\ i \in Oauth!Active /\ jobs'[i].account = jobs[i].account
                                  /\ jobs'[i].read = jobs[i].read
      BY <2>2, <2>4, <2>7
    <3>2. \A row \in state'.accounts \cup view'.accounts : row.account \in Born'
      BY <1>6, <2>1
    <3> QED
      BY <1>3, <3>1, <3>2, BornKept
  <2>10. /\ \A i \in Oauth!Active \ {j} : KindOk(i)' /\ CreateOk(i)' /\ AloneOk(i)'
         /\ \A y \in Accounts \ (spoiled \cup {x}) : SettledOk(y)'
    BY <1>7, <1>8, <2>4, <2>7
  <2>11. KindOk(j)' /\ AloneOk(j)'
    BY <2>4 DEF KindOk, AloneOk
  <2>12. CreateOk(j)'
    <3>1. x \in gone \/ stored'[x]["integration"] # "none"
      BY <1>2, <1>3, <1>4, <1>8, <2>2 DEF CreateOk
    <3>2. ASSUME NEW n \in Oauth!Active, n # j, Creates(n, x)' PROVE FALSE
      <4>1. Creates(n, x)
        BY <2>7, <3>2 DEF Creates
      <4> QED
        BY <1>2, <1>4, <1>8, <2>2, <3>2, <4>1 DEF CreateOk
    <3>3. "client" \notin Oauth!ToUndo(jobs[j]) /\ ~lost => stored'[x]["client"] = "none"
      BY <1>2, <1>3, <1>4, <1>8, <2>2 DEF CreateOk
    <3> QED
      BY <1>2, <2>2, <2>4, <2>7, <3>1, <3>2, <3>3 DEF CreateOk
  <2>13. \A y \in Accounts \ spoiled' : SettledOk(y)'
    BY <1>2, <2>2, <2>10
  <2>14. ShownOk'
    <3>1. Oauth!Active' # {} /\ (~overlapped => Oauth!Active' = {j})
      BY <2>7 DEF OauthInv, ShownOk
    <3> QED
      BY <1>2, <2>4, <3>1 DEF ShownOk
  <2>15. \A i \in Oauth!Active' : KindOk(i)' /\ CreateOk(i)' /\ AloneOk(i)'
    BY <2>7, <2>10, <2>11, <2>12
  <2> QED
    BY <1>3, <2>8, <2>9, <2>13, <2>14, <2>15 DEF OauthInv
<1>9. CASE ~(jobs[j].kind = "create" /\ Oauth!ToUndo(jobs[j]) # {})
  <2>1. Oauth!Fail(j)
    BY <1>1, <1>9
  <2>2. jobs' = [jobs EXCEPT ![j] = NoAccountJob]
    BY <2>1 DEF Oauth!Fail
  <2>3. Oauth!Active' = Oauth!Active \ {j} /\ \A i \in Oauth!Active \ {j} : jobs'[i] = jobs[i]
    BY <2>2, EndJobs
  <2>4. /\ state'.accounts = state.accounts /\ view' = state' /\ ShownOk'
    BY <1>2, <2>1, FailShown
  <2>5. OauthTypes'
    BY <1>2, <1>3, <1>5, <2>1, FailTypes
  <2>6. AllBorn'
    <3>1. \A row \in state'.accounts \cup view'.accounts : row.account \in Born'
      BY <1>6, <2>4
    <3> QED
      BY <1>3, <2>3, <3>1, BornKept
  <2>7. /\ \A i \in Oauth!Active \ {j} : KindOk(i)' /\ CreateOk(i)' /\ AloneOk(i)'
        /\ \A y \in Accounts \ (spoiled \cup {x}) : SettledOk(y)'
    BY <1>7, <2>3
  <2>8. ASSUME x \in Accounts \ spoiled' PROVE SettledOk(x)'
    <3>1. jobs[j].kind = "create" /\ x \notin Born /\ x # jobs[j].account
      BY <1>2, <1>3, <2>8
    <3>2. Oauth!On(x)' = {}
      BY <2>3, <3>1 DEF Oauth!On, OauthInv, AllBorn
    <3>3. NoStrays(x)'
      BY <1>2, <1>5, <2>8, <3>1 DEF OauthInv, SettledOk, NoStrays
    <3> QED
      BY <1>3, <3>1, <3>2, <3>3 DEF SettledOk
  <2>9. \A y \in Accounts \ spoiled' : SettledOk(y)'
    BY <1>2, <2>7, <2>8
  <2>10. \A i \in Oauth!Active' : KindOk(i)' /\ CreateOk(i)' /\ AloneOk(i)'
    BY <2>3, <2>7
  <2> QED
    BY <1>3, <2>4, <2>5, <2>6, <2>9, <2>10 DEF OauthInv
<1> QED
  BY <1>8, <1>9

\* The other calls once one that has no more to write has ended.
LEMMA LoadEnds ==
  ASSUME OauthInv, NEW j \in Oauth!Active, jobs[j].step = "load", jobs' = [jobs EXCEPT ![j] = NoAccountJob],
         UNCHANGED <<stored, strays, gone, spoiled, undone>>
  PROVE  /\ \A i \in Oauth!Active' : KindOk(i)' /\ CreateOk(i)' /\ AloneOk(i)'
         /\ \A x \in Accounts \ spoiled' : SettledOk(x)'
         /\ Born' = Born /\ Oauth!NothingLeft'
<1>1. Oauth!Active' = Oauth!Active \ {j} /\ \A i \in Oauth!Active \ {j} : jobs'[i] = jobs[i]
  BY EndJobs
<1>2. \A x : Oauth!On(x)' = Oauth!On(x) \ {j}
  BY <1>1 DEF Oauth!On
<1>3. Born' = Born /\ Oauth!NothingLeft'
  BY DEF Born, Oauth!NothingLeft, OauthInv
<1>4. ASSUME NEW i \in Oauth!Active \ {j} PROVE KindOk(i)' /\ CreateOk(i)'
  <2>1. KindOk(i) /\ CreateOk(i) /\ jobs'[i] = jobs[i]
    BY <1>1, JobTypes
  <2>2. PICK a : a = jobs[i].account /\ a = jobs'[i].account
    BY <2>1
  <2>3. \A n \in Oauth!Active' : Creates(n, a)' => Creates(n, a) /\ n \in Oauth!Active
    BY <1>1 DEF Creates
  <2> QED
    BY <2>1, <2>2, <2>3 DEF KindOk, CreateOk
<1>5. ASSUME NEW i \in Oauth!Active \ {j} PROVE AloneOk(i)'
  <2>1. AloneOk(i) /\ jobs'[i] = jobs[i]
    BY <1>1, JobTypes
  <2>2. PICK a : a = jobs[i].account /\ a = jobs'[i].account
    BY <2>1
  <2>3. Oauth!On(a) = {i} => Oauth!On(a)' = {i}
    BY <1>2
  <2> QED
    BY <2>1, <2>2, <2>3 DEF AloneOk, NoStrays
<1>6. ASSUME NEW x \in Accounts \ spoiled' PROVE SettledOk(x)'
  <2>1. SettledOk(x)
    BY DEF OauthInv
  <2>2. \A i \in Oauth!On(x)' : i \in Oauth!On(x) /\ i # j /\ jobs'[i] = jobs[i]
    BY <1>1, <1>2 DEF Oauth!On
  <2>3. \A i \in Oauth!On(x)' : Oauth!On(x) = {i} => Oauth!On(x)' = {i}
    BY <1>2, <2>2
  <2>4. (\A i \in Oauth!On(x)' : jobs'[i].step = "load") => \A i \in Oauth!On(x) : jobs[i].step = "load"
    BY <1>2, <2>2
  <2> QED
    BY <2>1, <2>2, <2>3, <2>4 DEF SettledOk, NoStrays, Together
<1> QED
  BY <1>1, <1>3, <1>4, <1>5, <1>6

\* The lists cannot be read.
LEMMA FailReadStep ==
  ASSUME OauthInv, NEW j \in Oauth!Active, Oauth!FailRead(j)
  PROVE  OauthInv'
<1>1. /\ jobs[j].step = "load" /\ Oauth!Fail(j)
      /\ UNCHANGED <<stored, strays, gone, accountDraft, spoiled, undone, overlapped, foreign>>
  BY DEF Oauth!FailRead, Oauth!iam, Oauth!aux
<1>2. jobs' = [jobs EXCEPT ![j] = NoAccountJob]
  BY <1>1 DEF Oauth!Fail
<1>3. Oauth!Active' = Oauth!Active \ {j} /\ \A i \in Oauth!Active \ {j} : jobs'[i] = jobs[i]
  BY <1>2, EndJobs
<1>4. state'.accounts = state.accounts /\ view' = state' /\ ShownOk'
  BY <1>1, FailShown
<1>5. /\ \A i \in Oauth!Active' : KindOk(i)' /\ CreateOk(i)' /\ AloneOk(i)'
      /\ \A x \in Accounts \ spoiled' : SettledOk(x)'
      /\ Born' = Born /\ Oauth!NothingLeft'
  BY <1>1, <1>2, LoadEnds
<1>6. OauthTypes'
  BY <1>1, FailTypes DEF OauthInv, OauthTypes, Oauth!TypeOK
<1>7. AllBorn'
  <2>1. \A row \in state'.accounts \cup view'.accounts : row.account \in Born'
    BY <1>4, <1>5 DEF OauthInv, AllBorn
  <2> QED
    BY <1>3, <1>5, <2>1, BornKept
<1> QED
  BY <1>4, <1>5, <1>6, <1>7 DEF OauthInv

\* The rows of the lists that were read.
LEMMA ReadRows ==
  ASSUME OauthInv, NEW j \in Oauth!Active, NEW r \in Oauth!Resources,
         NEW read, read = [jobs[j].read EXCEPT ![r] = Oauth!Column(r)]
  PROVE  /\ read \in [Oauth!Resources -> [Accounts -> Oauth!Flags]]
         /\ \A x \in Accounts : read["integration"][x] # "none" => x \in Born
         /\ Oauth!ToAccounts(read) \subseteq Oauth!Rows
         /\ \A row \in Oauth!ToAccounts(read) : row.account \in Born
<1>1. jobs[j].read \in [Oauth!Resources -> [Accounts -> Oauth!Flags]]
  BY JobTypes
<1>2. Oauth!Column(r) \in [Accounts -> Oauth!Flags]
  BY DEF Oauth!Column, OauthInv, OauthTypes, Oauth!TypeOK
<1>3. read \in [Oauth!Resources -> [Accounts -> Oauth!Flags]]
  BY <1>1, <1>2
<1>4. ASSUME NEW x \in Accounts, read["integration"][x] # "none" PROVE x \in Born
  <2>1. CASE r = "integration"
    BY <1>1, <1>4, <2>1 DEF Oauth!Column, Born
  <2>2. CASE r # "integration"
    BY <1>1, <1>4, <2>2 DEF OauthInv, AllBorn, Oauth!Resources
  <2> QED
    BY <2>1, <2>2
<1>5. ASSUME NEW row \in Oauth!ToAccounts(read) PROVE row \in Oauth!Rows /\ row.account \in Born
  <2>1. PICK x \in {x \in Accounts : read["integration"][x] # "none"} :
          row = [account |-> x, enabled |-> read["integration"][x] = "on",
                 client |-> read["client"][x] # "none", surface |-> read["surface"][x] # "none"]
    BY DEF Oauth!ToAccounts
  <2> QED
    BY <1>4, <2>1 DEF Oauth!Rows
<1> QED
  BY <1>3, <1>4, <1>5

\* One of the lists is read.
LEMMA ReadStep ==
  ASSUME OauthInv, NEW j \in Oauth!Active, NEW r \in Oauth!InFlight(jobs[j]), Oauth!Read(j, r)
  PROVE  OauthInv'
<1>1. /\ jobs[j].step = "load" /\ jobs[j].todo # {r} /\ r \in jobs[j].todo
      /\ jobs' = [jobs EXCEPT ![j].todo = @ \ {r}, ![j].read[r] = Oauth!Column(r)]
      /\ UNCHANGED <<stored, strays, gone, state, view, accountDraft, spoiled, undone, overlapped, foreign>>
  BY DEF Oauth!Read, Oauth!InFlight, Oauth!iam, Oauth!pageState, Oauth!aux
<1>2. /\ j \in Jobs /\ jobs[j] \in Oauth!JobRecords /\ KindOk(j) /\ r \in Oauth!Resources
      /\ jobs \in [Jobs -> Oauth!JobRecords \cup {NoAccountJob}]
  BY <1>1, JobTypes DEF OauthInv, OauthTypes, KindOk
<1>3. PICK read : read = [jobs[j].read EXCEPT ![r] = Oauth!Column(r)]
  OBVIOUS
<1>4. /\ read \in [Oauth!Resources -> [Accounts -> Oauth!Flags]]
      /\ \A x \in Accounts : read["integration"][x] # "none" => x \in Born
  BY <1>2, <1>3, ReadRows
<1>5. /\ jobs'[j] \in Oauth!JobRecords /\ jobs'[j].kind = jobs[j].kind /\ jobs'[j].account = jobs[j].account
      /\ jobs'[j].step = "load" /\ jobs'[j].todo = jobs[j].todo \ {r} /\ jobs'[j].read = read
  BY <1>1, <1>2, <1>3, <1>4 DEF Oauth!JobRecords
<1>6. \A i \in Jobs \ {j} : jobs'[i] = jobs[i]
  BY <1>1, <1>2
<1>7. jobs' \in [Jobs -> Oauth!JobRecords \cup {NoAccountJob}]
  <2>1. jobs' = [i \in Jobs |-> jobs'[i]]
    BY <1>1, <1>2
  <2> QED
    BY <1>2, <1>5, <1>6, <2>1
<1>8. Oauth!Active' = Oauth!Active /\ \A i \in Oauth!Active \ {j} : jobs'[i] = jobs[i]
  BY <1>2, <1>5, <1>6, JobAssumption DEF Oauth!Active
<1>9. /\ \A i \in Oauth!Active : jobs'[i].account = jobs[i].account /\ jobs'[i].step = jobs[i].step
      /\ \A i \in Oauth!Active : jobs'[i].kind = jobs[i].kind
      /\ \A i \in Oauth!Active : jobs[i].step # "load" => jobs'[i] = jobs[i]
  BY <1>1, <1>5, <1>8
<1>10. \A x : Oauth!On(x)' = Oauth!On(x)
  BY <1>8, <1>9 DEF Oauth!On
<1>11. Born' = Born /\ Oauth!NothingLeft'
  BY <1>1 DEF Born, Oauth!NothingLeft, OauthInv
<1>12. OauthTypes'
  <2>1. ASSUME NEW i \in Oauth!Active'
        PROVE  jobs'[i] \in Oauth!JobRecords /\ jobs'[i].todo # {}
               /\ (jobs'[i].step = "undo" => jobs'[i].account # NoAccount)
    <3>1. CASE i = j
      BY <1>1, <1>5, <3>1
    <3>2. CASE i # j
      BY <1>8, <3>2, JobTypes
    <3> QED
      BY <3>1, <3>2
  <2>2. Oauth!TypeOK'
    BY <1>1, <2>1 DEF OauthInv, OauthTypes, Oauth!TypeOK
  <2> QED
    BY <1>1, <1>7, <2>2 DEF OauthInv, OauthTypes
<1>13. AllBorn'
  <2>1. \A i \in Oauth!Active' :
          /\ jobs'[i].account # NoAccount => jobs'[i].account \in Born'
          /\ \A x \in Accounts : jobs'[i].read["integration"][x] # "none" => x \in Born'
    BY <1>4, <1>5, <1>8, <1>9, <1>11 DEF OauthInv, AllBorn
  <2>2. \A row \in state'.accounts \cup view'.accounts : row.account \in Born'
    BY <1>1, <1>11 DEF OauthInv, AllBorn
  <2> QED
    BY <2>1, <2>2 DEF AllBorn
<1>14. ASSUME NEW i \in Oauth!Active' PROVE KindOk(i)' /\ CreateOk(i)' /\ AloneOk(i)'
  <2>1. CASE i = j
    BY <1>1, <1>2, <1>5, <2>1 DEF KindOk, CreateOk, AloneOk
  <2>2. CASE i # j
    <3>1. jobs'[i] = jobs[i] /\ KindOk(i) /\ CreateOk(i) /\ AloneOk(i)
      BY <1>8, <2>2, JobTypes
    <3>2. PICK a : a = jobs[i].account /\ a = jobs'[i].account
      BY <3>1
    <3>3. \A n \in Oauth!Active' : Creates(n, a)' => Creates(n, a) /\ n \in Oauth!Active
      BY <1>8, <1>9 DEF Creates
    <3>4. KindOk(i)' /\ CreateOk(i)'
      <4>1. UNCHANGED <<stored, gone>>
        BY <1>1
      <4> QED
        BY <3>1, <3>2, <3>3, <4>1 DEF KindOk, CreateOk
    <3>5. AloneOk(i)'
      BY <1>1, <1>10, <3>1, <3>2 DEF AloneOk, NoStrays
    <3> QED
      BY <3>4, <3>5
  <2> QED
    BY <2>1, <2>2
<1>15. ASSUME NEW x \in Accounts \ spoiled' PROVE SettledOk(x)'
  <2>1. SettledOk(x) /\ Oauth!On(x)' = Oauth!On(x)
    BY <1>1, <1>10 DEF OauthInv
  <2>2. \A i \in Oauth!On(x) : jobs'[i].step = jobs[i].step /\ (jobs[i].step # "load" => jobs'[i] = jobs[i])
    BY <1>9 DEF Oauth!On
  <2>3. UNCHANGED <<stored, strays>>
    BY <1>1
  <2>4. \A flag : Together(x, flag)' <=> Together(x, flag)
    BY <2>3 DEF Together
  <2>5. ASSUME NEW i \in Oauth!On(x), jobs'[i].step = "write"
        PROVE  IF jobs'[i].kind = "create"
               THEN Oauth!On(x)' = {i} /\ Together(x, Oauth!Flag(jobs[i].enabled))'
               ELSE jobs'[i].clean
    <3>1. jobs'[i] = jobs[i] /\ jobs[i].step = "write"
      BY <2>2, <2>5
    <3>2. PICK flag : flag = Oauth!Flag(jobs[i].enabled) /\ flag = Oauth!Flag(jobs'[i].enabled)
      BY <3>1
    <3>3. IF jobs[i].kind = "create" THEN Oauth!On(x) = {i} /\ Together(x, flag) ELSE jobs[i].clean
      BY <2>1, <3>1, <3>2 DEF SettledOk
    <3> QED
      BY <2>1, <2>3, <3>1, <3>2, <3>3 DEF Together
  <2> QED
    BY <2>1, <2>2, <2>3, <2>4, <2>5 DEF SettledOk, NoStrays
<1>16. ShownOk'
  <2>1. \A q \in Oauth!Resources : Oauth!Column(q)' = Oauth!Column(q)
    BY <1>1 DEF Oauth!Column
  <2>2. j \in Oauth!Active' /\ (~overlapped => \A i \in Oauth!Active' : i = j)
    BY <1>8 DEF OauthInv, ShownOk
  <2>3. ~overlapped /\ ~foreign => \A q \in Oauth!Resources \ (jobs[j].todo \ {r}) : read[q] = Oauth!Column(q)
    <3> SUFFICES ASSUME ~overlapped, ~foreign, NEW q \in Oauth!Resources, q \notin jobs[j].todo \/ q = r
                 PROVE  read[q] = Oauth!Column(q)
      OBVIOUS
    <3>1. jobs[j].read \in [Oauth!Resources -> [Accounts -> Oauth!Flags]]
      BY JobTypes
    <3>2. q \notin jobs[j].todo => jobs[j].read[q] = Oauth!Column(q)
      BY <1>1 DEF OauthInv, ShownOk
    <3> QED
      BY <1>1, <1>3, <3>1, <3>2
  <2> QED
    BY <1>1, <1>5, <2>1, <2>2, <2>3 DEF ShownOk
<1> QED
  BY <1>11, <1>12, <1>13, <1>14, <1>15, <1>16 DEF OauthInv

\* The last of the lists is read.
LEMMA LoadedStep ==
  ASSUME OauthInv, NEW j \in Oauth!Active, NEW r \in Oauth!InFlight(jobs[j]), Oauth!Loaded(j, r)
  PROVE  OauthInv'
<1>1. PICK read : read = [jobs[j].read EXCEPT ![r] = Oauth!Column(r)]
  OBVIOUS
<1>2. /\ jobs[j].step = "load" /\ jobs[j].todo = {r} /\ jobs' = [jobs EXCEPT ![j] = NoAccountJob]
      /\ state' = [status |-> "ready", accounts |-> Oauth!ToAccounts(read), loaded |-> TRUE]
      /\ view' = state' /\ accountDraft' \in {NoAccountDraft, accountDraft}
      /\ UNCHANGED <<stored, strays, gone, spoiled, undone, overlapped, foreign>>
  BY <1>1 DEF Oauth!Loaded, Oauth!iam, Oauth!aux
<1>3. r \in Oauth!Resources
  BY <1>2, JobTypes DEF KindOk
<1>4. Oauth!ToAccounts(read) \subseteq Oauth!Rows /\ \A row \in Oauth!ToAccounts(read) : row.account \in Born
  BY <1>1, <1>3, ReadRows
<1>5. /\ Oauth!Active' = Oauth!Active \ {j}
      /\ jobs' \in [Jobs -> Oauth!JobRecords \cup {NoAccountJob}]
      /\ \A i \in Oauth!Active \ {j} :
           /\ jobs'[i] = jobs[i] /\ jobs'[i] \in Oauth!JobRecords /\ jobs'[i].todo # {}
           /\ jobs'[i].step = "undo" => jobs'[i].account # NoAccount
  BY <1>2, EndJobs
<1>6. /\ \A i \in Oauth!Active' : KindOk(i)' /\ CreateOk(i)' /\ AloneOk(i)'
      /\ \A x \in Accounts \ spoiled' : SettledOk(x)'
      /\ Born' = Born /\ Oauth!NothingLeft'
  BY <1>2, LoadEnds
<1>7. state' \in Oauth!States /\ state'.status = "ready" /\ state'.accounts = Oauth!ToAccounts(read)
  BY <1>2, <1>4 DEF Oauth!States
<1>8. OauthTypes'
  <2>1. Oauth!TypeOK'
    BY <1>2, <1>4, <1>5, <1>7 DEF OauthInv, OauthTypes, Oauth!TypeOK
  <2> QED
    BY <1>2, <1>5, <1>7, <2>1 DEF OauthInv, OauthTypes
<1>9. AllBorn'
  <2>1. \A row \in state'.accounts \cup view'.accounts : row.account \in Born'
    BY <1>2, <1>4, <1>6, <1>7
  <2> QED
    BY <1>5, <1>6, <2>1, BornKept
<1>10. ShownOk'
  <2>1. ~overlapped => Oauth!Active' = {}
    BY <1>5 DEF OauthInv, ShownOk
  <2>2. ~overlapped /\ ~foreign => Oauth!ToAccounts(read) = Listed
    <3> SUFFICES ASSUME ~overlapped, ~foreign PROVE Oauth!ToAccounts(read) = Listed
      OBVIOUS
    <3>1. jobs[j].read \in [Oauth!Resources -> [Accounts -> Oauth!Flags]]
      BY JobTypes
    <3>2. \A q \in Oauth!Resources \ {r} : jobs[j].read[q] = Oauth!Column(q)
      BY <1>2 DEF OauthInv, ShownOk
    <3>3. read = [q \in Oauth!Resources |-> Oauth!Column(q)]
      BY <1>1, <1>3, <3>1, <3>2
    <3> QED
      BY <3>3 DEF Listed
  <2>3. Listed' = Listed
    BY <1>2 DEF Listed, Oauth!ToAccounts, Oauth!Column
  <2> QED
    BY <1>2, <1>7, <2>1, <2>2, <2>3 DEF ShownOk
<1> QED
  BY <1>6, <1>8, <1>9, <1>10 DEF OauthInv

\* A deletion of a creation that failed ends: the client first, the integration last.
LEMMA UndoStep ==
  ASSUME OauthInv, NEW j \in Oauth!Active, NEW r \in Oauth!InFlight(jobs[j]), Oauth!Undo(j, r)
  PROVE  OauthInv'
<1>1. PICK x : x = jobs[j].account
  OBVIOUS
<1>2. PICK done \in BOOLEAN :
        /\ stored' = IF done THEN [stored EXCEPT ![x][r] = "none"] ELSE stored
        /\ gone' = IF done /\ r = "integration" THEN gone \cup {x} ELSE gone
        /\ undone' = IF jobs[j].todo = {r} /\ done /\ jobs[j].clean THEN undone \cup {x} ELSE undone
        /\ IF jobs[j].todo = {r}
           THEN Oauth!Fail(j)
           ELSE /\ jobs' = [jobs EXCEPT ![j].todo = @ \ {r}, ![j].clean = @ /\ done]
                /\ UNCHANGED <<state, view, notice>>
  BY <1>1 DEF Oauth!Undo
<1>3. jobs[j].step = "undo" /\ UNCHANGED <<strays, accountDraft, spoiled, overlapped, foreign>>
  BY DEF Oauth!Undo
<1>4. /\ j \in Jobs /\ jobs[j] \in Oauth!JobRecords /\ KindOk(j) /\ CreateOk(j)
      /\ x \in Accounts /\ x # NoAccount /\ jobs[j].kind = "create"
      /\ "integration" \in jobs[j].todo /\ jobs[j].todo \subseteq {"integration", "client"}
      /\ x \in gone \/ stored[x]["integration"] # "none"
      /\ "client" \notin jobs[j].todo /\ jobs[j].clean => stored[x]["client"] = "none"
  BY <1>1, <1>3, JobTypes DEF KindOk, CreateOk
<1>5. /\ r \in jobs[j].todo /\ r \in {"integration", "client"}
      /\ jobs[j].todo = {r} => r = "integration"
      /\ jobs[j].todo # {r} => r = "client"
  <2>1. r \in jobs[j].todo
    BY DEF Oauth!InFlight
  <2>2. "client" \in jobs[j].todo => Oauth!Rank[r] >= Oauth!Rank["client"]
    BY <1>3, <1>4 DEF Oauth!InFlight
  <2>3. "client" \in jobs[j].todo => r # "integration"
    BY <2>2 DEF Oauth!Rank
  <2> QED
    BY <1>4, <2>1, <2>3
<1>6. /\ stored' \in [Accounts -> [Oauth!Resources -> Oauth!Flags]]
      /\ \A y \in Accounts, q \in Oauth!Resources : y # x \/ q # r \/ ~done => stored'[y][q] = stored[y][q]
      /\ done => stored'[x][r] = "none"
  <2>1. stored \in [Accounts -> [Oauth!Resources -> Oauth!Flags]] /\ "none" \in Oauth!Flags /\ r \in Oauth!Resources
    BY <1>5 DEF OauthInv, OauthTypes, Oauth!TypeOK, Oauth!Flags, Oauth!Resources
  <2> QED
    BY <1>2, <1>4, <2>1
<1>7. x \in gone' \/ stored'[x]["integration"] # "none"
  BY <1>2, <1>4, <1>5, <1>6 DEF Oauth!Resources
<1>8. Born \subseteq Born'
  BY <1>2, <1>4, <1>6, <1>7 DEF Born, Oauth!Resources
<1>9. Oauth!NothingLeft'
  <2> SUFFICES ASSUME NEW y \in undone' PROVE stored'[y]["integration"] = "none" /\ stored'[y]["client"] = "none"
    BY DEF Oauth!NothingLeft
  <2>1. CASE y \in undone
    <3>1. y \in Accounts /\ stored[y]["integration"] = "none" /\ stored[y]["client"] = "none"
      BY <2>1 DEF OauthInv, Oauth!NothingLeft, OauthTypes, Oauth!TypeOK
    <3> QED
      BY <1>6, <3>1 DEF Oauth!Resources
  <2>2. CASE y \notin undone
    <3>1. y = x /\ jobs[j].todo = {r} /\ done /\ jobs[j].clean
      BY <1>2, <2>2
    <3> QED
      BY <1>4, <1>5, <1>6, <3>1 DEF Oauth!Resources
  <2> QED
    BY <2>1, <2>2
<1>10. gone' \subseteq Accounts /\ undone' \subseteq gone' /\ spoiled' \subseteq Accounts
  BY <1>2, <1>3, <1>4, <1>5 DEF OauthInv, OauthTypes, Oauth!TypeOK
<1>11. x \in spoiled
  BY <1>1, <1>3, <1>4 DEF OauthInv, SettledOk, Oauth!On
<1>12. /\ strays' \subseteq [account : Accounts, resource : Oauth!Resources, enabled : BOOLEAN]
       /\ \A row \in state.accounts \cup view.accounts : row.account \in Born'
  BY <1>3, <1>8 DEF OauthInv, OauthTypes, Oauth!TypeOK, AllBorn
<1>13. ASSUME Oauth!Active' \ {j} = Oauth!Active \ {j},
              \A i \in Oauth!Active \ {j} : jobs'[i] = jobs[i],
              j \in Oauth!Active' => jobs'[j].account = x /\ jobs'[j].kind = jobs[j].kind
       PROVE  /\ \A i \in Oauth!Active \ {j} : KindOk(i)' /\ CreateOk(i)' /\ AloneOk(i)'
              /\ \A y \in Accounts \ spoiled' : SettledOk(y)'
  <2>1. \A y \in Accounts \ {x} : \A q \in Oauth!Resources : stored'[y][q] = stored[y][q]
    BY <1>6
  <2>2. x \in Accounts \cup {NoAccount} /\ (\A s \in strays' : s \in strays \/ s.account = x)
        /\ gone \subseteq gone' /\ jobs[j].kind = "create" /\ jobs[j].step # "load"
    BY <1>2, <1>3, <1>4
  <2>3. /\ \A i \in Oauth!Active \ {j} : KindOk(i)' /\ CreateOk(i)' /\ AloneOk(i)'
        /\ \A y \in Accounts \ (spoiled \cup {x}) : SettledOk(y)'
    BY <1>1, <1>13, <2>1, <2>2, OtherCalls
  <2> QED
    BY <1>3, <1>11, <2>3
<1>14. CASE jobs[j].todo = {r}
  <2>1. Oauth!Fail(j) /\ jobs' = [jobs EXCEPT ![j] = NoAccountJob]
    BY <1>2, <1>14 DEF Oauth!Fail
  <2>2. Oauth!Active' = Oauth!Active \ {j} /\ \A i \in Oauth!Active \ {j} : jobs'[i] = jobs[i]
    BY <2>1, EndJobs
  <2>3. state'.accounts = state.accounts /\ view' = state' /\ ShownOk'
    BY <1>3, <2>1, FailShown
  <2>4. OauthTypes'
    BY <1>3, <1>6, <1>10, <1>12, <2>1, FailTypes
  <2>5. AllBorn'
    BY <1>8, <1>12, <2>2, <2>3, BornKept
  <2>6. /\ \A i \in Oauth!Active' : KindOk(i)' /\ CreateOk(i)' /\ AloneOk(i)'
        /\ \A y \in Accounts \ spoiled' : SettledOk(y)'
    BY <1>13, <2>2
  <2> QED
    BY <1>9, <2>3, <2>4, <2>5, <2>6 DEF OauthInv
<1>15. CASE jobs[j].todo # {r}
  <2>1. /\ jobs' = [jobs EXCEPT ![j].todo = @ \ {r}, ![j].clean = @ /\ done]
        /\ UNCHANGED <<state, view>>
    BY <1>2, <1>15
  <2>2. jobs \in [Jobs -> Oauth!JobRecords \cup {NoAccountJob}] /\ (jobs[j].clean /\ done) \in BOOLEAN
    BY DEF OauthInv, OauthTypes
  <2>3. /\ jobs'[j] \in Oauth!JobRecords /\ jobs'[j].kind = "create" /\ jobs'[j].account = x
        /\ jobs'[j].step = "undo" /\ jobs'[j].read = jobs[j].read
        /\ jobs'[j].todo = jobs[j].todo \ {r} /\ (jobs'[j].clean => done)
    BY <1>1, <1>3, <1>4, <2>1, <2>2 DEF Oauth!JobRecords
  <2>4. \A i \in Jobs \ {j} : jobs'[i] = jobs[i]
    BY <2>1, <2>2
  <2>5. jobs' \in [Jobs -> Oauth!JobRecords \cup {NoAccountJob}]
    <3>1. jobs' = [i \in Jobs |-> jobs'[i]]
      BY <2>1, <2>2
    <3> QED
      BY <2>2, <2>3, <2>4, <3>1
  <2>6. Oauth!Active' = Oauth!Active /\ \A i \in Oauth!Active \ {j} : jobs'[i] = jobs[i]
    BY <1>4, <2>3, <2>4, JobAssumption DEF Oauth!Active
  <2>7. "integration" \in jobs'[j].todo
    BY <1>4, <1>5, <1>15, <2>3
  <2>8. OauthTypes'
    <3>1. ASSUME NEW i \in Oauth!Active'
          PROVE  jobs'[i] \in Oauth!JobRecords /\ jobs'[i].todo # {}
                 /\ (jobs'[i].step = "undo" => jobs'[i].account # NoAccount)
      <4>1. CASE i = j
        BY <1>4, <2>3, <2>7, <4>1
      <4>2. CASE i # j
        BY <2>6, <4>2, JobTypes
      <4> QED
        BY <4>1, <4>2
    <3>2. Oauth!TypeOK'
      BY <1>3, <1>6, <1>10, <1>12, <2>1, <3>1 DEF OauthInv, OauthTypes, Oauth!TypeOK
    <3> QED
      BY <1>3, <2>1, <2>5, <3>2 DEF OauthInv, OauthTypes
  <2>9. AllBorn'
    <3>1. \A i \in Oauth!Active' :
            i \in Oauth!Active /\ jobs'[i].account = jobs[i].account /\ jobs'[i].read = jobs[i].read
      BY <1>1, <2>3, <2>6
    <3>2. \A row \in state'.accounts \cup view'.accounts : row.account \in Born'
      BY <1>12, <2>1
    <3> QED
      BY <1>8, <3>1, <3>2, BornKept
  <2>10. /\ \A i \in Oauth!Active \ {j} : KindOk(i)' /\ CreateOk(i)' /\ AloneOk(i)'
         /\ \A y \in Accounts \ spoiled' : SettledOk(y)'
    BY <1>4, <1>13, <2>3, <2>6
  <2>11. KindOk(j)' /\ AloneOk(j)'
    BY <2>3 DEF KindOk, AloneOk
  <2>12. CreateOk(j)'
    <3>1. ASSUME NEW n \in Oauth!Active, n # j, Creates(n, x)' PROVE FALSE
      <4>1. Creates(n, x)
        BY <2>6, <3>1 DEF Creates
      <4> QED
        BY <1>1, <1>3, <1>4, <3>1, <4>1 DEF CreateOk
    <3>2. jobs'[j].clean => stored'[x]["client"] = "none"
      BY <1>5, <1>6, <1>15, <2>3
    <3>3. jobs'[j].todo \subseteq {"integration", "client"} /\ "client" \notin jobs'[j].todo
      BY <1>4, <1>5, <1>15, <2>3
    <3> QED
      BY <1>4, <1>7, <2>3, <2>6, <2>7, <3>1, <3>2, <3>3 DEF CreateOk
  <2>13. ShownOk'
    <3>1. Oauth!Active' # {} /\ (~overlapped => Oauth!Active' = {j})
      BY <2>6 DEF OauthInv, ShownOk
    <3> QED
      BY <1>3, <2>3, <3>1 DEF ShownOk
  <2>14. \A i \in Oauth!Active' : KindOk(i)' /\ CreateOk(i)' /\ AloneOk(i)'
    BY <2>6, <2>10, <2>11, <2>12
  <2> QED
    BY <1>9, <2>8, <2>9, <2>10, <2>13, <2>14 DEF OauthInv
<1> QED
  BY <1>14, <1>15

\* What somebody else does to an account: a request nobody waits for is carried out, or the
\* account is deleted.
LEMMA OthersOauthStep ==
  ASSUME OauthInv, NEW a \in Accounts,
         stored' \in [Accounts -> [Oauth!Resources -> Oauth!Flags]], strays' \subseteq strays,
         gone' \subseteq Accounts, undone' \subseteq gone', gone \subseteq gone', foreign',
         UNCHANGED <<jobs, state, view, accountDraft, spoiled, overlapped>>,
         \A y \in Accounts \ {a} : \A q \in Oauth!Resources : stored'[y][q] = stored[y][q],
         \A q \in Oauth!Resources : stored[a][q] = "none" => stored'[a][q] = "none",
         \A q \in Oauth!Resources : stored[a][q] # "none" => stored'[a][q] # "none" \/ a \in gone',
         (\E s \in strays : s.account = a) \/ \A q \in Oauth!Resources : stored'[a][q] = "none",
         \A y \in undone' \ undone : y = a /\ \A q \in Oauth!Resources : stored'[y][q] = "none",
         foreign' \in BOOLEAN
  PROVE  OauthInv'
<1>1. Oauth!Active' = Oauth!Active /\ \A x : Oauth!On(x)' = Oauth!On(x)
  BY DEF Oauth!Active, Oauth!On
<1>2. \A y \in Accounts, q \in Oauth!Resources : stored[y][q] = "none" => stored'[y][q] = "none"
  OBVIOUS
<1>3. Born \subseteq Born'
  BY DEF Born
<1>4. OauthTypes'
  <2>1. Oauth!TypeOK'
    BY <1>1 DEF OauthInv, OauthTypes, Oauth!TypeOK
  <2> QED
    BY <2>1 DEF OauthInv, OauthTypes
<1>5. AllBorn'
  <2>1. \A row \in state'.accounts \cup view'.accounts : row.account \in Born'
    BY <1>3 DEF OauthInv, AllBorn
  <2> QED
    BY <1>1, <1>3, <2>1, BornKept
<1>6. ASSUME NEW i \in Oauth!Active PROVE KindOk(i)' /\ CreateOk(i)'
  <2>1. KindOk(i) /\ CreateOk(i) /\ jobs[i].account \in Accounts \cup {NoAccount}
    BY JobTypes
  <2>2. KindOk(i)'
    BY <2>1 DEF KindOk
  <2>3. CreateOk(i)'
    <3> SUFFICES ASSUME jobs[i].kind = "create", jobs[i].step # "load" PROVE CreateOk(i)'
      BY DEF CreateOk
    <3>1. PICK x : x = jobs[i].account
      OBVIOUS
    <3>2. CASE x = NoAccount
      BY <2>1, <3>1, <3>2 DEF CreateOk
    <3>3. CASE x # NoAccount
      <4>1. x \in gone \/ stored[x]["integration"] # "none" => x \in gone' \/ stored'[x]["integration"] # "none"
        BY <2>1, <3>1, <3>3 DEF Oauth!Resources
      <4>2. stored[x]["client"] = "none" => stored'[x]["client"] = "none"
        BY <1>2, <2>1, <3>1, <3>3 DEF Oauth!Resources
      <4>3. \A n \in Oauth!Active' : Creates(n, x)' => Creates(n, x) /\ n \in Oauth!Active
        BY <1>1 DEF Creates
      <4> QED
        BY <2>1, <3>1, <3>3, <4>1, <4>2, <4>3 DEF CreateOk
    <3> QED
      BY <3>2, <3>3
  <2> QED
    BY <2>2, <2>3
<1>7. ASSUME NEW y \in Accounts, NEW flag, NEW q \in Oauth!Resources, NoStrays(y),
             stored[y][q] \in {"none", flag}
      PROVE  stored'[y][q] \in {"none", flag}
  BY <1>7 DEF NoStrays
<1>8. ASSUME NEW i \in Oauth!Active PROVE AloneOk(i)'
  <2> SUFFICES ASSUME jobs[i].kind \in {"update", "toggle"}, jobs[i].step = "write", jobs[i].clean PROVE AloneOk(i)'
    BY DEF AloneOk
  <2>1. PICK x : x = jobs[i].account
    OBVIOUS
  <2>2. x \in Accounts
    BY <2>1, JobTypes DEF KindOk
  <2>3. /\ Oauth!On(x) = {i} /\ NoStrays(x)
        /\ \A q \in Oauth!Resources \ jobs[i].todo : stored[x][q] \in {"none", Oauth!Flag(jobs[i].enabled)}
    BY <2>1, JobTypes DEF AloneOk
  <2>4. \A q \in Oauth!Resources \ jobs[i].todo : stored'[x][q] \in {"none", Oauth!Flag(jobs[i].enabled)}
    BY <1>7, <2>2, <2>3
  <2> QED
    BY <1>1, <2>1, <2>3, <2>4 DEF AloneOk, NoStrays
<1>9. ASSUME NEW y \in Accounts \ spoiled' PROVE SettledOk(y)'
  <2>1. SettledOk(y) /\ NoStrays(y)' /\ NoStrays(y)
    BY DEF OauthInv, SettledOk, NoStrays
  <2>2. \A flag : Together(y, flag) => Together(y, flag)'
    <3> SUFFICES ASSUME NEW flag, Together(y, flag) PROVE Together(y, flag)'
      OBVIOUS
    <3>1. \A q \in Oauth!Resources : stored'[y][q] \in {"none", flag}
      BY <1>7, <2>1 DEF Together
    <3> QED
      BY <3>1 DEF Together
  <2>3. \A i \in Oauth!On(y) : jobs'[i] = jobs[i]
    OBVIOUS
  <2> QED
    BY <1>1, <2>1, <2>2, <2>3 DEF SettledOk
<1>10. Oauth!NothingLeft'
  <2> SUFFICES ASSUME NEW y \in undone' PROVE stored'[y]["integration"] = "none" /\ stored'[y]["client"] = "none"
    BY DEF Oauth!NothingLeft
  <2>1. y \in Accounts /\ {"integration", "client"} \subseteq Oauth!Resources
    BY DEF Oauth!Resources
  <2> QED
    BY <1>2, <2>1 DEF OauthInv, Oauth!NothingLeft
<1>11. ShownOk'
  BY <1>1 DEF OauthInv, ShownOk
<1> QED
  BY <1>1, <1>4, <1>5, <1>6, <1>8, <1>9, <1>10, <1>11 DEF OauthInv

LEMMA StrayStep ==
  ASSUME OauthInv, NEW s \in strays, Oauth!Stray(s)
  PROVE  OauthInv'
<1>1. PICK a : a = s.account
  OBVIOUS
<1>2. a \in Accounts /\ s.resource \in Oauth!Resources /\ Oauth!Flag(s.enabled) \in Oauth!Flags \ {"none"}
  BY <1>1 DEF OauthInv, OauthTypes, Oauth!TypeOK, Oauth!Flag, Oauth!Flags
<1>3. /\ strays' \subseteq strays /\ foreign' = TRUE
      /\ UNCHANGED <<gone, jobs, state, view, accountDraft, spoiled, undone, overlapped>>
      /\ \/ UNCHANGED stored
         \/ stored[a][s.resource] # "none" /\ stored' = [stored EXCEPT ![a][s.resource] = Oauth!Flag(s.enabled)]
  BY <1>1 DEF Oauth!Stray, Oauth!pageState
<1>4. /\ stored \in [Accounts -> [Oauth!Resources -> Oauth!Flags]]
      /\ gone \subseteq Accounts /\ undone \subseteq gone
  BY DEF OauthInv, OauthTypes, Oauth!TypeOK
<1>5. /\ stored' \in [Accounts -> [Oauth!Resources -> Oauth!Flags]]
      /\ \A y \in Accounts \ {a} : \A q \in Oauth!Resources : stored'[y][q] = stored[y][q]
      /\ \A q \in Oauth!Resources : stored[a][q] = "none" => stored'[a][q] = "none"
      /\ \A q \in Oauth!Resources : stored[a][q] # "none" => stored'[a][q] # "none"
  BY <1>2, <1>3, <1>4
<1> QED
  BY <1>1, <1>2, <1>3, <1>4, <1>5, OthersOauthStep

LEMMA OthersDeleteStep ==
  ASSUME OauthInv, NEW a \in Accounts, Oauth!OthersDelete(a)
  PROVE  OauthInv'
<1>1. /\ stored' = [stored EXCEPT ![a] = [q \in Oauth!Resources |-> "none"]]
      /\ gone' = gone \cup {a} /\ undone' = undone \cup {a} /\ foreign' = TRUE
      /\ UNCHANGED <<strays, jobs, state, view, accountDraft, spoiled, overlapped>>
  BY DEF Oauth!OthersDelete, Oauth!pageState
<1>2. /\ stored \in [Accounts -> [Oauth!Resources -> Oauth!Flags]] /\ "none" \in Oauth!Flags
      /\ gone \subseteq Accounts /\ undone \subseteq gone
  BY DEF OauthInv, OauthTypes, Oauth!TypeOK, Oauth!Flags
<1>3. /\ stored' \in [Accounts -> [Oauth!Resources -> Oauth!Flags]]
      /\ \A y \in Accounts \ {a} : \A q \in Oauth!Resources : stored'[y][q] = stored[y][q]
      /\ \A q \in Oauth!Resources : stored'[a][q] = "none"
  BY <1>1, <1>2
<1>4. /\ strays' \subseteq strays /\ gone' \subseteq Accounts /\ undone' \subseteq gone' /\ gone \subseteq gone'
      /\ foreign' /\ foreign' \in BOOLEAN /\ a \in gone'
      /\ \A y \in undone' \ undone : y = a
  BY <1>1, <1>2
<1> QED
  BY <1>1, <1>3, <1>4, OthersOauthStep

\* Every step of the page, of the controller and of IAM keeps the invariant.
LEMMA OauthStep ==
  ASSUME OauthInv, Oauth!Next \/ UNCHANGED oauthVars
  PROVE  OauthInv'
<1>1. CASE Oauth!Reload \/ Oauth!Submit \/ \E row \in view.accounts : Oauth!Toggle(row)
  BY <1>1, StartingStep
<1>2. CASE \/ Oauth!Close \/ Oauth!Refuse \/ UNCHANGED oauthVars
           \/ \E enabled \in BOOLEAN : \E row \in view.accounts \cup {Oauth!NewRow} : Oauth!Open(row, enabled)
  BY <1>2, PageStep
<1>3. CASE \E j \in Oauth!Active : Oauth!FailRead(j)
  BY <1>3, FailReadStep
<1>4. ASSUME NEW j \in Oauth!Active, NEW r \in Oauth!InFlight(jobs[j]),
             Oauth!Write(j, r) \/ Oauth!FailWrite(j, r) \/ Oauth!Undo(j, r) \/ Oauth!Read(j, r) \/ Oauth!Loaded(j, r)
      PROVE  OauthInv'
  BY <1>4, OauthWriteStep, OauthFailStep, UndoStep, ReadStep, LoadedStep
<1>5. CASE (\E s \in strays : Oauth!Stray(s)) \/ \E a \in Accounts : Oauth!OthersDelete(a)
  BY <1>5, StrayStep, OthersDeleteStep
<1> QED
  BY <1>1, <1>2, <1>3, <1>4, <1>5 DEF Oauth!Next

LEMMA OauthInvariance == Spec => []OauthInv
<1>1. Init => OauthInv
  BY OauthInit DEF Init
<1>2. OauthInv /\ [Next]_vars => OauthInv'
  BY EachByItself, OauthStep
<1> QED
  BY <1>1, <1>2, PTL DEF Spec

\* createAccount: whatever else happens to the account meanwhile, a creation that failed with
\* every answer known, and whose deletions went through, leaves nothing of it behind.
THEOREM LeftNothing == Spec => []NothingLeft
<1>1. OauthInv => NothingLeft
  BY OauthProperties DEF NothingLeft
<1> QED
  BY <1>1, OauthInvariance, PTL

\* setAccountEnabled, updateAccount: the resources of an account agree, however many saves
\* and switches there were, unless calls for it failed, met or knew only a part of it.
THEOREM ChangedTogether == Spec => []EnabledTogether
<1>1. OauthInv => EnabledTogether
  BY OauthProperties DEF EnabledTogether
<1> QED
  BY <1>1, OauthInvariance, PTL

\* load, submit, toggleAccount: once nothing is under way the page has the state of the
\* controller, and lists that were read alone are what is stored.
THEOREM StoredShown == Spec => []ShownIsStored
<1>1. OauthInv => ShownIsStored
  BY OauthProperties DEF ShownIsStored
<1> QED
  BY <1>1, OauthInvariance, PTL

-----------------------------------------------------------------------------
(* The types of all the parts.                                                *)

LEMMA PartInvariance == Spec => [](part \in Parts)
<1>1. Init => part \in Parts
  BY DEF Init
<1>2. part \in Parts /\ [Next]_vars => (part \in Parts)'
  BY EachByItself
<1> QED
  BY <1>1, <1>2, PTL DEF Spec

\* The type invariant of every part, for every value of the constants.
THEOREM TypeCorrect == Spec => []TypeOK
<1>1. CouponInv /\ SwitchesInv /\ OauthInv /\ ClientsInv /\ ConfigInv /\ DetailInv =>
        /\ Coupons!TypeOK /\ Switches!TypeOK /\ Oauth!TypeOK
        /\ Clients!TypeOK /\ Config!TypeOK /\ Detail!TypeOK
  <2>1. ClientsInv => Clients!TypeOK
    <3> SUFFICES ASSUME ClientsInv PROVE Clients!TypeOK
      OBVIOUS
    <3>1. session \in 1 .. MaxSessions /\ session \in Nat
      BY BoundsAssumption DEF ClientsInv
    <3>2. \A n \in DOMAIN cache : cache[n] \in 0 .. session
      BY <3>1 DEF ClientsInv, Clients!ClientsAreOfSession
    <3> QED
      BY <3>1, <3>2 DEF ClientsInv, Clients!TypeOK
  <2> QED
    BY <2>1 DEF CouponInv, CouponTypes, SwitchesInv, SwitchTypes, OauthInv, OauthTypes, ConfigInv, DetailInv,
      DetailTypes
<1>2. ShellInv => (part = "shell" => Shell!TypeOK)
  BY DEF ShellInv
<1>3. part \in Parts /\ Coupons!TypeOK /\ Switches!TypeOK /\ Oauth!TypeOK /\ Prefs!TypeOK /\ Clients!TypeOK
        /\ Config!TypeOK /\ Detail!TypeOK /\ (part = "shell" => Shell!TypeOK) => TypeOK
  BY DEF TypeOK, Parts
<1> QED
  BY <1>1, <1>2, <1>3, PreferencesTyped, PartInvariance, CouponInvariance, SwitchesInvariance,
     OauthInvariance, CountsInvariance, ClientsInvariance, ConfigInvariance, DetailInvariance,
     ShellInvariance, PTL
=============================================================================
