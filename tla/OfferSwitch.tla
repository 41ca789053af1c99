------------------------------ MODULE OfferSwitch ------------------------------
(***************************************************************************)
(* The switch of an offer in the table of the marketing page, by which an  *)
(* operator enables or disables it.                                        *)
(*                                                                         *)
(* No drawer covers the table meanwhile: the operator searches and         *)
(* switches on.  One statusPendingId says which switch is disabled, and    *)
(* the table is read again by the reload of the render in which the switch *)
(* was used, for the query of that time.  The promotion service is         *)
(* external: it carries a switch out at one instant while it is in flight, *)
(* calls of one offer in any order, and any answer may get lost.           *)
(***************************************************************************)
EXTENDS Naturals, Sequences, SequencesExt

CONSTANTS
  Offers,
  NoOffer,
  Queries,      \* what the table can be asked for
  EmptyQuery,   \* what it is first asked for
  MaxSwitches   \* bound: how often the operator uses a switch

VARIABLES
  active,     \* the offers that are enabled, in the service
  listed,     \* the answer in the table: the query, and the offers enabled
  query,      \* the search box
  pause,      \* the table waits before it asks
  reads,      \* list requests in flight, in the order they were sent
  hidden,     \* loading: the rows are not shown
  failed,     \* error: the table shows that it could not be loaded
  switches,   \* calls of updateOfferStatus in flight
  used,       \* how many were made
  statusPendingId,
  chosen,     \* auxiliary: the offers the operator last enabled
  excused,    \* auxiliary: offers whose switch may have been undone
  outrun,     \* auxiliary: the table shows an answer older than one it had
  strayed     \* auxiliary: the table shows the answer to a switch used under another query

table == <<listed, reads, hidden, failed, outrun, strayed>>
calls == <<switches, used, statusPendingId>>
vars == <<active, query, pause, table, calls, chosen, excused>>

\* A list request finds what was so at some time since it was sent.
List(q, by) == [query |-> q, by |-> by, found |-> {active}, late |-> FALSE]

Init ==
  /\ active = {}
  /\ query = EmptyQuery
  /\ listed = [query |-> EmptyQuery, active |-> active]
  /\ pause = FALSE
  /\ reads = <<>>
  /\ hidden = FALSE /\ failed = FALSE
  /\ switches = <<>>
  /\ used = 0
  /\ statusPendingId = NoOffer
  /\ chosen = active
  /\ excused = {}
  /\ outrun = FALSE /\ strayed = FALSE

\* The search box: the pause before the request starts.  Bound: one search.
Search(q) ==
  /\ query = EmptyQuery
  /\ q # query
  /\ query' = q
  /\ pause' = TRUE
  /\ UNCHANGED <<active, table, calls, chosen, excused>>

\* reload.
Reload(q, by) ==
  /\ reads' = Append(reads, List(q, by))
  /\ hidden' = TRUE
  /\ failed' = FALSE
  /\ UNCHANGED <<listed, outrun, strayed>>

\* The pause is over.
SendRequest ==
  /\ pause
  /\ pause' = FALSE
  /\ Reload(query, "table")
  /\ UNCHANGED <<active, query, calls, chosen, excused>>

\* Offers whose switch is under way.
UnderWay == {switches[i].offer : i \in DOMAIN switches}

\* Which switches may be undone once x is used: the end of another one enables it again.
Excused(x) ==
  (excused \ ({x} \ UnderWay)) \cup
    IF UnderWay \ {x} # {} \/ \E i \in DOMAIN reads : reads[i].by = "switch"
    THEN UnderWay \cup {x} ELSE {}

\* toggleStatus up to the call: the other of what the row shows.  The switch of another
\* offer is enabled again, whether its call is over or not.
Toggle(x) ==
  /\ ~hidden
  /\ statusPendingId # x
  /\ used < MaxSwitches
  /\ used' = used + 1
  /\ statusPendingId' = x
  /\ switches' = Append(switches, [offer |-> x, enable |-> x \notin listed.active,
                                   query |-> query, made |-> FALSE])
  /\ chosen' = IF x \in listed.active THEN chosen \ {x} ELSE chosen \cup {x}
  /\ excused' = Excused(x)
  /\ UNCHANGED <<active, query, pause, table>>

\* The service has these offers enabled from now on.
Becomes(offers) ==
  /\ active' = offers
  /\ reads' = [i \in DOMAIN reads |-> [reads[i] EXCEPT !.found = @ \cup {offers}]]

\* A switch is carried out.
Store(i) ==
  /\ ~switches[i].made
  /\ Becomes(IF switches[i].enable THEN active \cup {switches[i].offer}
             ELSE active \ {switches[i].offer})
  /\ switches' = [switches EXCEPT ![i].made = TRUE]
  /\ UNCHANGED <<query, pause, listed, hidden, failed, outrun, strayed, used, statusPendingId,
                 chosen, excused>>

\* Another operator switches an offer; bound: once, until this one does.
OthersSwitch(x) ==
  /\ x \notin excused
  /\ Becomes(IF x \in active THEN active \ {x} ELSE active \cup {x})
  /\ excused' = excused \cup {x}
  /\ UNCHANGED <<query, pause, listed, hidden, failed, outrun, strayed, calls, chosen>>

\* Mutant: the rows are left as they are.
AcceptedUnread(i) ==
  /\ switches[i].made
  /\ switches' = RemoveAt(switches, i)
  /\ statusPendingId' = NoOffer
  /\ UNCHANGED <<active, query, pause, table, used, chosen, excused>>

\* The call is answered: success is told and the rows are read again.
Accepted(i) ==
  /\ switches[i].made
  /\ switches' = RemoveAt(switches, i)
  /\ Reload(switches[i].query, "switch")
  /\ UNCHANGED <<active, query, pause, used, statusPendingId, chosen, excused>>

\* finally: whichever switch is over, none is disabled any more.
Enable(by) == statusPendingId' = IF by = "switch" THEN NoOffer ELSE statusPendingId

\* The call fails, or its answer gets lost.
Refused(i) ==
  /\ switches' = RemoveAt(switches, i)
  /\ Enable("switch")
  /\ excused' = excused \cup {switches[i].offer}
  /\ UNCHANGED <<active, query, pause, table, used, chosen>>

\* List request i is over; the ones sent before it are late from now on.
Over(i) ==
  reads' = RemoveAt([j \in DOMAIN reads |-> [reads[j] EXCEPT !.late = @ \/ j < i]], i)

RowsArrive(i) ==
  /\ Over(i)
  /\ \E found \in reads[i].found : listed' = [query |-> reads[i].query, active |-> found]
  /\ hidden' = FALSE
  /\ outrun' = reads[i].late
  /\ strayed' = (reads[i].by = "switch" /\ reads[i].query # query)
  /\ Enable(reads[i].by)
  /\ UNCHANGED <<active, query, pause, failed, switches, used, chosen, excused>>

\* The rows cannot be read; a switch does not tell.
RowsFail(i) ==
  /\ Over(i)
  /\ hidden' = FALSE
  /\ failed' = TRUE
  /\ Enable(reads[i].by)
  /\ UNCHANGED <<active, query, pause, listed, outrun, strayed, switches, used, chosen, excused>>

Next ==
  \/ \E q \in Queries : Search(q)
  \/ SendRequest
  \/ \E x \in Offers : Toggle(x) \/ OthersSwitch(x)
  \/ \E i \in DOMAIN switches : Store(i) \/ Accepted(i) \/ Refused(i)
  \/ \E i \in DOMAIN reads : RowsArrive(i) \/ RowsFail(i)

Spec == Init /\ [][Next]_vars

-----------------------------------------------------------------------------
(* Properties.                                                                *)

\* The type invariant.
TypeOK ==
  /\ {active, listed.active, chosen, excused} \subseteq SUBSET Offers
  /\ {query, listed.query} \subseteq Queries
  /\ {pause, hidden, failed, outrun, strayed} \subseteq BOOLEAN
  /\ \A i \in DOMAIN reads : reads[i].found # {} /\ reads[i].query \in Queries
  /\ \A i \in DOMAIN switches : switches[i].offer \in Offers
  /\ used \in 0 .. MaxSwitches /\ statusPendingId \in Offers \cup {NoOffer}

\* toggleStatus, reload: once all is over, the table shows every offer as the operator last
\* chose, unless its switch failed, another operator used it, or a second offer was
\* switched before the first was done; and shows what the search box says, unless the
\* search went on during a switch or answers came out of order.
ChoiceIsShown ==
  switches = <<>> /\ reads = <<>> /\ ~pause /\ ~failed /\ ~outrun =>
    /\ \A x \in Offers \ excused : x \in listed.active <=> x \in chosen
    /\ listed.query = query \/ strayed
=============================================================================
