---------------------------- MODULE ConsoleLists ----------------------------
(***************************************************************************)
(* Pages that show the answer to a query which the user changes while      *)
(* calls are under way: the journal, which searches the audit log page by  *)
(* page, the reports, the events of the selected session, and the preview  *)
(* of the rules of the selected resource.  One page is mounted at a time.  *)
(*                                                                         *)
(* An effect that starts a call makes the calls before it stale, by a      *)
(* request number (the journal) or by the flag its cleanup clears (the     *)
(* others); both are requestRef here.  The n-th event that matches a query *)
(* is the row [q |-> query, n |-> n]; newer events have larger numbers.    *)
(***************************************************************************)
EXTENDS Naturals, Sequences, FiniteSets

CONSTANTS
  Texts,         \* what may be typed in the journal's search box
  Selections,    \* the journal's other filters together
  Periods, Sessions, Nodes,
  NoText, NoSelection, Today, NoSession, NoNode,   \* where each page starts
  PAGE_SIZE,
  MaxEvents,     \* bound: events of the log
  MaxRequests,   \* bound: searches
  MaxPending     \* bound: calls not answered

Filters == [text : Texts, sel : Selections]
Key(p, v) == [page |-> p, key |-> v]
Queries == {Key("journal", f) : f \in Filters} \cup {Key("reports", x) : x \in Periods}
           \cup {Key("sessions", x) : x \in Sessions} \cup {Key("map", x) : x \in Nodes}

ASSUME ListsAssumption ==
  /\ NoText \in Texts /\ NoSelection \in Selections
  /\ Today \in Periods /\ NoSession \in Sessions /\ NoNode \in Nodes
  /\ PAGE_SIZE \in Nat \ {0} /\ MaxEvents \in Nat \ {0}
  /\ MaxRequests \in Nat \ {0} /\ MaxPending \in Nat \ {0}

VARIABLES
  log,         \* events in the audit log
  purged,      \* the oldest of them, in archives that are gone
  query,       \* the page that is open and what it asks for
  typed,       \* the search box of the journal
  items,       \* rows on screen
  next,        \* cursor of the next page; 0: none
  waiting,     \* search.loading / loading
  more,        \* search.more
  requestRef,
  pending      \* calls not answered: request, query, cursor

auditLog == <<log, purged>>
listVars == <<auditLog, query, typed, items, next, waiting, more, requestRef, pending>>

Opening(p) ==
  CASE p = "journal" -> Key(p, [text |-> NoText, sel |-> NoSelection])
    [] p = "reports" -> Key(p, Today)
    [] p = "sessions" -> Key(p, NoSession)
    [] OTHER -> Key(p, NoNode)

ListsTypeOK ==
  /\ log \in 1 .. MaxEvents /\ purged \in 0 .. MaxEvents
  /\ query \in Queries /\ typed \in Texts
  /\ items \in Seq([q : Queries, n : 1 .. MaxEvents])
  /\ next \in 0 .. MaxEvents /\ waiting \in BOOLEAN /\ more \in BOOLEAN
  /\ requestRef \in 1 .. MaxRequests
  /\ pending \subseteq [request : 1 .. MaxRequests, q : Queries, cursor : 0 .. MaxEvents]

(* The journal is open and its first search is under way.                  *)
ListsInit ==
  /\ log = 1 /\ purged = 0
  /\ query = Opening("journal") /\ typed = NoText /\ items = <<>> /\ next = 0
  /\ waiting = TRUE /\ more = FALSE /\ requestRef = 1
  /\ pending = {[request |-> 1, q |-> Opening("journal"), cursor |-> 0]}

On(p) == query.page = p

(* The effect that loads what the page now asks for; without a session or  *)
(* a resource selected there is nothing to load.                           *)
Search(rest, q) ==
  /\ requestRef < MaxRequests /\ Cardinality(rest) < MaxPending
  /\ requestRef' = requestRef + 1 /\ query' = q
  /\ waiting' = (q \notin {Opening("sessions"), Opening("map")})
  /\ pending' = rest \cup
       IF waiting' THEN {[request |-> requestRef + 1, q |-> q, cursor |-> 0]} ELSE {}

-----------------------------------------------------------------------------
(* What the user asks for.                                                 *)

OpenPage(p) ==
  /\ ~On(p) /\ Search(pending, Opening(p))
  /\ typed' = NoText /\ items' = <<>> /\ next' = 0 /\ more' = FALSE
  /\ UNCHANGED auditLog

Type(x) ==
  /\ On("journal") /\ x # typed /\ typed' = x
  /\ UNCHANGED <<auditLog, query, items, next, waiting, more, requestRef, pending>>

(* 300 ms after the last key the text becomes a filter.                    *)
SearchTimer ==
  /\ On("journal") /\ typed # query.key.text
  /\ Search(pending, Key("journal", [query.key EXCEPT !.text = typed]))
  /\ UNCHANGED <<auditLog, typed, items, next, more>>

(* Family, actor, category, dates, session: at once.  The rows stay.       *)
SetFilter(s) ==
  /\ On("journal") /\ s # query.key.sel
  /\ Search(pending, Key("journal", [query.key EXCEPT !.sel = s]))
  /\ UNCHANGED <<auditLog, typed, items, next, more>>
resetFilters ==
  /\ On("journal") /\ items = <<>> /\ ~waiting
  /\ typed # NoText \/ query.key.sel # NoSelection
  /\ typed' = NoText
  /\ IF query.key.sel # NoSelection
     THEN Search(pending, Key("journal", [query.key EXCEPT !.sel = NoSelection]))
     ELSE UNCHANGED <<query, waiting, requestRef, pending>>
  /\ UNCHANGED <<auditLog, items, next, more>>

RefreshPage ==
  /\ On("journal") \/ On("reports")
  /\ ~waiting /\ Search(pending, query)
  /\ UNCHANGED <<auditLog, typed, items, next, more>>

(* The report before stays on screen until the new one is there.           *)
SetPeriod(x) ==
  /\ On("reports") /\ x # query.key /\ Search(pending, Key("reports", x))
  /\ UNCHANGED <<auditLog, typed, items, next, more>>

(* The events of the session, and the preview of the resource, before are  *)
(* cleared at once.                                                        *)
useSessionEvents(x) ==
  /\ On("sessions") /\ x # query.key /\ Search(pending, Key("sessions", x))
  /\ items' = <<>> /\ UNCHANGED <<auditLog, typed, next, more>>
SelectResource(x) ==
  /\ On("map") /\ x # query.key /\ Search(pending, Key("map", x))
  /\ items' = <<>> /\ UNCHANGED <<auditLog, typed, next, more>>

(* The button is disabled while a search or another page is loading.       *)
loadMore ==
  /\ On("journal") /\ next # 0 /\ ~more /\ ~waiting /\ Cardinality(pending) < MaxPending
  /\ more' = TRUE
  /\ pending' = pending \cup {[request |-> requestRef, q |-> query, cursor |-> next]}
  /\ UNCHANGED <<auditLog, query, typed, items, next, waiting, requestRef>>

-----------------------------------------------------------------------------
(* The answers.                                                            *)

Rows(q, hi, lo) == [i \in 1 .. (hi + 1 - lo) |-> [q |-> q, n |-> hi + 1 - i]]
Lowest(hi) == IF purged + PAGE_SIZE < hi THEN hi + 1 - PAGE_SIZE ELSE purged + 1
Cursor(lo) == IF lo = purged + 1 THEN 0 ELSE lo

(* The audit log answers from the newest event, or from below the cursor.  *)
fetchAuditPage(q, hi) ==
  [rows |-> Rows(q, hi, Lowest(hi)), next |-> Cursor(Lowest(hi))]

Ignored(c) == c.request # requestRef
DropAnswer(c) ==
  /\ Ignored(c) /\ pending' = pending \ {c}
  /\ UNCHANGED <<auditLog, query, typed, items, next, waiting, more, requestRef>>

MutFirstPage(c) ==
  /\ c.cursor = 0 /\ pending' = pending \ {c}
  /\ LET ans == fetchAuditPage(c.q, log) IN items' = ans.rows /\ next' = ans.next
  /\ waiting' = FALSE /\ more' = FALSE
  /\ UNCHANGED <<auditLog, query, typed, requestRef>>
FirstPage(c) ==
  /\ c.cursor = 0 /\ ~Ignored(c) /\ pending' = pending \ {c}
  /\ IF c.q.page = "journal"
     THEN LET ans == fetchAuditPage(c.q, log) IN items' = ans.rows /\ next' = ans.next
     ELSE items' = Rows(c.q, 1, 1) /\ UNCHANGED next
  /\ waiting' = FALSE /\ more' = FALSE
  /\ UNCHANGED <<auditLog, query, typed, requestRef>>

(* Only the report before stays on screen beside the error.                *)
FirstPageFails(c) ==
  /\ c.cursor = 0 /\ ~Ignored(c) /\ pending' = pending \ {c}
  /\ items' = (IF c.q.page = "reports" THEN items ELSE <<>>)
  /\ next' = 0 /\ waiting' = FALSE /\ more' = FALSE
  /\ UNCHANGED <<auditLog, query, typed, requestRef>>

MorePage(c) ==
  /\ c.cursor # 0 /\ ~Ignored(c) /\ c.cursor > purged + 1 /\ pending' = pending \ {c}
  /\ LET ans == fetchAuditPage(c.q, c.cursor - 1)
     IN items' = items \o ans.rows /\ next' = ans.next
  /\ more' = FALSE /\ UNCHANGED <<auditLog, query, typed, waiting, requestRef>>

(* 410: the archive of the next page is gone, the search starts over.      *)
MoreExpired(c) ==
  /\ c.cursor # 0 /\ ~Ignored(c) /\ c.cursor <= purged + 1
  /\ Search(pending \ {c}, query)
  /\ UNCHANGED <<auditLog, typed, items, next, more>>
MoreFails(c) ==
  /\ c.cursor # 0 /\ ~Ignored(c) /\ more' = FALSE /\ pending' = pending \ {c}
  /\ UNCHANGED <<auditLog, query, typed, items, next, waiting, requestRef>>

(* Events are added, and the oldest archives purged, at any time.          *)
AppendEvent ==
  /\ log < MaxEvents /\ log' = log + 1
  /\ UNCHANGED <<purged, query, typed, items, next, waiting, more, requestRef, pending>>
PurgeArchive ==
  /\ purged < log - 1 /\ purged' = purged + 1
  /\ UNCHANGED <<log, query, typed, items, next, waiting, more, requestRef, pending>>

-----------------------------------------------------------------------------
ListsUser ==
  \/ \E p \in {"journal", "reports", "sessions", "map"} : OpenPage(p)
  \/ \E x \in Texts : Type(x)
  \/ \E s \in Selections : SetFilter(s)
  \/ resetFilters \/ RefreshPage \/ loadMore
  \/ \E x \in Periods : SetPeriod(x)
  \/ \E x \in Sessions : useSessionEvents(x)
  \/ \E x \in Nodes : SelectResource(x)

ListsNext ==
  \/ ListsUser \/ SearchTimer \/ AppendEvent \/ PurgeArchive
  \/ \E c \in pending : \/ DropAnswer(c) \/ FirstPage(c) \/ FirstPageFails(c)
                        \/ MorePage(c) \/ MoreExpired(c) \/ MoreFails(c)

ListsSpec == ListsInit /\ [][ListsNext]_listVars

-----------------------------------------------------------------------------
(* Every page keeps the promise of Listing: an answer is shown only for    *)
(* what the page asks for now, and a further page of the journal only      *)
(* continues the rows on screen, although filters, refreshes, new events   *)
(* and purges come between a call and its answer.                          *)
Promise == INSTANCE Listing WITH shown <- items, MaxRow <- MaxEvents
ShowsWhatIsAsked == Promise!Spec
=============================================================================
