------------------------------ MODULE RowPages ------------------------------
(***************************************************************************)
(* The rows of the results on the client's page, loaded a page at a time:  *)
(* the first page (RowDataManager, QueryResultService), "Load more rows"   *)
(* (the link's handler, RowDataHelper on the server, QueryAppendService),  *)
(* and another sort order or filter, which loads the first page again; the *)
(* mark of a tab that is loading (ProgressManager); answers that are       *)
(* errors, and requests that are never answered.                           *)
(*                                                                         *)
(* A panel has one result id; panels stand in the document in the order of *)
(* their numbers, the panels of a tab together. A view is a sort order or  *)
(* filter of the result, whose rows do not change. Requests are served by  *)
(* threads of the worker pool, so that their answers come in any order.    *)
(***************************************************************************)
EXTENDS Naturals, Sequences, FiniteSetsExt

CONSTANTS
  Panel,      \* numbers
  Tab,        \* Tab[p]: the tab of panel p, a number
  Sizes,      \* how many rows a result may have
  PageSize,   \* Config.pageSize
  MaxViews,   \* bound: views asked for, of all panels
  MaxFlying   \* bound: requests under way

ASSUME RowPagesAssumption ==
  /\ Panel \subseteq Nat
  /\ \A P \in SUBSET Panel : P # {} => \E p \in P : \A q \in P : p <= q   \* one comes first
  /\ Tab \in [Panel -> Nat] /\ \A p, q \in Panel : p <= q => Tab[p] <= Tab[q]
  /\ Sizes \subseteq Nat /\ PageSize \in Nat \ {0}
  /\ MaxViews \in Nat /\ MaxFlying \in Nat

VARIABLES
  rows,       \* rows[p]: the rows of the result
  content,    \* content[p]: what is in the document under the result id
  shown,      \* shown[p]: the rows in the table, numbered from 0: sequence of [view, row]
  link,       \* link[p]: view, offset, limit of the link, and whether it is visible
  view,       \* view[p]: views asked for so far
  marked,     \* the tabs that ProgressManager.activeQueries marks
  up,         \* the socket is connected
  flying,     \* requests, and their answers, under way
  last,       \* history: the panel whose answer came last
  astray      \* history: panels that sent a request while one was under way, or whose
              \* request found no connection or no answer, since their first page last came

vars == <<rows, content, shown, link, view, marked, up, flying, last, astray>>

\* A message without a table is an error, or what a statement without rows has done.
Contents == {"gone", "loading", "table", "message"}

Init ==
  /\ rows \in [Panel -> Sizes] /\ content = [p \in Panel |-> "gone"]
  /\ shown = [p \in Panel |-> <<>>]
  /\ link = [p \in Panel |-> [view |-> 0, offset |-> 0, limit |-> 0, visible |-> FALSE]]
  /\ view = [p \in Panel |-> 0] /\ marked = {} /\ up = TRUE
  /\ flying = {} /\ last = 0 /\ astray = {}

present   == {p \in Panel : content[p] = "table"}
Beside(p) == {q \in Panel \ {p} : Tab[q] = Tab[p]}
Views     == MapThenSumSet(LAMBDA p : view[p], Panel)
Of(p)     == {r \in flying : r.panel = p}

\* The element with the result id is replaced; where there is none, index 0 clears the
\* tab and another index goes to the bottom.
Place(p, what, index) ==
  content' = [q \in Panel |-> IF q = p THEN what
                              ELSE IF content[p] = "gone" /\ index = 0 /\ q \in Beside(p) THEN "gone"
                              ELSE content[q]]

\* sendMessage, which throws without a connection.
Send(p, v, from, limit) ==
  \/ /\ up /\ Cardinality(flying) < MaxFlying
     /\ flying' = flying \cup {[panel |-> p, view |-> v, offset |-> from, limit |-> limit]}
     /\ astray' = IF Of(p) # {} THEN astray \cup {p} ELSE astray
  \/ ~up /\ astray' = astray \cup {p} /\ UNCHANGED flying

-----------------------------------------------------------------------------
(* Requests                                                                *)

\* startProgress finds one timer in the tab, that of the panel it has put up.
OneTimer(p) == content[p] = "gone" \/ \A q \in Beside(p) : content[q] # "loading"

\* The first page, of a new result or, from its table, of another view. startProgress
\* throws in a marked tab, and when it finds two timers.
ShowRowData(p) ==
  /\ Views < MaxViews /\ (view[p] = 0 \/ p \in present) /\ Tab[p] \notin marked
  /\ view' = [view EXCEPT ![p] = @ + 1]
  /\ Place(p, "loading", 0)
  /\ IF OneTimer(p) THEN marked' = marked \cup {Tab[p]} /\ Send(p, view[p] + 1, 0, PageSize)
                    ELSE UNCHANGED <<marked, flying, astray>>
  /\ UNCHANGED <<rows, shown, link, up, last>>

\* The link knows its offset only after its first use.
Offset(p) == IF link[p].offset = 0 THEN PageSize ELSE link[p].offset

\* Mutant: the offset is not advanced by the handler.
LoadMoreAgain(p) ==
  /\ p \in present /\ link[p].visible
  /\ link' = [link EXCEPT ![p].offset = Offset(p), ![p].visible = FALSE]
  /\ Send(p, link[p].view, Offset(p), link[p].limit)
  /\ UNCHANGED <<rows, content, shown, view, marked, up, last>>

\* The offset is advanced and the link hidden before the request is sent.
LoadMore(p) ==
  /\ p \in present /\ link[p].visible
  /\ link' = [link EXCEPT ![p].offset = Offset(p) + link[p].limit, ![p].visible = FALSE]
  /\ Send(p, link[p].view, Offset(p), link[p].limit)
  /\ UNCHANGED <<rows, content, shown, view, marked, up, last>>

-----------------------------------------------------------------------------
(* Answers. The server asks the database for one row beyond the limit.     *)

Fetched(r) == Min({r.limit + 1, IF rows[r.panel] > r.offset THEN rows[r.panel] - r.offset ELSE 0})
More(r)    == Fetched(r) > r.limit
Data(r)    == [k \in 1..Min({r.limit, Fetched(r)}) |-> [view |-> r.view, row |-> r.offset + k - 1]]

\* The selectors name every link of the document.
Links(ls, on, visible) == [p \in Panel |-> [ls[p] EXCEPT !.visible = IF p \in on THEN visible ELSE @]]

\* completeProgress, which takes the mark off the tab, then the table and its link.
NewResult(r, index) ==
  /\ Place(r.panel, "table", index) /\ marked' = marked \ {Tab[r.panel]}
  /\ shown' = [shown EXCEPT ![r.panel] = Data(r)]
  /\ LET fresh == [view |-> r.view, offset |-> 0, limit |-> Len(Data(r)), visible |-> FALSE]
     IN link' = Links([link EXCEPT ![r.panel] = fresh], present', More(r))
  /\ last' = r.panel

\* Answers for rows have index 0. With nothing else under way the panel starts afresh.
FirstPage(r) ==
  /\ r \in flying /\ r.offset = 0 /\ flying' = flying \ {r}
  /\ NewResult(r, 0)
  /\ astray' = IF Of(r.panel) = {r} THEN astray \ {r.panel} ELSE astray
  /\ UNCHANGED <<rows, view, up>>

\* A further statement of a script comes unasked, below those before it: its rows, or
\* what it has done.
Further(p) ==
  /\ Views < MaxViews /\ view[p] = 0 /\ up
  /\ \E q \in Beside(p) : content[q] \in {"table", "message"} \/ (content[q] = "loading" /\ view[q] > 1)
  /\ \A q \in Beside(p) : content[q] # "gone" => q < p
  /\ view' = [view EXCEPT ![p] = 1]
  /\ \/ NewResult([panel |-> p, view |-> 1, offset |-> 0, limit |-> PageSize], 1)
     \/ /\ Place(p, "message", 1) /\ marked' = marked \ {Tab[p]}
        /\ UNCHANGED <<shown, link, last>>
  /\ UNCHANGED <<rows, up, flying, astray>>

\* The limit is that of the first link of the document, doubled, for all of them.
Doubled == [p \in Panel |-> [link[p] EXCEPT !.limit = IF p \in present
                                                      THEN 2 * link[Min(present)].limit ELSE @]]

Appended(r, p) == IF p \in present THEN shown[p] \o Data(r) ELSE shown[p]

\* Mutant: a page that is full is taken for one that has more to follow.
NextPageIfFull(r) ==
  /\ r \in flying /\ r.offset > 0 /\ flying' = flying \ {r} /\ last' = r.panel
  /\ shown' = [shown EXCEPT ![r.panel] = Appended(r, r.panel)]
  /\ link' = IF present # {} /\ Len(Data(r)) = r.limit THEN Links(Doubled, present, TRUE)
                                                       ELSE Links(link, present, FALSE)
  /\ UNCHANGED <<rows, content, view, marked, up, astray>>

NextPage(r) ==
  /\ r \in flying /\ r.offset > 0 /\ flying' = flying \ {r} /\ last' = r.panel
  /\ shown' = [shown EXCEPT ![r.panel] = Appended(r, r.panel)]
  /\ link' = IF present # {} /\ More(r) THEN Links(Doubled, present, TRUE)
                                        ELSE Links(link, present, FALSE)
  /\ UNCHANGED <<rows, content, view, marked, up, astray>>

\* An error of the database takes the place of the result.
Error(r) ==
  /\ r \in flying /\ flying' = flying \ {r}
  /\ Place(r.panel, "message", 0) /\ marked' = marked \ {Tab[r.panel]}
  /\ UNCHANGED <<rows, shown, link, view, up, last, astray>>

\* A table that is not there, a result that is gone or another exception: the page shows a
\* notification, and leaves panel, link and mark as they are.
ServerError(r) ==
  /\ r \in flying /\ flying' = flying \ {r}
  /\ astray' = astray \cup {r.panel}
  /\ UNCHANGED <<rows, content, shown, link, view, marked, up, last>>

\* The connection is lost, and with it the requests and the answers.
Drop ==
  /\ up /\ up' = FALSE /\ flying' = {}
  /\ astray' = astray \cup {r.panel : r \in flying}
  /\ UNCHANGED <<rows, content, shown, link, view, marked, last>>

Connect ==
  /\ ~up /\ up' = TRUE
  /\ UNCHANGED <<rows, content, shown, link, view, marked, flying, last, astray>>

Next ==
  \/ \E p \in Panel : ShowRowData(p) \/ LoadMore(p) \/ Further(p)
  \/ \E r \in flying : FirstPage(r) \/ NextPage(r) \/ Error(r) \/ ServerError(r)
  \/ Drop \/ Connect

Spec == Init /\ [][Next]_vars

-----------------------------------------------------------------------------
(* Properties                                                              *)

\* Whatever is clicked in whatever panel, a table shows the rows of its view from the
\* first on, none twice and none left out, unless one of its requests was not answered or
\* two of them overlapped since its first page came. (They do when the answer of another
\* panel shows the link again, or the order is changed while a page is loading.)
RowsInOrder ==
  \A p \in present \ astray :
    \A k \in DOMAIN shown[p] : shown[p][k] = [view |-> link[p].view, row |-> k - 1]

\* Right after its own answer a panel offers more rows when there are more, and says that
\* there are none when there are none, with the same two exceptions.
LinkIsHonest ==
  \A p \in present \ astray :
    last = p /\ Of(p) = {} => (link[p].visible <=> Len(shown[p]) < rows[p])
=============================================================================
