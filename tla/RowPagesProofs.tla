---------------------------- MODULE RowPagesProofs ----------------------------
(***************************************************************************)
(* Proofs about RowPages, for any panels, tabs, results and page size: as  *)
(* long as its requests are answered one at a time, the offset that the    *)
(* link of a panel remembers is the number of rows in its table, or there  *)
(* are no rows beyond them, whatever the other panels do to the link; and  *)
(* right after an answer of its own the link is there just when rows are   *)
(* missing.                                                                *)
(***************************************************************************)
EXTENDS RowPages, TLAPS

\* The facts about the constants that the proofs need.
LEMMA Constants ==
  /\ Panel \subseteq Nat /\ Sizes \subseteq Nat /\ PageSize \in Nat /\ PageSize > 0
BY RowPagesAssumption DEF RowPagesAssumption

\* Min of two numbers, and the first panel of the document.
LEMMA Smaller ==
  ASSUME NEW a \in Nat, NEW b \in Nat
  PROVE  Min({a, b}) = IF a <= b THEN a ELSE b
<1>1. CASE a <= b
  <2>1. \A x \in {a, b} : (\A y \in {a, b} : x <= y) => x = a
    BY <1>1
  <2> QED BY <1>1, <2>1 DEF Min
<1>2. CASE ~(a <= b)
  <2>1. \A x \in {a, b} : (\A y \in {a, b} : x <= y) => x = b
    BY <1>2
  <2>2. \A y \in {a, b} : b <= y
    BY <1>2
  <2> QED BY <1>2, <2>1, <2>2 DEF Min
<1> QED BY <1>1, <1>2

LEMMA FirstPanel ==
  ASSUME NEW P \in SUBSET Panel, P # {}
  PROVE  Min(P) \in P
<1>1. \E p \in P : \A q \in P : p <= q
  BY RowPagesAssumption DEF RowPagesAssumption
<1> QED BY <1>1 DEF Min

----------------------------------------------------------------------------
(* Types                                                                   *)

RowOf == [view : Nat, row : Nat]
Link  == [view : Nat, offset : Nat, limit : Nat, visible : BOOLEAN]
Asked == [panel : Panel, view : Nat, offset : Nat, limit : Nat]

\* A request for the first rows asks for a page of them; only a panel that was asked for
\* is in the document or has a request.
Types ==
  /\ rows \in [Panel -> Nat] /\ content \in [Panel -> Contents]
  /\ shown \in [Panel -> Seq(RowOf)] /\ link \in [Panel -> Link]
  /\ view \in [Panel -> Nat] /\ astray \subseteq Panel
  /\ flying \subseteq Asked
  /\ \A r \in flying : /\ r.offset = 0 => r.limit = PageSize
                       /\ view[r.panel] > 0
  /\ \A p \in Panel : content[p] # "gone" => view[p] > 0

LEMMA TypesInit == Init => Types
<1>1. <<>> \in Seq(RowOf)
  OBVIOUS
<1>2. rows \in [Panel -> Sizes] /\ Sizes \subseteq Nat => rows \in [Panel -> Nat]
  OBVIOUS
<1> QED BY <1>1, <1>2, Constants DEF Init, Types, Link, Contents

\* What the server answers: the rows from the offset on, at most a page.
Rest(r) == IF rows[r.panel] > r.offset THEN rows[r.panel] - r.offset ELSE 0
Given(r) == IF Rest(r) < r.limit THEN Rest(r) ELSE r.limit

LEMMA Answered ==
  ASSUME Types, NEW r \in Asked
  PROVE  /\ Given(r) \in Nat /\ Rest(r) \in Nat
         /\ Data(r) = [k \in 1..Given(r) |-> [view |-> r.view, row |-> r.offset + k - 1]]
         /\ Data(r) \in Seq(RowOf) /\ Len(Data(r)) = Given(r)
<1>1. /\ r.panel \in Panel /\ r.view \in Nat /\ r.offset \in Nat /\ r.limit \in Nat
      /\ rows[r.panel] \in Nat
  BY DEF Types, Asked
<1>2. Rest(r) \in Nat /\ Given(r) \in Nat
  BY <1>1 DEF Rest, Given
<1>3. Fetched(r) = IF r.limit + 1 <= Rest(r) THEN r.limit + 1 ELSE Rest(r)
  BY <1>1, <1>2, Smaller DEF Fetched, Rest
<1>4. Fetched(r) \in Nat /\ Min({r.limit, Fetched(r)}) = Given(r)
  BY <1>1, <1>2, <1>3, Smaller DEF Given
<1>5. \A k \in 1..Given(r) : [view |-> r.view, row |-> r.offset + k - 1] \in RowOf
  BY <1>1, <1>2 DEF RowOf
<1> DEFINE rs == [k \in 1..Given(r) |-> [view |-> r.view, row |-> r.offset + k - 1]]
<1>6. rs \in [1..Given(r) -> RowOf]
  BY <1>5
<1>7. rs \in Seq(RowOf) /\ Len(rs) = Given(r)
  <2> HIDE DEF rs
  <2>1. DOMAIN rs = 1..Given(r) /\ \A k \in 1..Given(r) : rs[k] \in RowOf
    BY <1>6
  <2> QED BY <1>2, <1>6, <2>1
<1> QED BY <1>2, <1>4, <1>7 DEF Data

\* There is more than the answer gives just when rows remain beyond its end.
LEMMA MoreMeans ==
  ASSUME Types, NEW r \in Asked
  PROVE  More(r) \in BOOLEAN /\ (More(r) <=> rows[r.panel] > r.offset + r.limit)
<1>1. /\ r.offset \in Nat /\ r.limit \in Nat /\ rows[r.panel] \in Nat
  BY DEF Types, Asked
<1>2. Rest(r) \in Nat /\ Fetched(r) = IF r.limit + 1 <= Rest(r) THEN r.limit + 1 ELSE Rest(r)
  BY <1>1, Smaller DEF Fetched, Rest
<1> QED BY <1>1, <1>2 DEF More, Rest

\* The links keep their type, and their view and offset, when the selectors reach them.
LEMMA LinksType ==
  ASSUME NEW ls \in [Panel -> Link], NEW on, NEW b \in BOOLEAN
  PROVE  /\ Links(ls, on, b) \in [Panel -> Link]
         /\ \A p \in Panel : /\ Links(ls, on, b)[p].view = ls[p].view
                             /\ Links(ls, on, b)[p].offset = ls[p].offset
BY DEF Links, Link

LEMMA DoubledType ==
  ASSUME Types, present # {}
  PROVE  /\ Doubled \in [Panel -> Link]
         /\ \A p \in Panel : Doubled[p].view = link[p].view /\ Doubled[p].offset = link[p].offset
<1>1. Min(present) \in Panel
  <2>1. present \in SUBSET Panel
    BY DEF present
  <2> QED BY <2>1, FirstPanel
<1>2. 2 * link[Min(present)].limit \in Nat
  BY <1>1 DEF Types, Link
<1> QED BY <1>2 DEF Types, Link, Doubled

\* The link that the selectors reach is shown or hidden with the others.
LEMMA LinksVisible ==
  ASSUME NEW ls \in [Panel -> Link], NEW on, NEW b \in BOOLEAN, NEW p \in Panel, p \in on
  PROVE  Links(ls, on, b)[p].visible = b
BY DEF Links, Link

\* A panel that is placed may take others out of the document, and touches no other.
LEMMA Placed ==
  ASSUME Types, NEW p \in Panel, NEW what \in Contents, NEW index, Place(p, what, index)
  PROVE  /\ content' \in [Panel -> Contents] /\ content'[p] = what
         /\ \A q \in Panel : q # p => content'[q] = content[q] \/ content'[q] = "gone"
BY DEF Types, Place, Contents

\* A new result: its first page and a link, and what it leaves alone.
FirstRows(p, v) ==
  [k \in 1..(IF rows[p] < PageSize THEN rows[p] ELSE PageSize) |-> [view |-> v, row |-> k - 1]]

LEMMA NewTable ==
  ASSUME Types, NEW r \in Asked, r.offset = 0, r.limit = PageSize, NEW index, NewResult(r, index)
  PROVE  /\ content' \in [Panel -> Contents] /\ content'[r.panel] = "table"
         /\ shown' \in [Panel -> Seq(RowOf)] /\ shown'[r.panel] = FirstRows(r.panel, r.view)
         /\ link' \in [Panel -> Link] /\ link'[r.panel].view = r.view
         /\ link'[r.panel].offset = 0 /\ link'[r.panel].visible = More(r)
         /\ last' = r.panel
         /\ \A q \in Panel : q # r.panel =>
              /\ content'[q] = content[q] \/ content'[q] = "gone"
              /\ shown'[q] = shown[q]
              /\ link'[q].view = link[q].view /\ link'[q].offset = link[q].offset
<1> USE Constants
<1> DEFINE fresh == [view |-> r.view, offset |-> 0, limit |-> Len(Data(r)), visible |-> FALSE]
           ls == [link EXCEPT ![r.panel] = fresh]
<1>1. r.panel \in Panel /\ r.view \in Nat /\ fresh \in Link /\ Data(r) \in Seq(RowOf)
  BY Answered DEF Types, Asked, Link
<1>2. /\ Place(r.panel, "table", index) /\ last' = r.panel
      /\ shown' = [shown EXCEPT ![r.panel] = Data(r)] /\ link' = Links(ls, present', More(r))
  BY DEF NewResult
<1>3. /\ content' \in [Panel -> Contents] /\ content'[r.panel] = "table"
      /\ \A q \in Panel : q # r.panel => content'[q] = content[q] \/ content'[q] = "gone"
  BY <1>1, <1>2, Placed DEF Contents
<1>4. ls \in [Panel -> Link] /\ ls[r.panel].view = r.view /\ ls[r.panel].offset = 0
      /\ \A q \in Panel : q # r.panel => ls[q] = link[q]
  BY <1>1 DEF Types
<1> HIDE DEF ls
<1>5. r.panel \in present' /\ More(r) \in BOOLEAN
  BY <1>1, <1>3, MoreMeans DEF present
<1>6. /\ link' \in [Panel -> Link] /\ link'[r.panel].visible = More(r)
      /\ \A q \in Panel : link'[q].view = ls[q].view /\ link'[q].offset = ls[q].offset
  <2> DEFINE on == present'
             b  == More(r)
  <2>0. PICK p \in Panel : p = r.panel
    BY <1>1
  <2>1. link' = Links(ls, on, b) /\ p \in on /\ b \in BOOLEAN
    BY <1>2, <1>5, <2>0 DEF ls
  <2> HIDE DEF on, b
  <2>2. Links(ls, on, b)[p].visible = b
    BY <1>4, <2>1, LinksVisible, Zenon
  <2>3. /\ Links(ls, on, b) \in [Panel -> Link]
        /\ \A q \in Panel : /\ Links(ls, on, b)[q].view = ls[q].view
                            /\ Links(ls, on, b)[q].offset = ls[q].offset
    BY <1>4, <2>1, LinksType
  <2>4. link'[r.panel].visible = b
    BY <2>0, <2>1, <2>2
  <2> QED BY <2>1, <2>3, <2>4 DEF b
<1>7. shown'[r.panel] = FirstRows(r.panel, r.view)
  <2>1. Given(r) = IF rows[r.panel] < PageSize THEN rows[r.panel] ELSE PageSize
    BY <1>1 DEF Given, Rest, Types
  <2>2. Given(r) \in Nat /\ Data(r) = [k \in 1..Given(r) |-> [view |-> r.view, row |-> 0 + k - 1]]
    BY Answered
  <2>3. Data(r) = [k \in 1..Given(r) |-> [view |-> r.view, row |-> k - 1]]
    BY <2>2
  <2>4. shown'[r.panel] = Data(r)
    BY <1>1, <1>2 DEF Types
  <2> QED BY <2>1, <2>3, <2>4 DEF FirstRows
<1>8. shown' \in [Panel -> Seq(RowOf)] /\ \A q \in Panel : q # r.panel => shown'[q] = shown[q]
  BY <1>1, <1>2 DEF Types
<1>9. /\ link'[r.panel].view = r.view /\ link'[r.panel].offset = 0
      /\ \A q \in Panel : q # r.panel =>
           link'[q].view = link[q].view /\ link'[q].offset = link[q].offset
  BY <1>1, <1>4, <1>6
<1> QED BY <1>2, <1>3, <1>6, <1>7, <1>8, <1>9

LEMMA SentType ==
  ASSUME Types, NEW p \in Panel, NEW v \in Nat, NEW from \in Nat, NEW limit \in Nat,
         from = 0 => limit = PageSize, Send(p, v, from, limit)
  PROVE  /\ flying' \subseteq Asked /\ astray' \subseteq Panel
         /\ \A r \in flying' : /\ r.offset = 0 => r.limit = PageSize
                               /\ r \in flying \/ r.panel = p
BY DEF Types, Send, Asked

LEMMA TypesStep ==
  ASSUME Types, [Next]_vars
  PROVE  Types'
<1> USE Constants
<1>1. ASSUME NEW p \in Panel, ShowRowData(p)  PROVE Types'
  <2>1. /\ view' = [view EXCEPT ![p] = @ + 1] /\ Place(p, "loading", 0)
        /\ UNCHANGED <<rows, shown, link>>
    BY <1>1 DEF ShowRowData
  <2>2. /\ content' \in [Panel -> Contents]
        /\ \A q \in Panel : q # p => content'[q] = content[q] \/ content'[q] = "gone"
    BY <2>1, Placed DEF Contents
  <2>3. view' \in [Panel -> Nat] /\ view'[p] > 0 /\ \A q \in Panel : q # p => view'[q] = view[q]
    BY <2>1 DEF Types
  <2>4. /\ flying' \subseteq Asked /\ astray' \subseteq Panel
        /\ \A r \in flying' : (r.offset = 0 => r.limit = PageSize) /\ (r \in flying \/ r.panel = p)
    <3>1. CASE OneTimer(p)
      <4>1. view[p] + 1 \in Nat
        BY DEF Types
      <4> QED BY <1>1, <3>1, <4>1, SentType DEF ShowRowData
    <3>2. CASE ~OneTimer(p)
      BY <1>1, <3>2 DEF ShowRowData, Types
    <3> QED BY <3>1, <3>2
  <2>5. \A r \in flying' : view'[r.panel] > 0
    BY <2>3, <2>4 DEF Types, Asked
  <2>6. \A q \in Panel : content'[q] # "gone" => view'[q] > 0
    BY <2>2, <2>3 DEF Types
  <2> QED BY <2>1, <2>2, <2>3, <2>4, <2>5, <2>6 DEF Types
<1>2. ASSUME NEW p \in Panel, LoadMore(p)  PROVE Types'
  <2>1. Offset(p) \in Nat /\ Offset(p) > 0 /\ link[p].limit \in Nat /\ link[p].view \in Nat
    BY DEF Types, Link, Offset
  <2>2. link' \in [Panel -> Link]
    <3> DEFINE new == [link[p] EXCEPT !.offset = Offset(p) + link[p].limit, !.visible = FALSE]
    <3>1. link[p] \in Link /\ Offset(p) + link[p].limit \in Nat
      BY <2>1 DEF Types
    <3>2. new \in Link
      BY <3>1 DEF Link
    <3>3. link' = [link EXCEPT ![p] = new]
      BY <1>2 DEF LoadMore, Types
    <3> QED BY <3>2, <3>3 DEF Types
  <2>3. view[p] > 0
    BY <1>2 DEF LoadMore, present, Types
  <2>4. /\ flying' \subseteq Asked /\ astray' \subseteq Panel
        /\ \A r \in flying' : (r.offset = 0 => r.limit = PageSize) /\ (r \in flying \/ r.panel = p)
    BY <1>2, <2>1, SentType DEF LoadMore
  <2>5. \A r \in flying' : view[r.panel] > 0
    BY <2>3, <2>4 DEF Types
  <2>6. UNCHANGED <<rows, content, shown, view>>
    BY <1>2 DEF LoadMore
  <2> QED BY <2>2, <2>4, <2>5, <2>6 DEF Types
<1>3. ASSUME NEW r \in flying, FirstPage(r)  PROVE Types'
  <2>1. /\ r \in Asked /\ r.offset = 0 /\ r.limit = PageSize /\ r.panel \in Panel
        /\ view[r.panel] > 0
    BY <1>3 DEF FirstPage, Types, Asked
  <2>2. /\ NewResult(r, 0) /\ flying' = flying \ {r} /\ UNCHANGED <<rows, view>>
        /\ astray' \subseteq astray
    BY <1>3 DEF FirstPage
  <2>3. /\ content' \in [Panel -> Contents] /\ shown' \in [Panel -> Seq(RowOf)]
        /\ link' \in [Panel -> Link]
        /\ \A q \in Panel : q # r.panel => content'[q] = content[q] \/ content'[q] = "gone"
    BY <2>1, <2>2, NewTable
  <2> QED BY <2>1, <2>2, <2>3 DEF Types
<1>4. ASSUME NEW p \in Panel, Further(p)  PROVE Types'
  <2>1. /\ view' = [view EXCEPT ![p] = 1] /\ UNCHANGED <<rows, flying, astray>>
        /\ view[p] = 0
    BY <1>4 DEF Further
  <2>2. view' \in [Panel -> Nat] /\ \A q \in Panel : view'[q] >= view[q] /\ view'[p] > 0
    BY <2>1 DEF Types
  <2>3. /\ content' \in [Panel -> Contents] /\ shown' \in [Panel -> Seq(RowOf)]
        /\ link' \in [Panel -> Link]
        /\ \A q \in Panel : q # p => content'[q] = content[q] \/ content'[q] = "gone"
    <3> DEFINE r == [panel |-> p, view |-> 1, offset |-> 0, limit |-> PageSize]
    <3>1. CASE NewResult(r, 1)
      <4>1. r \in Asked /\ r.offset = 0 /\ r.limit = PageSize /\ r.panel = p
        BY DEF Asked
      <4> HIDE DEF r
      <4> QED BY <3>1, <4>1, NewTable
    <3>2. CASE Place(p, "message", 1) /\ UNCHANGED <<shown, link>>
      BY <3>2, Placed DEF Contents, Types
    <3> QED BY <1>4, <3>1, <3>2 DEF Further
  <2>4. \A q \in Panel : content'[q] # "gone" => view'[q] > 0
    BY <2>2, <2>3 DEF Types
  <2>5. \A r \in flying : view'[r.panel] > 0
    <3>1. ASSUME NEW r \in flying  PROVE view'[r.panel] > 0
      <4>1. r.panel \in Panel /\ view[r.panel] > 0 /\ view[r.panel] \in Nat
        BY DEF Types, Asked
      <4>2. view'[r.panel] \in Nat /\ view'[r.panel] >= view[r.panel]
        BY <2>2, <4>1
      <4> QED BY <4>1, <4>2
    <3> QED BY <3>1
  <2> QED BY <2>1, <2>2, <2>3, <2>4, <2>5 DEF Types
<1>5. ASSUME NEW r \in flying, NextPage(r)  PROVE Types'
  <2>1. link' \in [Panel -> Link]
    BY <1>5, LinksType, DoubledType DEF Types, NextPage
  <2>2. Appended(r, r.panel) \in Seq(RowOf)
    <3>1. shown[r.panel] \in Seq(RowOf) /\ Data(r) \in Seq(RowOf)
      BY Answered DEF Types, Asked
    <3> QED BY <3>1 DEF Appended
  <2> QED BY <1>5, <2>1, <2>2 DEF Types, NextPage
<1>6. ASSUME NEW r \in flying, Error(r)  PROVE Types'
  <2>1. /\ flying' = flying \ {r} /\ Place(r.panel, "message", 0)
        /\ UNCHANGED <<rows, shown, link, view, astray>>
    BY <1>6 DEF Error
  <2>2. r.panel \in Panel /\ view[r.panel] > 0
    BY DEF Types, Asked
  <2>3. /\ content' \in [Panel -> Contents]
        /\ \A q \in Panel : q # r.panel => content'[q] = content[q] \/ content'[q] = "gone"
    BY <2>1, <2>2, Placed DEF Contents
  <2> QED BY <2>1, <2>2, <2>3 DEF Types
<1>7. ASSUME NEW r \in flying, ServerError(r)  PROVE Types'
  BY <1>7 DEF ServerError, Types, Asked
<1>8. CASE Drop
  BY <1>8 DEF Drop, Types, Asked
<1>9. CASE Connect \/ UNCHANGED vars
  BY <1>9 DEF Connect, Types, vars
<1> QED BY <1>1, <1>2, <1>3, <1>4, <1>5, <1>6, <1>7, <1>8, <1>9 DEF Next

----------------------------------------------------------------------------
(* The offset and the table                                                *)

\* The table of p has the first n rows of the view of its link, or all there are.
Upto(p, n) ==
  shown[p] = [k \in 1..(IF rows[p] < n THEN rows[p] ELSE n) |->
                [view |-> link[p].view, row |-> k - 1]]

\* Until it goes astray, a panel has one request at most; while the next page is under
\* way, the link's offset is already past it.
Steady(p) ==
  /\ \A r, s \in Of(p) : r = s
  /\ p \in present /\ (\A r \in Of(p) : r.offset = 0) => Upto(p, Offset(p))
  /\ p \in present => \A r \in Of(p) : r.offset > 0 =>
       /\ r.view = link[p].view /\ link[p].offset = r.offset + r.limit
       /\ Upto(p, r.offset)

OffsetIsTable == \A p \in Panel \ astray : Steady(p)

LEMMA OffsetInit == Init => OffsetIsTable
BY DEF Init, OffsetIsTable, Steady, Of, present

\* What another panel does leaves the table, its view and its offset alone, or takes the
\* panel out of the document.
LEMMA Untouched ==
  ASSUME Types, NEW p \in Panel, Steady(p), Of(p)' = Of(p),
         rows' = rows, p \in present' => p \in present, shown'[p] = shown[p],
         link'[p].view = link[p].view, link'[p].offset = link[p].offset
  PROVE  Steady(p)'
BY DEF Steady, Upto, Offset

\* A panel without a table has nothing to be in order.
LEMMA NoTable ==
  ASSUME NEW p \in Panel, p \notin present', \A r, s \in Of(p)' : r = s
  PROVE  Steady(p)'
BY DEF Steady

\* Nor has one with nothing but its first page.
LEMMA Fresh ==
  ASSUME NEW p \in Panel, Of(p)' = {}, rows' = rows, link'[p].offset = 0,
         shown'[p] = FirstRows(p, link'[p].view)
  PROVE  Steady(p)'
BY DEF Steady, Upto, Offset, FirstRows

\* Where there is no connection, the panel goes astray; so it does when its requests overlap.
LEMMA Sent ==
  ASSUME NEW p \in Panel, NEW v, NEW from, NEW limit, Send(p, v, from, limit)
  PROVE  /\ p \notin astray' => Of(p) = {} /\
              flying' = flying \cup {[panel |-> p, view |-> v, offset |-> from, limit |-> limit]}
         /\ \A q \in Panel : q # p => Of(q)' = Of(q) /\ (q \notin astray' => q \notin astray)
BY DEF Send, Of

\* Where the result is in the document, whatever takes its place leaves the others.
LEMMA OthersStay ==
  ASSUME Types, NEW p \in Panel, NEW what \in Contents, NEW index, Place(p, what, index),
         NEW q \in Panel, q # p
  PROVE  q \in present' => q \in present
<1>1. content' \in [Panel -> Contents] /\ (content'[q] = content[q] \/ content'[q] = "gone")
  BY Placed
<1> QED BY <1>1 DEF present

LEMMA SteadyShow ==
  ASSUME Types, OffsetIsTable, NEW p \in Panel, ShowRowData(p), NEW q \in Panel, q \notin astray'
  PROVE  Steady(q)'
<1>1. Place(p, "loading", 0) /\ UNCHANGED <<rows, shown, link>> /\ "loading" \in Contents
  BY DEF ShowRowData, Contents
<1>2. CASE q # p
  <2>1. Of(q)' = Of(q) /\ q \notin astray
    BY <1>2, Sent DEF ShowRowData, Of
  <2>2. q \in present' => q \in present
    BY <1>1, <1>2, OthersStay
  <2> QED BY <1>1, <2>1, <2>2, Untouched DEF OffsetIsTable
<1>3. CASE q = p
  <2>1. q \notin present'
    BY <1>1, <1>3, Placed DEF present
  <2>2. \A r, s \in Of(q)' : r = s
    <3>1. CASE OneTimer(p)
      <4>1. /\ Of(p) = {}
            /\ flying' = flying \cup {[panel |-> p, view |-> view[p] + 1, offset |-> 0, limit |-> PageSize]}
        BY <1>3, <3>1, Sent DEF ShowRowData
      <4> QED BY <1>3, <4>1 DEF Of
    <3>2. CASE ~OneTimer(p)
      <4>1. Of(q)' = Of(q) /\ q \notin astray
        BY <3>2 DEF ShowRowData, Of
      <4> QED BY <4>1 DEF OffsetIsTable, Steady
    <3> QED BY <3>1, <3>2
  <2> QED BY <2>1, <2>2, NoTable
<1> QED BY <1>2, <1>3

LEMMA SteadyLoad ==
  ASSUME Types, OffsetIsTable, NEW p \in Panel, LoadMore(p), NEW q \in Panel, q \notin astray'
  PROVE  Steady(q)'
<1> USE Constants
<1> DEFINE s == [panel |-> p, view |-> link[p].view, offset |-> Offset(p), limit |-> link[p].limit]
<1>1. UNCHANGED <<rows, content, shown>> /\ p \in present /\ present' = present
  BY DEF LoadMore, present
<1>2. q \notin astray /\ Steady(q)
  BY DEF LoadMore, Send, OffsetIsTable
<1>3. CASE q # p
  <2>1. Of(q)' = Of(q)
    BY <1>3, Sent DEF LoadMore
  <2>2. link'[q] = link[q]
    BY <1>3 DEF LoadMore, Types
  <2> QED BY <1>1, <1>2, <2>1, <2>2, Untouched
<1>4. CASE q = p
  <2>1. Of(q) = {} /\ flying' = flying \cup {s}
    BY <1>4, Sent DEF LoadMore
  <2>2. Of(q)' = {s}
    BY <1>4, <2>1 DEF Of
  <2>3. Upto(q, Offset(q)) /\ Offset(q) > 0
    BY <1>1, <1>2, <1>4, <2>1 DEF Steady, Types, Link, Offset
  <2>4. link'[q].view = link[q].view /\ link'[q].offset = Offset(q) + link[q].limit
    BY <1>4 DEF LoadMore, Types, Link
  <2> QED BY <1>1, <1>4, <2>2, <2>3, <2>4 DEF Steady, Upto
<1> QED BY <1>3, <1>4

LEMMA SteadyFirst ==
  ASSUME Types, OffsetIsTable, NEW r \in flying, FirstPage(r), NEW q \in Panel, q \notin astray'
  PROVE  Steady(q)'
<1>1. /\ r \in Asked /\ r.panel \in Panel /\ r.offset = 0 /\ r.limit = PageSize
      /\ NewResult(r, 0) /\ flying' = flying \ {r} /\ rows' = rows
  BY DEF FirstPage, Types, Asked
<1>2. CASE q # r.panel
  <2>1. Of(q)' = Of(q) /\ q \notin astray
    BY <1>1, <1>2 DEF Of, FirstPage
  <2>2. /\ content'[q] = content[q] \/ content'[q] = "gone"
        /\ shown'[q] = shown[q] /\ link'[q].view = link[q].view /\ link'[q].offset = link[q].offset
    BY <1>1, <1>2, NewTable
  <2>3. q \in present' => q \in present
    BY <2>2 DEF present
  <2> QED BY <1>1, <2>1, <2>2, <2>3, Untouched DEF OffsetIsTable
<1>3. CASE q = r.panel
  <2>1. Of(q) = {r}
    <3>1. CASE q \in astray
      BY <1>3, <3>1 DEF FirstPage
    <3>2. CASE q \notin astray
      <4>1. r \in Of(q) /\ Steady(q)
        BY <1>3, <3>2 DEF Of, OffsetIsTable
      <4> QED BY <4>1 DEF Steady
    <3> QED BY <3>1, <3>2
  <2>2. Of(q)' = {}
    BY <1>1, <2>1 DEF Of
  <2>3. shown'[q] = FirstRows(q, r.view) /\ link'[q].view = r.view /\ link'[q].offset = 0
    BY <1>1, <1>3, NewTable
  <2> QED BY <1>1, <2>2, <2>3, Fresh
<1> QED BY <1>2, <1>3

LEMMA SteadyFurther ==
  ASSUME Types, OffsetIsTable, NEW p \in Panel, Further(p), NEW q \in Panel, q \notin astray'
  PROVE  Steady(q)'
<1> DEFINE r == [panel |-> p, view |-> 1, offset |-> 0, limit |-> PageSize]
<1>1. UNCHANGED <<rows, flying, astray>> /\ view[p] = 0 /\ Of(p) = {}
  BY DEF Further, Types, Of
<1>2. Of(q)' = Of(q) /\ Steady(q)
  BY <1>1 DEF Of, OffsetIsTable
<1>3. CASE NewResult(r, 1)
  <2>1. r \in Asked /\ r.offset = 0 /\ r.limit = PageSize /\ r.panel = p /\ r.view = 1
    BY Constants DEF Asked
  <2> HIDE DEF r
  <2>2. CASE q # p
    <3>1. /\ content'[q] = content[q] \/ content'[q] = "gone"
          /\ shown'[q] = shown[q] /\ link'[q].view = link[q].view /\ link'[q].offset = link[q].offset
      BY <1>3, <2>1, <2>2, NewTable
    <3>2. q \in present' => q \in present
      BY <3>1 DEF present
    <3> QED BY <1>1, <1>2, <3>1, <3>2, Untouched
  <2>3. CASE q = p
    <3>1. shown'[q] = FirstRows(q, 1) /\ link'[q].view = 1 /\ link'[q].offset = 0
      BY <1>3, <2>1, <2>3, NewTable
    <3> QED BY <1>1, <1>2, <2>3, <3>1, Fresh
  <2> QED BY <2>2, <2>3
<1>4. CASE Place(p, "message", 1) /\ UNCHANGED <<shown, link>>
  <2>1. "message" \in Contents
    BY DEF Contents
  <2>2. CASE q # p
    BY <1>1, <1>2, <1>4, <2>1, <2>2, OthersStay, Untouched
  <2>3. CASE q = p
    <3>1. q \notin present'
      BY <1>4, <2>1, <2>3, Placed DEF present
    <3> QED BY <1>1, <1>2, <2>3, <3>1, NoTable
  <2> QED BY <2>2, <2>3
<1> QED BY <1>3, <1>4 DEF Further

\* The next page, when it comes, is what follows in the table.
LEMMA SteadyNext ==
  ASSUME Types, OffsetIsTable, NEW r \in flying, NextPage(r), NEW q \in Panel, q \notin astray'
  PROVE  Steady(q)'
<1>0. q \notin astray /\ Steady(q)
  BY DEF NextPage, OffsetIsTable
<1>1. /\ r.panel \in Panel /\ r.view \in Nat /\ r.offset \in Nat /\ r.offset > 0
      /\ r.limit \in Nat /\ rows[q] \in Nat /\ r \in Asked
  BY DEF NextPage, Types, Asked
<1>2. link'[q].view = link[q].view /\ link'[q].offset = link[q].offset
  <2>1. CASE link' = Links(link, present, FALSE)
    <3>1. link \in [Panel -> Link]
      BY DEF Types
    <3> QED BY <2>1, <3>1, LinksType
  <2>2. CASE present # {} /\ link' = Links(Doubled, present, TRUE)
    <3>1. Doubled \in [Panel -> Link] /\ Doubled[q].view = link[q].view
          /\ Doubled[q].offset = link[q].offset
      BY <2>2, DoubledType
    <3> QED BY <2>2, <3>1, LinksType
  <2> QED BY <2>1, <2>2 DEF NextPage
<1>3. /\ flying' = flying \ {r} /\ rows' = rows /\ present' = present
      /\ shown' = [shown EXCEPT ![r.panel] = Appended(r, r.panel)]
  BY DEF NextPage, present
<1>4. CASE q # r.panel
  BY <1>0, <1>2, <1>3, <1>4, Untouched DEF Of, Types
<1>5. CASE q = r.panel /\ q \notin present
  <2>1. Of(q)' = {}
    BY <1>0, <1>3, <1>5 DEF Steady, Of
  <2> QED BY <1>3, <1>5, <2>1, NoTable
<1>6. CASE q = r.panel /\ q \in present
  <2>1. Of(q)' = {}
    BY <1>0, <1>3, <1>6 DEF Steady, Of
  <2>2. /\ r.view = link[q].view /\ link[q].offset = r.offset + r.limit
        /\ Upto(q, r.offset)
    BY <1>0, <1>1, <1>6 DEF Steady, Of
  <2> DEFINE old == IF rows[q] < r.offset THEN rows[q] ELSE r.offset
             new == IF rows[q] < r.offset + r.limit THEN rows[q] ELSE r.offset + r.limit
             rs  == [k \in 1..old |-> [view |-> link[q].view, row |-> k - 1]]
  <2>3. shown[q] = rs /\ old \in Nat /\ new \in Nat
    BY <1>1, <2>2 DEF Upto
  <2>4. shown[q] \in Seq(RowOf) /\ Len(shown[q]) = old
    <3>1. shown[q] \in Seq(RowOf)
      BY DEF Types
    <3> HIDE DEF old
    <3> QED BY <2>3, <3>1
  <2>5. Given(r) \in Nat /\ new = old + Given(r) /\ (Given(r) > 0 => old = r.offset)
    BY <1>1, <1>6 DEF Given, Rest
  <2>6. /\ Data(r) = [k \in 1..Given(r) |-> [view |-> r.view, row |-> r.offset + k - 1]]
        /\ Data(r) \in Seq(RowOf) /\ Len(Data(r)) = Given(r)
    BY <1>1, Answered
  <2>7. shown[q] \o Data(r) = [k \in 1..new |-> [view |-> link[q].view, row |-> k - 1]]
    <3> DEFINE both == shown[q] \o Data(r)
    <3>1. both \in Seq(RowOf) /\ Len(both) = new
      BY <2>4, <2>5, <2>6
    <3>2. ASSUME NEW k \in 1..new  PROVE both[k] = [view |-> link[q].view, row |-> k - 1]
      <4>1. CASE k <= old
        <5>1. both[k] = shown[q][k] /\ k \in 1..old
          BY <2>3, <2>4, <2>6, <4>1
        <5> QED BY <2>3, <5>1
      <4>2. CASE k > old
        <5>1. both[k] = Data(r)[k - old] /\ k - old \in 1..Given(r) /\ Given(r) > 0
          BY <2>3, <2>4, <2>5, <2>6, <4>2
        <5>2. Data(r)[k - old] = [view |-> r.view, row |-> r.offset + (k - old) - 1]
          BY <2>6, <5>1
        <5>3. r.offset + (k - old) - 1 = k - 1
          BY <1>1, <2>3, <2>5, <5>1
        <5> QED BY <2>2, <5>1, <5>2, <5>3
      <4>3. k \in Nat /\ old \in Nat
        BY <2>3
      <4> HIDE DEF old
      <4>4. k <= old \/ k > old
        BY <4>3
      <4> QED BY <4>1, <4>2, <4>4
    <3>3. both = [k \in 1..new |-> both[k]]
      BY <3>1
    <3> HIDE DEF both
    <3>4. both = [k \in 1..new |-> [view |-> link[q].view, row |-> k - 1]]
      BY <3>2, <3>3
    <3> QED BY <3>4 DEF both
  <2>8. shown'[q] = shown[q] \o Data(r)
    BY <1>3, <1>6 DEF Types, Appended
  <2>9. Offset(q)' = r.offset + r.limit
    BY <1>1, <1>2, <2>2 DEF Offset
  <2> QED BY <1>2, <1>3, <2>1, <2>2, <2>7, <2>8, <2>9 DEF Steady, Upto
<1> QED BY <1>4, <1>5, <1>6

LEMMA SteadyStep ==
  ASSUME Types, OffsetIsTable, [Next]_vars, NEW q \in Panel, q \notin astray'
  PROVE  Steady(q)'
<1>1. ASSUME NEW p \in Panel, ShowRowData(p)  PROVE Steady(q)'
  BY <1>1, SteadyShow
<1>2. ASSUME NEW p \in Panel, LoadMore(p)  PROVE Steady(q)'
  BY <1>2, SteadyLoad
<1>3. ASSUME NEW p \in Panel, Further(p)  PROVE Steady(q)'
  BY <1>3, SteadyFurther
<1>4. ASSUME NEW r \in flying, FirstPage(r)  PROVE Steady(q)'
  BY <1>4, SteadyFirst
<1>5. ASSUME NEW r \in flying, NextPage(r)  PROVE Steady(q)'
  BY <1>5, SteadyNext
<1>6. ASSUME NEW r \in flying, Error(r)  PROVE Steady(q)'
  <2>1. /\ flying' = flying \ {r} /\ Place(r.panel, "message", 0) /\ "message" \in Contents
        /\ UNCHANGED <<rows, shown, link, astray>> /\ r.panel \in Panel
    BY <1>6 DEF Error, Types, Asked, Contents
  <2>2. Steady(q)
    BY <2>1 DEF OffsetIsTable
  <2>3. CASE q # r.panel
    <3>1. Of(q)' = Of(q)
      BY <2>1, <2>3 DEF Of
    <3>2. q \in present' => q \in present
      BY <2>1, <2>3, OthersStay
    <3> QED BY <2>1, <2>2, <3>1, <3>2, Untouched
  <2>4. CASE q = r.panel
    <3>1. q \notin present'
      BY <2>1, <2>4, Placed DEF present
    <3>2. Of(q)' = Of(q) \ {r}
      BY <2>1 DEF Of
    <3> QED BY <2>2, <3>1, <3>2, NoTable DEF Steady
  <2> QED BY <2>3, <2>4
<1>7. ASSUME NEW r \in flying, ServerError(r)  PROVE Steady(q)'
  <2>1. /\ q # r.panel /\ q \notin astray /\ flying' = flying \ {r}
        /\ UNCHANGED <<rows, present, shown, link>>
    BY <1>7 DEF ServerError, present
  <2>2. Of(q)' = Of(q)
    BY <2>1 DEF Of
  <2> QED BY <2>1, <2>2, Untouched DEF OffsetIsTable
<1>8. CASE Drop
  <2>1. q \notin astray /\ Of(q) = {} /\ Of(q)' = {} /\ UNCHANGED <<rows, present, shown, link>>
    BY <1>8 DEF Drop, Of, present
  <2> QED BY <2>1, Untouched DEF OffsetIsTable
<1>9. CASE Connect \/ UNCHANGED vars
  <2>1. q \notin astray /\ Of(q)' = Of(q) /\ UNCHANGED <<rows, present, shown, link>>
    BY <1>9 DEF Connect, vars, Of, present
  <2> QED BY <2>1, Untouched DEF OffsetIsTable
<1> QED BY <1>1, <1>2, <1>3, <1>4, <1>5, <1>6, <1>7, <1>8, <1>9 DEF Next

----------------------------------------------------------------------------
(* What the link says                                                      *)

\* Once the answer of p has come, and no other of its own is under way, its link is
\* there just when rows are missing from the table.
Honest(p) ==
  p \in present /\ last = p /\ Of(p) = {} => (link[p].visible <=> Len(shown[p]) < rows[p])

LinkInv == \A p \in Panel \ astray : Honest(p)

LEMMA LinkInit == Init => LinkInv
BY DEF Init, LinkInv, Honest, present

LEMMA TableLen ==
  ASSUME NEW t \in Seq(RowOf), NEW m \in Nat, NEW n \in Nat, NEW v,
         t = [k \in 1..(IF m < n THEN m ELSE n) |-> [view |-> v, row |-> k - 1]]
  PROVE  Len(t) = IF m < n THEN m ELSE n
<1> DEFINE i == IF m < n THEN m ELSE n
<1>1. DOMAIN t = 1..i /\ i \in Nat
  OBVIOUS
<1> HIDE DEF i
<1>2. Len(t) = i
  BY <1>1
<1> QED BY <1>2 DEF i

\* A first page and its link agree.
LEMMA HonestNew ==
  ASSUME Types, NEW r \in Asked, r.offset = 0, r.limit = PageSize, NEW index, NewResult(r, index),
         rows' = rows
  PROVE  Honest(r.panel)'
<1> USE Constants
<1>1. /\ r.panel \in Panel /\ rows[r.panel] \in Nat
      /\ shown' \in [Panel -> Seq(RowOf)] /\ shown'[r.panel] = FirstRows(r.panel, r.view)
      /\ link'[r.panel].visible = More(r)
  BY NewTable DEF Types, Asked
<1>2. Len(shown'[r.panel]) = IF rows[r.panel] < PageSize THEN rows[r.panel] ELSE PageSize
  BY <1>1, TableLen DEF FirstRows
<1>3. More(r) \in BOOLEAN /\ (More(r) <=> rows[r.panel] > 0 + PageSize)
  BY MoreMeans
<1>4. More(r) <=> Len(shown'[r.panel]) < rows[r.panel]
  BY <1>1, <1>2, <1>3
<1>5. link'[r.panel].visible <=> Len(shown'[r.panel]) < rows'[r.panel]
  BY <1>1, <1>4
<1> QED BY <1>5 DEF Honest

\* So do the next page and the link that has just been shown or hidden.
LEMMA HonestNext ==
  ASSUME Types, OffsetIsTable, OffsetIsTable', Types', NEW r \in flying, NextPage(r),
         r.panel \notin astray'
  PROVE  Honest(r.panel)'
<1> DEFINE q == r.panel
           n == r.offset + r.limit
<1> SUFFICES ASSUME q \in present', Of(q)' = {}
             PROVE  link'[q].visible <=> Len(shown'[q]) < rows'[q]
  BY DEF Honest
<1>1. /\ r \in Asked /\ q \in Panel /\ r.offset \in Nat /\ r.offset > 0 /\ r.limit \in Nat
      /\ UNCHANGED <<rows, content, astray>>
  BY DEF NextPage, Types, Asked
<1>2. q \in present /\ Steady(q) /\ Steady(q)'
  BY <1>1 DEF OffsetIsTable, present
<1>3. link[q].offset = n
  BY <1>1, <1>2 DEF Steady, Of
<1>4. link'[q].visible = More(r) /\ link'[q].offset = n
  <2> HIDE DEF q, n
  <2>1. CASE More(r)
    <3>1. link' = Links(Doubled, present, TRUE) /\ present # {}
      BY <1>2, <2>1 DEF NextPage
    <3>2. Doubled \in [Panel -> Link] /\ Doubled[q].offset = link[q].offset
      BY <1>1, <3>1, DoubledType
    <3>3. Links(Doubled, present, TRUE)[q].visible = TRUE
      BY <1>1, <1>2, <3>2, LinksVisible, Zenon
    <3>4. Links(Doubled, present, TRUE)[q].offset = Doubled[q].offset
      <4>1. \A p \in Panel : Links(Doubled, present, TRUE)[p].offset = Doubled[p].offset
        BY <3>2, LinksType
      <4> QED BY <1>1, <4>1
    <3>5. More(r) = TRUE
      BY <2>1 DEF More
    <3> QED BY <1>3, <3>1, <3>2, <3>3, <3>4, <3>5
  <2>2. CASE ~More(r)
    <3>1. link' = Links(link, present, FALSE) /\ link \in [Panel -> Link]
      BY <2>2 DEF NextPage, Types
    <3>2. Links(link, present, FALSE)[q].visible = FALSE
      BY <1>1, <1>2, <3>1, LinksVisible, Zenon
    <3>3. Links(link, present, FALSE)[q].offset = link[q].offset
      <4>1. \A p \in Panel : Links(link, present, FALSE)[p].offset = link[p].offset
        BY <3>1, LinksType
      <4> QED BY <1>1, <4>1
    <3>4. More(r) = FALSE
      BY <2>2 DEF More
    <3> QED BY <1>3, <3>1, <3>2, <3>3, <3>4
  <2> QED BY <2>1, <2>2
<1>5. Upto(q, n)'
  <2>1. Upto(q, Offset(q))'
    BY <1>2 DEF Steady
  <2>2. Offset(q)' = n
    BY <1>1, <1>4 DEF Offset
  <2> QED BY <2>1, <2>2 DEF Upto
<1>6. Len(shown'[q]) = IF rows[q] < n THEN rows[q] ELSE n
  <2>1. n \in Nat /\ shown'[q] \in Seq(RowOf) /\ rows[q] \in Nat /\ rows' = rows
    BY <1>1 DEF Types
  <2> HIDE DEF n, q
  <2> QED BY <1>5, <2>1, TableLen DEF Upto
<1>7. More(r) <=> rows[q] > n
  BY <1>1, MoreMeans
<1>8. More(r) <=> Len(shown'[q]) < rows[q]
  <2>1. n \in Nat /\ rows[q] \in Nat
    BY <1>1 DEF Types
  <2> QED BY <1>6, <1>7, <2>1
<1> QED BY <1>1, <1>4, <1>8

\* A step that is not of this panel's answers, and leaves its link alone.
LEMMA SameLink ==
  ASSUME NEW q \in Panel, Honest(q), Of(q)' = Of(q), last' = last, rows' = rows,
         q \in present' => q \in present, shown'[q] = shown[q], link'[q] = link[q]
  PROVE  Honest(q)'
BY DEF Honest

LEMMA HonestStep ==
  ASSUME Types, OffsetIsTable, OffsetIsTable', Types', LinkInv, [Next]_vars,
         NEW q \in Panel, q \notin astray'
  PROVE  Honest(q)'
<1> USE Constants
<1>1. ASSUME NEW p \in Panel, ShowRowData(p)  PROVE Honest(q)'
  <2>1. Place(p, "loading", 0) /\ UNCHANGED <<rows, shown, link, last>> /\ "loading" \in Contents
    BY <1>1 DEF ShowRowData, Contents
  <2>2. CASE q = p
    BY <2>1, <2>2, Placed DEF present, Honest
  <2>3. CASE q # p
    <3>1. Of(q)' = Of(q) /\ q \notin astray
      BY <1>1, <2>3, Sent DEF ShowRowData, Of
    <3>2. q \in present' => q \in present
      BY <2>1, <2>3, OthersStay
    <3> QED BY <2>1, <3>1, <3>2, SameLink DEF LinkInv
  <2> QED BY <2>2, <2>3
<1>2. ASSUME NEW p \in Panel, LoadMore(p)  PROVE Honest(q)'
  <2> DEFINE s == [panel |-> p, view |-> link[p].view, offset |-> Offset(p), limit |-> link[p].limit]
  <2>1. UNCHANGED <<rows, present, shown, last>>
    BY <1>2 DEF LoadMore, present
  <2>2. CASE q = p
    <3>1. flying' = flying \cup {s}
      BY <1>2, <2>2, Sent DEF LoadMore
    <3>2. s \in Of(q)'
      BY <2>2, <3>1 DEF Of
    <3> QED BY <3>2 DEF Honest
  <2>3. CASE q # p
    <3>1. Of(q)' = Of(q) /\ q \notin astray
      BY <1>2, <2>3, Sent DEF LoadMore
    <3>2. link'[q] = link[q]
      BY <1>2, <2>3 DEF LoadMore, Types
    <3> QED BY <2>1, <3>1, <3>2, SameLink DEF LinkInv
  <2> QED BY <2>2, <2>3
<1>3. ASSUME NEW r \in flying, FirstPage(r)  PROVE Honest(q)'
  <2>1. /\ r \in Asked /\ r.offset = 0 /\ r.limit = PageSize /\ NewResult(r, 0) /\ rows' = rows
    BY <1>3 DEF FirstPage, Types
  <2>2. last' = r.panel /\ Honest(r.panel)'
    BY <2>1, HonestNew DEF NewResult
  <2>3. CASE q = r.panel
    BY <2>2, <2>3
  <2>4. CASE q # r.panel
    BY <2>2, <2>4 DEF Honest
  <2> QED BY <2>3, <2>4
<1>4. ASSUME NEW p \in Panel, Further(p)  PROVE Honest(q)'
  <2> DEFINE r == [panel |-> p, view |-> 1, offset |-> 0, limit |-> PageSize]
  <2>1. UNCHANGED <<rows, flying, astray>>
    BY <1>4 DEF Further
  <2>2. CASE NewResult(r, 1)
    <3>1. r \in Asked /\ r.offset = 0 /\ r.limit = PageSize /\ r.panel = p
      BY DEF Asked
    <3> HIDE DEF r
    <3>2. last' = p /\ Honest(p)'
      BY <2>1, <2>2, <3>1, HonestNew DEF NewResult
    <3>3. CASE q = p
      BY <3>2, <3>3
    <3>4. CASE q # p
      BY <3>2, <3>4 DEF Honest
    <3> QED BY <3>3, <3>4
  <2>3. CASE Place(p, "message", 1) /\ UNCHANGED <<shown, link, last>>
    <3>1. "message" \in Contents
      BY DEF Contents
    <3>2. CASE q = p
      BY <2>3, <3>1, <3>2, Placed DEF present, Honest
    <3>3. CASE q # p
      <4>1. Of(q)' = Of(q) /\ q \notin astray
        BY <2>1 DEF Of
      <4>2. q \in present' => q \in present
        BY <2>3, <3>1, <3>3, OthersStay
      <4> QED BY <2>1, <2>3, <4>1, <4>2, SameLink DEF LinkInv
    <3> QED BY <3>2, <3>3
  <2> QED BY <1>4, <2>2, <2>3 DEF Further
<1>5. ASSUME NEW r \in flying, NextPage(r)  PROVE Honest(q)'
  <2>1. last' = r.panel
    BY <1>5 DEF NextPage
  <2>2. CASE q = r.panel
    BY <1>5, <2>2, HonestNext
  <2>3. CASE q # r.panel
    BY <2>1, <2>3 DEF Honest
  <2> QED BY <2>2, <2>3
<1>6. ASSUME NEW r \in flying, Error(r)  PROVE Honest(q)'
  <2>1. /\ flying' = flying \ {r} /\ Place(r.panel, "message", 0) /\ "message" \in Contents
        /\ UNCHANGED <<rows, shown, link, last, astray>> /\ r.panel \in Panel
    BY <1>6 DEF Error, Types, Asked, Contents
  <2>2. CASE q = r.panel
    BY <2>1, <2>2, Placed DEF present, Honest
  <2>3. CASE q # r.panel
    <3>1. Of(q)' = Of(q) /\ q \notin astray
      BY <2>1, <2>3 DEF Of
    <3>2. q \in present' => q \in present
      BY <2>1, <2>3, OthersStay
    <3> QED BY <2>1, <3>1, <3>2, SameLink DEF LinkInv
  <2> QED BY <2>2, <2>3
<1>7. ASSUME NEW r \in flying, ServerError(r)  PROVE Honest(q)'
  <2>1. /\ q # r.panel /\ q \notin astray /\ flying' = flying \ {r}
        /\ UNCHANGED <<rows, present, shown, link, last>>
    BY <1>7 DEF ServerError, present
  <2>2. Of(q)' = Of(q)
    BY <2>1 DEF Of
  <2> QED BY <2>1, <2>2, SameLink DEF LinkInv
<1>8. CASE Drop
  <2>1. /\ q \notin astray /\ Of(q) = {} /\ Of(q)' = {}
        /\ UNCHANGED <<rows, present, shown, link, last>>
    BY <1>8 DEF Drop, Of, present
  <2> QED BY <2>1, SameLink DEF LinkInv
<1>9. CASE Connect \/ UNCHANGED vars
  <2>1. q \notin astray /\ Of(q)' = Of(q) /\ UNCHANGED <<rows, present, shown, link, last>>
    BY <1>9 DEF Connect, vars, Of, present
  <2> QED BY <2>1, SameLink DEF LinkInv
<1> QED BY <1>1, <1>2, <1>3, <1>4, <1>5, <1>6, <1>7, <1>8, <1>9 DEF Next

----------------------------------------------------------------------------
(* The theorems                                                            *)

LEMMA TypesAlways == Spec => []Types
<1>1. Types /\ [Next]_vars => Types'
  BY TypesStep
<1> QED BY TypesInit, <1>1, PTL DEF Spec

LEMMA OffsetAlways == Spec => []OffsetIsTable
<1>1. Types /\ OffsetIsTable /\ [Next]_vars => OffsetIsTable'
  BY SteadyStep DEF OffsetIsTable
<1> QED BY TypesAlways, OffsetInit, <1>1, PTL DEF Spec

\* Whatever is clicked, and however the answers of the panels are mixed, a panel shows the
\* rows of its view from the first on, in order, unless since its first page came one of
\* its requests overlapped another, found no connection, or was not answered with rows or
\* an error of the database (QueryResultService.scala:63-88, QueryAppendService).
THEOREM TablesAreInOrder == Spec => []RowsInOrder
<1>1. Types /\ OffsetIsTable => RowsInOrder
  <2> SUFFICES ASSUME Types, OffsetIsTable, NEW p \in present \ astray,
                      NEW k \in DOMAIN shown[p]
               PROVE  shown[p][k] = [view |-> link[p].view, row |-> k - 1]
    BY DEF RowsInOrder
  <2>1. Steady(p)
    BY DEF OffsetIsTable, Types, present
  <2>2. PICK n : Upto(p, n)
    <3>1. CASE \A r \in Of(p) : r.offset = 0
      BY <2>1, <3>1 DEF Steady
    <3>2. CASE \E r \in Of(p) : r.offset # 0
      <4>1. PICK r \in Of(p) : r.offset # 0
        BY <3>2
      <4>2. r.offset > 0
        BY <4>1 DEF Of, Types, Asked
      <4> QED BY <2>1, <4>1, <4>2 DEF Steady
    <3> QED BY <3>1, <3>2
  <2> QED BY <2>2 DEF Upto
<1> QED BY TypesAlways, OffsetAlways, <1>1, PTL

\* Right after its own answer a panel offers more rows just when there are more, whatever
\* the other panels have done to its link before, with the same exceptions.
THEOREM LinksAreHonest == Spec => []LinkIsHonest
<1>1. ASSUME Types, Types', OffsetIsTable, OffsetIsTable', LinkInv, [Next]_vars
      PROVE  LinkInv'
  BY <1>1, HonestStep DEF LinkInv
<1>2. Types /\ LinkInv => LinkIsHonest
  BY DEF Types, LinkInv, Honest, LinkIsHonest, present
<1> QED BY TypesAlways, OffsetAlways, LinkInit, <1>1, <1>2, PTL DEF Spec
=============================================================================
