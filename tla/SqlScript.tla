----------------------------- MODULE SqlScript -----------------------------
(***************************************************************************)
(* A script of SQL statements: SqlParser.split, which both the client and  *)
(* the server run over it, one turn of its loop at a time, and the choice  *)
(* of the statement under the cursor in the client's editor                *)
(* (SqlManager.getActiveSql). Positions count from 0, as in the code.      *)
(***************************************************************************)
EXTENDS Naturals, Sequences, FiniteSetsExt

CONSTANT Scripts   \* the texts to split, sequences of characters

ASSUME SqlScriptAssumption == Scripts \subseteq Seq(STRING)

Delimiter == ";"
Quotes == {"'", "\"", "tick"}   \* tick: the back quote
Blanks == {" ", "\n"}

VARIABLES
  sql,      \* the text
  start, current,   \* startIndex and currentIndex
  ret,      \* what is cut off so far: sequence of [text, at]
  done,     \* the loop has ended
  cursor, active    \* the editor's cursor, and the statement getActiveSql gives

vars == <<sql, start, current, ret, done, cursor, active>>

None   == <<>>               \* not asked yet
Failed == <<"no", "statement">>  \* an exception

Init ==
  /\ sql \in Scripts /\ start = 0 /\ current = 0 /\ ret = <<>> /\ done = FALSE
  /\ cursor = 0 /\ active = None

CharAt(s, i)   == s[i + 1]
Cut(s, i, j)   == SubSeq(s, i + 1, j)      \* substring(i, j)
After(s, c, i) == {j \in i..(Len(s) - 1) : CharAt(s, j) = c}

\* indexOf(c, i), or what to take when there is none
Find(c, i, none) == IF After(sql, c, i) = {} THEN none ELSE Min(After(sql, c, i)) + 1

\* The loop is at one of these characters.
Reading(C) == ~done /\ current < Len(sql) /\ CharAt(sql, current) \in C

\* The character after it is c.
Followed(c) == current + 1 < Len(sql) /\ CharAt(sql, current + 1) = c

Skip(to) == current' = to /\ UNCHANGED <<sql, start, ret, done, cursor, active>>

-----------------------------------------------------------------------------
Escape == Reading({"\\"}) /\ Skip(current + 2)

\* Mutant: an unclosed quote runs to the end, as an unclosed bracket does.
QuoteToEnd == Reading(Quotes) /\ Skip(Find(CharAt(sql, current), current + 1, Len(sql)))

\* An unclosed quote is a character like any other.
Quote == Reading(Quotes) /\ Skip(Find(CharAt(sql, current), current + 1, current + 1))

Bracket == Reading({"["}) /\ Skip(Find("]", current + 1, Len(sql)))

\* Mutant: the end may share its star with the beginning.
BlockFromStar ==
  /\ Reading({"/"}) /\ Followed("*")
  /\ LET ends == {j \in After(sql, "*", current + 1) : j + 1 < Len(sql) /\ CharAt(sql, j + 1) = "/"}
     IN Skip(IF ends = {} THEN Len(sql) ELSE Min(ends) + 2)

BlockComment ==
  /\ Reading({"/"}) /\ Followed("*")
  /\ LET ends == {j \in After(sql, "*", current + 2) : j + 1 < Len(sql) /\ CharAt(sql, j + 1) = "/"}
     IN Skip(IF ends = {} THEN Len(sql) ELSE Min(ends) + 2)

LineComment ==
  /\ Reading({"#"}) \/ (Reading({"-"}) /\ Followed("-"))
  /\ Skip(Find("\n", current + 1, Len(sql)))

Statement ==
  /\ Reading({Delimiter})
  /\ ret' = Append(ret, [text |-> Cut(sql, start, current), at |-> start])
  /\ current' = current + 1 /\ start' = current + 1
  /\ UNCHANGED <<sql, done, cursor, active>>

Plain ==
  /\ ~done /\ current < Len(sql)
  /\ \/ ~Reading({"\\", "[", "/", "-", "#", Delimiter} \cup Quotes)
     \/ Reading({"/"}) /\ ~Followed("*")
     \/ Reading({"-"}) /\ ~Followed("-")
  /\ Skip(current + 1)

\* After the loop: what is left is the last statement.
Remainder ==
  /\ ~done /\ current >= Len(sql) /\ done' = TRUE
  /\ ret' = Append(ret, [text |-> Cut(sql, start, Len(sql)), at |-> start])
  /\ UNCHANGED <<sql, start, current, cursor, active>>

Trim(s) ==
  LET ink == {i \in DOMAIN s : s[i] \notin Blanks} IN
    IF ink = {} THEN <<>> ELSE SubSeq(s, Min(ink), Max(ink))

\* Trimmed, and the empty ones dropped; each keeps the place it was cut at.
Text(k) == Trim(ret[k].text)
Kept    == {k \in DOMAIN ret : Text(k) # <<>>}

\* getActiveSql, with nothing selected: the statement before the first that begins
\* beyond the cursor. A script of one statement is taken as it is.
Choose(c, beyond) ==
  /\ done /\ active = None /\ cursor' = c
  /\ active' = IF Cardinality(Kept) < 2 THEN <<sql>>
               ELSE IF beyond = {} THEN <<Text(Max(Kept))>>
               ELSE IF Min(beyond) = Min(Kept) THEN Failed
               ELSE <<Text(Max({k \in Kept : k < Min(beyond)}))>>
  /\ UNCHANGED <<sql, start, current, ret, done>>

\* Mutant: a statement that begins at the cursor is beyond it.
PickBefore(c) == Choose(c, {k \in Kept : ret[k].at >= c})

Pick(c) == Choose(c, {k \in Kept : ret[k].at > c})

Next ==
  \/ Escape \/ Quote \/ Bracket \/ BlockComment \/ LineComment \/ Statement \/ Plain \/ Remainder
  \/ \E c \in 0..(Len(sql) + 1) : Pick(c)   \* one delimiter has been taken off the end

Spec == Init /\ [][Next]_vars

-----------------------------------------------------------------------------
(* Reference: a text read as a sequence of lexemes                         *)

No(s, C, i, j) == \A k \in i..(j - 1) : CharAt(s, k) \notin C

Closed(s, q, i, j) == j > i + 1 /\ CharAt(s, j - 1) = q /\ No(s, {q}, i + 1, j - 1)
EndsBlock(s, i, j) == j > i + 3 /\ CharAt(s, j - 2) = "*" /\ CharAt(s, j - 1) = "/"
Opens(s, i, c, d)  == i + 1 < Len(s) /\ CharAt(s, i) = c /\ CharAt(s, i + 1) = d

\* s from i up to j is one lexeme: an escaped character, a literal, a bracketed
\* name, a comment, or a character.
Lexeme(s, i, j) ==
  LET c == CharAt(s, i) IN
  CASE c = "\\" -> j = i + 2 \/ (j = i + 1 /\ j = Len(s))
    [] c \in Quotes -> Closed(s, c, i, j) \/ (j = i + 1 /\ No(s, {c}, j, Len(s)))
    [] c = "[" -> Closed(s, "]", i, j) \/ (j = Len(s) /\ No(s, {"]"}, i, j))
    [] Opens(s, i, "/", "*") ->
         /\ \A k \in (i + 1)..(j - 1) : ~EndsBlock(s, i, k)
         /\ EndsBlock(s, i, j) \/ j = Len(s)
    [] c = "#" \/ Opens(s, i, "-", "-") ->
         Closed(s, "\n", i, j) \/ (j = Len(s) /\ No(s, {"\n"}, i, j))
    [] OTHER -> j = i + 1

\* The places where a lexeme begins, and the end of the text.
Places(s) ==
  LET upto[i \in 0..Len(s)] ==
        IF i = 0 THEN {0}
        ELSE IF \E k \in upto[i - 1] : Lexeme(s, k, i) THEN upto[i - 1] \cup {i} ELSE upto[i - 1]
  IN upto[Len(s)]

Cuts(s) == {i \in Places(s) : i < Len(s) /\ CharAt(s, i) = Delimiter}

-----------------------------------------------------------------------------
(* Properties                                                              *)

\* A script is cut at the delimiters that are lexemes and nowhere else, so at none
\* inside a literal or a comment; every statement begins after a cut and is the text
\* up to the next one, so no other character is lost or moved to another statement.
CutsAreDelimiters ==
  done =>
    /\ {ret[k].at : k \in DOMAIN ret} = {0} \cup {i + 1 : i \in Cuts(sql)}
    /\ \A k \in DOMAIN ret :
         ret[k].text = Cut(sql, ret[k].at, IF k < Len(ret) THEN ret[k + 1].at - 1 ELSE Len(sql))

\* A statement of a script, given to split again, is one statement: the server
\* splits what the client has split and sent.
StatementsStandAlone ==
  done => \A k \in Kept : Cuts(Text(k)) = {}

\* The statement that is run is the last that begins at or before the cursor; there
\* is none (an exception) only when the cursor is before the first.
PickedIsAtCursor ==
  active # None /\ Cardinality(Kept) > 1 =>
    LET begun == {k \in Kept : ret[k].at <= cursor} IN
      active = IF begun = {} THEN Failed ELSE <<Text(Max(begun))>>
=============================================================================
