--------------------------- MODULE SqlScriptProofs ---------------------------
(***************************************************************************)
(* Proofs about SqlScript, for every set of texts of any length: the loop  *)
(* of split stands where a lexeme begins, cuts at the delimiters that are  *)
(* lexemes, and leaves statements that hold none; the editor runs the last *)
(* statement that begins at or before the cursor.                          *)
(***************************************************************************)
EXTENDS SqlScript, TLAPS, WellFoundedInduction, FiniteSetTheorems

----------------------------------------------------------------------------
(* Least and greatest                                                      *)

\* Induction over numbers is used in this form: a set of numbers has a least one.
LEMMA Least ==
  ASSUME NEW T, T \subseteq Nat, T # {}
  PROVE  Min(T) \in T /\ \A y \in T : Min(T) <= y
<1> DEFINE R == {ss \in Nat \X Nat : ss[1] < ss[2]}
<1>1. IsWellFoundedOn(R, Nat)
  BY NatLessThanWellFounded DEF OpToRel
<1>2. PICK x \in T : \A y \in T : ~ (<<y, x>> \in R)
  <2> HIDE DEF R
  <2> QED BY <1>1, WFMin, Zenon
<1>3. \A y \in T : ~(y < x)
  BY <1>2
<1>4. \A y \in T : x <= y
  BY <1>3
<1> QED BY <1>4 DEF Min

LEMMA Greatest ==
  ASSUME NEW n \in Nat, NEW T, T \subseteq 0..n, T # {}
  PROVE  Max(T) \in T /\ \A y \in T : y <= Max(T)
<1> DEFINE D == {i \in 0..n : n - i \in T}
<1>1. D \subseteq Nat /\ D # {}
  <2>1. PICK x \in T : TRUE
    OBVIOUS
  <2>2. n - x \in 0..n /\ n - (n - x) = x
    BY <2>1
  <2>3. n - x \in D
    BY <2>1, <2>2
  <2>4. D \subseteq Nat
    OBVIOUS
  <2> HIDE DEF D
  <2> QED BY <2>3, <2>4
<1>2. Min(D) \in D /\ \A y \in D : Min(D) <= y
  BY <1>1, Least
<1> DEFINE g == n - Min(D)
<1>3. g \in T
  BY <1>2
<1>4. ASSUME NEW y \in T  PROVE y <= g
  <2>1. n - y \in 0..n /\ n - (n - y) = y
    OBVIOUS
  <2>2. Min(D) <= n - y
    BY <1>2, <2>1
  <2> QED BY <1>2, <2>2
<1> HIDE DEF g
<1> QED BY <1>3, <1>4 DEF Max

----------------------------------------------------------------------------
(* Lexemes and their places                                                *)

\* What begins at k of s is one lexeme up to i.
Grows(f, s, i) == IF \E k \in f : Lexeme(s, k, i) THEN f \cup {i} ELSE f

\* The function that Places is taken from, up to n.
Upto(f, s, n) == f = [i \in 0..n |-> IF i = 0 THEN {0} ELSE Grows(f[i - 1], s, i)]

LEMMA UptoStep ==
  ASSUME NEW s, NEW n \in Nat, n > 0, NEW g, Upto(g, s, n - 1)
  PROVE  \E f : Upto(f, s, n)
<1> DEFINE f == [i \in 0..n |-> IF i < n THEN g[i] ELSE Grows(g[n - 1], s, n)]
<1>1. \A i \in 0..(n - 1) : g[i] = IF i = 0 THEN {0} ELSE Grows(g[i - 1], s, i)
  BY DEF Upto
<1>2. ASSUME NEW i \in 0..n  PROVE f[i] = IF i = 0 THEN {0} ELSE Grows(f[i - 1], s, i)
  <2>1. CASE i < n
    <3>1. i \in 0..(n - 1) /\ (i # 0 => i - 1 \in 0..n /\ i - 1 < n)
      BY <2>1
    <3> QED BY <1>1, <2>1, <3>1
  <2>2. CASE i = n
    <3>1. n - 1 \in 0..n /\ n - 1 < n
      OBVIOUS
    <3> QED BY <2>2, <3>1
  <2> QED BY <2>1, <2>2
<1>3. f = [i \in 0..n |-> f[i]]
  OBVIOUS
<1>4. f = [i \in 0..n |-> IF i = 0 THEN {0} ELSE Grows(f[i - 1], s, i)]
  <2> HIDE DEF f
  <2> QED BY <1>2, <1>3
<1> HIDE DEF f
<1> QED BY <1>4 DEF Upto

LEMMA UptoExists ==
  ASSUME NEW s, NEW n \in Nat
  PROVE  \E f : Upto(f, s, n)
<1> DEFINE T == {m \in Nat : ~ \E f : Upto(f, s, m)}
<1> SUFFICES ASSUME T # {}  PROVE FALSE
  OBVIOUS
<1>1. Min(T) \in T /\ \A y \in T : Min(T) <= y
  BY Least
<1>2. PICK m \in T : \A y \in T : m <= y
  BY <1>1
<1>3. m # 0
  <2> SUFFICES ASSUME m = 0  PROVE FALSE
    OBVIOUS
  <2> DEFINE f == [i \in 0..0 |-> {0}]
  <2>1. f = [i \in 0..0 |-> IF i = 0 THEN {0} ELSE Grows(f[i - 1], s, i)]
    OBVIOUS
  <2>2. Upto(f, s, 0)
    <3> HIDE DEF f
    <3> QED BY <2>1 DEF Upto
  <2> QED BY <1>2, <2>2
<1>4. m - 1 \in Nat /\ m - 1 \notin T
  BY <1>2, <1>3
<1>5. PICK g : Upto(g, s, m - 1)
  BY <1>4
<1>6. \E f : Upto(f, s, m)
  BY <1>2, <1>3, <1>5, UptoStep
<1> QED BY <1>2, <1>6

LEMMA PlacesUpto ==
  ASSUME NEW s
  PROVE  \E f : (Len(s) \in Nat => Upto(f, s, Len(s))) /\ Places(s) = f[Len(s)]
<1> DEFINE n == Len(s)
           c == CHOOSE f : f = [i \in 0..n |-> IF i = 0 THEN {0} ELSE Grows(f[i - 1], s, i)]
<1>1. Places(s) = c[n]
  BY DEF Places, Grows
<1>2. ASSUME n \in Nat  PROVE Upto(c, s, n)
  <2>1. \E f : f = [i \in 0..n |-> IF i = 0 THEN {0} ELSE Grows(f[i - 1], s, i)]
    BY <1>2, UptoExists DEF Upto
  <2> QED BY <2>1 DEF Upto
<1> QED BY <1>1, <1>2

\* What the places are: the first, and whatever a lexeme at an earlier place ends at.
LEMMA PlacesMeans ==
  ASSUME NEW s, Len(s) \in Nat
  PROVE  /\ Places(s) \subseteq 0..Len(s) /\ 0 \in Places(s)
         /\ \A k \in 1..Len(s) : k \in Places(s) <=> \E l \in Places(s) : l < k /\ Lexeme(s, l, k)
<1> DEFINE n == Len(s)
<1>1. PICK f : Upto(f, s, n) /\ Places(s) = f[n]
  BY PlacesUpto
<1> DEFINE Fine(i) == /\ f[i] \subseteq 0..i /\ 0 \in f[i]
                      /\ \A k \in 1..i : k \in f[i] <=> \E l \in f[i] : l < k /\ Lexeme(s, l, k)
           T == {i \in 0..n : ~Fine(i)}
<1>2. \A i \in 0..n : f[i] = IF i = 0 THEN {0} ELSE Grows(f[i - 1], s, i)
  BY <1>1 DEF Upto
<1>3. ASSUME NEW i \in 0..n, i # 0 => Fine(i - 1)  PROVE Fine(i)
  <2>1. CASE i = 0
    BY <1>2, <2>1
  <2>2. CASE i # 0
    <3> DEFINE g == f[i - 1]
    <3>1. f[i] = Grows(g, s, i)
      BY <1>2, <2>2
    <3>2. /\ g \subseteq 0..(i - 1) /\ 0 \in g
          /\ \A k \in 1..(i - 1) : k \in g <=> \E l \in g : l < k /\ Lexeme(s, l, k)
      BY <1>3, <2>2
    <3> HIDE DEF g
    <3>3. f[i] \subseteq 0..i /\ 0 \in f[i] /\ \A l : l \in f[i] /\ l # i <=> l \in g
      <4>1. f[i] = g \/ f[i] = g \cup {i}
        BY <3>1 DEF Grows
      <4>2. i \notin g /\ i \in Nat
        BY <3>2
      <4>3. f[i] \subseteq 0..i /\ 0 \in f[i]
        <5>1. 0..(i - 1) \subseteq 0..i /\ i \in 0..i
          OBVIOUS
        <5>2. g \subseteq 0..i /\ 0 \in g
          BY <3>2, <5>1
        <5> QED BY <4>1, <5>1, <5>2, Zenon
      <4> QED BY <4>1, <4>2, <4>3
    <3>4. ASSUME NEW k \in 1..i  PROVE k \in f[i] <=> \E l \in f[i] : l < k /\ Lexeme(s, l, k)
      <4>1. CASE k = i
        <5>1. i \in f[i] <=> \E l \in g : Lexeme(s, l, i)
          <6>1. CASE \E l \in g : Lexeme(s, l, i)
            BY <3>1, <6>1 DEF Grows
          <6>2. CASE ~ \E l \in g : Lexeme(s, l, i)
            <7>1. f[i] = g
              BY <3>1, <6>2 DEF Grows
            <7> QED BY <3>2, <6>2, <7>1
          <6> QED BY <6>1, <6>2
        <5>2. \A l : l \in g <=> l \in f[i] /\ l < i
          BY <3>2, <3>3
        <5> QED BY <4>1, <5>1, <5>2
      <4>2. CASE k # i
        <5>1. k \in 1..(i - 1)
          BY <4>2
        <5>2. \A l : l \in f[i] /\ l < k <=> l \in g /\ l < k
          BY <3>3, <5>1
        <5>3. k \in f[i] <=> k \in g
          BY <3>3, <4>2
        <5> QED BY <3>2, <5>1, <5>2, <5>3
      <4> QED BY <4>1, <4>2
    <3> QED BY <3>3, <3>4
  <2> QED BY <2>1, <2>2
<1> HIDE DEF Fine
<1>4. T = {}
  <2> SUFFICES ASSUME T # {}  PROVE FALSE
    OBVIOUS
  <2>1. PICK m \in T : \A y \in T : m <= y
    <3>1. T \subseteq Nat
      OBVIOUS
    <3> HIDE DEF T
    <3> QED BY <3>1, Least
  <2>2. m # 0 => m - 1 \in 0..n /\ m - 1 \notin T
    BY <2>1
  <2> QED BY <1>3, <2>1, <2>2
<1>5. Fine(n)
  BY <1>4
<1> QED BY <1>1, <1>5 DEF Fine

\* No lexeme reaches across c.
Clean(s, c) == \A p \in Places(s) : p < c => \A j \in (p + 1)..Len(s) : Lexeme(s, p, j) => j <= c

Stands(s, c) == c \in Places(s) /\ Clean(s, c)

\* From a place where a lexeme begins, split moves on to the next.
LEMMA NextPlace ==
  ASSUME NEW s, Len(s) \in Nat, NEW c \in 0..Len(s), Stands(s, c), NEW d \in (c + 1)..Len(s),
         \A j \in (c + 1)..Len(s) : Lexeme(s, c, j) <=> j = d
  PROVE  Stands(s, d) /\ \A p \in Places(s) : p < d => p <= c
<1>1. /\ Places(s) \subseteq 0..Len(s)
      /\ \A k \in 1..Len(s) : k \in Places(s) <=> \E l \in Places(s) : l < k /\ Lexeme(s, l, k)
  BY PlacesMeans
<1>2. d \in Places(s)
  BY <1>1 DEF Stands
<1>3. \A p \in Places(s) : p < d => p <= c
  <2> DEFINE T == {p \in Places(s) : c < p /\ p < d}
  <2> SUFFICES ASSUME T # {}  PROVE FALSE
    BY <1>1
  <2>1. PICK m \in T : \A y \in T : m <= y
    <3>1. T \subseteq Nat
      BY <1>1
    <3> HIDE DEF T
    <3> QED BY <3>1, Least
  <2>2. PICK l \in Places(s) : l < m /\ Lexeme(s, l, m)
    BY <1>1, <2>1
  <2>3. l \in 0..Len(s) /\ m \in (l + 1)..Len(s)
    BY <1>1, <2>1, <2>2
  <2>4. CASE l < c
    BY <2>1, <2>2, <2>3, <2>4 DEF Stands, Clean
  <2>5. CASE l = c
    BY <2>1, <2>2, <2>3, <2>5
  <2>6. CASE l > c
    BY <2>1, <2>2, <2>3, <2>6
  <2> QED BY <2>3, <2>4, <2>5, <2>6
<1>4. Clean(s, d)
  <2> SUFFICES ASSUME NEW p \in Places(s), p < d, NEW j \in (p + 1)..Len(s), Lexeme(s, p, j)
               PROVE  j <= d
    BY DEF Clean
  <2>1. p \in 0..Len(s) /\ p <= c
    BY <1>1, <1>3
  <2>2. CASE p < c
    BY <2>1, <2>2 DEF Stands, Clean
  <2>3. CASE p = c
    BY <2>3
  <2> QED BY <2>1, <2>2, <2>3
<1> QED BY <1>2, <1>3, <1>4 DEF Stands

----------------------------------------------------------------------------
(* What split takes for the next lexeme is the only one                    *)

\* Lexeme, case by case.
LEMMA LexemeIs ==
  ASSUME NEW s, NEW i, NEW j
  PROVE  LET c == CharAt(s, i) IN
         /\ c = "\\" => (Lexeme(s, i, j) <=> j = i + 2 \/ (j = i + 1 /\ j = Len(s)))
         /\ c \in Quotes => (Lexeme(s, i, j) <=> \/ Closed(s, c, i, j)
                                                 \/ j = i + 1 /\ No(s, {c}, j, Len(s)))
         /\ c = "[" => (Lexeme(s, i, j) <=> \/ Closed(s, "]", i, j)
                                            \/ j = Len(s) /\ No(s, {"]"}, i, j))
         /\ Opens(s, i, "/", "*") =>
              (Lexeme(s, i, j) <=> /\ \A k \in (i + 1)..(j - 1) : ~EndsBlock(s, i, k)
                                   /\ EndsBlock(s, i, j) \/ j = Len(s))
         /\ c = "#" \/ Opens(s, i, "-", "-") =>
              (Lexeme(s, i, j) <=> \/ Closed(s, "\n", i, j)
                                   \/ j = Len(s) /\ No(s, {"\n"}, i, j))
         /\ /\ c \notin Quotes /\ c # "\\" /\ c # "[" /\ c # "#"
            /\ ~Opens(s, i, "/", "*") /\ ~Opens(s, i, "-", "-")
            => (Lexeme(s, i, j) <=> j = i + 1)
<1> DEFINE c == CharAt(s, i)
<1>1. /\ Opens(s, i, "/", "*") => c = "/"
      /\ Opens(s, i, "-", "-") => c = "-"
  BY DEF Opens
<1> HIDE DEF c
<1>2. CASE c = "\\"
  BY <1>1, <1>2 DEF Lexeme, Quotes, c
<1>3. CASE c \in Quotes
  BY <1>1, <1>3 DEF Lexeme, Quotes, c
<1>4. CASE c = "["
  BY <1>1, <1>4 DEF Lexeme, Quotes, c
<1>5. CASE Opens(s, i, "/", "*")
  BY <1>1, <1>5 DEF Lexeme, Quotes, c
<1>6. CASE c = "#" \/ Opens(s, i, "-", "-")
  BY <1>1, <1>6 DEF Lexeme, Quotes, c
<1>7. CASE /\ c \notin Quotes /\ c # "\\" /\ c # "[" /\ c # "#"
           /\ ~Opens(s, i, "/", "*") /\ ~Opens(s, i, "-", "-")
  BY <1>1, <1>7 DEF Lexeme, c
<1> QED BY <1>1, <1>2, <1>3, <1>4, <1>5, <1>6, <1>7

\* indexOf finds the first.
LEMMA AfterMeans ==
  ASSUME NEW s, Len(s) \in Nat, NEW c, NEW i \in Nat
  PROVE  /\ After(s, c, i) = {} => No(s, {c}, i, Len(s))
         /\ After(s, c, i) # {} =>
              /\ Min(After(s, c, i)) \in i..(Len(s) - 1) /\ CharAt(s, Min(After(s, c, i))) = c
              /\ No(s, {c}, i, Min(After(s, c, i)))
<1> DEFINE A == After(s, c, i)
<1>1. A \subseteq Nat /\ \A j : j \in A <=> j \in i..(Len(s) - 1) /\ CharAt(s, j) = c
  BY DEF After
<1>2. A # {} => Min(A) \in A /\ \A y \in A : Min(A) <= y
  BY <1>1, Least
<1> DEFINE m == Min(A)
<1> HIDE DEF A, m
<1>3. A = {} => No(s, {c}, i, Len(s))
  BY <1>1 DEF No
<1>4. A # {} => m \in i..(Len(s) - 1) /\ CharAt(s, m) = c /\ No(s, {c}, i, m)
  BY <1>1, <1>2 DEF No, m
<1> QED BY <1>3, <1>4 DEF A, m

LEMMA ClosedOnce ==
  ASSUME NEW s, Len(s) \in Nat, NEW c, NEW i \in 0..(Len(s) - 1), NEW j \in (i + 1)..Len(s)
  PROVE  Closed(s, c, i, j) <=> After(s, c, i + 1) # {} /\ j = Min(After(s, c, i + 1)) + 1
<1> DEFINE A == After(s, c, i + 1)
           m == Min(A)
<1>1. /\ A = {} => No(s, {c}, i + 1, Len(s))
      /\ A # {} => m \in (i + 1)..(Len(s) - 1) /\ CharAt(s, m) = c /\ No(s, {c}, i + 1, m)
  <2>1. i + 1 \in Nat
    OBVIOUS
  <2> QED BY <2>1, AfterMeans
<1> HIDE DEF A, m
<1>2. CASE A = {}
  <2>1. \A k \in (i + 1)..(Len(s) - 1) : CharAt(s, k) # c
    BY <1>1, <1>2 DEF No
  <2> QED BY <1>2, <2>1 DEF Closed, A
<1>3. CASE A # {}
  <2>1. \A k \in (i + 1)..(m - 1) : CharAt(s, k) # c
    BY <1>1, <1>3 DEF No
  <2>2. ASSUME Closed(s, c, i, j)  PROVE j = m + 1
    <3>1. j - 1 \in (i + 1)..(Len(s) - 1) /\ CharAt(s, j - 1) = c
      BY <2>2 DEF Closed
    <3>2. \A k \in (i + 1)..(j - 2) : CharAt(s, k) # c
      BY <2>2 DEF Closed, No
    <3>3. j - 1 >= m
      BY <1>1, <1>3, <2>1, <3>1
    <3>4. ~(m <= j - 2)
      BY <1>1, <1>3, <3>2
    <3> QED BY <1>1, <1>3, <3>1, <3>3, <3>4
  <2>3. ASSUME j = m + 1  PROVE Closed(s, c, i, j)
    BY <1>1, <1>3, <2>3 DEF Closed, No
  <2> QED BY <1>3, <2>2, <2>3 DEF A, m
<1> QED BY <1>2, <1>3

\* What begins at i is a lexeme up to d, and up to nowhere else.
OneLexeme(s, i, d) ==
  /\ d \in (i + 1)..Len(s)
  /\ \A j \in (i + 1)..Len(s) : Lexeme(s, i, j) <=> j = d

LEMMA OneEscape ==
  ASSUME NEW s, Len(s) \in Nat, NEW i \in 0..(Len(s) - 1), CharAt(s, i) = "\\"
  PROVE  OneLexeme(s, i, IF i + 2 <= Len(s) THEN i + 2 ELSE Len(s))
<1>1. \A j \in (i + 1)..Len(s) : Lexeme(s, i, j) <=> j = i + 2 \/ (j = i + 1 /\ j = Len(s))
  BY LexemeIs
<1> QED BY <1>1 DEF OneLexeme

\* The end of a quoted, bracketed or commented text, and where it is taken to be without one.
Ends(s, c, i, none) == IF After(s, c, i + 1) = {} THEN none ELSE Min(After(s, c, i + 1)) + 1

LEMMA EndsRange ==
  ASSUME NEW s, Len(s) \in Nat, NEW c, NEW i \in 0..(Len(s) - 1), NEW none \in (i + 1)..Len(s)
  PROVE  Ends(s, c, i, none) \in (i + 1)..Len(s)
<1>1. i + 1 \in Nat
  OBVIOUS
<1> DEFINE A == After(s, c, i + 1)
           m == Min(A)
<1>2. A # {} => m \in (i + 1)..(Len(s) - 1)
  BY <1>1, AfterMeans
<1> HIDE DEF A, m
<1> QED BY <1>2 DEF Ends, A, m

\* Without an end there is none of the character, with one there is.
LEMMA NoEnd ==
  ASSUME NEW s, Len(s) \in Nat, NEW c, NEW i \in 0..(Len(s) - 1)
  PROVE  After(s, c, i + 1) = {} <=> No(s, {c}, i + 1, Len(s))
<1>1. i + 1 \in Nat
  OBVIOUS
<1> DEFINE A == After(s, c, i + 1)
           m == Min(A)
<1>2. /\ A = {} => No(s, {c}, i + 1, Len(s))
      /\ A # {} => m \in (i + 1)..(Len(s) - 1) /\ CharAt(s, m) = c
  BY <1>1, AfterMeans
<1> HIDE DEF A, m
<1> QED BY <1>2 DEF No, A, m

LEMMA OneQuote ==
  ASSUME NEW s, Len(s) \in Nat, NEW i \in 0..(Len(s) - 1), CharAt(s, i) \in Quotes
  PROVE  OneLexeme(s, i, Ends(s, CharAt(s, i), i, i + 1))
<1> DEFINE c == CharAt(s, i)
<1>1. \A j \in (i + 1)..Len(s) : Lexeme(s, i, j) <=> Closed(s, c, i, j) \/ (j = i + 1 /\ No(s, {c}, j, Len(s)))
  BY LexemeIs
<1>2. \A j \in (i + 1)..Len(s) :
        Closed(s, c, i, j) <=> After(s, c, i + 1) # {} /\ j = Min(After(s, c, i + 1)) + 1
  BY ClosedOnce
<1>3. After(s, c, i + 1) = {} <=> No(s, {c}, i + 1, Len(s))
  BY NoEnd
<1>4. Ends(s, c, i, i + 1) \in (i + 1)..Len(s)
  BY EndsRange
<1> HIDE DEF c
<1>5. \A j \in (i + 1)..Len(s) : Lexeme(s, i, j) <=> j = Ends(s, c, i, i + 1)
  BY <1>1, <1>2, <1>3 DEF Ends
<1> QED BY <1>4, <1>5 DEF OneLexeme, c

LEMMA OneBracket ==
  ASSUME NEW s, Len(s) \in Nat, NEW i \in 0..(Len(s) - 1), CharAt(s, i) = "["
  PROVE  OneLexeme(s, i, Ends(s, "]", i, Len(s)))
<1>1. \A j \in (i + 1)..Len(s) : Lexeme(s, i, j) <=> Closed(s, "]", i, j) \/ (j = Len(s) /\ No(s, {"]"}, i, j))
  BY LexemeIs
<1>2. \A j \in (i + 1)..Len(s) :
        Closed(s, "]", i, j) <=> After(s, "]", i + 1) # {} /\ j = Min(After(s, "]", i + 1)) + 1
  BY ClosedOnce
<1>3. After(s, "]", i + 1) = {} <=> No(s, {"]"}, i + 1, Len(s))
  BY NoEnd
<1>4. No(s, {"]"}, i, Len(s)) <=> No(s, {"]"}, i + 1, Len(s))
  BY DEF No
<1>5. Ends(s, "]", i, Len(s)) \in (i + 1)..Len(s)
  BY EndsRange
<1>6. \A j \in (i + 1)..Len(s) : Lexeme(s, i, j) <=> j = Ends(s, "]", i, Len(s))
  BY <1>1, <1>2, <1>3, <1>4 DEF Ends
<1> QED BY <1>5, <1>6 DEF OneLexeme

LEMMA OneLineComment ==
  ASSUME NEW s, Len(s) \in Nat, NEW i \in 0..(Len(s) - 1), CharAt(s, i) = "#" \/ Opens(s, i, "-", "-")
  PROVE  OneLexeme(s, i, Ends(s, "\n", i, Len(s)))
<1>1. \A j \in (i + 1)..Len(s) : Lexeme(s, i, j) <=> Closed(s, "\n", i, j) \/ (j = Len(s) /\ No(s, {"\n"}, i, j))
  BY LexemeIs
<1>2. \A j \in (i + 1)..Len(s) :
        Closed(s, "\n", i, j) <=> After(s, "\n", i + 1) # {} /\ j = Min(After(s, "\n", i + 1)) + 1
  BY ClosedOnce
<1>3. After(s, "\n", i + 1) = {} <=> No(s, {"\n"}, i + 1, Len(s))
  BY NoEnd
<1>4. No(s, {"\n"}, i, Len(s)) <=> No(s, {"\n"}, i + 1, Len(s))
  BY DEF No, Opens
<1>5. Ends(s, "\n", i, Len(s)) \in (i + 1)..Len(s)
  BY EndsRange
<1>6. \A j \in (i + 1)..Len(s) : Lexeme(s, i, j) <=> j = Ends(s, "\n", i, Len(s))
  BY <1>1, <1>2, <1>3, <1>4 DEF Ends
<1> QED BY <1>5, <1>6 DEF OneLexeme

\* Where "*/" begins that ends a comment begun at i.
Stars(s, i) == {j \in After(s, "*", i + 2) : j + 1 < Len(s) /\ CharAt(s, j + 1) = "/"}

LEMMA OneBlockComment ==
  ASSUME NEW s, Len(s) \in Nat, NEW i \in 0..(Len(s) - 1), Opens(s, i, "/", "*")
  PROVE  OneLexeme(s, i, IF Stars(s, i) = {} THEN Len(s) ELSE Min(Stars(s, i)) + 2)
<1> DEFINE A == Stars(s, i)
           m == Min(A)
           d == IF A = {} THEN Len(s) ELSE m + 2
<1>1. \A j \in (i + 1)..Len(s) : Lexeme(s, i, j) <=>
        /\ \A k \in (i + 1)..(j - 1) : ~EndsBlock(s, i, k)
        /\ EndsBlock(s, i, j) \/ j = Len(s)
  BY LexemeIs
<1>2. \A j : j \in A <=> /\ j \in (i + 2)..(Len(s) - 2)
                         /\ CharAt(s, j) = "*" /\ CharAt(s, j + 1) = "/"
  BY DEF Stars, After
<1>3. A \subseteq Nat
  BY <1>2
<1>4. A # {} => m \in A /\ \A y \in A : m <= y
  BY <1>3, Least
<1> HIDE DEF A, m
<1>5. ASSUME NEW j \in (i + 1)..Len(s)  PROVE EndsBlock(s, i, j) <=> j - 2 \in A
  BY <1>2 DEF EndsBlock
<1>6. d \in (i + 1)..Len(s)
  BY <1>2, <1>4
<1>7. CASE A = {}
  BY <1>1, <1>5, <1>6, <1>7 DEF OneLexeme, A
<1>8. CASE A # {}
  <2>1. m \in (i + 2)..(Len(s) - 2) /\ (m + 2) - 2 \in A /\ m + 2 \in (i + 1)..Len(s)
    BY <1>2, <1>4, <1>8
  <2>2. EndsBlock(s, i, m + 2)
    BY <1>5, <2>1
  <2>3. ASSUME NEW k \in (i + 1)..(m + 1)  PROVE ~EndsBlock(s, i, k)
    BY <1>4, <1>5, <1>8, <2>1
  <2>4. ASSUME NEW j \in (i + 1)..Len(s), Lexeme(s, i, j)  PROVE j = m + 2
    <3>1. /\ \A k \in (i + 1)..(j - 1) : ~EndsBlock(s, i, k)
          /\ EndsBlock(s, i, j) \/ j = Len(s)
      BY <1>1, <2>4
    <3>2. ~(m + 2 <= j - 1)
      BY <2>1, <2>2, <3>1
    <3>3. ~(j <= m + 1)
      BY <2>1, <2>3, <3>1
    <3> QED BY <2>1, <3>2, <3>3
  <2>5. Lexeme(s, i, m + 2)
    BY <1>1, <2>1, <2>2, <2>3
  <2> QED BY <1>6, <1>8, <2>4, <2>5 DEF OneLexeme, A, m
<1> QED BY <1>7, <1>8

LEMMA OneCharacter ==
  ASSUME NEW s, Len(s) \in Nat, NEW i \in 0..(Len(s) - 1),
         CharAt(s, i) \notin Quotes \cup {"\\", "[", "#"},
         ~Opens(s, i, "/", "*"), ~Opens(s, i, "-", "-")
  PROVE  OneLexeme(s, i, i + 1)
<1>1. ASSUME NEW j \in (i + 1)..Len(s)  PROVE Lexeme(s, i, j) <=> j = i + 1
  <2> DEFINE c == CharAt(s, i)
  <2>1. c \notin Quotes /\ c # "\\" /\ c # "[" /\ c # "#"
    OBVIOUS
  <2> QED BY <2>1, LexemeIs
<1> QED BY <1>1 DEF OneLexeme

----------------------------------------------------------------------------
(* The loop of split                                                       *)

Piece == [text : Seq(STRING), at : Nat]

TypeInv ==
  /\ sql \in Scripts
  /\ start \in 0..Len(sql) /\ current \in Nat /\ start <= current
  /\ ret \in Seq(Piece) /\ done \in BOOLEAN
  /\ done => current >= Len(sql)

LEMMA ScriptLength == sql \in Scripts => sql \in Seq(STRING) /\ Len(sql) \in Nat
<1> SUFFICES ASSUME sql \in Scripts  PROVE sql \in Seq(STRING) /\ Len(sql) \in Nat
  OBVIOUS
<1>1. sql \in Seq(STRING)
  BY SqlScriptAssumption
<1> QED BY <1>1

\* currentIndex; an escape may take it beyond the end.
Within(s, i) == IF i <= Len(s) THEN i ELSE Len(s)

\* A step that leaves the delimiter alone.
Passes ==
  /\ ~done /\ current < Len(sql) /\ CharAt(sql, current) # Delimiter
  /\ UNCHANGED <<sql, start, ret, done, cursor, active>>
  /\ current' \in Nat /\ current' > current
  /\ OneLexeme(sql, current, Within(sql, current'))

LEMMA EscapePasses == TypeInv /\ Escape => Passes
<1> SUFFICES ASSUME TypeInv, Escape  PROVE Passes
  OBVIOUS
<1>1. Len(sql) \in Nat
  BY ScriptLength DEF TypeInv
<1>2. ~done /\ current \in 0..(Len(sql) - 1) /\ CharAt(sql, current) = "\\"
  BY <1>1 DEF Escape, Reading, TypeInv
<1>3. OneLexeme(sql, current, Within(sql, current + 2))
  BY <1>1, <1>2, OneEscape DEF Within
<1> QED BY <1>2, <1>3 DEF Escape, Skip, Passes, Delimiter

LEMMA QuotePasses == TypeInv /\ Quote => Passes
<1> SUFFICES ASSUME TypeInv, Quote  PROVE Passes
  OBVIOUS
<1>1. Len(sql) \in Nat
  BY ScriptLength DEF TypeInv
<1>2. ~done /\ current \in 0..(Len(sql) - 1) /\ CharAt(sql, current) \in Quotes
  BY <1>1 DEF Quote, Reading, TypeInv
<1> DEFINE d == Ends(sql, CharAt(sql, current), current, current + 1)
<1>3. OneLexeme(sql, current, d)
  BY <1>1, <1>2, OneQuote
<1>4. Skip(d)
  BY DEF Quote, Find, Ends
<1> HIDE DEF d
<1>5. d \in (current + 1)..Len(sql) /\ Within(sql, d) = d
  BY <1>3 DEF OneLexeme, Within
<1>6. CharAt(sql, current) # Delimiter
  BY <1>2 DEF Quotes, Delimiter
<1> QED BY <1>1, <1>2, <1>3, <1>4, <1>5, <1>6 DEF Skip, Passes

LEMMA BracketPasses == TypeInv /\ Bracket => Passes
<1> SUFFICES ASSUME TypeInv, Bracket  PROVE Passes
  OBVIOUS
<1>1. Len(sql) \in Nat
  BY ScriptLength DEF TypeInv
<1>2. ~done /\ current \in 0..(Len(sql) - 1) /\ CharAt(sql, current) = "["
  BY <1>1 DEF Bracket, Reading, TypeInv
<1> DEFINE d == Ends(sql, "]", current, Len(sql))
<1>3. OneLexeme(sql, current, d)
  BY <1>1, <1>2, OneBracket
<1>4. Skip(d)
  BY DEF Bracket, Find, Ends
<1> HIDE DEF d
<1>5. d \in (current + 1)..Len(sql) /\ Within(sql, d) = d
  BY <1>3 DEF OneLexeme, Within
<1> QED BY <1>1, <1>2, <1>3, <1>4, <1>5 DEF Skip, Passes, Delimiter

LEMMA LineCommentPasses == TypeInv /\ LineComment => Passes
<1> SUFFICES ASSUME TypeInv, LineComment  PROVE Passes
  OBVIOUS
<1>1. Len(sql) \in Nat
  BY ScriptLength DEF TypeInv
<1>2. /\ ~done /\ current \in 0..(Len(sql) - 1)
      /\ CharAt(sql, current) = "#" \/ Opens(sql, current, "-", "-")
  BY <1>1 DEF LineComment, Reading, Followed, Opens, TypeInv
<1> DEFINE d == Ends(sql, "\n", current, Len(sql))
<1>3. OneLexeme(sql, current, d)
  BY <1>1, <1>2, OneLineComment
<1>4. Skip(d)
  BY DEF LineComment, Find, Ends
<1> HIDE DEF d
<1>5. d \in (current + 1)..Len(sql) /\ Within(sql, d) = d
  BY <1>3 DEF OneLexeme, Within
<1>6. CharAt(sql, current) # Delimiter
  BY <1>2 DEF Opens, Delimiter
<1> QED BY <1>1, <1>2, <1>3, <1>4, <1>5, <1>6 DEF Skip, Passes

LEMMA BlockCommentPasses == TypeInv /\ BlockComment => Passes
<1> SUFFICES ASSUME TypeInv, BlockComment  PROVE Passes
  OBVIOUS
<1>1. Len(sql) \in Nat
  BY ScriptLength DEF TypeInv
<1>2. /\ ~done /\ current \in 0..(Len(sql) - 1)
      /\ Opens(sql, current, "/", "*")
  BY <1>1 DEF BlockComment, Reading, Followed, Opens, TypeInv
<1> DEFINE d == IF Stars(sql, current) = {} THEN Len(sql) ELSE Min(Stars(sql, current)) + 2
<1>3. OneLexeme(sql, current, d)
  BY <1>1, <1>2, OneBlockComment
<1>4. Skip(d)
  BY DEF BlockComment, Stars
<1> HIDE DEF d
<1>5. d \in (current + 1)..Len(sql) /\ Within(sql, d) = d
  BY <1>3 DEF OneLexeme, Within
<1>6. CharAt(sql, current) # Delimiter
  BY <1>2 DEF Opens, Delimiter
<1> QED BY <1>1, <1>2, <1>3, <1>4, <1>5, <1>6 DEF Skip, Passes

LEMMA PlainPasses == TypeInv /\ Plain => Passes
<1> SUFFICES ASSUME TypeInv, Plain  PROVE Passes
  OBVIOUS
<1>1. Len(sql) \in Nat
  BY ScriptLength DEF TypeInv
<1>2. /\ ~done /\ current \in 0..(Len(sql) - 1) /\ Skip(current + 1)
      /\ CharAt(sql, current) \notin Quotes \cup {"\\", "[", "#", Delimiter}
      /\ ~Opens(sql, current, "/", "*") /\ ~Opens(sql, current, "-", "-")
  <2> DEFINE c == CharAt(sql, current)
  <2>1. ~done /\ current \in 0..(Len(sql) - 1) /\ Skip(current + 1)
    BY <1>1 DEF Plain, TypeInv
  <2>2. \/ c \notin {"\\", "[", "/", "-", "#", Delimiter} \cup Quotes
        \/ c = "/" /\ ~Followed("*")
        \/ c = "-" /\ ~Followed("-")
    BY <2>1 DEF Plain, Reading
  <2>3. c \notin Quotes \cup {"\\", "[", "#", Delimiter}
    BY <2>2 DEF Quotes, Delimiter
  <2>4. ~Opens(sql, current, "/", "*") /\ ~Opens(sql, current, "-", "-")
    BY <2>2 DEF Opens, Followed
  <2> QED BY <2>1, <2>3, <2>4
<1>3. OneLexeme(sql, current, current + 1)
  BY <1>1, <1>2, OneCharacter
<1>4. Within(sql, current + 1) = current + 1
  BY <1>1, <1>2 DEF Within
<1> QED BY <1>1, <1>2, <1>3, <1>4 DEF Skip, Passes

\* A delimiter read by the loop is a lexeme.
LEMMA StatementReads ==
  TypeInv /\ Statement =>
    /\ ~done /\ current \in 0..(Len(sql) - 1) /\ CharAt(sql, current) = Delimiter
    /\ OneLexeme(sql, current, current + 1)
<1> SUFFICES ASSUME TypeInv, Statement
             PROVE  /\ ~done /\ current \in 0..(Len(sql) - 1) /\ CharAt(sql, current) = Delimiter
                    /\ OneLexeme(sql, current, current + 1)
  OBVIOUS
<1>1. Len(sql) \in Nat
  BY ScriptLength DEF TypeInv
<1>2. ~done /\ current \in 0..(Len(sql) - 1) /\ CharAt(sql, current) = Delimiter
  BY <1>1 DEF Statement, Reading, TypeInv
<1>3. /\ CharAt(sql, current) \notin Quotes \cup {"\\", "[", "#"}
      /\ ~Opens(sql, current, "/", "*") /\ ~Opens(sql, current, "-", "-")
  BY <1>2 DEF Delimiter, Quotes, Opens
<1> QED BY <1>1, <1>2, <1>3, OneCharacter

\* What is cut off is a stretch of the script between places, without a delimiter.
CutOut(s, p) ==
  /\ p.at \in Places(s)
  /\ \E e \in p.at..Len(s) : /\ p.text = Cut(s, p.at, e) /\ Clean(s, e)
                             /\ \A i \in Cuts(s) : ~(p.at <= i /\ i < e)

CutsBefore(s, n) == {i \in Cuts(s) : i < n}

\* currentIndex is where a lexeme begins (or the end), startIndex after the last cut.
LoopStands ==
  /\ Stands(sql, Within(sql, current))
  /\ start \in Places(sql) /\ \A i \in Cuts(sql) : i < current => i < start

\* So far there is a statement for the beginning and for every cut.
LoopCuts ==
  {ret[k].at : k \in DOMAIN ret} \cup (IF done THEN {} ELSE {start})
    = {0} \cup {i + 1 : i \in CutsBefore(sql, current)}

\* The statements are in the order of the script.
LoopOrder ==
  /\ \A k, l \in DOMAIN ret : k < l => ret[k].at < ret[l].at
  /\ ~done => \A k \in DOMAIN ret : ret[k].at < start

LoopPieces == \A k \in DOMAIN ret : CutOut(sql, ret[k])

\* A statement ends where the next begins, but for the delimiter.
LoopTexts ==
  \A k \in DOMAIN ret :
    ret[k].text = Cut(sql, ret[k].at, IF k < Len(ret) THEN ret[k + 1].at - 1
                                      ELSE IF done THEN Len(sql) ELSE start - 1)

LoopInv == TypeInv /\ LoopStands /\ LoopCuts /\ LoopOrder /\ LoopPieces /\ LoopTexts

LEMMA LoopInit == Init => LoopInv
<1> SUFFICES ASSUME Init  PROVE LoopInv
  OBVIOUS
<1>1. sql \in Scripts /\ Len(sql) \in Nat
  BY ScriptLength DEF Init
<1>2. start = 0 /\ current = 0 /\ ret = <<>> /\ done = FALSE
  BY DEF Init
<1>3. TypeInv
  <2>1. ret \in Seq(Piece)
    BY <1>2
  <2>2. start \in 0..Len(sql) /\ current \in Nat /\ start <= current
    BY <1>1, <1>2
  <2> QED BY <1>1, <1>2, <2>1, <2>2 DEF TypeInv
<1>4. Places(sql) \subseteq 0..Len(sql) /\ 0 \in Places(sql)
  BY <1>1, PlacesMeans
<1>5. Cuts(sql) \subseteq Nat
  BY <1>1, <1>4 DEF Cuts
<1>6. LoopStands
  <2>1. Within(sql, current) = 0
    BY <1>1, <1>2 DEF Within
  <2>2. Clean(sql, 0)
    BY <1>1, <1>4 DEF Clean
  <2> QED BY <1>2, <1>4, <1>5, <2>1, <2>2 DEF LoopStands, Stands
<1>7. LoopCuts
  <2>1. CutsBefore(sql, 0) = {}
    BY <1>5 DEF CutsBefore
  <2> QED BY <1>2, <2>1 DEF LoopCuts
<1> QED BY <1>2, <1>3, <1>6, <1>7 DEF LoopInv, LoopOrder, LoopPieces, LoopTexts

\* The step goes to the next place.
LEMMA Forward ==
  ASSUME TypeInv, LoopStands, current < Len(sql), NEW d, OneLexeme(sql, current, d)
  PROVE  Stands(sql, d) /\ \A p \in Places(sql) : p < d => p <= current
<1>1. Len(sql) \in Nat /\ current \in 0..Len(sql)
  BY ScriptLength DEF TypeInv
<1>2. Stands(sql, current)
  BY <1>1 DEF LoopStands, Within
<1>3. d \in (current + 1)..Len(sql) /\ \A j \in (current + 1)..Len(sql) : Lexeme(sql, current, j) <=> j = d
  BY DEF OneLexeme
<1> QED BY <1>1, <1>2, <1>3, NextPlace

LEMMA PassesKeeps == LoopInv /\ Passes => LoopInv'
<1> SUFFICES ASSUME LoopInv, Passes  PROVE LoopInv'
  OBVIOUS
<1> DEFINE d == Within(sql, current')
<1>1. /\ Len(sql) \in Nat /\ ~done /\ current < Len(sql) /\ CharAt(sql, current) # Delimiter
      /\ UNCHANGED <<sql, start, ret, done>> /\ current' \in Nat /\ current' > current
      /\ TypeInv
  BY ScriptLength DEF LoopInv, TypeInv, Passes
<1>2. Stands(sql, d) /\ \A p \in Places(sql) : p < d => p <= current
  BY <1>1, Forward DEF LoopInv, Passes
<1>3. CutsBefore(sql, current') = CutsBefore(sql, current)
  <2>1. Places(sql) \subseteq 0..Len(sql)
    BY <1>1, PlacesMeans
  <2>2. current \in Nat
    BY <1>1 DEF TypeInv
  <2>3. ASSUME NEW i \in Cuts(sql)  PROVE i < current' <=> i < current
    <3>1. i \in Places(sql) /\ i \in 0..(Len(sql) - 1) /\ i # current
      BY <1>1, <2>1, <2>3 DEF Cuts
    <3>2. ASSUME i < current'  PROVE i < d
      BY <1>1, <3>1, <3>2 DEF Within
    <3> QED BY <1>1, <1>2, <2>2, <3>1, <3>2
  <2> QED BY <2>3 DEF CutsBefore
<1>4. TypeInv'
  <2>1. start <= current'
    BY <1>1 DEF TypeInv
  <2> QED BY <1>1, <2>1 DEF TypeInv
<1>5. LoopStands'
  <2>1. \A i \in Cuts(sql) : i < current' => i < start
    BY <1>3 DEF CutsBefore, LoopInv, LoopStands
  <2>2. start \in Places(sql)
    BY DEF LoopInv, LoopStands
  <2> QED BY <1>1, <1>2, <2>1, <2>2 DEF LoopStands
<1>6. LoopCuts'
  BY <1>1, <1>3 DEF LoopInv, LoopCuts
<1>7. LoopOrder'
  BY <1>1 DEF LoopInv, LoopOrder
<1>8. LoopPieces' /\ LoopTexts'
  BY <1>1 DEF LoopInv, LoopPieces, LoopTexts
<1> QED BY <1>4, <1>5, <1>6, <1>7, <1>8 DEF LoopInv

\* What is appended to ret: the text from startIndex up to e, when the loop stands at e.
LEMMA PieceAdded ==
  ASSUME LoopInv, ~done, NEW e, e = Within(sql, current),
         ret' = Append(ret, [text |-> Cut(sql, start, e), at |-> start])
  PROVE  /\ ret' \in Seq(Piece) /\ Len(ret) \in Nat /\ DOMAIN ret = 1..Len(ret)
         /\ DOMAIN ret' = 1..(Len(ret) + 1)
         /\ \A k \in 1..Len(ret) : ret'[k] = ret[k]
         /\ ret'[Len(ret) + 1] = [text |-> Cut(sql, start, e), at |-> start]
         /\ \A k \in DOMAIN ret' : CutOut(sql, ret'[k])
         /\ \A k, l \in DOMAIN ret' : k < l => ret'[k].at < ret'[l].at
         /\ {ret'[k].at : k \in DOMAIN ret'} = {ret[k].at : k \in DOMAIN ret} \cup {start}
         /\ \A k \in 1..Len(ret) : ret'[k].text = Cut(sql, ret'[k].at, ret'[k + 1].at - 1)
<1> DEFINE p == [text |-> Cut(sql, start, e), at |-> start]
<1>1. /\ Len(sql) \in Nat /\ sql \in Seq(STRING) /\ start \in 0..Len(sql) /\ current \in Nat /\ start <= current
      /\ ret \in Seq(Piece)
  BY ScriptLength DEF LoopInv, TypeInv
<1>2. e \in start..Len(sql) /\ e <= current
  BY <1>1 DEF Within
<1>3. Cut(sql, start, e) \in Seq(STRING)
  BY <1>1, <1>2 DEF Cut
<1>4. p \in Piece
  BY <1>1, <1>3 DEF Piece
<1> HIDE DEF p
<1>5. /\ ret' \in Seq(Piece) /\ Len(ret) \in Nat /\ DOMAIN ret = 1..Len(ret)
      /\ DOMAIN ret' = 1..(Len(ret) + 1)
      /\ \A k \in 1..Len(ret) : ret'[k] = ret[k]
      /\ ret'[Len(ret) + 1] = p
  <2>1. ret' = Append(ret, p)
    BY DEF p
  <2> QED BY <1>1, <1>4, <2>1
<1>6. p.text = Cut(sql, start, e) /\ p.at = start
  BY DEF p
<1>7. CutOut(sql, p)
  <2>1. start \in Places(sql) /\ Clean(sql, e) /\ \A i \in Cuts(sql) : i < current => i < start
    BY DEF LoopInv, LoopStands, Stands
  <2>2. Cuts(sql) \subseteq Nat
    <3>1. Places(sql) \subseteq 0..Len(sql)
      BY <1>1, PlacesMeans
    <3> QED BY <1>1, <3>1 DEF Cuts
  <2>3. \A i \in Cuts(sql) : ~(start <= i /\ i < e)
    BY <1>1, <1>2, <2>1, <2>2
  <2> QED BY <1>2, <1>6, <2>1, <2>3 DEF CutOut
<1>8. \A k \in DOMAIN ret' : CutOut(sql, ret'[k])
  <2>1. \A k \in 1..Len(ret) : CutOut(sql, ret[k])
    BY <1>5 DEF LoopInv, LoopPieces
  <2>2. \A k \in DOMAIN ret' : k \in 1..Len(ret) \/ k = Len(ret) + 1
    BY <1>5
  <2> QED BY <1>5, <1>7, <2>1, <2>2
<1>9. \A k, l \in DOMAIN ret' : k < l => ret'[k].at < ret'[l].at
  <2>1. /\ \A k, l \in 1..Len(ret) : k < l => ret[k].at < ret[l].at
        /\ \A k \in 1..Len(ret) : ret[k].at < start
    BY <1>5 DEF LoopInv, LoopOrder
  <2> SUFFICES ASSUME NEW k \in 1..(Len(ret) + 1), NEW l \in 1..(Len(ret) + 1), k < l
               PROVE  ret'[k].at < ret'[l].at
    BY <1>5
  <2>2. k \in 1..Len(ret) /\ ret'[k] = ret[k]
    BY <1>5
  <2>3. CASE l \in 1..Len(ret)
    BY <1>5, <2>1, <2>2, <2>3
  <2>4. CASE l = Len(ret) + 1
    BY <1>5, <1>6, <2>1, <2>2, <2>4
  <2> QED BY <1>5, <2>3, <2>4
<1>10. {ret'[k].at : k \in DOMAIN ret'} = {ret[k].at : k \in DOMAIN ret} \cup {start}
  <2>1. DOMAIN ret' = DOMAIN ret \cup {Len(ret) + 1}
    BY <1>5
  <2>2. \A k \in DOMAIN ret : ret'[k].at = ret[k].at
    BY <1>5
  <2>3. ret'[Len(ret) + 1].at = start
    BY <1>5, <1>6
  <2> QED BY <2>1, <2>2, <2>3
<1>11. ASSUME NEW k \in 1..Len(ret)  PROVE ret'[k].text = Cut(sql, ret'[k].at, ret'[k + 1].at - 1)
  <2>1. ret[k].text = Cut(sql, ret[k].at, IF k < Len(ret) THEN ret[k + 1].at - 1 ELSE start - 1)
    BY <1>5 DEF LoopInv, LoopTexts
  <2>2. CASE k < Len(ret)
    <3>1. k + 1 \in 1..Len(ret)
      BY <1>5, <2>2
    <3> QED BY <1>5, <2>1, <2>2, <3>1
  <2>3. CASE k = Len(ret)
    <3>1. ret'[k + 1].at = start /\ ~(k < Len(ret))
      BY <1>5, <1>6, <2>3
    <3> QED BY <1>5, <2>1, <3>1
  <2>4. k < Len(ret) \/ k = Len(ret)
    <3>1. Len(ret) \in Nat
      BY <1>5
    <3> QED BY <3>1
  <2> QED BY <2>2, <2>3, <2>4
<1> QED BY <1>5, <1>8, <1>9, <1>10, <1>11 DEF p

LEMMA StatementKeeps == LoopInv /\ Statement => LoopInv'
<1> SUFFICES ASSUME LoopInv, Statement  PROVE LoopInv'
  OBVIOUS
<1>1. /\ ~done /\ current \in 0..(Len(sql) - 1) /\ CharAt(sql, current) = Delimiter
      /\ OneLexeme(sql, current, current + 1)
  BY StatementReads DEF LoopInv
<1>2. /\ TypeInv /\ Len(sql) \in Nat
      /\ current' = current + 1 /\ start' = current + 1 /\ UNCHANGED <<sql, done>>
      /\ ret' = Append(ret, [text |-> Cut(sql, start, current), at |-> start])
      /\ start \in 0..Len(sql) /\ start <= current
  BY ScriptLength DEF LoopInv, TypeInv, Statement
<1>3. Within(sql, current) = current /\ Within(sql, current + 1) = current + 1
  BY <1>1, <1>2 DEF Within
<1>4. /\ ret' \in Seq(Piece)
      /\ DOMAIN ret' = 1..(Len(ret) + 1) /\ Len(ret) \in Nat /\ DOMAIN ret = 1..Len(ret)
      /\ \A k \in 1..Len(ret) : ret'[k] = ret[k]
      /\ ret'[Len(ret) + 1].at = start /\ ret'[Len(ret) + 1].text = Cut(sql, start, current)
      /\ \A k \in DOMAIN ret' : CutOut(sql, ret'[k])
      /\ \A k, l \in DOMAIN ret' : k < l => ret'[k].at < ret'[l].at
      /\ {ret'[k].at : k \in DOMAIN ret'} = {ret[k].at : k \in DOMAIN ret} \cup {start}
      /\ \A k \in 1..Len(ret) : ret'[k].text = Cut(sql, ret'[k].at, ret'[k + 1].at - 1)
  <2>1. ret'[Len(ret) + 1] = [text |-> Cut(sql, start, current), at |-> start]
    BY <1>1, <1>2, <1>3, PieceAdded
  <2>2. ret'[Len(ret) + 1].at = start /\ ret'[Len(ret) + 1].text = Cut(sql, start, current)
    BY <2>1
  <2> QED BY <1>1, <1>2, <1>3, <2>2, PieceAdded
<1>5. Stands(sql, current + 1) /\ \A p \in Places(sql) : p < current + 1 => p <= current
  BY <1>1, <1>2, Forward DEF LoopInv
<1>6. Cuts(sql) \subseteq Nat /\ current \in Cuts(sql)
  <2>1. Places(sql) \subseteq 0..Len(sql)
    BY <1>2, PlacesMeans
  <2>2. current \in Places(sql)
    BY <1>3 DEF LoopInv, LoopStands, Stands
  <2> QED BY <1>1, <1>2, <2>1, <2>2 DEF Cuts
<1>7. TypeInv'
  BY <1>1, <1>2, <1>4 DEF TypeInv
<1>8. LoopStands'
  <2>1. \A i \in Cuts(sql) : i < current + 1 => i < current + 1
    OBVIOUS
  <2>2. current + 1 \in Places(sql)
    BY <1>5 DEF Stands
  <2> QED BY <1>2, <1>3, <1>5, <2>1, <2>2 DEF LoopStands
<1>9. LoopCuts'
  <2>1. CutsBefore(sql, current + 1) = CutsBefore(sql, current) \cup {current}
    BY <1>1, <1>6 DEF CutsBefore
  <2>2. {i + 1 : i \in CutsBefore(sql, current + 1)} = {i + 1 : i \in CutsBefore(sql, current)} \cup {current + 1}
    BY <2>1
  <2>3. {ret[k].at : k \in DOMAIN ret} \cup {start} = {0} \cup {i + 1 : i \in CutsBefore(sql, current)}
    BY <1>1 DEF LoopInv, LoopCuts
  <2>4. {ret'[k].at : k \in DOMAIN ret'} \cup {current + 1} = {0} \cup {i + 1 : i \in CutsBefore(sql, current + 1)}
    BY <1>4, <2>2, <2>3
  <2> QED BY <1>1, <1>2, <2>4 DEF LoopCuts
<1>10. LoopOrder'
  <2>1. ASSUME NEW k \in DOMAIN ret'  PROVE ret'[k].at < current + 1
    <3>1. k \in 1..Len(ret) \/ k = Len(ret) + 1
      BY <1>4
    <3>2. CASE k \in 1..Len(ret)
      <4>1. ret[k].at \in Nat /\ ret[k].at < start
        <5>1. ret[k].at < start
          BY <1>1, <1>4, <3>2 DEF LoopInv, LoopOrder
        <5>2. ret[k] \in Piece
          BY <1>2, <1>4, <3>2 DEF TypeInv
        <5> QED BY <5>1, <5>2 DEF Piece
      <4> QED BY <1>1, <1>2, <1>4, <3>2, <4>1
    <3>3. CASE k = Len(ret) + 1
      BY <1>1, <1>2, <1>4, <3>3
    <3> QED BY <3>1, <3>2, <3>3
  <2> QED BY <1>2, <1>4, <2>1 DEF LoopOrder
<1>11. LoopPieces'
  BY <1>2, <1>4 DEF LoopPieces
<1>12. LoopTexts'
  <2>1. Len(ret') = Len(ret) + 1
    BY <1>2, <1>4 DEF TypeInv
  <2>2. ASSUME NEW k \in DOMAIN ret'
        PROVE  ret'[k].text = Cut(sql, ret'[k].at, IF k < Len(ret') THEN ret'[k + 1].at - 1 ELSE start' - 1)
    <3>1. CASE k \in 1..Len(ret)
      <4>1. k < Len(ret')
        BY <1>4, <2>1, <3>1
      <4> QED BY <1>4, <3>1, <4>1
    <3>2. CASE k = Len(ret) + 1
      <4>1. ~(k < Len(ret')) /\ start' - 1 = current
        BY <1>1, <1>2, <1>4, <2>1, <3>2
      <4> QED BY <1>4, <3>2, <4>1
    <3> QED BY <1>4, <3>1, <3>2
  <2> QED BY <1>1, <1>2, <2>2 DEF LoopTexts
<1> QED BY <1>7, <1>8, <1>9, <1>10, <1>11, <1>12 DEF LoopInv

LEMMA RemainderKeeps == LoopInv /\ Remainder => LoopInv'
<1> SUFFICES ASSUME LoopInv, Remainder  PROVE LoopInv'
  OBVIOUS
<1>1. /\ ~done /\ done' = TRUE /\ current >= Len(sql) /\ UNCHANGED <<sql, start, current>>
      /\ ret' = Append(ret, [text |-> Cut(sql, start, Len(sql)), at |-> start])
      /\ TypeInv /\ Len(sql) \in Nat /\ current \in Nat
  BY ScriptLength DEF LoopInv, TypeInv, Remainder
<1>2. Within(sql, current) = Len(sql)
  BY <1>1 DEF Within
<1>3. /\ ret' \in Seq(Piece)
      /\ \A k \in DOMAIN ret' : CutOut(sql, ret'[k])
      /\ \A k, l \in DOMAIN ret' : k < l => ret'[k].at < ret'[l].at
      /\ {ret'[k].at : k \in DOMAIN ret'} = {ret[k].at : k \in DOMAIN ret} \cup {start}
      /\ \A k \in 1..Len(ret) : ret'[k].text = Cut(sql, ret'[k].at, ret'[k + 1].at - 1)
      /\ DOMAIN ret' = 1..(Len(ret) + 1) /\ Len(ret) \in Nat
      /\ ret'[Len(ret) + 1] = [text |-> Cut(sql, start, Len(sql)), at |-> start]
  <2> DEFINE e == Len(sql)
  <2>1. e = Within(sql, current) /\ ret' = Append(ret, [text |-> Cut(sql, start, e), at |-> start])
    BY <1>1, <1>2
  <2> HIDE DEF e
  <2>2. ret'[Len(ret) + 1] = [text |-> Cut(sql, start, e), at |-> start]
    BY <1>1, <2>1, PieceAdded
  <2>3. ret'[Len(ret) + 1] = [text |-> Cut(sql, start, Len(sql)), at |-> start]
    BY <2>2 DEF e
  <2> QED BY <1>1, <2>1, <2>3, PieceAdded
<1>4. TypeInv'
  BY <1>1, <1>3 DEF TypeInv
<1>5. LoopStands'
  BY <1>1 DEF LoopInv, LoopStands
<1>6. LoopCuts'
  BY <1>1, <1>3 DEF LoopInv, LoopCuts
<1>7. LoopOrder'
  BY <1>1, <1>3 DEF LoopOrder
<1>8. LoopPieces'
  BY <1>1, <1>3 DEF LoopPieces
<1>9. LoopTexts'
  <2>1. Len(ret') = Len(ret) + 1
    BY <1>1, <1>3 DEF TypeInv
  <2>2. ASSUME NEW k \in DOMAIN ret'
        PROVE  ret'[k].text = Cut(sql, ret'[k].at, IF k < Len(ret') THEN ret'[k + 1].at - 1 ELSE Len(sql))
    <3>1. CASE k \in 1..Len(ret)
      <4>1. k < Len(ret')
        BY <1>3, <2>1, <3>1
      <4> QED BY <1>3, <3>1, <4>1
    <3>2. CASE k = Len(ret) + 1
      <4>1. ~(k < Len(ret'))
        BY <1>3, <2>1, <3>2
      <4>2. ret'[k].text = Cut(sql, start, Len(sql)) /\ ret'[k].at = start
        BY <1>3, <3>2
      <4> QED BY <4>1, <4>2
    <3> QED BY <1>3, <3>1, <3>2
  <2> QED BY <1>1, <2>2 DEF LoopTexts
<1> QED BY <1>4, <1>5, <1>6, <1>7, <1>8, <1>9 DEF LoopInv

LEMMA LoopUnchanged == LoopInv /\ UNCHANGED <<sql, start, current, ret, done>> => LoopInv'
<1> SUFFICES ASSUME LoopInv, UNCHANGED <<sql, start, current, ret, done>>  PROVE LoopInv'
  OBVIOUS
<1>1. TypeInv' /\ LoopStands'
  BY DEF LoopInv, TypeInv, LoopStands
<1>2. LoopCuts' /\ LoopOrder' /\ LoopPieces'
  BY DEF LoopInv, LoopCuts, LoopOrder, LoopPieces
<1>3. LoopTexts'
  BY DEF LoopInv, LoopTexts
<1> QED BY <1>1, <1>2, <1>3 DEF LoopInv

LEMMA LoopStep == LoopInv /\ [Next]_vars => LoopInv'
<1> SUFFICES ASSUME LoopInv, [Next]_vars  PROVE LoopInv'
  OBVIOUS
<1>1. TypeInv
  BY DEF LoopInv
<1>2. CASE Escape
  BY <1>1, <1>2, EscapePasses, PassesKeeps
<1>3. CASE Quote
  BY <1>1, <1>3, QuotePasses, PassesKeeps
<1>4. CASE Bracket
  BY <1>1, <1>4, BracketPasses, PassesKeeps
<1>5. CASE BlockComment
  BY <1>1, <1>5, BlockCommentPasses, PassesKeeps
<1>6. CASE LineComment
  BY <1>1, <1>6, LineCommentPasses, PassesKeeps
<1>7. CASE Statement
  BY <1>7, StatementKeeps
<1>8. CASE Plain
  BY <1>1, <1>8, PlainPasses, PassesKeeps
<1>9. CASE Remainder
  BY <1>9, RemainderKeeps
<1>10. CASE \E c \in 0..(Len(sql) + 1) : Pick(c)
  BY <1>10, LoopUnchanged DEF Pick, Choose
<1>11. CASE UNCHANGED vars
  BY <1>11, LoopUnchanged DEF vars
<1> QED BY <1>2, <1>3, <1>4, <1>5, <1>6, <1>7, <1>8, <1>9, <1>10, <1>11 DEF Next

LEMMA LoopHolds == Spec => []LoopInv
BY LoopInit, LoopStep, PTL DEF Spec

\* A script is cut at the delimiters that are lexemes and at nothing else, and the
\* statements are the texts between the cuts.
THEOREM SplitCutsAtDelimiters == Spec => []CutsAreDelimiters
<1>1. LoopInv => CutsAreDelimiters
  <2> SUFFICES ASSUME LoopInv, done
               PROVE  {ret[k].at : k \in DOMAIN ret} = {0} \cup {i + 1 : i \in Cuts(sql)}
    BY DEF CutsAreDelimiters, LoopInv, LoopTexts
  <2>1. Len(sql) \in Nat /\ current \in Nat /\ current >= Len(sql)
    BY ScriptLength DEF LoopInv, TypeInv
  <2>2. CutsBefore(sql, current) = Cuts(sql)
    <3>1. Places(sql) \subseteq 0..Len(sql)
      BY <2>1, PlacesMeans
    <3> QED BY <2>1, <3>1 DEF CutsBefore, Cuts
  <2> QED BY <2>2 DEF LoopInv, LoopCuts
<1> QED BY <1>1, LoopHolds, PTL

----------------------------------------------------------------------------
(* The statement under the cursor                                          *)

\* The last statement that begins at or before the cursor.
AtCursor(c) ==
  LET begun == {k \in Kept : ret[k].at <= c} IN
    IF begun = {} THEN Failed ELSE <<Text(Max(begun))>>

PickInv ==
  active # None => done /\ (Cardinality(Kept) > 1 => active = AtCursor(cursor))

LEMMA KeptMeans ==
  ASSUME LoopInv
  PROVE  /\ Kept \subseteq Nat /\ \A k \in Kept : ret[k].at \in Nat
         /\ Cardinality(Kept) \in Nat /\ (Cardinality(Kept) > 1 => Kept # {})
         /\ \A k, l \in Kept : k < l => ret[k].at < ret[l].at
<1>1. ret \in Seq(Piece) /\ Len(ret) \in Nat /\ DOMAIN ret = 1..Len(ret)
  BY DEF LoopInv, TypeInv
<1>2. Kept \subseteq 1..Len(ret)
  BY <1>1 DEF Kept
<1>3. \A k \in Kept : ret[k].at \in Nat
  <2>1. \A k \in Kept : ret[k] \in Piece
    BY <1>1, <1>2
  <2> QED BY <2>1 DEF Piece
<1>4. IsFiniteSet(Kept) /\ Cardinality(Kept) \in Nat
  <2>1. IsFiniteSet(1..Len(ret))
    BY <1>1, FS_Interval
  <2>2. IsFiniteSet(Kept)
    BY <1>2, <2>1, FS_Subset
  <2> QED BY <2>2, FS_CardinalityType
<1>5. Cardinality(Kept) > 1 => Kept # {}
  BY FS_EmptySet
<1>6. \A k, l \in Kept : k < l => ret[k].at < ret[l].at
  BY <1>1, <1>2 DEF LoopInv, LoopOrder
<1> QED BY <1>1, <1>2, <1>3, <1>4, <1>5, <1>6

\* The statement before the first beyond the cursor is the last begun.
LEMMA BeforeTheFirstBeyond ==
  ASSUME LoopInv, Kept # {}, NEW c \in Nat
  PROVE  LET beyond == {k \in Kept : ret[k].at > c}
             begun  == {k \in Kept : ret[k].at <= c} IN
         /\ beyond = {} => begun = Kept
         /\ beyond # {} => (Min(beyond) = Min(Kept) <=> begun = {})
         /\ beyond # {} => {k \in Kept : k < Min(beyond)} = begun
<1> DEFINE K == Kept
           at == [k \in K |-> ret[k].at]
           beyond == {k \in K : at[k] > c}
           begun  == {k \in K : at[k] <= c}
           f == Min(K)
           b == Min(beyond)
<1>1. /\ K \subseteq Nat /\ K # {} /\ at \in [K -> Nat]
      /\ \A k, l \in K : k < l => at[k] < at[l]
  BY KeptMeans
<1>2. beyond = {k \in Kept : ret[k].at > c} /\ begun = {k \in Kept : ret[k].at <= c}
  OBVIOUS
<1> HIDE DEF K, at
<1>3. f \in K /\ \A y \in K : f <= y
  BY <1>1, Least
<1>4. beyond # {} => b \in beyond /\ \A y \in beyond : b <= y
  <2>1. beyond \subseteq Nat
    BY <1>1
  <2> HIDE DEF beyond
  <2> QED BY <2>1, Least
<1>5. /\ \A k : k \in beyond <=> k \in K /\ at[k] > c
      /\ \A k : k \in begun <=> k \in K /\ at[k] <= c
  OBVIOUS
<1> HIDE DEF beyond, begun, f, b
<1>6. beyond = {} => begun = K
  <2> SUFFICES ASSUME beyond = {}  PROVE \A k \in K : k \in begun
    BY <1>5
  <2> QED BY <1>1, <1>5
<1>7. ASSUME beyond # {}, NEW k \in K  PROVE k < b <=> at[k] <= c
  <2>1. b \in K /\ at[b] > c /\ k \in Nat /\ b \in Nat /\ at[k] \in Nat /\ at[b] \in Nat
    BY <1>1, <1>4, <1>5, <1>7
  <2>2. ASSUME k < b  PROVE at[k] <= c
    BY <1>1, <1>4, <1>5, <1>7, <2>1, <2>2
  <2>3. ASSUME ~(k < b)  PROVE at[k] > c
    <3>1. k = b \/ b < k
      BY <2>1, <2>3
    <3> QED BY <1>1, <2>1, <3>1
  <2> QED BY <2>1, <2>2, <2>3
<1>8. beyond # {} => {k \in K : k < b} = begun
  BY <1>5, <1>7
<1>9. ASSUME beyond # {}  PROVE b = f <=> begun = {}
  <2>1. b \in K /\ f <= b /\ b \in Nat /\ f \in Nat
    BY <1>1, <1>3, <1>4, <1>5, <1>9
  <2>2. begun = {} <=> \A k \in K : ~(k < b)
    BY <1>5, <1>7, <1>9
  <2> QED BY <1>3, <2>1, <2>2
<1> QED BY <1>6, <1>8, <1>9, <1>2 DEF f, b, K

LEMMA PickStep == LoopInv /\ PickInv /\ [Next]_vars => PickInv'
<1> SUFFICES ASSUME LoopInv, PickInv, [Next]_vars  PROVE PickInv'
  OBVIOUS
<1>1. CASE ~done /\ UNCHANGED active
  BY <1>1 DEF PickInv
<1>2. ASSUME NEW c \in 0..(Len(sql) + 1), Pick(c)  PROVE PickInv'
  <2> DEFINE beyond == {k \in Kept : ret[k].at > c}
             begun  == {k \in Kept : ret[k].at <= c}
  <2>1. /\ done /\ UNCHANGED <<sql, start, current, ret, done>> /\ cursor' = c
        /\ active' = IF Cardinality(Kept) < 2 THEN <<sql>>
                     ELSE IF beyond = {} THEN <<Text(Max(Kept))>>
                     ELSE IF Min(beyond) = Min(Kept) THEN Failed
                     ELSE <<Text(Max({k \in Kept : k < Min(beyond)}))>>
    BY <1>2 DEF Pick, Choose
  <2>2. c \in Nat
    BY ScriptLength DEF LoopInv, TypeInv
  <2>3. Cardinality(Kept) > 1 => active' = AtCursor(c)
    <3> SUFFICES ASSUME Cardinality(Kept) > 1  PROVE active' = AtCursor(c)
      OBVIOUS
    <3>1. Cardinality(Kept) \in Nat /\ Kept # {}
      BY KeptMeans
    <3>3. /\ beyond = {} => begun = Kept
          /\ beyond # {} => (Min(beyond) = Min(Kept) <=> begun = {})
          /\ beyond # {} => {k \in Kept : k < Min(beyond)} = begun
      BY <2>2, <3>1, BeforeTheFirstBeyond
    <3> HIDE DEF beyond, begun
    <3>4. AtCursor(c) = IF begun = {} THEN Failed ELSE <<Text(Max(begun))>>
      BY DEF AtCursor, begun
    <3>5. ~(Cardinality(Kept) < 2)
      BY <3>1
    <3>6. CASE beyond = {}
      <4>1. begun = Kept /\ begun # {}
        BY <3>1, <3>3, <3>6
      <4>2. active' = <<Text(Max(Kept))>>
        BY <2>1, <3>5, <3>6
      <4> QED BY <3>4, <4>1, <4>2
    <3>7. CASE beyond # {}
      <4>1. active' = IF Min(beyond) = Min(Kept) THEN Failed
                      ELSE <<Text(Max({k \in Kept : k < Min(beyond)}))>>
        BY <2>1, <3>5, <3>7
      <4>2. CASE begun = {}
        BY <3>3, <3>4, <3>7, <4>1, <4>2
      <4>3. CASE begun # {}
        BY <3>3, <3>4, <3>7, <4>1, <4>3
      <4> QED BY <4>2, <4>3
    <3> QED BY <3>6, <3>7
  <2>4. Kept' = Kept /\ AtCursor(cursor)' = AtCursor(c)
    BY <2>1 DEF Kept, Text, AtCursor
  <2> QED BY <2>1, <2>3, <2>4 DEF PickInv
<1>3. CASE UNCHANGED vars
  <2>1. Kept' = Kept /\ AtCursor(cursor)' = AtCursor(cursor)
    BY <1>3 DEF Kept, Text, AtCursor, vars
  <2> QED BY <1>3, <2>1 DEF PickInv, vars
<1>4. (\E c \in 0..(Len(sql) + 1) : Pick(c)) \/ UNCHANGED vars \/ (~done /\ UNCHANGED active)
  <2>1. Escape \/ Quote \/ Bracket \/ BlockComment \/ LineComment \/ Plain => ~done /\ UNCHANGED active
    BY EscapePasses, QuotePasses, BracketPasses, BlockCommentPasses, LineCommentPasses, PlainPasses
       DEF LoopInv, Passes
  <2>2. Statement \/ Remainder => ~done /\ UNCHANGED active
    BY DEF Statement, Remainder, Reading
  <2>3. \/ Escape \/ Quote \/ Bracket \/ BlockComment \/ LineComment \/ Plain
        \/ Statement \/ Remainder
        \/ (\E c \in 0..(Len(sql) + 1) : Pick(c)) \/ UNCHANGED vars
    BY Zenon DEF Next
  <2> QED BY <2>1, <2>2, <2>3, Zenon
<1> QED BY <1>1, <1>2, <1>3, <1>4

\* With several statements, the one that is run is the last that begins at or before the
\* cursor, and an exception says that the cursor is before all of them.
THEOREM TheStatementAtTheCursorIsRun == Spec => []PickedIsAtCursor
<1>1. Init => PickInv
  BY DEF Init, PickInv
<1>2. LoopInv /\ PickInv /\ [Next]_vars => PickInv'
  BY PickStep
<1>3. PickInv => PickedIsAtCursor
  BY DEF PickInv, PickedIsAtCursor, AtCursor
<1> QED BY <1>1, <1>2, <1>3, LoopHolds, PTL DEF Spec

----------------------------------------------------------------------------
(* A statement holds no delimiter that is a lexeme of it                   *)

\* u is s from b on, and what follows it up to e is blank.
StretchOf(u, s, b, e) ==
  /\ \A p \in 0..(Len(u) - 1) : CharAt(u, p) = CharAt(s, b + p)
  /\ \A i \in (b + Len(u))..(e - 1) : CharAt(s, i) \in Blanks

\* What closes in u closes in s.
LEMMA ShiftClosed ==
  ASSUME NEW s, NEW u, Len(s) \in Nat, Len(u) \in Nat, NEW b \in Nat, NEW e \in Nat, b + Len(u) <= e,
         StretchOf(u, s, b, e), NEW p \in Nat, NEW j \in (p + 1)..Len(u), NEW c,
         Closed(u, c, p, j)
  PROVE  Closed(s, c, b + p, b + j)
<1>1. \A k \in 0..(Len(u) - 1) : CharAt(u, k) = CharAt(s, b + k)
  BY DEF StretchOf
<1>2. j > p + 1 /\ CharAt(u, j - 1) = c /\ \A k \in (p + 1)..(j - 2) : CharAt(u, k) # c
  BY DEF Closed, No
<1>3. CharAt(s, (b + j) - 1) = c
  <2>1. j - 1 \in 0..(Len(u) - 1) /\ b + (j - 1) = (b + j) - 1
    OBVIOUS
  <2> QED BY <1>1, <1>2, <2>1
<1>4. ASSUME NEW m \in (b + p + 1)..(b + j - 2)  PROVE CharAt(s, m) # c
  <2>1. m - b \in (p + 1)..(j - 2) /\ m - b \in 0..(Len(u) - 1) /\ b + (m - b) = m
    OBVIOUS
  <2> QED BY <1>1, <1>2, <2>1
<1>5. No(s, {c}, (b + p) + 1, (b + j) - 1)
  BY <1>4 DEF No
<1> QED BY <1>2, <1>3, <1>5 DEF Closed

\* A lexeme of u that ends before u does is a lexeme of s, at the same place.
LEMMA ShiftLexeme ==
  ASSUME NEW s, NEW u, Len(s) \in Nat, Len(u) \in Nat, NEW b \in Nat, NEW e \in Nat,
         b + Len(u) <= e, e <= Len(s),
         StretchOf(u, s, b, e), Clean(s, e), NEW p \in Nat, b + p \in Places(s),
         NEW j \in (p + 1)..(Len(u) - 1), Lexeme(u, p, j)
  PROVE  Lexeme(s, b + p, b + j)
<1> DEFINE c == CharAt(u, p)
<1>1. \A k \in 0..(Len(u) - 1) : CharAt(u, k) = CharAt(s, b + k)
  BY DEF StretchOf
<1>2. /\ c = CharAt(s, b + p) /\ CharAt(u, p + 1) = CharAt(s, (b + p) + 1)
      /\ b + j \in ((b + p) + 1)..(Len(s) - 1)
  <2>1. p \in 0..(Len(u) - 1) /\ p + 1 \in 0..(Len(u) - 1) /\ b + (p + 1) = (b + p) + 1
    OBVIOUS
  <2> QED BY <1>1, <2>1
<1>3. \A x, y : Opens(u, p, x, y) <=> Opens(s, b + p, x, y)
  <2>1. p + 1 < Len(u) /\ (b + p) + 1 < Len(s)
    OBVIOUS
  <2> QED BY <1>2, <2>1 DEF Opens
<1>4. \A q : Closed(u, q, p, j) => Closed(s, q, b + p, b + j)
  BY ShiftClosed
<1>5. CASE c = "\\"
  <2>1. j = p + 2
    <3>1. Lexeme(u, p, j) <=> j = p + 2 \/ (j = p + 1 /\ j = Len(u))
      BY <1>5, LexemeIs
    <3> QED BY <3>1
  <2>2. b + j = (b + p) + 2
    BY <2>1
  <2> QED BY <1>2, <1>5, <2>2, LexemeIs
<1>6. CASE c \in Quotes
  <2>1. CASE Closed(u, c, p, j)
    BY <1>2, <1>4, <1>6, <2>1, LexemeIs
  <2>2. CASE j = p + 1 /\ No(u, {c}, j, Len(u))
    <3>1. \A k \in (p + 1)..(Len(u) - 1) : CharAt(u, k) # c
      BY <2>2 DEF No
    <3>2. ASSUME NEW m \in ((b + p) + 1)..(e - 1)  PROVE CharAt(s, m) # c
      <4>1. CASE m < b + Len(u)
        <5>1. m - b \in (p + 1)..(Len(u) - 1) /\ m - b \in 0..(Len(u) - 1) /\ b + (m - b) = m
          BY <4>1
        <5> QED BY <1>1, <3>1, <5>1
      <4>2. CASE m >= b + Len(u)
        <5>1. CharAt(s, m) \in Blanks
          BY <4>2 DEF StretchOf
        <5> QED BY <1>6, <5>1 DEF Blanks, Quotes
      <4> QED BY <4>1, <4>2
    <3>3. After(s, c, (b + p) + 1) = {}
      <4> SUFFICES ASSUME After(s, c, (b + p) + 1) # {}  PROVE FALSE
        OBVIOUS
      <4> DEFINE i == b + p
                 d == Ends(s, c, i, i + 1)
                 m == Min(After(s, c, i + 1))
      <4>1. i \in 0..(Len(s) - 1) /\ i + 1 \in Nat
        OBVIOUS
      <4>2. m \in (i + 1)..(Len(s) - 1) /\ CharAt(s, m) = c
        BY <4>1, AfterMeans
      <4>3. OneLexeme(s, i, d)
        BY <1>2, <1>6, <4>1, OneQuote
      <4>4. d = m + 1
        BY DEF Ends
      <4> HIDE DEF d, m
      <4>5. d \in (i + 1)..Len(s) /\ Lexeme(s, i, d)
        BY <4>3 DEF OneLexeme
      <4>6. m >= e
        BY <3>2, <4>2
      <4>7. i < e
        BY <4>1
      <4>8. d <= e
        BY <4>5, <4>7 DEF Clean
      <4> QED BY <4>2, <4>4, <4>6, <4>8
    <3>4. No(s, {c}, (b + p) + 1, Len(s))
      <4>1. b + p \in 0..(Len(s) - 1)
        OBVIOUS
      <4> QED BY <3>3, <4>1, NoEnd
    <3>5. b + j = (b + p) + 1
      BY <2>2
    <3> QED BY <1>2, <1>6, <3>4, <3>5, LexemeIs
  <2> QED BY <1>6, <2>1, <2>2, LexemeIs
<1>7. CASE c = "["
  <2>1. Closed(u, "]", p, j)
    <3>1. Lexeme(u, p, j) <=> Closed(u, "]", p, j) \/ (j = Len(u) /\ No(u, {"]"}, p, j))
      BY <1>7, LexemeIs
    <3> QED BY <3>1
  <2> QED BY <1>2, <1>4, <1>7, <2>1, LexemeIs
<1>8. CASE c = "#" \/ Opens(u, p, "-", "-")
  <2>1. Closed(u, "\n", p, j)
    <3>1. Lexeme(u, p, j) <=> Closed(u, "\n", p, j) \/ (j = Len(u) /\ No(u, {"\n"}, p, j))
      BY <1>8, LexemeIs
    <3> QED BY <3>1
  <2> QED BY <1>2, <1>3, <1>4, <1>8, <2>1, LexemeIs
<1>9. CASE Opens(u, p, "/", "*")
  <2>1. /\ \A k \in (p + 1)..(j - 1) : ~EndsBlock(u, p, k)
        /\ EndsBlock(u, p, j)
    <3>1. Lexeme(u, p, j) <=> /\ \A k \in (p + 1)..(j - 1) : ~EndsBlock(u, p, k)
                              /\ EndsBlock(u, p, j) \/ j = Len(u)
      BY <1>9, LexemeIs
    <3> QED BY <3>1
  <2>2. ASSUME NEW k \in (p + 1)..j  PROVE EndsBlock(u, p, k) <=> EndsBlock(s, b + p, b + k)
    <3>1. CASE k > p + 3
      <4>1. /\ k - 2 \in 0..(Len(u) - 1) /\ b + (k - 2) = (b + k) - 2
            /\ k - 1 \in 0..(Len(u) - 1) /\ b + (k - 1) = (b + k) - 1
        BY <3>1
      <4> QED BY <1>1, <3>1, <4>1 DEF EndsBlock
    <3>2. CASE ~(k > p + 3)
      BY <3>2 DEF EndsBlock
    <3> QED BY <3>1, <3>2
  <2>3. ASSUME NEW m \in ((b + p) + 1)..((b + j) - 1)  PROVE ~EndsBlock(s, b + p, m)
    <3>1. m - b \in (p + 1)..(j - 1) /\ m - b \in (p + 1)..j /\ b + (m - b) = m
      OBVIOUS
    <3> QED BY <2>1, <2>2, <3>1
  <2>4. EndsBlock(s, b + p, b + j)
    BY <2>1, <2>2
  <2>5. Opens(s, b + p, "/", "*")
    BY <1>3, <1>9
  <2> QED BY <2>3, <2>4, <2>5, LexemeIs
<1>10. CASE /\ c \notin Quotes /\ c # "\\" /\ c # "[" /\ c # "#"
            /\ ~Opens(u, p, "/", "*") /\ ~Opens(u, p, "-", "-")
  <2>1. j = p + 1 /\ b + j = (b + p) + 1
    <3>1. Lexeme(u, p, j) <=> j = p + 1
      BY <1>10, LexemeIs
    <3> QED BY <3>1
  <2> QED BY <1>2, <1>3, <1>10, <2>1, LexemeIs
<1> QED BY <1>5, <1>6, <1>7, <1>8, <1>9, <1>10

\* So every place of u, but perhaps its end, is a place of s.
LEMMA ShiftPlaces ==
  ASSUME NEW s, NEW u, Len(s) \in Nat, Len(u) \in Nat, NEW b \in Nat, NEW e \in Nat,
         b + Len(u) <= e, e <= Len(s), StretchOf(u, s, b, e), Clean(s, e), b \in Places(s)
  PROVE  \A p \in Places(u) : p < Len(u) => b + p \in Places(s)
<1> DEFINE T == {p \in Places(u) : p < Len(u) /\ b + p \notin Places(s)}
<1>1. /\ Places(u) \subseteq 0..Len(u)
      /\ \A k \in 1..Len(u) : k \in Places(u) <=> \E l \in Places(u) : l < k /\ Lexeme(u, l, k)
  BY PlacesMeans
<1>2. /\ Places(s) \subseteq 0..Len(s)
      /\ \A k \in 1..Len(s) : k \in Places(s) <=> \E l \in Places(s) : l < k /\ Lexeme(s, l, k)
  BY PlacesMeans
<1>3. T = {}
  <2> SUFFICES ASSUME T # {}  PROVE FALSE
    OBVIOUS
  <2>1. PICK m \in T : \A y \in T : m <= y
    <3>1. T \subseteq Nat
      BY <1>1
    <3> HIDE DEF T
    <3> QED BY <3>1, Least
  <2>2. m \in 1..(Len(u) - 1) /\ m \in Places(u) /\ b + m \notin Places(s)
    <3>1. m # 0
      BY <2>1
    <3> QED BY <1>1, <2>1, <3>1
  <2>3. PICK l \in Places(u) : l < m /\ Lexeme(u, l, m)
    BY <1>1, <2>2
  <2>4. l \in Nat /\ m \in (l + 1)..(Len(u) - 1)
    BY <1>1, <2>2, <2>3
  <2>5. b + l \in Places(s)
    BY <2>1, <2>3, <2>4
  <2>6. Lexeme(s, b + l, b + m)
    BY <2>3, <2>4, <2>5, ShiftLexeme
  <2>7. b + m \in 1..Len(s) /\ b + l < b + m
    BY <2>2, <2>4
  <2> QED BY <1>2, <2>2, <2>5, <2>6, <2>7
<1> QED BY <1>1, <1>3

\* Blanks are characters like any other.
LEMMA BlanksArePlaces ==
  ASSUME NEW s, Len(s) \in Nat, NEW a \in Places(s), NEW b \in a..Len(s),
         \A i \in a..(b - 1) : CharAt(s, i) \in Blanks
  PROVE  b \in Places(s)
<1> DEFINE T == {i \in a..b : i \notin Places(s)}
<1>1. /\ Places(s) \subseteq 0..Len(s)
      /\ \A k \in 1..Len(s) : k \in Places(s) <=> \E l \in Places(s) : l < k /\ Lexeme(s, l, k)
  BY PlacesMeans
<1>2. T = {}
  <2> SUFFICES ASSUME T # {}  PROVE FALSE
    OBVIOUS
  <2>1. PICK m \in T : \A y \in T : m <= y
    <3>1. T \subseteq Nat
      BY <1>1
    <3> HIDE DEF T
    <3> QED BY <3>1, Least
  <2>2. m \in (a + 1)..b /\ a \in Nat /\ m \notin Places(s)
    BY <1>1, <2>1
  <2> DEFINE l == m - 1
  <2>3. l \in Places(s) /\ CharAt(s, l) \in Blanks /\ l \in Nat /\ m = l + 1
    <3>1. l \in a..b /\ l \in a..(b - 1) /\ l \in Nat /\ ~(m <= l)
      BY <2>2
    <3> QED BY <2>1, <3>1
  <2> HIDE DEF l
  <2>4. /\ CharAt(s, l) \notin Quotes /\ CharAt(s, l) # "\\" /\ CharAt(s, l) # "[" /\ CharAt(s, l) # "#"
        /\ ~Opens(s, l, "/", "*") /\ ~Opens(s, l, "-", "-")
    BY <2>3 DEF Blanks, Quotes, Opens
  <2>5. Lexeme(s, l, m) <=> m = l + 1
    BY <2>4, LexemeIs
  <2>6. m \in 1..Len(s) /\ l < m
    BY <2>2, <2>3
  <2> QED BY <1>1, <2>2, <2>3, <2>5, <2>6
<1>3. b \in a..b /\ a \in Nat
  BY <1>1
<1> QED BY <1>2, <1>3

\* What trim takes off at both ends is blank.
LEMMA TrimMeans ==
  ASSUME NEW t \in Seq(STRING), Trim(t) # <<>>
  PROVE  \E lo \in 1..Len(t) : \E hi \in lo..Len(t) :
           /\ Trim(t) = SubSeq(t, lo, hi)
           /\ \A i \in 1..(lo - 1) : t[i] \in Blanks
           /\ \A i \in (hi + 1)..Len(t) : t[i] \in Blanks
<1> DEFINE n == Len(t)
           ink == {i \in DOMAIN t : t[i] \notin Blanks}
           lo == Min(ink)
           hi == Max(ink)
<1>1. n \in Nat /\ DOMAIN t = 1..n
  OBVIOUS
<1>2. ink # {} /\ Trim(t) = SubSeq(t, lo, hi)
  BY DEF Trim
<1>3. /\ \A i : i \in ink <=> i \in 1..n /\ t[i] \notin Blanks
      /\ ink \subseteq Nat /\ ink \subseteq 0..n
  BY <1>1
<1> HIDE DEF ink
<1>4. lo \in ink /\ \A y \in ink : lo <= y
  BY <1>2, <1>3, Least
<1>5. hi \in ink /\ \A y \in ink : y <= hi
  BY <1>1, <1>2, <1>3, Greatest
<1> HIDE DEF lo, hi
<1>6. lo \in 1..n /\ hi \in lo..n
  BY <1>1, <1>3, <1>4, <1>5
<1>7. \A i \in 1..(lo - 1) : t[i] \in Blanks
  BY <1>1, <1>3, <1>4, <1>6
<1>8. \A i \in (hi + 1)..n : t[i] \in Blanks
  BY <1>1, <1>3, <1>5, <1>6
<1> QED BY <1>2, <1>6, <1>7, <1>8

LEMMA NoCutInside ==
  ASSUME NEW s \in Seq(STRING), NEW p \in Piece, CutOut(s, p), Trim(p.text) # <<>>
  PROVE  Cuts(Trim(p.text)) = {}
<1> DEFINE a == p.at
           t == p.text
           u == Trim(t)
<1>1. Len(s) \in Nat /\ a \in Nat /\ t \in Seq(STRING) /\ a \in Places(s)
  BY DEF Piece, CutOut
<1>2. PICK e \in a..Len(s) : /\ t = Cut(s, a, e) /\ Clean(s, e)
                             /\ \A i \in Cuts(s) : ~(a <= i /\ i < e)
  BY DEF CutOut
<1>3. PICK lo \in 1..Len(t) : \E hi \in lo..Len(t) :
           /\ u = SubSeq(t, lo, hi)
           /\ \A i \in 1..(lo - 1) : t[i] \in Blanks
           /\ \A i \in (hi + 1)..Len(t) : t[i] \in Blanks
  BY <1>1, TrimMeans
<1>4. PICK hi \in lo..Len(t) :
           /\ u = SubSeq(t, lo, hi)
           /\ \A i \in 1..(lo - 1) : t[i] \in Blanks
           /\ \A i \in (hi + 1)..Len(t) : t[i] \in Blanks
  BY <1>3
<1> HIDE DEF a, t, u
<1>5. e \in Nat /\ Len(t) = e - a /\ \A i \in 1..(e - a) : t[i] = s[a + i]
  BY <1>1, <1>2 DEF Cut
<1> DEFINE b == a + lo - 1
<1>6. b \in a..Len(s) /\ b \in Nat /\ lo \in Nat /\ hi \in Nat
  BY <1>1, <1>4, <1>5
<1>7. Len(u) = hi - lo + 1 /\ \A i \in 1..(hi - lo + 1) : u[i] = t[lo + i - 1]
  BY <1>1, <1>4, <1>6
<1>8. Len(u) \in Nat /\ b + Len(u) <= e /\ e <= Len(s)
  BY <1>1, <1>4, <1>5, <1>6, <1>7
<1>9. \A q \in 0..(Len(u) - 1) : CharAt(u, q) = CharAt(s, b + q)
  <2> SUFFICES ASSUME NEW q \in 0..(Len(u) - 1)  PROVE u[q + 1] = s[(b + q) + 1]
    BY DEF CharAt
  <2>1. u[q + 1] = t[lo + (q + 1) - 1]
    <3>1. q + 1 \in 1..(hi - lo + 1)
      BY <1>6, <1>7
    <3> QED BY <1>7, <3>1
  <2>2. lo + (q + 1) - 1 = lo + q /\ lo + q \in 1..(e - a) /\ a + (lo + q) = (b + q) + 1
    BY <1>1, <1>4, <1>5, <1>6, <1>7
  <2> QED BY <1>5, <2>1, <2>2
<1>10. \A i \in a..(b - 1) : CharAt(s, i) \in Blanks
  <2> SUFFICES ASSUME NEW i \in a..(b - 1)  PROVE s[i + 1] \in Blanks
    BY DEF CharAt
  <2>1. /\ (i + 1) - a \in 1..(lo - 1) /\ (i + 1) - a \in 1..(e - a) /\ a + ((i + 1) - a) = i + 1
    BY <1>1, <1>4, <1>5, <1>6
  <2> QED BY <1>4, <1>5, <2>1
<1>11. \A i \in (b + Len(u))..(e - 1) : CharAt(s, i) \in Blanks
  <2> SUFFICES ASSUME NEW i \in (b + Len(u))..(e - 1)  PROVE s[i + 1] \in Blanks
    BY DEF CharAt
  <2>1. /\ (i + 1) - a \in (hi + 1)..Len(t) /\ (i + 1) - a \in 1..(e - a) /\ a + ((i + 1) - a) = i + 1
    BY <1>1, <1>4, <1>5, <1>6, <1>7
  <2> QED BY <1>4, <1>5, <2>1
<1> HIDE DEF b
<1>12. StretchOf(u, s, b, e)
  BY <1>9, <1>11 DEF StretchOf
<1>13. b \in Places(s)
  BY <1>1, <1>6, <1>10, BlanksArePlaces
<1>14. \A q \in Places(u) : q < Len(u) => b + q \in Places(s)
  BY <1>1, <1>2, <1>5, <1>6, <1>8, <1>12, <1>13, ShiftPlaces
<1>15. Cuts(u) = {}
  <2> SUFFICES ASSUME NEW q \in Cuts(u)  PROVE FALSE
    OBVIOUS
  <2>1. Places(u) \subseteq 0..Len(u)
    BY <1>8, PlacesMeans
  <2>2. q \in Places(u) /\ q \in 0..(Len(u) - 1) /\ CharAt(u, q) = Delimiter
    BY <1>8, <2>1 DEF Cuts
  <2>3. b + q \in Places(s) /\ CharAt(s, b + q) = Delimiter
    BY <1>9, <1>14, <2>2
  <2>4. b + q < Len(s) /\ a <= b + q /\ b + q < e
    BY <1>1, <1>5, <1>6, <1>8, <2>2
  <2>5. b + q \in Cuts(s)
    BY <2>3, <2>4 DEF Cuts
  <2> QED BY <1>2, <2>4, <2>5
<1> QED BY <1>15 DEF u, t

\* What split gives for a statement of a script is that statement: to split again, as
\* the server does with what the client sends, cuts nothing more.
THEOREM StatementsSplitNoFurther == Spec => []StatementsStandAlone
<1>1. LoopInv => StatementsStandAlone
  <2> SUFFICES ASSUME LoopInv, NEW k \in Kept  PROVE Cuts(Text(k)) = {}
    BY DEF StatementsStandAlone
  <2>1. sql \in Seq(STRING) /\ k \in DOMAIN ret /\ ret \in Seq(Piece) /\ Text(k) # <<>>
    BY ScriptLength DEF LoopInv, TypeInv, Kept
  <2>2. ret[k] \in Piece /\ CutOut(sql, ret[k])
    BY <2>1 DEF LoopInv, LoopPieces
  <2> QED BY <2>1, <2>2, NoCutInside DEF Text
<1> QED BY <1>1, LoopHolds, PTL

\* Every turn of the loop ends it or moves currentIndex on, whatever indexOf gives; so
\* split ends after at most one turn for each character, and one more.
THEOREM EveryTurnMovesOn == Spec => [][~done => done' \/ current' > current]_vars
<1>1. LoopInv /\ [Next]_vars => [~done => done' \/ current' > current]_vars
  <2> SUFFICES ASSUME LoopInv, Next, ~done  PROVE done' \/ current' > current
    BY Zenon
  <2>1. TypeInv /\ current \in Nat
    BY DEF LoopInv, TypeInv
  <2>2. Escape \/ Quote \/ Bracket \/ BlockComment \/ LineComment \/ Plain => Passes
    BY <2>1, EscapePasses, QuotePasses, BracketPasses, BlockCommentPasses, LineCommentPasses, PlainPasses
  <2>3. Statement => current' > current
    BY <2>1 DEF Statement
  <2>4. Remainder => done'
    BY DEF Remainder
  <2>5. ~ \E c \in 0..(Len(sql) + 1) : Pick(c)
    BY DEF Pick, Choose
  <2> QED BY <2>2, <2>3, <2>4, <2>5, Zenon DEF Next, Passes
<1> QED BY <1>1, LoopHolds, PTL DEF Spec
=============================================================================
