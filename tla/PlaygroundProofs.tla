--------------------------- MODULE PlaygroundProofs ---------------------------
(***************************************************************************)
(* Theorems about Playground, for any number of requests and pieces and    *)
(* texts of any length.                                                    *)
(*                                                                         *)
(* The first part is about parseThinkTags alone: its recursion has a       *)
(* solution, and it finds what a reading from left to right finds.  The    *)
(* second holds whatever the user does: types, the agreement of the parser *)
(* on every message, and the source that Stop closes.  The third is about  *)
(* a page on which no two requests have overlapped; once they have, its    *)
(* invariant is false.                                                     *)
(***************************************************************************)
EXTENDS Playground, DataInduction, SequenceTheorems, TLAPS

-----------------------------------------------------------------------------
(* What parseThinkTags returns. *)

Parsed == [visible : Seq(Token), reasoning : Seq(Token), unclosed : BOOLEAN]

\* indexOf finds a place where the pattern fits and before which it does not
\* stand, or there is none.
LEMMA IndexOfFacts ==
    ASSUME NEW content \in Seq(Token), NEW pattern \in Seq(Token),
           Len(pattern) > 0, NEW i \in Nat, i > 0
    PROVE  LET p == IndexOf(content, pattern, i)
               places == i..(Len(content) + 1 - Len(pattern)) IN
           /\ p = 0 \/ p \in places
           /\ \A j \in places :
                (p = 0 \/ j < p) => SubSeq(content, j, j + Len(pattern) - 1) # pattern
           /\ p # 0 => SubSeq(content, p, p + Len(pattern) - 1) = pattern
<1> DEFINE places == i..(Len(content) + 1 - Len(pattern))
           At == {j \in places : SubSeq(content, j, j + Len(pattern) - 1) = pattern}
           p == IndexOf(content, pattern, i)
<1>1. Len(content) \in Nat /\ Len(pattern) \in Nat
  OBVIOUS
<1>2. At \in SUBSET Nat
  BY <1>1
<1>3. CASE At = {}
  <2>1. p = 0
    BY <1>3 DEF IndexOf
  <2> QED
    BY <1>3, <2>1
<1>4. CASE At # {}
  <2>1. p = CHOOSE j \in At : \A k \in At : j <= k
    BY <1>4 DEF IndexOf
  <2>2. \E j \in At : \A k \in At : j <= k
    <3> HIDE DEF At
    <3> QED
      BY <1>2, <1>4, LeastPlace
  <2>3. p \in At /\ \A k \in At : p <= k
    <3> HIDE DEF At, p
    <3> QED
      BY <2>1, <2>2
  <2>4. p \in places /\ p \in Nat /\ p # 0
    BY <1>1, <1>2, <2>3
  <2>5. ASSUME NEW j \in places, j < p
        PROVE  SubSeq(content, j, j + Len(pattern) - 1) # pattern
    <3>1. j \notin At
      <4> HIDE DEF At, p
      <4>1. j \in Nat
        BY <1>1
      <4> QED
        BY <1>2, <2>3, <2>4, <2>5, <4>1
    <3> QED
      BY <3>1
  <2>6. SubSeq(content, p, p + Len(pattern) - 1) = pattern
    BY <2>3
  <2> HIDE DEF p
  <2> QED
    BY <2>4, <2>5, <2>6 DEF p
<1> QED
  BY <1>3, <1>4


\* The tags and the texts that the page itself writes are made of tokens.
LEMMA TagFacts ==
    /\ Open \in Seq(Token) /\ Len(Open) = 2
    /\ Close \in Seq(Token) /\ Len(Close) = 2
    /\ Open[2] = Close[2] /\ Open[1] # Close[2] /\ Close[1] # Close[2]
    /\ Text \in Token /\ ErrorText \in Token
<1>1. Open[1] \in Token /\ Close[1] \in Token /\ Close[2] \in Token /\ Open[2] = Close[2]
  BY DEF Open, Close, Token
<1>2. Open[1] # Close[2] /\ Close[1] # Close[2]
  BY DEF Open, Close
<1>3. Open = <<Open[1], Open[2]>> /\ Close = <<Close[1], Close[2]>>
  BY DEF Open, Close
<1>4. Text \in Token /\ ErrorText \in Token
  BY DEF Token
<1>5. \A x, y \in Token : <<x, y>> \in Seq(Token) /\ Len(<<x, y>>) = 2
  OBVIOUS
<1> QED
  BY <1>1, <1>2, <1>3, <1>4, <1>5

\* A tag stands at the place j; it begins nowhere between a and b.
TagAt(content, tag, j) == content[j] = tag[1] /\ content[j + 1] = tag[2]
NoTag(content, tag, a, b) == \A j \in a..(b - 1) : ~TagAt(content, tag, j)

\* The slice of two tokens is a tag if it has its halves.
LEMMA TagPair ==
    ASSUME NEW content \in Seq(Token), NEW tag \in Seq(Token), Len(tag) = 2,
           NEW j \in 1..(Len(content) - 1)
    PROVE  SubSeq(content, j, j + Len(tag) - 1) = tag <=> TagAt(content, tag, j)
<1> DEFINE a == SubSeq(content, j, j + 1)
<1>1. Len(content) \in Nat /\ j + Len(tag) - 1 = j + 1
  OBVIOUS
<1>2. \A i \in j..(j + 1) : content[i] \in Token
  BY <1>1, ElementOfSeq
<1>3. a \in Seq(Token) /\ Len(a) = 2 /\ \A i \in 1..2 : a[i] = content[j + i - 1]
  BY <1>1, <1>2, SubSeqProperties
<1>4. a[1] = content[j] /\ a[2] = content[j + 1]
  BY <1>1, <1>3
<1> HIDE DEF a
<1>5. ASSUME a[1] = tag[1], a[2] = tag[2] PROVE a = tag
  <2>1. \A i \in 1..Len(a) : a[i] = tag[i]
    BY <1>3, <1>5
  <2> QED
    BY <1>3, <2>1, SeqEqual
<1> QED
  BY <1>1, <1>4, <1>5 DEF a, TagAt

\* indexOf finds the first place of a tag.
LEMMA FirstTag ==
    ASSUME NEW content \in Seq(Token), NEW tag \in Seq(Token), Len(tag) = 2,
           NEW i \in Nat, i > 0
    PROVE  LET p == IndexOf(content, tag, i) IN
           /\ p = 0 \/ p \in i..(Len(content) - 1)
           /\ p = 0 => NoTag(content, tag, i, Len(content))
           /\ p # 0 => TagAt(content, tag, p) /\ NoTag(content, tag, i, p)
<1> DEFINE p == IndexOf(content, tag, i)
           places == i..(Len(content) + 1 - Len(tag))
<1>0. Len(content) \in Nat /\ Len(tag) > 0
  OBVIOUS
<1>1. /\ p = 0 \/ p \in places
      /\ \A j \in places : (p = 0 \/ j < p) => SubSeq(content, j, j + Len(tag) - 1) # tag
      /\ p # 0 => SubSeq(content, p, p + Len(tag) - 1) = tag
  BY <1>0, IndexOfFacts
<1> HIDE DEF p
<1>2. places = i..(Len(content) - 1) /\ \A j \in places : j \in 1..(Len(content) - 1)
  BY <1>0
<1>3. \A j \in places : (p = 0 \/ j < p) => ~TagAt(content, tag, j)
  BY <1>1, <1>2, TagPair
<1>4. p # 0 => TagAt(content, tag, p)
  BY <1>1, <1>2, TagPair
<1>5. p = 0 => NoTag(content, tag, i, Len(content))
  BY <1>2, <1>3 DEF NoTag
<1>6. p # 0 => NoTag(content, tag, i, p)
  <2> SUFFICES ASSUME p # 0, NEW j \in i..(p - 1) PROVE ~TagAt(content, tag, j)
    BY DEF NoTag
  <2>1. j \in places /\ j < p
    BY <1>0, <1>1, <1>2
  <2> QED
    BY <1>3, <2>1
<1> QED
  BY <1>1, <1>2, <1>4, <1>5, <1>6 DEF p

\* Where a turn of the loop finds the tags.
LEMMA TurnFacts ==
    ASSUME NEW content \in Seq(Token), NEW pos \in 1..(Len(content) + 1)
    PROVE  LET n == Len(content)
               open == IndexOf(content, Open, pos)
               inner == open + Len(Open)
               close == IndexOf(content, Close, inner) IN
           /\ open = 0 \/ open \in pos..(n - 1)
           /\ open = 0 => NoTag(content, Open, pos, n)
           /\ open # 0 => /\ inner = open + 2
                          /\ TagAt(content, Open, open) /\ NoTag(content, Open, pos, open)
                          /\ close = 0 \/ close \in inner..(n - 1)
                          /\ close = 0 => NoTag(content, Close, inner, n)
                          /\ close # 0 => /\ TagAt(content, Close, close)
                                          /\ NoTag(content, Close, inner, close)
                                          /\ close + Len(Close) = close + 2
<1> DEFINE n == Len(content)
           open == IndexOf(content, Open, pos)
           inner == open + Len(Open)
           close == IndexOf(content, Close, inner)
<1>0. n \in Nat /\ pos \in Nat /\ pos > 0
  OBVIOUS
<1>1. /\ open = 0 \/ open \in pos..(n - 1)
      /\ open = 0 => NoTag(content, Open, pos, n)
      /\ open # 0 => TagAt(content, Open, open) /\ NoTag(content, Open, pos, open)
  BY <1>0, TagFacts, FirstTag
<1> HIDE DEF open
<1>2. open # 0 => inner = open + 2 /\ inner \in Nat /\ inner > 0
  BY <1>0, <1>1, TagFacts
<1> HIDE DEF inner
<1>3. open # 0 => /\ close = 0 \/ close \in inner..(n - 1)
                  /\ close = 0 => NoTag(content, Close, inner, n)
                  /\ close # 0 => TagAt(content, Close, close) /\ NoTag(content, Close, inner, close)
  BY <1>2, TagFacts, FirstTag
<1>4. close + Len(Close) = close + 2
  BY TagFacts
<1> HIDE DEF close
<1> QED
  BY <1>1, <1>2, <1>3, <1>4 DEF open, inner, close

\* The loop makes progress: a turn only asks for what later turns find.
LEMMA TurnLooksAhead ==
    ASSUME NEW content \in Seq(Token), NEW pos \in 1..(Len(content) + 1), NEW f, NEW g,
           \A q \in (pos + 1)..(Len(content) + 1) : f[q] = g[q]
    PROVE  parseTurn(content, f, pos) = parseTurn(content, g, pos)
<1> DEFINE n == Len(content)
           open == IndexOf(content, Open, pos)
           inner == open + Len(Open)
           close == IndexOf(content, Close, inner)
<1>1. /\ open = 0 \/ open \in pos..(n - 1)
      /\ open # 0 => /\ inner = open + 2
                     /\ close = 0 \/ close \in inner..(n - 1)
                     /\ close # 0 => close + Len(Close) = close + 2
  BY TurnFacts
<1>2. CASE open = 0
  BY <1>2 DEF parseTurn
<1>3. CASE open # 0 /\ close = 0
  BY <1>3 DEF parseTurn
<1>4. CASE open # 0 /\ close # 0
  <2>1. close + Len(Close) \in (pos + 1)..(Len(content) + 1)
    <3>1. n \in Nat
      OBVIOUS
    <3> HIDE DEF open, inner, close
    <3> QED
      BY <1>1, <1>4, <3>1
  <2>2. f[close + Len(Close)] = g[close + Len(Close)]
    BY <2>1
  <2> QED
    BY <1>4, <2>2 DEF parseTurn
<1> QED
  BY <1>2, <1>3, <1>4

\* The recursive function that models the loop exists ...
LEMMA ParseExists ==
    ASSUME NEW content \in Seq(Token)
    PROVE  \E f : f = [pos \in 1..(Len(content) + 1) |-> parseTurn(content, f, pos)]
<1> DEFINE n == Len(content) + 1
           G(k) == \E f : f = [pos \in k..n |-> parseTurn(content, f, pos)]
           S == {k \in 1..(n + 1) : G(k)}
<1>0. n \in Nat
  OBVIOUS
<1>1. n + 1 \in S
  <2> DEFINE e == [pos \in (n + 1)..n |-> 0]
  <2>1. (n + 1)..n = {}
    BY <1>0
  <2>2. e = [pos \in (n + 1)..n |-> parseTurn(content, e, pos)]
    BY <2>1
  <2> QED
    BY <1>0, <2>2
<1>2. ASSUME NEW k \in 1..n, k + 1 \in S
      PROVE  k \in S
  <2>1. PICK f : f = [pos \in (k + 1)..n |-> parseTurn(content, f, pos)]
    BY <1>2
  <2> DEFINE g == [pos \in k..n |-> IF pos = k THEN parseTurn(content, f, k) ELSE f[pos]]
  <2>2. \A q \in (k + 1)..n : g[q] = f[q]
    BY <1>0
  <2>3. ASSUME NEW pos \in k..n
        PROVE  g[pos] = parseTurn(content, g, pos)
    <3>1. pos \in 1..(Len(content) + 1) /\ \A q \in (pos + 1)..(Len(content) + 1) : f[q] = g[q]
      BY <1>0, <2>2
    <3>2. parseTurn(content, f, pos) = parseTurn(content, g, pos)
      <4> HIDE DEF g
      <4> QED
        BY <3>1, TurnLooksAhead
    <3>3. CASE pos = k
      <4>1. g[pos] = parseTurn(content, f, k)
        BY <1>0, <3>3
      <4> QED
        BY <3>2, <3>3, <4>1
    <3>4. CASE pos # k
      <4>1. pos \in (k + 1)..n
        BY <1>0, <3>4
      <4>2. f[pos] = parseTurn(content, f, pos)
        BY <2>1, <4>1
      <4>3. g[pos] = f[pos]
        BY <2>2, <4>1
      <4> QED
        BY <3>2, <4>2, <4>3
    <3> QED
      BY <3>3, <3>4
  <2>4. g = [pos \in k..n |-> parseTurn(content, g, pos)]
    <3> DEFINE h == [pos \in k..n |-> parseTurn(content, g, pos)]
    <3>1. \A pos \in k..n : g[pos] = h[pos]
      BY <2>3
    <3> QED
      BY <3>1
  <2>5. G(k)
    BY <2>4
  <2> QED
    BY <1>0, <2>5
<1>3. 1 \in S
  <2> HIDE DEF S, n
  <2>1. 1 \in 1..(n + 1)
    BY <1>0
  <2> QED
    BY <1>0, <1>1, <1>2, <2>1, DownInduction
<1> QED
  BY <1>3

\* ... and unfolds.
LEMMA ParseUnfolds ==
    ASSUME NEW content \in Seq(Token)
    PROVE  \E f : /\ f = [pos \in 1..(Len(content) + 1) |-> parseTurn(content, f, pos)]
                  /\ parseThinkTags(content) = f[1]
<1> DEFINE P(f) == f = [pos \in 1..(Len(content) + 1) |-> parseTurn(content, f, pos)]
           c == CHOOSE f : P(f)
<1>1. \E f : P(f)
  BY ParseExists
<1>2. P(c)
  <2> HIDE DEF P
  <2> QED
    BY <1>1
<1>3. parseThinkTags(content) = c[1]
  BY DEF parseThinkTags
<1> HIDE DEF c
<1> QED
  BY <1>2, <1>3

\* A slice has its members where the sequence has them.
LEMMA SliceOf ==
    ASSUME NEW content \in Seq(Token), NEW S, NEW a \in Int, NEW b \in Int,
           \A i \in a..b : content[i] \in S
    PROVE  SubSeq(content, a, b) \in Seq(S)
  BY SubSeqProperties


\* What a turn returns has the type of the result, if that is true of what the
\* later turns return.
LEMMA TurnResult ==
    ASSUME NEW content \in Seq(Token), NEW pos \in 1..(Len(content) + 1), NEW f,
           \A q \in (pos + 1)..(Len(content) + 1) : f[q] \in Parsed
    PROVE  parseTurn(content, f, pos) \in Parsed
<1> DEFINE n == Len(content)
           open == IndexOf(content, Open, pos)
           inner == open + Len(Open)
           close == IndexOf(content, Close, inner)
<1>0. n \in Nat /\ \A j \in 1..n : content[j] \in Token
  BY ElementOfSeq
<1>1. /\ open = 0 \/ open \in pos..(n - 1)
      /\ open # 0 => /\ inner = open + 2
                     /\ close = 0 \/ close \in inner..(n - 1)
                     /\ close # 0 => close + Len(Close) = close + 2
  BY TurnFacts
<1>2. \A a, b \in Int : a > 0 /\ b <= n => SubSeq(content, a, b) \in Seq(Token)
  <2> SUFFICES ASSUME NEW a \in Int, NEW b \in Int, a > 0, b <= n
               PROVE  SubSeq(content, a, b) \in Seq(Token)
    OBVIOUS
  <2>1. \A i \in a..b : content[i] \in Token
    BY <1>0
  <2> QED
    BY <2>1, SliceOf
<1>3. CASE open = 0
  <2>1. parseTurn(content, f, pos) =
          [visible |-> SubSeq(content, pos, n), reasoning |-> <<>>, unclosed |-> FALSE]
    BY <1>3 DEF parseTurn
  <2>2. SubSeq(content, pos, n) \in Seq(Token)
    BY <1>0, <1>2
  <2> QED
    BY <2>1, <2>2 DEF Parsed
<1> HIDE DEF open, inner, close
<1>4. CASE open # 0
  <2>1. SubSeq(content, pos, open - 1) \in Seq(Token)
    BY <1>0, <1>1, <1>2, <1>4
  <2>2. CASE close = 0
    <3>1. parseTurn(content, f, pos) =
            [visible |-> SubSeq(content, pos, open - 1),
             reasoning |-> SubSeq(content, inner, n), unclosed |-> TRUE]
      BY <1>4, <2>2 DEF parseTurn, open, inner, close
    <3>2. SubSeq(content, inner, n) \in Seq(Token)
      BY <1>0, <1>1, <1>2, <1>4
    <3> QED
      BY <2>1, <3>1, <3>2 DEF Parsed
  <2>3. CASE close # 0
    <3> DEFINE rest == f[close + Len(Close)]
               vis == SubSeq(content, pos, open - 1) \o rest.visible
               rea == SubSeq(content, inner, close - 1) \o rest.reasoning
               unc == rest.unclosed
    <3>1. parseTurn(content, f, pos) = [visible |-> vis, reasoning |-> rea, unclosed |-> unc]
      BY <1>4, <2>3 DEF parseTurn, open, inner, close
    <3>2. rest \in Parsed
      <4>1. close + Len(Close) \in (pos + 1)..(n + 1)
        BY <1>0, <1>1, <1>4, <2>3
      <4> QED
        BY <4>1
    <3>3. SubSeq(content, inner, close - 1) \in Seq(Token)
      BY <1>0, <1>1, <1>2, <1>4, <2>3
    <3> HIDE DEF rest
    <3>4. /\ rest.visible \in Seq(Token) /\ rest.reasoning \in Seq(Token)
          /\ rest.unclosed \in BOOLEAN
      BY <3>2 DEF Parsed
    <3>5. vis \in Seq(Token) /\ rea \in Seq(Token) /\ unc \in BOOLEAN
      BY <2>1, <3>3, <3>4, ConcatProperties
    <3> HIDE DEF vis, rea, unc
    <3>6. [visible |-> vis, reasoning |-> rea, unclosed |-> unc] \in Parsed
      BY <3>5 DEF Parsed
    <3> QED
      BY <3>1, <3>6
  <2> QED
    BY <2>2, <2>3
<1> QED
  BY <1>3, <1>4

\* What parseThinkTags returns for a text are two texts and a flag.
LEMMA ParseType == \A content \in Seq(Token) : parseThinkTags(content) \in Parsed
<1> SUFFICES ASSUME NEW content \in Seq(Token) PROVE parseThinkTags(content) \in Parsed
  OBVIOUS
<1>1. PICK f : /\ f = [pos \in 1..(Len(content) + 1) |-> parseTurn(content, f, pos)]
               /\ parseThinkTags(content) = f[1]
  BY ParseUnfolds
<1> DEFINE n == Len(content) + 1
           S == {k \in 1..(n + 1) : \A q \in k..n : f[q] \in Parsed}
<1>2. n \in Nat /\ n > 0
  OBVIOUS
<1>3. n + 1 \in S
  BY <1>2
<1>4. ASSUME NEW k \in 1..n, k + 1 \in S
      PROVE  k \in S
  <2>1. \A q \in (k + 1)..n : f[q] \in Parsed
    BY <1>4
  <2>2. parseTurn(content, f, k) \in Parsed
    BY <2>1, TurnResult
  <2>3. f[k] \in Parsed
    BY <1>1, <2>2
  <2>4. \A q \in k..n : f[q] \in Parsed
    <3> SUFFICES ASSUME NEW q \in k..n PROVE f[q] \in Parsed
      OBVIOUS
    <3>1. q = k \/ q \in (k + 1)..n
      BY <1>2
    <3> QED
      BY <2>1, <2>3, <3>1
  <2> QED
    BY <1>2, <2>4
<1>5. 1 \in S
  <2> HIDE DEF S, n
  <2>1. 1 \in 1..(n + 1)
    BY <1>2
  <2> QED
    BY <1>2, <1>3, <1>4, <2>1, DownInduction
<1>6. f[1] \in Parsed
  BY <1>2, <1>5
<1> QED
  BY <1>1, <1>6

-----------------------------------------------------------------------------
(* parseThinkTags against the left-to-right reading.  The reading is in one *)
(* of two modes, u: within a thought, or not.  Mine is the text the mode     *)
(* adds to, Other the one it leaves alone, Awaited the tag that ends it.     *)

Reading == [visible : Seq(Token), reasoning : Seq(Token), unclosed : BOOLEAN, half : BOOLEAN]

Mine(acc, u) == IF u THEN acc.reasoning ELSE acc.visible
Other(acc, u) == IF u THEN acc.visible ELSE acc.reasoning
Awaited(u) == IF u THEN Close ELSE Open

\* What reading one more token does, in either mode.
LEMMA StepFacts ==
    ASSUME NEW acc \in Reading, NEW token \in Token
    PROVE  LET next == ThinkStep(acc, token)
               u == acc.unclosed
               joined == acc.half /\ token = Close[2] IN
           /\ next \in Reading
           /\ Other(next, u) = Other(acc, u)
           /\ ~joined => /\ next.unclosed = u /\ next.half = (token = Awaited(u)[1])
                         /\ Mine(next, u) = Append(Mine(acc, u), token)
           /\ joined => /\ next.unclosed = ~u /\ ~next.half
                        /\ Mine(next, u) = SubSeq(Mine(acc, u), 1, Len(Mine(acc, u)) - 1)
<1> DEFINE next == ThinkStep(acc, token)
           u == acc.unclosed
           joined == acc.half /\ token = Close[2]
<1>0. /\ acc.visible \in Seq(Token) /\ acc.reasoning \in Seq(Token)
      /\ acc.unclosed \in BOOLEAN /\ acc.half \in BOOLEAN
      /\ acc = [visible |-> acc.visible, reasoning |-> acc.reasoning,
                unclosed |-> acc.unclosed, half |-> acc.half]
  BY DEF Reading
<1>1. \A s \in Seq(Token) : Append(s, token) \in Seq(Token)
  BY AppendProperties
<1>2. ASSUME NEW s \in Seq(Token) PROVE SubSeq(s, 1, Len(s) - 1) \in Seq(Token)
  <2>1. Len(s) \in Nat /\ \A i \in 1..(Len(s) - 1) : s[i] \in Token
    BY ElementOfSeq
  <2> QED
    BY <2>1, SliceOf
<1>3. CASE u /\ ~joined
  <2>1. next = [visible |-> acc.visible, reasoning |-> Append(acc.reasoning, token),
                unclosed |-> TRUE, half |-> (token = Close[1])]
    BY <1>0, <1>3 DEF ThinkStep
  <2>2. Append(acc.reasoning, token) \in Seq(Token)
    BY <1>0, <1>1
  <2> HIDE DEF next
  <2>3. next \in Reading
    BY <1>0, <2>1, <2>2 DEF Reading
  <2>4. /\ next.visible = acc.visible /\ next.reasoning = Append(acc.reasoning, token)
        /\ next.unclosed = TRUE /\ next.half = (token = Close[1])
    BY <2>1
  <2>5. \A r : /\ Mine(r, u) = r.reasoning
              /\ Other(r, u) = r.visible
    BY <1>3 DEF Mine, Other
  <2>6. Awaited(u) = Close
    BY <1>3 DEF Awaited
  <2> QED
    BY <1>0, <1>3, <2>3, <2>4, <2>5, <2>6 DEF next
<1>4. CASE u /\ joined
  <2> DEFINE shorter == SubSeq(acc.reasoning, 1, Len(acc.reasoning) - 1)
  <2>1. next = [visible |-> acc.visible, reasoning |-> shorter, unclosed |-> FALSE, half |-> FALSE]
    BY <1>0, <1>4 DEF ThinkStep
  <2>2. shorter \in Seq(Token)
    BY <1>0, <1>2
  <2> HIDE DEF next, shorter
  <2>3. next \in Reading
    BY <1>0, <2>1, <2>2 DEF Reading
  <2>4. /\ next.visible = acc.visible /\ next.reasoning = shorter
        /\ next.unclosed = FALSE /\ next.half = FALSE
    BY <2>1
  <2>5. \A r : /\ Mine(r, u) = r.reasoning
              /\ Other(r, u) = r.visible
    BY <1>4 DEF Mine, Other
  <2>6. Awaited(u) = Close
    BY <1>4 DEF Awaited
  <2> QED
    BY <1>0, <1>4, <2>3, <2>4, <2>5, <2>6 DEF next, shorter
<1>5. CASE ~u /\ ~joined
  <2>1. next = [visible |-> Append(acc.visible, token), reasoning |-> acc.reasoning,
                unclosed |-> FALSE, half |-> (token = Open[1])]
    BY <1>0, <1>5 DEF ThinkStep
  <2>2. Append(acc.visible, token) \in Seq(Token)
    BY <1>0, <1>1
  <2> HIDE DEF next
  <2>3. next \in Reading
    BY <1>0, <2>1, <2>2 DEF Reading
  <2>4. /\ next.visible = Append(acc.visible, token) /\ next.reasoning = acc.reasoning
        /\ next.unclosed = FALSE /\ next.half = (token = Open[1])
    BY <2>1
  <2>5. \A r : /\ Mine(r, u) = r.visible
              /\ Other(r, u) = r.reasoning
    BY <1>5 DEF Mine, Other
  <2>6. Awaited(u) = Open
    BY <1>5 DEF Awaited
  <2> QED
    BY <1>0, <1>5, <2>3, <2>4, <2>5, <2>6 DEF next
<1>6. CASE ~u /\ joined
  <2> DEFINE shorter == SubSeq(acc.visible, 1, Len(acc.visible) - 1)
  <2>1. next = [visible |-> shorter, reasoning |-> acc.reasoning, unclosed |-> TRUE, half |-> FALSE]
    BY <1>0, <1>6 DEF ThinkStep
  <2>2. shorter \in Seq(Token)
    BY <1>0, <1>2
  <2> HIDE DEF next, shorter
  <2>3. next \in Reading
    BY <1>0, <2>1, <2>2 DEF Reading
  <2>4. /\ next.visible = shorter /\ next.reasoning = acc.reasoning
        /\ next.unclosed = TRUE /\ next.half = FALSE
    BY <2>1
  <2>5. \A r : /\ Mine(r, u) = r.visible
              /\ Other(r, u) = r.reasoning
    BY <1>6 DEF Mine, Other
  <2>6. Awaited(u) = Open
    BY <1>6 DEF Awaited
  <2> QED
    BY <1>0, <1>6, <2>3, <2>4, <2>5, <2>6 DEF next, shorter
<1> QED
  BY <1>3, <1>4, <1>5, <1>6


\* A function that solves the recursion of ThinkReading.
Reads(content, read) ==
    read = [n \in 0..Len(content) |->
                IF n = 0 THEN Unread ELSE ThinkStep(read[n - 1], content[n])]

\* The recursion has a solution ...
LEMMA ReadExists ==
    ASSUME NEW content \in Seq(Token)
    PROVE  \E read : Reads(content, read)
<1> DEFINE At(read, n) == IF n = 0 THEN Unread ELSE ThinkStep(read[n - 1], content[n])
           G(m) == \E read : read = [n \in 0..m |-> At(read, n)]
           S == {m \in Nat : G(m)}
<1>1. 0 \in S
  <2> DEFINE e == [n \in 0..0 |-> Unread]
  <2>1. \A n \in 0..0 : At(e, n) = Unread
    OBVIOUS
  <2>2. e = [n \in 0..0 |-> At(e, n)]
    BY <2>1
  <2>3. G(0)
    BY <2>2
  <2> QED
    BY <2>3
<1>2. ASSUME NEW m \in Nat, m \in S PROVE m + 1 \in S
  <2>1. PICK f : f = [n \in 0..m |-> At(f, n)]
    BY <1>2
  <2> DEFINE g == [n \in 0..(m + 1) |-> At(f, n)]
  <2>2. \A n \in 0..m : n \in 0..(m + 1) /\ g[n] = f[n]
    <3>1. \A n \in 0..m : n \in 0..(m + 1)
      OBVIOUS
    <3>2. \A n \in 0..m : f[n] = At(f, n)
      BY <2>1
    <3> QED
      BY <3>1, <3>2
  <2>3. ASSUME NEW n \in 0..(m + 1) PROVE At(f, n) = At(g, n)
    <3>1. CASE n = 0
      BY <3>1
    <3>2. CASE n # 0
      <4>1. n - 1 \in 0..m
        BY <3>2
      <4>2. g[n - 1] = f[n - 1]
        BY <2>2, <4>1
      <4> HIDE DEF g
      <4> QED
        BY <3>2, <4>2
    <3> QED
      BY <3>1, <3>2
  <2>4. g = [n \in 0..(m + 1) |-> At(g, n)]
    <3> DEFINE h == [n \in 0..(m + 1) |-> At(g, n)]
    <3> HIDE DEF At
    <3>1. \A n \in 0..(m + 1) : g[n] = h[n]
      BY <2>3
    <3> QED
      BY <3>1
  <2>5. G(m + 1)
    BY <2>4
  <2> HIDE DEF G
  <2> QED
    BY <2>5
<1>3. \A m \in Nat : m \in S
  <2> HIDE DEF S
  <2> QED
    BY <1>1, <1>2, NatSet
<1>4. G(Len(content))
  BY <1>3
<1> QED
  BY <1>4 DEF Reads

\* ... and unfolds.
LEMMA ReadUnfolds ==
    ASSUME NEW content \in Seq(Token)
    PROVE  \E read : LET acc == read[Len(content)] IN
             /\ Reads(content, read)
             /\ ThinkReading(content) =
                  [visible |-> acc.visible, reasoning |-> acc.reasoning, unclosed |-> acc.unclosed]
<1> DEFINE c == CHOOSE read : Reads(content, read)
<1>1. Reads(content, c)
  BY ReadExists
<1>2. ThinkReading(content) = [visible |-> c[Len(content)].visible,
        reasoning |-> c[Len(content)].reasoning, unclosed |-> c[Len(content)].unclosed]
  BY DEF ThinkReading, Reads
<1> HIDE DEF c
<1> QED
  BY <1>1, <1>2

\* Each value is one step from the one before, and of the right type.
LEMMA ReadFacts ==
    ASSUME NEW content \in Seq(Token), NEW read, Reads(content, read)
    PROVE  /\ read[0] = Unread
           /\ \A n \in 1..Len(content) : read[n] = ThinkStep(read[n - 1], content[n])
           /\ \A n \in 0..Len(content) : read[n] \in Reading
<1>0. Len(content) \in Nat
  OBVIOUS
<1>1. read[0] = Unread
  BY <1>0 DEF Reads
<1>2. \A n \in 1..Len(content) : read[n] = ThinkStep(read[n - 1], content[n])
  <2> SUFFICES ASSUME NEW n \in 1..Len(content) PROVE read[n] = ThinkStep(read[n - 1], content[n])
    OBVIOUS
  <2>1. n \in 0..Len(content) /\ n # 0
    BY <1>0
  <2> QED
    BY <2>1 DEF Reads
<1> DEFINE S == {n \in Nat : n <= Len(content) => read[n] \in Reading}
<1>3. 0 \in S
  <2>1. Unread \in Reading
    BY EmptySeq DEF Unread, Reading
  <2> QED
    BY <1>1, <2>1
<1>4. ASSUME NEW n \in Nat, n \in S PROVE n + 1 \in S
  <2> SUFFICES ASSUME n + 1 <= Len(content) PROVE read[n + 1] \in Reading
    OBVIOUS
  <2>1. read[n] \in Reading
    BY <1>0, <1>4
  <2>2. n + 1 \in 1..Len(content) /\ n + 1 - 1 = n
    BY <1>0
  <2>3. content[n + 1] \in Token
    BY <2>2, ElementOfSeq
  <2>4. read[n + 1] = ThinkStep(read[n], content[n + 1])
    BY <1>2, <2>2
  <2> QED
    BY <2>1, <2>3, <2>4, StepFacts
<1>5. \A n \in Nat : n \in S
  <2> HIDE DEF S
  <2> QED
    BY <1>3, <1>4, NatSet
<1> QED
  BY <1>0, <1>1, <1>2, <1>5

\* Concatenation is associative.
LEMMA Joined ==
    ASSUME NEW a \in Seq(Token), NEW b \in Seq(Token), NEW c \in Seq(Token)
    PROVE  (a \o b) \o c = a \o (b \o c)
  BY SMTT(30)

\* One more token of a slice, and one less.
LEMMA AppendSlice ==
    ASSUME NEW content \in Seq(Token), NEW s \in Seq(Token),
           NEW a \in 1..Len(content), NEW m \in a..Len(content)
    PROVE  /\ Append(s \o SubSeq(content, a, m - 1), content[m]) = s \o SubSeq(content, a, m)
           /\ s \o SubSeq(content, a, m - 1) \in Seq(Token)
<1> DEFINE front == SubSeq(content, a, m - 1)
           x == content[m]
<1>0. Len(content) \in Nat /\ a \in Int /\ m - 1 \in Int /\ m \in 1..Len(content)
  OBVIOUS
<1>1. SubSeq(content, a, m) = front \o <<x>>
  BY SubSeqRecursiveSecond
<1>2. front \in Seq(Token) /\ x \in Token
  <2>1. \A i \in a..(m - 1) : content[i] \in Token
    BY <1>0, ElementOfSeq
  <2> QED
    BY <1>0, <2>1, SliceOf, ElementOfSeq
<1> HIDE DEF front, x
<1>3. <<x>> \in Seq(Token) /\ s \o front \in Seq(Token)
  BY <1>2, ConcatProperties
<1>4. Append(s \o front, x) = (s \o front) \o <<x>>
  BY <1>2, <1>3, AppendIsConcat
<1>5. (s \o front) \o <<x>> = s \o (front \o <<x>>)
  BY <1>2, <1>3, Joined, Zenon
<1> QED
  BY <1>1, <1>3, <1>4, <1>5 DEF front, x

\* Without its last token an appended sequence is what it was.
LEMMA DropLast ==
    ASSUME NEW s \in Seq(Token), NEW x \in Token
    PROVE  SubSeq(Append(s, x), 1, Len(Append(s, x)) - 1) = s
<1> DEFINE t == Append(s, x)
<1>1. /\ t \in Seq(Token) /\ Len(t) = Len(s) + 1 /\ Len(s) \in Nat
      /\ \A i \in 1..Len(s) : t[i] = s[i]
  BY AppendProperties
<1> HIDE DEF t
<1>2. Len(t) - 1 = Len(s) /\ \A i \in 1..Len(s) : t[i] \in Token
  BY <1>1, ElementOfSeq
<1>3. /\ SubSeq(t, 1, Len(s)) \in Seq(Token) /\ Len(SubSeq(t, 1, Len(s))) = Len(s)
      /\ \A i \in 1..Len(s) : SubSeq(t, 1, Len(s))[i] = t[i]
  BY <1>1, <1>2, SubSeqProperties
<1>4. \A i \in 1..Len(SubSeq(t, 1, Len(s))) : SubSeq(t, 1, Len(s))[i] = s[i]
  BY <1>1, <1>3
<1>5. SubSeq(t, 1, Len(s)) = s
  BY <1>3, <1>4, SeqEqual
<1> QED
  BY <1>2, <1>5 DEF t

\* The reading from a to b stays in the mode it was in.
InMode(content, read, a, b) ==
    LET u == read[a].unclosed IN
    /\ read[b].unclosed = u
    /\ read[b].half <=> b > a /\ content[b] = Awaited(u)[1]
    /\ Other(read[b], u) = Other(read[a], u)
    /\ Mine(read[b], u) = Mine(read[a], u) \o SubSeq(content, a + 1, b)

\* Both texts of a reading are texts, in either mode.
LEMMA MineType ==
    ASSUME NEW acc \in Reading, NEW u
    PROVE  Mine(acc, u) \in Seq(Token) /\ Other(acc, u) \in Seq(Token)
<1>1. acc.visible \in Seq(Token) /\ acc.reasoning \in Seq(Token)
  BY DEF Reading
<1> QED
  BY <1>1 DEF Mine, Other

\* Up to the tag that it waits for, a reading stays in its mode.
LEMMA ModeStays ==
    ASSUME NEW content \in Seq(Token), NEW read, Reads(content, read),
           NEW a \in 0..Len(content), ~read[a].half, NEW b \in a..Len(content),
           NoTag(content, Awaited(read[a].unclosed), a + 1, b)
    PROVE  InMode(content, read, a, b)
<1> DEFINE u == read[a].unclosed
           Ok(m) == InMode(content, read, a, m)
           S == {k \in Nat : a + k <= b => Ok(a + k)}
<1>0. Len(content) \in Nat /\ a \in Nat /\ b \in 0..Len(content) /\ b \in Nat
  OBVIOUS
<1>1. \A n \in 0..Len(content) : read[n] \in Reading
  BY ReadFacts
<1>2. Mine(read[a], u) \in Seq(Token)
  BY <1>0, <1>1, MineType
<1>3. Ok(a)
  <2>1. SubSeq(content, a + 1, a) = <<>>
    BY <1>0, SubSeqEmpty
  <2>2. Mine(read[a], u) \o <<>> = Mine(read[a], u)
    BY <1>2, ConcatEmptySeq
  <2>3. ~(a > a)
    BY <1>0
  <2> QED
    BY <2>1, <2>2, <2>3 DEF InMode
<1>4. 0 \in S
  <2>1. a + 0 = a
    BY <1>0
  <2> HIDE DEF Ok
  <2> QED
    BY <1>3, <2>1
<1>5. ASSUME NEW k \in Nat, k \in S PROVE k + 1 \in S
  <2> DEFINE m == a + k + 1
  <2>0. m = a + (k + 1)
    BY <1>0
  <2> HIDE DEF Ok
  <2> SUFFICES ASSUME m <= b PROVE Ok(m)
    BY <2>0
  <2>1. /\ m \in (a + 1)..b /\ m \in 1..Len(content) /\ m - 1 = a + k
        /\ m - 1 \in 0..Len(content) /\ m > a /\ m - 1 + 1 = m
    BY <1>0
  <2> HIDE DEF m
  <2>2. Ok(m - 1)
    <3>1. a + k <= b
      BY <1>0, <2>1
    <3> QED
      BY <1>5, <2>1, <3>1
  <2>3. /\ read[m - 1].unclosed = u
        /\ read[m - 1].half <=> m - 1 > a /\ content[m - 1] = Awaited(u)[1]
        /\ Other(read[m - 1], u) = Other(read[a], u)
        /\ Mine(read[m - 1], u) = Mine(read[a], u) \o SubSeq(content, a + 1, m - 1)
    BY <2>2 DEF Ok, InMode
  <2>4. ~(read[m - 1].half /\ content[m] = Close[2])
    <3> SUFFICES ASSUME read[m - 1].half, content[m] = Close[2] PROVE FALSE
      OBVIOUS
    <3>1. m - 1 > a /\ content[m - 1] = Awaited(u)[1]
      BY <2>3
    <3>2. m - 1 \in (a + 1)..(b - 1)
      BY <1>0, <2>1, <3>1
    <3>3. Awaited(u)[2] = Close[2]
      BY TagFacts DEF Awaited
    <3>4. TagAt(content, Awaited(u), m - 1)
      BY <2>1, <3>1, <3>3 DEF TagAt
    <3> QED
      BY <3>2, <3>4 DEF NoTag
  <2>5. read[m] = ThinkStep(read[m - 1], content[m]) /\ read[m - 1] \in Reading
    BY <1>1, <2>1, ReadFacts
  <2>6. /\ read[m].unclosed = u /\ read[m].half = (content[m] = Awaited(u)[1])
        /\ Other(read[m], u) = Other(read[m - 1], u)
        /\ Mine(read[m], u) = Append(Mine(read[m - 1], u), content[m])
    <3> DEFINE acc == read[m - 1]
               token == content[m]
               next == ThinkStep(acc, token)
    <3>1. acc \in Reading /\ token \in Token /\ ~(acc.half /\ token = Close[2])
      BY <2>1, <2>4, <2>5, ElementOfSeq
    <3>2. acc.unclosed = u
      BY <2>3
    <3> HIDE DEF acc, token, u
    <3>3. /\ next.unclosed = acc.unclosed /\ next.half = (token = Awaited(acc.unclosed)[1])
          /\ Other(next, acc.unclosed) = Other(acc, acc.unclosed)
          /\ Mine(next, acc.unclosed) = Append(Mine(acc, acc.unclosed), token)
      BY <3>1, StepFacts
    <3>4. read[m] = next
      BY <2>5 DEF acc, token
    <3> HIDE DEF next
    <3> QED
      BY <3>2, <3>3, <3>4 DEF acc, token
  <2>7. Append(Mine(read[a], u) \o SubSeq(content, a + 1, m - 1), content[m])
          = Mine(read[a], u) \o SubSeq(content, a + 1, m)
    <3>1. a + 1 \in 1..Len(content) /\ m \in (a + 1)..Len(content)
      BY <1>0, <2>1
    <3> QED
      BY <1>2, <3>1, AppendSlice
  <2>8. read[m].half <=> m > a /\ content[m] = Awaited(u)[1]
    BY <2>1, <2>6
  <2> QED
    BY <2>3, <2>6, <2>7, <2>8 DEF Ok, InMode
<1>6. \A k \in Nat : k \in S
  <2> HIDE DEF S
  <2> QED
    BY <1>4, <1>5, NatSet
<1>7. b - a \in Nat /\ a + (b - a) = b
  BY <1>0
<1>8. b - a \in S
  BY <1>6, <1>7
<1> HIDE DEF Ok
<1>9. Ok(b)
  BY <1>0, <1>7, <1>8
<1> QED
  BY <1>9 DEF Ok

\* At that tag it changes its mode, and what it had read of the tag is dropped.
LEMMA ModeEnds ==
    ASSUME NEW content \in Seq(Token), NEW read, Reads(content, read),
           NEW a \in 0..Len(content), ~read[a].half, NEW b \in (a + 1)..(Len(content) - 1),
           NoTag(content, Awaited(read[a].unclosed), a + 1, b),
           TagAt(content, Awaited(read[a].unclosed), b)
    PROVE  LET u == read[a].unclosed IN
           /\ read[b + 1].unclosed = ~u /\ ~read[b + 1].half
           /\ Other(read[b + 1], u) = Other(read[a], u)
           /\ Mine(read[b + 1], u) = Mine(read[a], u) \o SubSeq(content, a + 1, b - 1)
<1> DEFINE u == read[a].unclosed
           acc == read[b]
           token == content[b + 1]
           next == ThinkStep(acc, token)
           text == Mine(read[a], u) \o SubSeq(content, a + 1, b - 1)
<1>0. /\ Len(content) \in Nat /\ a \in Nat /\ b \in a..Len(content) /\ b > a
      /\ b \in 0..Len(content) /\ b + 1 \in 1..Len(content) /\ b + 1 - 1 = b
      /\ b \in 1..Len(content) /\ a + 1 \in 1..Len(content) /\ b \in (a + 1)..Len(content)
  OBVIOUS
<1>1. \A n \in 0..Len(content) : read[n] \in Reading
  BY ReadFacts
<1>2. InMode(content, read, a, b)
  BY <1>0, ModeStays
<1>3. /\ acc.unclosed = u /\ acc.half /\ Other(acc, u) = Other(read[a], u)
      /\ Mine(acc, u) = Mine(read[a], u) \o SubSeq(content, a + 1, b)
  <2>1. content[b] = Awaited(u)[1]
    BY DEF TagAt
  <2> QED
    BY <1>0, <1>2, <2>1 DEF InMode
<1>4. token = Close[2]
  <2>1. Awaited(u)[2] = Close[2]
    BY TagFacts DEF Awaited
  <2> QED
    BY <2>1 DEF TagAt
<1>5. read[b + 1] = next /\ acc \in Reading /\ token \in Token
  BY <1>0, <1>1, ReadFacts, ElementOfSeq
<1>6. Append(text, content[b]) = Mine(acc, u) /\ text \in Seq(Token) /\ content[b] \in Token
  <2>1. Mine(read[a], u) \in Seq(Token)
    BY <1>1, MineType
  <2> QED
    BY <1>0, <1>3, <2>1, AppendSlice, ElementOfSeq
<1> HIDE DEF text
<1>7. SubSeq(Mine(acc, u), 1, Len(Mine(acc, u)) - 1) = text
  BY <1>6, DropLast
<1> HIDE DEF acc, token, u
<1>8. /\ next.unclosed = ~acc.unclosed /\ ~next.half
      /\ Other(next, acc.unclosed) = Other(acc, acc.unclosed)
      /\ Mine(next, acc.unclosed) = SubSeq(Mine(acc, acc.unclosed), 1, Len(Mine(acc, acc.unclosed)) - 1)
  BY <1>3, <1>4, <1>5, StepFacts
<1> HIDE DEF next
<1> QED
  BY <1>3, <1>5, <1>7, <1>8 DEF u, text

\* What a reading that is at pos - 1 still has to find is p.
Completes(content, read, pos, p) ==
    LET n == Len(content) IN
    /\ read[n].visible = read[pos - 1].visible \o p.visible
    /\ read[n].reasoning = read[pos - 1].reasoning \o p.reasoning
    /\ read[n].unclosed = p.unclosed

\* A result given by its three fields completes the reading.
LEMMA CompletesIs ==
    ASSUME NEW content, NEW read, NEW pos, NEW v, NEW r, NEW u,
           read[Len(content)].visible = read[pos - 1].visible \o v,
           read[Len(content)].reasoning = read[pos - 1].reasoning \o r,
           read[Len(content)].unclosed = u
    PROVE  Completes(content, read, pos, [visible |-> v, reasoning |-> r, unclosed |-> u])
  BY DEF Completes

\* A turn of the loop begins where the reading shows what comes and is not in
\* the middle of a tag.
AtTurn(acc) == ~acc.unclosed /\ ~acc.half

\* A turn of the loop finds what the reading finds, if the later turns do.
LEMMA TurnAgrees ==
    ASSUME NEW content \in Seq(Token), NEW read, Reads(content, read),
           NEW pos \in 1..(Len(content) + 1), AtTurn(read[pos - 1]), NEW f,
           \A q \in (pos + 1)..(Len(content) + 1) :
              f[q] \in Parsed /\ (AtTurn(read[q - 1]) => Completes(content, read, q, f[q]))
    PROVE  Completes(content, read, pos, parseTurn(content, f, pos))
<1> DEFINE n == Len(content)
           open == IndexOf(content, Open, pos)
           inner == open + Len(Open)
           close == IndexOf(content, Close, inner)
           turn == parseTurn(content, f, pos)
           old == read[pos - 1]
<1>0. /\ n \in Nat /\ n \in 0..n /\ pos \in Nat /\ pos > 0 /\ pos - 1 \in 0..n /\ pos - 1 + 1 = pos
      /\ n \in (pos - 1)..n /\ pos \in Int
  OBVIOUS
<1>1. /\ open = 0 \/ open \in pos..(n - 1)
      /\ open = 0 => NoTag(content, Open, pos, n)
      /\ open # 0 => /\ inner = open + 2
                     /\ TagAt(content, Open, open) /\ NoTag(content, Open, pos, open)
                     /\ close = 0 \/ close \in inner..(n - 1)
                     /\ close = 0 => NoTag(content, Close, inner, n)
                     /\ close # 0 => /\ TagAt(content, Close, close)
                                     /\ NoTag(content, Close, inner, close)
                                     /\ close + Len(Close) = close + 2
  BY TurnFacts
<1>2. \A k \in 0..n : /\ read[k] \in Reading /\ read[k].visible \in Seq(Token)
                      /\ read[k].reasoning \in Seq(Token) /\ read[k].unclosed \in BOOLEAN
  BY ReadFacts DEF Reading
<1>3. ~old.half /\ ~old.unclosed /\ Awaited(old.unclosed) = Open
  BY DEF AtTurn, Awaited
<1>4. \A acc : /\ Mine(acc, old.unclosed) = acc.visible
               /\ Other(acc, old.unclosed) = acc.reasoning
  BY <1>3 DEF Mine, Other
<1>5. CASE open = 0
  <2>1. turn = [visible |-> SubSeq(content, pos, n), reasoning |-> <<>>, unclosed |-> FALSE]
    BY <1>5 DEF parseTurn
  <2>2. InMode(content, read, pos - 1, n)
    <3>1. NoTag(content, Awaited(old.unclosed), pos - 1 + 1, n)
      BY <1>0, <1>1, <1>3, <1>5
    <3> HIDE DEF open, inner, close, turn
    <3> QED
      BY <1>0, <1>3, <3>1, ModeStays
  <2>3. /\ read[n].unclosed = FALSE /\ read[n].reasoning = old.reasoning
        /\ read[n].visible = old.visible \o SubSeq(content, pos, n)
    BY <1>0, <1>2, <1>3, <1>4, <2>2 DEF InMode
  <2>4. old.reasoning \o <<>> = old.reasoning
    BY <1>0, <1>2, ConcatEmptySeq
  <2>5. Completes(content, read, pos,
          [visible |-> SubSeq(content, pos, n), reasoning |-> <<>>, unclosed |-> FALSE])
    BY <2>3, <2>4, CompletesIs
  <2> QED
    BY <2>1, <2>5
<1> HIDE DEF open, inner, close
<1>6. CASE open # 0
  <2> DEFINE shown == SubSeq(content, pos, open - 1)
             within == read[open + 1]
  <2>0. /\ open \in pos..(n - 1) /\ open \in Nat /\ inner = open + 2 /\ inner - 1 = open + 1
        /\ open + 1 \in 0..n /\ open + 1 + 1 = inner /\ n \in (open + 1)..n
        /\ open \in (pos - 1 + 1)..(Len(content) - 1)
    BY <1>0, <1>1, <1>6
  <2>1. /\ within.unclosed = ~old.unclosed /\ ~within.half
        /\ Other(within, old.unclosed) = Other(old, old.unclosed)
        /\ Mine(within, old.unclosed) = Mine(old, old.unclosed) \o SubSeq(content, pos - 1 + 1, open - 1)
    <3>1. /\ NoTag(content, Awaited(old.unclosed), pos - 1 + 1, open)
          /\ TagAt(content, Awaited(old.unclosed), open)
      BY <1>0, <1>1, <1>3, <1>6
    <3> DEFINE a == pos - 1
    <3>2. /\ a \in 0..Len(content) /\ ~read[a].half /\ open \in (a + 1)..(Len(content) - 1)
          /\ NoTag(content, Awaited(read[a].unclosed), a + 1, open)
          /\ TagAt(content, Awaited(read[a].unclosed), open)
      BY <1>0, <1>3, <2>0, <3>1
    <3> HIDE DEF a
    <3>3. /\ read[open + 1].unclosed = ~read[a].unclosed /\ ~read[open + 1].half
          /\ Other(read[open + 1], read[a].unclosed) = Other(read[a], read[a].unclosed)
          /\ Mine(read[open + 1], read[a].unclosed)
               = Mine(read[a], read[a].unclosed) \o SubSeq(content, a + 1, open - 1)
      BY <3>2, ModeEnds
    <3> QED
      BY <3>3 DEF a
  <2>2. /\ within.unclosed = TRUE /\ ~within.half /\ within.reasoning = old.reasoning
        /\ within.visible = old.visible \o shown
    <3>1. within.unclosed \in BOOLEAN
      BY <1>2, <2>0
    <3>2. within.reasoning = old.reasoning /\ within.visible = old.visible \o shown
      BY <1>0, <1>4, <2>1
    <3> QED
      BY <1>3, <2>1, <3>1, <3>2
  <2>3. Awaited(within.unclosed) = Close
    BY <2>2 DEF Awaited
  <2>4. \A acc : /\ Mine(acc, within.unclosed) = acc.reasoning
                 /\ Other(acc, within.unclosed) = acc.visible
    BY <2>2 DEF Mine, Other
  <2>5. CASE close = 0
    <3> DEFINE thought == SubSeq(content, inner, n)
    <3>1. turn = [visible |-> shown, reasoning |-> thought, unclosed |-> TRUE]
      BY <1>6, <2>5 DEF parseTurn, open, inner, close
    <3>2. InMode(content, read, open + 1, n)
      <4>1. NoTag(content, Awaited(within.unclosed), open + 1 + 1, n)
        BY <1>1, <1>6, <2>0, <2>3, <2>5
      <4> HIDE DEF turn, shown, thought
      <4> QED
        BY <2>0, <2>2, <4>1, ModeStays
    <3>3. /\ read[n].unclosed = TRUE /\ read[n].visible = within.visible
          /\ read[n].reasoning = within.reasoning \o thought
      BY <2>0, <2>2, <2>4, <3>2 DEF InMode
    <3>4. Completes(content, read, pos, [visible |-> shown, reasoning |-> thought, unclosed |-> TRUE])
      BY <2>2, <3>3, CompletesIs
    <3> QED
      BY <3>1, <3>4
  <2>6. CASE close # 0
    <3> DEFINE after == close + Len(Close)
               rest == f[after]
               thought == SubSeq(content, inner, close - 1)
               closed == read[close + 1]
    <3>0. /\ after = close + 2 /\ after \in (pos + 1)..(n + 1) /\ after - 1 = close + 1
          /\ close \in (open + 1 + 1)..(Len(content) - 1) /\ close \in Nat /\ close + 1 \in 0..n
      BY <1>0, <1>1, <1>6, <2>0, <2>6
    <3>1. turn = [visible |-> shown \o rest.visible,
                  reasoning |-> thought \o rest.reasoning, unclosed |-> rest.unclosed]
      BY <1>6, <2>6 DEF parseTurn, open, inner, close
    <3>2. /\ closed.unclosed = ~within.unclosed /\ ~closed.half
          /\ Other(closed, within.unclosed) = Other(within, within.unclosed)
          /\ Mine(closed, within.unclosed)
               = Mine(within, within.unclosed) \o SubSeq(content, open + 1 + 1, close - 1)
      <4>1. /\ NoTag(content, Awaited(within.unclosed), open + 1 + 1, close)
            /\ TagAt(content, Awaited(within.unclosed), close)
        BY <1>1, <1>6, <2>0, <2>3, <2>6
      <4> DEFINE a == open + 1
      <4>2. /\ a \in 0..Len(content) /\ ~read[a].half /\ close \in (a + 1)..(Len(content) - 1)
            /\ NoTag(content, Awaited(read[a].unclosed), a + 1, close)
            /\ TagAt(content, Awaited(read[a].unclosed), close)
        BY <2>0, <2>2, <3>0, <4>1
      <4> HIDE DEF a, close
      <4>3. /\ read[close + 1].unclosed = ~read[a].unclosed /\ ~read[close + 1].half
            /\ Other(read[close + 1], read[a].unclosed) = Other(read[a], read[a].unclosed)
            /\ Mine(read[close + 1], read[a].unclosed)
                 = Mine(read[a], read[a].unclosed) \o SubSeq(content, a + 1, close - 1)
        BY <4>2, ModeEnds
      <4> QED
        BY <4>3 DEF a
    <3>3. /\ AtTurn(closed) /\ closed.visible = within.visible
          /\ closed.reasoning = within.reasoning \o thought
      BY <2>0, <2>2, <2>4, <3>2 DEF AtTurn
    <3>4. rest \in Parsed /\ Completes(content, read, after, rest)
      BY <3>0, <3>3
    <3> HIDE DEF rest, after
    <3>5. /\ read[n].visible = (old.visible \o shown) \o rest.visible
          /\ read[n].reasoning = (old.reasoning \o thought) \o rest.reasoning
          /\ read[n].unclosed = rest.unclosed
      BY <2>2, <3>0, <3>3, <3>4 DEF Completes
    <3>6. /\ old.visible \in Seq(Token) /\ old.reasoning \in Seq(Token)
          /\ rest.visible \in Seq(Token) /\ rest.reasoning \in Seq(Token)
          /\ shown \in Seq(Token) /\ thought \in Seq(Token)
      <4>1. rest.visible \in Seq(Token) /\ rest.reasoning \in Seq(Token)
        BY <3>4 DEF Parsed
      <4>2. shown \in Seq(Token)
        <5>1. open - 1 \in Int /\ \A i \in pos..(open - 1) : content[i] \in Token
          BY <1>0, <2>0, ElementOfSeq
        <5> QED
          BY <1>0, <5>1, SliceOf
      <4>3. thought \in Seq(Token)
        <5>1. /\ inner \in Int /\ close - 1 \in Int
              /\ \A i \in inner..(close - 1) : content[i] \in Token
          BY <1>0, <2>0, <3>0, ElementOfSeq
        <5> QED
          BY <5>1, SliceOf
      <4> QED
        BY <1>0, <1>2, <4>1, <4>2, <4>3
    <3> HIDE DEF turn, shown, thought, old, n, within, closed
    <3>7. /\ read[n].visible = old.visible \o (shown \o rest.visible)
          /\ read[n].reasoning = old.reasoning \o (thought \o rest.reasoning)
      <4>1. ASSUME NEW a \in Seq(Token), NEW b \in Seq(Token), NEW c \in Seq(Token),
                   a = old.visible, b = shown, c = rest.visible
            PROVE  read[n].visible = a \o (b \o c)
        <5>1. (a \o b) \o c = a \o (b \o c)
          BY Joined, ZenonT(60)
        <5> QED
          BY <3>5, <4>1, <5>1
      <4>2. ASSUME NEW a \in Seq(Token), NEW b \in Seq(Token), NEW c \in Seq(Token),
                   a = old.reasoning, b = thought, c = rest.reasoning
            PROVE  read[n].reasoning = a \o (b \o c)
        <5>1. (a \o b) \o c = a \o (b \o c)
          BY Joined, ZenonT(60)
        <5> QED
          BY <3>5, <4>2, <5>1
      <4>3. read[n].visible = old.visible \o (shown \o rest.visible)
        BY <3>6, <4>1, ZenonT(60)
      <4>4. read[n].reasoning = old.reasoning \o (thought \o rest.reasoning)
        BY <3>6, <4>2, ZenonT(60)
      <4> QED
        BY <4>3, <4>4
    <3>8. Completes(content, read, pos,
            [visible |-> shown \o rest.visible,
             reasoning |-> thought \o rest.reasoning, unclosed |-> rest.unclosed])
      BY <3>5, <3>7, CompletesIs DEF old, n
    <3> QED
      BY <3>1, <3>8 DEF turn
  <2> QED
    BY <2>5, <2>6
<1> QED
  BY <1>5, <1>6

\* For every answer, however long and wherever its tags are: the loop that jumps
\* from tag to tag finds what a left-to-right reading finds.
THEOREM ParseIsReading == \A content \in Seq(Token) : parseThinkTags(content) = ThinkReading(content)
<1> SUFFICES ASSUME NEW content \in Seq(Token)
             PROVE  parseThinkTags(content) = ThinkReading(content)
  OBVIOUS
<1>1. PICK f : /\ f = [pos \in 1..(Len(content) + 1) |-> parseTurn(content, f, pos)]
               /\ parseThinkTags(content) = f[1]
  BY ParseUnfolds
<1>2. PICK read : LET acc == read[Len(content)] IN
        /\ Reads(content, read)
        /\ ThinkReading(content) =
             [visible |-> acc.visible, reasoning |-> acc.reasoning, unclosed |-> acc.unclosed]
  BY ReadUnfolds
<1> DEFINE n == Len(content) + 1
           Ok(q) == f[q] \in Parsed /\ (AtTurn(read[q - 1]) => Completes(content, read, q, f[q]))
           S == {k \in 1..(n + 1) : \A q \in k..n : Ok(q)}
<1>3. n \in Nat /\ n > 0
  OBVIOUS
<1>4. n + 1 \in S
  BY <1>3
<1>5. ASSUME NEW k \in 1..n, k + 1 \in S
      PROVE  k \in S
  <2>1. \A q \in (k + 1)..n : Ok(q)
    BY <1>5
  <2>2. f[k] = parseTurn(content, f, k)
    BY <1>1
  <2>3. f[k] \in Parsed
    BY <2>1, <2>2, TurnResult
  <2>4. AtTurn(read[k - 1]) => Completes(content, read, k, f[k])
    BY <1>2, <2>1, <2>2, TurnAgrees
  <2>5. \A q \in k..n : Ok(q)
    <3> SUFFICES ASSUME NEW q \in k..n PROVE Ok(q)
      OBVIOUS
    <3>1. q = k \/ q \in (k + 1)..n
      BY <1>3
    <3> QED
      BY <2>1, <2>3, <2>4, <3>1
  <2> HIDE DEF Ok
  <2> QED
    BY <1>3, <2>5
<1>6. 1 \in S
  <2> HIDE DEF S, n
  <2>1. 1 \in 1..(n + 1)
    BY <1>3
  <2> QED
    BY <1>3, <1>4, <1>5, <2>1, DownInduction
<1>7. Ok(1)
  <2> HIDE DEF Ok
  <2> QED
    BY <1>3, <1>6
<1>8. read[1 - 1] = Unread
  BY <1>2, ReadFacts
<1>9. /\ f[1].visible \in Seq(Token) /\ f[1].reasoning \in Seq(Token)
      /\ f[1] = [visible |-> f[1].visible, reasoning |-> f[1].reasoning, unclosed |-> f[1].unclosed]
  BY <1>7 DEF Parsed
<1>10. <<>> \o f[1].visible = f[1].visible /\ <<>> \o f[1].reasoning = f[1].reasoning
  BY <1>9, ConcatEmptySeq
<1>11. /\ read[Len(content)].visible = f[1].visible
       /\ read[Len(content)].reasoning = f[1].reasoning
       /\ read[Len(content)].unclosed = f[1].unclosed
  <2>1. read[1 - 1].visible = <<>> /\ read[1 - 1].reasoning = <<>> /\ AtTurn(read[1 - 1])
    BY <1>8 DEF Unread, AtTurn
  <2>2. Completes(content, read, 1, f[1])
    BY <1>7, <2>1
  <2> QED
    BY <1>10, <2>1, <2>2, Zenon DEF Completes
<1> QED
  BY <1>1, <1>2, <1>9, <1>11

-----------------------------------------------------------------------------
(* Messages. *)

\* The fields of a message have their types.
LEMMA MessageField ==
    ASSUME NEW m \in Message
    PROVE  /\ m.content \in Seq(Token) /\ m.reasoning \in Seq(Token) /\ m.thinking \in BOOLEAN
           /\ m.status \in Status /\ m.from \in {"user", "assistant"}
           /\ m.writers \in SUBSET Streams
  BY DEF Message

\* None is not a stream.
LEMMA StreamFacts ==
    /\ None \notin Streams /\ Streams \subseteq Nat \ {0}
    /\ \A s \in Streams : s # None
  BY PlaygroundAssumption DEF None, Streams

\* A message that is given an error.
LEMMA ErrorFacts ==
    ASSUME NEW m \in Message
    PROVE  LET x == WithError(m) IN
           x \in Message /\ x.status = "error" /\ x.writers = m.writers /\ x.asked = m.asked
<1> DEFINE x == WithError(m)
<1>1. <<ErrorText>> \in Seq(Token) /\ "error" \in Status
  BY TagFacts DEF Status
<1>2. x \in Message
  BY <1>1, Zenon DEF WithError, Message
<1>3. x.status = "error" /\ x.writers = m.writers /\ x.asked = m.asked
  BY DEF WithError, Message
<1> HIDE DEF x
<1> QED
  BY <1>2, <1>3 DEF x

\* finalizeMessage changes the texts only.
LEMMA FinalFacts ==
    ASSUME NEW m \in Message
    PROVE  LET final == finalizeMessage(m) IN
           /\ final \in Message
           /\ final.writers = m.writers /\ final.asked = m.asked /\ final.from = m.from
<1> DEFINE parsed == parseThinkTags(m.content)
           reasoning == OrElse(m.reasoning, parsed.reasoning)
           final == [m EXCEPT !.content = parsed.visible, !.reasoning = reasoning,
                              !.thinking = FALSE]
<1>1. parsed \in Parsed
  BY MessageField, ParseType
<1> HIDE DEF parsed
<1>2. parsed.visible \in Seq(Token) /\ reasoning \in Seq(Token)
  BY <1>1, MessageField DEF Parsed, OrElse
<1> HIDE DEF reasoning
<1>3. final \in Message
  BY <1>2, Zenon DEF Message
<1>4. final.writers = m.writers /\ final.asked = m.asked /\ final.from = m.from
  BY DEF Message
<1>5. finalizeMessage(m) = final
  BY DEF finalizeMessage, parsed, reasoning
<1> HIDE DEF final
<1> QED
  BY <1>3, <1>4, <1>5

\* So does the completion of a message, besides its status.
LEMMA CompleteFacts ==
    ASSUME NEW m \in Message
    PROVE  LET x == [finalizeMessage(m) EXCEPT !.status = "complete"] IN
           /\ x \in Message /\ x.status = "complete"
           /\ x.writers = m.writers /\ x.asked = m.asked
<1> DEFINE final == finalizeMessage(m)
           x == [final EXCEPT !.status = "complete"]
<1>1. final \in Message /\ final.writers = m.writers /\ final.asked = m.asked
  BY FinalFacts
<1> HIDE DEF final
<1>2. "complete" \in Status
  BY DEF Status
<1>3. x \in Message
  BY <1>1, <1>2, Zenon DEF Message
<1>4. x.status = "complete" /\ x.writers = final.writers /\ x.asked = final.asked
  BY <1>1 DEF Message
<1> HIDE DEF x
<1> QED
  BY <1>1, <1>3, <1>4 DEF x, final

\* A piece of reasoning keeps the message's origin.
LEMMA ExtendedReasoning ==
    ASSUME NEW m \in Message, NEW piece \in Seq(Token)
    PROVE  LET e == [m EXCEPT !.reasoning = @ \o piece, !.thinking = TRUE] IN
           e \in Message /\ e.from = m.from /\ e.asked = m.asked /\ e.writers = m.writers
<1> DEFINE new == m.reasoning \o piece
<1>1. new \in Seq(Token)
  BY MessageField, ConcatProperties
<1> HIDE DEF new
<1> DEFINE e == [m EXCEPT !.reasoning = new, !.thinking = TRUE]
<1>2. e \in Message
  BY <1>1, Zenon DEF Message
<1>3. e.from = m.from /\ e.asked = m.asked /\ e.writers = m.writers
  BY DEF Message
<1> HIDE DEF e
<1> QED
  BY <1>2, <1>3 DEF e, new

\* A piece of content keeps the message's origin, whatever the parser makes of
\* it.
LEMMA ExtendedContent ==
    ASSUME NEW m \in Message, NEW piece \in Seq(Token)
    PROVE  LET e == processStreamingContent(m, piece) IN
           e \in Message /\ e.from = m.from /\ e.asked = m.asked /\ e.writers = m.writers
<1> DEFINE content == m.content \o piece
           parsed == parseThinkTags(content)
           reasoning == OrElse(parsed.reasoning, m.reasoning)
           unclosed == parsed.unclosed
<1>1. content \in Seq(Token)
  BY MessageField, ConcatProperties
<1>2. parsed \in Parsed
  <2> HIDE DEF content
  <2> QED
    BY <1>1, ParseType
<1>3. reasoning \in Seq(Token) /\ unclosed \in BOOLEAN
  <2> HIDE DEF parsed
  <2> QED
    BY <1>2, MessageField DEF Parsed, OrElse
<1>4. processStreamingContent(m, piece) =
        [m EXCEPT !.content = content, !.reasoning = reasoning, !.thinking = unclosed]
  BY DEF processStreamingContent
<1> HIDE DEF content, reasoning, unclosed
<1> DEFINE e == [m EXCEPT !.content = content, !.reasoning = reasoning, !.thinking = unclosed]
<1>5. e \in Message
  BY <1>1, <1>3, Zenon DEF Message
<1>6. e.from = m.from /\ e.asked = m.asked /\ e.writers = m.writers
  BY DEF Message
<1> HIDE DEF e
<1> QED
  BY <1>4, <1>5, <1>6 DEF e

\* The message that handleStreamUpdate leaves for the last message m.
Extended(m, s, type, piece) ==
    LET e == IF type = "reasoning"
             THEN [m EXCEPT !.reasoning = @ \o piece, !.thinking = TRUE]
             ELSE processStreamingContent(m, piece)
    IN [e EXCEPT !.status = "streaming", !.writers = @ \cup {s}]

\* It is a message that is being written, by s too.
LEMMA ExtendedFacts ==
    ASSUME NEW m \in Message, NEW s \in Streams, NEW type, NEW piece \in Seq(Token)
    PROVE  LET x == Extended(m, s, type, piece) IN
           /\ x \in Message /\ x.status = "streaming" /\ x.writers = m.writers \cup {s}
           /\ x.from = m.from /\ x.asked = m.asked
<1> DEFINE e == IF type = "reasoning"
                THEN [m EXCEPT !.reasoning = @ \o piece, !.thinking = TRUE]
                ELSE processStreamingContent(m, piece)
           x == [e EXCEPT !.status = "streaming", !.writers = @ \cup {s}]
<1>1. e \in Message /\ e.from = m.from /\ e.asked = m.asked /\ e.writers = m.writers
  BY ExtendedReasoning, ExtendedContent
<1> HIDE DEF e
<1>2. "streaming" \in Status /\ e.writers \cup {s} \in SUBSET Streams
  BY <1>1, MessageField DEF Status
<1>3. x \in Message
  BY <1>1, <1>2, Zenon DEF Message
<1>4. /\ x.status = "streaming" /\ x.writers = e.writers \cup {s} /\ x.from = e.from
      /\ x.asked = e.asked
  BY <1>1 DEF Message
<1>5. Extended(m, s, type, piece) = x
  BY DEF Extended, e
<1> HIDE DEF x
<1> QED
  BY <1>1, <1>3, <1>4, <1>5

\* The message created for an answer is empty, and a message of the user has
\* the text that was typed.
LEMMA LoadingFacts ==
    ASSUME NEW key \in Nat, NEW s \in Streams
    PROVE  LET m == createLoadingAssistantMessage(key, s) IN
           /\ m \in Message /\ m.status = "loading" /\ m.from = "assistant"
           /\ m.asked = s /\ m.writers = {} /\ m.content = <<>>
<1> DEFINE m == createLoadingAssistantMessage(key, s)
<1>1. m \in Message
  BY DEF createLoadingAssistantMessage, Message, Status
<1>2. /\ m.status = "loading" /\ m.from = "assistant" /\ m.asked = s /\ m.writers = {}
      /\ m.content = <<>>
  BY DEF createLoadingAssistantMessage
<1> HIDE DEF m
<1> QED
  BY <1>1, <1>2 DEF m

\* What the user sends has no status of its own.
LEMMA UserFacts ==
    ASSUME nextKey \in Nat, NEW text \in Seq(Token)
    PROVE  LET m == createUserMessage(text) IN
           m \in Message /\ m.status = "none" /\ m.writers = {}
<1>1. createUserMessage(text) \in Message
  BY DEF createUserMessage, Message, Status
<1>2. createUserMessage(text).status = "none" /\ createUserMessage(text).writers = {}
  BY DEF createUserMessage
<1> QED
  BY <1>1, <1>2

\* applyEdit changes one message, and of that one the content only.
LEMMA EditedFacts ==
    ASSUME NEW i \in DOMAIN Shown, Shown \in Seq(Message), NEW text \in Seq(Token)
    PROVE  LET x == Edited(i, text)[i] IN
           /\ i \in 1..Len(Shown) /\ Shown[i] \in Message /\ x \in Message
           /\ Edited(i, text) = [Shown EXCEPT ![i] = x]
           /\ Edited(i, text) \in Seq(Message) /\ Len(Edited(i, text)) = Len(Shown)
           /\ x.status = Shown[i].status /\ x.from = Shown[i].from
           /\ x.writers = Shown[i].writers /\ x.asked = Shown[i].asked
<1>1. i \in 1..Len(Shown) /\ Shown[i] \in Message
  BY LenProperties, ElementOfSeq
<1> DEFINE m == Shown[i]
           x == [m EXCEPT !.content = text]
<1>2. m \in Message
  BY <1>1
<1> HIDE DEF m
<1>3. x \in Message
  BY <1>2, Zenon DEF Message
<1>4. /\ x.status = m.status /\ x.from = m.from
      /\ x.writers = m.writers /\ x.asked = m.asked
  BY <1>2 DEF Message
<1> HIDE DEF x
<1>5. Edited(i, text) = [Shown EXCEPT ![i] = x]
  BY DEF Edited, x, m
<1>6. [Shown EXCEPT ![i] = x][i] = x
  OBVIOUS
<1>7. Edited(i, text) \in Seq(Message) /\ Len(Edited(i, text)) = Len(Shown)
  BY <1>1, <1>3, <1>5, ExceptSeq
<1> QED
  BY <1>1, <1>3, <1>4, <1>5, <1>6, <1>7 DEF m

-----------------------------------------------------------------------------
(* Types, whatever the user does. *)

States == {"unused", "open", "ended", "closed"}

\* The variables that neither a click nor an event shows.
RestType ==
    /\ source \in [Streams -> States] /\ sseSourceRef \in Streams \cup {None}
    /\ isStreamComplete \in BOOLEAN /\ editing \in Nat /\ nextKey \in Nat \ {0}
    /\ payload \in [Streams -> SUBSET Status] /\ chunks \in 0..MaxChunks
    /\ overlapped \in BOOLEAN

\* The last message of a list is a message.
LEMMA LastType ==
    ASSUME NEW list \in Seq(Message), list # <<>>
    PROVE  Last(list) \in Message
<1>1. Len(list) \in 1..Len(list)
  BY EmptySeq
<1> QED
  BY <1>1, ElementOfSeq DEF Last

\* Replacing the last message by a message keeps a list a list of messages.
LEMMA UpdateType ==
    ASSUME NEW list \in Seq(Message), NEW x, list # <<>> => x \in Message
    PROVE  updateLastAssistantMessage(list, x) \in Seq(Message)
<1>1. CASE list # <<>>
  <2>1. Len(list) \in 1..Len(list)
    BY <1>1, EmptySeq
  <2> QED
    BY <1>1, <2>1, ExceptSeq DEF updateLastAssistantMessage, ReplaceAt
<1> QED
  BY <1>1 DEF updateLastAssistantMessage

\* So does an error.
LEMMA ErrorListType ==
    ASSUME NEW list \in Seq(Message)
    PROVE  updateAssistantMessageWithError(list) \in Seq(Message)
  BY LastType, ErrorFacts, UpdateType DEF updateAssistantMessageWithError

\* A click that shows a list of messages.
LEMMA ShowType ==
    ASSUME NEW list \in Seq(Message), NEW ref, Show(list, ref), RestType'
    PROVE  TypeOK'
<1>1. /\ messages' = list /\ stored' = list /\ sseSourceRef' = ref
      /\ view' = [messages |-> list, generating |-> ref # None]
  BY DEF Show
<1>2. view'.messages = list /\ view'.generating = (ref # None)
  BY <1>1
<1> QED
  BY <1>1, <1>2 DEF TypeOK, RestType, States

\* An event that queues a list of messages.
LEMMA QueueType ==
    ASSUME TypeOK, NEW list \in Seq(Message), Queue(list),
           sseSourceRef' \in Streams \cup {None}, source' \in [Streams -> States],
           isStreamComplete' \in BOOLEAN, chunks' \in 0..MaxChunks
    PROVE  TypeOK'
<1>1. /\ messages' = list /\ (stored' = stored \/ stored' = list)
      /\ view' = view /\ editing' = editing /\ nextKey' = nextKey /\ payload' = payload
      /\ overlapped' = overlapped
  BY DEF Queue
<1> QED
  BY <1>1 DEF TypeOK, States

\* A change of one source leaves the others.
LEMMA SourceChange ==
    ASSUME TypeOK, NEW s \in Streams, NEW state \in States,
           source' = [source EXCEPT ![s] = state]
    PROVE  /\ source' \in [Streams -> States]
           /\ \A r \in Streams : source'[r] = IF r = s THEN state ELSE source[r]
  BY DEF TypeOK, States

\* What arrives and what is typed are texts.
LEMMA TextFacts ==
    /\ <<Text>> \in Seq(Token) /\ Pieces \subseteq Seq(Token) /\ Typed \subseteq Seq(Token)
  BY PlaygroundAssumption, TagFacts

\* A piece for the last message.
LEMMA StreamUpdateType ==
    ASSUME TypeOK, NEW s \in Streams, NEW type, NEW piece \in Seq(Token),
           handleStreamUpdate(s, type, piece)
    PROVE  TypeOK'
<1> DEFINE m == Last(messages)
           x == Extended(m, s, type, piece)
           y == IF m.status = "error" THEN m ELSE x
<1>0. messages \in Seq(Message)
  BY DEF TypeOK
<1>1. messages # <<>> => y \in Message
  BY <1>0, LastType, ExtendedFacts
<1>2. Queue(updateLastAssistantMessage(messages, y))
  BY DEF handleStreamUpdate, Extended
<1> HIDE DEF y
<1>3. updateLastAssistantMessage(messages, y) \in Seq(Message)
  BY <1>0, <1>1, UpdateType
<1>4. /\ chunks' \in 0..MaxChunks /\ source' = source /\ sseSourceRef' = sseSourceRef
      /\ isStreamComplete' = isStreamComplete
  BY PlaygroundAssumption DEF handleStreamUpdate, TypeOK
<1>5. /\ source' \in [Streams -> States]
      /\ isStreamComplete' \in BOOLEAN /\ sseSourceRef' \in Streams \cup {None}
  BY <1>4 DEF TypeOK, States
<1> QED
  BY <1>2, <1>3, <1>4, <1>5, QueueType

\* The events of a source.
LEMMA StreamEventType == ASSUME TypeOK, StreamEvent PROVE TypeOK'
<1>0. messages \in Seq(Message) /\ isStreamComplete \in BOOLEAN
  BY DEF TypeOK
<1>1. PICK s \in Streams :
        \/ ReasoningChunk(s) \/ Done(s) \/ EndOfResponse(s)
        \/ ParseError(s) \/ ConnectionError(s)
        \/ \E piece \in Pieces : ContentChunk(s, piece)
  BY DEF StreamEvent
<1>2. CASE ReasoningChunk(s) \/ \E piece \in Pieces : ContentChunk(s, piece)
  BY <1>2, TextFacts, StreamUpdateType DEF ReasoningChunk, ContentChunk
<1>3. ASSUME NEW list \in Seq(Message), Queue(list), sseSourceRef' = None, UNCHANGED chunks,
             source' = [source EXCEPT ![s] = "closed"], isStreamComplete' \in BOOLEAN
      PROVE  TypeOK'
  <2>1. /\ sseSourceRef' \in Streams \cup {None} /\ chunks' \in 0..MaxChunks
        /\ "closed" \in States
    BY <1>3 DEF TypeOK, States
  <2> QED
    BY <1>3, <2>1, SourceChange, QueueType
<1>4. ASSUME NEW state \in States, source' = [source EXCEPT ![s] = state],
             UNCHANGED <<messages, view, stored, sseSourceRef, isStreamComplete, editing,
                         nextKey, payload, chunks, overlapped>>
      PROVE  TypeOK'
  <2>1. source' \in [Streams -> States]
    BY <1>4, SourceChange
  <2> QED
    BY <1>4, <2>1 DEF TypeOK, States
<1>5. CASE Done(s)
  <2>1. handleStreamComplete \in Seq(Message)
    BY <1>0, LastType, CompleteFacts, UpdateType DEF handleStreamComplete, Complete
  <2> QED
    BY <1>3, <1>5, <2>1 DEF Done
<1>6. CASE EndOfResponse(s)
  BY <1>4, <1>6 DEF EndOfResponse, States
<1>7. CASE ParseError(s) \/ ConnectionError(s)
  <2>1. updateAssistantMessageWithError(messages) \in Seq(Message)
    BY <1>0, ErrorListType
  <2>2. "open" \in States /\ "ended" \in States
    BY DEF States
  <2> QED
    BY <1>0, <1>3, <1>4, <1>7, <2>1, <2>2 DEF ParseError, ConnectionError, handleError
<1> QED
  BY <1>1, <1>2, <1>5, <1>6, <1>7

\* Sending a list.
LEMMA SendType ==
    ASSUME TypeOK, NEW s \in Streams, NEW list \in Seq(Message), sendChat(s, list),
           editing' \in Nat, nextKey' \in Nat \ {0}, overlapped' \in BOOLEAN
    PROVE  TypeOK'
<1>1. updateAssistantMessageWithError(list) \in Seq(Message)
  BY ErrorListType
<1> DEFINE carried == {list[i].status : i \in {j \in DOMAIN list : isValidMessage(list[j])}}
<1>2. carried \in SUBSET Status
  BY MessageField, LenProperties, ElementOfSeq
<1>3. payload' = [payload EXCEPT ![s] = carried]
  BY DEF sendChat
<1> HIDE DEF carried
<1>4. payload' \in [Streams -> SUBSET Status]
  BY <1>2, <1>3 DEF TypeOK
<1>5. isStreamComplete' \in BOOLEAN /\ chunks' \in 0..MaxChunks
  BY DEF sendChat, TypeOK
<1>6. source' \in [Streams -> States]
  BY SourceChange DEF sendChat, States
<1>7. sseSourceRef' \in Streams \cup {None}
  BY DEF sendChat, Show
<1>8. RestType'
  BY <1>4, <1>5, <1>6, <1>7 DEF RestType
<1> QED
  BY <1>1, <1>8, ShowType DEF sendChat

\* A part of a list of messages.
LEMMA SliceType ==
    ASSUME NEW list \in Seq(Message), NEW a \in Nat \ {0}, NEW b \in Int, b <= Len(list)
    PROVE  SubSeq(list, a, b) \in Seq(Message)
<1>1. \A i \in a..b : list[i] \in Message
  BY ElementOfSeq
<1> QED
  BY <1>1, SubSeqProperties

\* The repair on load.
LEMMA SanitizedType ==
    ASSUME NEW list \in Seq(Message)
    PROVE  sanitizeMessagesOnLoad(list) \in Seq(Message)
<1> DEFINE Stuck == {i \in DOMAIN list : /\ list[i].from = "assistant"
                                         /\ list[i].status \in Unfinished}
           last == CHOOSE i \in Stuck : \A j \in Stuck : j <= i
           final == finalizeMessage(list[last])
           x == IF final.content # <<>> \/ final.reasoning # <<>>
                THEN [final EXCEPT !.status = "complete"]
                ELSE WithError(final)
<1>1. sanitizeMessagesOnLoad(list) = IF Stuck = {} THEN list ELSE ReplaceAt(list, last, x)
  BY DEF sanitizeMessagesOnLoad
<1>2. CASE last \in DOMAIN list
  <2>1. list[last] \in Message /\ last \in 1..Len(list)
    BY <1>2, LenProperties, ElementOfSeq
  <2>2. x \in Message
    BY <2>1, FinalFacts, CompleteFacts, ErrorFacts
  <2> HIDE DEF x, last
  <2>3. ReplaceAt(list, last, x) \in Seq(Message)
    BY <2>1, <2>2, ExceptSeq DEF ReplaceAt
  <2> QED
    BY <1>1, <2>3
<1>3. CASE last \notin DOMAIN list
  <2> HIDE DEF x, last
  <2>1. ReplaceAt(list, last, x) = list
    BY <1>3 DEF ReplaceAt
  <2> QED
    BY <1>1, <2>1
<1> QED
  BY <1>2, <1>3

\* Every step keeps the types.
LEMMA StepType == TypeOK /\ [Next]_vars => TypeOK'
<1> SUFFICES ASSUME TypeOK, [Next]_vars PROVE TypeOK'
  OBVIOUS
<1>0. /\ messages \in Seq(Message) /\ stored \in Seq(Message) /\ Shown \in Seq(Message)
      /\ nextKey \in Nat \ {0} /\ editing \in Nat /\ sseSourceRef \in Streams \cup {None}
      /\ overlapped \in BOOLEAN /\ view.generating \in BOOLEAN
  BY DEF TypeOK, Shown
<1>1. CASE UNCHANGED vars
  BY <1>1 DEF vars, TypeOK
<1>2. ASSUME NEW text \in Seq(Token), handleSendMessage(text), overlapped' \in BOOLEAN
      PROVE  TypeOK'
  <2>1. ASSUME NEW s \in Streams,
               sendChat(s, Shown \o <<createUserMessage(text),
                                      createLoadingAssistantMessage(nextKey + 1, s)>>),
               nextKey' = nextKey + 2, UNCHANGED editing
        PROVE  TypeOK'
    <3> DEFINE u == createUserMessage(text)
               m == createLoadingAssistantMessage(nextKey + 1, s)
    <3>1. u \in Message /\ m \in Message
      BY <1>0, UserFacts, LoadingFacts
    <3>2. sendChat(s, Shown \o <<u, m>>)
      BY <2>1
    <3> HIDE DEF u, m
    <3>3. Shown \o <<u, m>> \in Seq(Message)
      BY <1>0, <3>1
    <3>4. editing' \in Nat /\ nextKey' \in Nat \ {0}
      BY <1>0, <2>1
    <3> QED
      BY <1>2, <3>2, <3>3, <3>4, SendType
  <2> QED
    BY <1>2, <2>1 DEF handleSendMessage
<1>3. ASSUME NEW base \in Seq(Message), NEW s \in Streams,
             sendChat(s, Append(base, createLoadingAssistantMessage(nextKey, s))),
             editing' \in Nat, nextKey' \in Nat \ {0}, overlapped' \in BOOLEAN
      PROVE  TypeOK'
  <2>1. createLoadingAssistantMessage(nextKey, s) \in Message
    BY <1>0, LoadingFacts
  <2>2. Append(base, createLoadingAssistantMessage(nextKey, s)) \in Seq(Message)
    BY <2>1, AppendProperties
  <2> QED
    BY <1>3, <2>2, SendType
<1>4. ASSUME NEW list \in Seq(Message), NEW ref \in Streams \cup {None}, Show(list, ref),
             source' \in [Streams -> States], isStreamComplete' \in BOOLEAN, editing' \in Nat,
             UNCHANGED <<nextKey, payload, chunks>>, overlapped' \in BOOLEAN
      PROVE  TypeOK'
  <2>1. RestType'
    BY <1>4 DEF RestType, TypeOK, Show
  <2> QED
    BY <1>4, <2>1, ShowType
<1>5. ASSUME NEW text \in Typed, Send(text) PROVE TypeOK'
  <2>1. text \in Seq(Token) /\ overlapped' \in BOOLEAN
    BY <1>0, <1>5, TextFacts DEF Send
  <2> QED
    BY <1>2, <1>5, <2>1 DEF Send
<1>6. CASE Suggest
  <2>1. <<Text>> \in Seq(Token) /\ overlapped' \in BOOLEAN
    BY <1>0, <1>6, TextFacts DEF Suggest
  <2> QED
    BY <1>2, <1>6, <2>1 DEF Suggest
<1>7. CASE Stop
  <2>1. StoppedMessages \in Seq(Message)
    BY <1>0, LastType, CompleteFacts, UpdateType DEF StoppedMessages, Complete
  <2>2. source' \in [Streams -> States]
    <3>1. sseSourceRef # None => source' = [source EXCEPT ![sseSourceRef] = "closed"]
      BY <1>7 DEF Stop
    <3>2. sseSourceRef = None => source' = source
      BY <1>7 DEF Stop
    <3> QED
      BY <1>0, <3>1, <3>2, SourceChange DEF TypeOK, States
  <2>3. isStreamComplete' \in BOOLEAN /\ editing' \in Nat /\ overlapped' \in BOOLEAN
    BY <1>7 DEF Stop, TypeOK
  <2> QED
    BY <1>4, <1>7, <2>1, <2>2, <2>3 DEF Stop
<1>8. CASE Load
  <2>1. sanitizeMessagesOnLoad(stored) \in Seq(Message)
    BY <1>0, SanitizedType
  <2>2. /\ source' \in [Streams -> States]
        /\ isStreamComplete' \in BOOLEAN /\ editing' \in Nat /\ overlapped' \in BOOLEAN
    BY <1>0, <1>8 DEF Load, None, States
  <2> QED
    BY <1>4, <1>8, <2>1, <2>2 DEF Load
<1>9. CASE Render
  <2>1. /\ view' = [messages |-> messages, generating |-> sseSourceRef # None]
        /\ stored' = messages
        /\ UNCHANGED <<messages, source, sseSourceRef, isStreamComplete, editing,
                       nextKey, payload, chunks, overlapped>>
    BY <1>9 DEF Render
  <2>2. view'.messages = messages /\ view'.generating = (sseSourceRef # None)
    BY <2>1
  <2> QED
    BY <1>0, <2>1, <2>2 DEF TypeOK
<1>10. ASSUME editing' \in Nat,
              UNCHANGED <<messages, view, stored, source, sseSourceRef, isStreamComplete,
                          nextKey, payload, chunks, overlapped>>
       PROVE  TypeOK'
  BY <1>10 DEF TypeOK
<1>11. CASE CancelEdit
  BY <1>10, <1>11 DEF CancelEdit, None
<1>12. ASSUME NEW i \in DOMAIN Shown, Edit(i)
       PROVE  TypeOK'
  <2>1. Shown[i] \in Message
    BY <1>0, LenProperties, ElementOfSeq
  <2>2. editing' \in Nat
    BY <1>12, <2>1 DEF Edit, Message
  <2> QED
    BY <1>10, <1>12, <2>2 DEF Edit
<1>13. ASSUME NEW i \in DOMAIN Shown, Regenerate(i)
       PROVE  TypeOK'
  <2>1. SubSeq(Shown, 1, i - 1) \in Seq(Message)
    <3>1. i \in 1..Len(Shown) /\ Len(Shown) \in Nat
      BY <1>0, LenProperties
    <3> QED
      BY <1>0, <3>1, SliceType
  <2>2. editing' \in Nat /\ nextKey' \in Nat \ {0} /\ overlapped' \in BOOLEAN
    BY <1>0, <1>13 DEF Regenerate
  <2> QED
    BY <1>3, <1>13, <2>1, <2>2 DEF Regenerate
<1>14. ASSUME NEW i \in DOMAIN Shown, NEW text \in Typed, SaveEdit(i, text)
       PROVE  TypeOK'
  <2>0. text \in Seq(Token)
    BY TextFacts
  <2>1. Edited(i, text) \in Seq(Message)
    BY <1>0, <2>0, EditedFacts
  <2>2. /\ source' \in [Streams -> States] /\ isStreamComplete' \in BOOLEAN /\ editing' \in Nat
        /\ overlapped' \in BOOLEAN
    BY <1>0, <1>14 DEF SaveEdit, TypeOK, None, States
  <2> QED
    BY <1>0, <1>4, <1>14, <2>1, <2>2 DEF SaveEdit
<1>15. ASSUME NEW i \in DOMAIN Shown, NEW text \in Typed, SubmitEdit(i, text)
       PROVE  TypeOK'
  <2>0. text \in Seq(Token)
    BY TextFacts
  <2>1. /\ Edited(i, text) \in Seq(Message) /\ Len(Edited(i, text)) = Len(Shown)
        /\ i \in 1..Len(Shown)
    BY <1>0, <2>0, EditedFacts
  <2>2. SubSeq(Edited(i, text), 1, i) \in Seq(Message)
    <3>1. i \in Int /\ i <= Len(Edited(i, text)) /\ 1 \in Nat \ {0}
      BY <2>1
    <3> QED
      BY <2>1, <3>1, SliceType
  <2>3. editing' \in Nat /\ nextKey' \in Nat \ {0} /\ overlapped' \in BOOLEAN
    BY <1>0, <1>15 DEF SubmitEdit, None
  <2> QED
    BY <1>3, <1>15, <2>2, <2>3 DEF SubmitEdit
<1>16. ASSUME NEW i \in DOMAIN Shown, Delete(i)
       PROVE  TypeOK'
  <2>1. i \in 1..Len(Shown) /\ Len(Shown) \in Nat
    BY <1>0, LenProperties
  <2>2. RemoveAt(Shown, i) \in Seq(Message)
    <3>1. SubSeq(Shown, 1, i - 1) \in Seq(Message)
      BY <1>0, <2>1, SliceType
    <3>2. SubSeq(Shown, i + 1, Len(Shown)) \in Seq(Message)
      BY <1>0, <2>1, SliceType
    <3> QED
      BY <3>1, <3>2, ConcatProperties DEF RemoveAt
  <2>3. /\ source' \in [Streams -> States] /\ isStreamComplete' \in BOOLEAN /\ editing' \in Nat
        /\ overlapped' \in BOOLEAN
    BY <1>0, <1>16 DEF Delete, TypeOK, States
  <2> QED
    BY <1>0, <1>4, <1>16, <2>2, <2>3 DEF Delete
<1>17. CASE StreamEvent
  BY <1>17, StreamEventType
<1> QED
  BY <1>1, <1>5, <1>6, <1>7, <1>8, <1>9, <1>11, <1>12, <1>13, <1>14, <1>15, <1>16, <1>17
     DEF Next

\* A fresh page.
LEMMA InitType == Init => TypeOK
<1> SUFFICES ASSUME Init PROVE TypeOK
  OBVIOUS
<1>1. messages = <<>> /\ stored = <<>> /\ view.messages = <<>> /\ view.generating = FALSE
  BY DEF Init
<1>2. <<>> \in Seq(Message)
  BY EmptySeq
<1>3. payload \in [Streams -> SUBSET Status]
  BY DEF Init
<1>4. source \in [Streams -> {"unused", "open", "ended", "closed"}]
  BY DEF Init
<1>5. sseSourceRef \in Streams \cup {None} /\ isStreamComplete \in BOOLEAN /\ overlapped \in BOOLEAN
  BY DEF Init
<1>6. editing \in Nat /\ nextKey \in Nat \ {0} /\ chunks \in 0..MaxChunks
  <2>1. editing = 0 /\ nextKey = 1 /\ chunks = 0 /\ MaxChunks \in Nat
    BY PlaygroundAssumption DEF Init, None
  <2> QED
    BY <2>1
<1> QED
  BY <1>1, <1>2, <1>3, <1>4, <1>5, <1>6 DEF TypeOK

\* Every variable keeps its type, whatever the user does; in particular what
\* parseThinkTags and the handlers make of the messages are messages again.
THEOREM TypeCorrect == Spec => []TypeOK
  BY InitType, StepType, PTL DEF Spec

\* The parser agrees with the left-to-right reading on every message, for
\* answers of any length, cut into pieces in any way, and for typed texts.
THEOREM ParseAgreesAlways == Spec => []ParseAgrees
<1>1. TypeOK => ParseAgrees
  <2> SUFFICES ASSUME TypeOK, NEW i \in DOMAIN messages
               PROVE  parseThinkTags(messages[i].content) = ThinkReading(messages[i].content)
    BY DEF ParseAgrees
  <2>1. messages \in Seq(Message) /\ i \in 1..Len(messages)
    BY DEF TypeOK
  <2>2. messages[i] \in Message
    BY <2>1, ElementOfSeq
  <2>3. messages[i].content \in Seq(Token)
    BY <2>2 DEF Message
  <2> QED
    BY <2>3, ParseIsReading
<1> QED
  BY <1>1, TypeCorrect, PTL

-----------------------------------------------------------------------------
(* Stop, whatever the user does. *)

\* A source is recorded when it is opened, and whoever closes a source drops
\* the record.
LEMMA StopStep == TypeOK /\ StopHasASource /\ [Next]_vars => StopHasASource'
<1> SUFFICES ASSUME TypeOK, StopHasASource, [Next]_vars PROVE StopHasASource'
  OBVIOUS
<1>1. CASE UNCHANGED <<source, sseSourceRef>>
  BY <1>1 DEF StopHasASource
<1>2. CASE sseSourceRef' = None
  BY <1>2 DEF StopHasASource
<1>3. ASSUME NEW s \in Streams, NEW state \in {"open", "ended"}, sseSourceRef' \in {s, sseSourceRef},
             source' = [source EXCEPT ![s] = state]
      PROVE  StopHasASource'
  BY <1>3 DEF StopHasASource, TypeOK
<1>4. ASSUME NEW s \in Streams, NEW list, sendChat(s, list) PROVE StopHasASource'
  BY <1>2, <1>3, <1>4 DEF sendChat, Show
<1>5. ASSUME NEW text, Send(text) \/ handleSendMessage(text) PROVE StopHasASource'
  BY <1>4, <1>5 DEF Send, handleSendMessage
<1>6. CASE Suggest
  BY <1>5, <1>6 DEF Suggest
<1>7. ASSUME NEW i, NEW text, Regenerate(i) \/ SubmitEdit(i, text) PROVE StopHasASource'
  BY <1>4, <1>7 DEF Regenerate, SubmitEdit
<1>8. ASSUME NEW i, NEW text, Edit(i) \/ SaveEdit(i, text) \/ Delete(i) PROVE StopHasASource'
  BY <1>1, <1>8 DEF Edit, SaveEdit, Delete, Show
<1>9. CASE Stop \/ Load \/ CancelEdit \/ Render
  BY <1>1, <1>2, <1>9 DEF Stop, Load, CancelEdit, Render, Show
<1>10. CASE StreamEvent
  <2>1. PICK s \in Streams :
          \/ ReasoningChunk(s) \/ Done(s) \/ EndOfResponse(s)
          \/ ParseError(s) \/ ConnectionError(s)
          \/ \E piece \in Pieces : ContentChunk(s, piece)
    BY <1>10 DEF StreamEvent
  <2>2. CASE ReasoningChunk(s) \/ \E piece \in Pieces : ContentChunk(s, piece)
    BY <1>1, <2>2 DEF ReasoningChunk, ContentChunk, handleStreamUpdate
  <2>3. CASE Done(s)
    BY <1>2, <2>3 DEF Done
  <2>4. CASE EndOfResponse(s)
    BY <1>3, <2>4 DEF EndOfResponse
  <2>5. CASE ParseError(s) \/ ConnectionError(s)
    BY <1>2, <1>3, <2>5 DEF ParseError, ConnectionError, handleError
  <2> QED
    BY <2>1, <2>2, <2>3, <2>4, <2>5
<1>11. CASE UNCHANGED vars
  BY <1>1, <1>11 DEF vars
<1> QED
  BY <1>5, <1>6, <1>7, <1>8, <1>9, <1>10, <1>11 DEF Next

\* Whatever the user clicks and however many answers are written at a time:
\* what Stop would close has not been closed.
THEOREM StopFindsASource == Spec => []StopHasASource
<1>1. Init => StopHasASource
  BY DEF Init, StopHasASource
<1> QED
  BY <1>1, StopStep, TypeCorrect, PTL DEF Spec

-----------------------------------------------------------------------------
(* The invariant as long as no two requests overlap. *)

\* A message nobody will write into any more, and the message of request s
\* that waits for its answer.
Settled == {m \in Message : Finished(m) /\ m.writers \subseteq {m.asked}}

Pending(s) ==
    {m \in Message : /\ ~Finished(m) /\ m.from = "assistant"
                     /\ m.asked = s /\ m.writers \subseteq {s}}

\* The list while request s is answered.
Waiting(list, s) == \E front \in Seq(Settled), m \in Pending(s) : list = Append(front, m)

\* At most the last message waits, and it does exactly while a source is
\* recorded: for that source's request.
MessagesInv ==
    IF sseSourceRef = None THEN messages \in Seq(Settled) ELSE Waiting(messages, sseSourceRef)

\* What was saved is such a list too, perhaps an older one.
StoredInv == stored \in Seq(Settled) \/ \E s \in Streams : Waiting(stored, s)

\* A handler that isGenerating does not hold back sees the list as it is.
ViewInv == ~view.generating => view.messages = messages /\ sseSourceRef = None

\* No source is open but the recorded one.
SourceInv == \A s \in Streams : source[s] = "open" => sseSourceRef = s

Inv == TypeOK /\ MessagesInv /\ StoredInv /\ ViewInv /\ SourceInv /\ PayloadIsSettled

-----------------------------------------------------------------------------
(* Lists of messages. *)

\* Both kinds of messages are messages.
LEMMA SettledType == Settled \subseteq Message /\ \A s : Pending(s) \subseteq Message
  BY DEF Settled, Pending

\* The end of a list that waits.
LEMMA AppendFacts ==
    ASSUME NEW front \in Seq(Message), NEW m \in Message, NEW x \in Message
    PROVE  LET list == Append(front, m) IN
           /\ list # <<>> /\ Last(list) = m /\ Len(list) = Len(front) + 1
           /\ \A i \in DOMAIN list : i < Len(list) => i \in 1..Len(front) /\ list[i] = front[i]
           /\ ReplaceAt(list, Len(list), x) = Append(front, x)
<1> DEFINE list == Append(front, m)
           new == Append(front, x)
<1>1. /\ list \in Seq(Message) /\ list # <<>> /\ Len(list) = Len(front) + 1
      /\ \A i \in 1..Len(front) : list[i] = front[i]
      /\ list[Len(front) + 1] = m
  BY AppendProperties
<1>2. /\ new \in Seq(Message) /\ Len(new) = Len(front) + 1
      /\ \A i \in 1..Len(front) : new[i] = front[i]
      /\ new[Len(front) + 1] = x
  BY AppendProperties
<1>3. Len(front) \in Nat
  OBVIOUS
<1> HIDE DEF list, new
<1>4. Last(list) = m
  BY <1>1 DEF Last
<1>5. \A i \in DOMAIN list : i < Len(list) => i \in 1..Len(front) /\ list[i] = front[i]
  BY <1>1, <1>3
<1>6. ReplaceAt(list, Len(list), x) = new
  <2> DEFINE rep == [list EXCEPT ![Len(list)] = x]
  <2>1. Len(list) \in 1..Len(list)
    BY <1>1, <1>3
  <2>2. /\ rep \in Seq(Message) /\ Len(rep) = Len(list)
        /\ \A j \in 1..Len(list) : rep[j] = IF j = Len(list) THEN x ELSE list[j]
    BY <1>1, <2>1, ExceptSeq
  <2> HIDE DEF rep
  <2>3. \A j \in 1..Len(rep) : rep[j] = new[j]
    BY <1>1, <1>2, <1>3, <2>2
  <2>4. rep = new
    BY <1>1, <1>2, <2>2, <2>3, SeqEqual
  <2> QED
    BY <2>4 DEF rep, ReplaceAt
<1> QED
  BY <1>1, <1>4, <1>5, <1>6 DEF list, new

\* updateLastAssistantMessage changes the message that waits.
LEMMA UpdateWaiting ==
    ASSUME NEW s, NEW front \in Seq(Settled), NEW m \in Pending(s), NEW x \in Message
    PROVE  /\ Append(front, m) # <<>> /\ Last(Append(front, m)) = m
           /\ updateLastAssistantMessage(Append(front, m), x) = Append(front, x)
<1>1. front \in Seq(Message) /\ m \in Message
  BY SettledType, SeqMonotonic
<1>2. /\ Append(front, m) # <<>> /\ Last(Append(front, m)) = m
      /\ ReplaceAt(Append(front, m), Len(Append(front, m)), x) = Append(front, x)
  BY <1>1, AppendFacts
<1>3. m.from = "assistant"
  BY DEF Pending
<1> QED
  BY <1>2, <1>3 DEF updateLastAssistantMessage

\* A list that ends in the message of request s waits for it, and one that
\* ends in a settled message is settled.
LEMMA AppendSettled ==
    ASSUME NEW front \in Seq(Settled), NEW x \in Settled
    PROVE  Append(front, x) \in Seq(Settled)
  BY AppendProperties

-----------------------------------------------------------------------------
(* Messages that settle. *)

\* A message that was given an error is settled, and so is a completed one.
LEMMA FinalIsSettled ==
    ASSUME NEW m \in Message, m.writers \subseteq {m.asked}
    PROVE  /\ WithError(m) \in Settled
           /\ [finalizeMessage(m) EXCEPT !.status = "complete"] \in Settled
<1> DEFINE x == WithError(m)
           y == [finalizeMessage(m) EXCEPT !.status = "complete"]
<1>1. x \in Message /\ x.status = "error" /\ x.writers = m.writers /\ x.asked = m.asked
  BY ErrorFacts
<1>2. y \in Message /\ y.status = "complete" /\ y.writers = m.writers /\ y.asked = m.asked
  BY CompleteFacts
<1> HIDE DEF x, y
<1>3. x \in Settled /\ y \in Settled
  BY <1>1, <1>2 DEF Settled, Finished, Unfinished
<1> QED
  BY <1>3 DEF x, y

\* The message that waits is settled by its end and by an error.
LEMMA PendingFacts ==
    ASSUME NEW s, NEW m \in Pending(s)
    PROVE  /\ m \in Message /\ m.writers \subseteq {m.asked}
           /\ Complete(m) \in Settled /\ WithError(m) \in Settled
           /\ m.status \in Unfinished /\ m.status \notin {"complete", "error"}
<1>1. /\ m \in Message /\ m.writers \subseteq {m.asked} /\ m.status \in Unfinished
  BY DEF Pending, Finished
<1>2. Complete(m) \in Settled /\ WithError(m) \in Settled
  BY <1>1, FinalIsSettled DEF Complete
<1> QED
  BY <1>1, <1>2 DEF Unfinished

-----------------------------------------------------------------------------
(* A step is a click, which shows a new list, or an event, which queues one. *)

\* A click shows a list: the invariant holds if the list fits the source.
LEMMA ShowStep ==
    ASSUME TypeOK', NEW list, NEW ref, Show(list, ref),
           IF ref = None THEN list \in Seq(Settled) ELSE Waiting(list, ref),
           \A s \in Streams : source'[s] = "open" => ref = s,
           PayloadIsSettled'
    PROVE  Inv'
<1>1. /\ messages' = list /\ stored' = list /\ sseSourceRef' = ref
      /\ view' = [messages |-> list, generating |-> ref # None]
  BY DEF Show
<1>2. view'.messages = list /\ view'.generating = (ref # None)
  BY <1>1
<1>3. ref \in Streams \cup {None}
  BY <1>1 DEF TypeOK
<1>4. MessagesInv' /\ StoredInv'
  BY <1>1, <1>3 DEF MessagesInv, StoredInv
<1>5. ViewInv' /\ SourceInv'
  BY <1>1, <1>2 DEF ViewInv, SourceInv
<1> QED
  BY <1>4, <1>5 DEF Inv

\* An event queues a list: the same, for a view that may lag behind.
LEMMA QueueStep ==
    ASSUME TypeOK', Inv, view.generating, NEW list, Queue(list),
           IF sseSourceRef' = None THEN list \in Seq(Settled) ELSE Waiting(list, sseSourceRef'),
           \A s \in Streams : source'[s] = "open" => sseSourceRef' = s
    PROVE  Inv'
<1>0. StoredInv /\ PayloadIsSettled
  BY DEF Inv
<1>1. messages' = list /\ (stored' = stored \/ stored' = list)
  BY DEF Queue
<1>2. view' = view /\ payload' = payload
  BY DEF Queue
<1>3. sseSourceRef' \in Streams \cup {None}
  BY DEF TypeOK
<1>4. MessagesInv' /\ StoredInv'
  BY <1>0, <1>1, <1>3 DEF MessagesInv, StoredInv
<1>5. ViewInv' /\ SourceInv' /\ PayloadIsSettled'
  BY <1>0, <1>2 DEF ViewInv, SourceInv, PayloadIsSettled
<1> QED
  BY <1>4, <1>5 DEF Inv

\* The source that sends an event is the recorded one: the buttons are held
\* back, and the last message waits for this source.
LEMMA EventFacts ==
    ASSUME Inv, NEW s \in Streams, source[s] = "open"
    PROVE  /\ view.generating /\ sseSourceRef = s
           /\ \E front \in Seq(Settled), m \in Pending(s) : messages = Append(front, m)
<1>1. sseSourceRef = s /\ s # None
  BY StreamFacts DEF Inv, SourceInv
<1>2. view.generating
  BY <1>1 DEF Inv, ViewInv
<1>3. Waiting(messages, s)
  BY <1>1 DEF Inv, MessagesInv
<1> QED
  BY <1>1, <1>2, <1>3 DEF Waiting

-----------------------------------------------------------------------------
(* The events of a source. *)

\* What an event does to the list: nothing, or it replaces the message that
\* waits.
Replaces ==
    \/ messages' = messages
    \/ \E s \in Streams : \E front \in Seq(Settled), m \in Pending(s), x \in Message :
          messages = Append(front, m) /\ messages' = Append(front, x)

\* A piece goes to the last message, which is the one that waits for it.
LEMMA StreamUpdateKeeps ==
    ASSUME TypeOK', Inv, NEW s \in Streams, NEW type, NEW piece \in Seq(Token),
           handleStreamUpdate(s, type, piece)
    PROVE  Inv' /\ Replaces
<1>0. source[s] = "open"
  BY DEF handleStreamUpdate
<1>1. PICK front \in Seq(Settled), m \in Pending(s) : messages = Append(front, m)
  BY <1>0, EventFacts
<1>2. m \in Message /\ m.status # "error" /\ Last(messages) = m
  <2>1. m \in Message
    BY PendingFacts
  <2>2. m.status # "error"
    BY PendingFacts
  <2>3. Last(messages) = m
    BY <1>1, <2>1, UpdateWaiting
  <2> QED
    BY <2>1, <2>2, <2>3
<1> DEFINE x == Extended(m, s, type, piece)
<1>3. /\ x \in Message /\ x.status = "streaming" /\ x.writers = m.writers \cup {s}
      /\ x.from = m.from /\ x.asked = m.asked
  BY <1>2, ExtendedFacts
<1>4. Queue(updateLastAssistantMessage(messages, x))
  BY <1>2 DEF handleStreamUpdate, Extended
<1> HIDE DEF x
<1>5. x \in Pending(s)
  BY <1>3 DEF Pending, Finished, Unfinished
<1>6. updateLastAssistantMessage(messages, x) = Append(front, x)
  BY <1>1, <1>3, UpdateWaiting
<1>7. Waiting(Append(front, x), s)
  BY <1>5 DEF Waiting
<1>8. source' = source /\ sseSourceRef' = sseSourceRef
  BY DEF handleStreamUpdate
<1>9. Inv'
  <2>1. sseSourceRef' = s /\ s # None /\ view.generating
    BY <1>0, <1>8, EventFacts, StreamFacts
  <2>2. \A r \in Streams : source'[r] = "open" => sseSourceRef' = r
    BY <1>8 DEF Inv, SourceInv
  <2> QED
    BY <1>4, <1>6, <1>7, <2>1, <2>2, QueueStep
<1>10. messages' = Append(front, x)
  BY <1>4, <1>6 DEF Queue
<1> QED
  BY <1>1, <1>3, <1>9, <1>10 DEF Replaces

\* [DONE] and an error settle the message and drop the reference.
LEMMA SettleByEvent ==
    ASSUME TypeOK', Inv, NEW s \in Streams, source[s] = "open",
           source' = [source EXCEPT ![s] = "closed"], sseSourceRef' = None,
           \/ Queue(handleStreamComplete)
           \/ Queue(updateAssistantMessageWithError(messages))
    PROVE  Inv' /\ Replaces
<1>1. PICK front \in Seq(Settled), m \in Pending(s) : messages = Append(front, m)
  BY EventFacts
<1>2. /\ m \in Message /\ m.status \notin {"complete", "error"}
      /\ Complete(m) \in Settled /\ WithError(m) \in Settled
  BY PendingFacts
<1>3. Last(messages) = m
  BY <1>1, <1>2, UpdateWaiting
<1>4. view.generating /\ sseSourceRef = s /\ TypeOK
  BY EventFacts DEF Inv
<1>5. \A r \in Streams : source'[r] # "open"
  <2>1. \A r \in Streams : source[r] = "open" => r = s
    BY <1>4 DEF Inv, SourceInv
  <2> QED
    BY <1>4, <2>1, SourceChange DEF States
<1>6. ASSUME NEW x \in Settled, Queue(updateLastAssistantMessage(messages, x))
      PROVE  Inv' /\ Replaces
  <2>1. x \in Message
    BY SettledType
  <2>2. updateLastAssistantMessage(messages, x) = Append(front, x)
    BY <1>1, <2>1, UpdateWaiting
  <2>3. Append(front, x) \in Seq(Settled)
    BY AppendSettled
  <2>4. Inv'
    BY <1>4, <1>5, <1>6, <2>2, <2>3, QueueStep
  <2>5. messages' = Append(front, x)
    BY <1>6, <2>2 DEF Queue
  <2> QED
    BY <1>1, <2>1, <2>4, <2>5 DEF Replaces
<1>7. handleStreamComplete = updateLastAssistantMessage(messages, Complete(m))
  BY <1>2, <1>3 DEF handleStreamComplete
<1>8. updateAssistantMessageWithError(messages) =
        updateLastAssistantMessage(messages, WithError(m))
  BY <1>3 DEF updateAssistantMessageWithError
<1> QED
  BY <1>2, <1>6, <1>7, <1>8

\* Only the source itself changes.
LEMMA SourceOnly ==
    ASSUME TypeOK', Inv, NEW s \in Streams, source[s] = "open", NEW state \in {"open", "ended"},
           source' = [source EXCEPT ![s] = state],
           UNCHANGED <<messages, view, stored, sseSourceRef, payload>>
    PROVE  Inv' /\ Replaces
<1>1. state \in States /\ TypeOK
  BY DEF States, Inv
<1>2. \A r \in Streams : source'[r] = IF r = s THEN state ELSE source[r]
  BY <1>1, SourceChange
<1>3. SourceInv'
  BY <1>2 DEF Inv, SourceInv
<1>4. MessagesInv' /\ StoredInv' /\ ViewInv' /\ PayloadIsSettled'
  BY DEF Inv, MessagesInv, StoredInv, ViewInv, PayloadIsSettled
<1> QED
  BY <1>3, <1>4 DEF Inv, Replaces

\* An event of a source keeps the invariant and replaces at most the last
\* message.
LEMMA StreamEventKeeps == ASSUME TypeOK', Inv, StreamEvent PROVE Inv' /\ Replaces
<1>1. PICK s \in Streams :
        \/ ReasoningChunk(s) \/ Done(s) \/ EndOfResponse(s)
        \/ ParseError(s) \/ ConnectionError(s)
        \/ \E piece \in Pieces : ContentChunk(s, piece)
  BY DEF StreamEvent
<1>2. CASE ReasoningChunk(s) \/ \E piece \in Pieces : ContentChunk(s, piece)
  BY <1>2, TextFacts, StreamUpdateKeeps DEF ReasoningChunk, ContentChunk
<1>3. CASE Done(s)
  BY <1>3, SettleByEvent DEF Done
<1>4. CASE EndOfResponse(s)
  BY <1>4, SourceOnly DEF EndOfResponse
<1>5. ASSUME NEW after \in {"open", "ended"}, handleError(s, after)
      PROVE  Inv' /\ Replaces
  <2>1. CASE isStreamComplete
    BY <1>5, <2>1, SourceOnly DEF handleError
  <2>2. CASE ~isStreamComplete
    BY <1>5, <2>2, SettleByEvent DEF handleError
  <2> QED
    BY <2>1, <2>2
<1> QED
  BY <1>1, <1>2, <1>3, <1>4, <1>5 DEF ParseError, ConnectionError

\* A render only brings the view up to date.
LEMMA RenderKeeps == ASSUME TypeOK', Inv, Render PROVE Inv'
<1>0. TypeOK /\ MessagesInv /\ SourceInv /\ PayloadIsSettled
  BY DEF Inv
<1>1. /\ view' = [messages |-> messages, generating |-> sseSourceRef # None]
      /\ stored' = messages
      /\ UNCHANGED <<messages, source, sseSourceRef, payload>>
  BY DEF Render
<1>2. view'.messages = messages /\ view'.generating = (sseSourceRef # None)
  BY <1>1
<1>3. StoredInv'
  BY <1>0, <1>1 DEF MessagesInv, StoredInv, TypeOK
<1>4. MessagesInv' /\ SourceInv' /\ PayloadIsSettled'
  BY <1>0, <1>1 DEF MessagesInv, SourceInv, PayloadIsSettled
<1>5. ViewInv'
  BY <1>1, <1>2 DEF ViewInv
<1> QED
  BY <1>3, <1>4, <1>5 DEF Inv

-----------------------------------------------------------------------------
(* What the user does. *)

\* Opening and closing the editor concerns nothing else.
LEMMA EditorKeeps ==
    ASSUME TypeOK', Inv, UNCHANGED <<messages, view, stored, source, sseSourceRef, payload>>
    PROVE  Inv'
  BY DEF Inv, MessagesInv, StoredInv, ViewInv, SourceInv, PayloadIsSettled

\* While no answer is written, the list shown is settled throughout.
LEMMA Quiet ==
    ASSUME Inv, ~view.generating
    PROVE  /\ sseSourceRef = None /\ Shown = messages /\ Shown \in Seq(Settled)
           /\ \A s \in Streams : source[s] # "open"
<1>1. sseSourceRef = None /\ Shown = messages
  BY DEF Inv, ViewInv, Shown
<1> QED
  BY <1>1, StreamFacts DEF Inv, MessagesInv, SourceInv

\* Stop closes the recorded source and settles the last message.
LEMMA StopKeeps == ASSUME TypeOK', Inv, Stop PROVE Inv'
<1>0. TypeOK /\ MessagesInv /\ SourceInv /\ PayloadIsSettled
  BY DEF Inv
<1>1. StoppedMessages \in Seq(Settled)
  <2>1. CASE sseSourceRef = None
    <3>1. messages \in Seq(Settled)
      BY <1>0, <2>1 DEF MessagesInv
    <3>2. CASE messages = <<>>
      BY <3>1, <3>2 DEF StoppedMessages, updateLastAssistantMessage
    <3>3. CASE messages # <<>>
      <4>1. Len(messages) \in 1..Len(messages)
        BY <3>1, <3>3, EmptySeq
      <4>2. Last(messages) \in Settled
        BY <3>1, <4>1, ElementOfSeq DEF Last
      <4>3. Last(messages).status \notin Unfinished
        BY <4>2 DEF Settled, Finished
      <4>4. ReplaceAt(messages, Len(messages), Last(messages)) \in Seq(Settled)
        BY <3>1, <4>1, <4>2, ExceptSeq DEF ReplaceAt
      <4> QED
        BY <3>1, <4>3, <4>4 DEF StoppedMessages, updateLastAssistantMessage
    <3> QED
      BY <3>2, <3>3
  <2>2. ASSUME sseSourceRef # None, NEW front \in Seq(Settled), NEW m \in Pending(sseSourceRef),
               messages = Append(front, m)
        PROVE  StoppedMessages \in Seq(Settled)
    <3>1. Last(messages) = m /\ m.status \in Unfinished /\ Complete(m) \in Settled /\ m \in Message
      BY <2>2, PendingFacts, UpdateWaiting
    <3>2. Complete(m) \in Message
      BY <3>1, SettledType
    <3>3. updateLastAssistantMessage(messages, Complete(m)) = Append(front, Complete(m))
      BY <2>2, <3>2, UpdateWaiting
    <3>4. StoppedMessages = Append(front, Complete(m))
      BY <3>1, <3>3 DEF StoppedMessages
    <3> QED
      BY <3>1, <3>4, AppendSettled
  <2> QED
    BY <1>0, <2>1, <2>2 DEF MessagesInv, Waiting
<1>2. \A s \in Streams : source'[s] # "open"
  <2>1. CASE sseSourceRef = None
    BY <1>0, <2>1, StreamFacts DEF Stop, SourceInv
  <2>2. CASE sseSourceRef # None
    <3>1. sseSourceRef \in Streams /\ source' = [source EXCEPT ![sseSourceRef] = "closed"]
      BY <1>0, <2>2 DEF TypeOK, Stop
    <3>2. \A r \in Streams : source'[r] = IF r = sseSourceRef THEN "closed" ELSE source[r]
      BY <1>0, <3>1, SourceChange DEF States
    <3> QED
      BY <1>0, <3>2 DEF SourceInv
  <2> QED
    BY <2>1, <2>2
<1>3. Show(StoppedMessages, None) /\ PayloadIsSettled'
  BY <1>0 DEF Stop, PayloadIsSettled
<1> QED
  BY <1>1, <1>2, <1>3, ShowStep

\* sanitizeMessagesOnLoad repairs whatever was saved: the last message is the
\* only one that can be stuck.
LEMMA SanitizedIsSettled ==
    ASSUME StoredInv
    PROVE  sanitizeMessagesOnLoad(stored) \in Seq(Settled)
<1> DEFINE Stuck == {i \in DOMAIN stored : /\ stored[i].from = "assistant"
                                           /\ stored[i].status \in Unfinished}
           last == CHOOSE i \in Stuck : \A j \in Stuck : j <= i
           final == finalizeMessage(stored[last])
<1>1. CASE stored \in Seq(Settled)
  <2>1. \A i \in DOMAIN stored : stored[i] \in Settled
    BY <1>1, ElementOfSeq, LenProperties
  <2>2. Stuck = {}
    BY <2>1 DEF Settled, Finished
  <2> QED
    BY <1>1, <2>2 DEF sanitizeMessagesOnLoad
<1>2. ASSUME NEW s \in Streams, NEW front \in Seq(Settled), NEW m \in Pending(s),
             stored = Append(front, m)
      PROVE  sanitizeMessagesOnLoad(stored) \in Seq(Settled)
  <2> DEFINE n == Len(stored)
  <2>1. /\ m \in Message /\ m.writers \subseteq {m.asked} /\ m.status \in Unfinished
        /\ m.from = "assistant" /\ front \in Seq(Message)
    BY PendingFacts, SettledType, SeqMonotonic DEF Pending
  <2>2. /\ stored \in Seq(Message) /\ Last(stored) = m /\ n \in Nat /\ n > 0
        /\ \A i \in DOMAIN stored : i < n => i \in 1..Len(front) /\ stored[i] = front[i]
    <3>1. /\ Last(stored) = m /\ Len(stored) = Len(front) + 1
          /\ \A i \in DOMAIN stored : i < n => i \in 1..Len(front) /\ stored[i] = front[i]
      BY <1>2, <2>1, AppendFacts
    <3>2. stored \in Seq(Message)
      BY <1>2, <2>1, AppendProperties
    <3>3. Len(front) \in Nat
      BY <2>1
    <3> QED
      BY <3>1, <3>2, <3>3
  <2>3. DOMAIN stored = 1..n /\ stored[n] = m
    BY <2>2 DEF Last
  <2> HIDE DEF n
  <2>4. Stuck = {n}
    <3>1. n \in Stuck
      BY <2>1, <2>2, <2>3
    <3>2. ASSUME NEW i \in Stuck, i # n
          PROVE  FALSE
      <4>1. i \in DOMAIN stored /\ i < n
        BY <2>2, <2>3, <3>2
      <4>2. stored[i] \in Settled
        BY <2>2, <4>1, ElementOfSeq
      <4> QED
        BY <4>2 DEF Settled, Finished
    <3> QED
      BY <3>1, <3>2
  <2>5. last = n
    <3> HIDE DEF Stuck
    <3> QED
      BY <2>2, <2>4
  <2>6. final = finalizeMessage(m)
    BY <2>3, <2>5
  <2>7. /\ final \in Message /\ final.writers \subseteq {final.asked}
        /\ [final EXCEPT !.status = "complete"] \in Settled
    <3> HIDE DEF final
    <3>1. finalizeMessage(m) \in Message
      BY <2>1, FinalFacts
    <3>2. /\ finalizeMessage(m).writers = m.writers /\ finalizeMessage(m).asked = m.asked
      BY <2>1, FinalFacts
    <3>3. [finalizeMessage(m) EXCEPT !.status = "complete"] \in Settled
      BY <2>1, FinalIsSettled
    <3> QED
      BY <2>1, <2>6, <3>1, <3>2, <3>3, Zenon
  <2> DEFINE x == IF final.content # <<>> \/ final.reasoning # <<>>
                  THEN [final EXCEPT !.status = "complete"]
                  ELSE WithError(final)
  <2>8. x \in Settled
    BY <2>7, FinalIsSettled
  <2>9. sanitizeMessagesOnLoad(stored) = ReplaceAt(stored, last, x)
    BY <2>4 DEF sanitizeMessagesOnLoad
  <2> HIDE DEF x, last
  <2>10. ReplaceAt(stored, n, x) = Append(front, x)
    <3>1. x \in Message
      BY <2>8, SettledType
    <3> QED
      BY <1>2, <2>1, <3>1, AppendFacts DEF n
  <2> QED
    BY <2>5, <2>8, <2>9, <2>10, AppendSettled
<1> QED
  BY <1>1, <1>2 DEF StoredInv, Waiting

\* A reload forgets the source and settles what was left waiting.
LEMMA LoadKeeps == ASSUME TypeOK', Inv, Load PROVE Inv'
<1>0. StoredInv /\ PayloadIsSettled
  BY DEF Inv
<1>1. Show(sanitizeMessagesOnLoad(stored), None)
  BY DEF Load
<1>2. sanitizeMessagesOnLoad(stored) \in Seq(Settled)
  BY <1>0, SanitizedIsSettled
<1>3. \A s \in Streams : source'[s] # "open"
  BY DEF Load
<1>4. PayloadIsSettled'
  BY <1>0 DEF Load, PayloadIsSettled
<1> QED
  BY <1>1, <1>2, <1>3, <1>4, ShowStep

\* The message created for an answer waits for it and has no content to send.
LEMMA LoadingIsPending ==
    ASSUME NEW key \in Nat, NEW s \in Streams
    PROVE  LET m == createLoadingAssistantMessage(key, s) IN
           m \in Pending(s) /\ ~isValidMessage(m)
<1> DEFINE m == createLoadingAssistantMessage(key, s)
<1>1. /\ m \in Message /\ m.status = "loading" /\ m.from = "assistant"
      /\ m.asked = s /\ m.writers = {} /\ m.content = <<>>
  BY LoadingFacts
<1> HIDE DEF m
<1>2. m \in Pending(s)
  BY <1>1 DEF Pending, Finished, Unfinished
<1>3. ~isValidMessage(m)
  BY <1>1 DEF isValidMessage
<1> QED
  BY <1>2, <1>3 DEF m

\* A request sent while everything is settled: the new message waits for it,
\* and what it carries is settled, because an empty message is not sent.
LEMMA SendKeeps ==
    ASSUME TypeOK', Inv, ~view.generating, NEW s \in Streams, NEW base \in Seq(Settled),
           NEW key \in Nat, NEW m, m = createLoadingAssistantMessage(key, s),
           sendChat(s, Append(base, m))
    PROVE  Inv'
<1> DEFINE list == Append(base, m)
<1>0. TypeOK /\ PayloadIsSettled
  BY DEF Inv
<1>1. m \in Pending(s) /\ ~isValidMessage(m) /\ m \in Message
  BY LoadingIsPending, SettledType
<1>2. base \in Seq(Message)
  BY SettledType, SeqMonotonic
<1>3. /\ list \in Seq(Message) /\ Last(list) = m /\ Len(list) = Len(base) + 1
      /\ \A i \in DOMAIN list : i < Len(list) => i \in 1..Len(base) /\ list[i] = base[i]
      /\ DOMAIN list = 1..Len(list) /\ Len(base) \in Nat
  BY <1>1, <1>2, AppendFacts, AppendProperties, LenProperties
<1>4. ASSUME NEW i \in DOMAIN list, isValidMessage(list[i])
      PROVE  list[i].status \in Status \ Unfinished
  <2>1. i # Len(list)
    BY <1>1, <1>3, <1>4 DEF Last
  <2>2. list[i] \in Settled
    BY <1>3, <2>1, ElementOfSeq
  <2> QED
    BY <2>2, MessageField, SettledType DEF Settled, Finished
<1>5. Waiting(list, s)
  BY <1>1 DEF Waiting
<1>6. updateAssistantMessageWithError(list) \in Seq(Settled)
  <2>1. WithError(m) \in Settled /\ WithError(m) \in Message
    BY <1>1, PendingFacts, SettledType
  <2>2. updateAssistantMessageWithError(list) = Append(base, WithError(m))
    BY <1>1, <1>3, <2>1, UpdateWaiting DEF updateAssistantMessageWithError
  <2> QED
    BY <2>1, <2>2, AppendSettled
<1> HIDE DEF list
<1>7. sendChat(s, list)
  BY DEF list
<1> DEFINE carried == {list[i].status : i \in {j \in DOMAIN list : isValidMessage(list[j])}}
<1>8. carried \cap Unfinished = {}
  BY <1>4
<1>9. payload' = [payload EXCEPT ![s] = carried]
  BY <1>7 DEF sendChat
<1> HIDE DEF carried
<1>10. PayloadIsSettled'
  BY <1>0, <1>8, <1>9 DEF TypeOK, PayloadIsSettled
<1>11. \A r \in Streams : source[r] # "open"
  BY Quiet
<1>12. CASE source' = [source EXCEPT ![s] = "open"] /\ Show(list, s)
  <2>1. \A r \in Streams : source'[r] = IF r = s THEN "open" ELSE source[r]
    BY <1>0, <1>12, SourceChange DEF States
  <2>2. \A r \in Streams : source'[r] = "open" => s = r
    BY <1>11, <2>1
  <2>3. s # None
    BY StreamFacts
  <2> QED
    BY <1>5, <1>10, <1>12, <2>2, <2>3, ShowStep
<1>13. CASE /\ source' = [source EXCEPT ![s] = "closed"]
            /\ Show(updateAssistantMessageWithError(list), None)
  <2>1. \A r \in Streams : source'[r] = IF r = s THEN "closed" ELSE source[r]
    BY <1>0, <1>13, SourceChange DEF States
  <2>2. \A r \in Streams : source'[r] = "open" => None = r
    BY <1>11, <2>1
  <2> QED
    BY <1>6, <1>10, <1>13, <2>2, ShowStep
<1> QED
  BY <1>7, <1>12, <1>13 DEF sendChat

\* Sending appends a settled question and the message that waits.
LEMMA HandleSendKeeps ==
    ASSUME TypeOK', Inv, ~view.generating, NEW text \in Seq(Token), handleSendMessage(text)
    PROVE  Inv'
<1>0. nextKey \in Nat /\ nextKey + 1 \in Nat
  BY DEF Inv, TypeOK
<1>1. Shown \in Seq(Settled)
  BY Quiet
<1>2. ASSUME NEW s \in Streams,
             sendChat(s, Shown \o <<createUserMessage(text),
                                    createLoadingAssistantMessage(nextKey + 1, s)>>)
      PROVE  Inv'
  <2> DEFINE u == createUserMessage(text)
             m == createLoadingAssistantMessage(nextKey + 1, s)
             base == Append(Shown, u)
  <2>1. u \in Message /\ u.status = "none" /\ u.writers = {}
    BY <1>0, UserFacts
  <2>2. m \in Message
    BY <1>0, LoadingFacts
  <2>3. Shown \in Seq(Message)
    BY <1>1, SettledType, SeqMonotonic
  <2>4. sendChat(s, Shown \o <<u, m>>)
    BY <1>2
  <2>5. m = createLoadingAssistantMessage(nextKey + 1, s)
    OBVIOUS
  <2> HIDE DEF u, m
  <2>6. u \in Settled
    BY <2>1 DEF Settled, Finished, Unfinished
  <2>7. Shown \o <<u, m>> = Append(base, m)
    BY <2>1, <2>2, <2>3
  <2>8. base \in Seq(Settled)
    BY <1>1, <2>6, AppendSettled
  <2> HIDE DEF base
  <2> QED
    BY <1>0, <2>4, <2>5, <2>7, <2>8, SendKeeps
<1> QED
  BY <1>2 DEF handleSendMessage

\* A part of a settled list is settled.
LEMMA SettledSlice ==
    ASSUME NEW list \in Seq(Settled), NEW a \in Nat \ {0}, NEW b \in Int, b <= Len(list)
    PROVE  SubSeq(list, a, b) \in Seq(Settled)
<1>1. \A i \in a..b : list[i] \in Settled
  BY ElementOfSeq
<1> QED
  BY <1>1, SubSeqProperties

\* Regenerating cuts the list at a settled message and sends it.
LEMMA RegenerateKeeps == ASSUME TypeOK', Inv, NEW i \in DOMAIN Shown, Regenerate(i) PROVE Inv'
<1>0. nextKey \in Nat /\ ~view.generating
  BY DEF Inv, TypeOK, Regenerate, HasActions
<1>1. Shown \in Seq(Settled) /\ i \in 1..Len(Shown) /\ Len(Shown) \in Nat
  BY <1>0, Quiet, LenProperties
<1>2. SubSeq(Shown, 1, i - 1) \in Seq(Settled)
  BY <1>1, SettledSlice
<1> QED
  BY <1>0, <1>2, SendKeeps DEF Regenerate

\* applyEdit leaves a settled list settled, and one that waits waiting.
LEMMA EditedKeeps ==
    ASSUME NEW i \in DOMAIN Shown, NEW text \in Seq(Token)
    PROVE  /\ Shown \in Seq(Settled) =>
                Edited(i, text) \in Seq(Settled) /\ Len(Edited(i, text)) = Len(Shown)
           /\ \A s : Waiting(Shown, s) => Waiting(Edited(i, text), s)
<1> DEFINE x == Edited(i, text)[i]
           m == Shown[i]
<1>1. ASSUME Shown \in Seq(Message)
      PROVE  /\ i \in 1..Len(Shown) /\ m \in Message /\ x \in Message
             /\ Edited(i, text) = [Shown EXCEPT ![i] = x]
             /\ x.status = m.status /\ x.from = m.from
             /\ x.writers = m.writers /\ x.asked = m.asked
  BY <1>1, EditedFacts
<1>2. ASSUME Shown \in Seq(Message)
      PROVE  /\ m \in Settled => x \in Settled
             /\ \A s : m \in Pending(s) => x \in Pending(s)
  <2> HIDE DEF x, m
  <2> QED
    BY <1>1, <1>2 DEF Settled, Pending, Finished
<1>3. ASSUME Shown \in Seq(Settled)
      PROVE  Edited(i, text) \in Seq(Settled) /\ Len(Edited(i, text)) = Len(Shown)
  <2>1. Shown \in Seq(Message)
    BY <1>3, SettledType, SeqMonotonic
  <2>2. m \in Settled
    BY <1>1, <1>3, <2>1, ElementOfSeq
  <2>3. /\ x \in Settled /\ i \in 1..Len(Shown)
        /\ Edited(i, text) = [Shown EXCEPT ![i] = x]
    BY <1>1, <1>2, <2>1, <2>2
  <2> HIDE DEF x
  <2> QED
    BY <1>3, <2>3, ExceptSeq
<1>4. ASSUME NEW s, NEW front \in Seq(Settled), NEW p \in Pending(s), Shown = Append(front, p)
      PROVE  Waiting(Edited(i, text), s)
  <2>1. front \in Seq(Message) /\ p \in Message /\ Len(front) \in Nat
    BY SettledType, SeqMonotonic
  <2>2. /\ Shown \in Seq(Message) /\ Len(Shown) = Len(front) + 1
        /\ Shown[Len(Shown)] = p
        /\ \A j \in DOMAIN Shown : j < Len(Shown) => j \in 1..Len(front) /\ Shown[j] = front[j]
    BY <1>4, <2>1, AppendFacts, AppendProperties DEF Last
  <2>3. /\ i \in 1..Len(Shown) /\ x \in Message
        /\ Edited(i, text) = [Shown EXCEPT ![i] = x]
    BY <1>1, <2>2
  <2>4. CASE i = Len(Shown)
    <3>1. x \in Pending(s)
      BY <1>2, <2>2, <2>4
    <3>2. Edited(i, text) = Append(front, x)
      <4> HIDE DEF x
      <4> QED
        BY <1>4, <2>1, <2>3, <2>4, AppendFacts DEF ReplaceAt
    <3> HIDE DEF x
    <3> QED
      BY <3>1, <3>2 DEF Waiting
  <2>5. CASE i # Len(Shown)
    <3> DEFINE new == [front EXCEPT ![i] = x]
    <3>1. i \in 1..Len(front) /\ m = front[i]
      BY <2>2, <2>3, <2>5
    <3>2. x \in Settled
      BY <1>2, <2>2, <3>1, ElementOfSeq
    <3> HIDE DEF x
    <3>3. /\ new \in Seq(Settled) /\ Len(new) = Len(front)
          /\ \A j \in 1..Len(front) : new[j] = IF j = i THEN x ELSE front[j]
      BY <3>1, <3>2, ExceptSeq
    <3> HIDE DEF new
    <3>4. new \in Seq(Message)
      BY <3>3, SettledType, SeqMonotonic
    <3> DEFINE list == Append(new, p)
               edited == [Shown EXCEPT ![i] = x]
    <3>5. /\ list \in Seq(Message) /\ Len(list) = Len(new) + 1
          /\ \A j \in 1..Len(new) : list[j] = new[j]
          /\ list[Len(new) + 1] = p
      BY <2>1, <3>4, AppendProperties
    <3>6. /\ edited \in Seq(Message) /\ Len(edited) = Len(Shown)
          /\ \A j \in 1..Len(Shown) : edited[j] = IF j = i THEN x ELSE Shown[j]
      BY <2>2, <2>3, ExceptSeq
    <3> HIDE DEF list, edited
    <3>7. ASSUME NEW j \in 1..Len(edited) PROVE edited[j] = list[j]
      <4>1. j \in 1..Len(Shown) /\ j \in 1..(Len(front) + 1) /\ Len(front) \in Nat
        BY <2>1, <2>2, <3>6
      <4>2. CASE j = Len(Shown)
        BY <2>1, <2>2, <2>5, <3>3, <3>5, <3>6, <4>1, <4>2
      <4>3. CASE j # Len(Shown)
        <5>1. j \in 1..Len(front) /\ j \in DOMAIN Shown /\ j < Len(Shown)
          BY <2>2, <4>1, <4>3
        <5>2. Shown[j] = front[j]
          BY <2>2, <5>1
        <5>3. edited[j] = IF j = i THEN x ELSE front[j]
          BY <3>6, <4>1, <5>2
        <5>4. list[j] = new[j]
          BY <3>3, <3>5, <5>1
        <5> QED
          BY <3>3, <5>1, <5>3, <5>4
      <4> QED
        BY <4>2, <4>3
    <3>8. edited = list
      BY <2>2, <3>3, <3>5, <3>6, <3>7, SeqEqual
    <3>9. Edited(i, text) = Append(new, p)
      BY <2>3, <3>8 DEF edited, list
    <3> QED
      BY <3>3, <3>9 DEF Waiting
  <2> QED
    BY <2>4, <2>5
<1> QED
  BY <1>3, <1>4 DEF Waiting

\* Saving an edit over the list as it is replaces a settled message by another
\* one, or gives the message that waits a new content.
LEMMA SaveEditKeeps ==
    ASSUME TypeOK', Inv, NEW i \in DOMAIN Shown, NEW text \in Seq(Token), SaveEdit(i, text),
           ~overlapped'
    PROVE  Inv'
<1>0. /\ MessagesInv /\ SourceInv /\ PayloadIsSettled /\ messages = Shown
      /\ Show(Edited(i, text), sseSourceRef) /\ source' = source /\ payload' = payload
  BY DEF Inv, SaveEdit
<1>1. IF sseSourceRef = None THEN Edited(i, text) \in Seq(Settled)
                             ELSE Waiting(Edited(i, text), sseSourceRef)
  BY <1>0, EditedKeeps DEF MessagesInv
<1>2. (\A s \in Streams : source'[s] = "open" => sseSourceRef = s) /\ PayloadIsSettled'
  BY <1>0 DEF SourceInv, PayloadIsSettled
<1> QED
  BY <1>0, <1>1, <1>2, ShowStep

\* Submitting an edit cuts the list behind the edited message and sends it.
LEMMA SubmitEditKeeps ==
    ASSUME TypeOK', Inv, NEW i \in DOMAIN Shown, NEW text \in Seq(Token), SubmitEdit(i, text),
           ~overlapped'
    PROVE  Inv'
<1>0. nextKey \in Nat /\ ~view.generating
  BY DEF Inv, TypeOK, SubmitEdit
<1>1. Shown \in Seq(Settled)
  BY <1>0, Quiet
<1>2. /\ Edited(i, text) \in Seq(Settled) /\ Len(Edited(i, text)) = Len(Shown)
      /\ i \in 1..Len(Shown)
  BY <1>1, EditedKeeps, LenProperties
<1>3. SubSeq(Edited(i, text), 1, i) \in Seq(Settled)
  <2>1. i \in Int /\ i <= Len(Edited(i, text)) /\ 1 \in Nat \ {0}
    BY <1>2
  <2> QED
    BY <1>2, <2>1, SettledSlice
<1> QED
  BY <1>0, <1>3, SendKeeps DEF SubmitEdit

\* Deleting removes a settled message.
LEMMA DeleteKeeps == ASSUME TypeOK', Inv, NEW i \in DOMAIN Shown, Delete(i) PROVE Inv'
<1>0. PayloadIsSettled /\ ~view.generating
  BY DEF Inv, Delete, HasActions
<1>1. sseSourceRef = None /\ Shown \in Seq(Settled) /\ \A s \in Streams : source[s] # "open"
  BY <1>0, Quiet
<1>2. i \in 1..Len(Shown) /\ Len(Shown) \in Nat
  BY <1>1, LenProperties
<1>3. RemoveAt(Shown, i) \in Seq(Settled)
  <2>1. SubSeq(Shown, 1, i - 1) \in Seq(Settled)
    BY <1>1, <1>2, SettledSlice
  <2>2. SubSeq(Shown, i + 1, Len(Shown)) \in Seq(Settled)
    BY <1>1, <1>2, SettledSlice
  <2> QED
    BY <2>1, <2>2, ConcatProperties DEF RemoveAt
<1>4. Show(RemoveAt(Shown, i), None) /\ source' = source /\ PayloadIsSettled'
  BY <1>0, <1>1 DEF Delete, PayloadIsSettled
<1> QED
  BY <1>1, <1>3, <1>4, ShowStep

-----------------------------------------------------------------------------
\* A fresh page satisfies the invariant.
LEMMA InitInv == Init => Inv
<1> SUFFICES ASSUME Init PROVE Inv
  OBVIOUS
<1>1. messages = <<>> /\ stored = <<>> /\ view.messages = <<>> /\ view.generating = FALSE
  BY DEF Init
<1>2. <<>> \in Seq(Settled)
  BY EmptySeq
<1>3. MessagesInv /\ StoredInv /\ ViewInv /\ SourceInv /\ PayloadIsSettled
  BY <1>1, <1>2 DEF Init, MessagesInv, StoredInv, ViewInv, SourceInv, PayloadIsSettled
<1> QED
  BY <1>3, InitType DEF Inv

\* Every step that does not make two requests overlap keeps the invariant.
LEMMA StepInv == Inv /\ ~overlapped' /\ [Next]_vars => Inv'
<1> SUFFICES ASSUME Inv, ~overlapped', [Next]_vars PROVE Inv'
  OBVIOUS
<1>0. TypeOK'
  BY StepType DEF Inv
<1>1. CASE UNCHANGED vars
  BY <1>0, <1>1, EditorKeeps DEF vars
<1>2. ASSUME NEW text \in Typed, Send(text) PROVE Inv'
  <2>1. text \in Seq(Token)
    BY TextFacts
  <2> QED
    BY <1>0, <1>2, <2>1, HandleSendKeeps DEF Send
<1>3. CASE Suggest
  BY <1>0, <1>3, TextFacts, HandleSendKeeps DEF Suggest
<1>4. CASE Stop \/ Load \/ Render \/ StreamEvent
  BY <1>0, <1>4, StopKeeps, LoadKeeps, RenderKeeps, StreamEventKeeps
<1>5. CASE CancelEdit
  BY <1>0, <1>5, EditorKeeps DEF CancelEdit
<1>6. ASSUME NEW i \in DOMAIN Shown, Edit(i) PROVE Inv'
  BY <1>0, <1>6, EditorKeeps DEF Edit
<1>7. ASSUME NEW i \in DOMAIN Shown, Regenerate(i) \/ Delete(i) PROVE Inv'
  BY <1>0, <1>7, RegenerateKeeps, DeleteKeeps
<1>8. ASSUME NEW i \in DOMAIN Shown, NEW text \in Typed, SaveEdit(i, text) \/ SubmitEdit(i, text)
      PROVE  Inv'
  <2>1. text \in Seq(Token)
    BY TextFacts
  <2> QED
    BY <1>0, <1>8, <2>1, SaveEditKeeps, SubmitEditKeeps
<1> QED
  BY <1>1, <1>2, <1>3, <1>4, <1>5, <1>6, <1>7, <1>8 DEF Next

\* Once two requests have overlapped, they have.
LEMMA OverlapStays == overlapped /\ [Next]_vars => overlapped'
<1> SUFFICES ASSUME overlapped, [Next]_vars PROVE overlapped'
  OBVIOUS
<1>1. CASE UNCHANGED overlapped
  BY <1>1
<1>2. ASSUME NEW i, NEW text,
             \/ Send(text) \/ Suggest \/ Stop \/ CancelEdit \/ Load \/ Render
             \/ Regenerate(i) \/ Edit(i) \/ Delete(i) \/ SaveEdit(i, text) \/ SubmitEdit(i, text)
      PROVE  overlapped'
  BY <1>1, <1>2 DEF Send, Suggest, Stop, CancelEdit, Load, Render, Regenerate, Edit, Delete,
                    SaveEdit, SubmitEdit
<1>3. CASE StreamEvent
  BY <1>1, <1>3 DEF StreamEvent, ReasoningChunk, ContentChunk, handleStreamUpdate, Done,
                    EndOfResponse, ParseError, ConnectionError, handleError, Queue
<1>4. CASE UNCHANGED vars
  BY <1>1, <1>4 DEF vars
<1> QED
  BY <1>2, <1>3, <1>4 DEF Next

\* The inductive invariant holds as long as no request was sent, and no edit
\* saved over updates not yet rendered, while an answer was written.
THEOREM Invariance == Spec => [](~overlapped => Inv)
<1>1. (~overlapped => Inv) /\ [Next]_vars => (~overlapped => Inv)'
  BY StepInv, OverlapStays
<1> QED
  BY <1>1, InitInv, PTL DEF Spec

\* isGenerating tells the truth: until two requests overlap, a source is
\* recorded exactly while the last message, and no other, waits for its answer.
THEOREM NoStuckMessage == Spec => []GenerationMatches
<1>1. (~overlapped => Inv) => GenerationMatches
  <2> SUFFICES ASSUME Inv PROVE GenerationMatches
    BY DEF GenerationMatches
  <2>1. CASE sseSourceRef = None
    <3>1. messages \in Seq(Settled)
      BY <2>1 DEF Inv, MessagesInv
    <3>2. \A i \in DOMAIN messages : Finished(messages[i])
      BY <3>1, ElementOfSeq, LenProperties DEF Settled
    <3>3. messages # <<>> => Len(messages) \in DOMAIN messages
      BY <3>1, EmptySeq, LenProperties
    <3> QED
      BY <2>1, <3>2, <3>3 DEF GenerationMatches, Last
  <2>2. ASSUME sseSourceRef # None, NEW front \in Seq(Settled), NEW m \in Pending(sseSourceRef),
               messages = Append(front, m)
        PROVE  GenerationMatches
    <3>1. front \in Seq(Message) /\ m \in Message /\ ~Finished(m)
      BY SettledType, SeqMonotonic DEF Pending
    <3>2. /\ messages # <<>> /\ Last(messages) = m
          /\ \A i \in DOMAIN messages :
               i < Len(messages) => i \in 1..Len(front) /\ messages[i] = front[i]
      BY <2>2, <3>1, AppendFacts
    <3>3. \A i \in 1..Len(front) : Finished(front[i])
      BY ElementOfSeq DEF Settled
    <3> QED
      BY <2>2, <3>1, <3>2, <3>3 DEF GenerationMatches
  <2> QED
    BY <2>1, <2>2 DEF Inv, MessagesInv, Waiting
<1> QED
  BY <1>1, Invariance, PTL

\* Whatever holds of settled and of waiting messages holds of every message.
LEMMA EveryMessage ==
    ASSUME Inv, NEW i \in DOMAIN messages
    PROVE  messages[i] \in Settled \/ messages[i] \in Pending(sseSourceRef)
<1>1. CASE sseSourceRef = None
  <2>1. messages \in Seq(Settled)
    BY <1>1 DEF Inv, MessagesInv
  <2> QED
    BY <2>1, ElementOfSeq, LenProperties
<1>2. ASSUME sseSourceRef # None, NEW front \in Seq(Settled), NEW m \in Pending(sseSourceRef),
             messages = Append(front, m)
      PROVE  messages[i] \in Settled \/ messages[i] \in Pending(sseSourceRef)
  <2>1. front \in Seq(Message) /\ m \in Message
    BY SettledType, SeqMonotonic
  <2>2. /\ Last(messages) = m
        /\ i < Len(messages) => i \in 1..Len(front) /\ messages[i] = front[i]
    BY <1>2, <2>1, AppendFacts
  <2>3. messages \in Seq(Message)
    BY <1>2, <2>1, AppendProperties
  <2>4. i < Len(messages) \/ i = Len(messages)
    BY <2>3, LenProperties
  <2> QED
    BY <2>2, <2>4, ElementOfSeq DEF Last
<1> QED
  BY <1>1, <1>2 DEF Inv, MessagesInv, Waiting

\* Until two requests overlap a piece is written into the message it was asked
\* for, although the updaters only look for the last one.
THEOREM AnswersAreOwn == Spec => []OwnAnswers
<1>1. (~overlapped => Inv) => OwnAnswers
  BY EveryMessage DEF OwnAnswers, Settled, Pending
<1> QED
  BY <1>1, Invariance, PTL

\* Until two requests overlap no request carries a half-written answer, although
\* isValidMessage only looks for empty content.
THEOREM PayloadSettled == Spec => []PayloadSettledAlone
<1>1. (~overlapped => Inv) => PayloadSettledAlone
  BY DEF Inv, PayloadSettledAlone
<1> QED
  BY <1>1, Invariance, PTL

\* Until two requests overlap a stream's events leave finished messages alone: handleStreamUpdate,
\* handleStreamComplete and handleError only ever meet one that waits.
THEOREM FinishedStays == Spec => FinishedIsFinal
<1> DEFINE Leaves == \A i \in DOMAIN messages :
             Finished(messages[i]) => i \in DOMAIN messages' /\ messages'[i] = messages[i]
<1>1. ASSUME TypeOK', Inv, StreamEvent
      PROVE  Leaves
  <2>1. Replaces
    BY <1>1, StreamEventKeeps
  <2>2. ASSUME NEW s \in Streams, NEW front \in Seq(Settled), NEW m \in Pending(s),
               NEW x \in Message, messages = Append(front, m), messages' = Append(front, x)
        PROVE  Leaves
    <3>1. front \in Seq(Message) /\ m \in Message /\ ~Finished(m)
      BY SettledType, SeqMonotonic DEF Pending
    <3>2. /\ messages[Len(messages)] = m
          /\ \A i \in DOMAIN messages :
               i < Len(messages) => i \in 1..Len(front) /\ messages[i] = front[i]
      BY <2>2, <3>1, AppendFacts DEF Last
    <3>3. messages \in Seq(Message)
      BY <2>2, <3>1, AppendProperties
    <3>4. /\ messages' \in Seq(Message) /\ Len(messages') = Len(front) + 1
          /\ \A i \in 1..Len(front) : messages'[i] = front[i]
      BY <2>2, <3>1, AppendProperties
    <3>5. ASSUME NEW i \in DOMAIN messages, Finished(messages[i])
          PROVE  i \in DOMAIN messages' /\ messages'[i] = messages[i]
      <4>1. i < Len(messages)
        BY <3>1, <3>2, <3>3, <3>5, LenProperties
      <4>2. i \in 1..Len(front) /\ messages[i] = front[i]
        BY <3>2, <4>1
      <4>3. DOMAIN messages' = 1..Len(messages') /\ Len(front) \in Nat
        BY <3>4, LenProperties
      <4> QED
        BY <3>4, <4>2, <4>3
    <3> QED
      BY <3>5
  <2>3. CASE messages' = messages
    BY <2>3
  <2> QED
    BY <2>1, <2>2, <2>3 DEF Replaces
<1>2. TypeOK /\ (~overlapped => Inv) /\ [Next]_vars => [StreamEvent /\ ~overlapped => Leaves]_vars
  BY <1>1, StepType
<1>3. Spec => []TypeOK /\ [](~overlapped => Inv)
  BY TypeCorrect, Invariance, PTL
<1>4. Spec => [][StreamEvent /\ ~overlapped => Leaves]_vars
  BY <1>2, <1>3, PTL DEF Spec
<1> QED
  BY <1>4 DEF FinishedIsFinal
=============================================================================
