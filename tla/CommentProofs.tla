--------------------------- MODULE CommentProofs ---------------------------
(***************************************************************************)
(* The comments shown with a declaration are those next to it, for any     *)
(* texts and headers (DescribedByAdjacent).                                *)
(*                                                                         *)
(* A state machine keeps lines and indices, which are compared when a      *)
(* comment is looked up.  The invariant says where in a text they belong   *)
(* (CommentsInv): a token is behind the token before it in its line        *)
(* (Spoken), a comment that is output behind the token of its index with   *)
(* nothing between it and its back attachment line (Said), and so are the  *)
(* comments that wait and the place that is read (TopHolds).  What was     *)
(* read is known from InclusionInv.                                        *)
(***************************************************************************)
EXTENDS InclusionProofs

-----------------------------------------------------------------------------
(* The comments, and the tokens around them.                                *)

\* Nothing but comments from a place of a line to another.
NoWord(line, i, j) == \A s \in DOMAIN line : i <= s /\ s <= j => line[s] = "//"

\* A line whose words are output.
IsPlain(T, l) == ~IsDirectiveLine(T[l]) /\ ~IsSwallowed(T, l)
IsPlace(T, l, q) == l \in 1 .. Len(T) /\ q \in 1 .. Len(T[l])
IsBehind(l, q, x, y) == l < x \/ (l = x /\ q < y)

\* The token of an index is the word of a place.
IsOutputAt(out, n, file, l, r) ==
    n \in 1 .. Len(out) /\ out[n].file = file /\ out[n].line = l - 1 /\ out[n].column = r - 1

\* The last word before a place in its line is the token of an index.
Follows(out, n, file, T, l, q) ==
    \A r \in DOMAIN T[l] :
        r < q /\ T[l][r] # "//" /\ NoWord(T[l], r + 1, q - 1) => IsOutputAt(out, n, file, l, r)

\* Nothing but comments behind a place and up to another.
Clear(T, l, q, k, s) ==
    /\ l <= k
    /\ \A x \in 1 .. Len(T) : \A y \in DOMAIN T[x] :
           IsBehind(l, q, x, y) /\ ~IsBehind(k, s, x, y) => T[x][y] = "//"

\* A token has a word behind it in its line.
HasMore(list, out, n) ==
    /\ n \in 1 .. Len(out)
    /\ LET line == list[out[n].file].text[out[n].line + 1]
       IN  \E x \in DOMAIN line : out[n].column + 1 < x /\ line[x] # "//"

\* Tokens are words of lines that are output, each behind the one before it in its line.
Spoken(list, out, k, t, T) ==
    /\ t.file \in 1 .. Len(list) /\ T = list[t.file].text
    /\ IsPlace(T, t.line + 1, t.column + 1) /\ T[t.line + 1][t.column + 1] # "//"
    /\ IsPlain(T, t.line + 1) /\ t.expanded[1] = t.line
    /\ Follows(out, k - 1, t.file, T, t.line + 1, t.column + 1)
AllSpoken(list, out, len) == \A k \in 1 .. len : Spoken(list, out, k, out[k], list[out[k].file].text)

\* A comment behind the token of index n; front is the line of what is before it.
Stands(list, out, n, c, front, T) ==
    /\ c.file \in 1 .. Len(list) /\ T = list[c.file].text
    /\ IsPlace(T, c.line + 1, c.column + 1) /\ T[c.line + 1][c.column + 1] = "//"
    /\ IsPlain(T, c.line + 1) => Follows(out, n, c.file, T, c.line + 1, c.column + 1)
    /\ front # c.line => NoWord(T[c.line + 1], 1, c.column)
    /\ HasMore(list, out, n) => c.file = out[n].file /\ c.line = out[n].line /\ c.column > out[n].column

\* A comment that is output: nothing separates it from the line of what is behind it.
Said(list, out, c, T) ==
    /\ Stands(list, out, c.nextTokenIndex, c, c.frontAttachmentLine, T)
    /\ Clear(T, c.line + 1, c.column + 1, c.backAttachmentLine + 1, 0)
AllSaid(list, out, said, len) ==
    /\ \A i \in 1 .. Len(said) : said[i].nextTokenIndex \in 0 .. len /\ Said(list, out, said[i], list[said[i].file].text)
    /\ \A i \in 1 .. Len(said) - 1 : said[i].nextTokenIndex <= said[i + 1].nextTokenIndex

\* The line of the last word that was read is kept.
Attaches(m, T) ==
    ~m.ended /\ m.state # "Inactive" => NoWord(T[m.line + 1], 1, m.column) \/ m.attachmentLine = m.line
\* A state machine that waits for a header has read the word that ends the directive.
AllWait(st) == \A j \in 1 .. Len(st) - 1 : st[j].pending = <<>> /\ st[j].attachmentLine = st[j].line

\* The comments that wait stand behind the last token.
Waits(list, out, m, T) ==
    /\ m.pending # <<>> => m.state # "Inactive"
    /\ \A i \in 1 .. Len(m.pending) :
           /\ m.pending[i].file = m.file
           /\ Stands(list, out, Len(out), m.pending[i], m.attachmentLine, T)
           /\ Clear(T, m.pending[i].line + 1, m.pending[i].column + 1, m.line + 1, m.column)

\* The last word that was read in a line that is output is the last token.
Keeps(out, m, T) ==
    m.state = "Default" /\ ~m.ended /\ IsPlain(T, m.line + 1)
        => Follows(out, Len(out), m.file, T, m.line + 1, m.column + 1)

\* A line is read to its end, once a word of it is output.
Pursues(list, out, m, T) ==
    HasMore(list, out, Len(out)) =>
        /\ ~m.ended /\ m.state = "Default" /\ m.file = out[Len(out)].file /\ m.line = out[Len(out)].line
        /\ out[Len(out)].column + 1 <= m.column /\ NoWord(T[m.line + 1], out[Len(out)].column + 2, m.column)

TopHolds(list, out, m, T) ==
    Attaches(m, T) /\ Waits(list, out, m, T) /\ Keeps(out, m, T) /\ Pursues(list, out, m, T)

\* Every comment and every token is where its indices and lines say.
CommentsInv ==
    /\ stack # <<>> =>
           /\ AllSpoken(entries, tokens, Len(tokens)) /\ AllSaid(entries, tokens, comments, Len(tokens))
           /\ AllWait(stack) /\ TopHolds(entries, tokens, Top, Text(Top))
    /\ Ended =>
           /\ Len(tokens) \in Nat /\ Len(tokens) > 0 /\ \A k \in 1 .. Len(tokens) - 1 : tokens[k] \in OutToken
           /\ AllSpoken(entries, tokens, Len(tokens) - 1) /\ AllSaid(entries, tokens, comments, Len(tokens) - 1)

-----------------------------------------------------------------------------
(* Places of a text.                                                        *)

\* A line that has a word before a place has a last one.
LEMMA LastWord ==
  ASSUME NEW line \in Seq(Word), NEW q \in Nat, NEW r \in 1 .. Len(line), r < q, line[r] # "//"
  PROVE  \E s \in 1 .. Len(line) : r <= s /\ s < q /\ line[s] # "//" /\ NoWord(line, s + 1, q - 1)
  <1> DEFINE n == Len(line)
             S == {s \in 1 .. n : r <= s /\ s < q /\ line[s] # "//"}
  <1>1. n \in Nat /\ DOMAIN line = 1 .. n /\ r \in 1 .. n
    BY LenProperties
  <1>2. r \in S /\ S \in SUBSET (1 .. n)
    BY <1>1
  <1>3. \A s \in S : s \in 1 .. n /\ r <= s /\ s < q /\ line[s] # "//"
    OBVIOUS
  <1>4. \A s \in 1 .. n : r <= s /\ s < q /\ line[s] # "//" => s \in S
    OBVIOUS
  <1> HIDE DEF S, n
  <1> DEFINE m == Max(S)
  <1>5. m \in S /\ \A k \in S : k <= m
    BY <1>1, <1>2, MaxIsGreatest
  <1>6. m \in 1 .. n /\ r <= m /\ m < q /\ line[m] # "//"
    BY <1>3, <1>5
  <1> HIDE DEF m
  <1>7. NoWord(line, m + 1, q - 1)
    <2> SUFFICES ASSUME NEW s \in 1 .. n, m + 1 <= s, s <= q - 1, line[s] # "//" PROVE FALSE
      BY <1>1 DEF NoWord
    <2>1. s \in Nat /\ r <= s /\ s < q /\ ~(s <= m)
      BY <1>1, <1>6
    <2>2. s \in S
      BY <1>4, <2>1
    <2> QED BY <1>5, <2>1, <2>2
  <1> QED BY <1>6, <1>7 DEF n

\* The place of the next token, and that nothing is before it.
NextPlace(m, T, t, l, n) ==
    /\ t \in Token /\ t.file = m.file
    /\ Len(T) \in Nat /\ l \in 1 .. Len(T) /\ n \in l .. Len(T) /\ l \in Nat /\ n \in Nat /\ n \in 1 .. Len(T)
    /\ m.line = l - 1 /\ t.line = n - 1 /\ m.column \in Nat /\ t.column \in Nat
    /\ \A x \in 1 .. Len(T) : T[x] \in Seq(Word) /\ Len(T[x]) \in Nat /\ DOMAIN T[x] = 1 .. Len(T[x])
    /\ ~IsEof(t) => /\ t.column + 1 \in 1 .. Len(T[n]) /\ T[n][t.column + 1] = t.text
                    /\ t.first <=> t.column = 0
                    /\ IF n = l THEN t.column = m.column ELSE t.column = 0
    /\ \A x \in 1 .. Len(T) : \A y \in DOMAIN T[x] :
           IsBehind(l, m.column, x, y) => ~IsEof(t) /\ ~IsBehind(x, y, n, t.column + 1)

\* The token that is lexed is the next.
LEMMA LexPlace ==
  ASSUME NEW m \in Machine, NEW T \in FileTexts, T = Text(m), IsWithin(m, T), NEW t, t = Lex(m),
         NEW l, l = m.line + 1, NEW n, n = t.line + 1
  PROVE  NextPlace(m, T, t, l, n)
  <1> DEFINE c == m.column
             q == t.column
  <1>1. /\ t \in Token /\ t.file = m.file
        /\ l \in 1 .. Len(T) /\ c \in 0 .. Len(T[l]) /\ Len(T) \in Nat /\ Len(T[l]) \in Nat
        /\ IF IsEof(t)
           THEN /\ t.first /\ n = Len(T) /\ c = Len(T[l])
                /\ \A k \in l + 1 .. Len(T) : T[k] = <<>>
           ELSE /\ n \in l .. Len(T) /\ Len(T[n]) \in Nat /\ q \in 0 .. Len(T[n]) - 1 /\ t.text = T[n][q + 1]
                /\ T[n] # <<>>
                /\ t.first <=> q = 0
                /\ \A k \in l + 1 .. n - 1 : T[k] = <<>>
                /\ \/ n = l /\ q = c
                   \/ n > l /\ q = 0 /\ c = Len(T[l])
    <2> HIDE DEF c, q
    <2>1. IsNext(m, T, t, l, c, n, q)
      BY LexNext DEF c, q
    <2> QED BY <2>1 DEF IsNext
  <1>2. \A x \in 1 .. Len(T) : T[x] \in Seq(Word) /\ Len(T[x]) \in Nat /\ DOMAIN T[x] = 1 .. Len(T[x])
    <2>1. \A x \in 1 .. Len(T) : T[x] \in Seq(Word) /\ Len(T[x]) \in Nat
      BY TextTyped
    <2> QED BY <2>1, LenProperties
  <1>3. m.line \in Nat /\ c \in Nat /\ t.line \in Nat /\ q \in Nat
    BY <1>1 DEF Machine, Token
  <1>4. l \in Nat /\ n \in Nat /\ n \in l .. Len(T) /\ n \in 1 .. Len(T) /\ m.line = l - 1 /\ t.line = n - 1
    <2> DEFINE x == m.line
               y == t.line
    <2>1. x \in Nat /\ y \in Nat /\ l = x + 1 /\ n = y + 1
      BY <1>3
    <2>2. n \in l .. Len(T) /\ l \in 1 .. Len(T) /\ Len(T) \in Nat
      BY <1>1
    <2> HIDE DEF x, y
    <2>3. l \in Nat /\ n \in Nat /\ x = l - 1 /\ y = n - 1 /\ n \in 1 .. Len(T)
      BY <2>1, <2>2
    <2> QED BY <2>2, <2>3 DEF x, y
  <1>5. Len(<<>>) = 0
    OBVIOUS
  <1> HIDE DEF c, q
  <1>6. ASSUME NEW x \in 1 .. Len(T), NEW y \in DOMAIN T[x], IsBehind(l, c, x, y) PROVE ~IsEof(t) /\ ~IsBehind(x, y, n, q + 1)
    <2>1. y \in 1 .. Len(T[x]) /\ Len(T[x]) \in Nat /\ T[x] # <<>>
      BY <1>2, <1>5
    <2>2. l < x \/ (l = x /\ c < y)
      BY <1>6 DEF IsBehind
    <2>3. CASE IsEof(t)
      BY <1>1, <1>4, <2>1, <2>2, <2>3
    <2>4. CASE ~IsEof(t)
      <3>1. /\ q \in 0 .. Len(T[n]) - 1 /\ \A k \in l + 1 .. n - 1 : T[k] = <<>>
            /\ (n = l /\ q = c) \/ (n > l /\ q = 0 /\ c = Len(T[l]))
        BY <1>1, <2>4
      <3>2. ~(x < n)
        <4>1. ASSUME x < n PROVE FALSE
          <5>1. x = l \/ x \in l + 1 .. n - 1
            BY <1>4, <2>2, <4>1
          <5>2. CASE x = l
            <6>1. c = Len(T[l]) /\ c < y /\ y \in 1 .. Len(T[l])
              BY <1>4, <2>1, <2>2, <3>1, <4>1, <5>2
            <6> QED BY <1>3, <2>1, <5>2, <6>1
          <5>3. CASE x \in l + 1 .. n - 1
            BY <2>1, <3>1, <5>3
          <5> QED BY <5>1, <5>2, <5>3
        <4> QED BY <4>1
      <3>3. x = n => ~(y < q + 1)
        BY <1>3, <1>4, <2>1, <2>2, <3>1
      <3> QED BY <2>4, <3>2, <3>3 DEF IsBehind
    <2> QED BY <2>3, <2>4
  <1>7. ASSUME ~IsEof(t)
        PROVE  /\ q + 1 \in 1 .. Len(T[n]) /\ T[n][q + 1] = t.text /\ (t.first <=> q = 0)
               /\ IF n = l THEN q = c ELSE q = 0
    BY <1>1, <1>4, <1>7
  <1> QED BY <1>1, <1>2, <1>3, <1>4, <1>6, <1>7 DEF NextPlace, c, q

\* Nothing but comments up to the next token, and up to a next comment.
LEMMA ClearOn ==
  ASSUME NEW m, NEW T, NEW t, NEW l, NEW n, NextPlace(m, T, t, l, n), NEW a \in Nat, NEW b \in Nat,
         Clear(T, a, b, l, m.column)
  PROVE  Clear(T, a, b, n, 0) /\ (IsComment(t) => Clear(T, a, b, n, t.column + 1))
  <1> DEFINE c == m.column
             q == t.column
  <1>1. /\ l \in Nat /\ n \in Nat /\ c \in Nat /\ q \in Nat /\ l <= n /\ Len(T) \in Nat
        /\ \A x \in 1 .. Len(T) : DOMAIN T[x] = 1 .. Len(T[x]) /\ Len(T[x]) \in Nat
        /\ \A x \in 1 .. Len(T) : \A y \in DOMAIN T[x] :
               IsBehind(l, c, x, y) => ~IsEof(t) /\ ~IsBehind(x, y, n, q + 1)
        /\ ~IsEof(t) => T[n][q + 1] = t.text
    BY DEF NextPlace
  <1>2. a <= l /\ \A x \in 1 .. Len(T) : \A y \in DOMAIN T[x] : IsBehind(a, b, x, y) /\ ~IsBehind(l, c, x, y) => T[x][y] = "//"
    BY DEF Clear
  <1> HIDE DEF c, q
  <1>3. a <= n
    BY <1>1, <1>2
  <1>4. ASSUME NEW x \in 1 .. Len(T), NEW y \in DOMAIN T[x], IsBehind(a, b, x, y), ~IsBehind(n, 0, x, y) PROVE T[x][y] = "//"
    <2>1. x \in Nat /\ y \in Nat /\ y > 0 /\ x < n
      BY <1>1, <1>4 DEF IsBehind
    <2>2. ~IsBehind(l, c, x, y)
      BY <1>1, <2>1 DEF IsBehind
    <2> QED BY <1>2, <1>4, <2>2
  <1>5. ASSUME IsComment(t), NEW x \in 1 .. Len(T), NEW y \in DOMAIN T[x], IsBehind(a, b, x, y), ~IsBehind(n, q + 1, x, y) PROVE T[x][y] = "//"
    <2>1. x \in Nat /\ y \in Nat
      BY <1>1
    <2>2. CASE IsBehind(l, c, x, y)
      <3>1. x = n /\ y = q + 1
        BY <1>1, <1>5, <2>1, <2>2 DEF IsBehind
      <3> QED BY <1>1, <1>5, <3>1 DEF IsComment, IsEof
    <2>3. CASE ~IsBehind(l, c, x, y)
      BY <1>2, <1>5, <2>3
    <2> QED BY <2>2, <2>3
  <1> QED BY <1>3, <1>4, <1>5 DEF Clear, q

\* What has been said of an index stays when more is output and opened.
LEMMA FollowsOn ==
  ASSUME NEW out, NEW outs, Grows(out, outs), Len(out) \in Nat, Len(outs) \in Nat, NEW n, NEW file, NEW T, NEW l, NEW q,
         Follows(out, n, file, T, l, q)
  PROVE  Follows(outs, n, file, T, l, q)
  <1>1. \A k \in 1 .. Len(out) : k \in 1 .. Len(outs) /\ outs[k] = out[k]
    BY DEF Grows
  <1>2. \A r : IsOutputAt(out, n, file, l, r) => IsOutputAt(outs, n, file, l, r)
    BY <1>1 DEF IsOutputAt
  <1> QED BY <1>2 DEF Follows

LEMMA HasMoreOn ==
  ASSUME NEW list, NEW new, Grows(list, new), NEW out, NEW outs, Grows(out, outs), Len(out) \in Nat, Len(outs) \in Nat,
         NEW n \in 0 .. Len(out), n > 0 => out[n].file \in 1 .. Len(list)
  PROVE  HasMore(new, outs, n) <=> HasMore(list, out, n)
  <1>1. CASE n = 0
    BY <1>1 DEF HasMore
  <1>2. CASE n # 0
    <2>1. n \in 1 .. Len(out) /\ n \in 1 .. Len(outs) /\ outs[n] = out[n] /\ new[out[n].file] = list[out[n].file]
      BY <1>2 DEF Grows
    <2> QED BY <2>1 DEF HasMore
  <1> QED BY <1>1, <1>2

\* The tokens are words of files that are open.
LEMMA SpokenOfFiles ==
  ASSUME NEW list, NEW out, NEW len \in Nat, AllSpoken(list, out, len), NEW n \in 0 .. len
  PROVE  n > 0 => out[n].file \in 1 .. Len(list)
  <1>1. \A k \in 1 .. len : out[k].file \in 1 .. Len(list)
    BY DEF AllSpoken, Spoken
  <1> QED BY <1>1

LEMMA AllSpokenOn ==
  ASSUME NEW list, NEW new, Grows(list, new), Len(list) \in Nat, Len(new) \in Nat,
         NEW out, NEW outs, Grows(out, outs), Len(out) \in Nat, Len(outs) \in Nat,
         NEW len \in 0 .. Len(out), AllSpoken(list, out, len)
  PROVE  AllSpoken(new, outs, len)
  <1> SUFFICES ASSUME NEW k \in 1 .. len PROVE Spoken(new, outs, k, outs[k], new[outs[k].file].text)
    BY DEF AllSpoken
  <1> DEFINE t == out[k]
             T == list[t.file].text
  <1>1. Spoken(list, out, k, t, T)
    BY DEF AllSpoken
  <1>2. outs[k] = t
    BY DEF Grows
  <1>3. t.file \in 1 .. Len(list)
    BY <1>1 DEF Spoken
  <1>4. new[t.file] = list[t.file] /\ t.file \in 1 .. Len(new)
    <2> HIDE DEF t
    <2> QED BY <1>3 DEF Grows
  <1>5. Follows(outs, k - 1, t.file, T, t.line + 1, t.column + 1)
    <2>1. Follows(out, k - 1, t.file, T, t.line + 1, t.column + 1)
      BY <1>1 DEF Spoken
    <2> HIDE DEF t, T
    <2> QED BY <2>1, FollowsOn
  <1> HIDE DEF t
  <1> QED BY <1>1, <1>2, <1>4, <1>5 DEF Spoken

LEMMA StandsOn ==
  ASSUME NEW list, NEW new, Grows(list, new), Len(list) \in Nat, Len(new) \in Nat,
         NEW out, NEW outs, Grows(out, outs), Len(out) \in Nat, Len(outs) \in Nat,
         NEW n \in 0 .. Len(out), n > 0 => out[n].file \in 1 .. Len(list),
         NEW c, NEW front, NEW T, Stands(list, out, n, c, front, T)
  PROVE  Stands(new, outs, n, c, front, T) /\ T = new[c.file].text
  <1>1. c.file \in 1 .. Len(list) /\ T = list[c.file].text
    BY DEF Stands
  <1>2. c.file \in 1 .. Len(new) /\ T = new[c.file].text
    <2> DEFINE f == c.file
    <2>1. f \in 1 .. Len(list) /\ T = list[f].text
      BY <1>1
    <2> HIDE DEF f
    <2>2. f \in 1 .. Len(new) /\ T = new[f].text
      BY <2>1 DEF Grows
    <2> QED BY <2>2 DEF f
  <1>3. HasMore(new, outs, n) => HasMore(list, out, n) /\ outs[n] = out[n]
    <2>1. HasMore(new, outs, n) <=> HasMore(list, out, n)
      BY HasMoreOn
    <2>2. HasMore(list, out, n) => n \in 1 .. Len(out)
      BY DEF HasMore
    <2> QED BY <2>1, <2>2 DEF Grows
  <1>4. IsPlain(T, c.line + 1) => Follows(outs, n, c.file, T, c.line + 1, c.column + 1)
    <2>1. IsPlain(T, c.line + 1) => Follows(out, n, c.file, T, c.line + 1, c.column + 1)
      BY DEF Stands
    <2> QED BY <2>1, FollowsOn
  <1> QED BY <1>2, <1>3, <1>4 DEF Stands

LEMMA AllSaidOn ==
  ASSUME NEW list, NEW new, Grows(list, new), Len(list) \in Nat, Len(new) \in Nat,
         NEW out, NEW outs, Grows(out, outs), Len(out) \in Nat, Len(outs) \in Nat,
         NEW len, len = Len(out), AllSpoken(list, out, len), NEW more \in Nat, len <= more,
         NEW said, AllSaid(list, out, said, len)
  PROVE  AllSaid(new, outs, said, more)
  <1> SUFFICES ASSUME NEW i \in 1 .. Len(said)
               PROVE  said[i].nextTokenIndex \in 0 .. more /\ Said(new, outs, said[i], new[said[i].file].text)
    BY DEF AllSaid
  <1> DEFINE c == said[i]
             n == c.nextTokenIndex
             T == list[c.file].text
  <1>1. n \in 0 .. len /\ Said(list, out, c, T)
    BY DEF AllSaid
  <1>2. n > 0 => out[n].file \in 1 .. Len(list)
    <2> HIDE DEF n
    <2> QED BY <1>1, SpokenOfFiles
  <1>3. Stands(list, out, n, c, c.frontAttachmentLine, T) /\ Clear(T, c.line + 1, c.column + 1, c.backAttachmentLine + 1, 0)
    BY <1>1 DEF Said
  <1>4. Stands(new, outs, n, c, c.frontAttachmentLine, T) /\ T = new[c.file].text
    <2> HIDE DEF n, c, T
    <2> QED BY <1>1, <1>2, <1>3, StandsOn
  <1>5. n \in 0 .. more
    <2> HIDE DEF n
    <2> QED BY <1>1
  <1> QED BY <1>3, <1>4, <1>5 DEF Said

-----------------------------------------------------------------------------
(* A state machine reads on, and the comments that wait.                    *)

\* A comment is where it is, whatever else is known of it.
LEMMA StandsAlike ==
  ASSUME NEW list, NEW out, NEW n, NEW c, NEW front, NEW T, Stands(list, out, n, c, front, T),
         NEW e, e.file = c.file, e.line = c.line, e.column = c.column
  PROVE  Stands(list, out, n, e, front, T)
BY DEF Stands

\* The comments that wait are output before the next word.
Outputs(out, m, t, said, new, a, p) ==
    /\ a = Len(said) /\ p = Len(m.pending) /\ a \in Nat /\ p \in Nat /\ Len(new) = a + p
    /\ \A k \in 1 .. a : new[k] = said[k]
    /\ \A k \in 1 .. p : /\ new[a + k].file = m.pending[k].file
                          /\ new[a + k].line = m.pending[k].line /\ new[a + k].column = m.pending[k].column
                          /\ new[a + k].frontAttachmentLine = m.attachmentLine
                          /\ new[a + k].backAttachmentLine = t.line
                          /\ new[a + k].nextTokenIndex = Len(out)

LEMMA FlushedSaid ==
  ASSUME NEW list, NEW out, Len(out) \in Nat, NEW m \in Machine, NEW T, Waits(list, out, m, T), T = list[m.file].text,
         NEW t, NEW l, NEW n, NextPlace(m, T, t, l, n),
         NEW said, AllSaid(list, out, said, Len(out)), NEW new, NEW a, NEW p, Outputs(out, m, t, said, new, a, p)
  PROVE  AllSaid(list, out, new, Len(out))
  <1>0. /\ a = Len(said) /\ p = Len(m.pending) /\ a \in Nat /\ p \in Nat /\ Len(new) = a + p
        /\ \A k \in 1 .. a : new[k] = said[k]
        /\ \A k \in 1 .. p : /\ new[a + k].file = m.pending[k].file
                              /\ new[a + k].line = m.pending[k].line /\ new[a + k].column = m.pending[k].column
                              /\ new[a + k].frontAttachmentLine = m.attachmentLine
                              /\ new[a + k].backAttachmentLine = t.line
                              /\ new[a + k].nextTokenIndex = Len(out)
    BY DEF Outputs
  <1>1. l = m.line + 1 /\ n = t.line + 1 /\ n \in Nat /\ m.line \in Nat /\ t.line \in Nat
    <2>1. m.line \in Nat /\ m.line = l - 1 /\ t.line = n - 1 /\ l \in Nat /\ n \in Nat
      BY DEF NextPlace, Machine
    <2>2. t.line \in Nat
      BY DEF NextPlace, Token
    <2> QED BY <2>1, <2>2
  <1>2. ASSUME NEW k \in 1 .. p
        PROVE  /\ m.pending[k].file = m.file
               /\ Stands(list, out, Len(out), m.pending[k], m.attachmentLine, T)
               /\ m.pending[k].line \in Nat /\ m.pending[k].column \in Nat
               /\ Clear(T, m.pending[k].line + 1, m.pending[k].column + 1, n, 0)
    <2> DEFINE e == m.pending[k]
    <2>1. /\ e.file = m.file /\ Stands(list, out, Len(out), e, m.attachmentLine, T)
          /\ Clear(T, e.line + 1, e.column + 1, l, m.column)
      BY <1>0, <1>1 DEF Waits
    <2>2. e.line \in Nat /\ e.column \in Nat
      <3>1. m.pending \in Seq(Token)
        BY DEF Machine
      <3>2. e \in Token
        <4> HIDE DEF Token
        <4> QED BY <1>0, <3>1, ElementOfSeq
      <3> QED BY <3>2 DEF Token
    <2> DEFINE x == e.line + 1
               y == e.column + 1
    <2>5. x \in Nat /\ y \in Nat
      BY <2>2
    <2>3. Clear(T, x, y, l, m.column)
      BY <2>1
    <2> HIDE DEF x, y
    <2>4. Clear(T, x, y, n, 0)
      BY <2>3, <2>5, ClearOn
    <2> QED BY <2>1, <2>2, <2>4 DEF x, y
  <1>3. ASSUME NEW k \in 1 .. p
        PROVE  /\ new[a + k].nextTokenIndex = Len(out)
               /\ Said(list, out, new[a + k], list[new[a + k].file].text)
    <2> DEFINE c == new[a + k]
               e == m.pending[k]
    <2>1. /\ c.file = e.file /\ c.line = e.line /\ c.column = e.column
          /\ c.frontAttachmentLine = m.attachmentLine /\ c.backAttachmentLine = t.line /\ c.nextTokenIndex = Len(out)
      BY <1>0
    <2>2. e.file = m.file /\ Stands(list, out, Len(out), e, m.attachmentLine, T) /\ Clear(T, e.line + 1, e.column + 1, n, 0)
      BY <1>2
    <2> HIDE DEF c, e
    <2>3. Stands(list, out, c.nextTokenIndex, c, c.frontAttachmentLine, T)
      BY <2>1, <2>2, StandsAlike
    <2>4. Clear(T, c.line + 1, c.column + 1, c.backAttachmentLine + 1, 0)
      BY <1>1, <2>1, <2>2
    <2>5. list[c.file].text = T
      BY <2>1, <2>2
    <2> QED BY <2>1, <2>3, <2>4, <2>5 DEF Said, c
  <1>4. ASSUME NEW i \in 1 .. a
        PROVE  new[i].nextTokenIndex \in 0 .. Len(out) /\ Said(list, out, new[i], list[new[i].file].text)
    BY <1>0 DEF AllSaid
  <1>5. ASSUME NEW i \in 1 .. a + p, i \notin 1 .. a
        PROVE  new[i].nextTokenIndex = Len(out) /\ Said(list, out, new[i], list[new[i].file].text)
    <2> DEFINE k == i - a
    <2>1. k \in 1 .. p /\ a + k = i
      BY <1>0, <1>5
    <2> HIDE DEF k
    <2> QED BY <1>3, <2>1
  <1>6. ASSUME NEW i \in 1 .. a + p - 1 PROVE new[i].nextTokenIndex <= new[i + 1].nextTokenIndex
    <2>1. CASE i + 1 \in 1 .. a
      <3>1. i \in 1 .. Len(said) - 1 /\ new[i] = said[i] /\ new[i + 1] = said[i + 1]
        BY <1>0, <1>6, <2>1
      <3> QED BY <3>1 DEF AllSaid
    <2>2. CASE i + 1 \notin 1 .. a
      <3>1. i + 1 \in 1 .. a + p
        BY <1>0, <1>6
      <3>2. new[i + 1].nextTokenIndex = Len(out)
        BY <1>5, <2>2, <3>1
      <3>3. new[i].nextTokenIndex \in 0 .. Len(out)
        <4>1. i \in 1 .. a + p
          BY <1>0, <1>6
        <4> QED BY <1>4, <1>5, <4>1
      <3> QED BY <3>2, <3>3
    <2> QED BY <2>1, <2>2
  <1>7. ASSUME NEW i \in 1 .. a + p
        PROVE  new[i].nextTokenIndex \in 0 .. Len(out) /\ Said(list, out, new[i], list[new[i].file].text)
    BY <1>4, <1>5
  <1> QED BY <1>0, <1>6, <1>7 DEF AllSaid

\* The next token is in the line of a token, with nothing but comments between them.
Joins(m, T, t, l, n, last) ==
    /\ n = l /\ t.column = m.column /\ last.column + 1 <= m.column /\ ~IsEof(t) /\ ~t.first /\ m.state = "Default"
    /\ m.file = last.file /\ m.line = last.line /\ t.line = m.line
    /\ NoWord(T[l], last.column + 2, m.column)

\* The word behind a token that is output is the next to be read.
LEMMA MoreIsNext ==
  ASSUME NEW list, NEW out, NEW m \in Machine, NEW T, T = list[m.file].text, Pursues(list, out, m, T), HasMore(list, out, Len(out)),
         Len(out) \in Nat, out[Len(out)].column \in Nat,
         NEW t, NEW l \in Nat, NEW n \in Nat, NextPlace(m, T, t, l, n)
  PROVE  Joins(m, T, t, l, n, out[Len(out)])
  <1> DEFINE b == out[Len(out)].column
  <1>0. b \in Nat
    OBVIOUS
  <1>1. /\ l \in Nat /\ n \in l .. Len(T) /\ Len(T) \in Nat /\ l \in 1 .. Len(T) /\ m.line = l - 1 /\ t.line = n - 1
        /\ m.column \in Nat /\ t.column \in Nat /\ DOMAIN T[l] = 1 .. Len(T[l]) /\ Len(T[l]) \in Nat
        /\ ~IsEof(t) => /\ (t.first <=> t.column = 0)
                        /\ IF n = l THEN t.column = m.column ELSE t.column = 0
        /\ \A y \in DOMAIN T[l] : IsBehind(l, m.column, l, y) => ~IsEof(t) /\ ~IsBehind(l, y, n, t.column + 1)
    BY DEF NextPlace
  <1>2. /\ m.state = "Default" /\ m.file = out[Len(out)].file /\ m.line = out[Len(out)].line
        /\ b + 1 <= m.column /\ NoWord(T[m.line + 1], b + 2, m.column)
    BY DEF Pursues
  <1> HIDE DEF b
  <1>3. m.line + 1 = l
    BY <1>1
  <1>4. PICK x \in DOMAIN T[l] : b + 1 < x /\ T[l][x] # "//"
    <2>1. T = list[out[Len(out)].file].text /\ out[Len(out)].line + 1 = l
      BY <1>2, <1>3
    <2> QED BY <2>1 DEF HasMore, b
  <1>5. ~(x <= m.column)
    <2>1. ASSUME x <= m.column PROVE FALSE
      <3>1. b + 2 <= x
        <4>1. x \in 1 .. Len(T[l]) /\ Len(T[l]) \in Nat
          BY <1>1, <1>4
        <4>2. x \in Nat /\ b + 1 < x /\ b \in Nat
          BY <1>0, <1>4, <4>1
        <4> QED BY <4>2
      <3> QED BY <1>2, <1>3, <1>4, <2>1, <3>1 DEF NoWord
    <2> QED BY <2>1
  <1>6. IsBehind(l, m.column, l, x)
    BY <1>1, <1>5 DEF IsBehind
  <1>7. ~IsEof(t) /\ ~IsBehind(l, x, n, t.column + 1)
    BY <1>1, <1>6
  <1>8. n = l
    BY <1>1, <1>7 DEF IsBehind
  <1>9. t.column = m.column /\ t.line = m.line
    BY <1>1, <1>7, <1>8
  <1>10. ~t.first
    <2> DEFINE q == t.column
    <2>1. q \in Nat /\ b \in Nat /\ b + 1 <= q /\ (t.first <=> q = 0)
      BY <1>0, <1>1, <1>2, <1>7, <1>9
    <2> HIDE DEF q
    <2>2. q # 0
      BY <2>1
    <2> QED BY <2>1, <2>2
  <1> QED BY <1>2, <1>3, <1>7, <1>8, <1>9, <1>10 DEF b, Joins

\* What is known of a machine before a word or a comment is read.
LEMMA ReadPlain ==
  ASSUME NEW m \in Machine, NEW path, NEW T \in FileTexts, NEW headers, NEW items, Reads(m, path, T, headers, items), ~m.ended
  PROVE  /\ IsWithin(m, T)
         /\ IsPlain(T, m.line + 1) => m.state \in {"Default", "Inactive"}
         /\ m.state = "Default" /\ m.column > 0 => IsPlain(T, m.line + 1)
  <1>1. IsWithin(m, T)
    BY DEF Reads, AtText, AtInactive, AtDirective
  <1>2. CASE AtText(m, path, T, headers, items)
    <2>1. m.state = "Default" /\ ~IsSwallowed(T, m.line + 1) /\ (m.column = 0 \/ ~IsDirectiveLine(T[m.line + 1])) /\ m.column \in Nat
      BY <1>2 DEF AtText, Machine
    <2> QED BY <1>1, <2>1 DEF IsPlain
  <1>3. CASE AtInactive(m, path, T, headers, items)
    BY <1>1, <1>3 DEF AtInactive
  <1>4. CASE \E d \in 1 .. Len(T) : AtDirective(m, path, T, headers, items, d)
    <2> DEFINE l == m.line + 1
    <2>1. PICK d \in 1 .. Len(T) : AtDirective(m, path, T, headers, items, d)
      BY <1>4
    <2>2. m.state # "Default" /\ d <= l /\ IsDirectiveLine(T[d]) /\ Extends(T, d, l)
      BY <2>1 DEF AtDirective
    <2>3. l \in 1 .. Len(T) /\ Len(T) \in Nat
      BY <1>1, TextTyped DEF IsWithin
    <2> HIDE DEF l
    <2>4. ~IsPlain(T, l)
      <3>1. CASE d = l
        BY <2>2, <3>1 DEF IsPlain
      <3>2. CASE d # l
        <4>1. d \in 1 .. l - 1
          BY <2>2, <2>3, <3>2
        <4> QED BY <2>2, <4>1 DEF IsPlain, IsSwallowed
      <3> QED BY <3>1, <3>2
    <2> QED BY <1>1, <2>2, <2>4 DEF l
  <1> QED BY <1>2, <1>3, <1>4 DEF Reads

\* The last word before a next comment is the last token.
LEMMA FollowsNext ==
  ASSUME NEW out, NEW m, NEW T, NEW t, NEW l, NEW n, NextPlace(m, T, t, l, n), Keeps(out, m, T), ~m.ended, ~IsEof(t),
         IsPlain(T, n), m.state = "Default" \/ t.first
  PROVE  Follows(out, Len(out), m.file, T, n, t.column + 1)
  <1>1. /\ m.line + 1 = l /\ n \in 1 .. Len(T) /\ m.column \in Nat
        /\ DOMAIN T[n] = 1 .. Len(T[n])
        /\ (t.first <=> t.column = 0) /\ (IF n = l THEN t.column = m.column ELSE t.column = 0)
    BY DEF NextPlace
  <1>2. CASE t.column = 0
    <2>1. \A r \in DOMAIN T[n] : ~(r < 0 + 1)
      BY <1>1
    <2> QED BY <1>2, <2>1 DEF Follows
  <1>3. CASE t.column # 0
    <2>1. n = l /\ t.column = m.column /\ m.state = "Default"
      BY <1>1, <1>3
    <2>2. IsPlain(T, m.line + 1)
      BY <1>1, <2>1
    <2>3. Follows(out, Len(out), m.file, T, m.line + 1, m.column + 1)
      BY <2>1, <2>2 DEF Keeps
    <2> QED BY <1>1, <2>1, <2>3
  <1> QED BY <1>2, <1>3

\* A comment is read.
LEMMA CommentHolds ==
  ASSUME NEW list, NEW out, Len(out) \in Nat, NEW m \in Machine, NEW T, m.file \in 1 .. Len(list), T = list[m.file].text,
         TopHolds(list, out, m, T), HasMore(list, out, Len(out)) => out[Len(out)].column \in Nat,
         NEW t, NEW l, NEW n, NextPlace(m, T, t, l, n), IsComment(t), ~m.ended, m.state # "Inactive",
         IsPlain(T, l) => m.state = "Default",
         NEW g, g.file = m.file, g.line = t.line, g.column = t.column + 1, g.state = m.state, ~g.ended,
         g.attachmentLine = m.attachmentLine, g.pending = Append(m.pending, t)
  PROVE  TopHolds(list, out, g, T)
  <1>1. /\ l \in Nat /\ n \in l .. Len(T) /\ n \in 1 .. Len(T) /\ Len(T) \in Nat /\ m.line + 1 = l /\ t.line + 1 = n
        /\ m.column \in Nat /\ t.column \in Nat /\ t.file = m.file /\ t \in Token
        /\ DOMAIN T[n] = 1 .. Len(T[n]) /\ Len(T[n]) \in Nat /\ DOMAIN T[l] = 1 .. Len(T[l]) /\ Len(T[l]) \in Nat
        /\ \A x \in 1 .. Len(T) : DOMAIN T[x] = 1 .. Len(T[x])
        /\ t.column + 1 \in 1 .. Len(T[n]) /\ T[n][t.column + 1] = "//"
        /\ (t.first <=> t.column = 0) /\ (IF n = l THEN t.column = m.column ELSE t.column = 0)
    <2>1. ~IsEof(t) /\ t.text = "//"
      BY DEF IsComment, IsEof
    <2>2. /\ l \in Nat /\ n \in l .. Len(T) /\ n \in 1 .. Len(T) /\ n \in Nat /\ l \in 1 .. Len(T) /\ Len(T) \in Nat
          /\ m.line = l - 1 /\ t.line = n - 1
          /\ m.column \in Nat /\ t.column \in Nat /\ t.file = m.file /\ t \in Token
          /\ \A x \in 1 .. Len(T) : DOMAIN T[x] = 1 .. Len(T[x]) /\ Len(T[x]) \in Nat
          /\ t.column + 1 \in 1 .. Len(T[n]) /\ T[n][t.column + 1] = "//"
          /\ (t.first <=> t.column = 0) /\ (IF n = l THEN t.column = m.column ELSE t.column = 0)
      BY <2>1 DEF NextPlace
    <2>3. m.line + 1 = l /\ t.line + 1 = n
      BY <2>2
    <2> QED BY <2>2, <2>3
  <1>2. Attaches(m, T) /\ Waits(list, out, m, T) /\ Keeps(out, m, T) /\ Pursues(list, out, m, T)
    BY DEF TopHolds
  <1> DEFINE q == t.column
             c == m.column
  <1>3. q \in Nat /\ c \in Nat /\ q + 1 \in 1 .. Len(T[n]) /\ T[n][q + 1] = "//" /\ (IF n = l THEN q = c ELSE q = 0)
    BY <1>1
  <1>4. NoWord(T[n], 1, q) \/ m.attachmentLine = t.line
    <2>1. CASE n = l
      <3>1. NoWord(T[l], 1, c) \/ m.attachmentLine = m.line
        BY <1>1, <1>2 DEF Attaches
      <3>2. m.line = t.line
        <4>1. m.line \in Nat /\ t.line \in Nat
          BY <1>1 DEF Machine, Token
        <4> DEFINE x == m.line
                   y == t.line
        <4>2. x \in Nat /\ y \in Nat /\ x + 1 = y + 1
          BY <1>1, <2>1, <4>1
        <4> HIDE DEF x, y
        <4>3. x = y
          BY <4>2
        <4> QED BY <4>3 DEF x, y
      <3> QED BY <1>3, <2>1, <3>1, <3>2
    <2>2. CASE n # l
      <3>1. q = 0
        BY <1>3, <2>2
      <3>2. \A s \in DOMAIN T[n] : ~(1 <= s /\ s <= 0)
        BY <1>1
      <3> QED BY <3>1, <3>2 DEF NoWord
    <2> QED BY <2>1, <2>2
  <1> HIDE DEF q, c
  <1>5. NoWord(T[n], 1, q) => NoWord(T[n], 1, q + 1)
    <2>1. \A s \in DOMAIN T[n] : s <= q + 1 => s <= q \/ s = q + 1
      BY <1>1, <1>3
    <2> QED BY <1>3, <2>1 DEF NoWord
  <1>6. IsPlain(T, n) => Follows(out, Len(out), m.file, T, n, q + 1)
    <2>1. ~IsEof(t)
      BY DEF IsComment, IsEof
    <2>2. n # l => t.first
      BY <1>1
    <2> QED BY <1>2, <2>1, <2>2, FollowsNext DEF q
  <1>7. Attaches(g, T)
    <2>1. g.line + 1 = n /\ g.column = q + 1
      BY <1>1 DEF q
    <2>2. NoWord(T[n], 1, q + 1) \/ g.attachmentLine = g.line
      BY <1>4, <1>5
    <2> QED BY <2>1, <2>2 DEF Attaches
  <1>8. HasMore(list, out, Len(out)) =>
            LET b == out[Len(out)].column
            IN  /\ n = l /\ q = c /\ b \in Nat /\ b + 1 <= c /\ m.state = "Default" /\ m.file = out[Len(out)].file
                /\ t.line = out[Len(out)].line /\ NoWord(T[n], b + 2, c)
    <2> SUFFICES ASSUME HasMore(list, out, Len(out))
                 PROVE  LET b == out[Len(out)].column
                        IN  /\ n = l /\ q = c /\ b \in Nat /\ b + 1 <= c /\ m.state = "Default" /\ m.file = out[Len(out)].file
                            /\ t.line = out[Len(out)].line /\ NoWord(T[n], b + 2, c)
      OBVIOUS
    <2>1. HasMore(list, out, Len(out)) /\ Pursues(list, out, m, T) /\ NextPlace(m, T, t, l, n) /\ out[Len(out)].column \in Nat
          /\ l \in Nat /\ n \in Nat
      BY <1>1, <1>2
    <2>2. /\ n = l /\ t.column = m.column /\ out[Len(out)].column + 1 <= m.column /\ m.state = "Default"
          /\ m.file = out[Len(out)].file /\ m.line = out[Len(out)].line /\ t.line = m.line
          /\ NoWord(T[l], out[Len(out)].column + 2, m.column)
      <3>1. Joins(m, T, t, l, n, out[Len(out)])
        BY <2>1, MoreIsNext
      <3> QED BY <3>1 DEF Joins
    <2> QED BY <2>1, <2>2 DEF q, c
  <1>9. Stands(list, out, Len(out), t, m.attachmentLine, T)
    <2>1. t.file \in 1 .. Len(list) /\ T = list[t.file].text
      BY <1>1
    <2>2. IsPlace(T, t.line + 1, t.column + 1) /\ T[t.line + 1][t.column + 1] = "//"
      BY <1>1 DEF IsPlace
    <2>3. IsPlain(T, t.line + 1) => Follows(out, Len(out), t.file, T, t.line + 1, t.column + 1)
      BY <1>1, <1>6 DEF q
    <2>4. m.attachmentLine # t.line => NoWord(T[t.line + 1], 1, t.column)
      BY <1>1, <1>4 DEF q
    <2>5. HasMore(list, out, Len(out)) => t.file = out[Len(out)].file /\ t.line = out[Len(out)].line /\ t.column > out[Len(out)].column
      <3> SUFFICES ASSUME HasMore(list, out, Len(out))
                   PROVE  t.file = out[Len(out)].file /\ t.line = out[Len(out)].line /\ t.column > out[Len(out)].column
        OBVIOUS
      <3> DEFINE b == out[Len(out)].column
      <3>1. b \in Nat /\ b + 1 <= c /\ q = c /\ m.file = out[Len(out)].file /\ t.line = out[Len(out)].line
        BY <1>8
      <3> HIDE DEF b
      <3>2. q > b
        BY <1>3, <3>1
      <3> QED BY <1>1, <3>1, <3>2 DEF q, b
    <2> QED BY <2>1, <2>2, <2>3, <2>4, <2>5 DEF Stands
  <1>10. Waits(list, out, g, T)
    <2> DEFINE p == m.pending
               w == Len(p)
               more == Append(p, t)
    <2>1. p \in Seq(Token)
      BY DEF Machine
    <2>2. /\ w \in Nat /\ Len(more) = w + 1 /\ more[w + 1] = t /\ \A i \in 1 .. w : more[i] = p[i] /\ p[i] \in Token
      <3> HIDE DEF Token, p
      <3> QED BY <1>1, <2>1, AppendProperties, LenProperties, ElementOfSeq
    <2>3. ASSUME NEW i \in 1 .. w
          PROVE  /\ p[i].file = g.file
                 /\ Stands(list, out, Len(out), p[i], g.attachmentLine, T)
                 /\ Clear(T, p[i].line + 1, p[i].column + 1, g.line + 1, g.column)
      <3> DEFINE e == p[i]
                 x == e.line + 1
                 y == e.column + 1
      <3>1. e.file = m.file /\ Stands(list, out, Len(out), e, m.attachmentLine, T) /\ Clear(T, x, y, l, m.column)
        BY <1>1, <1>2 DEF Waits
      <3>2. e \in Token
        BY <2>2
      <3>3. x \in Nat /\ y \in Nat
        <4>1. e.line \in Nat /\ e.column \in Nat
          BY <3>2 DEF Token
        <4> HIDE DEF e
        <4> QED BY <4>1
      <3> HIDE DEF e, x, y
      <3>4. Clear(T, x, y, n, t.column + 1)
        BY <3>1, <3>3, ClearOn
      <3> QED BY <1>1, <3>1, <3>4 DEF e, x, y
    <2>4. Clear(T, t.line + 1, t.column + 1, g.line + 1, g.column)
      <3>1. g.line + 1 = n /\ t.line + 1 = n /\ g.column = q + 1 /\ t.column + 1 = q + 1 /\ n <= n
        BY <1>1 DEF q
      <3> QED BY <3>1 DEF Clear
    <2>5. g.pending = more /\ g.state # "Inactive"
      OBVIOUS
    <2> HIDE DEF p, w, more
    <2>6. \A i \in 1 .. Len(more) : i \in 1 .. w \/ i = w + 1
      BY <2>2
    <2>7. ASSUME NEW i \in 1 .. Len(more)
          PROVE  /\ more[i].file = g.file
                 /\ Stands(list, out, Len(out), more[i], g.attachmentLine, T)
                 /\ Clear(T, more[i].line + 1, more[i].column + 1, g.line + 1, g.column)
      <3>1. CASE i \in 1 .. w
        BY <2>2, <2>3, <3>1
      <3>2. CASE i = w + 1
        BY <1>1, <1>9, <2>2, <2>4, <3>2
      <3> QED BY <2>6, <3>1, <3>2
    <2> QED BY <2>5, <2>7 DEF Waits
  <1>11. Keeps(out, g, T)
    <2> SUFFICES ASSUME IsPlain(T, n) PROVE Follows(out, Len(out), m.file, T, n, (q + 1) + 1)
      BY <1>1 DEF Keeps, q
    <2>1. ASSUME NEW r \in DOMAIN T[n], r < (q + 1) + 1, T[n][r] # "//", NoWord(T[n], r + 1, ((q + 1) + 1) - 1)
          PROVE  IsOutputAt(out, Len(out), m.file, n, r)
      <3>1. r \in Nat /\ r # q + 1
        <4>1. r \in 1 .. Len(T[n]) /\ Len(T[n]) \in Nat
          BY <1>1
        <4>2. T[n][q + 1] = "//" /\ T[n][r] # "//"
          BY <1>3, <2>1
        <4> QED BY <4>1, <4>2
      <3>2. r < q + 1 /\ (q + 1) - 1 <= ((q + 1) + 1) - 1
        BY <1>3, <2>1, <3>1
      <3>3. NoWord(T[n], r + 1, (q + 1) - 1)
        <4>1. \A s \in DOMAIN T[n] : s <= (q + 1) - 1 => s <= ((q + 1) + 1) - 1
          BY <1>1, <1>3
        <4> QED BY <2>1, <4>1 DEF NoWord
      <3> QED BY <1>6, <2>1, <3>2, <3>3 DEF Follows
    <2> QED BY <2>1 DEF Follows
  <1>12. Pursues(list, out, g, T)
    <2> SUFFICES ASSUME HasMore(list, out, Len(out))
                 PROVE  /\ ~g.ended /\ g.state = "Default" /\ g.file = out[Len(out)].file /\ g.line = out[Len(out)].line
                        /\ out[Len(out)].column + 1 <= g.column /\ NoWord(T[g.line + 1], out[Len(out)].column + 2, g.column)
      BY DEF Pursues
    <2> DEFINE b == out[Len(out)].column
    <2>1. /\ n = l /\ q = c /\ b \in Nat /\ b + 1 <= c /\ m.state = "Default" /\ m.file = out[Len(out)].file
          /\ t.line = out[Len(out)].line /\ NoWord(T[n], b + 2, c)
      BY <1>8
    <2> HIDE DEF b
    <2>2. b + 1 <= q + 1
      BY <1>3, <2>1
    <2>3. NoWord(T[n], b + 2, q + 1)
      <3>1. \A s \in DOMAIN T[n] : s <= q + 1 => s <= c \/ s = q + 1
        <4>1. \A s \in DOMAIN T[n] : s \in Nat
          BY <1>1
        <4>2. q \in Nat /\ c = q
          BY <1>3, <2>1
        <4>3. \A s \in Nat : s <= q + 1 => s <= q \/ s = q + 1
          BY <4>2
        <4> QED BY <4>1, <4>2, <4>3
      <3> QED BY <1>3, <2>1, <3>1 DEF NoWord
    <2> QED BY <1>1, <2>1, <2>2, <2>3 DEF b, q
  <1> QED BY <1>7, <1>10, <1>11, <1>12 DEF TopHolds

\* A token that is skipped.
LEMMA SkipHolds ==
  ASSUME NEW list, NEW out, NEW m \in Machine, NEW T, TopHolds(list, out, m, T), m.state = "Inactive",
         NEW g, g.state = "Inactive", g.pending = m.pending
  PROVE  TopHolds(list, out, g, T)
  <1>1. Waits(list, out, m, T) /\ Pursues(list, out, m, T)
    BY DEF TopHolds
  <1>2. g.pending = <<>>
    BY <1>1 DEF Waits
  <1>3. 1 .. Len(<<>>) = {}
    OBVIOUS
  <1>4. Waits(list, out, g, T)
    BY <1>2, <1>3 DEF Waits
  <1>5. ~HasMore(list, out, Len(out))
    BY <1>1 DEF Pursues
  <1> QED BY <1>4, <1>5 DEF TopHolds, Attaches, Keeps, Pursues

\* A machine that outputs nothing.
LEMMA QuietHolds ==
  ASSUME NEW list, NEW out, ~HasMore(list, out, Len(out)), NEW g, g.pending = <<>>,
         g.ended \/ g.state = "Inactive" \/ g.attachmentLine = g.line, g.ended \/ g.state # "Default", NEW T
  PROVE  TopHolds(list, out, g, T)
  <1>1. 1 .. Len(<<>>) = {}
    OBVIOUS
  <1>2. Waits(list, out, g, T)
    BY <1>1 DEF Waits
  <1> QED BY <1>2 DEF TopHolds, Attaches, Keeps, Pursues

\* The word of a token is output, and the machine stands behind it.
Speaks(list, out, t, T, n, q) ==
    /\ t.file \in 1 .. Len(list) /\ T = list[t.file].text
    /\ n = t.line + 1 /\ q = t.column + 1 /\ n \in 1 .. Len(T) /\ DOMAIN T[n] = 1 .. Len(T[n]) /\ Len(T[n]) \in Nat
    /\ q \in 1 .. Len(T[n]) /\ T[n][q] # "//" /\ IsPlain(T, n) /\ Follows(out, Len(out), t.file, T, n, q)
StandsAt(g, t) ==
    /\ g.file = t.file /\ g.line = t.line /\ g.column = t.column + 1 /\ g.state = "Default" /\ ~g.ended
    /\ g.attachmentLine = t.line /\ g.pending = <<>>
GoneOn(list, out, outs, g, T) ==
    TopHolds(list, outs, g, T) /\ AllSpoken(list, outs, Len(outs)) /\ Grows(out, outs) /\ Len(outs) \in Nat

\* A word that is output.
LEMMA WordHolds ==
  ASSUME NEW list, NEW out \in Seq(OutToken), AllSpoken(list, out, Len(out)), Len(list) \in Nat, NEW t \in Token, NEW T, Len(T) \in Nat,
         NEW n, NEW q, Speaks(list, out, t, T, n, q), NEW g, StandsAt(g, t), NEW outs, outs = Append(out, OutputToken(t))
  PROVE  GoneOn(list, out, outs, g, T)
  <1>0. /\ t.file \in 1 .. Len(list) /\ T = list[t.file].text
        /\ n = t.line + 1 /\ q = t.column + 1 /\ n \in 1 .. Len(T) /\ DOMAIN T[n] = 1 .. Len(T[n]) /\ Len(T[n]) \in Nat
        /\ q \in 1 .. Len(T[n]) /\ T[n][q] # "//" /\ IsPlain(T, n) /\ Follows(out, Len(out), t.file, T, n, q)
        /\ g.file = t.file /\ g.line = t.line /\ g.column = t.column + 1 /\ g.state = "Default" /\ ~g.ended
        /\ g.attachmentLine = t.line /\ g.pending = <<>>
    BY DEF Speaks, StandsAt
  <1> DEFINE o == OutputToken(t)
             k == Len(out) + 1
  <1>1. o.file = t.file /\ o.line = t.line /\ o.column = t.column /\ o.expanded[1] = t.line /\ t.line \in Nat /\ t.column \in Nat
    BY DEF OutputToken, Token
  <1>2. o \in OutToken
    BY OutputTyped
  <1> HIDE DEF o
  <1>3. Len(out) \in Nat /\ Len(outs) = k /\ k \in Nat /\ outs[k] = o /\ \A i \in 1 .. Len(out) : outs[i] = out[i]
    <2> HIDE DEF OutToken
    <2> QED BY <1>2, AppendProperties, LenProperties DEF o
  <1>4. Grows(out, outs)
    BY <1>3 DEF Grows
  <1>5. Spoken(list, outs, k, o, T)
    <2>1. Follows(outs, Len(out), t.file, T, n, q)
      <3>1. Len(outs) \in Nat
        BY <1>3
      <3> QED BY <1>0, <1>3, <1>4, <3>1, FollowsOn
    <2>2. k - 1 = Len(out)
      BY <1>3
    <2>3. IsPlace(T, n, q)
      BY <1>0 DEF IsPlace
    <2> HIDE DEF k
    <2> QED BY <1>0, <1>1, <2>1, <2>2, <2>3 DEF Spoken
  <1>6. AllSpoken(list, outs, Len(outs))
    <2>1. AllSpoken(list, outs, Len(out))
      <3>1. Grows(list, list)
        BY DEF Grows
      <3>2. Len(out) \in 0 .. Len(out) /\ Len(outs) \in Nat
        BY <1>3
      <3> QED BY <1>3, <1>4, <3>1, <3>2, AllSpokenOn
    <2>2. \A i \in 1 .. k : i = k \/ i \in 1 .. Len(out)
      BY <1>3
    <2>3. list[outs[k].file].text = T
      BY <1>0, <1>1, <1>3
    <2> HIDE DEF k
    <2>4. ASSUME NEW i \in 1 .. k PROVE Spoken(list, outs, i, outs[i], list[outs[i].file].text)
      <3>1. CASE i = k
        BY <1>3, <1>5, <2>3, <3>1
      <3>2. CASE i \in 1 .. Len(out)
        BY <2>1, <3>2 DEF AllSpoken
      <3> QED BY <2>2, <3>1, <3>2
    <2> QED BY <1>3, <2>4 DEF AllSpoken
  <1>7. Waits(list, outs, g, T)
    <2>1. 1 .. Len(<<>>) = {}
      OBVIOUS
    <2> QED BY <1>0, <2>1 DEF Waits
  <1>8. Attaches(g, T)
    BY <1>0 DEF Attaches
  <1>9. t.line = n - 1 /\ t.column = q - 1 /\ q \in Nat /\ n \in Nat /\ g.line + 1 = n /\ g.column = q
    <2>1. \A i \in Nat : (i + 1) - 1 = i /\ i + 1 \in Nat
      OBVIOUS
    <2>2. n = t.line + 1 /\ q = t.column + 1 /\ g.line = t.line /\ g.column = t.column + 1
      BY <1>0
    <2> QED BY <1>1, <2>1, <2>2
  <1>10. Keeps(outs, g, T)
    <2>1. ASSUME NEW r \in DOMAIN T[n], r < q + 1, T[n][r] # "//", NoWord(T[n], r + 1, (q + 1) - 1)
          PROVE  IsOutputAt(outs, Len(outs), g.file, n, r)
      <3>1. r \in Nat
        <4>1. r \in 1 .. Len(T[n])
          BY <1>0, <2>1
        <4> QED BY <1>0, <4>1
      <3>2. r = q
        <4>1. ASSUME r # q PROVE FALSE
          <5>1. r + 1 <= q /\ q <= (q + 1) - 1 /\ q \in DOMAIN T[n]
            <6>1. q \in Nat /\ r \in Nat /\ r < q + 1 /\ r # q
              BY <1>9, <2>1, <3>1, <4>1
            <6>2. r + 1 <= q /\ q <= (q + 1) - 1
              BY <6>1
            <6> QED BY <1>0, <6>1, <6>2
          <5> QED BY <1>0, <2>1, <5>1 DEF NoWord
        <4> QED BY <4>1
      <3>3. Len(outs) \in 1 .. Len(outs) /\ outs[Len(outs)] = o
        BY <1>3
      <3> QED BY <1>0, <1>1, <1>9, <3>2, <3>3 DEF IsOutputAt
    <2> QED BY <1>0, <1>9, <2>1 DEF Keeps, Follows
  <1>11. Pursues(list, outs, g, T)
    <2>1. outs[Len(outs)] = o
      BY <1>3
    <2>2. o.column + 1 = q /\ g.column = q /\ q <= q /\ g.line + 1 = n /\ o.column + 2 = q + 1
      BY <1>1, <1>9
    <2>3. NoWord(T[n], q + 1, q)
      <3>1. \A s \in DOMAIN T[n] : ~(q + 1 <= s /\ s <= q)
        BY <1>0, <1>9
      <3> QED BY <3>1 DEF NoWord
    <2> QED BY <1>0, <1>1, <2>1, <2>2, <2>3 DEF Pursues
  <1> QED BY <1>3, <1>4, <1>6, <1>7, <1>8, <1>10, <1>11 DEF TopHolds, GoneOn

\* When the next token does not go on with the line of the last one, nothing does.
LEMMA NothingMore ==
  ASSUME NEW list, NEW out, NEW m \in Machine, NEW T, T = list[m.file].text, Pursues(list, out, m, T),
         Len(out) \in Nat, HasMore(list, out, Len(out)) => out[Len(out)].column \in Nat,
         NEW t, NEW l \in Nat, NEW n \in Nat, NextPlace(m, T, t, l, n), m.state # "Default" \/ IsEof(t) \/ t.first
  PROVE  ~HasMore(list, out, Len(out))
  <1>1. ASSUME HasMore(list, out, Len(out)) PROVE FALSE
    <2>1. Joins(m, T, t, l, n, out[Len(out)])
      BY <1>1, MoreIsNext
    <2> QED BY <2>1 DEF Joins
  <1> QED BY <1>1

\* A token that is dispatched, to a machine that reads text.
Comes(list, out, h, t, T) ==
    /\ t.file \in 1 .. Len(list) /\ T = list[t.file].text /\ h.file = t.file /\ h.pending = <<>> /\ ~h.ended
    /\ ~IsEof(t) => h.attachmentLine = h.line
    /\ IsOutput(h, t) => Speaks(list, out, t, T, t.line + 1, t.column + 1) /\ StandsAt(h, t)
    /\ ~IsOutput(h, t) => ~HasMore(list, out, Len(out))

LEMMA ShownHolds ==
  ASSUME NEW list, NEW out \in Seq(OutToken), AllSpoken(list, out, Len(out)), Len(list) \in Nat, NEW t \in Token, NEW T, Len(T) \in Nat,
         NEW h \in Machine, Comes(list, out, h, t, T),
         NEW outs, outs = IF IsOutput(h, t) THEN Append(out, OutputToken(t)) ELSE out,
         NEW g, g = AcceptOnText(h, t)
  PROVE  GoneOn(list, out, outs, g, T)
  <1>0. /\ h.pending = <<>> /\ ~h.ended
        /\ ~IsEof(t) => h.attachmentLine = h.line
        /\ IsOutput(h, t) => Speaks(list, out, t, T, t.line + 1, t.column + 1) /\ StandsAt(h, t)
        /\ ~IsOutput(h, t) => ~HasMore(list, out, Len(out))
    BY DEF Comes
  <1>1. /\ g.line = h.line /\ g.pending = <<>> /\ g.attachmentLine = h.attachmentLine
        /\ IsEof(t) => g.ended
        /\ IsDirectiveHash(t) => g.state = "ExpectDirective"
        /\ ~IsEof(t) /\ ~IsDirectiveHash(t) => g = h
    BY <1>0, AcceptedText
  <1>2. CASE IsOutput(h, t)
    <2>1. g = h /\ outs = Append(out, OutputToken(t))
      BY <1>1, <1>2 DEF IsOutput
    <2> DEFINE n == t.line + 1
               q == t.column + 1
    <2>2. Speaks(list, out, t, T, n, q) /\ StandsAt(g, t)
      BY <1>0, <1>2, <2>1
    <2> HIDE DEF n, q, Machine, Token, OutToken
    <2> QED BY <2>1, <2>2, WordHolds
  <1>3. CASE ~IsOutput(h, t)
    <2>1. outs = out /\ ~HasMore(list, out, Len(out))
      BY <1>0, <1>3
    <2>2. g.ended \/ g.state # "Default"
      BY <1>1, <1>3 DEF IsOutput
    <2>3. g.ended \/ g.attachmentLine = g.line
      BY <1>0, <1>1
    <2>4. TopHolds(list, outs, g, T)
      BY <1>1, <2>1, <2>2, <2>3, QuietHolds
    <2>5. Len(out) \in Nat
      <3> HIDE DEF OutToken
      <3> QED BY LenProperties
    <2> QED BY <2>1, <2>4, <2>5 DEF Grows, GoneOn
  <1> QED BY <1>2, <1>3

-----------------------------------------------------------------------------
(* The steps, and the comments.                                             *)

\* The top of a stack whose machines read.
LEMMA TopOfRunning ==
  ASSUME NEW onDisk \in Disks, NEW list \in Seq(Entry), NEW st, NEW out, NEW c, IsRunning(onDisk, list, st, out, c),
         NEW m, m = st[Len(st)], NEW T, T = list[m.file].text
  PROVE  /\ st \in Seq(Machine) /\ Len(st) \in Nat /\ Len(st) > 0 /\ m \in Machine /\ out \in Seq(OutToken) /\ Len(out) \in Nat
         /\ m.file \in 1 .. Len(list) /\ Len(list) \in Nat /\ T \in FileTexts /\ Len(T) \in Nat
         /\ ~m.ended => /\ IsWithin(m, T)
                        /\ IsPlain(T, m.line + 1) => m.state \in {"Default", "Inactive"}
                        /\ m.state = "Default" /\ m.column > 0 => IsPlain(T, m.line + 1)
  <1> DEFINE n == Len(st)
             path == list[m.file].path
             headers == HeadersAt(onDisk, m.depth)
  <1>1. PICK parts, totals : Stacked(onDisk, list, st, parts, totals) /\ Says(list, out, c, totals[n])
    BY DEF IsRunning
  <1>2. st \in Seq(Machine) /\ n > 0 /\ Levels(onDisk, list, st, parts, totals, n) /\ ReadsIn(onDisk, list, m, parts[n])
    BY <1>1 DEF Stacked
  <1>3. n \in Nat /\ n \in 1 .. n
    <2>1. n \in Nat
      <3> HIDE DEF Machine
      <3> QED BY <1>2, LenProperties
    <2> QED BY <1>2, <2>1
  <1>4. m \in Machine /\ m.file \in 1 .. Len(list) /\ m.depth \in 0 .. MaxIncludeDepth
    <2>1. \A k \in 1 .. n : st[k] \in Machine /\ st[k].file \in 1 .. Len(list) /\ st[k].depth \in 0 .. MaxIncludeDepth
      BY <1>2 DEF Levels
    <2> HIDE DEF Machine
    <2> QED BY <1>3, <2>1
  <1>5. T \in FileTexts
    BY <1>4, LevelTyped
  <1>6. Reads(m, path, T, headers, parts[n])
    BY <1>2 DEF ReadsIn
  <1>7. out \in Seq(OutToken) /\ Len(out) \in Nat
    BY <1>1, SaysTyped
  <1>8. Len(list) \in Nat /\ Len(T) \in Nat
    <2>1. Len(list) \in Nat
      <3> HIDE DEF Entry
      <3> QED BY LenProperties
    <2> QED BY <1>5, <2>1, TextTyped
  <1> HIDE DEF n, path, headers, Machine
  <1>9. ~m.ended => /\ IsWithin(m, T)
                    /\ IsPlain(T, m.line + 1) => m.state \in {"Default", "Inactive"}
                    /\ m.state = "Default" /\ m.column > 0 => IsPlain(T, m.line + 1)
    BY <1>4, <1>5, <1>6, ReadPlain
  <1> QED BY <1>2, <1>3, <1>4, <1>5, <1>7, <1>8, <1>9 DEF n

\* What is known before a step.
LEMMA BeforeStep ==
  ASSUME InclusionInv, CommentsInv, stack # <<>>, NEW m, m = Top, NEW T, T = Text(m)
  PROVE  /\ stack \in Seq(Machine) /\ Len(stack) \in Nat /\ Len(stack) > 0 /\ m = stack[Len(stack)] /\ m \in Machine
         /\ tokens \in Seq(OutToken) /\ Len(tokens) \in Nat /\ comments \in Seq(Comment)
         /\ m.file \in 1 .. Len(entries) /\ entries \in Seq(Entry) /\ Len(entries) \in Nat
         /\ T \in FileTexts /\ T = entries[m.file].text /\ Len(T) \in Nat
         /\ AllSpoken(entries, tokens, Len(tokens)) /\ AllSaid(entries, tokens, comments, Len(tokens))
         /\ AllWait(stack) /\ TopHolds(entries, tokens, m, T)
         /\ HasMore(entries, tokens, Len(tokens)) => tokens[Len(tokens)].column \in Nat
         /\ disk \in Disks
  <1>1. /\ disk \in Disks /\ comments \in Seq(Comment) /\ entries \in Seq(Entry)
        /\ IsRunning(disk, entries, stack, tokens, config)
    BY WhileReading
  <1>2. m = stack[Len(stack)] /\ T = entries[m.file].text
    BY DEF Top, Text
  <1>3. /\ stack \in Seq(Machine) /\ Len(stack) \in Nat /\ Len(stack) > 0 /\ m \in Machine /\ tokens \in Seq(OutToken) /\ Len(tokens) \in Nat
        /\ m.file \in 1 .. Len(entries) /\ Len(entries) \in Nat /\ T \in FileTexts /\ Len(T) \in Nat
    BY <1>1, <1>2, TopOfRunning
  <1>4. /\ AllSpoken(entries, tokens, Len(tokens)) /\ AllSaid(entries, tokens, comments, Len(tokens))
        /\ AllWait(stack) /\ TopHolds(entries, tokens, m, T)
    BY DEF CommentsInv
  <1>5. ASSUME HasMore(entries, tokens, Len(tokens)) PROVE tokens[Len(tokens)].column \in Nat
    <2>1. Len(tokens) \in 1 .. Len(tokens)
      BY <1>5 DEF HasMore
    <2>2. tokens[Len(tokens)] \in OutToken
      <3> HIDE DEF OutToken
      <3> QED BY <1>3, <2>1, ElementOfSeq
    <2> QED BY <2>2 DEF OutToken
  <1> QED BY <1>1, <1>2, <1>3, <1>4, <1>5

\* What is known of the next token.
LEMMA NextRead ==
  ASSUME InclusionInv, Reading, NEW m, m = Top, NEW T, T = Text(m), NEW t, t = Lex(m), NEW l, l = m.line + 1, NEW n, n = t.line + 1
  PROVE  NextPlace(m, T, t, l, n) /\ (IsPlain(T, l) => m.state \in {"Default", "Inactive"}) /\ l \in Nat /\ n \in Nat /\ ~m.ended /\ t \in Token
  <1>1. stack # <<>> /\ ~m.ended
    BY DEF Reading
  <1>2. /\ disk \in Disks /\ entries \in Seq(Entry) /\ IsRunning(disk, entries, stack, tokens, config)
    BY <1>1, WhileReading
  <1>3. m = stack[Len(stack)] /\ T = entries[m.file].text
    BY DEF Top, Text
  <1>4. m \in Machine /\ T \in FileTexts /\ IsWithin(m, T) /\ (IsPlain(T, m.line + 1) => m.state \in {"Default", "Inactive"})
    BY <1>1, <1>2, <1>3, TopOfRunning
  <1>5. NextPlace(m, T, t, l, n)
    BY <1>4, LexPlace
  <1> QED BY <1>1, <1>4, <1>5 DEF NextPlace

\* What is known after a step.
LEMMA AfterStep ==
  ASSUME InclusionInv', stack' # <<>>, NEW g, g = stack'[Len(stack')], g.file \in 1 .. Len(entries'), NEW T, T = entries'[g.file].text,
         g.state = "Default", ~g.ended, g.column > 0
  PROVE  IsPlain(T, g.line + 1)
  <1> DEFINE st == stack'
             list == entries'
             out == tokens'
             c == config'
             onDisk == disk'
  <1>1. IsRunning(onDisk, list, st, out, c) /\ onDisk \in Disks /\ list \in Seq(Entry)
    BY DEF InclusionInv, NothingYet, Loaded, SourcesOK
  <1>2. g = st[Len(st)] /\ T = list[g.file].text
    OBVIOUS
  <1> HIDE DEF st, list, out, c, onDisk
  <1> QED BY <1>1, <1>2, TopOfRunning

\* The top machine goes on.
LEMMA TopCommented ==
  ASSUME stack \in Seq(Machine), Len(stack) \in Nat, Len(stack) > 0, AllWait(stack), NEW g \in Machine, stack' = Replaced(g),
         NEW T, T = entries'[g.file].text, AllSpoken(entries', tokens', Len(tokens')), AllSaid(entries', tokens', comments', Len(tokens')),
         TopHolds(entries', tokens', g, T)
  PROVE  CommentsInv' /\ stack' # <<>> /\ stack'[Len(stack')] = g
  <1> DEFINE n == Len(stack)
  <1>1. stack' = [stack EXCEPT ![n] = g]
    BY DEF Replaced
  <1>2. Len(stack') = n /\ \A j \in 1 .. n : stack'[j] = IF j = n THEN g ELSE stack[j]
    <2>1. n \in 1 .. n
      OBVIOUS
    <2> HIDE DEF Machine
    <2> QED BY <1>1, <2>1, ExceptSeq
  <1>3. stack' # <<>>
    <2>1. Len(<<>>) = 0
      OBVIOUS
    <2> QED BY <1>2, <2>1
  <1>4. stack'[n] = g /\ Top' = g /\ Text(Top)' = T
    <2>1. n \in 1 .. n
      OBVIOUS
    <2>2. stack'[n] = g
      BY <1>2, <2>1
    <2> QED BY <1>2, <2>2 DEF Top, Text
  <1>5. AllWait(stack')
    <2>1. \A j \in 1 .. n - 1 : j \in 1 .. n /\ j # n
      OBVIOUS
    <2>2. \A j \in 1 .. n - 1 : stack'[j] = stack[j]
      BY <1>2, <2>1
    <2> QED BY <1>2, <2>2 DEF AllWait
  <1> QED BY <1>2, <1>3, <1>4, <1>5 DEF CommentsInv, Ended

\* The comments that waited are output.
LEMMA FlushedComment ==
  ASSUME InclusionInv, CommentsInv, Reading, NEW m, m = Top, NEW t, t = Lex(m), NEW new, new = FlushedComments(m, t)
  PROVE  AllSaid(entries, tokens, new, Len(tokens))
  <1> DEFINE T == Text(m)
             l == m.line + 1
             n == t.line + 1
             a == Len(comments)
             p == Len(m.pending)
  <1>1. stack # <<>> /\ T = Text(m) /\ l = m.line + 1 /\ n = t.line + 1
    BY DEF Reading
  <1> HIDE DEF T, l, n
  <1>2. /\ m \in Machine /\ tokens \in Seq(OutToken) /\ Len(tokens) \in Nat /\ comments \in Seq(Comment)
        /\ T = entries[m.file].text
        /\ AllSaid(entries, tokens, comments, Len(tokens)) /\ TopHolds(entries, tokens, m, T)
    BY <1>1, BeforeStep
  <1>3. NextPlace(m, T, t, l, n) /\ t \in Token
    BY <1>1, NextRead
  <1>4. /\ Len(new) = a + p /\ a \in Nat /\ p \in Nat
        /\ \A k \in 1 .. a : new[k] = comments[k]
        /\ \A k \in 1 .. p : new[a + k] = OutputCommentToken(m, t, m.pending[k])
    <2> HIDE DEF Machine, Token, OutToken, Comment
    <2> QED BY <1>2, <1>3, FlushedTyped
  <1>5. Waits(entries, tokens, m, T)
    BY <1>2 DEF TopHolds
  <1>6. Outputs(tokens, m, t, comments, new, a, p)
    <2>1. a = Len(comments) /\ p = Len(m.pending)
      OBVIOUS
    <2> HIDE DEF a, p
    <2>2. ASSUME NEW k \in 1 .. p
          PROVE  /\ new[a + k].file = m.pending[k].file
                 /\ new[a + k].line = m.pending[k].line /\ new[a + k].column = m.pending[k].column
                 /\ new[a + k].frontAttachmentLine = m.attachmentLine
                 /\ new[a + k].backAttachmentLine = t.line
                 /\ new[a + k].nextTokenIndex = Len(tokens)
      <3>1. new[a + k] = OutputCommentToken(m, t, m.pending[k])
        BY <1>4
      <3> QED BY <3>1 DEF OutputCommentToken
    <2> QED BY <1>4, <2>1, <2>2 DEF Outputs
  <1> HIDE DEF a, p, Machine, Token, OutToken, Comment
  <1> QED BY <1>2, <1>3, <1>5, <1>6, FlushedSaid

\* A comment is fed.
LEMMA CommentComments ==
  ASSUME InclusionInv, CommentsInv, Reading, FeedComment
  PROVE  CommentsInv'
  <1> DEFINE m == Top
             t == Lex(m)
             T == Text(m)
             l == m.line + 1
             n == t.line + 1
             a == Advance(m)
             g == Pended(m, t)
             p == Append(a.pending, t)
  <1>1. /\ stack # <<>> /\ IsComment(t) /\ IsFed(m, t) /\ stack' = Replaced(g)
        /\ tokens' = tokens /\ comments' = comments /\ entries' = entries
    BY DEF Reading, FeedComment, Pended, sources
  <1>2. m = Top /\ T = Text(m) /\ t = Lex(m) /\ l = m.line + 1 /\ n = t.line + 1 /\ a = Advance(m) /\ g = [a EXCEPT !.pending = p]
    BY DEF Pended
  <1>3. p = Append(a.pending, t)
    OBVIOUS
  <1> HIDE DEF m, t, T, l, n, a, g, p
  <1>4. /\ stack \in Seq(Machine) /\ Len(stack) \in Nat /\ Len(stack) > 0 /\ m \in Machine
        /\ tokens \in Seq(OutToken) /\ Len(tokens) \in Nat
        /\ m.file \in 1 .. Len(entries) /\ T = entries[m.file].text
        /\ AllSpoken(entries, tokens, Len(tokens)) /\ AllSaid(entries, tokens, comments, Len(tokens))
        /\ AllWait(stack) /\ TopHolds(entries, tokens, m, T)
        /\ HasMore(entries, tokens, Len(tokens)) => tokens[Len(tokens)].column \in Nat
    BY <1>1, <1>2, BeforeStep
  <1>5. NextPlace(m, T, t, l, n) /\ (IsPlain(T, l) => m.state \in {"Default", "Inactive"}) /\ ~m.ended /\ t \in Token
    BY <1>2, NextRead
  <1>6. m.state # "Inactive"
    BY <1>1 DEF IsFed, IsComment, IsDirectiveHash, IsEof
  <1>7. /\ a \in Machine /\ a.file = m.file /\ a.line = t.line /\ a.column = t.column + 1 /\ a.state = m.state /\ a.ended = m.ended
        /\ a.pending = m.pending /\ a.attachmentLine = m.attachmentLine
    <2> HIDE DEF Machine, Token
    <2> QED BY <1>2, <1>4, <1>5, Advanced DEF Kept
  <1>8. p \in Seq(Token)
    <2>1. a.pending \in Seq(Token)
      BY <1>7 DEF Machine
    <2> HIDE DEF Token
    <2> QED BY <1>3, <1>5, <2>1, AppendProperties
  <1>9. /\ g \in Machine /\ g.file = m.file /\ g.line = t.line /\ g.column = t.column + 1 /\ g.state = m.state /\ ~g.ended
        /\ g.attachmentLine = m.attachmentLine /\ g.pending = Append(m.pending, t)
    <2>1. g \in Machine /\ g.pending = p
      <3> HIDE DEF Token
      <3> QED BY <1>2, <1>7, <1>8 DEF Machine
    <2>2. g.file = a.file /\ g.line = a.line /\ g.column = a.column /\ g.state = a.state /\ g.ended = a.ended /\ g.attachmentLine = a.attachmentLine
      BY <1>2, <1>7 DEF Machine
    <2> HIDE DEF Machine
    <2> QED BY <1>3, <1>5, <1>7, <2>1, <2>2
  <1>10. IsPlain(T, l) => m.state = "Default"
    BY <1>5, <1>6
  <1> HIDE DEF Machine, Token, OutToken
  <1>11. TopHolds(entries, tokens, g, T)
    BY <1>1, <1>4, <1>5, <1>6, <1>9, <1>10, CommentHolds
  <1>12. T = entries'[g.file].text
    BY <1>1, <1>4, <1>9
  <1> QED BY <1>1, <1>4, <1>9, <1>11, <1>12, TopCommented

\* A token is skipped.
LEMMA SkippedComments ==
  ASSUME InclusionInv, CommentsInv, Reading, SkipInactive
  PROVE  CommentsInv'
  <1> DEFINE m == Top
             t == Lex(m)
             T == Text(m)
             g == Advance(m)
  <1>1. /\ stack # <<>> /\ ~IsFed(m, t) /\ stack' = Replaced(g)
        /\ tokens' = tokens /\ comments' = comments /\ entries' = entries
    BY DEF Reading, SkipInactive, sources
  <1>2. m = Top /\ T = Text(m) /\ t = Lex(m) /\ g = Advance(m)
    OBVIOUS
  <1> HIDE DEF m, t, T, g
  <1>3. /\ stack \in Seq(Machine) /\ Len(stack) \in Nat /\ Len(stack) > 0 /\ m \in Machine
        /\ m.file \in 1 .. Len(entries) /\ T = entries[m.file].text
        /\ AllSpoken(entries, tokens, Len(tokens)) /\ AllSaid(entries, tokens, comments, Len(tokens))
        /\ AllWait(stack) /\ TopHolds(entries, tokens, m, T)
    BY <1>1, <1>2, BeforeStep
  <1>4. t \in Token
    BY <1>2, NextRead
  <1>5. m.state = "Inactive"
    BY <1>1 DEF IsFed
  <1>6. g \in Machine /\ g.file = m.file /\ g.state = m.state /\ g.pending = m.pending
    <2> HIDE DEF Machine, Token
    <2> QED BY <1>2, <1>3, <1>4, Advanced DEF Kept
  <1> HIDE DEF Machine, Token
  <1>7. TopHolds(entries, tokens, g, T)
    BY <1>3, <1>5, <1>6, SkipHolds
  <1>8. T = entries'[g.file].text
    BY <1>1, <1>3, <1>6
  <1> QED BY <1>1, <1>3, <1>6, <1>7, <1>8, TopCommented

\* A token is dispatched.
LEMMA DispatchedComments ==
  ASSUME InclusionInv, InclusionInv', CommentsInv, Reading, NEW m, m = Top, NEW t, t = Lex(m), ~IsComment(t),
         NEW h \in Machine, h.file = m.file, h.line = t.line, h.column = t.column + 1, h.pending = <<>>, h.attachmentLine = t.line, ~h.ended,
         IsOutput(h, t) => m.state = "Default" \/ t.first,
         ~IsOutput(h, t) => m.state # "Default" \/ IsEof(t) \/ t.first,
         stack' = Replaced(AcceptOnText(h, t)), comments' = FlushedComments(m, t), tokens' = Output(h, t), entries' = entries
  PROVE  CommentsInv'
  <1> DEFINE T == Text(m)
             l == m.line + 1
             n == t.line + 1
             q == t.column + 1
             g == AcceptOnText(h, t)
  <1>1. stack # <<>> /\ T = Text(m) /\ l = m.line + 1 /\ n = t.line + 1 /\ q = t.column + 1 /\ g = AcceptOnText(h, t) /\ stack' = Replaced(g)
    BY DEF Reading
  <1> HIDE DEF T, l, n, q, g
  <1>2. /\ stack \in Seq(Machine) /\ Len(stack) \in Nat /\ Len(stack) > 0 /\ m \in Machine
        /\ tokens \in Seq(OutToken) /\ Len(tokens) \in Nat
        /\ m.file \in 1 .. Len(entries) /\ Len(entries) \in Nat /\ T = entries[m.file].text /\ Len(T) \in Nat
        /\ AllSpoken(entries, tokens, Len(tokens))
        /\ AllWait(stack) /\ TopHolds(entries, tokens, m, T)
        /\ HasMore(entries, tokens, Len(tokens)) => tokens[Len(tokens)].column \in Nat
    BY <1>1, BeforeStep
  <1>3. NextPlace(m, T, t, l, n) /\ ~m.ended /\ t \in Token /\ l \in Nat /\ n \in Nat
    BY <1>1, NextRead
  <1>4. g \in Machine /\ g.file = m.file /\ (~IsEof(t) /\ ~IsDirectiveHash(t) => g = h)
    <2>1. g \in Machine /\ Kept(h, g) /\ (~IsEof(t) /\ ~IsDirectiveHash(t) => g = h)
      <3> HIDE DEF Machine, Token
      <3> QED BY <1>1, <1>3, AcceptedText
    <2> QED BY <2>1 DEF Kept
  <1>5. T = entries'[g.file].text /\ g.file \in 1 .. Len(entries')
    BY <1>2, <1>4
  <1> HIDE DEF Machine, Token, OutToken
  <1>6. stack' # <<>> /\ stack'[Len(stack')] = g
    <2>1. stack' = [stack EXCEPT ![Len(stack)] = g] /\ Len(stack) \in 1 .. Len(stack)
      BY <1>1, <1>2 DEF Replaced
    <2>2. Len(stack') = Len(stack) /\ stack'[Len(stack)] = g
      BY <1>2, <1>4, <2>1, ExceptSeq
    <2>3. Len(<<>>) = 0
      OBVIOUS
    <2> QED BY <1>2, <2>2, <2>3
  <1>7. Comes(entries, tokens, h, t, T)
    <2>1. t.file = m.file
      BY <1>3 DEF NextPlace
    <2>2. ASSUME ~IsOutput(h, t) PROVE ~HasMore(entries, tokens, Len(tokens))
      <3>1. m.state # "Default" \/ IsEof(t) \/ t.first
        BY <2>2
      <3>2. Pursues(entries, tokens, m, T)
        BY <1>2 DEF TopHolds
      <3> QED BY <1>2, <1>3, <3>1, <3>2, NothingMore
    <2>3. ASSUME IsOutput(h, t) PROVE Speaks(entries, tokens, t, T, n, q) /\ StandsAt(h, t)
      <3>1. h.state = "Default" /\ ~IsDirectiveHash(t) /\ ~IsEof(t) /\ g = h
        BY <1>4, <2>3 DEF IsOutput
      <3>2. /\ n \in 1 .. Len(T) /\ DOMAIN T[n] = 1 .. Len(T[n]) /\ Len(T[n]) \in Nat
            /\ q \in 1 .. Len(T[n]) /\ T[n][q] = t.text /\ t.column \in Nat /\ t.line = n - 1
        BY <1>1, <1>3, <3>1 DEF NextPlace
      <3>3. T[n][q] # "//"
        BY <3>2 DEF IsComment
      <3>4. IsPlain(T, n)
        <4>1. g.column > 0 /\ g.line + 1 = n
          <5>1. h.column = t.column + 1 /\ h.line = t.line
            OBVIOUS
          <5>2. \A i \in Nat : i + 1 > 0
            OBVIOUS
          <5> QED BY <1>1, <3>1, <3>2, <5>1, <5>2
        <4>2. IsPlain(T, g.line + 1)
          BY <1>5, <1>6, <3>1, <4>1, AfterStep
        <4> QED BY <4>1, <4>2
      <3>5. Follows(tokens, Len(tokens), m.file, T, n, q)
        <4>1. Keeps(tokens, m, T)
          BY <1>2 DEF TopHolds
        <4>2. m.state = "Default" \/ t.first
          BY <2>3
        <4> QED BY <1>1, <1>3, <3>1, <3>4, <4>1, <4>2, FollowsNext
      <3>6. StandsAt(h, t)
        BY <2>1, <3>1 DEF StandsAt
      <3> QED BY <1>1, <1>2, <2>1, <3>2, <3>3, <3>4, <3>5, <3>6 DEF Speaks
    <2> QED BY <1>1, <1>2, <2>1, <2>2, <2>3 DEF Comes
  <1>8. GoneOn(entries, tokens, tokens', g, T)
    <2> DEFINE outs == tokens'
    <2>1. outs = IF IsOutput(h, t) THEN Append(tokens, OutputToken(t)) ELSE tokens
      BY DEF Output
    <2> HIDE DEF outs
    <2>2. GoneOn(entries, tokens, outs, g, T)
      BY <1>1, <1>2, <1>3, <1>7, <2>1, ShownHolds
    <2> QED BY <2>2 DEF outs
  <1>9. AllSaid(entries, tokens', comments', Len(tokens'))
    <2> DEFINE outs == tokens'
               said == comments'
               len == Len(tokens)
               more == Len(outs)
    <2>1. AllSaid(entries, tokens, said, len)
      BY FlushedComment
    <2>2. Grows(tokens, outs) /\ more \in Nat /\ len \in Nat /\ Grows(entries, entries)
      BY <1>2, <1>8 DEF GoneOn, Grows
    <2>3. len <= more /\ len = Len(tokens) /\ more = Len(outs) /\ AllSpoken(entries, tokens, len)
      BY <1>2, <2>2 DEF Grows
    <2> HIDE DEF outs, said, len, more
    <2>4. AllSaid(entries, outs, said, more)
      BY <1>2, <2>1, <2>2, <2>3, AllSaidOn
    <2> QED BY <2>4 DEF outs, said, more
  <1> QED BY <1>1, <1>2, <1>4, <1>5, <1>8, <1>9, TopCommented DEF GoneOn

\* A token of the text is fed.
LEMMA TextComments ==
  ASSUME InclusionInv, InclusionInv', CommentsInv, Reading, FeedText
  PROVE  CommentsInv'
  <1> DEFINE m == Top
             t == Lex(m)
             f == Flushed(Advance(m), t)
  <1>1. /\ stack # <<>> /\ ~m.ended /\ ~IsComment(t) /\ ~InDirective(m) /\ stack' = Replaced(AcceptOnText(f, t))
        /\ comments' = FlushedComments(m, t) /\ tokens' = Output(f, t) /\ entries' = entries
    BY DEF Reading, FeedText, sources
  <1>2. m \in Machine /\ t \in Token
    BY <1>1, WhatIsRead
  <1>3. m = Top /\ t = Lex(m) /\ f = Flushed(Advance(m), t)
    OBVIOUS
  <1> HIDE DEF m, t, f
  <1>4. /\ f \in Machine /\ f.file = m.file /\ f.line = t.line /\ f.column = t.column + 1 /\ f.state = m.state /\ ~f.ended
        /\ f.pending = <<>> /\ f.attachmentLine = t.line
    <2> HIDE DEF Machine, Token
    <2> QED BY <1>1, <1>2, <1>3, AdvancedFlushed DEF Kept
  <1>5. IsOutput(f, t) => m.state = "Default"
    BY <1>4 DEF IsOutput
  <1>6. ~IsOutput(f, t) => m.state # "Default" \/ IsEof(t) \/ t.first
    BY <1>4 DEF IsOutput, IsDirectiveHash
  <1> HIDE DEF Machine, Token
  <1> QED BY <1>1, <1>3, <1>4, <1>5, <1>6, DispatchedComments

\* A token of a directive is fed.
LEMMA DirectiveTokenComments ==
  ASSUME InclusionInv, CommentsInv, Reading, FeedDirectiveToken
  PROVE  CommentsInv'
  <1> DEFINE m == Top
             t == Lex(m)
             T == Text(m)
             l == m.line + 1
             n == t.line + 1
             path == entries[m.file].path
             headers == HeadersAt(disk, m.depth)
             f == Flushed(Advance(m), t)
             g == IF f.state = "ExpectDirective" THEN AcceptOnExpectDirective(f, t) ELSE AcceptOnExpectDirectiveTail(f, t)
  <1>1. /\ stack # <<>> /\ ~m.ended /\ ~IsComment(t) /\ InDirective(m) /\ ~EndsDirective(m, t) /\ stack' = Replaced(g)
        /\ comments' = FlushedComments(m, t) /\ tokens' = tokens /\ entries' = entries
    BY DEF Reading, FeedDirectiveToken, sources
  <1>2. /\ m = Top /\ t = Lex(m) /\ T = Text(m) /\ l = m.line + 1 /\ n = t.line + 1
        /\ path = entries[m.file].path /\ headers = HeadersAt(disk, m.depth) /\ f = Flushed(Advance(m), t)
        /\ g = IF f.state = "ExpectDirective" THEN AcceptOnExpectDirective(f, t) ELSE AcceptOnExpectDirectiveTail(f, t)
    OBVIOUS
  <1> HIDE DEF m, t, T, l, n, path, headers, f, g
  <1>3. /\ stack \in Seq(Machine) /\ Len(stack) \in Nat /\ Len(stack) > 0 /\ m \in Machine
        /\ tokens \in Seq(OutToken) /\ Len(tokens) \in Nat
        /\ m.file \in 1 .. Len(entries) /\ T \in FileTexts /\ T = entries[m.file].text
        /\ AllSpoken(entries, tokens, Len(tokens)) /\ AllWait(stack) /\ TopHolds(entries, tokens, m, T)
        /\ HasMore(entries, tokens, Len(tokens)) => tokens[Len(tokens)].column \in Nat
    BY <1>1, <1>2, BeforeStep
  <1>4. NextPlace(m, T, t, l, n) /\ t \in Token /\ l \in Nat /\ n \in Nat
    BY <1>2, NextRead
  <1>5. m.state # "Default" /\ m.state \in {"ExpectDirective", "ExpectDirectiveTail"}
    BY <1>1 DEF InDirective
  <1>6. ~HasMore(entries, tokens, Len(tokens))
    <2>1. Pursues(entries, tokens, m, T)
      BY <1>3 DEF TopHolds
    <2> HIDE DEF Machine
    <2> QED BY <1>3, <1>4, <1>5, <2>1, NothingMore
  <1>7. g \in Machine /\ g.file = m.file
    <2>1. path \in Paths /\ headers \in Headers
      BY <1>2, InDirectiveRead
    <2>2. PICK items \in Seq(Item) : Reads(m, path, T, headers, items)
      BY <1>2, InDirectiveRead
    <2>3. m \in Machine /\ T \in FileTexts /\ ~m.ended /\ ~IsComment(t) /\ InDirective(m) /\ ~EndsDirective(m, t)
      BY <1>1, <1>3
    <2> HIDE DEF Machine, Item
    <2>4. g \in Machine /\ Kept(m, g)
      BY <1>2, <2>1, <2>2, <2>3, StepDirective
    <2> QED BY <2>4 DEF Kept
  <1>8. g.pending = <<>> /\ g.state # "Default" /\ g.attachmentLine = g.line
    <2>1. f \in Machine /\ f.line = t.line /\ f.pending = <<>> /\ f.attachmentLine = t.line
      <3> HIDE DEF Machine, Token
      <3> QED BY <1>2, <1>3, <1>4, AdvancedFlushed
    <2> HIDE DEF Token
    <2>2. CASE f.state = "ExpectDirective"
      <3>1. g = AcceptOnExpectDirective(f, t)
        BY <1>2, <2>2
      <3> QED BY <2>1, <3>1 DEF AcceptOnExpectDirective, Machine
    <2>3. CASE f.state # "ExpectDirective"
      <3>1. g = AcceptOnExpectDirectiveTail(f, t)
        BY <1>2, <2>3
      <3>2. f.state = m.state
        <4> HIDE DEF Machine
        <4> QED BY <1>2, <1>3, <1>4, AdvancedFlushed
      <3> QED BY <1>5, <2>1, <3>1, <3>2 DEF AcceptOnExpectDirectiveTail, Machine
    <2> QED BY <2>2, <2>3
  <1> HIDE DEF Machine, Token, OutToken
  <1>9. TopHolds(entries, tokens, g, T)
    BY <1>6, <1>8, QuietHolds
  <1>10. AllSaid(entries, tokens, comments', Len(tokens))
    <2> DEFINE said == comments'
    <2>1. said = FlushedComments(m, t)
      BY <1>1
    <2> HIDE DEF said
    <2>2. AllSaid(entries, tokens, said, Len(tokens))
      BY <1>2, <2>1, FlushedComment
    <2> QED BY <2>2 DEF said
  <1>11. T = entries'[g.file].text
    BY <1>1, <1>3, <1>7
  <1> QED BY <1>1, <1>3, <1>7, <1>9, <1>10, <1>11, TopCommented

\* Neither the conditional nor the end of a directive moves a machine.
LEMMA DirectiveKeeps ==
  ASSUME NEW f \in Machine, NEW h, h = HandleConditional(f), h \in Machine, NEW a, a = AfterDirective(h)
  PROVE  /\ a.file = f.file /\ a.line = f.line /\ a.column = f.column /\ a.pending = f.pending
         /\ a.attachmentLine = f.attachmentLine /\ a.ended = f.ended
  <1>1. /\ h.file = f.file /\ h.line = f.line /\ h.column = f.column /\ h.pending = f.pending
        /\ h.attachmentLine = f.attachmentLine /\ h.ended = f.ended
    BY DEF HandleConditional, HandleIfDirective, HandleEndifDirective, Machine
  <1>2. /\ a.file = h.file /\ a.line = h.line /\ a.column = h.column /\ a.pending = h.pending
        /\ a.attachmentLine = h.attachmentLine /\ a.ended = h.ended
    BY DEF AfterDirective, Machine
  <1> QED BY <1>1, <1>2

\* A directive ends.
LEMMA DirectiveEndComments ==
  ASSUME InclusionInv, InclusionInv', CommentsInv, Reading, EndDirective
  PROVE  CommentsInv'
  <1> DEFINE m == Top
             t == Lex(m)
             T == Text(m)
             path == entries[m.file].path
             headers == HeadersAt(disk, m.depth)
             f == Flushed(Advance(m), t)
             h == HandleConditional(f)
             a == AfterDirective(h)
  <1>1. /\ stack # <<>> /\ ~m.ended /\ ~IsComment(t) /\ EndsDirective(m, t) /\ stack' = Replaced(AcceptOnText(a, t))
        /\ comments' = FlushedComments(m, t) /\ tokens' = Output(a, t) /\ entries' = entries
    BY DEF Reading, EndDirective
  <1>2. T = Text(m) /\ m = Top /\ t = Lex(m) /\ f = Flushed(Advance(m), t) /\ path = entries[m.file].path /\ headers = HeadersAt(disk, m.depth)
        /\ h = HandleConditional(f) /\ a = AfterDirective(h)
    OBVIOUS
  <1>0. t \in Token
    BY <1>1, WhatIsRead
  <1> HIDE DEF m, t, T, path, headers, f, h, a
  <1>3. m \in Machine /\ T \in FileTexts /\ path \in Paths /\ headers \in Headers
    BY <1>2, InDirectiveRead
  <1>4. PICK items \in Seq(Item) : Reads(m, path, T, headers, items)
    BY <1>2, InDirectiveRead
  <1>5. h \in Machine
    BY <1>1, <1>2, <1>3, <1>4, StepEnd
  <1>6. a \in Machine
    BY <1>2, <1>5, AfterTyped
  <1>7. /\ a.file = m.file /\ a.line = t.line /\ a.column = t.column + 1 /\ ~a.ended
        /\ a.pending = <<>> /\ a.attachmentLine = t.line
    <2>1. /\ f \in Machine /\ f.file = m.file /\ f.line = t.line /\ f.column = t.column + 1 /\ f.ended = m.ended
          /\ f.pending = <<>> /\ f.attachmentLine = t.line
      <3> HIDE DEF Machine, Token
      <3> QED BY <1>0, <1>2, <1>3, AdvancedFlushed DEF Kept
    <2>2. /\ a.file = f.file /\ a.line = f.line /\ a.column = f.column /\ a.pending = f.pending
          /\ a.attachmentLine = f.attachmentLine /\ a.ended = f.ended
      <3> HIDE DEF Machine, Token
      <3> QED BY <1>2, <1>5, <2>1, DirectiveKeeps
    <2> QED BY <1>1, <2>1, <2>2
  <1>8. m.state # "Default" /\ (t.first \/ IsEof(t))
    BY <1>1 DEF EndsDirective, InDirective
  <1>9. IsOutput(a, t) => t.first
    BY <1>8 DEF IsOutput
  <1> HIDE DEF Machine, Token
  <1> QED BY <1>1, <1>2, <1>6, <1>7, <1>8, <1>9, DispatchedComments

\* Comments and tokens stay what they are when files are opened.
LEMMA Commented ==
  ASSUME stack' # <<>>, NEW g, g = stack'[Len(stack')], NEW T, T = entries'[g.file].text, AllWait(stack'),
         AllSpoken(entries', tokens', Len(tokens')), AllSaid(entries', tokens', comments', Len(tokens')),
         TopHolds(entries', tokens', g, T)
  PROVE  CommentsInv'
  BY DEF CommentsInv, Ended, Top, Text

\* A file is opened, and nothing of it has been read.
LEMMA FreshHolds ==
  ASSUME NEW list, NEW out, ~HasMore(list, out, Len(out)), NEW T, DOMAIN T[1] \subseteq Nat \ {0}, NEW g,
         g.pending = <<>>, g.attachmentLine = 0, g.line = 0, g.column = 0
  PROVE  TopHolds(list, out, g, T)
  <1>1. 1 .. Len(<<>>) = {} /\ 0 + 1 = 1
    OBVIOUS
  <1>2. Waits(list, out, g, T)
    BY <1>1 DEF Waits
  <1>3. \A r \in DOMAIN T[1] : ~(r < 1)
    OBVIOUS
  <1>4. Keeps(out, g, T)
    BY <1>1, <1>3 DEF Keeps, Follows
  <1> QED BY <1>2, <1>4 DEF TopHolds, Attaches, Pursues

\* A header is entered: its includer has read the word that ends the directive.
LEMMA EnterComments ==
  ASSUME InclusionInv, InclusionInv', CommentsInv, Reading, EnterInclude
  PROVE  CommentsInv'
  <1> DEFINE m == Top
             t == Lex(m)
             T == Text(m)
             l == m.line + 1
             k == t.line + 1
             n == Len(stack)
             f == Flushed(Advance(m), t)
             name == Arg(f.directive, 1)
             found == Search(Manager, name)
             o == [f EXCEPT !.redirected = <<t>>]
             range == IF f.expansion # <<>> THEN f.expansion ELSE <<f.directive[2].line, f.directive[2].column>>
             inner == NewMachine(found.file, f.depth + 1, range, Len(tokens), Len(comments'))
             now == [stack EXCEPT ![n] = o]
             new == entries'
  <1>1. /\ stack # <<>> /\ ~m.ended /\ ~IsComment(t) /\ EndsDirective(m, t) /\ TriesInclude(f)
        /\ comments' = FlushedComments(m, t) /\ tokens' = tokens /\ new = found.src.entries
        /\ stack' = Append(now, inner)
    BY DEF Reading, EnterInclude, Replaced
  <1>2. /\ m = Top /\ t = Lex(m) /\ T = Text(m) /\ l = m.line + 1 /\ k = t.line + 1 /\ f = Flushed(Advance(m), t)
        /\ name = Arg(f.directive, 1) /\ found = Search(Manager, name)
    OBVIOUS
  <1>3. inner.pending = <<>> /\ inner.attachmentLine = 0 /\ inner.line = 0 /\ inner.column = 0
    BY DEF NewMachine
  <1>4. o = [f EXCEPT !.redirected = <<t>>] /\ now = [stack EXCEPT ![n] = o] /\ n = Len(stack)
    OBVIOUS
  <1> HIDE DEF m, t, T, l, k, n, f, name, found, o, range, inner, now, new
  <1>5. /\ stack \in Seq(Machine) /\ n \in Nat /\ n > 0 /\ m \in Machine
        /\ tokens \in Seq(OutToken) /\ Len(tokens) \in Nat
        /\ m.file \in 1 .. Len(entries) /\ Len(entries) \in Nat /\ T \in FileTexts /\ T = entries[m.file].text
        /\ AllSpoken(entries, tokens, Len(tokens)) /\ AllWait(stack) /\ TopHolds(entries, tokens, m, T)
        /\ HasMore(entries, tokens, Len(tokens)) => tokens[Len(tokens)].column \in Nat
    BY <1>1, <1>2, <1>4, BeforeStep
  <1>6. NextPlace(m, T, t, l, k) /\ t \in Token /\ l \in Nat /\ k \in Nat
    BY <1>2, NextRead
  <1>7. ~HasMore(entries, tokens, Len(tokens))
    <2>1. m.state # "Default"
      BY <1>1 DEF EndsDirective, InDirective
    <2>2. Pursues(entries, tokens, m, T)
      BY <1>5 DEF TopHolds
    <2> HIDE DEF Machine
    <2> QED BY <1>5, <1>6, <2>1, <2>2, NothingMore
  <1>8. o \in Machine /\ o.pending = <<>> /\ o.attachmentLine = o.line
    <2> DEFINE r == <<t>>
    <2>1. r \in Seq(Token) /\ o = [f EXCEPT !.redirected = r]
      BY <1>4, <1>6
    <2>2. f \in Machine /\ f.line = t.line /\ f.pending = <<>> /\ f.attachmentLine = t.line
      <3> HIDE DEF Machine, Token
      <3> QED BY <1>2, <1>5, <1>6, AdvancedFlushed
    <2> HIDE DEF r, Token
    <2> QED BY <2>1, <2>2 DEF Machine
  <1>9. now \in Seq(Machine) /\ Len(now) = n /\ \A j \in 1 .. n : now[j] = IF j = n THEN o ELSE stack[j]
    <2>1. n \in 1 .. n
      BY <1>5
    <2> HIDE DEF Machine
    <2> QED BY <1>4, <1>5, <1>8, <2>1, ExceptSeq
  <1> DEFINE S == Machine \cup {inner}
  <1>10. Len(stack') = n + 1 /\ stack'[n + 1] = inner /\ \A j \in 1 .. n : stack'[j] = now[j]
    <2> HIDE DEF Machine
    <2>1. now \in Seq(S) /\ inner \in S
      <3>1. \A j \in 1 .. n : now[j] \in S
        BY <1>9, ElementOfSeq
      <3>2. now = [j \in 1 .. n |-> now[j]]
        BY <1>9, LenProperties
      <3>3. n \in Nat
        BY <1>5
      <3> HIDE DEF S
      <3>4. now \in Seq(S)
        BY <3>1, <3>2, <3>3, IsASeq
      <3> QED BY <3>4 DEF S
    <2> HIDE DEF S
    <2> QED BY <1>1, <1>9, <2>1, AppendProperties
  <1>11. stack' # <<>> /\ inner = stack'[Len(stack')]
    <2>1. Len(<<>>) = 0 /\ n + 1 # 0
      BY <1>5
    <2> QED BY <1>10, <2>1
  <1>12. AllWait(stack')
    <2>1. \A j \in 1 .. Len(stack') - 1 : j \in 1 .. n /\ (j = n \/ j \in 1 .. n - 1)
      BY <1>5, <1>10
    <2>2. \A j \in 1 .. n - 1 : stack[j].pending = <<>> /\ stack[j].attachmentLine = stack[j].line
      BY <1>4, <1>5 DEF AllWait
    <2> QED BY <1>8, <1>9, <1>10, <2>1, <2>2 DEF AllWait
  <1>13. Grows(entries, new) /\ new \in Seq(Entry) /\ Len(new) \in Nat
    <2>1. name \in DOMAIN Canonical
      BY <1>1, <1>2 DEF TriesInclude
    <2>2. disk \in Disks /\ SourcesOK(disk, entries, lookup, canonical)
      BY <1>1, WhileReading
    <2>3. Grows(entries, found.src.entries) /\ SourcesOK(disk, found.src.entries, found.src.lookup, found.src.canonical)
      BY <1>2, <2>1, <2>2, ManagerSearched
    <2>4. new \in Seq(Entry)
      BY <1>1, <2>3 DEF SourcesOK
    <2> HIDE DEF Entry
    <2> QED BY <1>1, <2>3, <2>4, LenProperties
  <1> DEFINE U == new[inner.file].text
  <1>14. DOMAIN U[1] \subseteq Nat \ {0}
    <2>1. U \in FileTexts
      <3> DEFINE st == stack'
                 out == tokens'
                 c == config'
                 onDisk == disk'
      <3>1. IsRunning(onDisk, new, st, out, c) /\ onDisk \in Disks /\ new \in Seq(Entry)
        BY <1>11 DEF InclusionInv, NothingYet, Loaded, SourcesOK, new
      <3>2. inner = st[Len(st)]
        BY <1>11
      <3> HIDE DEF st, out, c, onDisk
      <3> QED BY <3>1, <3>2, TopOfRunning
    <2>2. 1 \in 1 .. Len(U) /\ U[1] \in Seq(Word)
      BY <2>1, TextTyped
    <2> HIDE DEF U, Word
    <2>3. DOMAIN U[1] = 1 .. Len(U[1]) /\ Len(U[1]) \in Nat
      BY <2>2, LenProperties
    <2> QED BY <2>3
  <1> HIDE DEF U
  <1>15. TopHolds(new, tokens, inner, U)
    <2>1. ~HasMore(new, tokens, Len(tokens))
      <3> DEFINE len == Len(tokens)
      <3>1. len \in 0 .. Len(tokens) /\ len \in Nat /\ Grows(tokens, tokens) /\ AllSpoken(entries, tokens, len)
        BY <1>5 DEF Grows
      <3>2. ~HasMore(entries, tokens, len)
        BY <1>7
      <3>3. Len(tokens) \in Nat
        BY <1>5
      <3> HIDE DEF len
      <3>4. len \in 0 .. len
        BY <3>1
      <3>5. len > 0 => tokens[len].file \in 1 .. Len(entries)
        BY <3>1, <3>4, SpokenOfFiles
      <3>6. ~HasMore(new, tokens, len)
        BY <1>13, <3>1, <3>2, <3>3, <3>5, HasMoreOn
      <3> QED BY <3>6 DEF len
    <2> QED BY <1>3, <1>14, <2>1, FreshHolds
  <1>16. AllSpoken(new, tokens, Len(tokens)) /\ AllSaid(new, tokens, comments', Len(tokens))
    <2> DEFINE len == Len(tokens)
               said == comments'
    <2>1. len = Len(tokens) /\ len \in Nat /\ len \in 0 .. Len(tokens) /\ len <= len /\ Grows(tokens, tokens) /\ AllSpoken(entries, tokens, len)
      BY <1>5 DEF Grows
    <2>2. AllSaid(entries, tokens, said, len)
      BY <1>1, <1>2, FlushedComment
    <2> HIDE DEF len, said
    <2>3. Len(tokens) \in Nat
      BY <2>1
    <2>4. AllSpoken(new, tokens, len)
      BY <1>5, <1>13, <2>1, <2>3, AllSpokenOn
    <2>5. AllSaid(new, tokens, said, len)
      BY <1>5, <1>13, <2>1, <2>2, <2>3, AllSaidOn
    <2> QED BY <2>4, <2>5 DEF len, said
  <1>17. U = entries'[inner.file].text /\ new = entries'
    BY DEF U, new
  <1> HIDE DEF Machine
  <1> QED BY <1>1, <1>11, <1>12, <1>15, <1>16, <1>17, Commented

\* A header is left: its includer goes on with the word that ended the directive.
LEMMA LeaveComments ==
  ASSUME InclusionInv, InclusionInv', CommentsInv, LeaveFile
  PROVE  CommentsInv'
  <1> DEFINE n == Len(stack)
             b == n - 1
             outer == stack[b]
             t == outer.redirected[1]
             i == [outer EXCEPT !.redirected = <<>>]
             m == AfterDirective(i)
             g == AcceptOnText(m, t)
             T == entries[outer.file].text
             P == entries[outer.file].path
             H == HeadersAt(disk, outer.depth)
  <1>1. /\ n > 1 /\ Top.ended /\ tokens' = Output(m, t) /\ comments' = comments
        /\ stack' = Append(SubSeq(stack, 1, n - 2), g) /\ UNCHANGED <<disk, entries>>
    BY DEF LeaveFile, sources
  <1>2. stack # <<>>
    <2>1. Len(<<>>) = 0
      OBVIOUS
    <2> QED BY <1>1, <2>1
  <1>3. /\ stack \in Seq(Machine) /\ n \in Nat
        /\ tokens \in Seq(OutToken) /\ Len(tokens) \in Nat /\ entries \in Seq(Entry) /\ Len(entries) \in Nat /\ disk \in Disks
        /\ AllSpoken(entries, tokens, Len(tokens)) /\ AllSaid(entries, tokens, comments, Len(tokens))
        /\ AllWait(stack) /\ TopHolds(entries, tokens, Top, Text(Top))
    BY <1>2, BeforeStep
  <1>4. /\ b \in Nat /\ b > 0 /\ b \in 1 .. n /\ b \in 1 .. n - 1 /\ n - 2 = b - 1 /\ b + 1 = n /\ b \in 1 .. b
    <2>1. n \in Nat /\ n > 1
      BY <1>1, <1>3
    <2> HIDE DEF n
    <2> QED BY <2>1
  <1>5. Leaves(stack, n, outer, t, m, stack')
    BY <1>1 DEF Leaves, Top
  <1>6. IsRunning(disk, entries, stack, tokens, config)
    BY <1>2, WhileReading
  <1>7. i = [outer EXCEPT !.redirected = <<>>] /\ m = AfterDirective(i) /\ g = AcceptOnText(m, t) /\ n = Len(stack) /\ outer = stack[b] /\ T = entries[outer.file].text
    OBVIOUS
  <1> HIDE DEF n, b, outer, t, m, g, i, T, P, H
  <1>8. PICK parts, totals : Stacked(disk, entries, stack, parts, totals)
    BY <1>6 DEF IsRunning
  <1>9. t \in Token /\ t.file = outer.file /\ t.file \in 1 .. Len(entries)
    BY <1>3, <1>5, <1>8, Left
  <1>10. WaitsFor(disk, entries, outer, stack[b + 1], parts[b])
    BY <1>4, <1>7, <1>8 DEF Stacked, Levels
  <1>11. \E items : Arrives(m, t, P, T, H, items)
    BY <1>10 DEF WaitsFor, m, t, i, P, T, H
  <1>12. /\ ~m.ended
         /\ ~IsEof(t) => /\ t.first /\ t.column = 0 /\ ~IsComment(t)
                         /\ t.line + 1 \in 1 .. Len(T) /\ T[t.line + 1] # <<>> /\ T[t.line + 1][1] = t.text
                         /\ m.line = t.line /\ m.column = 1
    BY <1>11 DEF Arrives
  <1>13. outer \in Machine /\ outer.pending = <<>> /\ outer.attachmentLine = outer.line
    <2>1. outer.pending = <<>> /\ outer.attachmentLine = outer.line
      BY <1>3, <1>4, <1>7 DEF AllWait
    <2> HIDE DEF Machine
    <2> QED BY <1>3, <1>4, <1>7, <2>1, ElementOfSeq
  <1>14. m \in Machine /\ m.file = outer.file /\ m.pending = <<>> /\ m.attachmentLine = m.line
    <2>1. i \in Machine /\ i.file = outer.file /\ i.pending = <<>> /\ i.attachmentLine = i.line
      <3>1. <<>> \in Seq(Token)
        OBVIOUS
      <3> HIDE DEF Token
      <3> QED BY <1>7, <1>13, <3>1 DEF Machine
    <2>2. m \in Machine
      BY <1>7, <2>1, AfterTyped
    <2> HIDE DEF Token
    <2> QED BY <1>7, <2>1, <2>2 DEF AfterDirective, Machine
  <1>15. g \in Machine /\ g.file = m.file /\ (~IsEof(t) /\ ~IsDirectiveHash(t) => g = m)
    <2>1. g \in Machine /\ Kept(m, g) /\ (~IsEof(t) /\ ~IsDirectiveHash(t) => g = m)
      <3> HIDE DEF Machine, Token
      <3> QED BY <1>7, <1>9, <1>14, AcceptedText
    <2> QED BY <2>1 DEF Kept
  <1> HIDE DEF Machine, Token, OutToken, Entry
  <1>16. Len(stack') = b /\ stack'[b] = g /\ \A k \in 1 .. b - 1 : stack'[k] = stack[k]
    <2>1. AcceptOnText(m, t) \in Machine
      BY <1>7, <1>15
    <2>2. Len(stack') = n - 1 /\ stack'[n - 1] = AcceptOnText(m, t) /\ \A k \in 1 .. n - 2 : stack'[k] = stack[k]
      BY <1>3, <1>5, <2>1, StackLeft
    <2>3. n - 1 = b
      BY DEF b
    <2> QED BY <1>4, <1>7, <2>2, <2>3
  <1>17. stack' # <<>> /\ g = stack'[Len(stack')]
    <2>1. Len(<<>>) = 0
      OBVIOUS
    <2> QED BY <1>4, <1>16, <2>1
  <1>18. T \in FileTexts /\ Len(T) \in Nat
    <2>1. T \in FileTexts
      <3>1. entries[outer.file] \in Entry
        BY <1>3, <1>9, ElementOfSeq
      <3> QED BY <1>7, <3>1 DEF Entry
    <2> QED BY <2>1, TextTyped
  <1>19. ~HasMore(entries, tokens, Len(tokens))
    BY <1>1, <1>3 DEF TopHolds, Pursues
  <1>20. Comes(entries, tokens, m, t, T)
    <2> DEFINE x == t.line + 1
    <2>1. ASSUME IsOutput(m, t) PROVE Speaks(entries, tokens, t, T, x, t.column + 1) /\ StandsAt(m, t)
      <3>1. m.state = "Default" /\ ~IsDirectiveHash(t) /\ ~IsEof(t) /\ g = m
        BY <1>15, <2>1 DEF IsOutput
      <3>2. /\ t.column = 0 /\ ~IsComment(t) /\ x \in 1 .. Len(T) /\ T[x] # <<>> /\ T[x][1] = t.text
            /\ m.line = t.line /\ m.column = 1
        BY <1>12, <3>1
      <3>3. t.column + 1 = 1 /\ m.column = t.column + 1 /\ m.column > 0 /\ m.line + 1 = x
        BY <3>2
      <3> HIDE DEF x
      <3>4. DOMAIN T[x] = 1 .. Len(T[x]) /\ Len(T[x]) \in Nat /\ 1 \in 1 .. Len(T[x])
        <4>1. T[x] \in Seq(Word)
          BY <1>18, <3>2, TextTyped
        <4> HIDE DEF Word
        <4>2. Len(T[x]) \in Nat /\ DOMAIN T[x] = 1 .. Len(T[x]) /\ (Len(T[x]) = 0 => T[x] = <<>>)
          BY <4>1, LenProperties, EmptySeq
        <4> QED BY <3>2, <4>2
      <3>5. IsPlain(T, x)
        <4>1. g.file \in 1 .. Len(entries') /\ T = entries'[g.file].text
          BY <1>1, <1>7, <1>9, <1>14, <1>15
        <4>2. IsPlain(T, g.line + 1)
          BY <1>12, <1>17, <3>1, <3>3, <4>1, AfterStep
        <4> QED BY <3>1, <3>3, <4>2
      <3>6. Follows(tokens, Len(tokens), t.file, T, x, 1)
        <4>1. \A r \in DOMAIN T[x] : ~(r < 1)
          BY <3>4
        <4> QED BY <4>1 DEF Follows
      <3>7. T[x][1] # "//"
        BY <3>2 DEF IsComment
      <3>8. StandsAt(m, t)
        BY <1>9, <1>12, <1>14, <3>1, <3>2, <3>3 DEF StandsAt
      <3> QED BY <1>7, <1>9, <3>2, <3>3, <3>4, <3>5, <3>6, <3>7, <3>8 DEF Speaks, x
    <2> QED BY <1>7, <1>9, <1>12, <1>14, <1>19, <2>1 DEF Comes
  <1>21. GoneOn(entries, tokens, tokens', g, T)
    <2> DEFINE outs == tokens'
    <2>1. outs = IF IsOutput(m, t) THEN Append(tokens, OutputToken(t)) ELSE tokens
      BY <1>1 DEF Output
    <2> HIDE DEF outs
    <2>2. GoneOn(entries, tokens, outs, g, T)
      BY <1>3, <1>7, <1>9, <1>14, <1>18, <1>20, <2>1, ShownHolds
    <2> QED BY <2>2 DEF outs
  <1>22. AllSaid(entries, tokens', comments', Len(tokens'))
    <2> DEFINE outs == tokens'
               said == comments'
               len == Len(tokens)
               more == Len(outs)
    <2>1. AllSaid(entries, tokens, said, len)
      BY <1>1, <1>3
    <2>2. Grows(tokens, outs) /\ more \in Nat /\ len \in Nat /\ Grows(entries, entries)
      BY <1>3, <1>21 DEF GoneOn, Grows
    <2>3. len <= more /\ len = Len(tokens) /\ more = Len(outs) /\ AllSpoken(entries, tokens, len)
      BY <1>3, <2>2 DEF Grows
    <2> HIDE DEF outs, said, len, more
    <2>4. AllSaid(entries, outs, said, more)
      BY <1>3, <2>1, <2>2, <2>3, AllSaidOn
    <2> QED BY <2>4 DEF outs, said, more
  <1>23. AllWait(stack')
    <2>1. \A j \in 1 .. b - 1 : j \in 1 .. n - 1
      BY <1>4
    <2> QED BY <1>3, <1>7, <1>16, <2>1 DEF AllWait
  <1>24. T = entries'[g.file].text
    BY <1>1, <1>7, <1>14, <1>15
  <1> QED BY <1>1, <1>17, <1>21, <1>22, <1>23, <1>24, Commented DEF GoneOn

\* The main file ends, with a token of its own.
LEMMA FinishComments ==
  ASSUME InclusionInv, CommentsInv, Finish
  PROVE  CommentsInv'
  <1> DEFINE o == OutputToken(Lex(Top))
             outs == tokens'
  <1>1. Len(stack) = 1 /\ outs = Append(tokens, o) /\ comments' = comments /\ stack' = <<>> /\ entries' = entries
    BY DEF Finish, sources
  <1> HIDE DEF o, outs
  <1>2. stack # <<>>
    <2>1. Len(<<>>) = 0
      OBVIOUS
    <2>2. Len(stack) # 0
      BY <1>1
    <2> QED BY <2>1, <2>2
  <1>3. /\ tokens \in Seq(OutToken) /\ Len(tokens) \in Nat /\ Len(entries) \in Nat
        /\ AllSpoken(entries, tokens, Len(tokens)) /\ AllSaid(entries, tokens, comments, Len(tokens))
    BY <1>2, BeforeStep
  <1> DEFINE W == OutToken \cup {o}
             len == Len(tokens)
             more == Len(outs)
  <1>4. tokens \in Seq(W) /\ o \in W
    <2> HIDE DEF OutToken
    <2>1. \A k \in 1 .. Len(tokens) : tokens[k] \in W
      BY <1>3, ElementOfSeq
    <2>2. tokens = [k \in 1 .. Len(tokens) |-> tokens[k]] /\ Len(tokens) \in Nat
      BY <1>3, LenProperties
    <2> QED BY <2>1, <2>2, IsASeq
  <1> HIDE DEF W
  <1>5. /\ more = len + 1 /\ more - 1 = len /\ len <= len /\ len \in Nat /\ more \in Nat /\ len \in 0 .. len
        /\ Grows(tokens, outs) /\ Grows(entries, entries) /\ more > 0 /\ \A k \in 1 .. len : outs[k] \in OutToken
    <2>5. \A k \in 1 .. len : tokens[k] \in OutToken
      <3> HIDE DEF OutToken
      <3> QED BY <1>3, ElementOfSeq
    <2>1. more = len + 1 /\ \A k \in 1 .. len : outs[k] = tokens[k]
      BY <1>1, <1>4, AppendProperties
    <2>3. len \in Nat
      BY <1>3
    <2> HIDE DEF len, OutToken
    <2>4. more > 0
      BY <2>1, <2>3
    <2> QED BY <2>1, <2>3, <2>4, <2>5 DEF Grows, len
  <1>6. len = Len(tokens) /\ more = Len(outs)
    OBVIOUS
  <1> HIDE DEF len, more, OutToken
  <1>7. Len(tokens) \in Nat /\ Len(outs) \in Nat /\ AllSpoken(entries, tokens, len) /\ AllSaid(entries, tokens, comments, len) /\ len \in 0 .. Len(tokens)
    BY <1>3, <1>5, <1>6
  <1>8. AllSpoken(entries, outs, len)
    BY <1>3, <1>5, <1>7, AllSpokenOn
  <1>9. AllSaid(entries, outs, comments, len)
    BY <1>3, <1>5, <1>6, <1>7, AllSaidOn
  <1> QED BY <1>1, <1>5, <1>8, <1>9 DEF CommentsInv, outs, more

\* The main file is opened.
LEMMA StartComments ==
  ASSUME InclusionInv, InclusionInv', StartMainFile
  PROVE  CommentsInv'
  <1> DEFINE m == NewMachine(MainFile, 0, <<>>, 0, 0)
             now == <<m>>
             list == entries'
  <1>1. entries = <<>> /\ NothingYet /\ stack' = now /\ tokens' = tokens /\ comments' = comments
    BY DEF InclusionInv, StartMainFile
  <1>2. tokens = <<>> /\ comments = <<>>
    BY <1>1 DEF NothingYet
  <1>3. Len(<<>>) = 0 /\ 1 .. 0 = {} /\ 1 .. 0 - 1 = {} /\ 1 .. 1 - 1 = {}
    OBVIOUS
  <1>4. m.pending = <<>> /\ m.attachmentLine = 0 /\ m.line = 0 /\ m.column = 0
    BY DEF NewMachine
  <1> HIDE DEF m, list
  <1>5. Len(now) = 1 /\ now[1] = m /\ now # <<>>
    OBVIOUS
  <1> HIDE DEF now
  <1>6. stack' # <<>> /\ m = stack'[Len(stack')]
    BY <1>1, <1>5
  <1> DEFINE U == list[m.file].text
  <1>7. DOMAIN U[1] \subseteq Nat \ {0}
    <2>1. U \in FileTexts
      <3> DEFINE st == stack'
                 out == tokens'
                 c == config'
                 onDisk == disk'
      <3>1. IsRunning(onDisk, list, st, out, c) /\ onDisk \in Disks /\ list \in Seq(Entry)
        BY <1>6 DEF InclusionInv, NothingYet, Loaded, SourcesOK, list
      <3>2. m = st[Len(st)]
        BY <1>6
      <3> HIDE DEF st, out, c, onDisk
      <3> QED BY <3>1, <3>2, TopOfRunning
    <2>2. 1 \in 1 .. Len(U) /\ U[1] \in Seq(Word)
      BY <2>1, TextTyped
    <2> HIDE DEF U, Word
    <2>3. DOMAIN U[1] = 1 .. Len(U[1]) /\ Len(U[1]) \in Nat
      BY <2>2, LenProperties
    <2> QED BY <2>3
  <1> HIDE DEF U
  <1>8. TopHolds(list, tokens, m, U)
    <2>1. ~HasMore(list, tokens, Len(tokens))
      <3>1. 0 \notin 1 .. 0
        OBVIOUS
      <3> QED BY <1>2, <1>3, <3>1 DEF HasMore
    <2> QED BY <1>4, <1>7, <2>1, FreshHolds
  <1>9. AllSpoken(list, tokens, Len(tokens)) /\ AllSaid(list, tokens, comments, Len(tokens))
    BY <1>2, <1>3 DEF AllSpoken, AllSaid
  <1>10. AllWait(stack')
    BY <1>1, <1>3, <1>5 DEF AllWait
  <1> QED BY <1>1, <1>6, <1>8, <1>9, <1>10, Commented DEF list, U

\* Every step keeps what is known of the comments.
LEMMA CommentStepKeeps ==
  ASSUME InclusionInv, InclusionInv', CommentsInv, [FileNext]_fileVars
  PROVE  CommentsInv'
  <1>1. CASE UNCHANGED fileVars
    <2>1. UNCHANGED <<entries, stack, tokens, comments>>
      BY <1>1 DEF fileVars
    <2> QED BY <2>1 DEF CommentsInv, Ended, Top, Text
  <1>2. CASE StartMainFile
    BY <1>2, StartComments
  <1>3. CASE Reading /\ FeedComment
    BY <1>3, CommentComments
  <1>4. CASE Reading /\ SkipInactive
    BY <1>4, SkippedComments
  <1>5. CASE Reading /\ FeedText
    BY <1>5, TextComments
  <1>6. CASE Reading /\ FeedDirectiveToken
    BY <1>6, DirectiveTokenComments
  <1>7. CASE Reading /\ EndDirective
    BY <1>7, DirectiveEndComments
  <1>8. CASE Reading /\ EnterInclude
    BY <1>8, EnterComments
  <1>9. CASE LeaveFile
    BY <1>9, LeaveComments
  <1>10. CASE Finish
    BY <1>10, FinishComments
  <1> QED BY <1>1, <1>2, <1>3, <1>4, <1>5, <1>6, <1>7, <1>8, <1>9, <1>10 DEF FileNext, Halted

-----------------------------------------------------------------------------
(* The comments that are shown.                                             *)

\* A position in a text, counted from 0.
IsPosition(T, p) == p = <<p[1], p[2]>> /\ p[1] \in Nat /\ p[2] \in Nat /\ IsPlace(T, p[1] + 1, p[2] + 1)

\* The text of a file, and its positions.
IsLines(T) ==
    /\ Len(T) \in Nat
    /\ \A x \in 1 .. Len(T) : T[x] \in Seq(Word) /\ Len(T[x]) \in Nat /\ DOMAIN T[x] = 1 .. Len(T[x])
PlacesOfFile(file, T) ==
    /\ IsLines(T)
    /\ \A p : p \in TextPositions(file) <=> IsPosition(T, p)

LEMMA PositionsTyped ==
  ASSUME entries \in Seq(Entry), NEW file \in 1 .. Len(entries), NEW T, T = entries[file].text
  PROVE  PlacesOfFile(file, T)
  <1>1. T \in FileTexts
    <2>1. entries[file] \in Entry
      <3> HIDE DEF Entry
      <3> QED BY ElementOfSeq
    <2> QED BY <2>1 DEF Entry
  <1>2. Len(T) \in Nat /\ \A x \in 1 .. Len(T) : T[x] \in Seq(Word) /\ Len(T[x]) \in Nat
    BY <1>1, TextTyped
  <1>3. \A x \in 1 .. Len(T) : DOMAIN T[x] = 1 .. Len(T[x])
    BY <1>2, LenProperties
  <1>4. ASSUME NEW p, p \in TextPositions(file) PROVE IsPosition(T, p)
    <2>1. PICK l \in 0 .. Len(T) - 1 : p \in {l} \X (0 .. Len(T[l + 1]) - 1)
      BY <1>4 DEF TextPositions
    <2>2. p = <<p[1], p[2]>> /\ p[1] = l /\ p[2] \in 0 .. Len(T[l + 1]) - 1
      BY <2>1
    <2>3. l \in Nat /\ l + 1 \in 1 .. Len(T) /\ Len(T[l + 1]) \in Nat
      <3>1. l \in Nat /\ l + 1 \in 1 .. Len(T)
        BY <1>2
      <3> QED BY <1>2, <3>1
    <2>4. p[2] \in Nat /\ p[2] + 1 \in 1 .. Len(T[l + 1])
      <3> DEFINE len == Len(T[l + 1])
                 y == p[2]
      <3>1. len \in Nat /\ y \in 0 .. len - 1
        BY <2>2, <2>3
      <3> HIDE DEF len, y
      <3>2. y \in Nat /\ y + 1 \in 1 .. len
        BY <3>1
      <3> QED BY <3>2 DEF len, y
    <2> QED BY <2>2, <2>3, <2>4 DEF IsPlace, IsPosition
  <1>5. ASSUME NEW p, IsPosition(T, p) PROVE p \in TextPositions(file)
    <2> DEFINE l == p[1]
               y == p[2]
    <2>1. l \in 0 .. Len(T) - 1 /\ l + 1 \in 1 .. Len(T) /\ y + 1 \in 1 .. Len(T[l + 1]) /\ y \in Nat
      BY <1>2, <1>5 DEF IsPlace, IsPosition
    <2>2. y \in 0 .. Len(T[l + 1]) - 1
      <3> DEFINE len == Len(T[l + 1])
      <3>1. len \in Nat /\ y + 1 \in 1 .. len /\ y \in Nat
        BY <1>2, <2>1
      <3> HIDE DEF len, y
      <3>2. y \in 0 .. len - 1
        BY <3>1
      <3> QED BY <3>2 DEF len
    <2>3. p \in {l} \X (0 .. Len(T[l + 1]) - 1)
      BY <1>5, <2>2 DEF IsPosition
    <2> QED BY <2>1, <2>3 DEF TextPositions
  <1>6. \A p : p \in TextPositions(file) <=> IsPosition(T, p)
    BY <1>4, <1>5
  <1>7. \A x \in 1 .. Len(T) : T[x] \in Seq(Word) /\ Len(T[x]) \in Nat /\ DOMAIN T[x] = 1 .. Len(T[x])
    BY <1>2, <1>3
  <1> HIDE DEF Word
  <1> QED BY <1>1, <1>2, <1>6, <1>7 DEF PlacesOfFile, IsLines

\* A comment behind a token, behind which there are only comments in its line.
IsLast(T, c, u) ==
    /\ c.column > u.column
    /\ \A y \in DOMAIN T[c.line + 1] : u.column + 1 < y => T[c.line + 1][y] = "//"

\* A comment before a token, with only comments from its line up to the token.
LeadsUpTo(T, c, u) ==
    /\ IsBehind(c.line, c.column, u.line, u.column)
    /\ \A x \in 1 .. Len(T) : \A y \in DOMAIN T[x] :
           /\ IsBehind(x, y, u.line + 1, u.column + 1)
           /\ IsBehind(c.line + 1, c.column + 1, x, y) \/ x = c.line + 1
           => T[x][y] = "//"

\* A comment that is followed by another line than its own, in the line of the
\* token before it: the comments behind that token end the line.
LEMMA EndsLine ==
  ASSUME NEW list, NEW out, NEW T, IsLines(T),
         NEW c \in Comment, Said(list, out, c, T), NEW u, u = out[c.nextTokenIndex], Spoken(list, out, c.nextTokenIndex, u, T),
         u \in OutToken, u.line = c.line, c.backAttachmentLine # c.line
  PROVE  IsLast(T, c, u)
  <1> DEFINE l == c.line + 1
             q == c.column + 1
             r == u.column + 1
             k == c.backAttachmentLine + 1
             e == c.nextTokenIndex
             L == T[l]
  <1>1. l \in Nat /\ q \in Nat /\ r \in Nat /\ k \in Nat /\ k # l /\ c.column = q - 1 /\ u.column = r - 1
    <2> DEFINE line == c.line
               column == c.column
               back == c.backAttachmentLine
               start == u.column
    <2>1. line \in Nat /\ column \in Nat /\ back \in Nat /\ back # line
      BY DEF Comment
    <2>2. start \in Nat
      BY DEF OutToken
    <2>3. l = line + 1 /\ q = column + 1 /\ r = start + 1 /\ k = back + 1
      OBVIOUS
    <2> HIDE DEF l, q, r, k, line, column, back, start
    <2>4. l \in Nat /\ q \in Nat /\ r \in Nat /\ k \in Nat /\ k # l /\ column = q - 1 /\ start = r - 1
      BY <2>1, <2>2, <2>3
    <2> QED BY <2>4 DEF column, start
  <1>2. l \in 1 .. Len(T) /\ q \in 1 .. Len(L) /\ L[q] = "//" /\ (IsPlain(T, l) => Follows(out, e, c.file, T, l, q)) /\ Clear(T, l, q, k, 0)
    BY DEF Said, Stands, IsPlace
  <1>3. r \in 1 .. Len(L) /\ L[r] # "//" /\ IsPlain(T, l)
    BY DEF Spoken, IsPlace
  <1>4. L \in Seq(Word) /\ Len(L) \in Nat /\ DOMAIN L = 1 .. Len(L)
    BY <1>2 DEF IsLines
  <1>5. u.column = out[e].column
    OBVIOUS
  <1> HIDE DEF l, q, r, k, e
  <1>6. \A y \in DOMAIN L : q < y => L[y] = "//"
    <2> SUFFICES ASSUME NEW y \in DOMAIN L, q < y PROVE L[y] = "//"
      OBVIOUS
    <2>1. l <= k /\ l < k
      BY <1>1, <1>2 DEF Clear
    <2>2. IsBehind(l, q, l, y) /\ ~IsBehind(k, 0, l, y)
      BY <1>1, <2>1 DEF IsBehind
    <2> QED BY <1>2, <2>2 DEF Clear
  <1> HIDE DEF L
  <1>7. r < q
    <2>1. ~(q < r)
      BY <1>3, <1>4, <1>6
    <2> QED BY <1>1, <1>2, <1>3, <2>1
  <1>8. PICK s \in 1 .. Len(L) : r <= s /\ s < q /\ L[s] # "//" /\ NoWord(L, s + 1, q - 1)
    <2> HIDE DEF Word
    <2> QED BY <1>1, <1>3, <1>4, <1>7, LastWord
  <1>9. s = r
    <2>1. IsOutputAt(out, e, c.file, l, s)
      BY <1>2, <1>3, <1>4, <1>8 DEF Follows, L
    <2>2. r - 1 = s - 1 /\ s \in Nat
      BY <1>1, <1>4, <1>5, <1>8, <2>1 DEF IsOutputAt
    <2> QED BY <1>1, <2>2
  <1>10. ASSUME NEW y \in DOMAIN L, r < y PROVE L[y] = "//"
    <2>1. CASE y < q
      <3>1. s + 1 <= y /\ y <= q - 1
        BY <1>1, <1>4, <1>9, <1>10, <2>1
      <3> QED BY <1>8, <3>1 DEF NoWord
    <2>2. CASE y = q
      BY <1>2, <2>2 DEF L
    <2>3. CASE q < y
      BY <1>6, <2>3
    <2> QED BY <1>1, <1>4, <2>1, <2>2, <2>3
  <1>11. q - 1 > r - 1
    BY <1>1, <1>7
  <1> QED BY <1>1, <1>10, <1>11 DEF IsLast, L, l, r

\* A comment that is preceded by another line than its own and followed by that of
\* the token behind it: there are only comments from its line up to that token.
LEMMA StandsAbove ==
  ASSUME NEW list, NEW out, NEW T, IsLines(T),
         NEW c \in Comment, Said(list, out, c, T), NEW u \in OutToken, Spoken(list, out, c.nextTokenIndex + 1, u, T), u.file = c.file,
         u.line = c.backAttachmentLine, c.frontAttachmentLine # c.line
  PROVE  LeadsUpTo(T, c, u)
  <1> DEFINE l == c.line + 1
             q == c.column + 1
             r == u.column + 1
             k == u.line + 1
             b == c.nextTokenIndex
  <1>1. /\ l \in Nat /\ q \in Nat /\ r \in Nat /\ k \in Nat /\ b \in Nat /\ b + 1 - 1 = b
        /\ c.line = l - 1 /\ c.column = q - 1 /\ u.line = k - 1 /\ u.column = r - 1
    <2> DEFINE line == c.line
               column == c.column
               below == u.line
               start == u.column
    <2>1. line \in Nat /\ column \in Nat /\ b \in Nat
      BY DEF Comment
    <2>2. below \in Nat /\ start \in Nat
      BY DEF OutToken
    <2>3. l = line + 1 /\ q = column + 1 /\ r = start + 1 /\ k = below + 1
      OBVIOUS
    <2> HIDE DEF l, q, r, k, b, line, column, below, start
    <2>4. /\ l \in Nat /\ q \in Nat /\ r \in Nat /\ k \in Nat /\ b \in Nat /\ b + 1 - 1 = b
          /\ line = l - 1 /\ column = q - 1 /\ below = k - 1 /\ start = r - 1
      BY <2>1, <2>2, <2>3
    <2> QED BY <2>4 DEF line, column, below, start
  <1>2. /\ l \in 1 .. Len(T) /\ q \in 1 .. Len(T[l]) /\ T[l][q] = "//" /\ NoWord(T[l], 1, q - 1) /\ Clear(T, l, q, k, 0)
        /\ T = list[c.file].text
        /\ HasMore(list, out, b) => c.line = out[b].line /\ c.column > out[b].column
    BY <1>1 DEF Said, Stands, IsPlace
  <1>3. k \in 1 .. Len(T) /\ r \in 1 .. Len(T[k]) /\ T[k][r] # "//" /\ Follows(out, b, c.file, T, k, r)
    BY <1>1 DEF Spoken, IsPlace
  <1>4. /\ T[l] \in Seq(Word) /\ Len(T[l]) \in Nat /\ DOMAIN T[l] = 1 .. Len(T[l])
        /\ T[k] \in Seq(Word) /\ Len(T[k]) \in Nat /\ DOMAIN T[k] = 1 .. Len(T[k])
    BY <1>2, <1>3 DEF IsLines
  <1> HIDE DEF l, q, r, k, b
  <1>5. NoWord(T[k], 1, r - 1)
    <2> SUFFICES ASSUME NEW s \in DOMAIN T[k], 1 <= s, s <= r - 1, T[k][s] # "//" PROVE FALSE
      BY DEF NoWord
    <2>1. s \in 1 .. Len(T[k]) /\ s < r
      BY <1>1, <1>4
    <2>2. PICK w \in 1 .. Len(T[k]) : s <= w /\ w < r /\ T[k][w] # "//" /\ NoWord(T[k], w + 1, r - 1)
      <3> DEFINE line == T[k]
      <3>1. line \in Seq(Word) /\ r \in Nat /\ s \in 1 .. Len(line) /\ s < r /\ line[s] # "//"
        BY <1>1, <1>4, <2>1
      <3> HIDE DEF line, Word
      <3>2. \E w \in 1 .. Len(line) : s <= w /\ w < r /\ line[w] # "//" /\ NoWord(line, w + 1, r - 1)
        BY <3>1, LastWord
      <3> QED BY <3>2 DEF line
    <2>3. IsOutputAt(out, b, c.file, k, w)
      BY <1>3, <1>4, <2>2 DEF Follows
    <2>4. b \in 1 .. Len(out) /\ out[b].file = c.file /\ out[b].line = k - 1 /\ out[b].column = w - 1 /\ w \in Nat
      BY <1>4, <2>2, <2>3 DEF IsOutputAt
    <2>5. HasMore(list, out, b)
      <3>1. out[b].line + 1 = k /\ out[b].column + 1 = w
        BY <1>1, <2>4
      <3>2. list[out[b].file].text[out[b].line + 1] = T[k]
        BY <1>2, <2>4, <3>1
      <3> QED BY <1>3, <1>4, <2>2, <2>4, <3>1, <3>2 DEF HasMore
    <2>6. l - 1 = k - 1 /\ q - 1 > w - 1
      BY <1>1, <1>2, <2>4, <2>5
    <2>7. l = k /\ 1 <= w /\ w <= q - 1
      BY <1>1, <1>4, <2>2, <2>4, <2>6
    <2> QED BY <1>2, <1>4, <2>2, <2>7 DEF NoWord
  <1>6. l < k \/ (l = k /\ q < r)
    <2>1. l <= k
      BY <1>2 DEF Clear
    <2>2. ASSUME l = k, ~(q < r) PROVE FALSE
      <3>1. q = r \/ (1 <= r /\ r <= q - 1)
        BY <1>1, <1>3, <1>4, <2>2
      <3> QED BY <1>2, <1>3, <1>4, <2>2, <3>1 DEF NoWord
    <2> QED BY <1>1, <2>1, <2>2
  <1>7. ASSUME NEW x \in 1 .. Len(T), NEW y \in DOMAIN T[x], IsBehind(x, y, k, r), IsBehind(l, q, x, y) \/ x = l PROVE T[x][y] = "//"
    <2>1. x \in Nat /\ y \in Nat /\ 1 <= y
      BY DEF IsLines
    <2>2. x < k \/ (x = k /\ y < r)
      BY <1>7 DEF IsBehind
    <2>3. CASE x = l /\ y < q
      <3>1. y <= q - 1
        BY <1>1, <2>1, <2>3
      <3> QED BY <1>2, <1>7, <2>1, <2>3, <3>1 DEF NoWord
    <2>4. CASE x = l /\ y = q
      BY <1>2, <2>4
    <2>5. CASE IsBehind(l, q, x, y) /\ x < k
      <3>1. ~IsBehind(k, 0, x, y)
        BY <1>1, <2>1, <2>5 DEF IsBehind
      <3> QED BY <1>2, <1>7, <2>5, <3>1 DEF Clear
    <2>6. CASE x = k /\ y < r
      <3>1. y <= r - 1
        BY <1>1, <2>1, <2>6
      <3> QED BY <1>5, <1>7, <2>1, <2>6, <3>1 DEF NoWord
    <2>7. IsBehind(l, q, x, y) \/ (x = l /\ y < q) \/ (x = l /\ y = q)
      BY <1>1, <1>7, <2>1 DEF IsBehind
    <2> QED BY <2>2, <2>3, <2>4, <2>5, <2>6, <2>7
  <1>8. IsBehind(c.line, c.column, u.line, u.column)
    <2>1. l - 1 < k - 1 \/ (l - 1 = k - 1 /\ q - 1 < r - 1)
      BY <1>1, <1>6
    <2> QED BY <1>1, <2>1 DEF IsBehind
  <1> QED BY <1>7, <1>8 DEF LeadsUpTo, l, q, r, k

\* What is known in the end.
LEMMA CommentsEnd ==
  ASSUME CommentsInv, Ended, NEW n, n = Len(tokens)
  PROVE  /\ n \in Nat /\ n > 0 /\ \A k \in 1 .. n - 1 : tokens[k] \in OutToken
         /\ AllSpoken(entries, tokens, n - 1) /\ AllSaid(entries, tokens, comments, n - 1)
BY DEF CommentsInv

LEMMA ShownSaid ==
  ASSUME NEW list, NEW out, NEW len, NEW said \in Seq(Comment), AllSaid(list, out, said, len), NEW c \in ToSet(said), NEW T, T = list[c.file].text
  PROVE  c \in Comment /\ c.nextTokenIndex \in 0 .. len /\ Said(list, out, c, T)
  <1>1. PICK i \in 1 .. Len(said) : c = said[i]
    <2>1. DOMAIN said = 1 .. Len(said)
      <3> HIDE DEF Comment
      <3> QED BY LenProperties
    <2> QED BY <2>1 DEF ToSet
  <1>2. c \in Comment
    <2> HIDE DEF Comment
    <2> QED BY <1>1, ElementOfSeq
  <1> QED BY <1>1, <1>2 DEF AllSaid

\* A comment that ends the line of a declaration is shown with it.
LEMMA TrailingDescribes ==
  ASSUME CommentsInv, Ended, comments \in Seq(Comment), entries \in Seq(Entry),
         NEW d \in Declarations, NEW c \in TrailingComments(d[1], d[2]), c.file = tokens[d[2]].file
  PROVE  CommentAt(c) \in CommentsAfter(c.file, TokenAt(d[2]))
  <1> DEFINE e == d[2]
             u == tokens[e]
             T == entries[c.file].text
             n == Len(tokens)
  <1>1. /\ n \in Nat /\ n > 0 /\ \A k \in 1 .. n - 1 : tokens[k] \in OutToken
        /\ AllSpoken(entries, tokens, n - 1) /\ AllSaid(entries, tokens, comments, n - 1)
    BY CommentsEnd
  <1>2. e \in 1 .. n - 1 /\ e \in Nat /\ e - 1 + 1 = e
    <2>1. e \in 1 .. n - 1
      BY DEF Declarations
    <2> HIDE DEF e, n
    <2> QED BY <1>1, <2>1
  <1>3. c.nextTokenIndex = e /\ c.line = tokens[e - 1 + 1].expanded[1] /\ c.backAttachmentLine # c.line /\ c \in ToSet(comments)
    BY DEF TrailingComments, LookupPreceedingComment, ExpandedLine
  <1> HIDE DEF e, n
  <1>4. c \in Comment /\ Said(entries, tokens, c, T)
    BY <1>1, <1>3, ShownSaid
  <1>5. u \in OutToken /\ Spoken(entries, tokens, e, u, T)
    BY <1>1, <1>2 DEF AllSpoken, e
  <1>6. u.line = c.line
    BY <1>2, <1>3, <1>5 DEF Spoken
  <1>7. c.file \in 1 .. Len(entries)
    BY <1>4 DEF Said, Stands
  <1> HIDE DEF T, u
  <1>8. PlacesOfFile(c.file, T)
    BY <1>7, PositionsTyped DEF T
  <1>9. IsLast(T, c, u)
    <2> DEFINE list == entries
               out == tokens
    <2>1. /\ IsLines(T) /\ c \in Comment /\ Said(list, out, c, T) /\ u = out[c.nextTokenIndex]
          /\ Spoken(list, out, c.nextTokenIndex, u, T) /\ u \in OutToken /\ u.line = c.line /\ c.backAttachmentLine # c.line
      BY <1>3, <1>4, <1>5, <1>6, <1>8 DEF u, PlacesOfFile
    <2> HIDE DEF list, out, Comment, OutToken
    <2> QED BY <2>1, EndsLine
  <1> DEFINE p == CommentAt(c)
             o == TokenAt(e)
  <1>10. /\ p = <<p[1], p[2]>> /\ p[1] = c.line /\ p[2] = c.column /\ p[1] \in Nat /\ p[2] \in Nat
         /\ o[1] = u.line /\ o[2] = u.column /\ o[1] \in Nat /\ o[2] \in Nat
    BY <1>4, <1>5 DEF CommentAt, TokenAt, Comment, OutToken, u
  <1>11. IsPlace(T, c.line + 1, c.column + 1)
    BY <1>4 DEF Said, Stands
  <1> HIDE DEF p, o
  <1>12. p \in TextPositions(c.file) /\ p[1] = o[1] /\ Before(o, p)
    BY <1>6, <1>8, <1>9, <1>10, <1>11 DEF PlacesOfFile, IsPosition, Before, IsLast
  <1>13. ASSUME NEW r \in TextPositions(c.file), r[1] = o[1], Before(o, r) PROVE IsCommentAt(c.file, r)
    <2>1. r[1] \in Nat /\ r[2] \in Nat /\ IsPlace(T, r[1] + 1, r[2] + 1)
      BY <1>8 DEF PlacesOfFile, IsPosition
    <2>2. r[1] + 1 = c.line + 1 /\ o[2] < r[2]
      BY <1>6, <1>10, <1>13, <2>1 DEF Before
    <2>3. r[2] + 1 \in DOMAIN T[c.line + 1] /\ u.column + 1 < r[2] + 1
      <3>1. r[2] + 1 \in DOMAIN T[c.line + 1]
        BY <1>8, <2>1, <2>2 DEF PlacesOfFile, IsLines, IsPlace
      <3> QED BY <1>10, <2>1, <2>2, <3>1
    <2> QED BY <1>9, <2>2, <2>3 DEF IsLast, IsCommentAt, T
  <1> QED BY <1>12, <1>13 DEF CommentsAfter, p, o, e

\* A comment that stands above a declaration is shown with it.
LEMMA PreceedingDescribes ==
  ASSUME CommentsInv, Ended, comments \in Seq(Comment), entries \in Seq(Entry),
         NEW d \in Declarations, NEW c \in PreceedingComments(d[1]), c.file = tokens[d[2]].file
  PROVE  CommentAt(c) \in CommentsAbove(c.file, TokenAt(d[1] + 1))
  <1> DEFINE b == d[1]
             i == b + 1
             u == tokens[i]
             T == entries[c.file].text
             n == Len(tokens)
  <1>1. /\ n \in Nat /\ n > 0 /\ \A k \in 1 .. n - 1 : tokens[k] \in OutToken
        /\ AllSpoken(entries, tokens, n - 1) /\ AllSaid(entries, tokens, comments, n - 1)
    BY CommentsEnd
  <1>2. b \in 0 .. n - 2 /\ i \in 1 .. n - 1 /\ u.file = c.file
    <2>1. b \in 0 .. n - 2 /\ u.file = c.file
      BY DEF Declarations
    <2>2. i \in 1 .. n - 1
      <3> DEFINE a == b
      <3>1. i = a + 1 /\ a \in 0 .. n - 2
        BY <2>1
      <3> HIDE DEF a, n, i, b
      <3> QED BY <1>1, <3>1
    <2> QED BY <2>1, <2>2
  <1>3. c.nextTokenIndex = b /\ c.backAttachmentLine = tokens[b + 1].expanded[1] /\ c.frontAttachmentLine # c.line /\ c \in ToSet(comments)
    BY DEF PreceedingComments, LookupPreceedingComment, ExpandedLine
  <1> HIDE DEF n, b
  <1>4. c \in Comment /\ Said(entries, tokens, c, T)
    BY <1>1, <1>3, ShownSaid
  <1>5. u \in OutToken /\ Spoken(entries, tokens, i, u, T)
    BY <1>1, <1>2 DEF AllSpoken
  <1>6. u.line = c.backAttachmentLine
    BY <1>3, <1>5 DEF Spoken
  <1>7. c.file \in 1 .. Len(entries)
    BY <1>4 DEF Said, Stands
  <1>14. i = c.nextTokenIndex + 1
    BY <1>3
  <1> HIDE DEF T, u, i
  <1>8. PlacesOfFile(c.file, T)
    BY <1>7, PositionsTyped DEF T
  <1>9. LeadsUpTo(T, c, u)
    <2> DEFINE list == entries
               out == tokens
    <2>1. /\ IsLines(T) /\ c \in Comment /\ Said(list, out, c, T) /\ u \in OutToken
          /\ Spoken(list, out, c.nextTokenIndex + 1, u, T) /\ u.file = c.file
          /\ u.line = c.backAttachmentLine /\ c.frontAttachmentLine # c.line
      BY <1>2, <1>3, <1>4, <1>5, <1>6, <1>8, <1>14 DEF PlacesOfFile
    <2> HIDE DEF list, out, Comment, OutToken
    <2> QED BY <2>1, StandsAbove
  <1> DEFINE p == CommentAt(c)
             o == TokenAt(i)
  <1>10. /\ p = <<p[1], p[2]>> /\ p[1] = c.line /\ p[2] = c.column /\ p[1] \in Nat /\ p[2] \in Nat
         /\ o[1] = u.line /\ o[2] = u.column /\ o[1] \in Nat /\ o[2] \in Nat
    BY <1>4, <1>5 DEF CommentAt, TokenAt, Comment, OutToken, u
  <1>11. IsPlace(T, c.line + 1, c.column + 1) /\ T[c.line + 1][c.column + 1] = "//"
    BY <1>4 DEF Said, Stands
  <1> HIDE DEF p, o
  <1>12. p \in TextPositions(c.file) /\ IsCommentAt(c.file, p) /\ Before(p, o)
    BY <1>8, <1>9, <1>10, <1>11 DEF PlacesOfFile, IsPosition, Before, IsBehind, LeadsUpTo, IsCommentAt, T
  <1>13. ASSUME NEW r \in TextPositions(c.file), Before(r, o), Before(p, r) \/ r[1] = p[1] PROVE IsCommentAt(c.file, r)
    <2> DEFINE x == r[1] + 1
               y == r[2] + 1
    <2>1. r[1] \in Nat /\ r[2] \in Nat /\ IsPlace(T, x, y)
      BY <1>8 DEF PlacesOfFile, IsPosition
    <2>2. x \in 1 .. Len(T) /\ y \in DOMAIN T[x]
      BY <1>8, <2>1 DEF PlacesOfFile, IsLines, IsPlace
    <2>3. IsBehind(x, y, o[1] + 1, o[2] + 1) /\ (IsBehind(p[1] + 1, p[2] + 1, x, y) \/ x = p[1] + 1)
      BY <1>10, <1>13, <2>1 DEF Before, IsBehind
    <2> HIDE DEF x, y
    <2>4. T[x][y] = "//"
      BY <1>9, <1>10, <2>2, <2>3 DEF LeadsUpTo
    <2> QED BY <2>4 DEF IsCommentAt, T, x, y
  <1> QED BY <1>12, <1>13 DEF CommentsAbove, p, o, i, b

\* What stands around the tokens and the comments tells what is shown.
LEMMA AdjacentDescribed ==
  ASSUME InclusionInv, CommentsInv, Ended
  PROVE  DescribedByAdjacent
  <1> DEFINE n == Len(tokens)
  <1>1. comments \in Seq(Comment) /\ entries \in Seq(Entry)
    BY DEF InclusionInv, Loaded, SourcesOK, Ended
  <1>2. n \in Nat /\ AllSaid(entries, tokens, comments, n - 1)
    BY CommentsEnd
  <1> HIDE DEF Comment, Entry
  <1>3. CommentsSorted
    <2>1. DOMAIN comments = 1 .. Len(comments)
      BY <1>1, LenProperties
    <2> HIDE DEF n
    <2>2. \A i \in 1 .. Len(comments) : comments[i].nextTokenIndex < n
      BY <1>2 DEF AllSaid
    <2> QED BY <1>2, <2>1, <2>2 DEF AllSaid, CommentsSorted, n
  <1>4. ASSUME NEW d \in Declarations, NEW c \in QueryCommentDescription(d[1], d[2]), c.file = tokens[d[2]].file
        PROVE  \/ CommentAt(c) \in CommentsAfter(c.file, TokenAt(d[2]))
               \/ CommentAt(c) \in CommentsAbove(c.file, TokenAt(d[1] + 1))
    <2>1. CASE c \in TrailingComments(d[1], d[2])
      BY <1>1, <1>4, <2>1, TrailingDescribes
    <2>2. CASE c \in PreceedingComments(d[1])
      BY <1>1, <1>4, <2>2, PreceedingDescribes
    <2> QED BY <1>4, <2>1, <2>2 DEF QueryCommentDescription
  <1> QED BY <1>3, <1>4 DEF DescribedByAdjacent

\* Whatever files there are and whatever they say, the comments that wait, the
\* comments that are output and the tokens stand where the lines and the indices
\* kept with them say.  (FeedPPToken, OutputCommentToken)
THEOREM CommentsInvariant == FileSpec => []CommentsInv
  <1>1. FileInit => CommentsInv
    BY DEF FileInit, CommentsInv, Ended
  <1>2. InclusionInv /\ InclusionInv' /\ CommentsInv /\ [FileNext]_fileVars => CommentsInv'
    BY CommentStepKeeps
  <1> QED BY <1>1, <1>2, InclusionInvariant, PTL DEF FileSpec

\* A comment of its own file that is shown with a declaration ends the line of the
\* declaration or stands above it with nothing in between, and the comments are
\* sorted by the index they are searched by: for all texts and headers, and across
\* files entered and left.  (FeedPPToken, QueryCommentDescription)
THEOREM CommentsDescribeAdjacent == FileSpec => []DescribedByAdjacent
  <1>1. InclusionInv /\ CommentsInv => DescribedByAdjacent
    BY AdjacentDescribed DEF DescribedByAdjacent
  <1> QED BY <1>1, InclusionInvariant, CommentsInvariant, PTL

=============================================================================
