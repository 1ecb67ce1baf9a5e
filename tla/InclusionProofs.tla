-------------------------- MODULE InclusionProofs --------------------------
(***************************************************************************)
(* The preprocessing of texts of any length with headers nested to any     *)
(* depth: what it leaves is what inclusion means (OutputIsInclusion).      *)
(*                                                                         *)
(* The reference is a function of what has been read, so that it grows as  *)
(* the state machines read.  The module goes from the inside out: what the *)
(* reference says of a line and of the lines that a directive swallows,    *)
(* what the conditionals of a machine say of its place (Nested), what the  *)
(* source manager knows (SourcesOK), what one machine has read (Reads),    *)
(* what the stack of them has (Stacked), what has been output of it        *)
(* (Says), and by which files (Told).  Then every action keeps the two     *)
(* invariants, first InclusionInv and then RangesInv.                      *)
(*                                                                         *)
(* Inductions are over sets of numbers (LeastNumber, Climb), and functions *)
(* that are defined by recursion have their equation by such an induction. *)
(***************************************************************************)
EXTENDS Inclusion, SequenceTheorems, FiniteSetTheorems, WellFoundedInduction, TLAPS

-----------------------------------------------------------------------------
(* Numbers.                                                                 *)
\* A set of numbers has a least one.
LEMMA LeastNumber ==
  ASSUME NEW S \in SUBSET Nat, S # {}
  PROVE  \E m \in S : \A k \in S : m <= k
  <1>1. PICK m \in S : \A k \in S : ~(<<k, m>> \in OpToRel(<, Nat))
    BY WFMin, NatLessThanWellFounded
  <1>2. \A k, l \in Nat : k < l => <<k, l>> \in OpToRel(<, Nat)
    BY DEF OpToRel
  <1>3. \A k \in S : ~(k < m)
    BY <1>1, <1>2
  <1>4. \A k \in S : k \in Nat /\ m \in Nat
    OBVIOUS
  <1> QED BY <1>3, <1>4

\* Induction up to a number, over the set of the numbers something holds of.
LEMMA Climb ==
  ASSUME NEW n \in Nat, NEW S, 0 \in S, \A k \in 1 .. n : k - 1 \in S => k \in S
  PROVE  \A k \in 0 .. n : k \in S
  <1> DEFINE Bad == {k \in 0 .. n : k \notin S}
  <1>1. ASSUME Bad # {} PROVE FALSE
    <2>1. Bad \in SUBSET Nat
      OBVIOUS
    <2>2. PICK m \in Bad : \A k \in Bad : m <= k
      BY <1>1, <2>1, LeastNumber
    <2>3. m \in 1 .. n /\ m - 1 \in 0 .. n /\ ~(m <= m - 1)
      BY <2>2
    <2>4. m - 1 \in S
      BY <2>2, <2>3
    <2> QED BY <2>2, <2>3, <2>4
  <1> QED BY <1>1

\* Min is the least member.
LEMMA MinIsLeast ==
  ASSUME NEW S \in SUBSET Nat, S # {}
  PROVE  Min(S) \in S /\ \A k \in S : Min(S) <= k
  BY LeastNumber DEF Min

\* Max is the greatest member.
LEMMA MaxIsGreatest ==
  ASSUME NEW n \in Nat, NEW S \in SUBSET (1 .. n), S # {}
  PROVE  Max(S) \in S /\ \A k \in S : k <= Max(S)
  <1> DEFINE R == {k \in 1 .. n : \A l \in S : l <= k}
  <1>0. PICK one \in S : one \in 1 .. n
    OBVIOUS
  <1>1. R \in SUBSET Nat /\ n \in R
    <2>1. \A l \in S : l \in 1 .. n
      OBVIOUS
    <2>2. n \in 1 .. n
      BY <1>0
    <2> QED BY <2>1, <2>2
  <1>2. PICK m \in R : \A k \in R : m <= k
    BY <1>1, LeastNumber
  <1>3. m \in S
    <2>1. ASSUME m \notin S PROVE FALSE
      <3>1. \A l \in S : l \in 1 .. n /\ l <= m /\ l # m
        BY <1>2, <2>1
      <3>2. m - 1 \in 1 .. n
        BY <1>0, <1>2, <3>1
      <3>3. m - 1 \in R
        BY <3>1, <3>2, <1>2
      <3> QED BY <3>3, <1>2
    <2> QED BY <2>1
  <1>4. \A k \in S : m >= k
    BY <1>2
  <1>5. Max(S) \in S /\ \A k \in S : Max(S) >= k
    BY <1>3, <1>4 DEF Max
  <1>6. \A k \in S : k \in Int
    OBVIOUS
  <1> QED BY <1>5, <1>6

-----------------------------------------------------------------------------
(* Functions defined by recursion.                                          *)

\* The places of the members of a set.
LEMMA PlacesPass ==
  ASSUME NEW set, NEW seq, Len(seq) \in Nat
  PROVE  /\ PlacesOf(set, seq)[0] = <<>>
         /\ \A k \in 0 + 1 .. Len(seq) : PlacesOf(set, seq)[k] = IF seq[k] \in set THEN Append(PlacesOf(set, seq)[k - 1], k) ELSE PlacesOf(set, seq)[k - 1]
  <1> DEFINE Step(f, k) == IF k = 0 THEN <<>> ELSE IF seq[k] \in set THEN Append(f[k - 1], k) ELSE f[k - 1]
             Good(m) == \E f : f = [k \in 0 .. m |-> Step(f, k)]
             Bad == {m \in Nat : 0 <= m /\ ~Good(m)}
             upTo == CHOOSE f : f = [k \in 0 .. Len(seq) |-> Step(f, k)]
  <1>1. ASSUME Bad # {} PROVE FALSE
    <2>1. PICK m \in Bad : \A j \in Bad : m <= j
      BY <1>1, LeastNumber
    <2>2. m # 0
      <3> DEFINE g == [k \in 0 .. 0 |-> <<>>]
      <3>1. g = [k \in 0 .. 0 |-> Step(g, k)]
        OBVIOUS
      <3>2. Good(0)
        BY <3>1
      <3> QED BY <3>2
    <2>3. Good(m - 1)
      <3>1. m - 1 \in Nat /\ 0 <= m - 1 /\ ~(m <= m - 1)
        BY <2>2
      <3> HIDE DEF Good
      <3> QED BY <3>1, <2>1
    <2>4. PICK f : f = [k \in 0 .. m - 1 |-> Step(f, k)]
      BY <2>3
    <2>8. ASSUME NEW k \in 0 .. m - 1 PROVE f[k] = Step(f, k)
      <3> HIDE DEF Step
      <3> QED BY <2>4
    <2> DEFINE g == [k \in 0 .. m |-> IF k = m THEN Step(f, m) ELSE f[k]]
    <2>5. ASSUME NEW k \in 0 .. m PROVE g[k] = Step(g, k)
      <3>1. k = 0 \/ g[k - 1] = f[k - 1]
        OBVIOUS
      <3>2. Step(g, k) = Step(f, k)
        BY <3>1
      <3>3. CASE k = m
        <4>1. g[k] = Step(f, k)
          <5> HIDE DEF Step
          <5> QED BY <3>3
        <4> HIDE DEF g, Step
        <4> QED BY <4>1, <3>2
      <3>4. CASE k # m
        <4>1. g[k] = f[k] /\ k \in 0 .. m - 1
          BY <3>4
        <4> HIDE DEF g, Step
        <4> QED BY <3>2, <4>1, <2>8
      <3> QED BY <3>3, <3>4
    <2>6. g = [k \in 0 .. m |-> Step(g, k)]
      BY <2>5
    <2>7. Good(m)
      BY <2>6
    <2> QED BY <2>7
  <1>2. Good(Len(seq))
    <2> HIDE DEF Good
    <2> QED BY <1>1
  <1>3. upTo = [k \in 0 .. Len(seq) |-> Step(upTo, k)]
    BY <1>2
  <1>4. upTo = PlacesOf(set, seq)
    BY DEF PlacesOf
  <1> HIDE DEF upTo
  <1>6. ASSUME NEW k \in 0 .. Len(seq) PROVE upTo[k] = Step(upTo, k)
    <2> HIDE DEF Step
    <2> QED BY <1>3
  <1>7. 0 \in 0 .. Len(seq) /\ \A k \in 0 + 1 .. Len(seq) : k \in 0 .. Len(seq) /\ k # 0
    OBVIOUS
  <1>5. upTo[0] = <<>> /\ \A k \in 0 + 1 .. Len(seq) : upTo[k] = IF seq[k] \in set THEN Append(upTo[k - 1], k) ELSE upTo[k - 1]
    BY <1>6, <1>7
  <1> QED BY <1>4, <1>5

\* A directive line by line.
LEMMA DirectivePass ==
  ASSUME NEW text, NEW i \in Nat, Len(text) \in Nat, i <= Len(text)
  PROVE  /\ DirectiveTo(text, i)[i] = Tail(Spelled(text[i], Len(text[i])))
         /\ \A k \in i + 1 .. Len(text) : DirectiveTo(text, i)[k] = IF Extends(text, i, k) THEN DirectiveTo(text, i)[k - 1] \o Spelled(text[k], Len(text[k])) ELSE DirectiveTo(text, i)[k - 1]
  <1> DEFINE Step(f, k) == IF k = i THEN Tail(Spelled(text[i], Len(text[i]))) ELSE IF Extends(text, i, k) THEN f[k - 1] \o Spelled(text[k], Len(text[k])) ELSE f[k - 1]
             Good(m) == \E f : f = [k \in i .. m |-> Step(f, k)]
             Bad == {m \in Nat : i <= m /\ ~Good(m)}
             upTo == CHOOSE f : f = [k \in i .. Len(text) |-> Step(f, k)]
  <1>1. ASSUME Bad # {} PROVE FALSE
    <2>1. PICK m \in Bad : \A j \in Bad : m <= j
      BY <1>1, LeastNumber
    <2>2. m # i
      <3> DEFINE g == [k \in i .. i |-> Tail(Spelled(text[i], Len(text[i])))]
      <3>1. g = [k \in i .. i |-> Step(g, k)]
        OBVIOUS
      <3>2. Good(i)
        BY <3>1
      <3> QED BY <3>2
    <2>3. Good(m - 1)
      <3>1. m - 1 \in Nat /\ i <= m - 1 /\ ~(m <= m - 1)
        BY <2>2
      <3> HIDE DEF Good
      <3> QED BY <3>1, <2>1
    <2>4. PICK f : f = [k \in i .. m - 1 |-> Step(f, k)]
      BY <2>3
    <2>8. ASSUME NEW k \in i .. m - 1 PROVE f[k] = Step(f, k)
      <3> HIDE DEF Step
      <3> QED BY <2>4
    <2> DEFINE g == [k \in i .. m |-> IF k = m THEN Step(f, m) ELSE f[k]]
    <2>5. ASSUME NEW k \in i .. m PROVE g[k] = Step(g, k)
      <3>1. k = i \/ g[k - 1] = f[k - 1]
        OBVIOUS
      <3>2. Step(g, k) = Step(f, k)
        BY <3>1
      <3>3. CASE k = m
        <4>1. g[k] = Step(f, k)
          <5> HIDE DEF Step
          <5> QED BY <3>3
        <4> HIDE DEF g, Step
        <4> QED BY <4>1, <3>2
      <3>4. CASE k # m
        <4>1. g[k] = f[k] /\ k \in i .. m - 1
          BY <3>4
        <4> HIDE DEF g, Step
        <4> QED BY <3>2, <4>1, <2>8
      <3> QED BY <3>3, <3>4
    <2>6. g = [k \in i .. m |-> Step(g, k)]
      BY <2>5
    <2>7. Good(m)
      BY <2>6
    <2> QED BY <2>7
  <1>2. Good(Len(text))
    <2> HIDE DEF Good
    <2> QED BY <1>1
  <1>3. upTo = [k \in i .. Len(text) |-> Step(upTo, k)]
    BY <1>2
  <1>4. upTo = DirectiveTo(text, i)
    BY DEF DirectiveTo
  <1> HIDE DEF upTo
  <1>6. ASSUME NEW k \in i .. Len(text) PROVE upTo[k] = Step(upTo, k)
    <2> HIDE DEF Step
    <2> QED BY <1>3
  <1>7. i \in i .. Len(text) /\ \A k \in i + 1 .. Len(text) : k \in i .. Len(text) /\ k # i
    OBVIOUS
  <1>5. upTo[i] = Tail(Spelled(text[i], Len(text[i]))) /\ \A k \in i + 1 .. Len(text) : upTo[k] = IF Extends(text, i, k) THEN upTo[k - 1] \o Spelled(text[k], Len(text[k])) ELSE upTo[k - 1]
    BY <1>6, <1>7
  <1> QED BY <1>4, <1>5

\* The items of a text line by line.
LEMMA ItemsPass ==
  ASSUME NEW path, NEW text, NEW headers, Len(text) \in Nat
  PROVE  /\ ItemsTo(path, text, headers)[0] = <<>>
         /\ \A k \in 0 + 1 .. Len(text) : ItemsTo(path, text, headers)[k] = ItemsTo(path, text, headers)[k - 1] \o LineItems(path, text, k, headers)
  <1> DEFINE Step(f, k) == IF k = 0 THEN <<>> ELSE f[k - 1] \o LineItems(path, text, k, headers)
             Good(m) == \E f : f = [k \in 0 .. m |-> Step(f, k)]
             Bad == {m \in Nat : 0 <= m /\ ~Good(m)}
             upTo == CHOOSE f : f = [k \in 0 .. Len(text) |-> Step(f, k)]
  <1>1. ASSUME Bad # {} PROVE FALSE
    <2>1. PICK m \in Bad : \A j \in Bad : m <= j
      BY <1>1, LeastNumber
    <2>2. m # 0
      <3> DEFINE g == [k \in 0 .. 0 |-> <<>>]
      <3>1. g = [k \in 0 .. 0 |-> Step(g, k)]
        OBVIOUS
      <3>2. Good(0)
        BY <3>1
      <3> QED BY <3>2
    <2>3. Good(m - 1)
      <3>1. m - 1 \in Nat /\ 0 <= m - 1 /\ ~(m <= m - 1)
        BY <2>2
      <3> HIDE DEF Good
      <3> QED BY <3>1, <2>1
    <2>4. PICK f : f = [k \in 0 .. m - 1 |-> Step(f, k)]
      BY <2>3
    <2>8. ASSUME NEW k \in 0 .. m - 1 PROVE f[k] = Step(f, k)
      <3> HIDE DEF Step
      <3> QED BY <2>4
    <2> DEFINE g == [k \in 0 .. m |-> IF k = m THEN Step(f, m) ELSE f[k]]
    <2>5. ASSUME NEW k \in 0 .. m PROVE g[k] = Step(g, k)
      <3>1. k = 0 \/ g[k - 1] = f[k - 1]
        OBVIOUS
      <3>2. Step(g, k) = Step(f, k)
        BY <3>1
      <3>3. CASE k = m
        <4>1. g[k] = Step(f, k)
          <5> HIDE DEF Step
          <5> QED BY <3>3
        <4> HIDE DEF g, Step
        <4> QED BY <4>1, <3>2
      <3>4. CASE k # m
        <4>1. g[k] = f[k] /\ k \in 0 .. m - 1
          BY <3>4
        <4> HIDE DEF g, Step
        <4> QED BY <3>2, <4>1, <2>8
      <3> QED BY <3>3, <3>4
    <2>6. g = [k \in 0 .. m |-> Step(g, k)]
      BY <2>5
    <2>7. Good(m)
      BY <2>6
    <2> QED BY <2>7
  <1>2. Good(Len(text))
    <2> HIDE DEF Good
    <2> QED BY <1>1
  <1>3. upTo = [k \in 0 .. Len(text) |-> Step(upTo, k)]
    BY <1>2
  <1>4. upTo = ItemsTo(path, text, headers)
    BY DEF ItemsTo
  <1> HIDE DEF upTo
  <1>6. ASSUME NEW k \in 0 .. Len(text) PROVE upTo[k] = Step(upTo, k)
    <2> HIDE DEF Step
    <2> QED BY <1>3
  <1>7. 0 \in 0 .. Len(text) /\ \A k \in 0 + 1 .. Len(text) : k \in 0 .. Len(text) /\ k # 0
    OBVIOUS
  <1>5. upTo[0] = <<>> /\ \A k \in 0 + 1 .. Len(text) : upTo[k] = upTo[k - 1] \o LineItems(path, text, k, headers)
    BY <1>6, <1>7
  <1> QED BY <1>4, <1>5

\* The items of the headers by depth.
LEMMA IncludedPass ==
  ASSUME NEW onDisk, MaxIncludeDepth \in Nat
  PROVE  /\ Included(onDisk)[0] = [name \in DOMAIN Canonical |-> <<>>]
         /\ \A k \in 0 + 1 .. MaxIncludeDepth : Included(onDisk)[k] = [name \in DOMAIN Canonical |-> IF Resolved(onDisk, name) = NoPath THEN <<>> ELSE Items(Resolved(onDisk, name), onDisk[Resolved(onDisk, name)], Included(onDisk)[k - 1])]
  <1> DEFINE Step(f, k) == IF k = 0 THEN [name \in DOMAIN Canonical |-> <<>>] ELSE [name \in DOMAIN Canonical |-> IF Resolved(onDisk, name) = NoPath THEN <<>> ELSE Items(Resolved(onDisk, name), onDisk[Resolved(onDisk, name)], f[k - 1])]
             Good(m) == \E f : f = [k \in 0 .. m |-> Step(f, k)]
             Bad == {m \in Nat : 0 <= m /\ ~Good(m)}
             upTo == CHOOSE f : f = [k \in 0 .. MaxIncludeDepth |-> Step(f, k)]
  <1>1. ASSUME Bad # {} PROVE FALSE
    <2>1. PICK m \in Bad : \A j \in Bad : m <= j
      BY <1>1, LeastNumber
    <2>2. m # 0
      <3> DEFINE g == [k \in 0 .. 0 |-> [name \in DOMAIN Canonical |-> <<>>]]
      <3>1. g = [k \in 0 .. 0 |-> Step(g, k)]
        OBVIOUS
      <3>2. Good(0)
        BY <3>1
      <3> QED BY <3>2
    <2>3. Good(m - 1)
      <3>1. m - 1 \in Nat /\ 0 <= m - 1 /\ ~(m <= m - 1)
        BY <2>2
      <3> HIDE DEF Good
      <3> QED BY <3>1, <2>1
    <2>4. PICK f : f = [k \in 0 .. m - 1 |-> Step(f, k)]
      BY <2>3
    <2>8. ASSUME NEW k \in 0 .. m - 1 PROVE f[k] = Step(f, k)
      <3> HIDE DEF Step
      <3> QED BY <2>4
    <2> DEFINE g == [k \in 0 .. m |-> IF k = m THEN Step(f, m) ELSE f[k]]
    <2>5. ASSUME NEW k \in 0 .. m PROVE g[k] = Step(g, k)
      <3>1. k = 0 \/ g[k - 1] = f[k - 1]
        OBVIOUS
      <3>2. Step(g, k) = Step(f, k)
        BY <3>1
      <3>3. CASE k = m
        <4>1. g[k] = Step(f, k)
          <5> HIDE DEF Step
          <5> QED BY <3>3
        <4> HIDE DEF g, Step
        <4> QED BY <4>1, <3>2
      <3>4. CASE k # m
        <4>1. g[k] = f[k] /\ k \in 0 .. m - 1
          BY <3>4
        <4> HIDE DEF g, Step
        <4> QED BY <3>2, <4>1, <2>8
      <3> QED BY <3>3, <3>4
    <2>6. g = [k \in 0 .. m |-> Step(g, k)]
      BY <2>5
    <2>7. Good(m)
      BY <2>6
    <2> QED BY <2>7
  <1>2. Good(MaxIncludeDepth)
    <2> HIDE DEF Good
    <2> QED BY <1>1
  <1>3. upTo = [k \in 0 .. MaxIncludeDepth |-> Step(upTo, k)]
    BY <1>2
  <1>4. upTo = Included(onDisk)
    BY DEF Included
  <1> HIDE DEF upTo
  <1>6. ASSUME NEW k \in 0 .. MaxIncludeDepth PROVE upTo[k] = Step(upTo, k)
    <2> HIDE DEF Step
    <2> QED BY <1>3
  <1>7. 0 \in 0 .. MaxIncludeDepth /\ \A k \in 0 + 1 .. MaxIncludeDepth : k \in 0 .. MaxIncludeDepth /\ k # 0
    OBVIOUS
  <1>5. upTo[0] = [name \in DOMAIN Canonical |-> <<>>] /\ \A k \in 0 + 1 .. MaxIncludeDepth : upTo[k] = [name \in DOMAIN Canonical |-> IF Resolved(onDisk, name) = NoPath THEN <<>> ELSE Items(Resolved(onDisk, name), onDisk[Resolved(onDisk, name)], upTo[k - 1])]
    BY <1>6, <1>7
  <1> QED BY <1>4, <1>5

\* A search directory by directory.
LEMMA TriesPass ==
  ASSUME NEW src, NEW name, Len(Canonical[name]) \in Nat
  PROVE  /\ Tries(src, name)[0] = [src |-> src, file |-> NoFile]
         /\ \A k \in 0 + 1 .. Len(Canonical[name]) : Tries(src, name)[k] = IF Tries(src, name)[k - 1].file # NoFile THEN Tries(src, name)[k - 1] ELSE [src |-> Opened(Tries(src, name)[k - 1].src, <<k, name>>), file |-> Opened(Tries(src, name)[k - 1].src, <<k, name>>).lookup[<<k, name>>]]
  <1> DEFINE Step(f, k) == IF k = 0 THEN [src |-> src, file |-> NoFile] ELSE IF f[k - 1].file # NoFile THEN f[k - 1] ELSE [src |-> Opened(f[k - 1].src, <<k, name>>), file |-> Opened(f[k - 1].src, <<k, name>>).lookup[<<k, name>>]]
             Good(m) == \E f : f = [k \in 0 .. m |-> Step(f, k)]
             Bad == {m \in Nat : 0 <= m /\ ~Good(m)}
             upTo == CHOOSE f : f = [k \in 0 .. Len(Canonical[name]) |-> Step(f, k)]
  <1>1. ASSUME Bad # {} PROVE FALSE
    <2>1. PICK m \in Bad : \A j \in Bad : m <= j
      BY <1>1, LeastNumber
    <2>2. m # 0
      <3> DEFINE g == [k \in 0 .. 0 |-> [src |-> src, file |-> NoFile]]
      <3>1. g = [k \in 0 .. 0 |-> Step(g, k)]
        OBVIOUS
      <3>2. Good(0)
        BY <3>1
      <3> QED BY <3>2
    <2>3. Good(m - 1)
      <3>1. m - 1 \in Nat /\ 0 <= m - 1 /\ ~(m <= m - 1)
        BY <2>2
      <3> HIDE DEF Good
      <3> QED BY <3>1, <2>1
    <2>4. PICK f : f = [k \in 0 .. m - 1 |-> Step(f, k)]
      BY <2>3
    <2>8. ASSUME NEW k \in 0 .. m - 1 PROVE f[k] = Step(f, k)
      <3> HIDE DEF Step
      <3> QED BY <2>4
    <2> DEFINE g == [k \in 0 .. m |-> IF k = m THEN Step(f, m) ELSE f[k]]
    <2>5. ASSUME NEW k \in 0 .. m PROVE g[k] = Step(g, k)
      <3>1. k = 0 \/ g[k - 1] = f[k - 1]
        OBVIOUS
      <3>2. Step(g, k) = Step(f, k)
        BY <3>1
      <3>3. CASE k = m
        <4>1. g[k] = Step(f, k)
          <5> HIDE DEF Step
          <5> QED BY <3>3
        <4> HIDE DEF g, Step
        <4> QED BY <4>1, <3>2
      <3>4. CASE k # m
        <4>1. g[k] = f[k] /\ k \in 0 .. m - 1
          BY <3>4
        <4> HIDE DEF g, Step
        <4> QED BY <3>2, <4>1, <2>8
      <3> QED BY <3>3, <3>4
    <2>6. g = [k \in 0 .. m |-> Step(g, k)]
      BY <2>5
    <2>7. Good(m)
      BY <2>6
    <2> QED BY <2>7
  <1>2. Good(Len(Canonical[name]))
    <2> HIDE DEF Good
    <2> QED BY <1>1
  <1>3. upTo = [k \in 0 .. Len(Canonical[name]) |-> Step(upTo, k)]
    BY <1>2
  <1>4. upTo = Tries(src, name)
    BY DEF Tries
  <1> HIDE DEF upTo
  <1>6. ASSUME NEW k \in 0 .. Len(Canonical[name]) PROVE upTo[k] = Step(upTo, k)
    <2> HIDE DEF Step
    <2> QED BY <1>3
  <1>7. 0 \in 0 .. Len(Canonical[name]) /\ \A k \in 0 + 1 .. Len(Canonical[name]) : k \in 0 .. Len(Canonical[name]) /\ k # 0
    OBVIOUS
  <1>5. upTo[0] = [src |-> src, file |-> NoFile] /\ \A k \in 0 + 1 .. Len(Canonical[name]) : upTo[k] = IF upTo[k - 1].file # NoFile THEN upTo[k - 1] ELSE [src |-> Opened(upTo[k - 1].src, <<k, name>>), file |-> Opened(upTo[k - 1].src, <<k, name>>).lookup[<<k, name>>]]
    BY <1>6, <1>7
  <1> QED BY <1>4, <1>5

-----------------------------------------------------------------------------
(* Texts.                                                                   *)
Word == STRING \ {"eof"}
Paths == {NoPath} \cup UNION {Range(Canonical[name]) : name \in DOMAIN Canonical}
Item == [kind : {"token"}, what : Paths \X Nat \X Nat] \cup [kind : {"directive"}, what : Seq(STRING)]

\* The lines of a text are words, none of which is the end.
LEMMA TextTyped ==
  ASSUME NEW T \in FileTexts
  PROVE  /\ Len(T) \in Nat /\ Len(T) > 0
         /\ \A l \in 1 .. Len(T) :
                /\ T[l] \in Seq(Word) /\ Len(T[l]) \in Nat
                /\ \A c \in 1 .. Len(T[l]) : T[l][c] \in STRING /\ T[l][c] # "eof"
  <1>1. T \in Seq(Seq(Word)) /\ T # <<>>
    BY DEF FileTexts, Word
  <1>2. Len(T) \in Nat /\ Len(T) > 0
    BY <1>1, EmptySeq, LenProperties
  <1>3. ASSUME NEW l \in 1 .. Len(T)
        PROVE  /\ T[l] \in Seq(Word) /\ Len(T[l]) \in Nat
               /\ \A c \in 1 .. Len(T[l]) : T[l][c] \in STRING /\ T[l][c] # "eof"
    <2>1. T[l] \in Seq(Word)
      BY <1>1, ElementOfSeq
    <2>2. Len(T[l]) \in Nat /\ \A c \in 1 .. Len(T[l]) : T[l][c] \in Word
      BY <2>1, ElementOfSeq, LenProperties
    <2> QED BY <2>1, <2>2 DEF Word
  <1> QED BY <1>2, <1>3

\* Places up to a place are in a sequence.
LEMMA PlacesTyped ==
  ASSUME NEW set, NEW seq, Len(seq) \in Nat, NEW n \in 0 .. Len(seq)
  PROVE  /\ PlacesOf(set, seq)[n] \in Seq(1 .. Len(seq))
         /\ Len(PlacesOf(set, seq)[n]) \in Nat
         /\ \A k \in 1 .. Len(PlacesOf(set, seq)[n]) :
                /\ PlacesOf(set, seq)[n][k] \in 1 .. n
                /\ seq[PlacesOf(set, seq)[n][k]] \in set
  <1> DEFINE P == PlacesOf(set, seq)
             S == {m \in 0 .. Len(seq) : /\ P[m] \in Seq(1 .. Len(seq))
                                         /\ \A k \in 1 .. Len(P[m]) : P[m][k] \in 1 .. m /\ seq[P[m][k]] \in set}
  <1>1. P[0] = <<>> /\ \A k \in 1 .. Len(seq) : P[k] = IF seq[k] \in set THEN Append(P[k - 1], k) ELSE P[k - 1]
    BY PlacesPass
  <1> HIDE DEF P
  <1>2. 0 \in S
    <2>1. P[0] \in Seq(1 .. Len(seq)) /\ Len(P[0]) = 0 /\ 0 \in 0 .. Len(seq)
      BY <1>1
    <2> QED BY <2>1
  <1>3. ASSUME NEW m \in 1 .. Len(seq), m - 1 \in S PROVE m \in S
    <2>1. /\ P[m - 1] \in Seq(1 .. Len(seq))
          /\ \A k \in 1 .. Len(P[m - 1]) : P[m - 1][k] \in 1 .. m - 1 /\ seq[P[m - 1][k]] \in set
      BY <1>3
    <2>2. CASE seq[m] \notin set
      BY <1>1, <2>1, <2>2
    <2>3. CASE seq[m] \in set
      <3>1. P[m] = Append(P[m - 1], m)
        BY <1>1, <2>3
      <3>2. P[m] \in Seq(1 .. Len(seq)) /\ Len(P[m]) = Len(P[m - 1]) + 1 /\ P[m][Len(P[m])] = m
            /\ Len(P[m - 1]) \in Nat /\ \A k \in 1 .. Len(P[m - 1]) : P[m][k] = P[m - 1][k]
        BY <2>1, <3>1, AppendProperties, LenProperties
      <3>3. ASSUME NEW k \in 1 .. Len(P[m]) PROVE P[m][k] \in 1 .. m /\ seq[P[m][k]] \in set
        <4>1. k = Len(P[m]) \/ k \in 1 .. Len(P[m - 1])
          BY <3>2
        <4>2. CASE k = Len(P[m])
          BY <3>2, <2>3, <4>2
        <4>3. CASE k \in 1 .. Len(P[m - 1])
          <5>1. P[m][k] = P[m - 1][k] /\ P[m - 1][k] \in 1 .. m - 1 /\ seq[P[m - 1][k]] \in set
            BY <3>2, <2>1, <4>3
          <5>2. \A x \in 1 .. m - 1 : x \in 1 .. m
            OBVIOUS
          <5> QED BY <5>1, <5>2
        <4> QED BY <4>1, <4>2, <4>3
      <3> QED BY <3>2, <3>3
    <2> QED BY <2>2, <2>3
  <1> HIDE DEF S
  <1>4. n \in S
    BY <1>2, <1>3, Climb
  <1>5. P[n] \in Seq(1 .. Len(seq)) /\ \A k \in 1 .. Len(P[n]) : P[n][k] \in 1 .. n /\ seq[P[n][k]] \in set
    BY <1>4 DEF S
  <1>6. Len(P[n]) \in Nat
    BY <1>5, LenProperties
  <1> QED BY <1>5, <1>6 DEF P

\* The words of a line column by column.
LEMMA SpelledStep ==
  ASSUME NEW line \in Seq(Word)
  PROVE  /\ Spelled(line, 0) = <<>>
         /\ \A c \in 0 .. Len(line) : Spelled(line, c) \in Seq(STRING)
         /\ \A c \in 1 .. Len(line) :
                Spelled(line, c) = IF line[c] = "//" THEN Spelled(line, c - 1)
                                   ELSE Append(Spelled(line, c - 1), line[c])
  <1> DEFINE P == PlacesOf(STRING \ {"//"}, line)
  <1>1. Len(line) \in Nat /\ \A c \in 1 .. Len(line) : line[c] \in STRING
    BY ElementOfSeq, LenProperties DEF Word
  <1>2. P[0] = <<>> /\ \A k \in 1 .. Len(line) : P[k] = IF line[k] \in STRING \ {"//"} THEN Append(P[k - 1], k) ELSE P[k - 1]
    BY <1>1, PlacesPass
  <1>3. \A c \in 0 .. Len(line) : P[c] \in Seq(1 .. Len(line)) /\ Len(P[c]) \in Nat /\ DOMAIN P[c] = 1 .. Len(P[c])
                                   /\ \A k \in 1 .. Len(P[c]) : P[c][k] \in 1 .. c
    BY <1>1, PlacesTyped, LenProperties
  <1>4. \A c : Spelled(line, c) = [n \in DOMAIN P[c] |-> line[P[c][n]]]
    BY DEF Spelled
  <1> HIDE DEF P
  <1>5. Spelled(line, 0) = <<>>
    BY <1>2, <1>4
  <1>6. ASSUME NEW c \in 0 .. Len(line) PROVE Spelled(line, c) \in Seq(STRING)
    <2>1. ASSUME NEW k \in 1 .. Len(P[c]) PROVE line[P[c][k]] \in STRING
      <3>1. P[c][k] \in 1 .. c
        BY <1>3
      <3>2. \A x \in 1 .. c : x \in 1 .. Len(line)
        BY <1>1
      <3> QED BY <1>1, <3>1, <3>2
    <2>2. [n \in 1 .. Len(P[c]) |-> line[P[c][n]]] \in [1 .. Len(P[c]) -> STRING]
      BY <2>1
    <2>3. Len(P[c]) \in Nat /\ DOMAIN P[c] = 1 .. Len(P[c])
      BY <1>3
    <2>4. [n \in 1 .. Len(P[c]) |-> line[P[c][n]]] \in Seq(STRING)
      BY <2>2, <2>3, IsASeq
    <2> QED BY <1>4, <2>3, <2>4
  <1>7. ASSUME NEW c \in 1 .. Len(line)
        PROVE  Spelled(line, c) = IF line[c] = "//" THEN Spelled(line, c - 1)
                                   ELSE Append(Spelled(line, c - 1), line[c])
    <2>1. CASE line[c] = "//"
      BY <1>2, <1>4, <2>1
    <2>2. CASE line[c] # "//"
      <3> DEFINE p == P[c - 1]
      <3>0. c - 1 \in 0 .. Len(line)
        BY <1>1
      <3>1. P[c] = Append(p, c) /\ p \in Seq(1 .. Len(line))
        BY <1>1, <1>2, <1>3, <2>2, <3>0
      <3>2. Spelled(line, c) = [n \in DOMAIN Append(p, c) |-> line[Append(p, c)[n]]]
        BY SMTT(30), <1>4, <3>1
      <3>3. Spelled(line, c - 1) = [n \in DOMAIN p |-> line[p[n]]]
        BY <1>4
      <3> HIDE DEF p
      <3>4. [n \in DOMAIN Append(p, c) |-> line[Append(p, c)[n]]] = Append([n \in DOMAIN p |-> line[p[n]]], line[c])
        BY <3>1
      <3> QED BY <2>2, <3>2, <3>3, <3>4
    <2> QED BY <2>1, <2>2
  <1> QED BY <1>5, <1>6, <1>7

\* The tokens of a line column by column.
LEMMA TokenItemsStep ==
  ASSUME NEW path, NEW line \in Seq(Word), NEW i
  PROVE  /\ TokenItems(path, line, i, 0) = <<>>
         /\ \A c \in 1 .. Len(line) :
                TokenItems(path, line, i, c)
                    = IF line[c] = "//" THEN TokenItems(path, line, i, c - 1)
                      ELSE Append(TokenItems(path, line, i, c - 1),
                                  [kind |-> "token", what |-> <<path, i - 1, c - 1>>])
  <1> DEFINE P == PlacesOf(STRING \ {"//"}, line)
             Of(k) == [kind |-> "token", what |-> <<path, i - 1, k - 1>>]
  <1>1. Len(line) \in Nat /\ \A c \in 1 .. Len(line) : line[c] \in STRING
    BY ElementOfSeq, LenProperties DEF Word
  <1>2. P[0] = <<>> /\ \A k \in 1 .. Len(line) : P[k] = IF line[k] \in STRING \ {"//"} THEN Append(P[k - 1], k) ELSE P[k - 1]
    BY <1>1, PlacesPass
  <1>3. \A c \in 0 .. Len(line) : P[c] \in Seq(1 .. Len(line))
    BY <1>1, PlacesTyped
  <1>4. \A c : TokenItems(path, line, i, c) = [n \in DOMAIN P[c] |-> Of(P[c][n])]
    BY DEF TokenItems
  <1> HIDE DEF P, Of
  <1>5. TokenItems(path, line, i, 0) = <<>>
    BY <1>2, <1>4
  <1>7. ASSUME NEW c \in 1 .. Len(line)
        PROVE  TokenItems(path, line, i, c) = IF line[c] = "//" THEN TokenItems(path, line, i, c - 1)
                                   ELSE Append(TokenItems(path, line, i, c - 1), Of(c))
    <2>1. CASE line[c] = "//"
      BY <1>2, <1>4, <2>1
    <2>2. CASE line[c] # "//"
      <3> DEFINE p == P[c - 1]
      <3>0. c - 1 \in 0 .. Len(line)
        BY <1>1
      <3>1. P[c] = Append(p, c) /\ p \in Seq(1 .. Len(line))
        BY <1>1, <1>2, <1>3, <2>2, <3>0
      <3>2. TokenItems(path, line, i, c) = [n \in DOMAIN Append(p, c) |-> Of(Append(p, c)[n])]
        BY <1>4, <3>1
      <3>3. TokenItems(path, line, i, c - 1) = [n \in DOMAIN p |-> Of(p[n])]
        BY <1>4
      <3> HIDE DEF p
      <3>4. [n \in DOMAIN Append(p, c) |-> Of(Append(p, c)[n])] = Append([n \in DOMAIN p |-> Of(p[n])], Of(c))
        BY <3>1
      <3> QED BY <2>2, <3>2, <3>3, <3>4
    <2> QED BY <2>1, <2>2
  <1> QED BY <1>5, <1>7 DEF Of

-----------------------------------------------------------------------------
(* Directives.                                                              *)

\* What stays the same from step to step stays the same.
LEMMA Steady ==
  ASSUME NEW f, NEW a \in Nat, NEW b \in Nat, a <= b, \A k \in a + 1 .. b : f[k] = f[k - 1]
  PROVE  f[b] = f[a]
  <1> DEFINE S == {j \in 0 .. b - a : f[a + j] = f[a]}
  <1>1. 0 \in S
    OBVIOUS
  <1>2. ASSUME NEW j \in 1 .. b - a, j - 1 \in S PROVE j \in S
    <2>1. a + j \in a + 1 .. b /\ a + (j - 1) = (a + j) - 1
      OBVIOUS
    <2>2. f[a + j] = f[(a + j) - 1] /\ f[a + (j - 1)] = f[a]
      BY <1>2, <2>1
    <2> QED BY <2>1, <2>2
  <1>3. b - a \in Nat
    OBVIOUS
  <1> HIDE DEF S
  <1>4. b - a \in S
    BY <1>1, <1>2, <1>3, Climb
  <1>5. a + (b - a) = b
    OBVIOUS
  <1> QED BY <1>4, <1>5 DEF S

\* An element appended to the second of two sequences.
LEMMA ConcatAppend ==
  ASSUME NEW S, NEW s \in Seq(S), NEW t \in Seq(S), NEW e \in S
  PROVE  s \o Append(t, e) = Append(s \o t, e)
  <1>1. <<e>> \in Seq(S)
    <2>1. <<e>> = Append(<<>>, e) /\ <<>> \in Seq(S)
      OBVIOUS
    <2> QED BY <2>1, AppendProperties
  <1>2. Append(t, e) = t \o <<e>> /\ Append(s \o t, e) = (s \o t) \o <<e>>
    BY AppendIsConcat, ConcatProperties
  <1> QED BY <1>1, <1>2, ConcatAssociative

\* What is spelled in a directive's line begins with #.
LEMMA DirectiveLineSpelled ==
  ASSUME NEW line \in Seq(Word), IsDirectiveLine(line), NEW c \in 1 .. Len(line)
  PROVE  Spelled(line, c) # <<>> /\ Spelled(line, 1) = <<"#">> /\ Len(line) \in Nat
  <1>1. Len(line) \in Nat /\ line[1] = "#" /\ 1 \in 1 .. Len(line)
    BY LenProperties DEF IsDirectiveLine
  <1>2. Spelled(line, 1) = Append(<<>>, "#")
    <2>1. Spelled(line, 1) = IF line[1] = "//" THEN Spelled(line, 1 - 1) ELSE Append(Spelled(line, 1 - 1), line[1])
      BY <1>1, SpelledStep
    <2>2. Spelled(line, 1 - 1) = <<>>
      <3>1. 1 - 1 = 0
        OBVIOUS
      <3> QED BY <3>1, SpelledStep
    <2> QED BY <1>1, <2>1, <2>2
  <1>0. Append(<<>>, "#") = <<"#">> /\ <<"#">> # <<>>
    OBVIOUS
  <1> DEFINE S == {k \in 0 .. Len(line) - 1 : Spelled(line, k + 1) # <<>>}
  <1>3. 0 \in S
    <2>1. 0 \in 0 .. Len(line) - 1 /\ 0 + 1 = 1
      BY <1>1
    <2> QED BY <1>0, <1>2, <2>1
  <1>4. ASSUME NEW k \in 1 .. Len(line) - 1, k - 1 \in S PROVE k \in S
    <2>1. k + 1 \in 1 .. Len(line) /\ (k + 1) - 1 = k /\ (k - 1) + 1 = k /\ k \in 0 .. Len(line)
      BY <1>1
    <2>2. Spelled(line, k) # <<>> /\ Spelled(line, k) \in Seq(STRING)
      BY <1>4, <2>1, SpelledStep
    <2>3. Spelled(line, k + 1) = Spelled(line, k) \/ Spelled(line, k + 1) = Append(Spelled(line, k), line[k + 1])
      BY <2>1, SpelledStep
    <2>4. Append(Spelled(line, k), line[k + 1]) # <<>>
      BY <2>2
    <2>5. k \in 0 .. Len(line) - 1
      BY <1>1
    <2> QED BY <2>2, <2>3, <2>4, <2>5
  <1> HIDE DEF S
  <1>5. c - 1 \in S
    <2>1. Len(line) - 1 \in Nat /\ c - 1 \in 0 .. Len(line) - 1
      BY <1>1
    <2> QED BY <1>3, <1>4, <2>1, Climb
  <1>6. (c - 1) + 1 = c
    OBVIOUS
  <1> QED BY <1>0, <1>1, <1>2, <1>5, <1>6 DEF S

\* A directive is made of words.
LEMMA DirectiveTyped ==
  ASSUME NEW T \in FileTexts, NEW d \in 1 .. Len(T), IsDirectiveLine(T[d])
  PROVE  /\ \A k \in d .. Len(T) : DirectiveTo(T, d)[k] \in Seq(STRING)
         /\ Directive(T, d) \in Seq(STRING)
  <1> DEFINE D == DirectiveTo(T, d)
             S == {j \in 0 .. Len(T) - d : D[d + j] \in Seq(STRING)}
  <1>1. Len(T) \in Nat /\ d \in Nat /\ d <= Len(T)
    BY TextTyped
  <1>2. D[d] = Tail(Spelled(T[d], Len(T[d]))) /\ \A k \in d + 1 .. Len(T) : D[k] = IF Extends(T, d, k) THEN D[k - 1] \o Spelled(T[k], Len(T[k])) ELSE D[k - 1]
    BY <1>1, DirectivePass
  <1>3. \A k \in 1 .. Len(T) : T[k] \in Seq(Word) /\ Len(T[k]) \in Nat /\ Spelled(T[k], Len(T[k])) \in Seq(STRING)
    <2>1. \A k \in 1 .. Len(T) : T[k] \in Seq(Word) /\ Len(T[k]) \in Nat
      BY TextTyped
    <2>2. ASSUME NEW k \in 1 .. Len(T) PROVE Spelled(T[k], Len(T[k])) \in Seq(STRING)
      <3>1. Len(T[k]) \in 0 .. Len(T[k])
        BY <2>1
      <3> QED BY <2>1, <3>1, SpelledStep
    <2> QED BY <2>1, <2>2
  <1>4. 0 \in S
    <2>1. Len(T[d]) \in 1 .. Len(T[d])
      BY <1>3 DEF IsDirectiveLine
    <2>2. Spelled(T[d], Len(T[d])) # <<>> /\ Spelled(T[d], Len(T[d])) \in Seq(STRING)
      BY <1>3, <2>1, DirectiveLineSpelled
    <2>3. D[d] \in Seq(STRING)
      <3> HIDE DEF D
      <3> QED BY <1>2, <2>2, HeadTailProperties
    <2> QED BY <1>1, <2>3
  <1>5. ASSUME NEW j \in 1 .. Len(T) - d, j - 1 \in S PROVE j \in S
    <2>1. d + j \in d + 1 .. Len(T) /\ (d + j) - 1 = d + (j - 1) /\ j \in 0 .. Len(T) - d /\ d + j \in 1 .. Len(T)
      BY <1>1
    <2>2. D[(d + j) - 1] \in Seq(STRING)
      BY <1>5, <2>1
    <2>3. D[(d + j) - 1] \o Spelled(T[d + j], Len(T[d + j])) \in Seq(STRING)
      <3> HIDE DEF D
      <3> QED BY <2>1, <2>2, <1>3, ConcatProperties
    <2>4. D[d + j] \in Seq(STRING)
      <3> HIDE DEF D
      <3> QED BY <1>2, <2>1, <2>2, <2>3
    <2> QED BY <2>1, <2>4
  <1> HIDE DEF S
  <1>6. \A j \in 0 .. Len(T) - d : j \in S
    <2>1. Len(T) - d \in Nat
      BY <1>1
    <2> QED BY <1>4, <1>5, <2>1, Climb
  <1>7. ASSUME NEW k \in d .. Len(T) PROVE D[k] \in Seq(STRING)
    <2>1. k - d \in 0 .. Len(T) - d /\ d + (k - d) = k
      BY <1>1
    <2>2. k - d \in S
      BY <1>6, <2>1
    <2>3. D[d + (k - d)] \in Seq(STRING)
      BY <2>2 DEF S
    <2> QED BY <2>1, <2>3
  <1>8. Len(T) \in d .. Len(T)
    BY <1>1
  <1> QED BY <1>7, <1>8 DEF Directive

\* A directive of which line l has been read up to column c.
Part(T, d, l, c) ==
    IF l = d THEN Tail(Spelled(T[d], c)) ELSE DirectiveTo(T, d)[l - 1] \o Spelled(T[l], c)

\* A directive up to a column has one word more, unless that is a comment.
LEMMA PartStep ==
  ASSUME NEW T \in FileTexts, NEW d \in 1 .. Len(T), IsDirectiveLine(T[d]), NEW l \in d .. Len(T),
         NEW c \in 1 .. Len(T[l]), l = d => c > 1
  PROVE  Part(T, d, l, c) = IF T[l][c] = "//" THEN Part(T, d, l, c - 1)
                            ELSE Append(Part(T, d, l, c - 1), T[l][c])
  <1>1. T[l] \in Seq(Word) /\ Len(T[l]) \in Nat /\ Len(T) \in Nat /\ l \in 1 .. Len(T)
    BY TextTyped
  <1>2. /\ Spelled(T[l], c) = IF T[l][c] = "//" THEN Spelled(T[l], c - 1) ELSE Append(Spelled(T[l], c - 1), T[l][c])
        /\ Spelled(T[l], c - 1) \in Seq(STRING)
    <2>1. c - 1 \in 0 .. Len(T[l])
      BY <1>1
    <2> QED BY <1>1, <2>1, SpelledStep
  <1>3. T[l][c] \in STRING
    BY <1>1, TextTyped
  <1> DEFINE s == Spelled(T[l], c - 1)
             e == T[l][c]
  <1>4. CASE l = d
    <2>1. s # <<>>
      <3>1. c - 1 \in 1 .. Len(T[l])
        BY <1>1, <1>4
      <3> QED BY <1>1, <1>4, <3>1, DirectiveLineSpelled
    <2>2. Tail(Append(s, e)) = Append(Tail(s), e)
      <3> HIDE DEF s, e
      <3> QED BY SMTT(30), <1>2, <1>3, <2>1
    <2> QED BY <1>2, <1>4, <2>2 DEF Part
  <1>5. CASE l # d
    <2>1. DirectiveTo(T, d)[l - 1] \in Seq(STRING)
      <3>1. l - 1 \in d .. Len(T)
        BY <1>1, <1>5
      <3> QED BY <3>1, DirectiveTyped
    <2> DEFINE p == DirectiveTo(T, d)[l - 1]
               W == STRING
    <2>3. p \in Seq(W) /\ s \in Seq(W) /\ e \in W
      BY <1>2, <1>3, <2>1
    <2>2. p \o Append(s, e) = Append(p \o s, e)
      <3> HIDE DEF s, e, p, W
      <3> QED BY SMTT(30), <2>3, ConcatAppend
    <2> QED BY <1>2, <1>5, <2>2 DEF Part
  <1> QED BY <1>4, <1>5

\* A directive up to the first column of a line, and up to the end of a line it swallows.
LEMMA PartStart ==
  ASSUME NEW T \in FileTexts, NEW d \in 1 .. Len(T), IsDirectiveLine(T[d])
  PROVE  /\ Part(T, d, d, 1) = <<>>
         /\ \A l \in d + 1 .. Len(T) : Part(T, d, l, 0) = DirectiveTo(T, d)[l - 1]
         /\ \A l \in d .. Len(T) : Extends(T, d, l) => Part(T, d, l, Len(T[l])) = DirectiveTo(T, d)[l]
  <1>1. Len(T) \in Nat /\ \A l \in 1 .. Len(T) : T[l] \in Seq(Word) /\ Len(T[l]) \in Nat
    BY TextTyped
  <1>2. Part(T, d, d, 1) = <<>>
    <2>1. 1 \in 1 .. Len(T[d])
      BY <1>1 DEF IsDirectiveLine
    <2>2. Spelled(T[d], 1) = <<"#">>
      BY <1>1, <2>1, DirectiveLineSpelled
    <2>3. Tail(<<"#">>) = <<>>
      OBVIOUS
    <2> QED BY <2>2, <2>3 DEF Part
  <1>3. ASSUME NEW l \in d + 1 .. Len(T) PROVE Part(T, d, l, 0) = DirectiveTo(T, d)[l - 1]
    <2>1. l - 1 \in d .. Len(T) /\ l # d /\ l \in 1 .. Len(T)
      BY <1>1
    <2>2. DirectiveTo(T, d)[l - 1] \in Seq(STRING) /\ Spelled(T[l], 0) = <<>>
      BY <1>1, <2>1, DirectiveTyped, SpelledStep
    <2>3. DirectiveTo(T, d)[l - 1] \o <<>> = DirectiveTo(T, d)[l - 1]
      BY <2>2, ConcatEmptySeq
    <2> QED BY <2>1, <2>2, <2>3 DEF Part
  <1>4. ASSUME NEW l \in d .. Len(T), Extends(T, d, l) PROVE Part(T, d, l, Len(T[l])) = DirectiveTo(T, d)[l]
    <2>1. d \in Nat /\ d <= Len(T) /\ (l # d => l \in d + 1 .. Len(T))
      BY <1>1
    <2> QED BY <1>1, <1>4, <2>1, DirectivePass DEF Part
  <1> QED BY <1>2, <1>3, <1>4

-----------------------------------------------------------------------------
(* Where directives end, and the lines they swallow.                        *)

\* Nothing but comments and empty lines extends a directive.
LEMMA DirectiveEnds ==
  ASSUME NEW T \in FileTexts, NEW d \in 1 .. Len(T), IsDirectiveLine(T[d]), NEW l \in d .. Len(T),
         Extends(T, d, l), NEW n \in l + 1 .. Len(T) + 1, \A k \in l + 1 .. n - 1 : T[k] = <<>>,
         n <= Len(T) => ~Continues(T[n])
  PROVE  /\ Directive(T, d) = Part(T, d, l, Len(T[l]))
         /\ \A k \in d + 1 .. n - 1 : IsSwallowed(T, k)
         /\ n <= Len(T) => ~IsSwallowed(T, n)
  <1> DEFINE D == DirectiveTo(T, d)
  <1>1. Len(T) \in Nat /\ d \in Nat /\ d <= Len(T) /\ l \in Nat /\ n \in Nat
    BY TextTyped
  <1>2. \A k \in d + 1 .. Len(T) : D[k] = IF Extends(T, d, k) THEN D[k - 1] \o Spelled(T[k], Len(T[k])) ELSE D[k - 1]
    BY <1>1, DirectivePass
  <1> HIDE DEF D
  <1>3. \A k \in d .. n - 1 : Extends(T, d, k)
    BY <1>1 DEF Extends, Continues
  <1>4. \A k \in n .. Len(T) : ~Extends(T, d, k)
    BY <1>1 DEF Extends
  <1>5. ASSUME NEW k \in l + 1 .. n - 1 PROVE D[k] = D[k - 1]
    <2>1. k \in 1 .. Len(T) /\ k \in d + 1 .. Len(T) /\ k \in d .. n - 1 /\ k - 1 \in d .. Len(T)
      BY <1>1
    <2>2. T[k] = <<>> /\ <<>> \in Seq(Word) /\ Len(<<>>) = 0
      OBVIOUS
    <2>3. Spelled(T[k], Len(T[k])) = <<>>
      BY <2>2, SpelledStep
    <2>4. D[k - 1] \in Seq(STRING)
      BY <2>1, DirectiveTyped DEF D
    <2>5. D[k - 1] \o <<>> = D[k - 1]
      BY <2>4, ConcatEmptySeq
    <2> QED BY <1>2, <1>3, <2>1, <2>3, <2>5
  <1>6. ASSUME NEW k \in n .. Len(T) PROVE D[k] = D[k - 1]
    <2>1. k \in d + 1 .. Len(T)
      BY <1>1
    <2> QED BY <1>2, <1>4, <2>1
  <1>7. D[Len(T)] = D[l]
    <2>1. \A k \in l + 1 .. Len(T) : D[k] = D[k - 1]
      BY <1>1, <1>5, <1>6
    <2> QED BY <1>1, <2>1, Steady
  <1>8. Directive(T, d) = Part(T, d, l, Len(T[l]))
    BY <1>7, PartStart DEF Directive, D
  <1>9. \A k \in d + 1 .. n - 1 : IsSwallowed(T, k)
    <2>1. \A k \in d + 1 .. n - 1 : d \in 1 .. k - 1 /\ k \in d .. n - 1
      BY <1>1
    <2> QED BY <1>3, <2>1 DEF IsSwallowed
  <1>10. ~Continues(T[n]) => ~IsSwallowed(T, n)
    BY <1>1 DEF IsSwallowed, Extends
  <1> QED BY <1>8, <1>9, <1>10

\* A line that begins with text is swallowed by nothing.
LEMMA NotSwallowed ==
  ASSUME NEW T, NEW k \in Nat, ~Continues(T[k])
  PROVE  ~IsSwallowed(T, k)
BY DEF IsSwallowed, Extends

\* What is behind a line of text is not swallowed, through empty lines and comments.
LEMMA PlainOn ==
  ASSUME NEW T \in FileTexts, NEW l \in 1 .. Len(T), ~IsSwallowed(T, l), ~IsDirectiveLine(T[l]),
         NEW n \in l .. Len(T), \A k \in l + 1 .. n - 1 : T[k] = <<>>
  PROVE  ~IsSwallowed(T, n)
  <1>1. Len(T) \in Nat /\ l \in Nat /\ n \in Nat
    BY TextTyped
  <1>2. ASSUME NEW i \in 1 .. n - 1, Extends(T, i, n) PROVE FALSE
    <2>1. i \in Nat /\ IsDirectiveLine(T[i]) /\ \A k \in i + 1 .. n : Continues(T[k])
      BY <1>2 DEF Extends
    <2>2. CASE i < l
      <3>1. i \in 1 .. l - 1 /\ Extends(T, i, l)
        BY <1>1, <2>1, <2>2 DEF Extends
      <3> QED BY <3>1 DEF IsSwallowed
    <2>3. CASE i = l
      BY <2>1, <2>3
    <2>4. CASE i > l
      <3>1. T[i] = <<>>
        BY <1>1, <2>4
      <3> QED BY <2>1, <3>1 DEF IsDirectiveLine
    <2> QED BY <1>1, <2>1, <2>2, <2>3, <2>4
  <1> QED BY <1>2 DEF IsSwallowed

-----------------------------------------------------------------------------
(* Conditionals.                                                            *)
Ifs(T, j, k) == {l \in j .. k : IsDirective(T, l, "if")}
Endifs(T, j, k) == {l \in j .. k : IsDirective(T, l, "endif")}

\* The balance of conditionals changes by the directive of a line.
LEMMA BalanceStep ==
  ASSUME NEW T, NEW j \in Nat, NEW k \in Nat
  PROVE  /\ Balance(T, j, k) \in Int
         /\ k < j => Balance(T, j, k) = 0
         /\ k >= j => Balance(T, j, k) = Balance(T, j, k - 1)
                           + (IF IsDirective(T, k, "if") THEN 1 ELSE 0)
                           - (IF IsDirective(T, k, "endif") THEN 1 ELSE 0)
  <1>1. ASSUME NEW i \in Nat, NEW h \in Int
        PROVE  /\ IsFiniteSet(Ifs(T, i, h)) /\ Cardinality(Ifs(T, i, h)) \in Nat
               /\ IsFiniteSet(Endifs(T, i, h)) /\ Cardinality(Endifs(T, i, h)) \in Nat
    <2>1. IsFiniteSet(i .. h)
      BY FS_Interval
    <2>2. Ifs(T, i, h) \subseteq i .. h /\ Endifs(T, i, h) \subseteq i .. h
      BY DEF Ifs, Endifs
    <2> QED BY <2>1, <2>2, FS_Subset, FS_CardinalityType
  <1>2. \A i, h \in Int : Balance(T, i, h) = Cardinality(Ifs(T, i, h)) - Cardinality(Endifs(T, i, h))
    BY DEF Balance, Ifs, Endifs
  <1>3. ASSUME k < j PROVE Balance(T, j, k) = 0
    <2>1. Ifs(T, j, k) = {} /\ Endifs(T, j, k) = {}
      BY <1>3 DEF Ifs, Endifs
    <2>2. Cardinality(Ifs(T, j, k)) = 0 /\ Cardinality(Endifs(T, j, k)) = 0
      BY <2>1, FS_EmptySet
    <2>3. Balance(T, j, k) = Cardinality(Ifs(T, j, k)) - Cardinality(Endifs(T, j, k))
      BY <1>2
    <2> QED BY <2>2, <2>3
  <1>4. ASSUME k >= j
        PROVE  /\ Cardinality(Ifs(T, j, k)) = Cardinality(Ifs(T, j, k - 1)) + (IF IsDirective(T, k, "if") THEN 1 ELSE 0)
               /\ Cardinality(Endifs(T, j, k)) = Cardinality(Endifs(T, j, k - 1)) + (IF IsDirective(T, k, "endif") THEN 1 ELSE 0)
    <2>1. /\ Ifs(T, j, k) = IF IsDirective(T, k, "if") THEN Ifs(T, j, k - 1) \cup {k} ELSE Ifs(T, j, k - 1)
          /\ k \notin Ifs(T, j, k - 1)
      BY <1>4 DEF Ifs
    <2>2. /\ Endifs(T, j, k) = IF IsDirective(T, k, "endif") THEN Endifs(T, j, k - 1) \cup {k} ELSE Endifs(T, j, k - 1)
          /\ k \notin Endifs(T, j, k - 1)
      BY <1>4 DEF Endifs
    <2>3. k - 1 \in Int
      OBVIOUS
    <2>4. Cardinality(Ifs(T, j, k - 1)) \in Nat /\ Cardinality(Endifs(T, j, k - 1)) \in Nat
          /\ IsFiniteSet(Ifs(T, j, k - 1)) /\ IsFiniteSet(Endifs(T, j, k - 1))
      BY <1>1, <2>3
    <2>5. /\ Cardinality(Ifs(T, j, k - 1) \cup {k}) = Cardinality(Ifs(T, j, k - 1)) + 1
          /\ Cardinality(Endifs(T, j, k - 1) \cup {k}) = Cardinality(Endifs(T, j, k - 1)) + 1
      BY <2>1, <2>2, <2>4, FS_AddElement
    <2> QED BY <2>1, <2>2, <2>4, <2>5
  <1>5. Balance(T, j, k) \in Int
    BY <1>1, <1>2
  <1>6. ASSUME k >= j PROVE Balance(T, j, k) = Balance(T, j, k - 1)
                           + (IF IsDirective(T, k, "if") THEN 1 ELSE 0)
                           - (IF IsDirective(T, k, "endif") THEN 1 ELSE 0)
    <2>1. k - 1 \in Int /\ Cardinality(Ifs(T, j, k - 1)) \in Nat /\ Cardinality(Endifs(T, j, k - 1)) \in Nat
      BY <1>1
    <2> QED BY <1>2, <1>4, <1>6, <2>1
  <1> QED BY <1>3, <1>5, <1>6

\* Line j opens a conditional that is not closed before line i.
IsOpen(T, j, i) == IsDirective(T, j, "if") /\ \A k \in j .. i - 1 : Balance(T, j, k) >= 1

\* The conditionals of a state machine are those open before line i, down to the
\* first that is not true; the others are counted.
NestedBy(open, c, s, T, i) ==
    /\ \A q \in 1 .. Len(open) :
           open[q] < i /\ IsOpen(T, open[q], i) /\ Balance(T, open[q], i - 1) = Len(open) - q + 1
    /\ \A j \in 1 .. i - 1 : IsOpen(T, j, i) => \E q \in 1 .. Len(open) : open[q] = j
    /\ Len(c) <= Len(open) /\ s = Len(open) - Len(c)
    /\ \A q \in 1 .. Len(c) : c[q] <=> IsTrue(T, open[q])
    /\ \A q \in 1 .. Len(c) - 1 : c[q]
    /\ s > 0 => Len(c) > 0 /\ ~c[Len(c)]
Nested(c, s, T, i) == \E open \in Seq(1 .. Len(T)) : NestedBy(open, c, s, T, i)

Active(c) == c = <<>> \/ Last(c)

\* Before the first line no conditional is open.
LEMMA NothingNested ==
  ASSUME NEW T
  PROVE  Nested(<<>>, 0, T, 1)
  <1>1. <<>> \in Seq(1 .. Len(T)) /\ Len(<<>>) = 0
    OBVIOUS
  <1>2. \A q \in 1 .. 0 : FALSE
    OBVIOUS
  <1>3. NestedBy(<<>>, <<>>, 0, T, 1)
    BY <1>1, <1>2 DEF NestedBy
  <1> QED BY <1>1, <1>3 DEF Nested

\* A conditional stays open through a line that does not close it.
LEMMA OpenStep ==
  ASSUME NEW T, NEW i \in Nat, NEW j \in 1 .. i - 1
  PROVE  IsOpen(T, j, i + 1) <=> IsOpen(T, j, i) /\ Balance(T, j, i) >= 1
  <1>1. j \in Nat /\ j .. (i + 1) - 1 = (j .. i - 1) \cup {i}
    OBVIOUS
  <1> QED BY <1>1 DEF IsOpen

\* What is open was opened before.
LEMMA OpenBefore ==
  ASSUME NEW T, NEW open \in Seq(1 .. Len(T)), NEW c, NEW s, NEW i, NestedBy(open, c, s, T, i), i \in Nat
  PROVE  \A q \in 1 .. Len(open) : open[q] \in 1 .. i - 1
  <1>1. ASSUME NEW q \in 1 .. Len(open) PROVE open[q] \in 1 .. i - 1
    <2>1. open[q] < i
      BY DEF NestedBy
    <2>2. open[q] \in 1 .. Len(T)
      BY ElementOfSeq
    <2> QED BY <2>1, <2>2
  <1> QED BY <1>1

\* The conditionals that are kept say whether a line is selected.
LEMMA ActiveIsSelected ==
  ASSUME NEW c \in Seq(BOOLEAN), NEW s \in Nat, NEW T, Len(T) \in Nat, NEW i \in 1 .. Len(T) + 1, Nested(c, s, T, i)
  PROVE  Active(c) <=> IsSelected(T, i)
  <1>1. PICK open \in Seq(1 .. Len(T)) : NestedBy(open, c, s, T, i)
    BY DEF Nested
  <1>2. Len(c) \in Nat /\ Len(open) \in Nat /\ \A q \in 1 .. Len(open) : open[q] \in 1 .. Len(T)
    BY LenProperties, ElementOfSeq
  <1>3. c = <<>> <=> Len(c) = 0
    BY EmptySeq, LenProperties
  <1>4. Last(c) = c[Len(c)]
    BY DEF Last
  <1>5. ASSUME IsSelected(T, i), ~Active(c) PROVE FALSE
    <2>1. Len(c) \in 1 .. Len(open) /\ Len(c) \in 1 .. Len(c) /\ ~c[Len(c)]
      BY SMTT(30), <1>1, <1>2, <1>3, <1>4, <1>5 DEF Active, NestedBy
    <2> DEFINE j == open[Len(c)]
    <2>2. j \in 1 .. i - 1 /\ IsDirective(T, j, "if") /\ ~IsTrue(T, j) /\ \A k \in j .. i - 1 : Balance(T, j, k) >= 1
      BY SMTT(30), <1>1, <1>2, <2>1 DEF IsOpen, NestedBy
    <2>3. PICK k \in j .. i - 1 : Balance(T, j, k) = 0
      BY <1>5, <2>2 DEF IsSelected
    <2> QED BY <2>2, <2>3
  <1>6. ASSUME Active(c), ~IsSelected(T, i) PROVE FALSE
    <2>1. PICK j \in 1 .. i - 1 : /\ IsDirective(T, j, "if") /\ ~IsTrue(T, j)
                                  /\ \A k \in j .. i - 1 : Balance(T, j, k) # 0
      BY <1>6 DEF IsSelected
    <2>2. s = 0 /\ \A q \in 1 .. Len(c) : c[q]
      BY SMTT(30), <1>1, <1>2, <1>3, <1>4, <1>6 DEF Active, NestedBy
    <2>3. ~IsOpen(T, j, i)
      <3>1. ASSUME IsOpen(T, j, i) PROVE FALSE
        <4>1. PICK q \in 1 .. Len(open) : open[q] = j
          BY <1>1, <3>1 DEF NestedBy
        <4>2. q \in 1 .. Len(c)
          BY <1>1, <1>2, <2>2 DEF NestedBy
        <4> QED BY <1>1, <2>1, <2>2, <4>1, <4>2 DEF NestedBy
      <3> QED BY <3>1
    <2> DEFINE Low == {k \in j .. i - 1 : ~(Balance(T, j, k) >= 1)}
    <2>11. PICK h \in j .. i - 1 : ~(Balance(T, j, h) >= 1)
      BY <2>1, <2>3 DEF IsOpen
    <2>12. \A g \in j .. i - 1 : g \in Nat
      BY <2>1
    <2>4. Low # {} /\ Low \in SUBSET Nat
      BY <2>11, <2>12
    <2>5. PICK k \in Low : \A g \in Low : k <= g
      BY <2>4, LeastNumber
    <2>6. /\ k \in Nat /\ j \in Nat /\ k >= j /\ k \in j .. i - 1 /\ ~(Balance(T, j, k) >= 1)
          /\ k > j => Balance(T, j, k - 1) >= 1
      <3>1. k > j => k - 1 \in j .. i - 1 /\ ~(k <= k - 1)
        BY <2>5
      <3> QED BY <2>5, <3>1
    <2>7. Balance(T, j, k) \in Int /\ Balance(T, j, k - 1) \in Int
      <3>1. k - 1 \in Nat
        BY <2>1, <2>6
      <3> QED BY <2>6, <3>1, BalanceStep
    <2>8. Balance(T, j, k) >= Balance(T, j, k - 1) - 1
      BY SMTT(30), <2>6, <2>7, BalanceStep
    <2>9. k > j
      <3>1. ASSUME k = j PROVE FALSE
        <4>1. Balance(T, j, j - 1) = 0
          <5>1. j - 1 \in Nat /\ j - 1 < j
            BY <2>1
          <5> QED BY <2>6, <5>1, BalanceStep
        <4>2. ~IsDirective(T, j, "endif")
          BY <2>1 DEF IsDirective
        <4>3. Balance(T, j, j) = Balance(T, j, j - 1) + 1 - 0
          BY <2>1, <2>6, <4>2, BalanceStep
        <4> QED BY <2>6, <3>1, <4>1, <4>3
      <3> QED BY <2>6, <3>1
    <2>10. Balance(T, j, k) = 0
      BY <2>6, <2>7, <2>8, <2>9
    <2> QED BY <2>1, <2>6, <2>10
  <1>7. IsSelected(T, i) \in BOOLEAN
    BY DEF IsSelected
  <1> QED BY <1>5, <1>6

\* A line that is neither #if nor #endif changes nothing.
LEMMA NestedOther ==
  ASSUME NEW c, NEW s, NEW T, NEW i \in Nat \ {0}, Nested(c, s, T, i),
         ~IsDirective(T, i, "if"), ~IsDirective(T, i, "endif")
  PROVE  Nested(c, s, T, i + 1)
  <1>1. PICK open \in Seq(1 .. Len(T)) : NestedBy(open, c, s, T, i)
    BY DEF Nested
  <1>2. \A j \in 1 .. i - 1 : Balance(T, j, i) = Balance(T, j, i - 1) /\ Balance(T, j, i) \in Int
    <2>1. ASSUME NEW j \in 1 .. i - 1 PROVE Balance(T, j, i) = Balance(T, j, i - 1) /\ Balance(T, j, i) \in Int
      <3>1. j \in Nat /\ i >= j /\ i - 1 \in Nat
        OBVIOUS
      <3>2. Balance(T, j, i - 1) \in Int /\ Balance(T, j, i) \in Int
        BY <3>1, BalanceStep
      <3>3. Balance(T, j, i) = Balance(T, j, i - 1) + 0 - 0
        BY <3>1, BalanceStep
      <3> QED BY <3>2, <3>3
    <2> QED BY <2>1
  <1>3. \A j \in 1 .. i - 1 : IsOpen(T, j, i + 1) <=> IsOpen(T, j, i)
    <2>1. ASSUME NEW j \in 1 .. i - 1 PROVE IsOpen(T, j, i + 1) <=> IsOpen(T, j, i)
      <3>1. IsOpen(T, j, i) => Balance(T, j, i - 1) >= 1
        BY DEF IsOpen
      <3> QED BY <1>2, <3>1, OpenStep
    <2> QED BY <2>1
  <1>4. ~IsOpen(T, i, i + 1)
    BY DEF IsOpen
  <1>5. \A q \in 1 .. Len(open) : open[q] \in 1 .. i - 1
    BY <1>1, OpenBefore
  <1>6. \A q \in 1 .. Len(open) :
            open[q] < i + 1 /\ IsOpen(T, open[q], i + 1) /\ Balance(T, open[q], (i + 1) - 1) = Len(open) - q + 1
    <2>1. (i + 1) - 1 = i
      OBVIOUS
    <2> QED BY SMTT(30), <1>1, <1>2, <1>3, <1>5, <2>1 DEF NestedBy
  <1>7. \A j \in 1 .. (i + 1) - 1 : IsOpen(T, j, i + 1) => \E q \in 1 .. Len(open) : open[q] = j
    <2>1. \A j \in 1 .. (i + 1) - 1 : j \in 1 .. i - 1 \/ j = i
      OBVIOUS
    <2> QED BY <1>1, <1>3, <1>4, <2>1 DEF NestedBy
  <1> QED BY <1>1, <1>6, <1>7 DEF Nested, NestedBy

\* HandleIfDirective.
LEMMA NestedIf ==
  ASSUME NEW c \in Seq(BOOLEAN), NEW s \in Nat, NEW T, Len(T) \in Nat, NEW i \in 1 .. Len(T), Nested(c, s, T, i),
         IsDirective(T, i, "if"), NEW v \in BOOLEAN, v <=> IsTrue(T, i)
  PROVE  IF Active(c) THEN Nested(Append(c, v), s, T, i + 1) ELSE Nested(c, s + 1, T, i + 1)
  <1>1. PICK open \in Seq(1 .. Len(T)) : NestedBy(open, c, s, T, i)
    BY DEF Nested
  <1> DEFINE n == Len(open)
             o == Append(open, i)
  <1>2. Len(c) \in Nat /\ n \in Nat /\ i \in Nat /\ (c = <<>> <=> Len(c) = 0) /\ Last(c) = c[Len(c)]
    BY EmptySeq, LenProperties DEF Last
  <1>3. o \in Seq(1 .. Len(T)) /\ Len(o) = n + 1 /\ o[n + 1] = i /\ \A q \in 1 .. n : o[q] = open[q] /\ open[q] \in 1 .. i - 1
    <2>1. \A q \in 1 .. n : open[q] \in 1 .. i - 1
      BY <1>1, OpenBefore
    <2>2. o \in Seq(1 .. Len(T)) /\ Len(o) = n + 1 /\ o[n + 1] = i /\ \A q \in 1 .. n : o[q] = open[q]
      OBVIOUS
    <2> HIDE DEF o, n
    <2> QED BY <2>1, <2>2
  <1>4. ~IsDirective(T, i, "endif")
    BY DEF IsDirective
  <1>5. ASSUME NEW j \in 1 .. i - 1, IsOpen(T, j, i)
        PROVE  Balance(T, j, i) = Balance(T, j, i - 1) + 1 /\ IsOpen(T, j, i + 1) /\ Balance(T, j, i - 1) \in Int
    <2>1. j \in Nat /\ i >= j /\ i - 1 \in Nat
      BY <1>2
    <2>2. Balance(T, j, i - 1) \in Int /\ Balance(T, j, i) = Balance(T, j, i - 1) + 1 - 0
      BY <1>2, <1>4, <2>1, BalanceStep
    <2>3. Balance(T, j, i - 1) >= 1
      BY <1>5, <2>1 DEF IsOpen
    <2> QED BY <1>2, <1>5, <2>2, <2>3, OpenStep
  <1>6. Balance(T, i, i) = 1 /\ IsOpen(T, i, i + 1)
    <2>1. Balance(T, i, i - 1) = 0
      <3>1. i - 1 \in Nat /\ i - 1 < i
        BY <1>2
      <3> QED BY <1>2, <3>1, BalanceStep
    <2>2. Balance(T, i, i) = Balance(T, i, i - 1) + 1 - 0
      BY <1>2, <1>4, BalanceStep
    <2>3. \A k \in i .. (i + 1) - 1 : k = i
      <3>1. \A j \in Nat : \A k \in j .. (j + 1) - 1 : k = j
        OBVIOUS
      <3> QED BY <1>2, <3>1
    <2> QED BY <2>1, <2>2, <2>3 DEF IsOpen
  <1> HIDE DEF n, o
  <1>7. \A q \in 1 .. Len(o) :
            o[q] < i + 1 /\ IsOpen(T, o[q], i + 1) /\ Balance(T, o[q], (i + 1) - 1) = Len(o) - q + 1
    <2>1. ASSUME NEW q \in 1 .. Len(o)
          PROVE  o[q] < i + 1 /\ IsOpen(T, o[q], i + 1) /\ Balance(T, o[q], (i + 1) - 1) = Len(o) - q + 1
      <3>1. (i + 1) - 1 = i /\ (q = n + 1 \/ q \in 1 .. n)
        BY <1>2, <1>3
      <3>2. CASE q = n + 1
        BY <1>2, <1>3, <1>6, <3>1, <3>2
      <3>3. CASE q \in 1 .. n
        <4>1. o[q] \in 1 .. i - 1 /\ IsOpen(T, o[q], i) /\ Balance(T, o[q], i - 1) = n - q + 1
          BY <1>1, <1>3, <3>3 DEF n, NestedBy
        <4> QED BY SMTT(30), <1>2, <1>3, <1>5, <3>1, <3>3, <4>1
      <3> QED BY <3>1, <3>2, <3>3
    <2> QED BY <2>1
  <1>8. \A j \in 1 .. (i + 1) - 1 : IsOpen(T, j, i + 1) => \E q \in 1 .. Len(o) : o[q] = j
    <2>1. ASSUME NEW j \in 1 .. (i + 1) - 1, IsOpen(T, j, i + 1) PROVE \E q \in 1 .. Len(o) : o[q] = j
      <3>1. j = i \/ j \in 1 .. i - 1
        BY <1>2
      <3>2. CASE j = i
        <4>1. n + 1 \in 1 .. Len(o)
          BY <1>2, <1>3
        <4> QED BY <1>3, <3>2, <4>1
      <3>3. CASE j \in 1 .. i - 1
        <4>1. IsOpen(T, j, i)
          BY <1>2, <2>1, <3>3, OpenStep
        <4>2. PICK q \in 1 .. n : open[q] = j
          BY <1>1, <3>3, <4>1 DEF n, NestedBy
        <4>3. q \in 1 .. Len(o)
          BY <1>2, <1>3
        <4> QED BY <1>3, <4>2, <4>3
      <3> QED BY <3>1, <3>2, <3>3
    <2> QED BY <2>1
  <1>9. CASE Active(c)
    <2> DEFINE d == Append(c, v)
    <2>1. s = 0 /\ n = Len(c) /\ \A q \in 1 .. Len(c) : c[q]
      <3>1. /\ Len(c) <= n /\ s = n - Len(c)
            /\ \A q \in 1 .. Len(c) - 1 : c[q]
            /\ s > 0 => Len(c) > 0 /\ ~c[Len(c)]
        BY <1>1 DEF n, NestedBy
      <3>2. Len(c) = 0 \/ c[Len(c)]
        BY <1>2, <1>9 DEF Active
      <3>3. s = 0 /\ n = Len(c)
        BY <1>2, <3>1, <3>2
      <3>4. \A q \in 1 .. Len(c) : q = Len(c) \/ q \in 1 .. Len(c) - 1
        BY <1>2
      <3> QED BY <3>1, <3>2, <3>3, <3>4
    <2>2. Len(d) = Len(c) + 1 /\ d[Len(c) + 1] = v /\ \A q \in 1 .. Len(c) : d[q] = c[q]
      OBVIOUS
    <2> HIDE DEF d
    <2>3. \A q \in 1 .. Len(d) : d[q] <=> IsTrue(T, o[q])
      <3>1. ASSUME NEW q \in 1 .. Len(d) PROVE d[q] <=> IsTrue(T, o[q])
        <4>1. q = Len(c) + 1 \/ q \in 1 .. Len(c)
          BY <1>2, <2>2
        <4>2. CASE q = Len(c) + 1
          BY <1>3, <2>1, <2>2, <4>2
        <4>3. CASE q \in 1 .. Len(c)
          BY <1>1, <1>3, <2>1, <2>2, <4>3 DEF NestedBy
        <4> QED BY <4>1, <4>2, <4>3
      <3> QED BY <3>1
    <2>4. ASSUME NEW q \in 1 .. Len(d) - 1 PROVE d[q]
      <3>1. q \in 1 .. Len(c)
        BY <1>2, <2>2
      <3> QED BY <2>1, <2>2, <3>1
    <2>5. Len(d) <= Len(o) /\ s = Len(o) - Len(d)
      <3>1. Len(c) \in Nat /\ Len(o) = Len(c) + 1
        BY <1>2, <1>3, <2>1
      <3>2. Len(d) = Len(c) + 1 /\ s = 0
        BY <2>1, <2>2
      <3> QED BY <3>1, <3>2
    <2>6. Nested(d, s, T, i + 1)
      <3>1. NestedBy(o, d, s, T, i + 1)
        BY <1>7, <1>8, <2>1, <2>3, <2>4, <2>5 DEF NestedBy
      <3> QED BY <1>3, <3>1 DEF Nested
    <2> QED BY <1>9, <2>6 DEF d
  <1>10. CASE ~Active(c)
    <2>4. Len(c) <= n /\ s = n - Len(c) /\ \A q \in 1 .. Len(c) : c[q] <=> IsTrue(T, open[q])
      BY <1>1 DEF NestedBy, n
    <2>5. Len(c) > 0 /\ ~c[Len(c)]
      BY <1>2, <1>10 DEF Active
    <2>1. Len(c) <= Len(o) /\ s + 1 = Len(o) - Len(c) /\ Len(c) > 0 /\ ~c[Len(c)]
      BY <1>2, <1>3, <2>4, <2>5
    <2>2. ASSUME NEW q \in 1 .. Len(c) PROVE c[q] <=> IsTrue(T, o[q])
      <3>1. q \in 1 .. n
        BY <1>2, <2>4
      <3> QED BY <1>3, <2>4, <3>1
    <2>3. Nested(c, s + 1, T, i + 1)
      <3>1. NestedBy(o, c, s + 1, T, i + 1)
        BY <1>1, <1>7, <1>8, <2>1, <2>2 DEF NestedBy
      <3> QED BY <1>3, <3>1 DEF Nested
    <2> QED BY <1>10, <2>3
  <1> QED BY <1>9, <1>10

\* HandleEndifDirective.
LEMMA NestedEndif ==
  ASSUME NEW c \in Seq(BOOLEAN), NEW s \in Nat, NEW T, Len(T) \in Nat, NEW i \in 1 .. Len(T), Nested(c, s, T, i),
         IsDirective(T, i, "endif")
  PROVE  IF s > 0 THEN Nested(c, s - 1, T, i + 1)
         ELSE IF c = <<>> THEN Nested(c, s, T, i + 1)
         ELSE Nested(Front(c), s, T, i + 1)
  <1>1. PICK open \in Seq(1 .. Len(T)) : NestedBy(open, c, s, T, i)
    BY DEF Nested
  <1> DEFINE n == Len(open)
  <1>2. Len(c) \in Nat /\ n \in Nat /\ i \in Nat /\ (c = <<>> <=> Len(c) = 0)
    BY EmptySeq, LenProperties
  <1>3. \A q \in 1 .. n : open[q] \in 1 .. i - 1
    BY SMTT(30), <1>1, OpenBefore
  <1>4. ~IsDirective(T, i, "if") /\ ~IsOpen(T, i, i + 1)
    BY DEF IsDirective, IsOpen
  <1>5. ASSUME NEW j \in 1 .. i - 1
        PROVE  /\ Balance(T, j, i) = Balance(T, j, i - 1) - 1 /\ Balance(T, j, i - 1) \in Int
               /\ IsOpen(T, j, i + 1) <=> IsOpen(T, j, i) /\ Balance(T, j, i - 1) >= 2
    <2>1. j \in Nat /\ i >= j /\ i - 1 \in Nat
      BY <1>2
    <2>2. Balance(T, j, i - 1) \in Int /\ Balance(T, j, i) = Balance(T, j, i - 1) + 0 - 1
      BY <1>2, <1>4, <2>1, BalanceStep
    <2> QED BY <1>2, <2>2, OpenStep
  <1> HIDE DEF n
  <1>6. CASE n = 0
    <2>1. s = 0 /\ c = <<>>
      BY <1>1, <1>2, <1>6 DEF n, NestedBy
    <2>2. \A j \in 1 .. (i + 1) - 1 : ~IsOpen(T, j, i + 1)
      <3>1. ASSUME NEW j \in 1 .. (i + 1) - 1, IsOpen(T, j, i + 1) PROVE FALSE
        <4>1. j \in 1 .. i - 1
          BY <1>2, <1>4, <3>1
        <4>2. PICK q \in 1 .. n : open[q] = j
          BY <1>1, <1>5, <3>1, <4>1 DEF n, NestedBy
        <4> QED BY <1>6, <4>2
      <3> QED BY <3>1
    <2>3. \A q \in 1 .. n : q \notin 1 .. n
      BY <1>6
    <2>4. Nested(c, s, T, i + 1)
      BY <1>1, <2>2, <2>3 DEF Nested, n, NestedBy
    <2> QED BY <2>1, <2>4
  <1>7. CASE n > 0
    <2> DEFINE o == Front(open)
    <2>1. o \in Seq(1 .. Len(T)) /\ Len(o) = n - 1 /\ \A q \in 1 .. n - 1 : o[q] = open[q]
      <3> DEFINE W == 1 .. Len(T)
      <3>1. o = SubSeq(open, 1, n - 1)
        BY DEF Front, n
      <3>2. 1 \in Int /\ n - 1 \in Int /\ n - 1 >= 0 /\ \A q \in 1 .. n - 1 : open[q] \in W
        BY <1>2, <1>7, ElementOfSeq DEF n
      <3> HIDE DEF o, W
      <3>3. /\ o \in Seq(W) /\ Len(o) = IF 1 <= n - 1 THEN (n - 1) - 1 + 1 ELSE 0
            /\ \A q \in 1 .. (n - 1) - 1 + 1 : o[q] = open[1 + q - 1]
        BY <3>1, <3>2, SubSeqProperties
      <3>4. (n - 1) - 1 + 1 = n - 1 /\ \A q \in 1 .. n - 1 : 1 + q - 1 = q
        BY <1>2
      <3> QED BY <3>2, <3>3, <3>4 DEF W
    <2> HIDE DEF o
    <2>2. \A q \in 1 .. Len(o) :
              o[q] < i + 1 /\ IsOpen(T, o[q], i + 1) /\ Balance(T, o[q], (i + 1) - 1) = Len(o) - q + 1
      <3>1. ASSUME NEW q \in 1 .. Len(o)
            PROVE  o[q] < i + 1 /\ IsOpen(T, o[q], i + 1) /\ Balance(T, o[q], (i + 1) - 1) = Len(o) - q + 1
        <4>1. q \in 1 .. n /\ q \in 1 .. n - 1 /\ (i + 1) - 1 = i
          BY <1>2, <2>1
        <4>2. o[q] = open[q] /\ open[q] \in 1 .. i - 1 /\ IsOpen(T, open[q], i) /\ Balance(T, open[q], i - 1) = n - q + 1
          BY <1>1, <1>3, <2>1, <4>1 DEF n, NestedBy
        <4>3. Balance(T, o[q], i) = n - q + 1 - 1 /\ (IsOpen(T, o[q], i + 1) <=> n - q + 1 >= 2)
          <5> DEFINE j == open[q]
          <5>1. j \in 1 .. i - 1 /\ o[q] = j /\ IsOpen(T, j, i) /\ Balance(T, j, i - 1) = n - q + 1
            BY <4>2
          <5> HIDE DEF j
          <5>2. Balance(T, j, i) = Balance(T, j, i - 1) - 1
            BY <1>5, <5>1
          <5>3. IsOpen(T, j, i + 1) <=> n - q + 1 >= 2
            BY <1>5, <5>1
          <5>4. Balance(T, j, i) = n - q + 1 - 1
            BY <5>1, <5>2, <1>2
          <5> QED BY <5>1, <5>3, <5>4
        <4>4. n - q + 1 >= 2 /\ n - q + 1 - 1 = Len(o) - q + 1 /\ \A x \in 1 .. i - 1 : x < i + 1
          BY <1>2, <2>1, <4>1
        <4> QED BY <4>1, <4>2, <4>3, <4>4
      <3> QED BY <3>1
    <2>3. \A j \in 1 .. (i + 1) - 1 : IsOpen(T, j, i + 1) => \E q \in 1 .. Len(o) : o[q] = j
      <3>1. ASSUME NEW j \in 1 .. (i + 1) - 1, IsOpen(T, j, i + 1) PROVE \E q \in 1 .. Len(o) : o[q] = j
        <4>1. j \in 1 .. i - 1
          BY <1>2, <1>4, <3>1
        <4>2. IsOpen(T, j, i) /\ Balance(T, j, i - 1) >= 2
          BY <1>5, <3>1, <4>1
        <4>3. PICK q \in 1 .. n : open[q] = j
          BY <1>1, <4>1, <4>2 DEF n, NestedBy
        <4>4. Balance(T, j, i - 1) = n - q + 1
          BY <1>1, <4>3 DEF n, NestedBy
        <4>5. q \in 1 .. n - 1
          BY <1>2, <4>2, <4>4
        <4> QED BY <2>1, <4>3, <4>5
      <3> QED BY <3>1
    <2>4. CASE s > 0
      <3>1. Len(c) <= Len(o) /\ s - 1 = Len(o) - Len(c)
        BY <1>1, <1>2, <2>1, <2>4 DEF n, NestedBy
      <3>2. ASSUME NEW q \in 1 .. Len(c) PROVE c[q] <=> IsTrue(T, o[q])
        <4>1. q \in 1 .. n - 1
          BY <1>2, <2>1, <3>1
        <4> QED BY <1>1, <2>1, <4>1 DEF NestedBy
      <3>3. Nested(c, s - 1, T, i + 1)
        <4>1. s - 1 > 0 => Len(c) > 0 /\ ~c[Len(c)]
          BY <1>1, <2>4 DEF NestedBy
        <4>2. NestedBy(o, c, s - 1, T, i + 1)
          BY <1>1, <2>2, <2>3, <3>1, <3>2, <4>1 DEF NestedBy
        <4> QED BY <2>1, <4>2 DEF Nested
      <3> QED BY <2>4, <3>3
    <2>5. CASE ~(s > 0)
      <3>1. c # <<>> /\ Len(c) = n /\ s = 0
        BY <1>1, <1>2, <1>7, <2>5 DEF n, NestedBy
      <3> DEFINE d == Front(c)
      <3>2. Len(d) = n - 1 /\ \A q \in 1 .. n - 1 : d[q] = c[q]
        <4> DEFINE W == BOOLEAN
        <4>1. d = SubSeq(c, 1, n - 1) /\ c \in Seq(W)
          BY <3>1 DEF Front
        <4> HIDE DEF d, W
        <4>2. 1 \in Int /\ n - 1 \in Int /\ n - 1 >= 0 /\ \A q \in 1 .. n - 1 : c[q] \in W
          BY <1>2, <1>7, <3>1, <4>1, ElementOfSeq
        <4>3. /\ Len(d) = IF 1 <= n - 1 THEN (n - 1) - 1 + 1 ELSE 0
              /\ \A q \in 1 .. (n - 1) - 1 + 1 : d[q] = c[1 + q - 1]
          BY <4>1, <4>2, SubSeqProperties
        <4>4. (n - 1) - 1 + 1 = n - 1 /\ \A q \in 1 .. n - 1 : 1 + q - 1 = q
          BY <1>2
        <4> QED BY <4>2, <4>3, <4>4
      <3> HIDE DEF d
      <3>3. Len(d) <= Len(o) /\ s = Len(o) - Len(d)
        BY <1>2, <2>1, <3>1, <3>2
      <3>4. \A q \in 1 .. Len(d) : d[q] <=> IsTrue(T, o[q])
        BY SMTT(30), <1>1, <1>2, <2>1, <3>1, <3>2 DEF NestedBy
      <3>5. \A q \in 1 .. Len(d) - 1 : d[q]
        BY <1>1, <1>2, <3>1, <3>2 DEF NestedBy
      <3>6. Nested(d, s, T, i + 1)
        <4>1. NestedBy(o, d, s, T, i + 1)
          BY <2>2, <2>3, <3>1, <3>3, <3>4, <3>5 DEF NestedBy
        <4> QED BY <2>1, <4>1 DEF Nested
      <3> QED BY <2>5, <3>1, <3>6 DEF d
    <2> QED BY <2>4, <2>5
  <1> QED BY <1>2, <1>6, <1>7

-----------------------------------------------------------------------------
(* What a text stands for.                                                  *)
Headers == [DOMAIN Canonical -> Seq(Item)]

\* A header name stands for a file on disk, or for none.
LEMMA ResolvedPath ==
  ASSUME NEW onDisk \in Disks, NEW name \in DOMAIN Canonical
  PROVE  /\ Len(Canonical[name]) \in Nat /\ DOMAIN Canonical[name] = 1 .. Len(Canonical[name])
         /\ \A i \in 1 .. Len(Canonical[name]) : Canonical[name][i] \in Paths
         /\ Resolved(onDisk, name) \in Paths
         /\ Resolved(onDisk, name) # NoPath => Resolved(onDisk, name) \in DOMAIN onDisk
         /\ NoPath \notin DOMAIN onDisk
         /\ \A path \in DOMAIN onDisk : onDisk[path] \in FileTexts
  <1> DEFINE dirs == Canonical[name]
             hits == {i \in DOMAIN dirs : dirs[i] \in DOMAIN onDisk}
  <1>1. dirs \in Seq(Range(dirs))
    BY FileAssumption
  <1>2. Len(dirs) \in Nat /\ DOMAIN dirs = 1 .. Len(dirs)
    <2> DEFINE W == Range(dirs)
    <2>1. dirs \in Seq(W)
      BY <1>1
    <2> HIDE DEF W, dirs
    <2> QED BY <2>1, LenProperties
  <1>3. \A i \in 1 .. Len(dirs) : dirs[i] \in Paths
    <2>1. \A i \in 1 .. Len(dirs) : dirs[i] \in Range(dirs)
      BY <1>2 DEF Range
    <2> QED BY <2>1 DEF Paths
  <1>4. ASSUME hits # {} PROVE Min(hits) \in hits
    <2>1. hits \in SUBSET Nat
      BY <1>2
    <2> HIDE DEF hits
    <2> QED BY <1>4, <2>1, MinIsLeast
  <1>5. Resolved(onDisk, name) = IF hits = {} THEN NoPath ELSE dirs[Min(hits)]
    BY DEF Resolved
  <1>6. NoPath \in Paths
    BY DEF Paths
  <1>7. NoPath \notin DOMAIN onDisk /\ \A path \in DOMAIN onDisk : onDisk[path] \in FileTexts
    BY FileAssumption
  <1>8. hits # {} => dirs[Min(hits)] \in Paths /\ dirs[Min(hits)] \in DOMAIN onDisk
    BY <1>2, <1>3, <1>4
  <1> HIDE DEF hits
  <1> QED BY <1>2, <1>3, <1>5, <1>6, <1>7, <1>8

\* The tokens of a line are items.
LEMMA TokenItemsTyped ==
  ASSUME NEW path \in Paths, NEW line \in Seq(Word), NEW i \in Nat \ {0}, NEW c \in 0 .. Len(line)
  PROVE  TokenItems(path, line, i, c) \in Seq(Item)
  <1> DEFINE columns == PlacesOf(STRING \ {"//"}, line)[c]
             Of(n) == [kind |-> "token", what |-> <<path, i - 1, columns[n] - 1>>]
  <1>1. Len(line) \in Nat
    BY LenProperties
  <1>2. columns \in Seq(1 .. Len(line)) /\ Len(columns) \in Nat /\ DOMAIN columns = 1 .. Len(columns)
    BY <1>1, PlacesTyped, LenProperties
  <1>3. ASSUME NEW n \in 1 .. Len(columns) PROVE Of(n) \in Item
    <2>1. columns[n] \in 1 .. Len(line)
      BY <1>2, ElementOfSeq
    <2> HIDE DEF columns
    <2>2. columns[n] - 1 \in Nat /\ i - 1 \in Nat
      BY <1>1, <2>1
    <2> QED BY <2>2 DEF Item
  <1>4. TokenItems(path, line, i, c) = [n \in 1 .. Len(columns) |-> Of(n)]
    BY <1>2 DEF TokenItems
  <1> HIDE DEF Of, columns
  <1>5. [n \in 1 .. Len(columns) |-> Of(n)] \in [1 .. Len(columns) -> Item]
    BY <1>3
  <1>6. [n \in 1 .. Len(columns) |-> Of(n)] \in Seq(Item)
    BY <1>2, <1>5
  <1> QED BY <1>4, <1>6

\* A line stands for items.
LEMMA LineItemsTyped ==
  ASSUME NEW path \in Paths, NEW T \in FileTexts, NEW headers \in Headers, NEW i \in 1 .. Len(T)
  PROVE  LineItems(path, T, i, headers) \in Seq(Item)
  <1>1. T[i] \in Seq(Word) /\ i \in Nat \ {0} /\ Len(T[i]) \in 0 .. Len(T[i])
    BY TextTyped
  <1>2. TokenItems(path, T[i], i, Len(T[i])) \in Seq(Item)
    BY <1>1, TokenItemsTyped
  <1>3. ASSUME IsDirectiveLine(T[i]) PROVE <<[kind |-> "directive", what |-> Directive(T, i)]>> \in Seq(Item)
    <2>1. Directive(T, i) \in Seq(STRING)
      BY <1>3, DirectiveTyped
    <2>2. [kind |-> "directive", what |-> Directive(T, i)] \in Item
      BY <2>1 DEF Item
    <2> QED BY <2>2
  <1>4. NamesHeader(Directive(T, i)) => headers[Directive(T, i)[2]] \in Seq(Item)
    BY DEF Headers, NamesHeader
  <1>5. <<>> \in Seq(Item)
    OBVIOUS
  <1> QED BY <1>2, <1>3, <1>4, <1>5 DEF LineItems

\* So does a text, up to any of its lines.
LEMMA ItemsTyped ==
  ASSUME NEW path \in Paths, NEW T \in FileTexts, NEW headers \in Headers
  PROVE  /\ \A k \in 0 .. Len(T) : ItemsTo(path, T, headers)[k] \in Seq(Item)
         /\ Items(path, T, headers) \in Seq(Item)
  <1> DEFINE I == ItemsTo(path, T, headers)
             S == {k \in 0 .. Len(T) : I[k] \in Seq(Item)}
  <1>1. Len(T) \in Nat
    BY TextTyped
  <1>2. I[0] = <<>> /\ \A k \in 1 .. Len(T) : I[k] = I[k - 1] \o LineItems(path, T, k, headers)
    BY <1>1, ItemsPass
  <1> HIDE DEF I
  <1>3. 0 \in S
    <2>1. <<>> \in Seq(Item) /\ 0 \in 0 .. Len(T)
      BY <1>1
    <2> QED BY <1>2, <2>1
  <1>4. ASSUME NEW k \in 1 .. Len(T), k - 1 \in S PROVE k \in S
    <2>1. I[k - 1] \in Seq(Item) /\ LineItems(path, T, k, headers) \in Seq(Item)
      BY <1>4, LineItemsTyped
    <2>2. I[k] \in Seq(Item)
      BY <1>2, <2>1, ConcatProperties
    <2> QED BY <2>2
  <1> HIDE DEF S
  <1>5. \A k \in 0 .. Len(T) : k \in S
    BY <1>1, <1>3, <1>4, Climb
  <1>6. \A k \in 0 .. Len(T) : I[k] \in Seq(Item)
    BY <1>5 DEF S
  <1> QED BY <1>1, <1>6 DEF I, Items

\* So does a header, by what the headers one deeper stand for.
LEMMA IncludedTyped ==
  ASSUME NEW onDisk \in Disks
  PROVE  /\ MaxIncludeDepth \in Nat
         /\ \A d \in 0 .. MaxIncludeDepth : Included(onDisk)[d] \in Headers
         /\ \A name \in DOMAIN Canonical : Included(onDisk)[0][name] = <<>>
         /\ \A d \in 1 .. MaxIncludeDepth : \A name \in DOMAIN Canonical :
                Included(onDisk)[d][name]
                    = IF Resolved(onDisk, name) = NoPath THEN <<>>
                      ELSE Items(Resolved(onDisk, name), onDisk[Resolved(onDisk, name)], Included(onDisk)[d - 1])
  <1> DEFINE I == Included(onDisk)
             Of(name, h) == IF Resolved(onDisk, name) = NoPath THEN <<>>
                            ELSE Items(Resolved(onDisk, name), onDisk[Resolved(onDisk, name)], h)
             S == {k \in 0 .. MaxIncludeDepth : I[k] \in Headers}
  <1>1. MaxIncludeDepth \in Nat
    BY FileAssumption
  <1>2. /\ I[0] = [name \in DOMAIN Canonical |-> <<>>]
        /\ \A k \in 1 .. MaxIncludeDepth : I[k] = [name \in DOMAIN Canonical |-> Of(name, I[k - 1])]
    BY <1>1, IncludedPass
  <1> HIDE DEF I
  <1>3. I[0] \in Headers
    BY <1>2 DEF Headers
  <1>4. 0 \in S
    BY <1>1, <1>3
  <1>5. ASSUME NEW k \in 1 .. MaxIncludeDepth, k - 1 \in S PROVE k \in S
    <2>1. I[k - 1] \in Headers
      BY <1>5
    <2>2. ASSUME NEW name \in DOMAIN Canonical PROVE Of(name, I[k - 1]) \in Seq(Item)
      <3>1. Resolved(onDisk, name) \in Paths
            /\ (Resolved(onDisk, name) # NoPath => onDisk[Resolved(onDisk, name)] \in FileTexts)
        BY ResolvedPath
      <3> QED BY <2>1, <3>1, ItemsTyped
    <2>3. I[k] \in Headers
      <3> HIDE DEF Of
      <3> QED BY <1>2, <2>2 DEF Headers
    <2> QED BY <1>1, <2>3
  <1> HIDE DEF S
  <1>6. \A k \in 0 .. MaxIncludeDepth : k \in S
    BY <1>1, <1>4, <1>5, Climb
  <1>7. \A k \in 0 .. MaxIncludeDepth : I[k] \in Headers
    BY <1>6 DEF S
  <1>8. ASSUME NEW d \in 1 .. MaxIncludeDepth, NEW name \in DOMAIN Canonical PROVE I[d][name] = Of(name, I[d - 1])
    <2> HIDE DEF Of
    <2> QED BY <1>2
  <1>9. \A name \in DOMAIN Canonical : I[0][name] = <<>>
    BY <1>2
  <1> QED BY <1>1, <1>7, <1>8, <1>9 DEF I

-----------------------------------------------------------------------------
(* The source manager.                                                      *)
Entry == [path : Paths, text : FileTexts]

IsFile(onDisk, list, n, path) ==
    /\ n \in 2 .. Len(list) /\ list[n].path = path
    /\ path \in DOMAIN onDisk /\ list[n].text = onDisk[path]

SourcesOK(onDisk, list, byPath, byFile) ==
    /\ list \in Seq(Entry)
    /\ list # <<>>
    /\ \A n \in 2 .. Len(list) : list[n].path \in DOMAIN byFile /\ byFile[list[n].path] = n
    /\ \A file \in DOMAIN byFile :
           (byFile[file] = NoFile /\ file \notin DOMAIN onDisk) \/ IsFile(onDisk, list, byFile[file], file)
    /\ \A path \in DOMAIN byPath :
           \/ byPath[path] = NoFile /\ CanonicalPath(path) \notin DOMAIN onDisk
           \/ IsFile(onDisk, list, byPath[path], CanonicalPath(path))

Grows(old, new) == Len(old) <= Len(new) /\ \A k \in 1 .. Len(old) : new[k] = old[k]

\* A map in which one key has a new value.
LEMMA StoredMap ==
  ASSUME NEW map, NEW key, NEW value, NEW new, new = Stored(map, key, value)
  PROVE  /\ key \in DOMAIN new /\ new[key] = value
         /\ \A k \in DOMAIN map : k \in DOMAIN new /\ (k # key => new[k] = map[k])
         /\ \A k \in DOMAIN new : k = key \/ k \in DOMAIN map
BY DEF Stored

\* OpenFromFile opens a file once.
LEMMA OpenedKeeps ==
  ASSUME disk \in Disks, NEW src, SourcesOK(disk, src.entries, src.lookup, src.canonical),
         DOMAIN src = {"entries", "lookup", "canonical"},
         NEW name \in DOMAIN Canonical, NEW i \in 1 .. Len(Canonical[name]),
         NEW now, now = Opened(src, <<i, name>>), NEW file, file = Canonical[name][i]
  PROVE  /\ SourcesOK(disk, now.entries, now.lookup, now.canonical)
         /\ Grows(src.entries, now.entries)
         /\ \/ now.lookup[<<i, name>>] = NoFile /\ file \notin DOMAIN disk /\ now.entries = src.entries
            \/ IsFile(disk, now.entries, now.lookup[<<i, name>>], file)
  <1> DEFINE path == <<i, name>>
  <1>1. CanonicalPath(path) = file /\ NoPath \notin DOMAIN disk /\ file \in Paths
        /\ \A x \in DOMAIN disk : disk[x] \in FileTexts
    BY ResolvedPath DEF CanonicalPath
  <1> DEFINE next == Len(src.entries) + 1
             entry == [path |-> file, text |-> disk[file]]
  <1>2. now = IF path \in DOMAIN src.lookup THEN src
              ELSE IF file = NoPath THEN [src EXCEPT !.lookup = Stored(@, path, NoFile)]
              ELSE IF file \in DOMAIN src.canonical
              THEN [src EXCEPT !.lookup = Stored(@, path, src.canonical[file])]
              ELSE IF file \notin DOMAIN disk
              THEN [src EXCEPT !.lookup = Stored(@, path, NoFile), !.canonical = Stored(@, file, NoFile)]
              ELSE [entries |-> Append(src.entries, entry), lookup |-> Stored(src.lookup, path, next),
                    canonical |-> Stored(src.canonical, file, next)]
    BY <1>1 DEF Opened
  <1> HIDE DEF path
  <1>3. Len(src.entries) \in Nat /\ src.entries \in Seq(Entry) /\ Len(src.entries) > 0
    BY EmptySeq, LenProperties DEF SourcesOK
  <1>4. Grows(src.entries, src.entries)
    BY <1>3 DEF Grows
  <1>11. /\ \A f : /\ [src EXCEPT !.lookup = f].entries = src.entries
                    /\ [src EXCEPT !.lookup = f].lookup = f
                    /\ [src EXCEPT !.lookup = f].canonical = src.canonical
         /\ \A f, g : /\ [src EXCEPT !.lookup = f, !.canonical = g].entries = src.entries
                       /\ [src EXCEPT !.lookup = f, !.canonical = g].lookup = f
                       /\ [src EXCEPT !.lookup = f, !.canonical = g].canonical = g
    OBVIOUS
  <1>6. CASE path \in DOMAIN src.lookup
    <2>1. now = src
      BY <1>2, <1>6
    <2> QED BY <1>1, <1>4, <1>6, <2>1 DEF SourcesOK, path
  <1>7. ASSUME path \notin DOMAIN src.lookup, NEW n,
               now.entries = src.entries, now.lookup = Stored(src.lookup, path, n), now.canonical = src.canonical,
               (n = NoFile /\ file \notin DOMAIN disk) \/ IsFile(disk, src.entries, n, file)
        PROVE  /\ SourcesOK(disk, now.entries, now.lookup, now.canonical)
               /\ Grows(src.entries, now.entries)
               /\ \/ now.lookup[path] = NoFile /\ file \notin DOMAIN disk /\ now.entries = src.entries
                  \/ IsFile(disk, now.entries, now.lookup[path], file)
    <2>1. /\ path \in DOMAIN now.lookup /\ now.lookup[path] = n
          /\ \A y \in DOMAIN now.lookup : y = path \/ (y \in DOMAIN src.lookup /\ now.lookup[y] = src.lookup[y])
      BY <1>7, StoredMap
    <2>2. CanonicalPath(path) = file
      BY <1>1
    <2>3. \A p \in DOMAIN now.lookup :
              \/ now.lookup[p] = NoFile /\ CanonicalPath(p) \notin DOMAIN disk
              \/ IsFile(disk, now.entries, now.lookup[p], CanonicalPath(p))
      BY <1>7, <2>1, <2>2 DEF SourcesOK
    <2>4. SourcesOK(disk, now.entries, now.lookup, now.canonical)
      BY <1>7, <2>3 DEF SourcesOK
    <2> QED BY <1>4, <1>7, <2>1, <2>4
  <1>8. CASE path \notin DOMAIN src.lookup /\ file = NoPath
    <2>1. now = [src EXCEPT !.lookup = Stored(@, path, NoFile)]
      BY <1>2, <1>8
    <2> QED BY <1>1, <1>7, <1>8, <1>11, <2>1 DEF path
  <1>9. CASE path \notin DOMAIN src.lookup /\ file # NoPath /\ file \in DOMAIN src.canonical
    <2>1. now = [src EXCEPT !.lookup = Stored(@, path, src.canonical[file])]
      BY <1>2, <1>9
    <2>2. (src.canonical[file] = NoFile /\ file \notin DOMAIN disk) \/ IsFile(disk, src.entries, src.canonical[file], file)
      BY <1>9 DEF SourcesOK
    <2> QED BY <1>7, <1>9, <1>11, <2>1, <2>2 DEF path
  <1>10. CASE path \notin DOMAIN src.lookup /\ file # NoPath /\ file \notin DOMAIN src.canonical /\ file \notin DOMAIN disk
    <2>1. now = [src EXCEPT !.lookup = Stored(@, path, NoFile), !.canonical = Stored(@, file, NoFile)]
      BY <1>2, <1>10
    <2>2. now.entries = src.entries /\ now.lookup = Stored(src.lookup, path, NoFile)
          /\ now.canonical = Stored(src.canonical, file, NoFile)
      BY <1>11, <2>1
    <2>3. /\ path \in DOMAIN now.lookup /\ now.lookup[path] = NoFile
          /\ \A y \in DOMAIN now.lookup : y = path \/ (y \in DOMAIN src.lookup /\ now.lookup[y] = src.lookup[y])
      BY <1>10, <2>2, StoredMap
    <2>4. /\ now.canonical[file] = NoFile /\ \A y \in DOMAIN src.canonical : y \in DOMAIN now.canonical /\ now.canonical[y] = src.canonical[y]
          /\ \A y \in DOMAIN now.canonical : y = file \/ (y \in DOMAIN src.canonical /\ now.canonical[y] = src.canonical[y])
      BY <1>10, <2>2, StoredMap
    <2>5. CanonicalPath(path) = file
      BY <1>1
    <2>6. \A p \in DOMAIN now.lookup :
              \/ now.lookup[p] = NoFile /\ CanonicalPath(p) \notin DOMAIN disk
              \/ IsFile(disk, now.entries, now.lookup[p], CanonicalPath(p))
      BY <1>10, <2>2, <2>3, <2>5 DEF SourcesOK
    <2>7. \A f \in DOMAIN now.canonical :
              (now.canonical[f] = NoFile /\ f \notin DOMAIN disk) \/ IsFile(disk, now.entries, now.canonical[f], f)
      BY <1>10, <2>2, <2>4 DEF SourcesOK
    <2>8. \A n \in 2 .. Len(now.entries) :
              now.entries[n].path \in DOMAIN now.canonical /\ now.canonical[now.entries[n].path] = n
      <3>1. \A n \in 2 .. Len(src.entries) :
                src.entries[n].path \in DOMAIN src.canonical /\ src.canonical[src.entries[n].path] = n
        BY DEF SourcesOK
      <3> QED BY <2>2, <2>4, <3>1
    <2>9. SourcesOK(disk, now.entries, now.lookup, now.canonical)
      BY <2>2, <2>6, <2>7, <2>8 DEF SourcesOK
    <2> QED BY <1>4, <1>10, <2>2, <2>3, <2>9 DEF path
  <1>12. CASE path \notin DOMAIN src.lookup /\ file # NoPath /\ file \notin DOMAIN src.canonical /\ file \in DOMAIN disk
    <2>1. /\ now.entries = Append(src.entries, entry) /\ now.lookup = Stored(src.lookup, path, next)
          /\ now.canonical = Stored(src.canonical, file, next)
      <3> HIDE DEF next, entry
      <3> QED BY SMTT(30), <1>2, <1>12
    <2>2. entry \in Entry
      BY <1>1, <1>12 DEF Entry
    <2>3. /\ now.entries \in Seq(Entry) /\ now.entries # <<>> /\ Len(now.entries) = next /\ now.entries[next] = entry
          /\ \A k \in 1 .. Len(src.entries) : now.entries[k] = src.entries[k]
      <3> DEFINE e == entry
                 s == src.entries
                 r == now.entries
      <3>1. s \in Seq(Entry) /\ e \in Entry /\ r = Append(s, e)
        BY <1>3, <2>1, <2>2
      <3> HIDE DEF e, s, r
      <3>2. r \in Seq(Entry) /\ r # <<>> /\ Len(r) = Len(s) + 1 /\ r[Len(s) + 1] = e
            /\ \A k \in 1 .. Len(s) : r[k] = s[k]
        BY <3>1, AppendProperties
      <3> QED BY <3>2 DEF e, s, r
    <2>13. /\ path \in DOMAIN now.lookup /\ now.lookup[path] = next
           /\ \A y \in DOMAIN now.lookup : y = path \/ (y \in DOMAIN src.lookup /\ now.lookup[y] = src.lookup[y])
      <3> HIDE DEF next
      <3> QED BY <1>12, <2>1, StoredMap
    <2>4. /\ file \in DOMAIN now.canonical /\ now.canonical[file] = next
          /\ \A y \in DOMAIN src.canonical : y \in DOMAIN now.canonical /\ now.canonical[y] = src.canonical[y]
          /\ \A y \in DOMAIN now.canonical : y = file \/ (y \in DOMAIN src.canonical /\ now.canonical[y] = src.canonical[y])
      <3> HIDE DEF next
      <3>1. now.canonical = Stored(src.canonical, file, next) /\ file \notin DOMAIN src.canonical
        BY <1>12, <2>1
      <3>2. /\ file \in DOMAIN now.canonical /\ now.canonical[file] = next
            /\ \A y \in DOMAIN src.canonical : y \in DOMAIN now.canonical /\ (y # file => now.canonical[y] = src.canonical[y])
            /\ \A y \in DOMAIN now.canonical : y = file \/ y \in DOMAIN src.canonical
        BY <3>1, StoredMap
      <3> QED BY <3>1, <3>2
    <2>5. Grows(src.entries, now.entries)
      <3>1. Len(src.entries) <= Len(now.entries)
        <4> DEFINE x == Len(src.entries)
                   y == Len(now.entries)
        <4>1. x \in Nat /\ y = x + 1
          BY <1>3, <2>3
        <4> HIDE DEF x, y
        <4>2. x <= y
          BY <4>1
        <4> QED BY <4>2 DEF x, y
      <3> QED BY <2>3, <3>1 DEF Grows
    <2>6. entry.path = file /\ entry.text = disk[file] /\ next \in 2 .. next
      BY <1>3
    <2> HIDE DEF next, entry
    <2>7. IsFile(disk, now.entries, next, file)
      BY <1>12, <2>3, <2>6 DEF IsFile
    <2>8. \A n, f : IsFile(disk, src.entries, n, f) => IsFile(disk, now.entries, n, f)
      <3>1. \A n \in 2 .. Len(src.entries) : n \in 1 .. Len(src.entries) /\ n \in 2 .. Len(now.entries)
        BY <1>3, <2>5 DEF Grows, next
      <3> QED BY <2>3, <3>1 DEF IsFile
    <2>9. ASSUME NEW n \in 2 .. Len(now.entries)
          PROVE  now.entries[n].path \in DOMAIN now.canonical /\ now.canonical[now.entries[n].path] = n
      <3>1. n = next \/ (n \in 2 .. Len(src.entries) /\ n \in 1 .. Len(src.entries))
        <4> DEFINE x == Len(src.entries)
                   y == Len(now.entries)
        <4>1. x \in Nat /\ y = x + 1 /\ next = x + 1 /\ n \in 2 .. y
          BY <1>3, <2>3 DEF next
        <4> HIDE DEF x, y
        <4>2. n = next \/ (n \in 2 .. x /\ n \in 1 .. x)
          BY <4>1
        <4> QED BY <4>2 DEF x
      <3>2. CASE n = next
        BY <2>3, <2>4, <2>6, <3>2
      <3>3. CASE n \in 2 .. Len(src.entries) /\ n \in 1 .. Len(src.entries)
        <4>1. src.entries[n].path \in DOMAIN src.canonical /\ src.canonical[src.entries[n].path] = n
          BY <3>3 DEF SourcesOK
        <4> QED BY <2>3, <2>4, <3>3, <4>1
      <3> QED BY <3>1, <3>2, <3>3
    <2>10. \A f \in DOMAIN now.canonical :
              (now.canonical[f] = NoFile /\ f \notin DOMAIN disk) \/ IsFile(disk, now.entries, now.canonical[f], f)
      BY <2>4, <2>7, <2>8 DEF SourcesOK
    <2>11. \A p \in DOMAIN now.lookup :
              \/ now.lookup[p] = NoFile /\ CanonicalPath(p) \notin DOMAIN disk
              \/ IsFile(disk, now.entries, now.lookup[p], CanonicalPath(p))
      <3>1. CanonicalPath(path) = file
        BY <1>1
      <3>2. \A p \in DOMAIN src.lookup :
              \/ src.lookup[p] = NoFile /\ CanonicalPath(p) \notin DOMAIN disk
              \/ IsFile(disk, src.entries, src.lookup[p], CanonicalPath(p))
        BY DEF SourcesOK
      <3> QED BY <2>13, <2>7, <2>8, <3>1, <3>2
    <2>12. SourcesOK(disk, now.entries, now.lookup, now.canonical)
      BY <2>3, <2>9, <2>10, <2>11 DEF SourcesOK
    <2> QED BY <2>13, <2>5, <2>7, <2>12 DEF path
  <1> QED BY <1>6, <1>8, <1>9, <1>10, <1>12 DEF path

\* How far a search has come.
TriedTo(src, name, at, k) ==
    /\ DOMAIN at.src = {"entries", "lookup", "canonical"}
    /\ SourcesOK(disk, at.src.entries, at.src.lookup, at.src.canonical)
    /\ Grows(src.entries, at.src.entries)
    /\ at.file = NoFile => /\ at.src.entries = src.entries
                           /\ \A i \in 1 .. k : Canonical[name][i] \notin DOMAIN disk
    /\ at.file # NoFile => \E i \in 1 .. k :
           /\ IsFile(disk, at.src.entries, at.file, Canonical[name][i])
           /\ \A j \in 1 .. i - 1 : Canonical[name][j] \notin DOMAIN disk

\* A search finds the file that is meant.
LEMMA SearchFinds ==
  ASSUME disk \in Disks, NEW src, SourcesOK(disk, src.entries, src.lookup, src.canonical),
         DOMAIN src = {"entries", "lookup", "canonical"}, NEW name \in DOMAIN Canonical,
         NEW found, found = Search(src, name)
  PROVE  /\ SourcesOK(disk, found.src.entries, found.src.lookup, found.src.canonical)
         /\ Grows(src.entries, found.src.entries)
         /\ found.file = NoFile => found.src.entries = src.entries /\ Resolved(disk, name) = NoPath
         /\ found.file # NoFile => /\ Resolved(disk, name) # NoPath
                                   /\ IsFile(disk, found.src.entries, found.file, Resolved(disk, name))
  <1> DEFINE U == Tries(src, name)
             dirs == Canonical[name]
             S == {k \in 0 .. Len(dirs) : TriedTo(src, name, U[k], k)}
  <1>1. Len(dirs) \in Nat /\ DOMAIN dirs = 1 .. Len(dirs) /\ NoPath \notin DOMAIN disk
    BY ResolvedPath
  <1>2. /\ U[0] = [src |-> src, file |-> NoFile]
        /\ \A k \in 1 .. Len(dirs) :
               U[k] = IF U[k - 1].file # NoFile THEN U[k - 1]
                      ELSE [src |-> Opened(U[k - 1].src, <<k, name>>),
                            file |-> Opened(U[k - 1].src, <<k, name>>).lookup[<<k, name>>]]
    BY <1>1, TriesPass
  <1> HIDE DEF U
  <1>3. 0 \in S
    <2>1. U[0].src = src /\ U[0].file = NoFile /\ 0 \in 0 .. Len(dirs)
      BY <1>1, <1>2
    <2>2. Grows(src.entries, src.entries)
      <3>1. Len(src.entries) \in Nat
        BY LenProperties DEF SourcesOK
      <3> QED BY <3>1 DEF Grows
    <2>3. \A i \in 1 .. 0 : FALSE
      OBVIOUS
    <2> QED BY <2>1, <2>2, <2>3 DEF TriedTo
  <1>4. ASSUME NEW k \in 1 .. Len(dirs), k - 1 \in S PROVE k \in S
    <2> DEFINE at == U[k - 1]
               now == Opened(at.src, <<k, name>>)
    <2>1. TriedTo(src, name, at, k - 1) /\ k \in 0 .. Len(dirs) /\ 1 .. k = (1 .. k - 1) \cup {k}
      BY <1>1, <1>4
    <2>2. CASE at.file # NoFile
      <3>1. U[k] = at
        BY <1>2, <2>2
      <3>2. TriedTo(src, name, at, k)
        BY <2>1, <2>2 DEF TriedTo
      <3> QED BY <2>1, <3>1, <3>2
    <2>3. CASE at.file = NoFile
      <3>1. U[k] = [src |-> now, file |-> now.lookup[<<k, name>>]]
        BY <1>2, <2>3
      <3>2. /\ SourcesOK(disk, now.entries, now.lookup, now.canonical)
            /\ Grows(at.src.entries, now.entries)
            /\ \/ now.lookup[<<k, name>>] = NoFile /\ dirs[k] \notin DOMAIN disk /\ now.entries = at.src.entries
               \/ IsFile(disk, now.entries, now.lookup[<<k, name>>], dirs[k])
        <4> DEFINE f == dirs[k]
        <4>1. SourcesOK(disk, at.src.entries, at.src.lookup, at.src.canonical)
              /\ DOMAIN at.src = {"entries", "lookup", "canonical"}
          BY <2>1 DEF TriedTo
        <4>2. f = Canonical[name][k] /\ now = Opened(at.src, <<k, name>>)
          OBVIOUS
        <4> HIDE DEF at, f, now
        <4> QED BY <4>1, <4>2, OpenedKeeps
      <3>3. at.src.entries = src.entries /\ \A i \in 1 .. k - 1 : dirs[i] \notin DOMAIN disk
        BY <2>1, <2>3 DEF TriedTo
      <3>4. DOMAIN now = {"entries", "lookup", "canonical"}
        <4>1. DOMAIN at.src = {"entries", "lookup", "canonical"}
          BY <2>1 DEF TriedTo
        <4> HIDE DEF at
        <4> QED BY <4>1 DEF Opened
      <3>5. U[k].src = now /\ U[k].file = now.lookup[<<k, name>>]
        BY <3>1
      <3> HIDE DEF now, at
      <3>6. CASE now.lookup[<<k, name>>] = NoFile /\ dirs[k] \notin DOMAIN disk /\ now.entries = at.src.entries
        <4>1. TriedTo(src, name, U[k], k)
          BY <2>1, <3>2, <3>3, <3>4, <3>5, <3>6 DEF TriedTo
        <4> QED BY <2>1, <4>1
      <3>7. CASE IsFile(disk, now.entries, now.lookup[<<k, name>>], dirs[k])
        <4>1. now.lookup[<<k, name>>] # NoFile /\ k \in 1 .. k
          BY <3>7 DEF IsFile, NoFile
        <4>2. TriedTo(src, name, U[k], k)
          BY <3>2, <3>3, <3>4, <3>5, <3>7, <4>1 DEF TriedTo
        <4> QED BY <2>1, <4>2
      <3> QED BY <3>2, <3>6, <3>7
    <2> QED BY <2>2, <2>3
  <1> HIDE DEF S
  <1>5. Len(dirs) \in S
    <2>1. \A k \in 0 .. Len(dirs) : k \in S
      BY <1>1, <1>3, <1>4, Climb
    <2> QED BY <1>1, <2>1
  <1>6. TriedTo(src, name, found, Len(dirs))
    BY <1>5 DEF S, U, Search
  <1> DEFINE hits == {i \in DOMAIN dirs : dirs[i] \in DOMAIN disk}
  <1>7. Resolved(disk, name) = IF hits = {} THEN NoPath ELSE dirs[Min(hits)]
    BY DEF Resolved
  <1>8. CASE found.file = NoFile
    <2>1. hits = {}
      BY <1>1, <1>6, <1>8 DEF TriedTo
    <2> QED BY <1>6, <1>7, <1>8, <2>1 DEF TriedTo
  <1>9. CASE found.file # NoFile
    <2>1. PICK i \in 1 .. Len(dirs) : /\ IsFile(disk, found.src.entries, found.file, dirs[i])
                                      /\ \A j \in 1 .. i - 1 : dirs[j] \notin DOMAIN disk
      BY <1>6, <1>9 DEF TriedTo
    <2>2. i \in hits /\ \A j \in hits : j \in 1 .. Len(dirs) /\ j \notin 1 .. i - 1
      BY <1>1, <2>1 DEF IsFile
    <2>3. hits \in SUBSET Nat /\ hits # {}
      BY <1>1, <2>2
    <2> HIDE DEF hits
    <2>4. Min(hits) \in hits /\ Min(hits) <= i
      BY <2>2, <2>3, MinIsLeast
    <2>5. Min(hits) = i
      <3> DEFINE m == Min(hits)
      <3>1. m \in 1 .. Len(dirs) /\ m \notin 1 .. i - 1 /\ m <= i
        BY <2>2, <2>4
      <3> HIDE DEF m
      <3>2. m = i
        BY <1>1, <3>1
      <3> QED BY <3>2 DEF m
    <2>6. Resolved(disk, name) = dirs[i]
      BY <1>7, <2>3, <2>5
    <2>7. dirs[i] # NoPath
      BY <1>1, <2>1 DEF IsFile
    <2> QED BY <1>6, <1>9, <2>1, <2>6, <2>7 DEF TriedTo
  <1> QED BY <1>8, <1>9

\* OneEntryPerFile.
LEMMA KeptOnce ==
  ASSUME disk \in Disks, SourcesOK(disk, entries, lookup, canonical), entries[MainFile].path = NoPath
  PROVE  OneEntryPerFile
  <1>1. Len(entries) \in Nat /\ DOMAIN entries = 1 .. Len(entries) /\ NoPath \notin DOMAIN disk
    BY LenProperties, FileAssumption DEF SourcesOK
  <1>2. ASSUME NEW i \in 2 .. Len(entries) PROVE entries[i].path \in DOMAIN disk /\ canonical[entries[i].path] = i
    <2>1. entries[i].path \in DOMAIN canonical /\ canonical[entries[i].path] = i /\ i # NoFile
      BY DEF SourcesOK, NoFile
    <2>2. IsFile(disk, entries, i, entries[i].path)
      BY <2>1 DEF SourcesOK
    <2> QED BY <2>1, <2>2 DEF IsFile
  <1>3. \A i, j \in DOMAIN entries : entries[i].path = entries[j].path => i = j
    <2>1. \A i \in DOMAIN entries : i = MainFile \/ i \in 2 .. Len(entries)
      BY <1>1 DEF MainFile
    <2> QED BY <1>1, <1>2, <2>1
  <1>4. \A path \in DOMAIN lookup : lookup[path] # NoFile => entries[lookup[path]].path = CanonicalPath(path)
    BY DEF SourcesOK, IsFile
  <1> QED BY <1>3, <1>4 DEF OneEntryPerFile

-----------------------------------------------------------------------------
(* Tokens and state machines.                                               *)
Token == [text : STRING \cup {"eof"}, file : Nat, line : Nat, column : Nat, first : BOOLEAN]
Machine == [file : Nat, line : Nat, column : Nat,
            state : {"Default", "Inactive", "ExpectDirective", "ExpectDirectiveTail"},
            directive : Seq(Token), conditionals : Seq(BOOLEAN), skipped : Nat,
            pending : Seq(Token), attachmentLine : Nat, depth : Nat, expansion : Seq(Nat),
            redirected : Seq(Token), ended : BOOLEAN, beginToken : Nat, beginComment : Nat]

\* A machine is in its text, up to a column of a line.
IsWithin(m, T) == m.line + 1 \in 1 .. Len(T) /\ m.column \in 0 .. Len(T[m.line + 1])

\* A token.
LEMMA TokenMade ==
  ASSUME NEW text \in STRING \cup {"eof"}, NEW file \in Nat, NEW line \in Nat, NEW column \in Nat, NEW first \in BOOLEAN
  PROVE  [text |-> text, file |-> file, line |-> line, column |-> column, first |-> first] \in Token
BY DEF Token

\* The next token: the end, or a token behind empty lines.
IsNext(m, T, t, l, c, n, q) ==
    /\ t \in Token /\ t.file = m.file
    /\ l \in 1 .. Len(T) /\ c \in 0 .. Len(T[l]) /\ Len(T) \in Nat /\ Len(T[l]) \in Nat
    /\ IF IsEof(t)
       THEN /\ t.first /\ n = Len(T) /\ c = Len(T[l])
            /\ \A k \in l + 1 .. Len(T) : T[k] = <<>>
       ELSE /\ n \in l .. Len(T) /\ Len(T[n]) \in Nat /\ q \in 0 .. Len(T[n]) - 1 /\ t.text = T[n][q + 1]
            /\ T[n] # <<>>
            /\ t.first <=> q = 0
            /\ \A k \in l + 1 .. n - 1 : T[k] = <<>>
            /\ \/ n = l /\ q = c
               \/ n > l /\ q = 0 /\ c = Len(T[l])

\* The token that is lexed is the next in the text, or the end of it.
LEMMA LexNext ==
  ASSUME NEW m \in Machine, NEW T \in FileTexts, T = Text(m), IsWithin(m, T), NEW t, t = Lex(m),
         NEW l, l = m.line + 1, NEW c, c = m.column, NEW n, n = t.line + 1, NEW q, q = t.column
  PROVE  IsNext(m, T, t, l, c, n, q)
  <1>1. /\ Len(T) \in Nat /\ Len(T) > 0
        /\ \A k \in 1 .. Len(T) : T[k] \in Seq(Word) /\ Len(T[k]) \in Nat
        /\ \A k \in 1 .. Len(T) : \A x \in 1 .. Len(T[k]) : T[k][x] \in STRING /\ T[k][x] # "eof"
    BY TextTyped
  <1>2. l \in 1 .. Len(T) /\ c \in 0 .. Len(T[l]) /\ Len(T[l]) \in Nat /\ m.line \in Nat /\ m.file \in Nat
    BY <1>1 DEF IsWithin, Machine
  <1> DEFINE L == LinesLeft(m)
  <1>3. L = {k \in m.line .. Len(T) - 1 : Len(T[k + 1]) > IF k = m.line THEN c ELSE 0}
    BY DEF LinesLeft
  <1>4. L \in SUBSET Nat
    BY <1>1, <1>2, <1>3
  <1>5. \A k \in 1 .. Len(T) : Len(T[k]) = 0 <=> T[k] = <<>>
    BY <1>1, EmptySeq
  <1>6. CASE L = {}
    <2>1. t = [text |-> "eof", file |-> m.file, line |-> Len(T) - 1, column |-> Len(T[Len(T)]), first |-> TRUE]
      BY <1>6 DEF Lex
    <2>2. c = Len(T[l])
      <3>1. m.line \in m.line .. Len(T) - 1
        BY <1>1, <1>2
      <3>2. ~(Len(T[l]) > c)
        BY <1>3, <1>6, <3>1
      <3> QED BY <1>2, <3>2
    <2>3. ASSUME NEW k \in l + 1 .. Len(T) PROVE T[k] = <<>>
      <3>1. k - 1 \in m.line .. Len(T) - 1 /\ k - 1 # m.line /\ (k - 1) + 1 = k /\ k \in 1 .. Len(T)
        BY <1>1, <1>2
      <3>2. ~(Len(T[k]) > 0)
        BY <1>3, <1>6, <3>1
      <3> QED BY <1>1, <1>5, <3>1, <3>2
    <2>4. Len(T) \in 1 .. Len(T) /\ Len(T[Len(T)]) \in Nat /\ Len(T) - 1 \in Nat
      BY <1>1
    <2>5. t \in Token /\ t.file = m.file /\ t.first /\ n = Len(T) /\ IsEof(t)
      <3> DEFINE column == Len(T[Len(T)])
                 line == Len(T) - 1
                 file == m.file
      <3>6. "eof" \in STRING \cup {"eof"} /\ TRUE \in BOOLEAN
        OBVIOUS
      <3>4. column \in Nat /\ line \in Nat /\ file \in Nat
        BY <1>2, <2>4
      <3>5. t = [text |-> "eof", file |-> file, line |-> line, column |-> column, first |-> TRUE]
        BY <2>1
      <3> HIDE DEF column, line, file
      <3>1. t \in Token
        BY <3>4, <3>5, <3>6, TokenMade
      <3> USE DEF column, line, file
      <3>2. t.file = m.file /\ t.first /\ t.line = Len(T) - 1 /\ t.text = "eof"
        BY <2>1
      <3>3. n = Len(T)
        BY <1>1, <3>2
      <3> QED BY <3>1, <3>2, <3>3 DEF IsEof
    <2> QED BY <1>1, <1>2, <2>2, <2>3, <2>5 DEF IsNext
  <1>7. CASE L # {}
    <2> DEFINE k == Min(L)
               x == IF k = m.line THEN c ELSE 0
    <2>1. k \in L /\ \A j \in L : k <= j
      <3> HIDE DEF L
      <3> QED BY <1>4, <1>7, MinIsLeast
    <2>2. t = [text |-> T[k + 1][x + 1], file |-> m.file, line |-> k, column |-> x, first |-> x = 0]
      <3> HIDE DEF L
      <3> QED BY <1>7 DEF Lex, L
    <2>3. k \in m.line .. Len(T) - 1 /\ Len(T[k + 1]) > x
      BY <1>3, <2>1
    <2>4. \A j \in m.line .. Len(T) - 1 : (Len(T[j + 1]) > IF j = m.line THEN c ELSE 0) => k <= j
      BY <1>3, <2>1
    <2> HIDE DEF k, L
    <2>5. k \in Nat /\ k + 1 \in l .. Len(T) /\ k + 1 \in 1 .. Len(T) /\ x \in Nat /\ Len(T[k + 1]) \in Nat
      BY <1>1, <1>2, <2>3
    <2>6. x \in 0 .. Len(T[k + 1]) - 1 /\ x + 1 \in 1 .. Len(T[k + 1])
      BY <2>3, <2>5
    <2>7. T[k + 1][x + 1] \in STRING /\ T[k + 1][x + 1] # "eof"
      BY <1>1, <2>5, <2>6
    <2>8. t.text = T[k + 1][x + 1] /\ t.file = m.file /\ t.line = k /\ t.column = x /\ t.first = (x = 0)
      BY <2>2
    <2>9. t \in Token /\ ~IsEof(t) /\ n = k + 1 /\ q = x
      BY <1>2, <2>2, <2>5, <2>7, <2>8 DEF Token, IsEof
    <2>10. ASSUME NEW j \in l + 1 .. n - 1 PROVE T[j] = <<>>
      <3>0. n \in Nat /\ n <= Len(T) /\ j \in Nat /\ l + 1 <= j /\ j <= n - 1 /\ l = m.line + 1 /\ n = k + 1
        BY SMTT(30), <1>1, <1>2, <2>5, <2>9
      <3>1. j - 1 \in m.line .. Len(T) - 1 /\ j - 1 # m.line /\ (j - 1) + 1 = j /\ j \in 1 .. Len(T) /\ ~(k <= j - 1)
        <4>0. j - 1 \in Nat /\ j - 1 >= l /\ j - 1 <= Len(T) - 1 /\ (j - 1) + 1 = j
          BY SMTT(30), <1>1, <1>2, <3>0
        <4>1. j - 1 \in Nat /\ j - 1 >= m.line /\ j - 1 <= Len(T) - 1 /\ j - 1 # m.line /\ (j - 1) + 1 = j
          <5> DEFINE x1 == m.line
          <5>1. l = x1 + 1 /\ x1 \in Nat
            BY <1>2
          <5> HIDE DEF x1
          <5>2. j - 1 >= x1 /\ j - 1 # x1
            BY <4>0, <5>1
          <5> QED BY <4>0, <5>2 DEF x1
        <4>2. ~(k <= j - 1) /\ j \in 1 .. Len(T)
          BY SMTT(30), <1>1, <1>2, <2>5, <3>0
        <4>3. j - 1 \in m.line .. Len(T) - 1
          BY <1>1, <1>2, <4>1
        <4> QED BY <4>1, <4>2, <4>3
      <3>2. ~(Len(T[j]) > 0)
        BY <2>4, <3>1
      <3> QED BY <1>1, <1>5, <3>1, <3>2
    <2>11. (n = l /\ q = c) \/ (n > l /\ q = 0 /\ c = Len(T[l]))
      <3>1. CASE k = m.line
        <4>1. x = c /\ n = m.line + 1
          BY <2>9, <3>1
        <4> QED BY <2>9, <4>1
      <3>2. CASE k # m.line
        <4>1. m.line \in m.line .. Len(T) - 1 /\ ~(k <= m.line)
          BY <1>1, <1>2, <2>3, <2>5, <3>2
        <4>2. ~(Len(T[l]) > c)
          BY <2>4, <4>1
        <4>3. x = 0 /\ c = Len(T[l])
          BY <1>2, <3>2, <4>2
        <4>4. n > l
          BY <1>2, <2>5, <2>9, <4>1
        <4> QED BY <2>9, <4>3, <4>4
      <3> QED BY <3>1, <3>2
    <2>12. T[n] # <<>>
      BY <1>5, <2>3, <2>5, <2>6, <2>9
    <2> HIDE DEF x
    <2> QED BY <1>1, <1>2, <2>5, <2>6, <2>8, <2>9, <2>10, <2>11, <2>12 DEF IsNext
  <1> QED BY <1>6, <1>7

\* What feeding a token leaves of a machine.
Kept(m, n) ==
    /\ n.file = m.file /\ n.depth = m.depth /\ n.expansion = m.expansion
    /\ n.beginToken = m.beginToken /\ n.beginComment = m.beginComment

\* The position advances behind the token, and nothing else changes.
LEMMA Advanced ==
  ASSUME NEW m \in Machine, NEW t \in Token, t = Lex(m)
  PROVE  /\ Advance(m) \in Machine /\ Kept(m, Advance(m))
         /\ Advance(m).line = t.line /\ Advance(m).column = t.column + 1
         /\ Advance(m).state = m.state /\ Advance(m).directive = m.directive
         /\ Advance(m).conditionals = m.conditionals /\ Advance(m).skipped = m.skipped
         /\ Advance(m).redirected = m.redirected /\ Advance(m).ended = m.ended
         /\ Advance(m).pending = m.pending /\ Advance(m).attachmentLine = m.attachmentLine
  <1>1. Advance(m) = [m EXCEPT !.line = t.line, !.column = t.column + 1]
    BY DEF Advance
  <1>2. t.line \in Nat /\ t.column + 1 \in Nat
    BY DEF Token
  <1> HIDE DEF Token
  <1> QED BY <1>1, <1>2 DEF Machine, Kept

\* Nor does anything but the pending comments when they are output.
LEMMA AdvancedFlushed ==
  ASSUME NEW m \in Machine, NEW t \in Token, t = Lex(m), NEW f, f = Flushed(Advance(m), t)
  PROVE  /\ f \in Machine /\ Kept(m, f)
         /\ f.line = t.line /\ f.column = t.column + 1
         /\ f.state = m.state /\ f.directive = m.directive
         /\ f.conditionals = m.conditionals /\ f.skipped = m.skipped
         /\ f.redirected = m.redirected /\ f.ended = m.ended
         /\ f.pending = <<>> /\ f.attachmentLine = t.line
  <1> DEFINE a == Advance(m)
  <1>1. f = [a EXCEPT !.pending = <<>>, !.attachmentLine = t.line]
    BY DEF Flushed
  <1>2. t.line \in Nat /\ <<>> \in Seq(Token)
    BY DEF Token
  <1>3. /\ a \in Machine /\ Kept(m, a)
        /\ a.line = t.line /\ a.column = t.column + 1
        /\ a.state = m.state /\ a.directive = m.directive
        /\ a.conditionals = m.conditionals /\ a.skipped = m.skipped
        /\ a.redirected = m.redirected /\ a.ended = m.ended
    BY Advanced
  <1> HIDE DEF a
  <1>4. f \in Machine
    BY <1>1, <1>2, <1>3 DEF Machine
  <1> QED BY <1>1, <1>3, <1>4 DEF Machine, Kept

-----------------------------------------------------------------------------
(* Lines that change nothing.                                               *)

\* Lines that are no conditional directives leave the conditionals as they are.
LEMMA NestedThrough ==
  ASSUME NEW c, NEW s, NEW T, NEW a \in Nat, NEW b \in Nat, a <= b,
         \A k \in a + 1 .. b : ~IsDirective(T, k, "if") /\ ~IsDirective(T, k, "endif"),
         Nested(c, s, T, a + 1)
  PROVE  Nested(c, s, T, b + 1)
  <1> DEFINE S == {j \in 0 .. b - a : Nested(c, s, T, a + j + 1)}
  <1>1. b - a \in Nat /\ a + 0 + 1 = a + 1 /\ a + (b - a) + 1 = b + 1
    OBVIOUS
  <1>2. 0 \in S
    BY <1>1
  <1>3. ASSUME NEW j \in 1 .. b - a, j - 1 \in S PROVE j \in S
    <2>1. a + j \in Nat \ {0} /\ a + j \in a + 1 .. b /\ a + (j - 1) + 1 = a + j /\ j \in 0 .. b - a
      OBVIOUS
    <2>2. Nested(c, s, T, a + (j - 1) + 1)
      BY <1>3
    <2>3. Nested(c, s, T, a + j)
      BY <2>1, <2>2
    <2>4. Nested(c, s, T, (a + j) + 1)
      BY <2>1, <2>3, NestedOther
    <2> QED BY <2>1, <2>4
  <1> HIDE DEF S
  <1>4. b - a \in S
    BY <1>1, <1>2, <1>3, Climb
  <1>5. Nested(c, s, T, a + (b - a) + 1)
    BY <1>4 DEF S
  <1> QED BY <1>1, <1>5

\* An empty line stands for nothing.
LEMMA EmptyItems ==
  ASSUME NEW path, NEW T, NEW headers, NEW k, T[k] = <<>>
  PROVE  LineItems(path, T, k, headers) = <<>> /\ ~IsDirectiveLine(T[k])
  <1>1. ~IsDirectiveLine(T[k]) /\ ~IsDirective(T, k, "include")
    BY DEF IsDirectiveLine, IsDirective
  <1>2. TokenItems(path, T[k], k, Len(T[k])) = <<>>
    <2>1. <<>> \in Seq(Word) /\ Len(<<>>) = 0
      OBVIOUS
    <2>2. TokenItems(path, <<>>, k, 0) = <<>>
      BY <2>1, TokenItemsStep
    <2> QED BY <2>1, <2>2
  <1> QED BY <1>1, <1>2 DEF LineItems

\* Lines that stand for nothing add nothing.
LEMMA ItemsThrough ==
  ASSUME NEW path \in Paths, NEW T \in FileTexts, NEW headers \in Headers, NEW a \in Nat, NEW b \in Nat, a <= b, b <= Len(T),
         \A k \in a + 1 .. b : LineItems(path, T, k, headers) = <<>>
  PROVE  ItemsTo(path, T, headers)[b] = ItemsTo(path, T, headers)[a]
  <1> DEFINE I == ItemsTo(path, T, headers)
  <1>1. Len(T) \in Nat
    BY TextTyped
  <1>2. \A k \in 1 .. Len(T) : I[k] = I[k - 1] \o LineItems(path, T, k, headers)
    BY <1>1, ItemsPass
  <1>3. \A k \in 0 .. Len(T) : I[k] \in Seq(Item)
    BY ItemsTyped
  <1> HIDE DEF I
  <1>4. ASSUME NEW k \in a + 1 .. b PROVE I[k] = I[k - 1]
    <2>1. k \in 1 .. Len(T) /\ k - 1 \in 0 .. Len(T)
      BY <1>1
    <2>2. I[k - 1] \o <<>> = I[k - 1]
      BY <1>3, <2>1, ConcatEmptySeq
    <2> QED BY <1>2, <2>1, <2>2
  <1>5. I[b] = I[a]
    BY <1>4, Steady
  <1> QED BY <1>5 DEF I

\* A line adds its items.
LEMMA ItemsOn ==
  ASSUME NEW path \in Paths, NEW T \in FileTexts, NEW headers \in Headers, NEW k \in 1 .. Len(T)
  PROVE  /\ ItemsTo(path, T, headers)[k] = ItemsTo(path, T, headers)[k - 1] \o LineItems(path, T, k, headers)
         /\ ItemsTo(path, T, headers)[k - 1] \in Seq(Item)
         /\ LineItems(path, T, k, headers) \in Seq(Item)
         /\ LineItems(path, T, k, headers) = <<>> => ItemsTo(path, T, headers)[k] = ItemsTo(path, T, headers)[k - 1]
  <1>1. Len(T) \in Nat
    BY TextTyped
  <1>2. ItemsTo(path, T, headers)[k] = ItemsTo(path, T, headers)[k - 1] \o LineItems(path, T, k, headers)
    BY <1>1, ItemsPass
  <1>3. ItemsTo(path, T, headers)[k - 1] \in Seq(Item) /\ LineItems(path, T, k, headers) \in Seq(Item)
    <2>1. k - 1 \in 0 .. Len(T)
      BY <1>1
    <2> QED BY <2>1, ItemsTyped, LineItemsTyped
  <1>4. ItemsTo(path, T, headers)[k - 1] \o <<>> = ItemsTo(path, T, headers)[k - 1]
    BY <1>3, ConcatEmptySeq
  <1> QED BY <1>2, <1>3, <1>4

\* A line that continues a directive, behind empty lines.
LEMMA PartOn ==
  ASSUME NEW T \in FileTexts, NEW d \in 1 .. Len(T), IsDirectiveLine(T[d]), NEW l \in d .. Len(T), Extends(T, d, l),
         NEW n \in l + 1 .. Len(T), \A k \in l + 1 .. n - 1 : T[k] = <<>>, Continues(T[n])
  PROVE  Extends(T, d, n) /\ Part(T, d, n, 0) = Part(T, d, l, Len(T[l]))
  <1> DEFINE D == DirectiveTo(T, d)
  <1>1. Len(T) \in Nat /\ d \in Nat /\ d <= Len(T) /\ l \in Nat /\ n \in Nat
    BY TextTyped
  <1>2. \A k \in d + 1 .. Len(T) : D[k] = IF Extends(T, d, k) THEN D[k - 1] \o Spelled(T[k], Len(T[k])) ELSE D[k - 1]
    BY <1>1, DirectivePass
  <1> HIDE DEF D
  <1>3. \A k \in d .. n - 1 : Extends(T, d, k)
    BY <1>1 DEF Extends, Continues
  <1>4. Extends(T, d, n)
    BY <1>1 DEF Extends, Continues
  <1>5. ASSUME NEW k \in l + 1 .. n - 1 PROVE D[k] = D[k - 1]
    <2>1. k \in 1 .. Len(T) /\ k \in d + 1 .. Len(T) /\ k \in d .. n - 1 /\ k - 1 \in d .. Len(T)
      BY <1>1
    <2>2. T[k] = <<>> /\ <<>> \in Seq(Word) /\ Len(<<>>) = 0
      OBVIOUS
    <2>3. Spelled(T[k], Len(T[k])) = <<>>
      BY <2>2, SpelledStep
    <2>4. D[k - 1] \in Seq(STRING)
      BY <2>1, DirectiveTyped DEF D
    <2>5. D[k - 1] \o <<>> = D[k - 1]
      BY <2>4, ConcatEmptySeq
    <2> QED BY <1>2, <1>3, <2>1, <2>3, <2>5
  <1>6. D[n - 1] = D[l]
    <2>1. n - 1 \in Nat /\ l <= n - 1
      BY <1>1
    <2> QED BY <1>1, <1>5, <2>1, Steady
  <1>7. Part(T, d, l, Len(T[l])) = D[l]
    BY PartStart DEF D
  <1>8. Part(T, d, n, 0) = D[n - 1]
    <2>1. n \in d + 1 .. Len(T)
      BY <1>1
    <2> QED BY <2>1, PartStart DEF D
  <1> QED BY <1>4, <1>6, <1>7, <1>8

Begins(s, w) == s # <<>> /\ s[1] = w

\* What begins with a word still does when it is continued.
LEMMA BeginsOn ==
  ASSUME NEW S, NEW s \in Seq(S), NEW w, Begins(s, w)
  PROVE  /\ \A e \in S : Begins(Append(s, e), w)
         /\ \A u \in Seq(S) : Begins(s \o u, w)
  <1>1. Len(s) \in Nat /\ Len(s) > 0 /\ 1 \in 1 .. Len(s) /\ s[1] = w
    BY EmptySeq, LenProperties DEF Begins
  <1>2. ASSUME NEW e \in S PROVE Begins(Append(s, e), w)
    BY <1>1, AppendProperties DEF Begins
  <1>3. ASSUME NEW u \in Seq(S) PROVE Begins(s \o u, w)
    <2>1. Len(u) \in Nat /\ 1 \in 1 .. Len(s) + Len(u) /\ 1 <= Len(s)
      BY <1>1, LenProperties
    <2>2. (s \o u)[1] = w /\ Len(s \o u) = Len(s) + Len(u) /\ s \o u \in Seq(S)
      BY <1>1, <2>1, ConcatProperties
    <2>3. s \o u # <<>>
      BY <1>1, <2>1, <2>2
    <2> QED BY <2>2, <2>3 DEF Begins
  <1> QED BY <1>2, <1>3

\* A directive begins with what is read of it.
LEMMA DirectiveBegins ==
  ASSUME NEW T \in FileTexts, NEW d \in 1 .. Len(T), IsDirectiveLine(T[d]), NEW l \in d .. Len(T), Extends(T, d, l),
         NEW c \in 0 .. Len(T[l]), l = d => c >= 1, NEW w, Begins(Part(T, d, l, c), w)
  PROVE  Begins(Directive(T, d), w)
  <1> DEFINE D == DirectiveTo(T, d)
  <1>1. /\ Len(T) \in Nat /\ d \in Nat /\ d <= Len(T) /\ l \in Nat /\ Len(T[l]) \in Nat /\ c \in Nat
        /\ \A k \in 1 .. Len(T) : T[k] \in Seq(Word) /\ Len(T[k]) \in Nat
    <2>1. l \in 1 .. Len(T) /\ Len(T) \in Nat
      BY TextTyped
    <2> QED BY <2>1, TextTyped
  <1>2. \A k \in d + 1 .. Len(T) : D[k] = IF Extends(T, d, k) THEN D[k - 1] \o Spelled(T[k], Len(T[k])) ELSE D[k - 1]
    BY <1>1, DirectivePass
  <1>3. \A k \in d .. Len(T) : D[k] \in Seq(STRING)
    BY DirectiveTyped
  <1> HIDE DEF D
  <1>4. ASSUME NEW k \in d .. Len(T), NEW x \in 0 .. Len(T[k]), k = d => x >= 1 PROVE Part(T, d, k, x) \in Seq(STRING)
    <2>1. k \in 1 .. Len(T) /\ Spelled(T[k], x) \in Seq(STRING)
      BY <1>1, SpelledStep
    <2>2. CASE k = d
      <3>1. x \in 1 .. Len(T[k])
        BY <1>1, <1>4, <2>1, <2>2
      <3>2. Spelled(T[d], x) # <<>>
        BY <1>1, <2>2, <3>1, DirectiveLineSpelled
      <3>3. Tail(Spelled(T[d], x)) \in Seq(STRING)
        BY <2>1, <2>2, <3>2, HeadTailProperties
      <3> QED BY <2>2, <3>3 DEF Part
    <2>3. CASE k # d
      <3>1. k - 1 \in d .. Len(T)
        BY <1>1, <2>3
      <3>2. D[k - 1] \o Spelled(T[k], x) \in Seq(STRING)
        BY <1>3, <2>1, <3>1, ConcatProperties
      <3> QED BY <2>3, <3>2 DEF Part, D
    <2> QED BY <2>2, <2>3
  <1> DEFINE A == {j \in 0 .. Len(T[l]) - c : Begins(Part(T, d, l, c + j), w)}
  <1>5. 0 \in A
    <2>1. 0 \in 0 .. Len(T[l]) - c /\ c + 0 = c
      BY <1>1
    <2> QED BY <2>1
  <1>6. ASSUME NEW j \in 1 .. Len(T[l]) - c, j - 1 \in A PROVE j \in A
    <2>1. /\ c + j \in 1 .. Len(T[l]) /\ (l = d => c + j > 1) /\ (c + j) - 1 = c + (j - 1)
          /\ c + (j - 1) \in 0 .. Len(T[l]) /\ (l = d => c + (j - 1) >= 1) /\ j \in 0 .. Len(T[l]) - c
      BY <1>1
    <2>2. Part(T, d, l, c + j) = IF T[l][c + j] = "//" THEN Part(T, d, l, c + (j - 1))
                                 ELSE Append(Part(T, d, l, c + (j - 1)), T[l][c + j])
      BY <2>1, PartStep
    <2>3. Begins(Part(T, d, l, c + (j - 1)), w) /\ Part(T, d, l, c + (j - 1)) \in Seq(STRING)
      BY <1>4, <1>6, <2>1
    <2>4. T[l][c + j] \in STRING
      <3>1. l \in 1 .. Len(T)
        BY <1>1
      <3> QED BY <2>1, <3>1, TextTyped
    <2>5. Begins(Part(T, d, l, c + j), w)
      BY <2>2, <2>3, <2>4, BeginsOn
    <2> QED BY <2>1, <2>5
  <1> HIDE DEF A
  <1>7. Len(T[l]) - c \in A
    <2>1. Len(T[l]) - c \in Nat
      BY <1>1
    <2>2. \A k \in 0 .. Len(T[l]) - c : k \in A
      BY <1>5, <1>6, <2>1, Climb
    <2> QED BY <2>1, <2>2
  <1>8. Begins(D[l], w)
    <2>1. c + (Len(T[l]) - c) = Len(T[l])
      BY <1>1
    <2>2. Begins(Part(T, d, l, Len(T[l])), w)
      BY <1>7, <2>1 DEF A
    <2> QED BY <2>2, PartStart DEF D
  <1> DEFINE B == {j \in 0 .. Len(T) - l : Begins(D[l + j], w)}
  <1>9. 0 \in B
    <2>1. 0 \in 0 .. Len(T) - l /\ l + 0 = l
      BY <1>1
    <2> QED BY <1>8, <2>1
  <1>10. ASSUME NEW j \in 1 .. Len(T) - l, j - 1 \in B PROVE j \in B
    <2>1. l + j \in d + 1 .. Len(T) /\ (l + j) - 1 = l + (j - 1) /\ l + (j - 1) \in d .. Len(T) /\ j \in 0 .. Len(T) - l
          /\ l + j \in 1 .. Len(T)
      BY <1>1
    <2>2. D[l + j] = D[l + (j - 1)] \/ D[l + j] = D[l + (j - 1)] \o Spelled(T[l + j], Len(T[l + j]))
      BY <1>2, <2>1
    <2>3. Begins(D[l + (j - 1)], w) /\ D[l + (j - 1)] \in Seq(STRING)
      BY <1>3, <1>10, <2>1
    <2>4. Spelled(T[l + j], Len(T[l + j])) \in Seq(STRING)
      <3>1. Len(T[l + j]) \in 0 .. Len(T[l + j]) /\ T[l + j] \in Seq(Word)
        BY <1>1, <2>1
      <3> QED BY <3>1, SpelledStep
    <2>5. Begins(D[l + j], w)
      <3> DEFINE s == D[l + (j - 1)]
                 u == Spelled(T[l + j], Len(T[l + j]))
                 W == STRING
      <3>1. s \in Seq(W) /\ u \in Seq(W) /\ Begins(s, w)
        BY <2>3, <2>4
      <3> HIDE DEF s, u, W
      <3>2. Begins(s \o u, w)
        BY <3>1, BeginsOn
      <3> QED BY <2>2, <2>3, <3>2 DEF s, u
    <2> QED BY <2>1, <2>5
  <1> HIDE DEF B
  <1>11. Len(T) - l \in B
    <2>1. Len(T) - l \in Nat
      BY <1>1
    <2>2. \A k \in 0 .. Len(T) - l : k \in B
      BY <1>9, <1>10, <2>1, Climb
    <2> QED BY <2>1, <2>2
  <1>12. l + (Len(T) - l) = Len(T)
    BY <1>1
  <1> QED BY <1>11, <1>12 DEF B, D, Directive

-----------------------------------------------------------------------------
(* What a state machine has read of its text.                               *)
Words(d) == [k \in DOMAIN d |-> d[k].text]
Placed(path, t) == [kind |-> "token", what |-> <<path, t.line, t.column>>]

\* In a line that is output.
AtText(m, path, T, headers, items) ==
    /\ m.state = "Default" /\ IsWithin(m, T)
    /\ Active(m.conditionals) /\ Nested(m.conditionals, m.skipped, T, m.line + 1)
    /\ ~IsSwallowed(T, m.line + 1)
    /\ m.column = 0 \/ ~IsDirectiveLine(T[m.line + 1])
    /\ items = ItemsTo(path, T, headers)[m.line] \o TokenItems(path, T[m.line + 1], m.line + 1, m.column)

\* In a line that stands for nothing.
AtInactive(m, path, T, headers, items) ==
    /\ m.state = "Inactive" /\ IsWithin(m, T) /\ m.column > 0
    /\ ~Active(m.conditionals) /\ Nested(m.conditionals, m.skipped, T, m.line + 2)
    /\ items = ItemsTo(path, T, headers)[m.line + 1]

\* In the directive of line d.
AtDirective(m, path, T, headers, items, d) ==
    /\ m.state = IF m.directive = <<>> THEN "ExpectDirective" ELSE "ExpectDirectiveTail"
    /\ IsWithin(m, T) /\ m.column > 0
    /\ d <= m.line + 1 /\ IsDirectiveLine(T[d]) /\ Extends(T, d, m.line + 1)
    /\ Words(m.directive) = Part(T, d, m.line + 1, m.column)
    /\ m.directive # <<>> => IsRead(m, m.directive[1].text)
    /\ Nested(m.conditionals, m.skipped, T, d)
    /\ items = ItemsTo(path, T, headers)[d - 1]

Reads(m, path, T, headers, items) ==
    IF m.ended THEN items = Items(path, T, headers)
    ELSE \/ AtText(m, path, T, headers, items)
         \/ AtInactive(m, path, T, headers, items)
         \/ \E d \in 1 .. Len(T) : AtDirective(m, path, T, headers, items, d)

\* Before a token that may be in a line of its own is dispatched.
Arrives(m, t, path, T, headers, items) ==
    /\ m.state = IF Active(m.conditionals) THEN "Default" ELSE "Inactive"
    /\ ~m.ended
    /\ IF IsEof(t) THEN items = Items(path, T, headers)
       ELSE /\ t.first /\ t.column = 0 /\ ~IsComment(t)
            /\ t.line + 1 \in 1 .. Len(T) /\ T[t.line + 1] # <<>> /\ T[t.line + 1][1] = t.text
            /\ m.line = t.line /\ m.column = 1
            /\ Nested(m.conditionals, m.skipped, T, t.line + 1)
            /\ ~IsSwallowed(T, t.line + 1)
            /\ items = ItemsTo(path, T, headers)[t.line]

Shown(m, t, path) == IF IsOutput(m, t) THEN <<Placed(path, t)>> ELSE <<>>

\* The words of a directive with one more token.
LEMMA WordsOn ==
  ASSUME NEW d \in Seq(Token), NEW t \in Token
  PROVE  Words(Append(d, t)) = Append(Words(d), t.text) /\ Words(<<>>) = <<>> /\ (Words(d) = <<>> <=> d = <<>>)
  <1> DEFINE W == Token
  <1>1. d \in Seq(W) /\ t \in W
    OBVIOUS
  <1> HIDE DEF W
  <1>2. Words(Append(d, t)) = Append(Words(d), t.text)
    BY <1>1 DEF Words
  <1>3. Len(d) \in Nat /\ DOMAIN d = 1 .. Len(d) /\ (d = <<>> <=> Len(d) = 0)
    BY <1>1, EmptySeq, LenProperties
  <1>4. Words(<<>>) = <<>>
    BY DEF Words
  <1>5. DOMAIN Words(d) = 1 .. Len(d)
    BY <1>3 DEF Words
  <1>6. ASSUME Words(d) = <<>> PROVE d = <<>>
    <2> DEFINE x == Len(d)
    <2>1. 1 .. x = {}
      BY <1>5, <1>6
    <2>2. x \in Nat
      BY <1>3
    <2> HIDE DEF x
    <2>3. x = 0
      <3>1. x > 0 => 1 \in 1 .. x
        BY <2>2
      <3> QED BY <2>1, <2>2, <3>1
    <2> QED BY <1>3, <2>3 DEF x
  <1> QED BY <1>2, <1>4, <1>6

\* AcceptOnText in the states Default and Inactive.
LEMMA AcceptedText ==
  ASSUME NEW m \in Machine, NEW t \in Token, NEW a, a = AcceptOnText(m, t)
  PROVE  /\ a \in Machine /\ Kept(m, a)
         /\ a.line = m.line /\ a.column = m.column /\ a.conditionals = m.conditionals /\ a.skipped = m.skipped
         /\ a.redirected = m.redirected /\ a.pending = m.pending /\ a.attachmentLine = m.attachmentLine
         /\ IsEof(t) => a.ended /\ a.state = m.state /\ a.directive = m.directive
         /\ ~IsEof(t) => a.ended = m.ended
         /\ IsDirectiveHash(t) => a.state = "ExpectDirective" /\ a.directive = <<>>
         /\ ~IsEof(t) /\ ~IsDirectiveHash(t) => a = m
  <1>1. <<>> \in Seq(Token) /\ ~(IsEof(t) /\ IsDirectiveHash(t))
    BY DEF IsEof, IsDirectiveHash
  <1>2. CASE IsEof(t)
    <2>1. a = [m EXCEPT !.ended = TRUE]
      BY <1>1, <1>2 DEF AcceptOnText
    <2>2. a \in Machine
      BY <2>1 DEF Machine
    <2> QED BY <1>1, <1>2, <2>1, <2>2 DEF Machine, Kept
  <1>3. CASE IsDirectiveHash(t)
    <2>1. a = [m EXCEPT !.state = "ExpectDirective", !.directive = <<>>]
      BY <1>1, <1>3 DEF AcceptOnText
    <2>2. a \in Machine
      BY <1>1, <2>1 DEF Machine
    <2> QED BY <1>1, <1>3, <2>1, <2>2 DEF Machine, Kept
  <1>4. CASE ~IsEof(t) /\ ~IsDirectiveHash(t)
    <2>1. a = m
      BY <1>4 DEF AcceptOnText
    <2> QED BY <1>4, <2>1 DEF Kept
  <1> QED BY <1>2, <1>3, <1>4

\* What a token adds to the items that have been read.
LEMMA ShownTyped ==
  ASSUME NEW m, NEW t \in Token, NEW path \in Paths, NEW items \in Seq(Item)
  PROVE  /\ Shown(m, t, path) \in Seq(Item) /\ items \o Shown(m, t, path) \in Seq(Item)
         /\ Placed(path, t) \in Item
         /\ Shown(m, t, path) = <<>> => items \o Shown(m, t, path) = items
         /\ IsOutput(m, t) => items \o Shown(m, t, path) = Append(items, Placed(path, t))
  <1>1. Placed(path, t) \in Item
    BY DEF Placed, Item, Token
  <1>2. <<>> \in Seq(Item) /\ <<Placed(path, t)>> \in Seq(Item)
    BY <1>1
  <1>3. Shown(m, t, path) \in Seq(Item)
    BY <1>2 DEF Shown
  <1>4. items \o Shown(m, t, path) \in Seq(Item)
    BY <1>3, ConcatProperties
  <1>5. items \o <<>> = items
    BY ConcatEmptySeq
  <1>6. Append(items, Placed(path, t)) = items \o <<Placed(path, t)>>
    BY <1>1, AppendIsConcat
  <1> QED BY <1>1, <1>3, <1>4, <1>5, <1>6 DEF Shown

\* A token that arrives at the beginning of a line is dispatched.
LEMMA Dispatched ==
  ASSUME NEW m \in Machine, NEW t \in Token, NEW path \in Paths, NEW T \in FileTexts, NEW headers \in Headers,
         NEW items \in Seq(Item), Arrives(m, t, path, T, headers, items)
  PROVE  Reads(AcceptOnText(m, t), path, T, headers, items \o Shown(m, t, path))
  <1> DEFINE a == AcceptOnText(m, t)
             n == t.line + 1
  <1>0. Len(T) \in Nat /\ t.line \in Nat
    BY TextTyped DEF Token
  <1>1. /\ a \in Machine
        /\ a.line = m.line /\ a.column = m.column /\ a.conditionals = m.conditionals /\ a.skipped = m.skipped
        /\ IsEof(t) => a.ended
        /\ ~IsEof(t) => a.ended = m.ended
        /\ IsDirectiveHash(t) => a.state = "ExpectDirective" /\ a.directive = <<>>
        /\ ~IsEof(t) /\ ~IsDirectiveHash(t) => a = m
    BY AcceptedText
  <1> HIDE DEF a
  <1>2. CASE IsEof(t)
    <2>1. Shown(m, t, path) = <<>> /\ items = Items(path, T, headers)
      BY <1>2 DEF Shown, IsOutput, Arrives
    <2>2. items \o Shown(m, t, path) = items
      BY <2>1, ShownTyped
    <2> QED BY <1>1, <1>2, <2>1, <2>2 DEF Reads, a
  <1>3. CASE ~IsEof(t)
    <2>1. /\ t.first /\ t.column = 0 /\ ~IsComment(t)
          /\ n \in 1 .. Len(T) /\ T[n] # <<>> /\ T[n][1] = t.text
          /\ m.line = t.line /\ m.column = 1 /\ ~m.ended
          /\ Nested(m.conditionals, m.skipped, T, n)
          /\ ~IsSwallowed(T, n)
          /\ items = ItemsTo(path, T, headers)[t.line]
          /\ m.state = IF Active(m.conditionals) THEN "Default" ELSE "Inactive"
      BY <1>3 DEF Arrives
    <2>2. T[n] \in Seq(Word) /\ Len(T[n]) \in Nat /\ Len(T[n]) > 0 /\ n \in Nat /\ n - 1 = t.line /\ m.line + 1 = n /\ 1 \in 1 .. Len(T[n])
      <3>1. T[n] \in Seq(Word) /\ Len(T[n]) \in Nat /\ n \in Nat
        BY <2>1, TextTyped
      <3>2. Len(T[n]) > 0
        BY <2>1, <3>1, EmptySeq
      <3> QED BY <1>0, <2>1, <3>1, <3>2
    <2>3. IsWithin(a, T)
      BY <1>0, <1>1, <2>1, <2>2 DEF IsWithin
    <2>4. CASE IsDirectiveHash(t)
      <3>1. Shown(m, t, path) = <<>>
        BY <2>4 DEF Shown, IsOutput
      <3>2. items \o Shown(m, t, path) = items
        BY <3>1, ShownTyped
      <3>3. IsDirectiveLine(T[n])
        BY <2>1, <2>4 DEF IsDirectiveLine, IsDirectiveHash
      <3>4. Extends(T, n, n)
        BY <2>2, <3>3 DEF Extends
      <3>5. Words(a.directive) = Part(T, n, n, 1)
        <4>1. Words(<<>>) = <<>>
          BY DEF Words
        <4> QED BY <1>1, <2>1, <2>4, <3>3, <4>1, PartStart
      <3>6. a.line + 1 = n /\ a.column = 1 /\ a.directive = <<>> /\ ~a.ended /\ n <= n
        BY <1>1, <1>3, <2>1, <2>2, <2>4
      <3> HIDE DEF n
      <3>7. AtDirective(a, path, T, headers, items, n)
        BY <1>1, <2>1, <2>2, <2>3, <2>4, <3>3, <3>4, <3>5, <3>6 DEF AtDirective
      <3> QED BY <2>1, <3>2, <3>6, <3>7 DEF Reads, a
    <2>5. CASE ~IsDirectiveHash(t) /\ Active(m.conditionals)
      <3>1. a = m /\ ~IsDirectiveLine(T[n]) /\ m.state = "Default" /\ IsOutput(m, t)
        BY <1>1, <1>3, <2>1, <2>5 DEF IsDirectiveLine, IsDirectiveHash, IsOutput
      <3>2. TokenItems(path, T[n], n, 1) = Append(<<>>, Placed(path, t))
        <4>1. 1 - 1 = 0 /\ t.text # "//"
          BY <2>1 DEF IsComment
        <4>2. TokenItems(path, T[n], n, 1) = Append(TokenItems(path, T[n], n, 1 - 1), [kind |-> "token", what |-> <<path, n - 1, 1 - 1>>])
          <5> DEFINE line == T[n]
          <5>1. line \in Seq(Word) /\ 1 \in 1 .. Len(line) /\ line[1] # "//"
            BY <2>1, <2>2, <4>1
          <5> HIDE DEF line, n
          <5>2. TokenItems(path, line, n, 1) = Append(TokenItems(path, line, n, 1 - 1), [kind |-> "token", what |-> <<path, n - 1, 1 - 1>>])
            BY <5>1, TokenItemsStep
          <5> QED BY <5>2 DEF line
        <4>3. TokenItems(path, T[n], n, 0) = <<>>
          BY <2>2, TokenItemsStep
        <4> HIDE DEF n
        <4> QED BY <2>1, <2>2, <4>1, <4>2, <4>3 DEF Placed
      <3>3. items \o Shown(m, t, path) = items \o TokenItems(path, T[n], n, 1)
        <4>1. Append(<<>>, Placed(path, t)) = <<Placed(path, t)>>
          OBVIOUS
        <4> QED BY <3>1, <3>2, <4>1 DEF Shown
      <3> HIDE DEF n
      <3>4. AtText(m, path, T, headers, items \o Shown(m, t, path))
        BY <2>1, <2>2, <2>3, <2>5, <3>1, <3>3 DEF AtText
      <3> QED BY <2>1, <3>1, <3>4 DEF Reads, a
    <2>6. CASE ~IsDirectiveHash(t) /\ ~Active(m.conditionals)
      <3>1. a = m /\ ~IsDirectiveLine(T[n]) /\ m.state = "Inactive" /\ ~IsOutput(m, t)
        BY <1>1, <1>3, <2>1, <2>6 DEF IsDirectiveLine, IsDirectiveHash, IsOutput
      <3>2. items \o Shown(m, t, path) = items
        BY <3>1, ShownTyped DEF Shown
      <3>3. Nested(m.conditionals, m.skipped, T, n + 1)
        <4>1. ~IsDirective(T, n, "if") /\ ~IsDirective(T, n, "endif") /\ n \in Nat \ {0}
          BY <2>1, <2>2, <3>1 DEF IsDirective
        <4> HIDE DEF n
        <4> QED BY <2>1, <4>1, NestedOther
      <3>4. ~IsSelected(T, n)
        <4>1. m.conditionals \in Seq(BOOLEAN) /\ m.skipped \in Nat /\ n \in 1 .. Len(T) + 1
          BY SMTT(30), <1>0, <2>1 DEF Machine
        <4> HIDE DEF n
        <4> QED BY <1>0, <2>1, <2>6, <4>1, ActiveIsSelected
      <3> HIDE DEF n
      <3>5. LineItems(path, T, n, headers) = <<>>
        BY <3>4 DEF LineItems
      <3>6. items = ItemsTo(path, T, headers)[n]
        BY <2>1, <2>2, <3>5, ItemsOn
      <3>7. m.line + 2 = n + 1 /\ m.column > 0
        BY <1>0, <2>1, <2>2
      <3>8. AtInactive(m, path, T, headers, items)
        BY <2>2, <2>3, <2>6, <3>1, <3>3, <3>6, <3>7 DEF AtInactive
      <3> QED BY <2>1, <3>1, <3>2, <3>8 DEF Reads, a
    <2> QED BY <2>4, <2>5, <2>6
  <1> QED BY <1>2, <1>3

-----------------------------------------------------------------------------
(* The steps of a state machine in its text.                                *)

\* The same, of the lines themselves.
NextToken(m, T, t, l, n) ==
    /\ t \in Token /\ t.file = m.file
    /\ t.line \in Nat /\ t.column \in Nat /\ m.line \in Nat /\ m.column \in Nat /\ m.line = l - 1 /\ l \in Nat
    /\ l \in 1 .. Len(T) /\ m.column \in 0 .. Len(T[l])
    /\ Len(T) \in Nat /\ Len(T[l]) \in Nat /\ T[l] \in Seq(Word)
    /\ IsEof(t) => /\ t.first /\ m.column = Len(T[l])
                   /\ \A k \in l + 1 .. Len(T) : T[k] = <<>>
    /\ ~IsEof(t) => /\ n \in l .. Len(T) /\ n \in 1 .. Len(T)
                    /\ T[n] \in Seq(Word) /\ Len(T[n]) \in Nat
                    /\ t.column \in 0 .. Len(T[n]) - 1 /\ t.text = T[n][t.column + 1]
                    /\ t.column + 1 \in 1 .. Len(T[n])
                    /\ T[n] # <<>>
                    /\ t.first <=> t.column = 0
                    /\ \A k \in l + 1 .. n - 1 : T[k] = <<>>
                    /\ \/ n = l /\ t.column = m.column
                       \/ n > l /\ t.column = 0 /\ m.column = Len(T[l])

\* The token that is lexed, in the terms the steps are about.
LEMMA LexFacts ==
  ASSUME NEW m \in Machine, NEW T \in FileTexts, T = Text(m), IsWithin(m, T), NEW t, t = Lex(m),
         NEW l, l = m.line + 1, NEW n, n = t.line + 1
  PROVE  NextToken(m, T, t, l, n)
  <1> DEFINE c == m.column
             q == t.column
  <1>1. l = m.line + 1 /\ c = m.column /\ n = t.line + 1 /\ q = t.column
    OBVIOUS
  <1> HIDE DEF c, q
  <1>8. IsNext(m, T, t, l, c, n, q)
    BY <1>1, LexNext
  <1>2. /\ t \in Token /\ t.file = m.file
        /\ l \in 1 .. Len(T) /\ c \in 0 .. Len(T[l]) /\ Len(T) \in Nat /\ Len(T[l]) \in Nat
        /\ IF IsEof(t)
           THEN /\ t.first /\ n = Len(T) /\ c = Len(T[l])
                /\ \A k \in l + 1 .. Len(T) : T[k] = <<>>
           ELSE /\ n \in l .. Len(T) /\ Len(T[n]) \in Nat /\ q \in 0 .. Len(T[n]) - 1 /\ t.text = T[n][q + 1]
                /\ T[n] # <<>>
                /\ t.first <=> q = 0
                /\ \A k \in l + 1 .. n - 1 : T[k] = <<>>
                /\ \/ n = l /\ q = c
                   \/ n > l /\ q = 0 /\ c = Len(T[l])
    BY <1>8 DEF IsNext
  <1>3. t.line \in Nat /\ t.column \in Nat
    BY <1>2 DEF Token
  <1>4. m.line \in Nat /\ m.column \in Nat
    BY DEF Machine
  <1>5. m.line = l - 1 /\ l \in Nat /\ T[l] \in Seq(Word)
    BY <1>1, <1>2, <1>4, TextTyped
  <1>6. CASE IsEof(t)
    BY <1>1, <1>2, <1>3, <1>4, <1>5, <1>6 DEF NextToken
  <1>7. CASE ~IsEof(t)
    <2>1. n \in 1 .. Len(T) /\ q + 1 \in 1 .. Len(T[n])
      BY <1>2, <1>7
    <2>2. T[n] \in Seq(Word)
      BY <2>1, TextTyped
    <2> QED BY <1>1, <1>2, <1>3, <1>4, <1>5, <1>7, <2>1, <2>2 DEF NextToken
  <1> QED BY <1>6, <1>7

\* The end of a line that is output.
LEMMA LineEnds ==
  ASSUME NEW m \in Machine, NEW path \in Paths, NEW T \in FileTexts, NEW headers \in Headers, NEW items \in Seq(Item),
         AtText(m, path, T, headers, items), NEW l, l = m.line + 1, m.column = Len(T[l])
  PROVE  items = ItemsTo(path, T, headers)[l] /\ Nested(m.conditionals, m.skipped, T, l + 1) /\ ~IsDirectiveLine(T[l])
  <1>1. /\ l \in 1 .. Len(T) /\ l \in Nat \ {0} /\ m.line = l - 1 /\ Len(T) \in Nat /\ l \in 1 .. Len(T) + 1
        /\ T[l] \in Seq(Word) /\ Len(T[l]) \in Nat
        /\ Active(m.conditionals) /\ Nested(m.conditionals, m.skipped, T, l)
        /\ ~IsSwallowed(T, l)
        /\ m.column = 0 \/ ~IsDirectiveLine(T[l])
        /\ items = ItemsTo(path, T, headers)[l - 1] \o TokenItems(path, T[l], l, Len(T[l]))
        /\ m.conditionals \in Seq(BOOLEAN) /\ m.skipped \in Nat
    <2>1. l \in 1 .. Len(T) /\ m.line \in Nat /\ m.conditionals \in Seq(BOOLEAN) /\ m.skipped \in Nat
      BY DEF AtText, IsWithin, Machine
    <2>2. Len(T) \in Nat /\ T[l] \in Seq(Word) /\ Len(T[l]) \in Nat
      BY <2>1, TextTyped
    <2>3. l \in Nat \ {0} /\ m.line = l - 1 /\ l \in 1 .. Len(T) + 1
      BY <2>1, <2>2
    <2> QED BY <2>1, <2>2, <2>3 DEF AtText
  <1>2. ~IsDirectiveLine(T[l])
    <2>1. m.column = 0 => T[l] = <<>>
      BY <1>1, EmptySeq
    <2> QED BY <1>1, <2>1 DEF IsDirectiveLine
  <1>3. ~IsDirective(T, l, "if") /\ ~IsDirective(T, l, "endif") /\ ~IsDirective(T, l, "include")
    BY <1>2 DEF IsDirective
  <1>4. Nested(m.conditionals, m.skipped, T, l + 1)
    BY <1>1, <1>3, NestedOther
  <1>5. IsSelected(T, l)
    BY <1>1, ActiveIsSelected
  <1>6. LineItems(path, T, l, headers) = TokenItems(path, T[l], l, Len(T[l]))
    BY <1>1, <1>2, <1>3, <1>5 DEF LineItems
  <1>7. ItemsTo(path, T, headers)[l] = ItemsTo(path, T, headers)[l - 1] \o LineItems(path, T, l, headers)
    BY <1>1, ItemsOn
  <1> QED BY <1>1, <1>2, <1>4, <1>6, <1>7

\* Empty lines change nothing.
Passed(c, s, path, T, headers, l, n) ==
    Nested(c, s, T, n) /\ ItemsTo(path, T, headers)[n - 1] = ItemsTo(path, T, headers)[l]

\* Empty lines are passed.
LEMMA Blank ==
  ASSUME NEW c, NEW s, NEW path \in Paths, NEW T \in FileTexts, NEW headers \in Headers,
         NEW l \in 1 .. Len(T), NEW n \in l + 1 .. Len(T) + 1, \A k \in l + 1 .. n - 1 : T[k] = <<>>,
         Nested(c, s, T, l + 1)
  PROVE  Passed(c, s, path, T, headers, l, n)
  <1>1. Len(T) \in Nat
    BY TextTyped
  <1>2. l \in Nat /\ n - 1 \in Nat /\ l <= n - 1 /\ n - 1 <= Len(T) /\ (n - 1) + 1 = n
    BY <1>1
  <1>3. \A k \in l + 1 .. n - 1 : LineItems(path, T, k, headers) = <<>> /\ ~IsDirectiveLine(T[k])
    BY EmptyItems
  <1>4. \A k \in l + 1 .. n - 1 : ~IsDirective(T, k, "if") /\ ~IsDirective(T, k, "endif")
    BY <1>3 DEF IsDirective
  <1>5. Nested(c, s, T, (n - 1) + 1)
    BY <1>2, <1>4, NestedThrough
  <1>6. ItemsTo(path, T, headers)[n - 1] = ItemsTo(path, T, headers)[l]
    BY <1>2, <1>3, ItemsThrough
  <1> QED BY <1>2, <1>5, <1>6 DEF Passed

\* A line whose first token is no comment continues nothing.
LEMMA NotContinued ==
  ASSUME NEW line, NEW t, ~IsComment(t), line # <<>>, line[1] = t.text
  PROVE  ~Continues(line)
BY DEF Continues, IsComment

\* A token that is not in the line the machine is in arrives.
LEMMA NextLine ==
  ASSUME NEW m \in Machine, NEW T \in FileTexts, T = Text(m), IsWithin(m, T), NEW t, t = Lex(m), ~m.ended,
         NEW path \in Paths, NEW headers \in Headers, NEW items \in Seq(Item),
         NEW f, f = Flushed(Advance(m), t), ~IsComment(t), NEW l, l = m.line + 1,
         m.state = IF Active(m.conditionals) THEN "Default" ELSE "Inactive",
         Nested(m.conditionals, m.skipped, T, l + 1), items = ItemsTo(path, T, headers)[l],
         IsEof(t) \/ t.line + 1 > l
  PROVE  Arrives(f, t, path, T, headers, items)
  <1> DEFINE n == IF IsEof(t) THEN Len(T) + 1 ELSE t.line + 1
             next == t.line + 1
  <1>1. /\ t \in Token /\ l \in 1 .. Len(T) /\ Len(T) \in Nat
        /\ ~IsEof(t) => /\ next \in l .. Len(T) /\ t.text = T[next][t.column + 1] /\ T[next] # <<>>
                        /\ t.first <=> t.column = 0
                        /\ \A k \in l + 1 .. next - 1 : T[k] = <<>>
                        /\ next > l => t.column = 0
        /\ IsEof(t) => \A k \in l + 1 .. Len(T) : T[k] = <<>>
    <2>0. next = t.line + 1
      OBVIOUS
    <2> HIDE DEF n, next
    <2>1. NextToken(m, T, t, l, next)
      BY <2>0, LexFacts
    <2> QED BY <2>1 DEF NextToken
  <1>2. /\ f.line = t.line /\ f.column = t.column + 1 /\ f.state = m.state
        /\ f.conditionals = m.conditionals /\ f.skipped = m.skipped /\ f.ended = m.ended
    BY <1>1, AdvancedFlushed
  <1>3. t.line \in Nat /\ t.column \in Nat
    BY <1>1 DEF Token
  <1>4. n \in l + 1 .. Len(T) + 1 /\ \A k \in l + 1 .. n - 1 : T[k] = <<>>
    <2>1. CASE IsEof(t)
      <3>1. n = Len(T) + 1 /\ n - 1 = Len(T)
        BY <1>1, <2>1
      <3> HIDE DEF n
      <3> QED BY <1>1, <2>1, <3>1
    <2>2. CASE ~IsEof(t)
      <3>1. n = next
        BY <2>2
      <3>2. next > l
        BY <2>2
      <3> HIDE DEF n, next
      <3> QED BY <1>1, <2>2, <3>1, <3>2
    <2> QED BY <2>1, <2>2
  <1> HIDE DEF n
  <1>5. Nested(m.conditionals, m.skipped, T, n) /\ items = ItemsTo(path, T, headers)[n - 1]
    <2>1. Passed(m.conditionals, m.skipped, path, T, headers, l, n)
      BY <1>1, <1>4, Blank
    <2> QED BY <2>1 DEF Passed
  <1>6. CASE IsEof(t)
    <2>1. n - 1 = Len(T)
      BY <1>1, <1>6 DEF n
    <2>2. items = Items(path, T, headers)
      BY <1>5, <2>1 DEF Items
    <2> QED BY <1>2, <1>6, <2>2 DEF Arrives
  <1>7. CASE ~IsEof(t)
    <2>1. n = next /\ n - 1 = t.line /\ t.column = 0 /\ t.first /\ T[next][1] = t.text /\ next \in 1 .. Len(T) /\ next \in Nat /\ f.column = 1
      BY <1>1, <1>2, <1>3, <1>4, <1>7 DEF n
    <2>2. ~IsSwallowed(T, next)
      <3>1. ~Continues(T[next])
        BY <1>1, <1>7, <2>1, NotContinued
      <3> HIDE DEF next
      <3> QED BY <2>1, <3>1, NotSwallowed
    <2> QED BY <1>1, <1>2, <1>5, <1>7, <2>1, <2>2 DEF Arrives
  <1> QED BY <1>6, <1>7

\* A token outside of directives is read.
LEMMA StepText ==
  ASSUME NEW m \in Machine, NEW T \in FileTexts, T = Text(m), NEW t, t = Lex(m), ~m.ended,
         NEW path \in Paths, NEW headers \in Headers, NEW items \in Seq(Item), Reads(m, path, T, headers, items),
         NEW f, f = Flushed(Advance(m), t), ~IsComment(t), IsFed(m, t), ~InDirective(m)
  PROVE  Reads(AcceptOnText(f, t), path, T, headers, items \o Shown(f, t, path))
  <1> DEFINE l == m.line + 1
             n == t.line + 1
  <1>1. AtText(m, path, T, headers, items) \/ AtInactive(m, path, T, headers, items)
    BY DEF Reads, AtDirective, InDirective
  <1>2. IsWithin(m, T)
    BY <1>1 DEF AtText, AtInactive
  <1>3. /\ t \in Token /\ l \in 1 .. Len(T) /\ m.column \in 0 .. Len(T[l]) /\ Len(T) \in Nat /\ Len(T[l]) \in Nat
        /\ t.line \in Nat /\ t.column \in Nat /\ m.line \in Nat /\ m.column \in Nat /\ l \in Nat /\ m.line = l - 1
        /\ IsEof(t) => t.first /\ m.column = Len(T[l])
        /\ ~IsEof(t) => /\ n \in l .. Len(T) /\ t.column \in 0 .. Len(T[n]) - 1 /\ t.text = T[n][t.column + 1] /\ T[n] # <<>>
                        /\ t.first <=> t.column = 0
                        /\ \/ n = l /\ t.column = m.column
                           \/ n > l /\ t.column = 0 /\ m.column = Len(T[l])
    <2>0. l = m.line + 1 /\ n = t.line + 1
      OBVIOUS
    <2> HIDE DEF l, n
    <2>1. NextToken(m, T, t, l, n)
      BY <1>2, <2>0, LexFacts
    <2> QED BY <2>1 DEF NextToken
  <1>4. /\ f \in Machine /\ f.line = t.line /\ f.column = t.column + 1 /\ f.state = m.state
        /\ f.conditionals = m.conditionals /\ f.skipped = m.skipped /\ f.ended = m.ended
    BY SMTT(30), <1>3, AdvancedFlushed
  <1>5. t.line \in Nat /\ t.column \in Nat /\ m.line \in Nat /\ m.column \in Nat /\ l \in Nat /\ m.line = l - 1
    BY <1>3
  <1>6. CASE Arrives(f, t, path, T, headers, items)
    BY <1>3, <1>4, <1>6, Dispatched
  <1>7. CASE AtInactive(m, path, T, headers, items)
    <2>1. /\ m.state = "Inactive" /\ ~Active(m.conditionals) /\ Nested(m.conditionals, m.skipped, T, l + 1)
          /\ items = ItemsTo(path, T, headers)[l] /\ m.column > 0
      <3>1. m.line + 2 = l + 1
        BY <1>5
      <3> HIDE DEF l
      <3> QED BY <1>7, <3>1 DEF AtInactive, l
    <2>2. IsEof(t) \/ t.first
      BY <2>1 DEF IsFed, IsDirectiveHash
    <2>3. IsEof(t) \/ n > l
      <3> HIDE DEF l, n
      <3> QED BY <1>3, <2>1, <2>2
    <2> HIDE DEF l
    <2>4. l = m.line + 1 /\ (IsEof(t) \/ t.line + 1 > l)
      BY <2>3 DEF l
    <2>5. Arrives(f, t, path, T, headers, items)
      BY <1>2, <2>1, <2>4, NextLine
    <2> QED BY <1>6, <2>5
  <1>8. CASE AtText(m, path, T, headers, items)
    <2>1. /\ m.state = "Default" /\ Active(m.conditionals) /\ Nested(m.conditionals, m.skipped, T, l)
          /\ ~IsSwallowed(T, l) /\ (m.column = 0 \/ ~IsDirectiveLine(T[l]))
          /\ items = ItemsTo(path, T, headers)[l - 1] \o TokenItems(path, T[l], l, m.column)
      <3> HIDE DEF l
      <3> QED BY <1>5, <1>8 DEF AtText, l
    <2>2. CASE IsEof(t) \/ n > l
      <3>1. m.column = Len(T[l])
        BY <1>3, <2>2
      <3>2. items = ItemsTo(path, T, headers)[l] /\ Nested(m.conditionals, m.skipped, T, l + 1)
        <4> HIDE DEF l
        <4>1. l = m.line + 1
          BY DEF l
        <4> QED BY <1>8, <3>1, <4>1, LineEnds
      <3> HIDE DEF l
      <3>3. l = m.line + 1 /\ (IsEof(t) \/ t.line + 1 > l)
        BY <2>2 DEF l
      <3>4. Arrives(f, t, path, T, headers, items)
        BY <1>2, <2>1, <3>2, <3>3, NextLine
      <3> QED BY <1>6, <3>4
    <2>3. CASE ~IsEof(t) /\ ~(n > l)
      <3>1. n = l /\ t.column = m.column /\ t.text = T[l][m.column + 1] /\ m.column + 1 \in 1 .. Len(T[l]) /\ T[l] \in Seq(Word) /\ t.line = l - 1
        <4>1. n = l /\ t.column = m.column
          BY <1>3, <2>3
        <4>2. T[l] \in Seq(Word)
          BY <1>3, TextTyped
        <4>3. t.column \in 0 .. Len(T[l]) - 1 /\ t.text = T[l][m.column + 1]
          BY <1>3, <2>3, <4>1
        <4>4. m.column + 1 \in 1 .. Len(T[l])
          <5> DEFINE x == m.column
                     y == Len(T[l])
          <5>1. x \in Nat /\ y \in Nat /\ x \in 0 .. y - 1
            BY <1>3, <1>5, <4>1, <4>3
          <5> HIDE DEF x, y
          <5>2. x + 1 \in 1 .. y
            BY <5>1
          <5> QED BY <5>2 DEF x, y
        <4>5. t.line = l - 1
          BY <1>5, <4>1
        <4> QED BY <4>1, <4>2, <4>3, <4>4, <4>5
      <3>2. CASE m.column = 0
        <4>1. t.first /\ t.column = 0 /\ T[l][1] = t.text
          BY <1>3, <2>3, <3>1, <3>2
        <4>2. TokenItems(path, T[l], l, 0) = <<>>
          BY <3>1, TokenItemsStep
        <4>3. items = ItemsTo(path, T, headers)[l - 1]
          <5>1. ItemsTo(path, T, headers)[l - 1] \in Seq(Item)
            BY <1>3, ItemsOn
          <5>2. ItemsTo(path, T, headers)[l - 1] \o <<>> = ItemsTo(path, T, headers)[l - 1]
            BY <5>1, ConcatEmptySeq
          <5> QED BY <2>1, <3>2, <4>2, <5>2
        <4>4. T[l] # <<>> /\ t.line + 1 = l /\ f.column = 1 /\ t.line = l - 1
          BY <1>3, <1>4, <2>3, <3>1, <4>1
        <4> HIDE DEF l, n
        <4>5. Arrives(f, t, path, T, headers, items)
          BY <1>3, <1>4, <2>1, <2>3, <4>1, <4>3, <4>4 DEF Arrives
        <4> QED BY <1>6, <4>5
      <3>3. CASE m.column # 0
        <4>1. ~t.first /\ ~IsDirectiveHash(t) /\ ~IsDirectiveLine(T[l]) /\ t.text # "//"
          BY <1>3, <2>1, <2>3, <3>1, <3>3 DEF IsDirectiveHash, IsComment
        <4>2. AcceptOnText(f, t) = f /\ IsOutput(f, t)
          BY <1>3, <1>4, <2>1, <2>3, <4>1, AcceptedText DEF IsOutput
        <4> DEFINE before == ItemsTo(path, T, headers)[l - 1]
                   shown == TokenItems(path, T[l], l, m.column)
                   now == TokenItems(path, T[l], l, m.column + 1)
        <4>3. before \in Seq(Item) /\ shown \in Seq(Item) /\ Placed(path, t) \in Item
          <5>1. l \in Nat \ {0}
            BY <1>3
          <5> QED BY <1>3, <3>1, <5>1, ItemsOn, TokenItemsTyped, ShownTyped
        <4>4. now = Append(shown, Placed(path, t))
          <5> DEFINE c == m.column + 1
                     line == T[l]
          <5>1. c - 1 = m.column /\ c \in 1 .. Len(line) /\ line \in Seq(Word) /\ line[c] # "//"
            BY <1>5, <3>1, <4>1
          <5> HIDE DEF c, line, l
          <5>2. TokenItems(path, line, l, c) = Append(TokenItems(path, line, l, c - 1), [kind |-> "token", what |-> <<path, l - 1, c - 1>>])
            BY <5>1, TokenItemsStep
          <5>3. [kind |-> "token", what |-> <<path, l - 1, c - 1>>] = Placed(path, t)
            BY <3>1, <5>1 DEF Placed
          <5> QED BY <5>1, <5>2, <5>3 DEF c, line
        <4>5. items \o Shown(f, t, path) = before \o now
          <5>1. items \o Shown(f, t, path) = Append(before \o shown, Placed(path, t))
            <6> DEFINE new == before \o shown
            <6>1. new = items
              BY <2>1
            <6> HIDE DEF before, shown, now, new, l, n
            <6>2. items \o Shown(f, t, path) = Append(items, Placed(path, t))
              BY <1>3, <4>2, ShownTyped
            <6> QED BY <6>1, <6>2 DEF new
          <5> HIDE DEF before, shown, now
          <5>2. before \o Append(shown, Placed(path, t)) = Append(before \o shown, Placed(path, t))
            BY <4>3, ConcatAppend
          <5> QED BY <4>4, <5>1, <5>2
        <4>6. f.line + 1 = l /\ f.line = l - 1 /\ f.column = m.column + 1 /\ f.column \in 0 .. Len(T[l])
          BY <1>3, <1>4, <1>5, <3>1
        <4> HIDE DEF l
        <4>7. IsWithin(f, T)
          BY <1>3, <4>6 DEF IsWithin
        <4>8. AtText(f, path, T, headers, items \o Shown(f, t, path))
          BY <1>4, <2>1, <4>1, <4>5, <4>6, <4>7 DEF AtText
        <4> QED BY <1>4, <4>2, <4>8 DEF Reads
      <3> QED BY <3>2, <3>3
    <2> QED BY <2>2, <2>3
  <1> QED BY <1>1, <1>7, <1>8

-----------------------------------------------------------------------------
\* A comment waits, and is no item.
Pended(m, t) == [Advance(m) EXCEPT !.pending = Append(@, t)]

\* A comment is read.
LEMMA StepComment ==
  ASSUME NEW m \in Machine, NEW T \in FileTexts, T = Text(m), NEW t, t = Lex(m), ~m.ended,
         NEW path \in Paths, NEW headers \in Headers, NEW items \in Seq(Item), Reads(m, path, T, headers, items),
         NEW g, g = Pended(m, t), IsComment(t), IsFed(m, t)
  PROVE  g \in Machine /\ Kept(m, g) /\ g.redirected = m.redirected /\ ~g.ended /\ Reads(g, path, T, headers, items)
  <1> DEFINE l == m.line + 1
             n == t.line + 1
  <1>1. ~AtInactive(m, path, T, headers, items)
    BY DEF AtInactive, IsFed, IsDirectiveHash, IsEof, IsComment
  <1>2. IsWithin(m, T)
    BY <1>1 DEF Reads, AtText, AtDirective
  <1>3. ~IsEof(t) /\ t.text = "//"
    BY DEF IsComment, IsEof
  <1>4. /\ t \in Token /\ l \in 1 .. Len(T) /\ m.column \in 0 .. Len(T[l]) /\ Len(T) \in Nat /\ Len(T[l]) \in Nat
        /\ t.line \in Nat /\ t.column \in Nat /\ m.line \in Nat /\ m.column \in Nat /\ l \in Nat /\ m.line = l - 1
        /\ n \in l .. Len(T) /\ n \in 1 .. Len(T) /\ T[n] \in Seq(Word) /\ Len(T[n]) \in Nat
        /\ t.column + 1 \in 1 .. Len(T[n]) /\ T[n][t.column + 1] = "//" /\ T[n] # <<>>
        /\ \A k \in l + 1 .. n - 1 : T[k] = <<>>
        /\ \/ n = l /\ t.column = m.column
           \/ n > l /\ t.column = 0 /\ m.column = Len(T[l])
    <2>0. l = m.line + 1 /\ n = t.line + 1
      OBVIOUS
    <2> HIDE DEF l, n
    <2>1. NextToken(m, T, t, l, n)
      BY <1>2, <2>0, LexFacts
    <2> QED BY <1>3, <2>1 DEF NextToken
  <1>5. /\ g \in Machine /\ Kept(m, g) /\ g.redirected = m.redirected /\ ~g.ended
        /\ g.line = t.line /\ g.column = t.column + 1 /\ g.state = m.state /\ g.directive = m.directive
        /\ g.conditionals = m.conditionals /\ g.skipped = m.skipped
    <2> DEFINE a == Advance(m)
    <2>1. /\ a \in Machine /\ Kept(m, a) /\ a.redirected = m.redirected /\ ~a.ended
          /\ a.line = t.line /\ a.column = t.column + 1 /\ a.state = m.state /\ a.directive = m.directive
          /\ a.conditionals = m.conditionals /\ a.skipped = m.skipped
      BY <1>4, Advanced
    <2> HIDE DEF a
    <2>2. g = [a EXCEPT !.pending = Append(a.pending, t)] /\ a.pending \in Seq(Token)
      BY <2>1 DEF a, Machine, Pended
    <2>3. Append(a.pending, t) \in Seq(Token)
      BY <1>4, <2>2, AppendProperties
    <2> HIDE DEF Token
    <2>4. g \in Machine
      BY <2>1, <2>2, <2>3 DEF Machine
    <2> QED BY <2>1, <2>2, <2>4 DEF Machine, Kept
  <1>6. t.line = n - 1 /\ g.line + 1 = n /\ g.line = n - 1 /\ g.column > 0 /\ g.column \in 0 .. Len(T[n]) /\ g.column \in 1 .. Len(T[n])
        /\ (t.column + 1) - 1 = t.column
    <2>1. t.line = n - 1 /\ g.line + 1 = n /\ g.line = n - 1 /\ (t.column + 1) - 1 = t.column
      <3>1. t.line \in Nat /\ t.column \in Nat /\ g.line = t.line
        BY <1>4, <1>5
      <3>2. \A a \in Nat : (a + 1) - 1 = a
        OBVIOUS
      <3> QED BY <3>1, <3>2
    <2> DEFINE x == t.column
               y == Len(T[n])
    <2>2. x \in Nat /\ y \in Nat /\ x + 1 \in 1 .. y /\ g.column = x + 1
      BY <1>4, <1>5
    <2> HIDE DEF x, y
    <2>3. x + 1 > 0 /\ x + 1 \in 0 .. y
      BY <2>2
    <2> QED BY <2>1, <2>2, <2>3 DEF y
  <1>7. IsWithin(g, T)
    <2> HIDE DEF n
    <2> QED BY <1>4, <1>6 DEF IsWithin
  <1>8. ~IsDirectiveLine(T[n]) \/ t.column # 0
    BY <1>4 DEF IsDirectiveLine
  <1> HIDE DEF l, n
  <1>9. CASE AtText(m, path, T, headers, items)
    <2>1. /\ m.state = "Default" /\ Active(m.conditionals) /\ Nested(m.conditionals, m.skipped, T, l)
          /\ ~IsSwallowed(T, l) /\ (m.column = 0 \/ ~IsDirectiveLine(T[l]))
          /\ items = ItemsTo(path, T, headers)[l - 1] \o TokenItems(path, T[l], l, m.column)
      BY <1>4, <1>9 DEF AtText, l
    <2>2. /\ Nested(m.conditionals, m.skipped, T, n) /\ ~IsSwallowed(T, n) /\ ~IsDirectiveLine(T[n])
          /\ items = ItemsTo(path, T, headers)[n - 1] \o TokenItems(path, T[n], n, t.column)
      <3>1. CASE n = l /\ t.column = m.column
        BY <1>8, <2>1, <3>1
      <3>2. CASE n > l /\ t.column = 0 /\ m.column = Len(T[l])
        <4>1. items = ItemsTo(path, T, headers)[l] /\ Nested(m.conditionals, m.skipped, T, l + 1) /\ ~IsDirectiveLine(T[l])
          BY <1>9, <3>2, LineEnds DEF l
        <4>2. n \in l + 1 .. Len(T) + 1
          BY <1>4, <3>2
        <4>3. Passed(m.conditionals, m.skipped, path, T, headers, l, n)
          BY <1>4, <4>1, <4>2, Blank
        <4>4. ~IsSwallowed(T, n)
          BY <1>4, <2>1, <4>1, PlainOn
        <4>5. TokenItems(path, T[n], n, 0) = <<>>
          BY <1>4, TokenItemsStep
        <4>6. ItemsTo(path, T, headers)[n - 1] \o <<>> = ItemsTo(path, T, headers)[n - 1]
          <5>1. ItemsTo(path, T, headers)[n - 1] \in Seq(Item)
            BY <1>4, ItemsOn
          <5> QED BY <5>1, ConcatEmptySeq
        <4> QED BY <1>8, <3>2, <4>1, <4>3, <4>4, <4>5, <4>6 DEF Passed
      <3> QED BY <1>4, <3>1, <3>2
    <2>3. TokenItems(path, T[n], n, t.column + 1) = TokenItems(path, T[n], n, t.column)
      <3> DEFINE c == t.column + 1
                 line == T[n]
      <3>1. c \in 1 .. Len(line) /\ line \in Seq(Word) /\ line[c] = "//" /\ c - 1 = t.column
        BY <1>4, <1>6
      <3> HIDE DEF c, line
      <3>2. TokenItems(path, line, n, c) = TokenItems(path, line, n, c - 1)
        BY <3>1, TokenItemsStep
      <3> QED BY <3>1, <3>2 DEF c, line
    <2>4. AtText(g, path, T, headers, items)
      BY <1>5, <1>6, <1>7, <2>1, <2>2, <2>3 DEF AtText
    <2> QED BY <1>5, <2>4 DEF Reads
  <1>10. CASE \E d \in 1 .. Len(T) : AtDirective(m, path, T, headers, items, d)
    <2>1. PICK d \in 1 .. Len(T) : AtDirective(m, path, T, headers, items, d)
      BY <1>10
    <2>2. /\ m.state = IF m.directive = <<>> THEN "ExpectDirective" ELSE "ExpectDirectiveTail"
          /\ m.column > 0
          /\ d <= l /\ IsDirectiveLine(T[d]) /\ Extends(T, d, l)
          /\ Words(m.directive) = Part(T, d, l, m.column)
          /\ m.directive # <<>> => IsRead(m, m.directive[1].text)
          /\ Nested(m.conditionals, m.skipped, T, d)
          /\ items = ItemsTo(path, T, headers)[d - 1]
      BY <2>1 DEF AtDirective, l
    <2>3. d \in Nat /\ l \in d .. Len(T) /\ n \in d .. Len(T) /\ d <= n
      BY <1>4, <2>2
    <2>4. Extends(T, d, n) /\ Words(m.directive) = Part(T, d, n, t.column) /\ (n = d => t.column + 1 > 1)
      <3>1. CASE n = l /\ t.column = m.column
        BY <1>4, <2>2, <3>1
      <3>2. CASE n > l /\ t.column = 0 /\ m.column = Len(T[l])
        <4>1. n \in l + 1 .. Len(T) /\ Continues(T[n]) /\ n # d
          BY <1>4, <2>3, <3>2 DEF Continues
        <4>2. Extends(T, d, n) /\ Part(T, d, n, 0) = Part(T, d, l, Len(T[l]))
          BY <1>4, <2>2, <2>3, <4>1, PartOn
        <4> QED BY <2>2, <3>2, <4>1, <4>2
      <3> QED BY <1>4, <3>1, <3>2
    <2>5. Part(T, d, n, t.column + 1) = Part(T, d, n, t.column)
      <3> DEFINE c == t.column + 1
      <3>1. c \in 1 .. Len(T[n]) /\ T[n][c] = "//" /\ c - 1 = t.column /\ (n = d => c > 1)
        BY <1>4, <1>6, <2>4
      <3> HIDE DEF c
      <3>2. Part(T, d, n, c) = Part(T, d, n, c - 1)
        BY <2>2, <2>3, <3>1, PartStep
      <3> QED BY <3>1, <3>2 DEF c
    <2>6. g.directive # <<>> => IsRead(g, g.directive[1].text)
      BY <1>5, <2>2 DEF IsRead, InActive
    <2>7. AtDirective(g, path, T, headers, items, d)
      BY <1>5, <1>6, <1>7, <2>2, <2>3, <2>4, <2>5, <2>6 DEF AtDirective
    <2> QED BY <1>5, <2>7 DEF Reads
  <1> QED BY <1>1, <1>5, <1>9, <1>10 DEF Reads

\* A token that opens no directive is dropped where nothing is selected.
LEMMA StepSkip ==
  ASSUME NEW m \in Machine, NEW T \in FileTexts, T = Text(m), NEW t, t = Lex(m), ~m.ended,
         NEW path \in Paths, NEW headers \in Headers, NEW items \in Seq(Item), Reads(m, path, T, headers, items),
         NEW g, g = Advance(m), ~IsFed(m, t)
  PROVE  g \in Machine /\ Kept(m, g) /\ g.redirected = m.redirected /\ ~g.ended /\ Reads(g, path, T, headers, items)
  <1> DEFINE l == m.line + 1
             n == t.line + 1
  <1>1. AtInactive(m, path, T, headers, items) /\ ~IsEof(t) /\ ~IsDirectiveHash(t)
    BY DEF IsFed, Reads, AtText, AtDirective
  <1>2. IsWithin(m, T)
    BY <1>1 DEF AtInactive
  <1>4. /\ t \in Token /\ l \in 1 .. Len(T) /\ m.column \in 0 .. Len(T[l]) /\ Len(T) \in Nat /\ Len(T[l]) \in Nat
        /\ t.line \in Nat /\ t.column \in Nat /\ m.line \in Nat /\ m.column \in Nat /\ l \in Nat /\ m.line = l - 1
        /\ n \in l .. Len(T) /\ n \in 1 .. Len(T)
        /\ t.column + 1 \in 1 .. Len(T[n]) /\ T[n][t.column + 1] = t.text
        /\ t.first <=> t.column = 0
        /\ \A k \in l + 1 .. n - 1 : T[k] = <<>>
        /\ \/ n = l /\ t.column = m.column
           \/ n > l /\ t.column = 0 /\ m.column = Len(T[l])
    <2>0. l = m.line + 1 /\ n = t.line + 1
      OBVIOUS
    <2> HIDE DEF l, n
    <2>1. NextToken(m, T, t, l, n)
      BY <1>2, <2>0, LexFacts
    <2> QED BY <1>1, <2>1 DEF NextToken
  <1>5. /\ g \in Machine /\ Kept(m, g) /\ g.redirected = m.redirected /\ ~g.ended
        /\ g.line = t.line /\ g.column = t.column + 1 /\ g.state = m.state
        /\ g.conditionals = m.conditionals /\ g.skipped = m.skipped
    BY <1>4, Advanced
  <1>6. /\ m.state = "Inactive" /\ ~Active(m.conditionals) /\ Nested(m.conditionals, m.skipped, T, l + 1)
        /\ items = ItemsTo(path, T, headers)[l]
    <2>1. m.line + 2 = l + 1
      BY <1>4
    <2> HIDE DEF l
    <2> QED BY <1>1, <2>1 DEF AtInactive, l
  <1>7. g.line + 1 = n /\ g.line + 2 = n + 1 /\ g.column > 0 /\ g.column \in 0 .. Len(T[n]) /\ n \in Nat \ {0}
    <2>1. g.line + 1 = n /\ g.line + 2 = n + 1 /\ g.column > 0 /\ n \in Nat \ {0}
      <3>1. t.line \in Nat /\ t.column \in Nat /\ g.line = t.line /\ g.column = t.column + 1
        BY <1>4, <1>5
      <3>2. \A a \in Nat : a + 2 = (a + 1) + 1 /\ a + 1 \in Nat \ {0} /\ a + 1 > 0
        OBVIOUS
      <3> QED BY <3>1, <3>2
    <2>2. g.column \in 0 .. Len(T[n])
      <3> DEFINE x == t.column
                 y == Len(T[n])
      <3>1. x \in Nat /\ x + 1 \in 1 .. y /\ g.column = x + 1
        BY <1>4, <1>5
      <3> HIDE DEF x, y
      <3>2. x + 1 \in 0 .. y
        BY <3>1
      <3> QED BY <3>1, <3>2 DEF y
    <2> QED BY <2>1, <2>2
  <1> HIDE DEF n, l
  <1>8. IsWithin(g, T)
    BY <1>4, <1>7 DEF IsWithin
  <1>9. Nested(m.conditionals, m.skipped, T, n + 1) /\ items = ItemsTo(path, T, headers)[n]
    <2>1. CASE n = l
      BY <1>6, <2>1
    <2>2. CASE n > l /\ t.column = 0
      <3>1. n \in l + 1 .. Len(T) + 1
        BY <1>4, <2>2
      <3>2. Passed(m.conditionals, m.skipped, path, T, headers, l, n)
        BY <1>4, <1>6, <3>1, Blank
      <3>3. Nested(m.conditionals, m.skipped, T, n) /\ items = ItemsTo(path, T, headers)[n - 1]
        BY <1>6, <3>2 DEF Passed
      <3>4. ~IsDirectiveLine(T[n])
        <4>1. t.first /\ T[n][1] = t.text
          BY <1>4, <2>2
        <4> QED BY <1>1, <4>1 DEF IsDirectiveLine, IsDirectiveHash
      <3>5. ~IsDirective(T, n, "if") /\ ~IsDirective(T, n, "endif")
        BY <3>4 DEF IsDirective
      <3>6. Nested(m.conditionals, m.skipped, T, n + 1)
        BY <1>7, <3>3, <3>5, NestedOther
      <3>7. ~IsSelected(T, n)
        <4>1. m.conditionals \in Seq(BOOLEAN) /\ m.skipped \in Nat /\ n \in 1 .. Len(T) + 1
          <5>1. m.conditionals \in Seq(BOOLEAN) /\ m.skipped \in Nat
            BY DEF Machine
          <5>2. n \in 1 .. Len(T) + 1
            BY <1>4
          <5> QED BY <5>1, <5>2
        <4> QED BY <1>4, <1>6, <3>3, <4>1, ActiveIsSelected
      <3>8. LineItems(path, T, n, headers) = <<>>
        BY <3>7 DEF LineItems
      <3> QED BY <1>4, <3>3, <3>6, <3>8, ItemsOn
    <2> QED BY <1>4, <2>1, <2>2
  <1>10. AtInactive(g, path, T, headers, items)
    BY <1>5, <1>6, <1>7, <1>8, <1>9 DEF AtInactive
  <1> QED BY <1>5, <1>10 DEF Reads

-----------------------------------------------------------------------------
\* A token of a directive.
LEMMA StepDirective ==
  ASSUME NEW m \in Machine, NEW T \in FileTexts, T = Text(m), NEW t, t = Lex(m), ~m.ended,
         NEW path \in Paths, NEW headers \in Headers, NEW items \in Seq(Item), Reads(m, path, T, headers, items),
         NEW f, f = Flushed(Advance(m), t), ~IsComment(t), InDirective(m), ~EndsDirective(m, t),
         NEW g, g = IF f.state = "ExpectDirective" THEN AcceptOnExpectDirective(f, t) ELSE AcceptOnExpectDirectiveTail(f, t)
  PROVE  /\ g \in Machine /\ Kept(m, g) /\ g.redirected = m.redirected /\ ~g.ended /\ g.pending = <<>>
         /\ Reads(g, path, T, headers, items)
  <1> DEFINE l == m.line + 1
             n == t.line + 1
  <1>1. PICK d \in 1 .. Len(T) : AtDirective(m, path, T, headers, items, d)
    BY DEF Reads, AtText, AtInactive, InDirective
  <1>2. ~t.first /\ ~IsEof(t) /\ IsWithin(m, T)
    BY <1>1 DEF EndsDirective, AtDirective
  <1>3. l = m.line + 1 /\ n = t.line + 1
    OBVIOUS
  <1> HIDE DEF l, n
  <1>4. /\ t \in Token /\ l \in 1 .. Len(T) /\ m.column \in 0 .. Len(T[l]) /\ Len(T) \in Nat /\ Len(T[l]) \in Nat
        /\ t.line \in Nat /\ t.column \in Nat /\ m.line \in Nat /\ m.column \in Nat /\ l \in Nat
        /\ n = l /\ t.column = m.column /\ t.text = T[l][t.column + 1] /\ t.column + 1 \in 1 .. Len(T[l])
        /\ T[l] \in Seq(Word)
    <2>1. NextToken(m, T, t, l, n)
      BY <1>2, <1>3, LexFacts
    <2>2. n = l /\ t.column = m.column
      BY <1>2, <2>1 DEF NextToken
    <2> QED BY <1>2, <2>1, <2>2 DEF NextToken
  <1>5. /\ f \in Machine /\ Kept(m, f) /\ f.line = t.line /\ f.column = t.column + 1 /\ f.state = m.state
        /\ f.conditionals = m.conditionals /\ f.skipped = m.skipped /\ f.ended = m.ended
        /\ f.directive = m.directive /\ f.redirected = m.redirected /\ f.pending = <<>>
    BY SMTT(30), <1>4, AdvancedFlushed
  <1>6. /\ m.state = IF m.directive = <<>> THEN "ExpectDirective" ELSE "ExpectDirectiveTail"
        /\ m.column > 0
        /\ d <= l /\ IsDirectiveLine(T[d]) /\ Extends(T, d, l)
        /\ Words(m.directive) = Part(T, d, l, m.column)
        /\ m.directive # <<>> => IsRead(m, m.directive[1].text)
        /\ Nested(m.conditionals, m.skipped, T, d)
        /\ items = ItemsTo(path, T, headers)[d - 1]
    BY <1>1, <1>3 DEF AtDirective
  <1>7. d \in Nat /\ l \in d .. Len(T)
    BY <1>4, <1>6
  <1> DEFINE new == Append(m.directive, t)
             state == IF m.directive = <<>> /\ ~IsRead(m, t.text) THEN "Inactive" ELSE "ExpectDirectiveTail"
  <1>8. g = [f EXCEPT !.directive = new, !.state = state]
    <2>1. IsRead(f, t.text) = IsRead(m, t.text)
      BY <1>5 DEF IsRead, InActive
    <2>2. f.state = "ExpectDirective" <=> m.directive = <<>>
      BY <1>5, <1>6
    <2>3. CASE m.directive = <<>>
      <3>1. g = [f EXCEPT !.directive = Append(f.directive, t), !.state = IF IsRead(f, t.text) THEN "ExpectDirectiveTail" ELSE "Inactive"]
        BY <2>2, <2>3 DEF AcceptOnExpectDirective
      <3> QED BY <1>5, <2>1, <2>3, <3>1
    <2>4. CASE m.directive # <<>>
      <3>1. g = [f EXCEPT !.directive = Append(f.directive, t)]
        BY <2>2, <2>4 DEF AcceptOnExpectDirectiveTail
      <3>2. f.state = state /\ f.directive = m.directive
        BY <1>5, <1>6, <2>4
      <3> HIDE DEF state
      <3>3. [f EXCEPT !.directive = new] = [f EXCEPT !.directive = new, !.state = state]
        BY <1>5, <3>2 DEF Machine
      <3> QED BY <3>1, <3>2, <3>3
    <2> QED BY <2>3, <2>4
  <1>9. m.directive \in Seq(Token) /\ new \in Seq(Token) /\ state \in {"Default", "Inactive", "ExpectDirective", "ExpectDirectiveTail"}
    <2>1. m.directive \in Seq(Token)
      BY DEF Machine
    <2> QED BY <1>4, <2>1, AppendProperties
  <1>10. /\ g \in Machine /\ Kept(m, g) /\ g.line = t.line /\ g.column = t.column + 1 /\ g.state = state
         /\ g.conditionals = m.conditionals /\ g.skipped = m.skipped /\ ~g.ended
         /\ g.directive = new /\ g.redirected = m.redirected /\ g.pending = <<>>
    <2> HIDE DEF new, state, Token
    <2>1. g \in Machine
      BY <1>5, <1>8, <1>9 DEF Machine
    <2>2. /\ g.file = f.file /\ g.depth = f.depth /\ g.expansion = f.expansion
          /\ g.beginToken = f.beginToken /\ g.beginComment = f.beginComment
      BY <1>5, <1>8 DEF Machine
    <2>3. /\ g.line = f.line /\ g.column = f.column /\ g.conditionals = f.conditionals /\ g.skipped = f.skipped
          /\ g.ended = f.ended /\ g.redirected = f.redirected /\ g.pending = f.pending
      BY <1>5, <1>8 DEF Machine
    <2>4. g.state = state /\ g.directive = new
      BY <1>5, <1>8 DEF Machine
    <2>5. Kept(m, g)
      BY <1>5, <2>2 DEF Kept
    <2> QED BY <1>5, <2>1, <2>3, <2>4, <2>5
  <1>11. Words(new) = Part(T, d, l, t.column + 1)
    <2> DEFINE c == t.column + 1
    <2>1. c - 1 = t.column /\ c > 1
      <3>1. t.column \in Nat /\ t.column > 0
        BY <1>4, <1>6
      <3>2. \A a \in Nat : (a + 1) - 1 = a /\ (a > 0 => a + 1 > 1)
        OBVIOUS
      <3> QED BY <3>1, <3>2
    <2>2. c \in 1 .. Len(T[l]) /\ T[l][c] # "//" /\ T[l][c] = t.text
      BY <1>4 DEF IsComment
    <2> HIDE DEF c, new
    <2>3. Part(T, d, l, c) = Append(Part(T, d, l, c - 1), T[l][c])
      BY <1>6, <1>7, <2>1, <2>2, PartStep
    <2>4. Words(new) = Append(Words(m.directive), t.text)
      BY <1>4, <1>9, WordsOn DEF new
    <2> QED BY <1>4, <1>6, <2>1, <2>2, <2>3, <2>4 DEF c
  <1>12. g.line + 1 = l /\ g.line + 2 = l + 1 /\ g.column > 0 /\ IsWithin(g, T)
    <2>1. g.line + 1 = l /\ g.line + 2 = l + 1 /\ g.column > 0
      <3>1. t.line \in Nat /\ t.column \in Nat /\ l = t.line + 1 /\ g.line = t.line /\ g.column = t.column + 1
        BY <1>3, <1>4, <1>10
      <3>2. \A a \in Nat : a + 2 = (a + 1) + 1 /\ a + 1 > 0
        OBVIOUS
      <3> QED BY <3>1, <3>2
    <2> DEFINE c == t.column + 1
               y == Len(T[l])
    <2>2. c \in 1 .. y /\ y \in Nat /\ g.column = c
      BY <1>4, <1>10
    <2> HIDE DEF c, y
    <2>3. c \in 0 .. y
      BY <2>2
    <2>4. IsWithin(g, T)
      BY <1>4, <2>1, <2>2, <2>3 DEF IsWithin, y
    <2> QED BY <2>1, <2>4
  <1>13. new # <<>> /\ new[1] = IF m.directive = <<>> THEN t ELSE m.directive[1]
    <2> DEFINE D == m.directive
    <2>1. D \in Seq(Token) /\ t \in Token
      BY <1>4, <1>9
    <2> HIDE DEF D, Token
    <2>2. Len(D) \in Nat /\ (D = <<>> <=> Len(D) = 0)
      BY <2>1, EmptySeq, LenProperties
    <2>3. Append(D, t) # <<>> /\ Append(D, t)[1] = IF D = <<>> THEN t ELSE D[1]
      BY <2>1, <2>2, AppendProperties
    <2> QED BY <2>3 DEF D
  <1>14. CASE state = "ExpectDirectiveTail"
    <2>1. IsRead(m, new[1].text)
      BY <1>6, <1>13, <1>14
    <2>2. IsRead(g, g.directive[1].text)
      BY <1>10, <2>1 DEF IsRead, InActive
    <2> HIDE DEF new, state
    <2>3. AtDirective(g, path, T, headers, items, d)
      BY <1>6, <1>10, <1>11, <1>12, <1>13, <1>14, <2>2 DEF AtDirective
    <2> QED BY <1>10, <2>3 DEF Reads
  <1>15. CASE state = "Inactive"
    <2>1. m.directive = <<>> /\ ~IsRead(m, t.text)
      BY <1>15
    <2>2. ~Active(m.conditionals) /\ t.text # "if" /\ t.text # "endif"
      BY <2>1 DEF IsRead, InActive, Active
    <2>3. Begins(Part(T, d, l, t.column + 1), t.text)
      <3>1. Words(new) # <<>> /\ Words(new)[1] = new[1].text
        <4>1. 1 \in DOMAIN new
          <5>1. Len(new) \in Nat /\ Len(new) # 0 /\ DOMAIN new = 1 .. Len(new)
            BY <1>9, <1>13, EmptySeq, LenProperties
          <5> QED BY <5>1
        <4> HIDE DEF new
        <4>2. Words(new) # <<>>
          BY <1>9, <1>13, <1>4, WordsOn
        <4> QED BY <4>1, <4>2 DEF Words
      <3>2. new[1] = t
        BY <1>13, <2>1
      <3> HIDE DEF new
      <3> QED BY <1>11, <3>1, <3>2 DEF Begins
    <2>4. Begins(Directive(T, d), t.text)
      <3> DEFINE c == t.column + 1
      <3>1. c \in 0 .. Len(T[l]) /\ c >= 1
        <4> DEFINE y == Len(T[l])
        <4>1. c \in 1 .. y /\ y \in Nat
          BY <1>4
        <4> HIDE DEF c, y
        <4>2. c \in 0 .. y /\ c >= 1
          BY <4>1
        <4> QED BY <4>2 DEF y
      <3>2. Begins(Part(T, d, l, c), t.text)
        BY <2>3
      <3> HIDE DEF c
      <3> QED BY <1>6, <1>7, <3>1, <3>2, DirectiveBegins
    <2>5. ~IsDirective(T, d, "if") /\ ~IsDirective(T, d, "endif")
      BY <2>2, <2>4 DEF IsDirective, Begins
    <2>6. ASSUME NEW k \in d .. l PROVE ~IsDirective(T, k, "if") /\ ~IsDirective(T, k, "endif")
      <3>1. CASE k = d
        BY <2>5, <3>1
      <3>2. CASE k # d
        <4>1. k \in d + 1 .. l
          BY <1>7, <3>2
        <4>2. Continues(T[k])
          BY <1>6, <4>1 DEF Extends
        <4> QED BY <4>2 DEF IsDirective, IsDirectiveLine, Continues
      <3> QED BY <3>1, <3>2
    <2> DEFINE a == d - 1
    <2>7. a \in Nat /\ a + 1 = d /\ a <= l /\ l <= Len(T)
      BY <1>7, <1>4
    <2>8. ASSUME NEW b \in Nat, a <= b, b <= l PROVE Nested(m.conditionals, m.skipped, T, b + 1)
      <3>1. \A k \in a + 1 .. b : k \in d .. l
        BY <1>4, <2>7, <2>8
      <3>2. Nested(m.conditionals, m.skipped, T, a + 1)
        BY <1>6, <2>7
      <3> HIDE DEF a
      <3> QED BY <2>6, <2>7, <2>8, <3>1, <3>2, NestedThrough
    <2>9. ASSUME NEW k \in a + 1 .. l PROVE LineItems(path, T, k, headers) = <<>>
      <3>1. k \in 1 .. Len(T) /\ k - 1 \in Nat /\ a <= k - 1 /\ k - 1 <= l /\ (k - 1) + 1 = k /\ k \in 1 .. Len(T) + 1
        BY <1>4, <2>7
      <3>2. Nested(m.conditionals, m.skipped, T, (k - 1) + 1)
        <4> HIDE DEF a
        <4> QED BY <2>8, <3>1
      <3>3. m.conditionals \in Seq(BOOLEAN) /\ m.skipped \in Nat
        BY DEF Machine
      <3>4. ~IsSelected(T, k)
        BY <1>4, <2>2, <3>1, <3>2, <3>3, ActiveIsSelected
      <3> QED BY <3>4 DEF LineItems
    <2>10. items = ItemsTo(path, T, headers)[l]
      <3> HIDE DEF a
      <3>1. ItemsTo(path, T, headers)[l] = ItemsTo(path, T, headers)[a]
        BY SMTT(30), <1>4, <2>7, <2>9, ItemsThrough
      <3> QED BY <1>6, <3>1 DEF a
    <2>11. Nested(m.conditionals, m.skipped, T, l + 1)
      BY <1>4, <2>7, <2>8
    <2> HIDE DEF new, state, a
    <2>12. AtInactive(g, path, T, headers, items)
      BY <1>10, <1>12, <1>15, <2>2, <2>10, <2>11 DEF AtInactive
    <2> QED BY <1>10, <2>12 DEF Reads
  <1> QED BY <1>10, <1>14, <1>15

-----------------------------------------------------------------------------
\* The tokens of a directive are its words.
LEMMA DirectiveWords ==
  ASSUME NEW D \in Seq(Token), NEW T \in FileTexts, NEW d \in 1 .. Len(T), IsDirectiveLine(T[d]), Words(D) = Directive(T, d)
  PROVE  /\ Len(D) \in Nat /\ Len(Directive(T, d)) = Len(D) /\ Directive(T, d) \in Seq(STRING)
         /\ \A k \in 1 .. Len(D) : Directive(T, d)[k] = D[k].text
         /\ \A name : name # "none" => (IsDirective(T, d, name) <=> DirectiveName(D) = name)
         /\ D = <<>> <=> Len(D) = 0
  <1>1. D \in Seq(Token)
    OBVIOUS
  <1>2. Len(D) \in Nat /\ DOMAIN D = 1 .. Len(D) /\ (D = <<>> <=> Len(D) = 0)
    <2> HIDE DEF Token
    <2> QED BY <1>1, EmptySeq, LenProperties
  <1>3. DOMAIN Directive(T, d) = DOMAIN D /\ Directive(T, d) \in Seq(STRING)
    BY DirectiveTyped DEF Words
  <1>4. Len(Directive(T, d)) = Len(D) /\ \A k \in 1 .. Len(D) : Directive(T, d)[k] = D[k].text
    <2> DEFINE R == Directive(T, d)
               W == STRING
    <2>1. R \in Seq(W) /\ DOMAIN R = DOMAIN D
      BY <1>3
    <2>2. \A k \in DOMAIN D : R[k] = D[k].text
      BY DEF Words
    <2> HIDE DEF R, W
    <2>3. Len(R) \in Nat /\ DOMAIN R = 1 .. Len(R)
      BY <2>1, LenProperties
    <2>4. Len(R) = Len(D)
      <3> DEFINE x == Len(R)
                 y == Len(D)
      <3>1. 1 .. x = 1 .. y /\ x \in Nat /\ y \in Nat
        BY <1>2, <2>1, <2>3
      <3> HIDE DEF x, y
      <3>2. x > y => x \in 1 .. x /\ x \notin 1 .. y
        BY <3>1
      <3>3. y > x => y \in 1 .. y /\ y \notin 1 .. x
        BY <3>1
      <3>4. x = y
        BY <3>1, <3>2, <3>3
      <3> QED BY <3>4 DEF x, y
    <2> QED BY <1>2, <2>2, <2>4 DEF R
  <1>5. \A name : name # "none" => (IsDirective(T, d, name) <=> DirectiveName(D) = name)
    <2>1. Len(D) > 0 => Arg(D, 0) = D[1].text /\ Directive(T, d)[1] = D[1].text /\ Directive(T, d) # <<>>
      <3> DEFINE R == Directive(T, d)
      <3>1. Len(D) > 0 => 1 \in 1 .. Len(D) /\ Len(R) # 0 /\ 0 + 1 = 1
        BY <1>2, <1>4
      <3>2. Len(R) # 0 => R # <<>>
        BY DEF R
      <3> HIDE DEF R
      <3> QED BY <1>4, <3>1, <3>2 DEF Arg, R
    <2>2. ~(Len(D) > 0) => Arg(D, 0) = "none" /\ Directive(T, d) = <<>>
      <3> DEFINE R == Directive(T, d)
                 W == STRING
      <3>1. R \in Seq(W) /\ Len(R) = Len(D)
        BY <1>3, <1>4
      <3> HIDE DEF R, W
      <3>2. ~(Len(D) > 0) => R = <<>>
        BY <1>2, <3>1, EmptySeq
      <3> QED BY <3>2 DEF Arg, R
    <2> QED BY <2>1, <2>2 DEF IsDirective, DirectiveName, IsDirectiveLine
  <1> QED BY <1>2, <1>3, <1>4, <1>5

\* The conditionals after a directive are those after its line.
LEMMA ConditionalHandled ==
  ASSUME NEW f \in Machine, NEW T \in FileTexts, NEW d \in 1 .. Len(T), IsDirectiveLine(T[d]),
         Words(f.directive) = Directive(T, d), Nested(f.conditionals, f.skipped, T, d),
         NEW h, h = HandleConditional(f)
  PROVE  /\ h \in Machine /\ Kept(f, h) /\ h.line = f.line /\ h.column = f.column
         /\ h.redirected = f.redirected /\ h.ended = f.ended /\ h.pending = f.pending
         /\ h.directive = f.directive /\ h.attachmentLine = f.attachmentLine
         /\ Nested(h.conditionals, h.skipped, T, d + 1)
         /\ ~IsDirective(T, d, "if") /\ ~IsDirective(T, d, "endif") => h = f
         /\ DirectiveName(f.directive) \notin {"if", "endif"} => h = f
  <1> DEFINE c == f.conditionals
             s == f.skipped
             D == f.directive
  <1>1. D \in Seq(Token) /\ c \in Seq(BOOLEAN) /\ s \in Nat /\ Len(T) \in Nat /\ d \in Nat \ {0}
    BY TextTyped DEF Machine
  <1>2. /\ Len(D) \in Nat /\ Len(Directive(T, d)) = Len(D) /\ \A k \in 1 .. Len(D) : Directive(T, d)[k] = D[k].text
        /\ \A name : name # "none" => (IsDirective(T, d, name) <=> DirectiveName(D) = name)
    <2> HIDE DEF Token
    <2>1. Words(D) = Directive(T, d)
      OBVIOUS
    <2> HIDE DEF D
    <2> QED BY <1>1, <2>1, DirectiveWords
  <1>4. Len(Directive(T, d)) = Len(D) /\ \A k \in 1 .. Len(D) : Directive(T, d)[k] = D[k].text
    BY <1>2
  <1>5. \A name \in {"if", "endif"} : IsDirective(T, d, name) <=> DirectiveName(D) = name
    BY <1>2
  <1>6. (Arg(D, 1) = "1") <=> IsTrue(T, d)
    <2>1. Len(D) > 1 => 2 \in 1 .. Len(D) /\ 1 + 1 = 2
      BY <1>2
    <2>2. Arg(D, 1) = IF Len(D) > 1 THEN D[2].text ELSE "none"
      BY DEF Arg
    <2> HIDE DEF D
    <2> QED BY <1>4, <2>1, <2>2 DEF IsTrue
  <1>7. CASE DirectiveName(D) = "if"
    <2> DEFINE v == Arg(D, 1) = "1"
    <2>1. IsDirective(T, d, "if") /\ v \in BOOLEAN /\ (v <=> IsTrue(T, d))
      BY <1>5, <1>6, <1>7
    <2>2. h = HandleIfDirective(f)
      BY <1>7 DEF HandleConditional
    <2>3. IF Active(c) THEN Nested(Append(c, v), s, T, d + 1) ELSE Nested(c, s + 1, T, d + 1)
      <3> HIDE DEF c, s, v
      <3>1. Nested(c, s, T, d)
        BY DEF c, s
      <3> QED BY <1>1, <2>1, <3>1, NestedIf
    <2>4. CASE Active(c)
      <3>1. h = [f EXCEPT !.conditionals = Append(c, v)]
        BY <2>2, <2>4 DEF HandleIfDirective, Active, InActive
      <3>2. Append(c, v) \in Seq(BOOLEAN)
        BY <1>1, <2>1, AppendProperties
      <3> HIDE DEF v, Token
      <3>3. h \in Machine
        BY <3>1, <3>2 DEF Machine
      <3>4. h.conditionals = Append(c, v) /\ h.skipped = s
        BY <3>1 DEF Machine
      <3> QED BY <1>7, <2>1, <2>3, <2>4, <3>1, <3>3, <3>4 DEF Machine, Kept
    <2>5. CASE ~Active(c)
      <3>1. h = [f EXCEPT !.skipped = s + 1]
        BY <2>2, <2>5 DEF HandleIfDirective, Active, InActive
      <3>2. s + 1 \in Nat
        BY <1>1
      <3> HIDE DEF Token
      <3>3. h \in Machine
        BY <3>1, <3>2 DEF Machine
      <3>4. h.conditionals = c /\ h.skipped = s + 1
        BY <3>1 DEF Machine
      <3> QED BY <1>7, <2>1, <2>3, <2>5, <3>1, <3>3, <3>4 DEF Machine, Kept
    <2> QED BY <2>4, <2>5
  <1>8. CASE DirectiveName(D) = "endif"
    <2>1. IsDirective(T, d, "endif")
      BY <1>5, <1>8
    <2>2. h = HandleEndifDirective(f)
      BY <1>8 DEF HandleConditional
    <2>3. IF s > 0 THEN Nested(c, s - 1, T, d + 1)
          ELSE IF c = <<>> THEN Nested(c, s, T, d + 1)
          ELSE Nested(Front(c), s, T, d + 1)
      <3> HIDE DEF c, s
      <3>1. Nested(c, s, T, d)
        BY DEF c, s
      <3> QED BY <1>1, <2>1, <3>1, NestedEndif
    <2>4. CASE s > 0
      <3>1. h = [f EXCEPT !.skipped = s - 1]
        BY <2>2, <2>4 DEF HandleEndifDirective
      <3>2. s - 1 \in Nat
        BY <1>1, <2>4
      <3> HIDE DEF Token
      <3>3. h \in Machine
        BY <3>1, <3>2 DEF Machine
      <3>4. h.conditionals = c /\ h.skipped = s - 1
        BY <3>1 DEF Machine
      <3> QED BY <1>8, <2>1, <2>3, <2>4, <3>1, <3>3, <3>4 DEF Machine, Kept
    <2>5. CASE ~(s > 0) /\ c = <<>>
      <3>1. h = f
        BY <2>2, <2>5 DEF HandleEndifDirective
      <3> QED BY <2>3, <2>5, <3>1 DEF Kept
    <2>6. CASE ~(s > 0) /\ c # <<>>
      <3>1. h = [f EXCEPT !.conditionals = Front(c)]
        BY <2>2, <2>6 DEF HandleEndifDirective
      <3>2. Front(c) \in Seq(BOOLEAN)
        <4> HIDE DEF c
        <4>1. Len(c) \in Nat /\ Len(c) # 0
          BY <1>1, <2>6, EmptySeq, LenProperties
        <4>2. Front(c) = SubSeq(c, 1, Len(c) - 1)
          BY DEF Front
        <4>3. \A k \in 1 .. Len(c) - 1 : c[k] \in BOOLEAN
          <5>1. \A k \in 1 .. Len(c) - 1 : k \in 1 .. Len(c)
            BY <4>1
          <5> QED BY <1>1, <5>1, ElementOfSeq
        <4> QED BY <1>1, <4>1, <4>2, <4>3, SubSeqProperties
      <3> HIDE DEF Token
      <3>3. h \in Machine
        BY <3>1, <3>2 DEF Machine
      <3>4. h.conditionals = Front(c) /\ h.skipped = s
        BY <3>1 DEF Machine
      <3> QED BY <1>8, <2>1, <2>3, <2>6, <3>1, <3>3, <3>4 DEF Machine, Kept
    <2> QED BY <2>4, <2>5, <2>6
  <1>9. CASE DirectiveName(D) \notin {"if", "endif"}
    <2>1. h = f
      BY <1>9 DEF HandleConditional
    <2>2. ~IsDirective(T, d, "if") /\ ~IsDirective(T, d, "endif")
      BY <1>5, <1>9
    <2>3. Nested(c, s, T, d + 1)
      <3> HIDE DEF c, s
      <3>1. Nested(c, s, T, d)
        BY DEF c, s
      <3> QED BY <1>1, <2>2, <3>1, NestedOther
    <2> QED BY <2>1, <2>2, <2>3 DEF Kept
  <1> QED BY <1>7, <1>8, <1>9

\* A directive ends: the token behind it arrives, its line has added its items.
Ends(m, h, t, path, T, headers, items, d) ==
    /\ d \in 1 .. Len(T) /\ IsDirectiveLine(T[d]) /\ ~IsSwallowed(T, d)
    /\ Words(m.directive) = Directive(T, d)
    /\ Active(m.conditionals) <=> IsSelected(T, d)
    /\ m.directive # <<>> => IsRead(m, m.directive[1].text)
    /\ Arrives(AfterDirective(h), t, path, T, headers, items \o LineItems(path, T, d, headers))

\* The first token behind a directive ends it.
LEMMA StepEnd ==
  ASSUME NEW m \in Machine, NEW T \in FileTexts, T = Text(m), NEW t, t = Lex(m), ~m.ended,
         NEW path \in Paths, NEW headers \in Headers, NEW items \in Seq(Item), Reads(m, path, T, headers, items),
         NEW f, f = Flushed(Advance(m), t), ~IsComment(t), EndsDirective(m, t),
         NEW h, h = HandleConditional(f)
  PROVE  /\ h \in Machine /\ Kept(m, h) /\ h.redirected = m.redirected /\ ~h.ended /\ h.pending = <<>>
         /\ DirectiveName(m.directive) \notin {"if", "endif"} => h = f
         /\ \E d \in 1 .. Len(T) : Ends(m, h, t, path, T, headers, items, d)
  <1> DEFINE l == m.line + 1
             n == t.line + 1
  <1>1. PICK d \in 1 .. Len(T) : AtDirective(m, path, T, headers, items, d)
    BY DEF Reads, AtText, AtInactive, EndsDirective, InDirective
  <1>2. (t.first \/ IsEof(t)) /\ IsWithin(m, T)
    BY <1>1 DEF EndsDirective, AtDirective
  <1>3. l = m.line + 1 /\ n = t.line + 1
    OBVIOUS
  <1> HIDE DEF l, n
  <1>4. /\ m.column > 0
        /\ d <= l /\ IsDirectiveLine(T[d]) /\ Extends(T, d, l)
        /\ Words(m.directive) = Part(T, d, l, m.column)
        /\ m.directive # <<>> => IsRead(m, m.directive[1].text)
        /\ Nested(m.conditionals, m.skipped, T, d)
        /\ items = ItemsTo(path, T, headers)[d - 1]
    BY <1>1, <1>3 DEF AtDirective
  <1>5. NextToken(m, T, t, l, n)
    BY <1>2, <1>3, LexFacts
  <1>6. /\ t \in Token /\ l \in 1 .. Len(T) /\ Len(T) \in Nat /\ Len(T[l]) \in Nat /\ l \in Nat
        /\ t.line \in Nat /\ t.column \in Nat /\ m.column = Len(T[l])
        /\ IsEof(t) => \A k \in l + 1 .. Len(T) : T[k] = <<>>
        /\ ~IsEof(t) => /\ n \in 1 .. Len(T) /\ n > l /\ t.column = 0 /\ t.first
                        /\ t.text = T[n][1] /\ T[n] # <<>>
                        /\ \A k \in l + 1 .. n - 1 : T[k] = <<>>
    <2>1. CASE IsEof(t)
      BY <1>5, <2>1 DEF NextToken
    <2>2. CASE ~IsEof(t)
      <3>1. t.column = 0 /\ t.column # m.column
        BY SMTT(30), <1>2, <1>4, <1>5, <2>2 DEF NextToken
      <3>2. n > l /\ m.column = Len(T[l])
        BY <1>5, <2>2, <3>1 DEF NextToken
      <3>3. t.text = T[n][1]
        BY <1>5, <2>2, <3>1 DEF NextToken
      <3> QED BY <1>2, <1>5, <2>2, <3>1, <3>2, <3>3 DEF NextToken
    <2> QED BY <2>1, <2>2
  <1> DEFINE e == IF IsEof(t) THEN Len(T) + 1 ELSE n
  <1>7. /\ e \in l + 1 .. Len(T) + 1 /\ \A k \in l + 1 .. e - 1 : T[k] = <<>>
        /\ e <= Len(T) => ~IsEof(t) /\ e = n
        /\ IsEof(t) => e - 1 = Len(T)
    <2>1. CASE IsEof(t)
      <3>1. e = Len(T) + 1 /\ e - 1 = Len(T)
        BY <1>6, <2>1
      <3> HIDE DEF e
      <3> QED BY <1>6, <2>1, <3>1
    <2>2. CASE ~IsEof(t)
      <3>1. e = n
        BY <2>2
      <3> HIDE DEF e
      <3> QED BY <1>6, <2>2, <3>1
    <2> QED BY <2>1, <2>2
  <1> HIDE DEF e
  <1>8. e <= Len(T) => ~Continues(T[e])
    BY <1>6, <1>7, NotContinued
  <1>9. d \in Nat /\ l \in d .. Len(T) /\ d \in Nat \ {0}
    BY <1>4, <1>6
  <1>10. /\ Directive(T, d) = Part(T, d, l, Len(T[l]))
         /\ \A k \in d + 1 .. e - 1 : IsSwallowed(T, k)
         /\ e <= Len(T) => ~IsSwallowed(T, e)
    BY <1>4, <1>7, <1>8, <1>9, DirectiveEnds
  <1>11. Words(m.directive) = Directive(T, d)
    BY <1>4, <1>6, <1>10
  <1>12. ~IsSwallowed(T, d)
    <2>1. ~Continues(T[d])
      BY <1>4 DEF Continues, IsDirectiveLine
    <2> QED BY <1>9, <2>1, NotSwallowed
  <1>13. Active(m.conditionals) <=> IsSelected(T, d)
    <2>1. m.conditionals \in Seq(BOOLEAN) /\ m.skipped \in Nat
      BY DEF Machine
    <2>2. d \in 1 .. Len(T) + 1
      BY <1>6
    <2> QED BY <1>4, <1>6, <2>1, <2>2, ActiveIsSelected
  <1>14. /\ f \in Machine /\ Kept(m, f) /\ f.line = t.line /\ f.column = t.column + 1 /\ f.state = m.state
         /\ f.conditionals = m.conditionals /\ f.skipped = m.skipped /\ f.ended = m.ended
         /\ f.directive = m.directive /\ f.redirected = m.redirected /\ f.pending = <<>>
    BY <1>6, AdvancedFlushed
  <1>15. /\ h \in Machine /\ Kept(f, h) /\ h.line = f.line /\ h.column = f.column
         /\ h.redirected = f.redirected /\ h.ended = f.ended /\ h.pending = f.pending
         /\ Nested(h.conditionals, h.skipped, T, d + 1)
         /\ DirectiveName(f.directive) \notin {"if", "endif"} => h = f
    <2>1. Words(f.directive) = Directive(T, d) /\ Nested(f.conditionals, f.skipped, T, d)
      BY <1>4, <1>11, <1>14
    <2> QED BY <1>4, <1>14, <2>1, ConditionalHandled
  <1>16. /\ h \in Machine /\ Kept(m, h) /\ h.redirected = m.redirected /\ ~h.ended /\ h.pending = <<>>
         /\ DirectiveName(m.directive) \notin {"if", "endif"} => h = f
    BY <1>14, <1>15 DEF Kept
  <1> DEFINE a == AfterDirective(h)
             added == items \o LineItems(path, T, d, headers)
  <1>17. /\ a.state = IF Active(a.conditionals) THEN "Default" ELSE "Inactive"
         /\ ~a.ended /\ a.line = t.line /\ a.column = t.column + 1
         /\ a.conditionals = h.conditionals /\ a.skipped = h.skipped
    <2>1. a = [h EXCEPT !.state = IF Active(h.conditionals) THEN "Default" ELSE "Inactive"]
      BY DEF AfterDirective, Active, InActive
    <2> HIDE DEF a, Token
    <2> QED BY <1>14, <1>15, <1>16, <2>1 DEF Machine
  <1>18. Nested(h.conditionals, h.skipped, T, e)
    <2> DEFINE b == e - 1
    <2>1. d \in Nat /\ b \in Nat /\ d <= b /\ b + 1 = e
      BY <1>6, <1>7, <1>9
    <2>2. ASSUME NEW k \in d + 1 .. b PROVE ~IsDirective(T, k, "if") /\ ~IsDirective(T, k, "endif")
      <3>1. Continues(T[k])
        <4>1. k \in l + 1 .. b \/ k \in d + 1 .. l
          BY <1>6, <1>9, <2>1
        <4>2. k \in l + 1 .. b => T[k] = <<>>
          BY <1>7
        <4>3. k \in d + 1 .. l => Continues(T[k])
          BY <1>4 DEF Extends
        <4> QED BY <4>1, <4>2, <4>3 DEF Continues
      <3> QED BY <3>1 DEF IsDirective, IsDirectiveLine, Continues
    <2> HIDE DEF b
    <2>3. Nested(h.conditionals, h.skipped, T, b + 1)
      BY <1>15, <2>1, <2>2, NestedThrough
    <2> QED BY <2>1, <2>3
  <1>19. added = ItemsTo(path, T, headers)[e - 1]
    <2> DEFINE b == e - 1
    <2>1. d \in Nat /\ b \in Nat /\ d <= b /\ b <= Len(T)
      BY <1>6, <1>7, <1>9
    <2>2. \A k \in d + 1 .. b : LineItems(path, T, k, headers) = <<>>
      BY <1>10 DEF LineItems
    <2> HIDE DEF b
    <2>3. ItemsTo(path, T, headers)[b] = ItemsTo(path, T, headers)[d]
      BY <2>1, <2>2, ItemsThrough
    <2>4. ItemsTo(path, T, headers)[d] = added
      BY <1>4, ItemsOn
    <2> QED BY <2>3, <2>4 DEF b
  <1> HIDE DEF a, added
  <1>20. Arrives(a, t, path, T, headers, added)
    <2>1. CASE IsEof(t)
      <3>1. added = Items(path, T, headers)
        BY <1>7, <1>19, <2>1 DEF Items
      <3> QED BY <1>17, <2>1, <3>1 DEF Arrives
    <2>2. CASE ~IsEof(t)
      <3>1. e = n /\ e - 1 = t.line /\ t.column + 1 = 1
        <4>1. e = n
          BY <2>2 DEF e
        <4> QED BY <1>3, <1>6, <2>2, <4>1
      <3>2. ~IsSwallowed(T, n) /\ Nested(h.conditionals, h.skipped, T, n) /\ added = ItemsTo(path, T, headers)[t.line] /\ a.column = 1
        <4>1. n <= Len(T)
          BY <1>6, <2>2
        <4> QED BY <1>10, <1>17, <1>18, <1>19, <3>1, <4>1
      <3> QED BY <1>3, <1>6, <1>17, <2>2, <3>1, <3>2 DEF Arrives
    <2> QED BY <2>1, <2>2
  <1>21. Ends(m, h, t, path, T, headers, items, d)
    BY <1>4, <1>11, <1>12, <1>13, <1>20 DEF Ends, a, added
  <1> QED BY <1>16, <1>21

-----------------------------------------------------------------------------
(* What items mean, item by item.                                           *)
Place == Paths \X Nat \X Nat

\* The tokens of items with one more.
LEMMA TokensOneMore ==
  ASSUME NEW items \in Seq(Item), NEW it \in Item, NEW new, DOMAIN new = 1 .. Len(items) + 1, Len(new) = Len(items) + 1,
         new[Len(items) + 1] = it, \A k \in 1 .. Len(items) : new[k] = items[k]
  PROVE  /\ TokensOf(new) = IF IsToken(it) THEN Append(TokensOf(items), it.what) ELSE TokensOf(items)
         /\ TokensOf(items) \in Seq(Place)
  <1> DEFINE n == Len(items)
             A == {e \in Range(items) : IsToken(e)}
             B == {e \in Range(new) : IsToken(e)}
             P == PlacesOf(A, items)
             Q == PlacesOf(B, new)
             S == {k \in 0 .. n : P[k] = Q[k]}
             W == Item
  <1>1. items \in Seq(W) /\ it \in W
    OBVIOUS
  <1> HIDE DEF W
  <1>2. /\ n \in Nat /\ DOMAIN items = 1 .. n /\ DOMAIN new = 1 .. n + 1 /\ Len(new) = n + 1 /\ Len(new) \in Nat
        /\ new[n + 1] = it /\ \A k \in 1 .. n : new[k] = items[k] /\ k \in 1 .. n + 1
    <2>1. n \in Nat /\ DOMAIN items = 1 .. n
      BY <1>1, LenProperties
    <2> QED BY <2>1
  <1>3. \A k \in 1 .. n : items[k] \in A <=> IsToken(items[k])
    BY <1>2 DEF Range
  <1>4. \A k \in 1 .. n + 1 : new[k] \in B <=> IsToken(new[k])
    BY <1>2 DEF Range
  <1>5. P[0] = <<>> /\ \A k \in 1 .. n : P[k] = IF items[k] \in A THEN Append(P[k - 1], k) ELSE P[k - 1]
    BY <1>2, PlacesPass
  <1>6. Q[0] = <<>> /\ \A k \in 1 .. n + 1 : Q[k] = IF new[k] \in B THEN Append(Q[k - 1], k) ELSE Q[k - 1]
    <2> DEFINE m == n + 1
    <2>1. Len(new) = m /\ m \in Nat
      BY <1>2
    <2> HIDE DEF m, B
    <2>2. Q[0] = <<>> /\ \A k \in 0 + 1 .. Len(new) : Q[k] = IF new[k] \in B THEN Append(Q[k - 1], k) ELSE Q[k - 1]
      BY <2>1, PlacesPass
    <2>3. Q[0] = <<>> /\ \A k \in 1 .. m : Q[k] = IF new[k] \in B THEN Append(Q[k - 1], k) ELSE Q[k - 1]
      BY <2>1, <2>2
    <2> QED BY <2>3 DEF m
  <1>7. P[n] \in Seq(1 .. n) /\ Len(P[n]) \in Nat /\ \A k \in 1 .. Len(P[n]) : P[n][k] \in 1 .. n /\ items[P[n][k]] \in A
    <2>1. n \in 0 .. n
      BY <1>2
    <2> HIDE DEF A
    <2> QED BY <1>2, <2>1, PlacesTyped
  <1>8. TokensOf(items) = [j \in DOMAIN P[n] |-> items[P[n][j]].what]
    BY DEF TokensOf
  <1>9. TokensOf(new) = [j \in DOMAIN Q[n + 1] |-> new[Q[n + 1][j]].what]
    BY <1>2 DEF TokensOf
  <1>10. Q[n] = P[n]
    <2> HIDE DEF P, Q, A, B
    <2>1. 0 \in S
      BY <1>2, <1>5, <1>6
    <2>2. ASSUME NEW k \in 1 .. n, k - 1 \in S PROVE k \in S
      <3>1. P[k - 1] = Q[k - 1] /\ k \in 0 .. n /\ (items[k] \in A <=> new[k] \in B)
        BY <1>2, <1>3, <1>4, <2>2
      <3> QED BY <1>2, <1>5, <1>6, <3>1
    <2> HIDE DEF S
    <2>3. \A k \in 0 .. n : k \in S
      BY <1>2, <2>1, <2>2, Climb
    <2>4. n \in S
      BY <1>2, <2>3
    <2> QED BY <2>4 DEF S
  <1>11. Q[n + 1] = IF IsToken(it) THEN Append(P[n], n + 1) ELSE P[n]
    <2>1. n + 1 \in 1 .. n + 1 /\ (n + 1) - 1 = n
      BY <1>2
    <2> HIDE DEF Q, P, B
    <2> QED BY <1>2, <1>4, <1>6, <1>10, <2>1
  <1> DEFINE p == P[n]
  <1>12. /\ p \in Seq(1 .. n) /\ Len(p) \in Nat
         /\ Q[n + 1] = IF IsToken(it) THEN Append(p, n + 1) ELSE p
         /\ TokensOf(items) = [j \in DOMAIN p |-> items[p[j]].what]
         /\ \A k \in 1 .. Len(p) : p[k] \in 1 .. n /\ items[p[k]] \in A
    BY <1>7, <1>8, <1>11
  <1> HIDE DEF p, P, Q, S
  <1>13. DOMAIN p = 1 .. Len(p)
    BY <1>12, LenProperties
  <1>14. TokensOf(items) \in Seq(Place)
    <2>1. ASSUME NEW k \in 1 .. Len(p) PROVE items[p[k]].what \in Place
      <3>1. items[p[k]] \in Item /\ IsToken(items[p[k]])
        BY <1>1, <1>2, <1>12, <2>1, ElementOfSeq DEF W
      <3> QED BY <3>1 DEF Item, IsToken, Place
    <2>2. [j \in 1 .. Len(p) |-> items[p[j]].what] \in [1 .. Len(p) -> Place]
      BY <2>1
    <2>3. [j \in 1 .. Len(p) |-> items[p[j]].what] \in Seq(Place)
      BY <1>12, <2>2, IsASeq
    <2> QED BY <1>12, <1>13, <2>3
  <1>15. CASE ~IsToken(it)
    <2>1. [j \in DOMAIN p |-> new[p[j]].what] = [j \in DOMAIN p |-> items[p[j]].what]
      BY <1>2, <1>12, <1>13
    <2> QED BY <1>9, <1>12, <1>14, <1>15, <2>1
  <1>16. CASE IsToken(it)
    <2> DEFINE Of(k) == new[k].what
    <2>1. TokensOf(new) = [j \in DOMAIN Append(p, n + 1) |-> Of(Append(p, n + 1)[j])]
      BY <1>9, <1>12, <1>16
    <2>2. TokensOf(items) = [j \in DOMAIN p |-> Of(p[j])]
      BY <1>2, <1>12, <1>13
    <2>3. Of(n + 1) = it.what
      BY <1>2
    <2> HIDE DEF Of
    <2>4. [j \in DOMAIN Append(p, n + 1) |-> Of(Append(p, n + 1)[j])] = Append([j \in DOMAIN p |-> Of(p[j])], Of(n + 1))
      BY <1>2, <1>12
    <2> QED BY <1>14, <1>16, <2>1, <2>2, <2>3, <2>4
  <1> QED BY <1>15, <1>16

\* The same, of Append.
LEMMA TokensOn ==
  ASSUME NEW items \in Seq(Item), NEW it \in Item
  PROVE  /\ TokensOf(Append(items, it)) = IF IsToken(it) THEN Append(TokensOf(items), it.what) ELSE TokensOf(items)
         /\ TokensOf(items) \in Seq(Place)
  <1> DEFINE new == Append(items, it)
             W == Item
  <1>1. items \in Seq(W) /\ it \in W
    OBVIOUS
  <1> HIDE DEF W
  <1>2. /\ Len(new) = Len(items) + 1 /\ new \in Seq(W)
        /\ new[Len(items) + 1] = it /\ \A k \in 1 .. Len(items) : new[k] = items[k]
    BY <1>1, AppendProperties
  <1>3. DOMAIN new = 1 .. Len(items) + 1
    BY <1>2, LenProperties
  <1> HIDE DEF new
  <1>4. /\ TokensOf(new) = IF IsToken(it) THEN Append(TokensOf(items), it.what) ELSE TokensOf(items)
        /\ TokensOf(items) \in Seq(Place)
    BY <1>2, <1>3, TokensOneMore
  <1> QED BY <1>4 DEF new

\* The version of items with one more.
LEMMA VersionOn ==
  ASSUME NEW items \in Seq(Item), NEW it \in Item, NEW new, new = Append(items, it)
  PROVE  MeantVersion(new) = IF IsVersion(it) THEN it.what[2] ELSE MeantVersion(items)
  <1> DEFINE n == Len(items)
             V == {i \in DOMAIN items : IsVersion(items[i])}
             X == {i \in DOMAIN new : IsVersion(new[i])}
             W == Item
  <1>1. items \in Seq(W) /\ it \in W
    OBVIOUS
  <1> HIDE DEF W
  <1>2. /\ n \in Nat /\ DOMAIN items = 1 .. n /\ DOMAIN new = 1 .. n + 1
        /\ new[n + 1] = it /\ \A k \in 1 .. n : new[k] = items[k]
    <2>1. n \in Nat /\ DOMAIN items = 1 .. n
      BY <1>1, LenProperties
    <2>2. Len(new) = n + 1 /\ new \in Seq(W) /\ new[n + 1] = it /\ \A k \in 1 .. n : new[k] = items[k]
      BY <1>1, AppendProperties
    <2>3. DOMAIN new = 1 .. n + 1
      BY <2>2, LenProperties
    <2> QED BY <2>1, <2>2, <2>3
  <1>3. MeantVersion(items) = (IF V = {} THEN "460" ELSE items[Max(V)].what[2])
    BY DEF MeantVersion
  <1>4. MeantVersion(new) = (IF X = {} THEN "460" ELSE new[Max(X)].what[2])
    BY DEF MeantVersion
  <1>5. CASE IsVersion(it)
    <2>1. n + 1 \in X /\ X \in SUBSET (1 .. n + 1) /\ X # {} /\ n + 1 \in Nat
      BY <1>2, <1>5
    <2> HIDE DEF X
    <2>2. Max(X) \in X /\ n + 1 <= Max(X)
      BY <2>1, MaxIsGreatest
    <2>3. Max(X) = n + 1
      <3> DEFINE m == Max(X)
      <3>1. m \in 1 .. n + 1 /\ n + 1 <= m
        BY <2>1, <2>2
      <3> HIDE DEF m
      <3>2. m = n + 1
        BY <1>2, <3>1
      <3> QED BY <3>2 DEF m
    <2> QED BY <1>2, <1>4, <1>5, <2>1, <2>3
  <1>6. CASE ~IsVersion(it)
    <2>1. X = V
      <3>1. \A k \in X : k \in V
        BY <1>2, <1>6
      <3>2. \A k \in V : k \in X
        BY <1>2
      <3> QED BY <3>1, <3>2
    <2>2. V \in SUBSET (1 .. n)
      BY <1>2
    <2> HIDE DEF V, X
    <2>3. V # {} => new[Max(V)] = items[Max(V)]
      <3>1. ASSUME V # {} PROVE Max(V) \in 1 .. n
        BY <1>2, <2>2, <3>1, MaxIsGreatest
      <3> QED BY <1>2, <3>1
    <2> QED BY <1>3, <1>4, <1>6, <2>1, <2>3
  <1> QED BY <1>5, <1>6

\* The extensions of items with one more.
LEMMA ExtensionsOn ==
  ASSUME NEW items \in Seq(Item), NEW it \in Item, NEW new, new = Append(items, it)
  PROVE  MeantExtensions(new) = MeantExtensions(items) \cup {x \in KnownExtensions : Enables(it, x)}
  <1> DEFINE n == Len(items)
             W == Item
  <1>1. items \in Seq(W) /\ it \in W
    OBVIOUS
  <1> HIDE DEF W
  <1>2. n \in Nat /\ DOMAIN items = 1 .. n /\ DOMAIN new = 1 .. n + 1
        /\ new[n + 1] = it /\ \A k \in 1 .. n : new[k] = items[k]
    <2>1. n \in Nat /\ DOMAIN items = 1 .. n
      BY <1>1, LenProperties
    <2>2. Len(new) = n + 1 /\ new \in Seq(W) /\ new[n + 1] = it /\ \A k \in 1 .. n : new[k] = items[k]
      BY <1>1, AppendProperties
    <2>3. DOMAIN new = 1 .. n + 1
      BY <2>2, LenProperties
    <2> QED BY <2>1, <2>2, <2>3
  <1> HIDE DEF n
  <1>3. ASSUME NEW x, \E i \in DOMAIN new : Enables(new[i], x)
        PROVE  Enables(it, x) \/ \E i \in DOMAIN items : Enables(items[i], x)
    <2>1. PICK i \in 1 .. n + 1 : Enables(new[i], x)
      BY <1>2, <1>3
    <2>2. i = n + 1 \/ i \in 1 .. n
      BY <1>2
    <2> QED BY <1>2, <2>1, <2>2
  <1>4. ASSUME NEW x, Enables(it, x) \/ \E i \in DOMAIN items : Enables(items[i], x)
        PROVE  \E i \in DOMAIN new : Enables(new[i], x)
    <2>1. n + 1 \in 1 .. n + 1 /\ \A i \in 1 .. n : i \in 1 .. n + 1
      BY <1>2
    <2> QED BY <1>2, <1>4, <2>1
  <1> QED BY <1>3, <1>4 DEF MeantExtensions

\* No items mean no tokens and the default version.
LEMMA NothingMeant ==
  TokensOf(<<>>) = <<>> /\ MeantVersion(<<>>) = "460" /\ MeantExtensions(<<>>) = {}
  <1>1. DOMAIN <<>> = {} /\ Len(<<>>) = 0
    OBVIOUS
  <1>2. ASSUME NEW set PROVE PlacesOf(set, <<>>)[0] = <<>>
    BY <1>1, PlacesPass
  <1> QED BY <1>1, <1>2 DEF TokensOf, MeantVersion, MeantExtensions

-----------------------------------------------------------------------------
(* The configuration, and what is said of the output.                       *)
Config == [version : Versions, profile : Profiles, extensions : SUBSET KnownExtensions]
Directed(words) == [kind |-> "directive", what |-> words]

\* A #version or a #extension is collected as what it means.
LEMMA ConfigOn ==
  ASSUME NEW c \in Config, NEW D \in Seq(Token), NEW R \in Seq(STRING), Len(R) = Len(D), Len(D) \in Nat,
         \A k \in 1 .. Len(D) : R[k] = D[k].text, NEW new, new = HandleConfig(c, D)
  PROVE  /\ new \in Config
         /\ new.version = IF IsVersion(Directed(R)) THEN R[2] ELSE c.version
         /\ new.extensions = c.extensions \cup {x \in KnownExtensions : Enables(Directed(R), x)}
         /\ DirectiveName(D) \notin {"version", "extension"} => new = c
  <1>1. \A i \in 0 .. 3 : Arg(D, i) = IF Len(D) > i THEN R[i + 1] ELSE "none"
    <2>1. ASSUME NEW i \in 0 .. 3, Len(D) > i PROVE i + 1 \in 1 .. Len(D)
      BY <2>1
    <2> QED BY <2>1 DEF Arg
  <1>2. /\ Arg(D, 0) = IF Len(D) > 0 THEN R[1] ELSE "none"
        /\ Arg(D, 1) = IF Len(D) > 1 THEN R[2] ELSE "none"
        /\ Arg(D, 2) = IF Len(D) > 2 THEN R[3] ELSE "none"
        /\ Arg(D, 3) = IF Len(D) > 3 THEN R[4] ELSE "none"
    <2>1. 0 \in 0 .. 3 /\ 1 \in 0 .. 3 /\ 2 \in 0 .. 3 /\ 3 \in 0 .. 3 /\ 0 + 1 = 1 /\ 1 + 1 = 2 /\ 2 + 1 = 3 /\ 3 + 1 = 4
      OBVIOUS
    <2> QED BY <1>1, <2>1
  <1>3. Directed(R).kind = "directive" /\ Directed(R).what = R
    BY DEF Directed
  <1>4. IsVersion(Directed(R)) <=> /\ Arg(D, 0) = "version" /\ Arg(D, 1) \in Versions
                                   /\ Len(D) = 2 \/ Arg(D, 2) \in Profiles
    <2>1. "none" \notin Versions /\ "none" \notin Profiles
      BY DEF Versions, Profiles
    <2>2. Len(D) > 1 => Len(D) > 0 /\ (Len(D) = 2 <=> ~(Len(D) > 2))
      OBVIOUS
    <2> QED BY <1>2, <1>3, <2>1, <2>2 DEF IsVersion
  <1>5. \A x : Enables(Directed(R), x) <=> /\ Arg(D, 0) = "extension" /\ Arg(D, 1) = x /\ Len(D) > 3
                                           /\ Arg(D, 2) = ":" /\ Arg(D, 3) \in {"enable", "require"}
    <2>1. Len(D) > 3 => Len(D) > 0 /\ Len(D) > 1 /\ Len(D) > 2
      OBVIOUS
    <2> QED BY <1>2, <1>3, <2>1 DEF Enables
  <1>6. \A w \in {"enable", "require"} : Arg(D, 3) = w => Len(D) > 3
    BY <1>2
  <1>8. CASE DirectiveName(D) = "version"
    <2> DEFINE v == Arg(D, 1)
               p == IF Len(D) = 2 THEN GetDefaultProfile(v) ELSE Arg(D, 2)
    <2>1. new = HandleVersionDirective(c, D)
      BY <1>8 DEF HandleConfig
    <2>2. \A x : ~Enables(Directed(R), x)
      BY <1>5, <1>8 DEF DirectiveName
    <2>3. CASE v \in Versions /\ (Len(D) = 2 \/ Arg(D, 2) \in Profiles)
      <3>1. new = [c EXCEPT !.version = v, !.profile = p]
        BY <2>1, <2>3 DEF HandleVersionDirective
      <3>2. p \in Profiles /\ v \in Versions
        <4>1. GetDefaultProfile(v) \in Profiles
          BY DEF GetDefaultProfile, Profiles
        <4> HIDE DEF v
        <4> QED BY <2>3, <4>1
      <3>3. IsVersion(Directed(R)) /\ R[2] = v
        BY <1>2, <1>3, <1>4, <1>8, <2>3 DEF DirectiveName, IsVersion
      <3> HIDE DEF v, p
      <3> QED BY <1>8, <2>2, <3>1, <3>2, <3>3 DEF Config
    <2>4. CASE ~(v \in Versions /\ (Len(D) = 2 \/ Arg(D, 2) \in Profiles))
      <3>1. new = c /\ ~IsVersion(Directed(R))
        BY <1>4, <2>1, <2>4 DEF HandleVersionDirective
      <3> QED BY <2>2, <3>1
    <2> QED BY <2>3, <2>4
  <1>9. CASE DirectiveName(D) = "extension"
    <2>1. new = HandleExtensionDirective(c, D)
      BY <1>9 DEF HandleConfig
    <2>2. ~IsVersion(Directed(R))
      BY <1>4, <1>9 DEF DirectiveName
    <2> DEFINE e == Arg(D, 1)
    <2>3. CASE e \in KnownExtensions /\ Arg(D, 2) = ":" /\ Arg(D, 3) \in {"enable", "require"}
      <3>1. new = [c EXCEPT !.extensions = c.extensions \cup {e}]
        BY <2>1, <2>3 DEF HandleExtensionDirective
      <3>2. {x \in KnownExtensions : Enables(Directed(R), x)} = {e}
        BY <1>5, <1>6, <1>9, <2>3 DEF DirectiveName
      <3>3. c.extensions \cup {e} \in SUBSET KnownExtensions
        BY <2>3 DEF Config
      <3> HIDE DEF e
      <3> QED BY <1>9, <2>2, <3>1, <3>2, <3>3 DEF Config
    <2>4. CASE ~(e \in KnownExtensions /\ Arg(D, 2) = ":" /\ Arg(D, 3) \in {"enable", "require"})
      <3>1. new = c
        BY <2>1, <2>4 DEF HandleExtensionDirective
      <3>2. {x \in KnownExtensions : Enables(Directed(R), x)} = {}
        BY <1>5, <2>4
      <3> QED BY <2>2, <3>1, <3>2
    <2> QED BY <2>3, <2>4
  <1>10. CASE DirectiveName(D) \notin {"version", "extension"}
    <2>1. new = c
      BY <1>10 DEF HandleConfig
    <2>2. ~IsVersion(Directed(R)) /\ {x \in KnownExtensions : Enables(Directed(R), x)} = {}
      BY <1>4, <1>5, <1>10 DEF DirectiveName
    <2> QED BY <2>1, <2>2
  <1> QED BY <1>8, <1>9, <1>10

OutToken == [text : STRING \cup {"eof"}, file : Nat, line : Nat, column : Nat, expanded : Seq(Nat)]
PlaceOf(list, t) == <<list[t.file].path, t.line, t.column>>

\* The output and the configuration are those of a sequence of items.
Says(list, out, c, total) ==
    /\ total \in Seq(Item) /\ out \in Seq(OutToken) /\ c \in Config
    /\ Len(out) = Len(TokensOf(total))
    /\ \A k \in 1 .. Len(out) : out[k].file \in 1 .. Len(list) /\ PlaceOf(list, out[k]) = TokensOf(total)[k]
    /\ c.version = MeantVersion(total) /\ c.extensions = MeantExtensions(total)

\* At first nothing is output, and nothing has been read.
LEMMA SaysNothing ==
  ASSUME NEW list, NEW c \in Config, c.version = "460", c.extensions = {}
  PROVE  Says(list, <<>>, c, <<>>)
  <1>1. <<>> \in Seq(Item) /\ <<>> \in Seq(OutToken) /\ Len(<<>>) = 0
    OBVIOUS
  <1>2. \A k \in 1 .. 0 : FALSE
    OBVIOUS
  <1> HIDE DEF Item, OutToken
  <1> QED BY <1>1, <1>2, NothingMeant DEF Says

\* Files that are opened do not change what has been said.
LEMMA SaysGrows ==
  ASSUME NEW list \in Seq(Entry), NEW new \in Seq(Entry), Grows(list, new), NEW out, NEW c, NEW total, Says(list, out, c, total)
  PROVE  Says(new, out, c, total)
  <1>1. Len(list) \in Nat /\ Len(new) \in Nat
    BY LenProperties
  <1>2. \A k \in 1 .. Len(list) : k \in 1 .. Len(new) /\ new[k] = list[k]
    BY <1>1 DEF Grows
  <1> QED BY <1>2 DEF Says, PlaceOf

\* A token is output.
LEMMA SaysToken ==
  ASSUME NEW list, NEW out, NEW c, NEW total, Says(list, out, c, total), NEW t \in Token, t.file \in 1 .. Len(list),
         NEW path, path = list[t.file].path, path \in Paths
  PROVE  Says(list, Append(out, OutputToken(t)), c, Append(total, Placed(path, t)))
  <1> DEFINE o == OutputToken(t)
             p == Placed(path, t)
             w == TokensOf(total)
             q == <<path, t.line, t.column>>
  <1>1. o \in OutToken /\ o.file = t.file /\ o.line = t.line /\ o.column = t.column
    <2>1. <<t.line, t.column>> \in Seq(Nat)
      BY DEF Token
    <2> QED BY <2>1 DEF OutputToken, OutToken, Token
  <1>2. p \in Item /\ IsToken(p) /\ p.kind = "token" /\ p.what = q /\ q \in Place
    <2>1. t.line \in Nat /\ t.column \in Nat
      BY DEF Token
    <2> QED BY <2>1 DEF Placed, Item, IsToken, Place
  <1>3. /\ total \in Seq(Item) /\ out \in Seq(OutToken) /\ c \in Config
        /\ Len(out) = Len(w)
        /\ \A k \in 1 .. Len(out) : out[k].file \in 1 .. Len(list) /\ PlaceOf(list, out[k]) = w[k]
        /\ c.version = MeantVersion(total) /\ c.extensions = MeantExtensions(total)
    BY DEF Says
  <1>4. TokensOf(Append(total, p)) = Append(w, q) /\ w \in Seq(Place)
    <2> HIDE DEF p, q, w
    <2>1. TokensOf(Append(total, p)) = Append(TokensOf(total), p.what) /\ TokensOf(total) \in Seq(Place)
      BY <1>2, <1>3, TokensOn
    <2> QED BY <1>2, <2>1 DEF w
  <1>5. PlaceOf(list, o) = q
    BY <1>1 DEF PlaceOf
  <1>6. MeantVersion(Append(total, p)) = MeantVersion(total) /\ MeantExtensions(Append(total, p)) = MeantExtensions(total)
    <2>1. ~IsVersion(p) /\ \A x : ~Enables(p, x)
      BY <1>2 DEF IsVersion, Enables
    <2>2. {x \in KnownExtensions : Enables(p, x)} = {}
      BY <2>1
    <2> HIDE DEF p
    <2>3. MeantVersion(Append(total, p)) = IF IsVersion(p) THEN p.what[2] ELSE MeantVersion(total)
      BY <1>2, <1>3, VersionOn
    <2>4. MeantExtensions(Append(total, p)) = MeantExtensions(total) \cup {x \in KnownExtensions : Enables(p, x)}
      BY <1>2, <1>3, ExtensionsOn
    <2> QED BY <2>1, <2>2, <2>3, <2>4
  <1> HIDE DEF o, p, w, q
  <1>7. Append(total, p) \in Seq(Item) /\ Append(out, o) \in Seq(OutToken)
    <2> HIDE DEF Item, OutToken
    <2> QED BY <1>1, <1>2, <1>3, AppendProperties
  <1>8. /\ Len(out) \in Nat /\ Len(Append(out, o)) = Len(out) + 1 /\ Append(out, o)[Len(out) + 1] = o
        /\ \A k \in 1 .. Len(out) : Append(out, o)[k] = out[k]
    <2> HIDE DEF OutToken
    <2> QED BY <1>1, <1>3, AppendProperties, LenProperties
  <1>9. /\ Len(Append(w, q)) = Len(w) + 1 /\ Append(w, q)[Len(w) + 1] = q
        /\ \A k \in 1 .. Len(w) : Append(w, q)[k] = w[k]
    <2> HIDE DEF Place
    <2> QED BY <1>2, <1>4, AppendProperties
  <1>10. ASSUME NEW k \in 1 .. Len(Append(out, o))
         PROVE  Append(out, o)[k].file \in 1 .. Len(list) /\ PlaceOf(list, Append(out, o)[k]) = Append(w, q)[k]
    <2>1. k = Len(out) + 1 \/ k \in 1 .. Len(out)
      BY <1>8
    <2>2. CASE k = Len(out) + 1
      BY <1>1, <1>3, <1>5, <1>8, <1>9, <2>2
    <2>3. CASE k \in 1 .. Len(out)
      BY <1>3, <1>8, <1>9, <2>3
    <2> QED BY <2>1, <2>2, <2>3
  <1>11. Says(list, Append(out, o), c, Append(total, p))
    BY <1>3, <1>4, <1>6, <1>7, <1>8, <1>9, <1>10 DEF Says
  <1> QED BY <1>11 DEF o, p

\* A directive is handled.
LEMMA SaysDirective ==
  ASSUME NEW list, NEW out, NEW c, NEW total, Says(list, out, c, total), NEW new \in Config, NEW R \in Seq(STRING),
         new.version = IF IsVersion(Directed(R)) THEN R[2] ELSE c.version,
         new.extensions = c.extensions \cup {x \in KnownExtensions : Enables(Directed(R), x)}
  PROVE  Says(list, out, new, Append(total, Directed(R)))
  <1> DEFINE p == Directed(R)
  <1>1. p \in Item /\ ~IsToken(p) /\ p.what = R
    BY DEF Directed, Item, IsToken
  <1>2. total \in Seq(Item)
    BY DEF Says
  <1> HIDE DEF p
  <1>3. TokensOf(Append(total, p)) = TokensOf(total)
    BY <1>1, <1>2, TokensOn
  <1>4. MeantVersion(Append(total, p)) = IF IsVersion(p) THEN p.what[2] ELSE MeantVersion(total)
    BY <1>1, <1>2, VersionOn
  <1>5. MeantExtensions(Append(total, p)) = MeantExtensions(total) \cup {x \in KnownExtensions : Enables(p, x)}
    BY <1>1, <1>2, ExtensionsOn
  <1>6. Append(total, p) \in Seq(Item)
    <2> HIDE DEF Item
    <2> QED BY <1>1, <1>2, AppendProperties
  <1>7. Says(list, out, new, Append(total, p))
    BY <1>1, <1>3, <1>4, <1>5, <1>6 DEF Says, p
  <1> QED BY <1>7 DEF p

-----------------------------------------------------------------------------
(* The stack of state machines.                                             *)
HeadersAt(onDisk, depth) == Included(onDisk)[MaxIncludeDepth - depth]

ReadsIn(onDisk, list, m, part) ==
    Reads(m, list[m.file].path, list[m.file].text, HeadersAt(onDisk, m.depth), part)

\* A state machine waits for the header another one reads.
WaitsFor(onDisk, list, m, inner, part) ==
    /\ ~m.ended /\ \E t \in Token : m.redirected = <<t>> /\ t.file = m.file
    /\ inner.depth = m.depth + 1
    /\ \E name \in DOMAIN Canonical :
           /\ Resolved(onDisk, name) # NoPath
           /\ list[inner.file].path = Resolved(onDisk, name)
           /\ list[inner.file].text = onDisk[Resolved(onDisk, name)]
           /\ Arrives(AfterDirective([m EXCEPT !.redirected = <<>>]), m.redirected[1],
                      list[m.file].path, list[m.file].text, HeadersAt(onDisk, m.depth),
                      part \o HeadersAt(onDisk, m.depth)[name])

\* The lower n levels, with what each has read and what all up to each have.
Levels(onDisk, list, st, parts, totals, n) ==
    /\ \A k \in 1 .. n : st[k] \in Machine /\ st[k].file \in 1 .. Len(list) /\ st[k].depth \in 0 .. MaxIncludeDepth
    /\ st[1].file = 1 /\ st[1].depth = 0
    /\ totals[0] = <<>>
    /\ \A k \in 1 .. n : parts[k] \in Seq(Item) /\ totals[k] \in Seq(Item) /\ totals[k] = totals[k - 1] \o parts[k]
    /\ \A k \in 1 .. n - 1 : WaitsFor(onDisk, list, st[k], st[k + 1], parts[k])

Stacked(onDisk, list, st, parts, totals) ==
    /\ st \in Seq(Machine) /\ Len(st) > 0
    /\ Levels(onDisk, list, st, parts, totals, Len(st))
    /\ st[Len(st)].redirected = <<>> /\ ReadsIn(onDisk, list, st[Len(st)], parts[Len(st)])

\* A state machine still waits when further files are opened.
LEMMA WaitsOn ==
  ASSUME NEW onDisk, NEW list \in Seq(Entry), NEW new \in Seq(Entry), Grows(list, new),
         NEW m, m.file \in 1 .. Len(list), NEW inner, inner.file \in 1 .. Len(list), NEW part,
         NEW next, next.file = inner.file, next.depth = inner.depth, WaitsFor(onDisk, list, m, inner, part)
  PROVE  WaitsFor(onDisk, new, m, next, part)
  <1>1. new[m.file] = list[m.file] /\ new[inner.file] = list[inner.file]
    BY DEF Grows
  <1> QED BY <1>1 DEF WaitsFor

\* Concatenation.
LEMMA ConcatAssociates ==
  ASSUME NEW S, NEW a \in Seq(S), NEW b \in Seq(S), NEW c \in Seq(S)
  PROVE  (a \o b) \o c = a \o (b \o c) /\ a \o b \in Seq(S) /\ a \o <<>> = a
BY SMTT(30), ConcatAssociative, ConcatProperties, ConcatEmptySeq

\* A sequence that is the same up to its place n, where x comes on or v stands.
Longer(p, parts, n, x) == \A k \in 0 .. n : p[k] = IF k = n THEN parts[n] \o x ELSE parts[k]
Replaces(p, parts, n, v) == \A k \in 1 .. n : p[k] = IF k = n THEN v ELSE parts[k]
IsHeight(n) == n \in Nat \ {0}
IsAbove(o, n) == o = n + 1

\* The machine of a level goes on.
LEMMA LevelMoves ==
  ASSUME NEW onDisk, NEW list \in Seq(Entry), NEW new \in Seq(Entry), Grows(list, new), NEW n, IsHeight(n),
         NEW st, NEW parts, NEW totals, Levels(onDisk, list, st, parts, totals, n),
         NEW m \in Machine, Kept(st[n], m), NEW x \in Seq(Item),
         NEW now, Replaces(now, st, n, m), NEW p, Longer(p, parts, n, x), NEW q, Longer(q, totals, n, x)
  PROVE  Levels(onDisk, new, now, p, q, n)
  <1>0. n \in Nat \ {0}
    BY DEF IsHeight
  <1>1. /\ \A k \in 1 .. n : st[k] \in Machine /\ st[k].file \in 1 .. Len(list) /\ st[k].depth \in 0 .. MaxIncludeDepth
        /\ st[1].file = 1 /\ st[1].depth = 0
        /\ totals[0] = <<>>
        /\ \A k \in 1 .. n : parts[k] \in Seq(Item) /\ totals[k] \in Seq(Item) /\ totals[k] = totals[k - 1] \o parts[k]
        /\ \A k \in 1 .. n - 1 : WaitsFor(onDisk, list, st[k], st[k + 1], parts[k])
    BY DEF Levels
  <1>2. /\ n \in 1 .. n /\ 1 \in 1 .. n /\ n # 0 /\ 0 \in 0 .. n /\ n \in 0 .. n
        /\ \A k \in 1 .. n : k = n \/ (k \in 1 .. n - 1 /\ k # n)
        /\ \A k \in 1 .. n - 1 : k \in 1 .. n /\ k + 1 \in 1 .. n /\ k # n
        /\ \A k \in 1 .. n : k - 1 \in 0 .. n /\ k - 1 # n /\ k \in 0 .. n
    BY <1>0
  <1>3. Len(list) \in Nat /\ Len(new) \in Nat /\ \A j \in 1 .. Len(list) : j \in 1 .. Len(new)
    BY LenProperties DEF Grows
  <1>4. /\ p[n] = parts[n] \o x /\ q[n] = totals[n] \o x /\ q[0] = <<>>
        /\ \A k \in 1 .. n - 1 : p[k] = parts[k] /\ q[k] = totals[k]
        /\ \A k \in 1 .. n : q[k - 1] = totals[k - 1]
        /\ now[n] = m /\ \A k \in 1 .. n - 1 : now[k] = st[k]
    <2>1. /\ \A k \in 0 .. n : p[k] = IF k = n THEN parts[n] \o x ELSE parts[k]
          /\ \A k \in 1 .. n : now[k] = IF k = n THEN m ELSE st[k]
      BY DEF Longer, Replaces
    <2>2. \A k \in 0 .. n : q[k] = IF k = n THEN totals[n] \o x ELSE totals[k]
      BY DEF Longer
    <2> HIDE DEF Item, Machine
    <2> QED BY <1>1, <1>2, <2>1, <2>2
  <1>5. ASSUME NEW k \in 1 .. n PROVE now[k] \in Machine /\ now[k].file = st[k].file /\ now[k].depth = st[k].depth
    <2>1. CASE k = n
      BY <1>4, <2>1 DEF Kept
    <2>2. CASE k \in 1 .. n - 1
      BY <1>1, <1>2, <1>4, <2>2
    <2> QED BY <1>2, <2>1, <2>2
  <1>6. ASSUME NEW k \in 1 .. n PROVE p[k] \in Seq(Item) /\ q[k] \in Seq(Item) /\ q[k] = q[k - 1] \o p[k]
    <2>1. CASE k = n
      <3> DEFINE a == totals[n - 1]
                 b == parts[n]
                 W == Item
      <3>1. a \in Seq(W)
        <4>1. n - 1 = 0 \/ n - 1 \in 1 .. n
          BY <1>0
        <4>2. <<>> \in Seq(W)
          OBVIOUS
        <4> HIDE DEF W
        <4>3. n - 1 \in 1 .. n => a \in Seq(W)
          BY <1>1 DEF W
        <4> QED BY <1>1, <4>1, <4>2, <4>3
      <3>2. b \in Seq(W) /\ x \in Seq(W) /\ totals[n] = a \o b
        BY <1>1, <1>2
      <3> HIDE DEF a, b, W
      <3>3. (a \o b) \o x = a \o (b \o x) /\ b \o x \in Seq(W) /\ a \o b \in Seq(W) /\ (a \o b) \o x \in Seq(W)
        <4>0. a \in Seq(W) /\ b \in Seq(W) /\ x \in Seq(W)
          BY <3>1, <3>2
        <4>4. (a \o b) \o x = a \o (b \o x)
          BY SMTT(30), <4>0, ConcatAssociative
        <4>5. a \o b \in Seq(W)
          BY <4>0, ConcatProperties
        <4>1. (a \o b) \o x = a \o (b \o x) /\ a \o b \in Seq(W)
          BY <4>4, <4>5
        <4>2. b \o x \in Seq(W)
          BY <3>2, ConcatProperties
        <4>3. (a \o b) \o x \in Seq(W)
          BY <3>2, <4>1, ConcatProperties
        <4> QED BY <4>1, <4>2, <4>3
      <3> QED BY <1>4, <2>1, <3>2, <3>3 DEF a, b, W
    <2>2. CASE k \in 1 .. n - 1
      <3>1. p[k] = parts[k] /\ q[k] = totals[k] /\ q[k - 1] = totals[k - 1]
        BY <1>4, <2>2
      <3> HIDE DEF Item
      <3> QED BY <1>1, <3>1
    <2> QED BY <1>2, <2>1, <2>2
  <1>7. ASSUME NEW k \in 1 .. n - 1 PROVE WaitsFor(onDisk, new, now[k], now[k + 1], p[k])
    <2>1. k \in 1 .. n /\ k + 1 \in 1 .. n /\ p[k] = parts[k] /\ now[k] = st[k]
      BY <1>2, <1>4
    <2>2. now[k + 1].file = st[k + 1].file /\ now[k + 1].depth = st[k + 1].depth
      BY <1>5, <2>1
    <2>3. st[k].file \in 1 .. Len(list) /\ st[k + 1].file \in 1 .. Len(list) /\ WaitsFor(onDisk, list, st[k], st[k + 1], parts[k])
      BY <1>1, <2>1
    <2>4. WaitsFor(onDisk, new, st[k], now[k + 1], parts[k])
      <3> DEFINE a == st[k]
                 b == st[k + 1]
                 c == now[k + 1]
                 e == parts[k]
      <3>1. /\ a.file \in 1 .. Len(list) /\ b.file \in 1 .. Len(list) /\ c.file = b.file /\ c.depth = b.depth
            /\ WaitsFor(onDisk, list, a, b, e)
        BY <2>2, <2>3
      <3> HIDE DEF a, b, c, e
      <3>2. WaitsFor(onDisk, new, a, c, e)
        BY <3>1, WaitsOn
      <3> QED BY <3>2 DEF a, c, e
    <2> QED BY <2>1, <2>4
  <1>8. \A k \in 1 .. n : now[k] \in Machine /\ now[k].file \in 1 .. Len(new) /\ now[k].depth \in 0 .. MaxIncludeDepth
    BY <1>1, <1>3, <1>5
  <1>9. now[1].file = 1 /\ now[1].depth = 0
    BY <1>1, <1>2, <1>5
  <1>10. Levels(onDisk, new, now, p, q, n)
    BY <1>4, <1>6, <1>7, <1>8, <1>9 DEF Levels
  <1> QED BY <1>4, <1>10

\* A level is put on top.
LEMMA LevelAdded ==
  ASSUME NEW onDisk, NEW list, NEW n, IsHeight(n), NEW o, IsAbove(o, n),
         NEW st, NEW parts, NEW totals, Levels(onDisk, list, st, parts, totals, n),
         NEW inner \in Machine, inner.file \in 1 .. Len(list), inner.depth \in 0 .. MaxIncludeDepth, st[o] = inner,
         WaitsFor(onDisk, list, st[n], inner, parts[n]),
         NEW p, Replaces(p, parts, o, <<>>), NEW q, Replaces(q, totals, o, totals[n]), q[0] = totals[0]
  PROVE  Levels(onDisk, list, st, p, q, o)
  <1>0. n \in Nat \ {0} /\ o = n + 1
    BY DEF IsHeight, IsAbove
  <1>1. /\ \A k \in 1 .. n : st[k] \in Machine /\ st[k].file \in 1 .. Len(list) /\ st[k].depth \in 0 .. MaxIncludeDepth
        /\ st[1].file = 1 /\ st[1].depth = 0
        /\ totals[0] = <<>>
        /\ \A k \in 1 .. n : parts[k] \in Seq(Item) /\ totals[k] \in Seq(Item) /\ totals[k] = totals[k - 1] \o parts[k]
        /\ \A k \in 1 .. n - 1 : WaitsFor(onDisk, list, st[k], st[k + 1], parts[k])
    BY DEF Levels
  <1>2. /\ n \in 1 .. n /\ o \in 1 .. o /\ n # o /\ o - 1 = n
        /\ \A k \in 1 .. o : k = o \/ (k \in 1 .. n /\ k # o)
        /\ \A k \in 1 .. n : k \in 1 .. o /\ k # o /\ (k - 1 = 0 \/ (k - 1 \in 1 .. o /\ k - 1 # o))
        /\ \A k \in 1 .. o - 1 : k \in 1 .. n /\ ((k = n /\ k + 1 = o) \/ k \in 1 .. n - 1)
    BY <1>0
  <1>3. /\ p[o] = <<>> /\ q[o] = totals[n] /\ q[0] = <<>> /\ q[n] = totals[n]
        /\ \A k \in 1 .. n : p[k] = parts[k] /\ q[k] = totals[k] /\ q[k - 1] = totals[k - 1]
    <2>1. \A k \in 1 .. o : p[k] = (IF k = o THEN <<>> ELSE parts[k]) /\ q[k] = (IF k = o THEN totals[n] ELSE totals[k])
      BY DEF Replaces
    <2> HIDE DEF Item, Machine
    <2>2. \A k \in 1 .. n : q[k - 1] = totals[k - 1]
      <3> TAKE k \in 1 .. n
      <3>1. k - 1 = 0 \/ (k - 1 \in 1 .. o /\ k - 1 # o)
        BY <1>2
      <3> QED BY <2>1, <3>1
    <2> QED BY <1>1, <1>2, <2>1, <2>2
  <1>4. ASSUME NEW k \in 1 .. o PROVE p[k] \in Seq(Item) /\ q[k] \in Seq(Item) /\ q[k] = q[k - 1] \o p[k]
    <2>1. CASE k = o
      <3> DEFINE W == Item
                 a == totals[n]
      <3>1. a \in Seq(W)
        BY <1>1, <1>2
      <3>2. <<>> \in Seq(W)
        OBVIOUS
      <3> HIDE DEF W, a
      <3>3. a \o <<>> = a
        BY <3>1, ConcatEmptySeq
      <3> QED BY <1>2, <1>3, <2>1, <3>1, <3>2, <3>3 DEF W, a
    <2>2. CASE k \in 1 .. n
      <3>1. p[k] = parts[k] /\ q[k] = totals[k] /\ q[k - 1] = totals[k - 1]
        BY <1>3, <2>2
      <3> HIDE DEF Item
      <3> QED BY <1>1, <2>2, <3>1
    <2> QED BY <1>2, <2>1, <2>2
  <1>5. ASSUME NEW k \in 1 .. o - 1 PROVE WaitsFor(onDisk, list, st[k], st[k + 1], p[k])
    <2>1. k \in 1 .. n /\ ((k = n /\ k + 1 = o) \/ k \in 1 .. n - 1)
      BY <1>2
    <2>2. p[k] = parts[k]
      BY <1>3, <2>1
    <2> HIDE DEF Item, Machine
    <2>3. CASE k = n /\ k + 1 = o
      BY <2>2, <2>3
    <2>4. CASE k \in 1 .. n - 1
      BY <1>1, <2>2, <2>4
    <2> QED BY <2>1, <2>3, <2>4
  <1>6. \A k \in 1 .. o : st[k] \in Machine /\ st[k].file \in 1 .. Len(list) /\ st[k].depth \in 0 .. MaxIncludeDepth
    BY <1>1, <1>2
  <1> HIDE DEF Item, Machine
  <1> QED BY <1>1, <1>3, <1>4, <1>5, <1>6 DEF Levels

-----------------------------------------------------------------------------
(* How the stack changes.                                                   *)
\* The file of a state machine on the stack.
LEMMA LevelTyped ==
  ASSUME NEW onDisk \in Disks, NEW list \in Seq(Entry), NEW m, m.file \in 1 .. Len(list), m.depth \in 0 .. MaxIncludeDepth
  PROVE  /\ list[m.file].path \in Paths /\ list[m.file].text \in FileTexts
         /\ HeadersAt(onDisk, m.depth) \in Headers
         /\ MaxIncludeDepth \in Nat /\ MaxIncludeDepth - m.depth \in 0 .. MaxIncludeDepth
  <1>1. list[m.file] \in Entry
    <2> HIDE DEF Entry
    <2> QED BY ElementOfSeq
  <1>2. MaxIncludeDepth \in Nat
    BY FileAssumption
  <1>3. MaxIncludeDepth - m.depth \in 0 .. MaxIncludeDepth
    BY <1>2
  <1>4. HeadersAt(onDisk, m.depth) \in Headers
    <2> DEFINE d == MaxIncludeDepth - m.depth
    <2>1. d \in 0 .. MaxIncludeDepth
      BY <1>3
    <2> HIDE DEF d
    <2>2. Included(onDisk)[d] \in Headers
      BY <2>1, IncludedTyped
    <2> QED BY <2>2 DEF d, HeadersAt
  <1>5. list[m.file].path \in Paths /\ list[m.file].text \in FileTexts
    BY <1>1 DEF Entry
  <1> QED BY <1>2, <1>3, <1>4, <1>5

Moves(st, n, m, now) == n = Len(st) /\ now = [st EXCEPT ![n] = m]
Enters(st, n, m, inner, now) == n = Len(st) /\ now = Append([st EXCEPT ![n] = m], inner)
Leaves(st, n, outer, t, m, now) ==
    /\ n = Len(st) /\ n > 1 /\ st[n].ended
    /\ outer = st[n - 1] /\ t = outer.redirected[1] /\ m = AfterDirective([outer EXCEPT !.redirected = <<>>])
    /\ now = Append(SubSeq(st, 1, n - 2), AcceptOnText(m, t))

\* A stack whose machines have read so much, altogether.
HasRead(onDisk, list, st, total) == \E p, q : Stacked(onDisk, list, st, p, q) /\ q[Len(st)] = total

\* The top machine goes on, with items.
LEMMA TopMoves ==
  ASSUME NEW onDisk, NEW list \in Seq(Entry), NEW st, NEW parts, NEW totals, Stacked(onDisk, list, st, parts, totals),
         NEW n, NEW m \in Machine, Kept(st[n], m), m.redirected = <<>>, NEW x \in Seq(Item),
         ReadsIn(onDisk, list, m, parts[n] \o x), NEW now, Moves(st, n, m, now)
  PROVE  HasRead(onDisk, list, now, totals[n] \o x)
  <1> DEFINE p == [k \in 0 .. n |-> IF k = n THEN parts[n] \o x ELSE parts[k]]
             q == [k \in 0 .. n |-> IF k = n THEN totals[n] \o x ELSE totals[k]]
  <1>1. st \in Seq(Machine) /\ n \in Nat \ {0} /\ Levels(onDisk, list, st, parts, totals, n)
    <2>1. st \in Seq(Machine) /\ n > 0 /\ Levels(onDisk, list, st, parts, totals, n)
      BY DEF Stacked, Moves
    <2>2. n \in Nat
      BY <2>1, LenProperties DEF Moves
    <2> QED BY <2>1, <2>2
  <1>2. /\ now \in Seq(Machine) /\ Len(now) = n /\ now[n] = m
        /\ \A k \in 1 .. n - 1 : now[k] = st[k]
    <2> HIDE DEF Machine
    <2>1. n \in 1 .. n /\ \A k \in 1 .. n - 1 : k \in 1 .. n /\ k # n
      BY <1>1
    <2>2. now \in Seq(Machine) /\ Len(now) = n /\ DOMAIN st = 1 .. n
      BY <1>1, <2>1, ExceptSeq, LenProperties DEF Moves
    <2> QED BY <2>1, <2>2 DEF Moves
  <1>3. Grows(list, list)
    BY LenProperties DEF Grows
  <1>6. Longer(p, parts, n, x) /\ Longer(q, totals, n, x) /\ Replaces(now, st, n, m) /\ IsHeight(n)
    <2>1. \A k \in 1 .. n : k = n \/ k \in 1 .. n - 1
      BY <1>1
    <2> HIDE DEF Machine
    <2> QED BY <1>1, <1>2, <2>1 DEF Longer, Replaces, IsHeight
  <1> HIDE DEF p, q
  <1>4. Levels(onDisk, list, now, p, q, n) /\ p[n] = parts[n] \o x /\ q[n] = totals[n] \o x
    <2>1. Levels(onDisk, list, now, p, q, n)
      BY <1>1, <1>3, <1>6, LevelMoves
    <2>2. n \in 0 .. n
      BY <1>1
    <2> QED BY <1>6, <2>1, <2>2 DEF Longer
  <1>5. Stacked(onDisk, list, now, p, q)
    <2>1. Len(now) > 0 /\ now[Len(now)] = m /\ p[Len(now)] = parts[n] \o x
      BY <1>1, <1>2, <1>4
    <2>2. Levels(onDisk, list, now, p, q, Len(now))
      BY <1>2, <1>4
    <2> QED BY <1>2, <2>1, <2>2 DEF Stacked
  <1> QED BY <1>2, <1>4, <1>5 DEF HasRead

\* A state machine is put on the stack.
LEMMA Entered ==
  ASSUME NEW onDisk, NEW list \in Seq(Entry), NEW new \in Seq(Entry), Grows(list, new),
         NEW st, NEW parts, NEW totals, Stacked(onDisk, list, st, parts, totals), NEW n,
         NEW m \in Machine, Kept(st[n], m), NEW inner \in Machine, inner.file \in 1 .. Len(new),
         inner.depth \in 0 .. MaxIncludeDepth, inner.redirected = <<>>,
         WaitsFor(onDisk, new, m, inner, parts[n]), ReadsIn(onDisk, new, inner, <<>>),
         NEW now, Enters(st, n, m, inner, now)
  PROVE  HasRead(onDisk, new, now, totals[n])
  <1> DEFINE x == <<>>
             p == [k \in 0 .. n |-> IF k = n THEN parts[n] \o x ELSE parts[k]]
             q == [k \in 0 .. n |-> IF k = n THEN totals[n] \o x ELSE totals[k]]
             r == [k \in 1 .. n + 1 |-> IF k = n + 1 THEN <<>> ELSE p[k]]
             s == [k \in 0 .. n + 1 |-> IF k = n + 1 THEN q[n] ELSE q[k]]
  <1>1. st \in Seq(Machine) /\ n \in Nat \ {0} /\ Levels(onDisk, list, st, parts, totals, n)
    <2>1. st \in Seq(Machine) /\ n > 0 /\ Levels(onDisk, list, st, parts, totals, n)
      BY DEF Stacked, Enters
    <2>2. n \in Nat
      BY <2>1, LenProperties DEF Enters
    <2> QED BY <2>1, <2>2
  <1>2. /\ now \in Seq(Machine) /\ Len(now) = n + 1 /\ now[n] = m /\ now[n + 1] = inner
        /\ \A k \in 1 .. n - 1 : now[k] = st[k]
    <2> HIDE DEF Machine
    <2> DEFINE w == [st EXCEPT ![n] = m]
    <2>1. n \in 1 .. n /\ \A k \in 1 .. n - 1 : k \in 1 .. n /\ k # n
      BY <1>1
    <2>2. w \in Seq(Machine) /\ Len(w) = n /\ DOMAIN st = 1 .. n
      BY <1>1, <2>1, ExceptSeq, LenProperties DEF Enters
    <2>3. w[n] = m /\ \A k \in 1 .. n - 1 : w[k] = st[k]
      BY <2>1, <2>2
    <2> HIDE DEF w
    <2>4. now = Append(w, inner)
      BY DEF w, Enters
    <2>5. /\ Append(w, inner) \in Seq(Machine) /\ Len(Append(w, inner)) = n + 1 /\ Append(w, inner)[n + 1] = inner
          /\ \A k \in 1 .. n : Append(w, inner)[k] = w[k]
      BY <2>2, AppendProperties
    <2> QED BY <2>1, <2>3, <2>4, <2>5
  <1>3. x \in Seq(Item) /\ parts[n] \in Seq(Item) /\ totals[n] \in Seq(Item) /\ parts[n] \o x = parts[n] /\ totals[n] \o x = totals[n]
    <2> HIDE DEF Item
    <2>3. n \in 1 .. n
      BY <1>1
    <2>4. \A k \in 1 .. n : parts[k] \in Seq(Item) /\ totals[k] \in Seq(Item)
      BY <1>1 DEF Levels
    <2>1. parts[n] \in Seq(Item) /\ totals[n] \in Seq(Item)
      BY <2>3, <2>4
    <2>2. x \in Seq(Item)
      OBVIOUS
    <2> QED BY <2>1, <2>2, ConcatEmptySeq
  <1> HIDE DEF x
  <1>7. Longer(p, parts, n, x) /\ Longer(q, totals, n, x) /\ Replaces(now, st, n, m) /\ IsHeight(n)
    <2>1. \A k \in 1 .. n : k = n \/ k \in 1 .. n - 1
      BY <1>1
    <2> HIDE DEF Machine
    <2> QED BY <1>1, <1>2, <2>1 DEF Longer, Replaces, IsHeight
  <1> HIDE DEF p, q
  <1> DEFINE o == n + 1
  <1>8. Replaces(r, p, o, <<>>) /\ Replaces(s, q, o, q[n]) /\ IsAbove(o, n) /\ s[0] = q[0]
    BY <1>1 DEF Replaces, IsAbove
  <1> HIDE DEF r, s
  <1>4. Levels(onDisk, new, now, p, q, n) /\ p[n] = parts[n] \o x /\ q[n] = totals[n] \o x
    <2>1. Levels(onDisk, new, now, p, q, n)
      BY <1>1, <1>3, <1>7, LevelMoves
    <2>2. n \in 0 .. n
      BY <1>1
    <2> QED BY <1>7, <2>1, <2>2 DEF Longer
  <1>5. Levels(onDisk, new, now, r, s, o) /\ r[o] = <<>> /\ s[o] = q[n] /\ o = n + 1
    <2>1. WaitsFor(onDisk, new, now[n], inner, p[n])
      BY <1>2, <1>3, <1>4
    <2>2. now[o] = inner /\ o = n + 1 /\ o \in 1 .. o
      BY <1>1, <1>2
    <2> HIDE DEF o
    <2>3. Levels(onDisk, new, now, r, s, o)
      BY <1>4, <1>7, <1>8, <2>1, <2>2, LevelAdded
    <2> QED BY <1>8, <2>2, <2>3 DEF Replaces
  <1>6. Stacked(onDisk, new, now, r, s)
    <2>1. Len(now) > 0 /\ now[Len(now)] = inner /\ r[Len(now)] = <<>>
      BY <1>1, <1>2, <1>5
    <2>2. Levels(onDisk, new, now, r, s, Len(now))
      BY <1>2, <1>5
    <2> QED BY <1>2, <2>1, <2>2 DEF Stacked
  <1> QED BY <1>2, <1>3, <1>4, <1>5, <1>6 DEF HasRead

\* The text of a header is what the header stands for.
LEMMA HeaderRead ==
  ASSUME NEW onDisk \in Disks, NEW m, m.depth \in 0 .. MaxIncludeDepth, NEW inner, inner.depth = m.depth + 1,
         inner.depth \in 0 .. MaxIncludeDepth, NEW name \in DOMAIN Canonical, Resolved(onDisk, name) # NoPath
  PROVE  HeadersAt(onDisk, m.depth)[name]
             = Items(Resolved(onDisk, name), onDisk[Resolved(onDisk, name)], HeadersAt(onDisk, inner.depth))
  <1> DEFINE d == MaxIncludeDepth - m.depth
             e == MaxIncludeDepth - inner.depth
  <1>1. d \in 1 .. MaxIncludeDepth /\ e = d - 1
    BY FileAssumption
  <1> HIDE DEF d, e
  <1>2. Included(onDisk)[d][name]
            = IF Resolved(onDisk, name) = NoPath THEN <<>>
              ELSE Items(Resolved(onDisk, name), onDisk[Resolved(onDisk, name)], Included(onDisk)[d - 1])
    BY <1>1, IncludedTyped
  <1> QED BY <1>1, <1>2 DEF d, e, HeadersAt

\* The stack after a file is left.
LEMMA StackLeft ==
  ASSUME NEW st \in Seq(Machine), NEW n, NEW outer, NEW t, NEW m, NEW now, Leaves(st, n, outer, t, m, now),
         AcceptOnText(m, t) \in Machine
  PROVE  /\ now \in Seq(Machine) /\ Len(now) = n - 1 /\ now[n - 1] = AcceptOnText(m, t)
         /\ \A k \in 1 .. n - 2 : now[k] = st[k]
  <1> DEFINE u == SubSeq(st, 1, n - 2)
             a == AcceptOnText(m, t)
             b == n - 2
  <1>1. n \in Nat /\ n = Len(st) /\ b \in Nat /\ b \in Int /\ 1 \in Int /\ b - 1 + 1 = b /\ b + 1 = n - 1 /\ now = Append(u, a)
    <2>1. n = Len(st) /\ n > 1 /\ now = Append(u, a)
      BY DEF Leaves
    <2> HIDE DEF u, a, Machine
    <2>2. n \in Nat
      BY <2>1, LenProperties
    <2> QED BY <2>1, <2>2
  <1> HIDE DEF Machine, a
  <1>2. u \in Seq(Machine) /\ Len(u) = b /\ \A k \in 1 .. b : u[k] = st[k]
    <2>1. \A k \in 1 .. b : st[k] \in Machine
      <3>1. \A k \in 1 .. b : k \in 1 .. Len(st)
        BY <1>1
      <3> QED BY <3>1, ElementOfSeq
    <2> HIDE DEF b
    <2>2. /\ SubSeq(st, 1, b) \in Seq(Machine) /\ Len(SubSeq(st, 1, b)) = IF 1 <= b THEN b - 1 + 1 ELSE 0
          /\ \A k \in 1 .. b - 1 + 1 : SubSeq(st, 1, b)[k] = st[1 + k - 1]
      BY <1>1, <2>1, SubSeqProperties
    <2>3. u = SubSeq(st, 1, b)
      BY DEF b
    <2>4. \A k \in 1 .. b : 1 + k - 1 = k
      BY <1>1
    <2> HIDE DEF u
    <2> QED BY <1>1, <2>2, <2>3, <2>4
  <1> HIDE DEF u, b
  <1>3. /\ Append(u, a) \in Seq(Machine) /\ Len(Append(u, a)) = Len(u) + 1 /\ Append(u, a)[Len(u) + 1] = a
        /\ \A k \in 1 .. Len(u) : Append(u, a)[k] = u[k]
    <2>1. a \in Machine
      BY DEF a
    <2> QED BY <1>2, <2>1, AppendProperties
  <1>4. now \in Seq(Machine) /\ Len(now) = n - 1 /\ now[n - 1] = a /\ \A k \in 1 .. b : now[k] = st[k]
    BY <1>1, <1>2, <1>3
  <1> QED BY <1>4 DEF a, b

\* The top machine is taken from the stack; the one below handles its token.
LEMMA Left ==
  ASSUME NEW onDisk \in Disks, NEW list \in Seq(Entry), NEW st, NEW parts, NEW totals, Stacked(onDisk, list, st, parts, totals),
         NEW n, NEW outer, NEW t, NEW m, NEW now, Leaves(st, n, outer, t, m, now)
  PROVE  /\ t \in Token /\ t.file = outer.file /\ t.file \in 1 .. Len(list) /\ list[t.file].path \in Paths
         /\ totals[n] \in Seq(Item) /\ Shown(m, t, list[t.file].path) \in Seq(Item)
         /\ HasRead(onDisk, list, now, totals[n] \o Shown(m, t, list[t.file].path))
  <1> DEFINE b == n - 1
             a == AcceptOnText(m, t)
             path == list[outer.file].path
             T == list[outer.file].text
             H == HeadersAt(onDisk, outer.depth)
             x == parts[n] \o Shown(m, t, path)
             p == [k \in 0 .. b |-> IF k = b THEN parts[b] \o x ELSE parts[k]]
             q == [k \in 0 .. b |-> IF k = b THEN totals[b] \o x ELSE totals[k]]
  <1>1. /\ st \in Seq(Machine) /\ n \in Nat /\ b \in Nat \ {0} /\ b \in 1 .. n /\ n \in 1 .. n /\ b + 1 = n /\ n - 2 = b - 1
        /\ Levels(onDisk, list, st, parts, totals, n) /\ ReadsIn(onDisk, list, st[n], parts[n])
    <2>1. st \in Seq(Machine) /\ Levels(onDisk, list, st, parts, totals, n) /\ ReadsIn(onDisk, list, st[n], parts[n]) /\ n = Len(st) /\ n > 1
      BY DEF Stacked, Leaves
    <2>2. n \in Nat
      BY <2>1, LenProperties
    <2> HIDE DEF Machine
    <2> QED BY <2>1, <2>2
  <1>2. /\ \A k \in 1 .. n : st[k] \in Machine /\ st[k].file \in 1 .. Len(list) /\ st[k].depth \in 0 .. MaxIncludeDepth
        /\ st[1].file = 1 /\ st[1].depth = 0
        /\ totals[0] = <<>>
        /\ \A k \in 1 .. n : parts[k] \in Seq(Item) /\ totals[k] \in Seq(Item) /\ totals[k] = totals[k - 1] \o parts[k]
        /\ \A k \in 1 .. n - 1 : WaitsFor(onDisk, list, st[k], st[k + 1], parts[k])
    BY <1>1 DEF Levels
  <1>3. outer = st[b] /\ outer \in Machine /\ outer.file \in 1 .. Len(list) /\ outer.depth \in 0 .. MaxIncludeDepth
        /\ WaitsFor(onDisk, list, outer, st[n], parts[b])
    <2>1. b \in 1 .. n - 1
      BY <1>1
    <2>2. outer = st[n - 1]
      BY DEF Leaves
    <2> HIDE DEF Machine
    <2> QED BY <1>1, <1>2, <2>1, <2>2
  <1>4. path \in Paths /\ T \in FileTexts /\ H \in Headers
    BY <1>3, LevelTyped
  <1>5. t \in Token /\ t.file = outer.file /\ outer.redirected = <<t>>
    BY <1>3 DEF WaitsFor, Leaves
  <1>6. m \in Machine /\ Kept(outer, m) /\ m.redirected = <<>> /\ ~m.ended
    <2> DEFINE o == [outer EXCEPT !.redirected = <<>>]
               state == IF InActive(o) THEN "Default" ELSE "Inactive"
    <2>1. <<>> \in Seq(Token) /\ ~outer.ended
      BY <1>3 DEF WaitsFor
    <2>2. m = [o EXCEPT !.state = state]
      BY DEF AfterDirective, Leaves
    <2>3. state \in {"Default", "Inactive"}
      OBVIOUS
    <2> HIDE DEF state, Token
    <2>4. o \in Machine /\ Kept(outer, o) /\ o.redirected = <<>> /\ ~o.ended
      BY <1>3, <2>1 DEF Machine, Kept
    <2> HIDE DEF o
    <2>5. m \in Machine
      BY <2>2, <2>3, <2>4 DEF Machine
    <2> QED BY <2>2, <2>4, <2>5 DEF Kept, Machine
  <1>7. Arrives(m, t, path, T, H, parts[b] \o parts[n])
    <2>1. PICK name \in DOMAIN Canonical :
            /\ Resolved(onDisk, name) # NoPath
            /\ list[st[n].file].path = Resolved(onDisk, name)
            /\ list[st[n].file].text = onDisk[Resolved(onDisk, name)]
            /\ Arrives(m, t, path, T, H, parts[b] \o H[name])
      <3>1. m = AfterDirective([outer EXCEPT !.redirected = <<>>]) /\ t = outer.redirected[1]
        BY DEF Leaves
      <3> QED BY <1>3, <3>1 DEF WaitsFor
    <2>2. parts[n] = Items(list[st[n].file].path, list[st[n].file].text, HeadersAt(onDisk, st[n].depth))
      <3>1. st[n].ended
        BY DEF Leaves
      <3> QED BY <1>1, <3>1 DEF ReadsIn, Reads
    <2>3. st[n].depth = outer.depth + 1 /\ st[n].depth \in 0 .. MaxIncludeDepth
      BY <1>1, <1>2, <1>3 DEF WaitsFor
    <2>4. H[name] = Items(Resolved(onDisk, name), onDisk[Resolved(onDisk, name)], HeadersAt(onDisk, st[n].depth))
      <3> DEFINE inner == st[n]
      <3>1. inner.depth = outer.depth + 1 /\ inner.depth \in 0 .. MaxIncludeDepth
        BY <2>3
      <3> HIDE DEF inner
      <3>2. HeadersAt(onDisk, outer.depth)[name] = Items(Resolved(onDisk, name), onDisk[Resolved(onDisk, name)], HeadersAt(onDisk, inner.depth))
        BY <1>3, <2>1, <3>1, HeaderRead
      <3> QED BY <3>2 DEF inner
    <2> QED BY <2>1, <2>2, <2>4
  <1>8. parts[b] \in Seq(Item) /\ parts[n] \in Seq(Item) /\ totals[n] \in Seq(Item) /\ totals[b] \in Seq(Item) /\ totals[n] = totals[b] \o parts[n]
    BY <1>1, <1>2
  <1>9. /\ parts[b] \o parts[n] \in Seq(Item) /\ Shown(m, t, path) \in Seq(Item) /\ x \in Seq(Item)
        /\ (parts[b] \o parts[n]) \o Shown(m, t, path) = parts[b] \o x
        /\ totals[n] \o Shown(m, t, path) = totals[b] \o x
    <2> DEFINE g == Shown(m, t, path)
               W == Item
               u == parts[b]
               v == parts[n]
               w == totals[b]
    <2>1. g \in Seq(W)
      BY <1>4, <1>5, <1>8, ShownTyped
    <2>2. u \in Seq(W) /\ v \in Seq(W) /\ w \in Seq(W) /\ totals[n] = w \o v
      BY <1>8
    <2> HIDE DEF g, W, u, v, w
    <2>3. u \o v \in Seq(W) /\ v \o g \in Seq(W)
      BY <2>1, <2>2, ConcatProperties
    <2>4. (u \o v) \o g = u \o (v \o g)
      BY SMTT(30), <2>1, <2>2, ConcatAssociates
    <2>5. (w \o v) \o g = w \o (v \o g)
      BY SMTT(30), <2>1, <2>2, ConcatAssociates
    <2> QED BY <2>1, <2>2, <2>3, <2>4, <2>5 DEF g, W, u, v, w
  <1>10. ReadsIn(onDisk, list, a, parts[b] \o x) /\ a \in Machine /\ Kept(outer, a) /\ a.redirected = <<>>
    <2>1. a \in Machine /\ Kept(m, a) /\ a.redirected = <<>>
      BY <1>5, <1>6, AcceptedText
    <2>2. Kept(outer, a)
      BY <1>6, <2>1 DEF Kept
    <2>3. Reads(a, path, T, H, (parts[b] \o parts[n]) \o Shown(m, t, path))
      <3> HIDE DEF path, T, H, b
      <3> QED BY <1>4, <1>5, <1>6, <1>7, <1>9, Dispatched
    <2>4. a.file = outer.file /\ a.depth = outer.depth
      BY <2>2 DEF Kept
    <2> QED BY <1>9, <2>1, <2>2, <2>3, <2>4 DEF ReadsIn
  <1>11. now \in Seq(Machine) /\ Len(now) = b /\ now[b] = a /\ \A k \in 1 .. b - 1 : now[k] = st[k]
    <2> HIDE DEF a, Machine
    <2>1. now \in Seq(Machine) /\ Len(now) = n - 1 /\ now[n - 1] = a /\ \A k \in 1 .. n - 2 : now[k] = st[k]
      BY <1>1, <1>10, StackLeft DEF a
    <2> QED BY <1>1, <2>1
  <1>12. Levels(onDisk, list, st, parts, totals, b)
    <2>1. \A k \in 1 .. b : k \in 1 .. n
      BY <1>1
    <2>2. \A k \in 1 .. b - 1 : k \in 1 .. n - 1
      BY <1>1
    <2> HIDE DEF Machine, Item, b
    <2> QED BY <1>2, <2>1, <2>2 DEF Levels
  <1>13. Grows(list, list)
    BY LenProperties DEF Grows
  <1> HIDE DEF x, a, b
  <1>16. Longer(p, parts, b, x) /\ Longer(q, totals, b, x) /\ Replaces(now, st, b, a) /\ IsHeight(b)
    <2>1. \A k \in 1 .. b : k = b \/ k \in 1 .. b - 1
      BY <1>1
    <2> HIDE DEF Machine
    <2> QED BY <1>1, <1>11, <2>1 DEF Longer, Replaces, IsHeight
  <1> HIDE DEF p, q
  <1>14. Levels(onDisk, list, now, p, q, b) /\ p[b] = parts[b] \o x /\ q[b] = totals[b] \o x
    <2>1. Kept(st[b], a)
      BY <1>3, <1>10
    <2>2. Levels(onDisk, list, now, p, q, b)
      BY <1>9, <1>10, <1>12, <1>13, <1>16, <2>1, LevelMoves
    <2>3. b \in 0 .. b
      BY <1>1
    <2> QED BY <1>16, <2>2, <2>3 DEF Longer
  <1>15. Stacked(onDisk, list, now, p, q)
    <2>1. Len(now) > 0 /\ now[Len(now)] = a /\ p[Len(now)] = parts[b] \o x
      BY <1>1, <1>11, <1>14
    <2>2. Levels(onDisk, list, now, p, q, Len(now))
      BY <1>11, <1>14
    <2> QED BY <1>10, <1>11, <2>1, <2>2 DEF Stacked
  <1>17. path = list[t.file].path /\ q[Len(now)] = totals[n] \o Shown(m, t, path)
    BY <1>5, <1>9, <1>11, <1>14
  <1> HIDE DEF path
  <1>18. HasRead(onDisk, list, now, totals[n] \o Shown(m, t, path))
    BY <1>15, <1>17 DEF HasRead
  <1> QED BY <1>3, <1>4, <1>5, <1>8, <1>9, <1>17, <1>18

-----------------------------------------------------------------------------
(* What a step says and reads.                                              *)

MadeOf(file, depth, expansion, a, b) == file \in Nat /\ depth \in Nat /\ expansion \in Seq(Nat) /\ a \in Nat /\ b \in Nat

\* The state machine of a file that is entered.
LEMMA MachineMade ==
  ASSUME NEW file, NEW depth, NEW expansion, NEW a, NEW b, MadeOf(file, depth, expansion, a, b),
         NEW m, m = NewMachine(file, depth, expansion, a, b)
  PROVE  /\ m \in Machine /\ m.file = file /\ m.depth = depth /\ m.redirected = <<>>
         /\ m.beginToken = a /\ m.beginComment = b /\ m.pending = <<>> /\ ~m.ended
  <1>1. /\ m.file = file /\ m.depth = depth /\ m.redirected = <<>> /\ m.beginToken = a /\ m.beginComment = b /\ m.pending = <<>>
        /\ m.ended = FALSE /\ m.line = 0 /\ m.column = 0 /\ m.state = "Default" /\ m.conditionals = <<>> /\ m.skipped = 0
    BY DEF NewMachine
  <1>2. m \in Machine
    <2>1. <<>> \in Seq(Token) /\ <<>> \in Seq(BOOLEAN)
      OBVIOUS
    <2> HIDE DEF Token
    <2> QED BY <2>1 DEF Machine, NewMachine, MadeOf
  <1> QED BY <1>1, <1>2

\* A state machine begins to read a file.
LEMMA StartReads ==
  ASSUME NEW path \in Paths, NEW T \in FileTexts, NEW headers \in Headers, NEW file, NEW depth,
         NEW expansion, NEW a, NEW b, MadeOf(file, depth, expansion, a, b), NEW m, m = NewMachine(file, depth, expansion, a, b)
  PROVE  Reads(m, path, T, headers, <<>>)
  <1>1. m.ended = FALSE /\ m.line = 0 /\ m.column = 0 /\ m.state = "Default" /\ m.conditionals = <<>> /\ m.skipped = 0
    BY DEF NewMachine
  <1>3. Len(T) \in Nat /\ 1 \in 1 .. Len(T) /\ T[1] \in Seq(Word) /\ Len(T[1]) \in Nat
    <2>1. Len(T) \in Nat /\ 1 \in 1 .. Len(T)
      BY TextTyped
    <2> QED BY <2>1, TextTyped
  <1>4. IsWithin(m, T) /\ m.line + 1 = 1 /\ Active(m.conditionals)
    BY <1>1, <1>3 DEF IsWithin, Active
  <1>5. Nested(m.conditionals, m.skipped, T, 1)
    BY <1>1, NothingNested
  <1>6. ~IsSwallowed(T, 1)
    <2>1. 1 .. 1 - 1 = {}
      OBVIOUS
    <2> QED BY <2>1 DEF IsSwallowed
  <1>7. ItemsTo(path, T, headers)[0] = <<>> /\ TokenItems(path, T[1], 1, 0) = <<>> /\ <<>> \o <<>> = <<>>
    <2>1. ItemsTo(path, T, headers)[0] = <<>>
      BY <1>3, ItemsPass
    <2> DEFINE line == T[1]
    <2>2. line \in Seq(Word)
      BY <1>3
    <2> HIDE DEF line, Word
    <2>3. TokenItems(path, line, 1, 0) = <<>>
      BY <2>2, TokenItemsStep
    <2>4. <<>> \o <<>> = <<>>
      OBVIOUS
    <2> QED BY <2>1, <2>3, <2>4 DEF line
  <1>8. AtText(m, path, T, headers, <<>>)
    BY <1>1, <1>4, <1>5, <1>6, <1>7 DEF AtText
  <1> QED BY <1>1, <1>8 DEF Reads

\* The state after a directive.
LEMMA AfterTyped ==
  ASSUME NEW h \in Machine, NEW m, m = AfterDirective(h)
  PROVE  m \in Machine /\ Kept(h, m) /\ m.redirected = h.redirected /\ m.ended = h.ended /\ m.pending = h.pending
  <1> DEFINE state == IF InActive(h) THEN "Default" ELSE "Inactive"
  <1>1. m = [h EXCEPT !.state = state]
    BY DEF AfterDirective
  <1>2. state \in {"Default", "Inactive"}
    OBVIOUS
  <1> HIDE DEF state, Token
  <1>3. m \in Machine
    BY <1>1, <1>2 DEF Machine
  <1> QED BY <1>1, <1>3 DEF Kept, Machine

\* A token is output if it is shown.
LEMMA SaysShown ==
  ASSUME NEW list, NEW out, NEW c, NEW total, Says(list, out, c, total), NEW t \in Token, t.file \in 1 .. Len(list),
         NEW path, path = list[t.file].path, path \in Paths, NEW m
  PROVE  Says(list, IF IsOutput(m, t) THEN Append(out, OutputToken(t)) ELSE out, c, total \o Shown(m, t, path))
  <1>1. total \in Seq(Item)
    BY DEF Says
  <1>2. CASE IsOutput(m, t)
    <2>1. total \o Shown(m, t, path) = Append(total, Placed(path, t))
      BY <1>1, <1>2, ShownTyped
    <2> QED BY <1>2, <2>1, SaysToken
  <1>3. CASE ~IsOutput(m, t)
    <2>1. Shown(m, t, path) = <<>>
      BY <1>3 DEF Shown
    <2>2. total \o Shown(m, t, path) = total
      BY <1>1, <2>1, ShownTyped
    <2> QED BY <1>3, <2>2
  <1> QED BY <1>2, <1>3

\* A header that is not included stands for nothing.
NotIncluded(T, d, headers) ==
    IsDirective(T, d, "include") /\ NamesHeader(Directive(T, d)) => headers[Directive(T, d)[2]] = <<>>

\* The configuration after a directive is that of its line.
LEMMA DirectiveSays ==
  ASSUME NEW list, NEW out, NEW c, NEW total, Says(list, out, c, total), NEW m \in Machine, NEW h, NEW t,
         NEW path \in Paths, NEW T \in FileTexts, NEW headers \in Headers, NEW items, NEW d,
         Ends(m, h, t, path, T, headers, items, d), NotIncluded(T, d, headers), NEW new, new = HandleConfig(c, m.directive)
  PROVE  Says(list, out, new, total \o LineItems(path, T, d, headers))
  <1> DEFINE D == m.directive
             R == Directive(T, d)
             L == LineItems(path, T, d, headers)
  <1>1. /\ d \in 1 .. Len(T) /\ IsDirectiveLine(T[d]) /\ ~IsSwallowed(T, d) /\ Words(D) = R
        /\ Active(m.conditionals) <=> IsSelected(T, d)
        /\ D # <<>> => IsRead(m, D[1].text)
    BY DEF Ends
  <1>2. D \in Seq(Token) /\ total \in Seq(Item) /\ c \in Config
    BY DEF Machine, Says
  <1>3. /\ Len(D) \in Nat /\ Len(R) = Len(D) /\ R \in Seq(STRING)
        /\ \A k \in 1 .. Len(D) : R[k] = D[k].text
        /\ \A name : name # "none" => (IsDirective(T, d, name) <=> DirectiveName(D) = name)
        /\ D = <<>> <=> Len(D) = 0
    BY <1>1, <1>2, DirectiveWords
  <1>4. /\ new \in Config
        /\ new.version = IF IsVersion(Directed(R)) THEN R[2] ELSE c.version
        /\ new.extensions = c.extensions \cup {x \in KnownExtensions : Enables(Directed(R), x)}
        /\ DirectiveName(D) \notin {"version", "extension"} => new = c
    <2> HIDE DEF D, R
    <2>1. new = HandleConfig(c, D)
      BY DEF D
    <2> QED BY <1>2, <1>3, <2>1, ConfigOn
  <1>5. ASSUME L = <<>>, DirectiveName(D) \notin {"version", "extension"} PROVE Says(list, out, new, total \o L)
    <2> HIDE DEF L, Item
    <2>1. total \o L = total
      BY <1>2, <1>5, ConcatEmptySeq
    <2> QED BY <1>4, <1>5, <2>1
  <1>6. CASE ~IsSelected(T, d)
    <2>1. L = <<>>
      BY <1>6 DEF LineItems
    <2>2. DirectiveName(D) \notin {"version", "extension"}
      <3>1. CASE D = <<>>
        <4>1. ~(Len(D) > 0)
          BY <1>3, <3>1
        <4> QED BY <4>1 DEF DirectiveName, Arg
      <3>2. CASE D # <<>>
        <4>1. D[1].text \in {"if", "endif"}
          BY <1>1, <1>6, <3>2 DEF IsRead, InActive, Active
        <4>2. Len(D) > 0
          BY <1>3, <3>2
        <4> QED BY <4>1, <4>2 DEF DirectiveName, Arg
      <3> QED BY <3>1, <3>2
    <2> QED BY <1>5, <2>1, <2>2
  <1>7. CASE IsSelected(T, d) /\ IsDirective(T, d, "include")
    <2>1. DirectiveName(D) = "include"
      BY <1>3, <1>7
    <2>2. L = <<>>
      BY <1>1, <1>7 DEF LineItems, NotIncluded
    <2> QED BY <1>5, <2>1, <2>2
  <1>8. CASE IsSelected(T, d) /\ ~IsDirective(T, d, "include")
    <2>1. L = <<Directed(R)>>
      BY <1>1, <1>8 DEF LineItems, Directed
    <2>2. total \o <<Directed(R)>> = Append(total, Directed(R))
      <3>1. Directed(R) \in Item
        BY <1>3 DEF Directed, Item
      <3> HIDE DEF Item, R
      <3> QED BY <1>2, <3>1, AppendIsConcat
    <2>3. Says(list, out, new, Append(total, Directed(R)))
      <3> HIDE DEF R
      <3> QED BY <1>3, <1>4, SaysDirective
    <2> QED BY <2>1, <2>2, <2>3
  <1> QED BY <1>6, <1>7, <1>8

Comment == [file : Nat, line : Nat, column : Nat, frontAttachmentLine : Nat, backAttachmentLine : Nat, nextTokenIndex : Nat]

\* The comments that are output.
LEMMA FlushedTyped ==
  ASSUME comments \in Seq(Comment), Len(tokens) \in Nat, NEW m \in Machine, NEW t \in Token,
         NEW new, new = FlushedComments(m, t)
  PROVE  /\ new \in Seq(Comment) /\ Len(new) = Len(comments) + Len(m.pending) /\ Len(comments) \in Nat /\ Len(m.pending) \in Nat
         /\ \A k \in 1 .. Len(comments) : new[k] = comments[k]
         /\ \A k \in 1 .. Len(m.pending) : new[Len(comments) + k].file = m.pending[k].file
         /\ \A k \in 1 .. Len(m.pending) : new[Len(comments) + k] = OutputCommentToken(m, t, m.pending[k])
  <1> DEFINE p == m.pending
             more == [i \in DOMAIN p |-> OutputCommentToken(m, t, p[i])]
             a == m.attachmentLine
  <1>1. p \in Seq(Token) /\ a \in Nat /\ t.line \in Nat
    BY DEF Machine, Token
  <1>2. Len(p) \in Nat /\ DOMAIN p = 1 .. Len(p) /\ \A i \in 1 .. Len(p) : p[i] \in Token
    <2> HIDE DEF p, Token
    <2> QED BY <1>1, LenProperties, ElementOfSeq
  <1>3. ASSUME NEW e \in Token PROVE OutputCommentToken(m, t, e) \in Comment /\ OutputCommentToken(m, t, e).file = e.file
    <2>1. e.file \in Nat /\ e.line \in Nat /\ e.column \in Nat
      BY DEF Token
    <2> QED BY <1>1, <2>1 DEF OutputCommentToken, Comment
  <1>4. more \in Seq(Comment) /\ Len(more) = Len(p) /\ \A i \in 1 .. Len(p) : more[i].file = p[i].file /\ more[i] = OutputCommentToken(m, t, p[i])
    <2> HIDE DEF p, Token, Comment
    <2>1. \A i \in 1 .. Len(p) : more[i] \in Comment /\ more[i].file = p[i].file /\ more[i] = OutputCommentToken(m, t, p[i])
      BY <1>2, <1>3
    <2>2. more = [i \in 1 .. Len(p) |-> more[i]]
      BY <1>2
    <2> HIDE DEF more
    <2> QED BY <1>2, <2>1, <2>2, IsASeq, LenProperties
  <1>5. new = comments \o more
    BY DEF FlushedComments
  <1> HIDE DEF p, more, Comment
  <1>6. /\ comments \o more \in Seq(Comment) /\ Len(comments \o more) = Len(comments) + Len(more)
        /\ \A k \in 1 .. Len(comments) + Len(more) :
               (comments \o more)[k] = IF k <= Len(comments) THEN comments[k] ELSE more[k - Len(comments)]
        /\ Len(comments) \in Nat
    <2>1. more \in Seq(Comment)
      BY <1>4
    <2>2. Len(comments) \in Nat
      BY LenProperties
    <2> QED BY <2>1, <2>2, ConcatProperties
  <1>7. \A k \in 1 .. Len(comments) : new[k] = comments[k]
    <2>1. \A k \in 1 .. Len(comments) : k \in 1 .. Len(comments) + Len(more) /\ k <= Len(comments)
      BY <1>2, <1>4, <1>6
    <2> QED BY <1>5, <1>6, <2>1
  <1>8. \A k \in 1 .. Len(p) : new[Len(comments) + k].file = p[k].file /\ new[Len(comments) + k] = OutputCommentToken(m, t, p[k])
    <2> TAKE k \in 1 .. Len(p)
    <2> DEFINE j == Len(comments) + k
    <2>1. j \in 1 .. Len(comments) + Len(more) /\ ~(j <= Len(comments)) /\ j - Len(comments) = k
      BY <1>2, <1>4, <1>6
    <2> HIDE DEF j
    <2>2. new[j] = more[k]
      BY <1>5, <1>6, <2>1
    <2> QED BY <1>4, <2>2 DEF j
  <1> QED BY <1>2, <1>4, <1>5, <1>6, <1>7, <1>8 DEF p

-----------------------------------------------------------------------------
(* The invariant.                                                           *)
IsRunning(onDisk, list, st, out, c) ==
    \E parts, totals : Stacked(onDisk, list, st, parts, totals) /\ Says(list, out, c, totals[Len(st)])

NothingYet ==
    /\ entries = <<>> /\ lookup = <<>> /\ canonical = <<>> /\ stack = <<>>
    /\ tokens = <<>> /\ comments = <<>> /\ files = <<>>
    /\ config \in Config /\ config.version = "460" /\ config.extensions = {}

Loaded ==
    /\ entries # <<>> /\ SourcesOK(disk, entries, lookup, canonical) /\ entries[MainFile].path = NoPath

SaidAll ==
    /\ Len(tokens) = Len(TokensOf(MeantItems)) + 1
    /\ \A i \in DOMAIN TokensOf(MeantItems) : Position(tokens[i]) = TokensOf(MeantItems)[i]
    /\ ConfigIsMeant

\* What has been output is what each of the state machines on the stack has read,
\* down to what its text stands for; the sources are what has been opened of them.
InclusionInv ==
    /\ disk \in Disks /\ comments \in Seq(Comment)
    /\ entries = <<>> => NothingYet
    /\ entries # <<>> => /\ Loaded
                         /\ stack # <<>> => IsRunning(disk, entries, stack, tokens, config)
                         /\ stack = <<>> => SaidAll

\* The top machine goes on.
LEMMA GoesOn ==
  ASSUME NEW onDisk, NEW list \in Seq(Entry), NEW st, NEW parts, NEW totals, Stacked(onDisk, list, st, parts, totals),
         NEW n, NEW m \in Machine, Kept(st[n], m), m.redirected = <<>>, NEW x \in Seq(Item),
         ReadsIn(onDisk, list, m, parts[n] \o x), NEW now, Moves(st, n, m, now), NEW out, NEW c,
         Says(list, out, c, totals[n] \o x)
  PROVE  IsRunning(onDisk, list, now, out, c)
  <1>1. HasRead(onDisk, list, now, totals[n] \o x)
    BY TopMoves
  <1> QED BY <1>1 DEF HasRead, IsRunning

\* What is known of the top machine.
LEMMA AtTop ==
  ASSUME disk \in Disks, Loaded, NEW parts, NEW totals, Stacked(disk, entries, stack, parts, totals),
         NEW n, n = Len(stack), NEW m, m = Top, ~m.ended, NEW T, T = Text(m), NEW t, t = Lex(m),
         NEW path, path = entries[m.file].path, NEW headers, headers = HeadersAt(disk, m.depth)
  PROVE  /\ entries \in Seq(Entry) /\ n \in Nat \ {0} /\ m = stack[n]
         /\ m \in Machine /\ m.file \in 1 .. Len(entries) /\ m.depth \in 0 .. MaxIncludeDepth
         /\ T \in FileTexts /\ path \in Paths /\ headers \in Headers
         /\ parts[n] \in Seq(Item) /\ totals[n] \in Seq(Item)
         /\ Reads(m, path, T, headers, parts[n]) /\ m.redirected = <<>>
         /\ t \in Token /\ t.file = m.file
  <1>1. entries \in Seq(Entry)
    BY DEF Loaded, SourcesOK
  <1>2. /\ stack \in Seq(Machine) /\ n > 0 /\ Levels(disk, entries, stack, parts, totals, n)
        /\ m = stack[n] /\ m.redirected = <<>> /\ ReadsIn(disk, entries, m, parts[n])
    BY DEF Stacked, Top
  <1>3. n \in Nat \ {0} /\ n \in 1 .. n
    <2>1. n \in Nat
      BY <1>2, LenProperties
    <2> QED BY <1>2, <2>1
  <1>4. m \in Machine /\ m.file \in 1 .. Len(entries) /\ m.depth \in 0 .. MaxIncludeDepth
    <2>1. \A k \in 1 .. n : stack[k] \in Machine /\ stack[k].file \in 1 .. Len(entries) /\ stack[k].depth \in 0 .. MaxIncludeDepth
      BY <1>2 DEF Levels
    <2> HIDE DEF Machine
    <2> QED BY <1>2, <1>3, <2>1
  <1>5. parts[n] \in Seq(Item) /\ totals[n] \in Seq(Item)
    <2>1. \A k \in 1 .. n : parts[k] \in Seq(Item) /\ totals[k] \in Seq(Item)
      BY <1>2 DEF Levels
    <2> HIDE DEF Item
    <2> QED BY <1>3, <2>1
  <1>6. T \in FileTexts /\ path \in Paths /\ headers \in Headers
    BY <1>1, <1>4, LevelTyped DEF Text
  <1>7. Reads(m, path, T, headers, parts[n])
    BY <1>2 DEF ReadsIn, Text
  <1>8. IsWithin(m, T)
    BY <1>7 DEF Reads, AtText, AtInactive, AtDirective
  <1>9. t \in Token /\ t.file = m.file
    <2> DEFINE l == m.line + 1
               k == t.line + 1
    <2>1. NextToken(m, T, t, l, k)
      BY <1>4, <1>6, <1>8, LexFacts
    <2> QED BY <2>1 DEF NextToken
  <1> QED BY <1>1, <1>2, <1>3, <1>4, <1>5, <1>6, <1>7, <1>9

\* Nothing but the top machine, the output and the configuration changes.
LEMMA Continued ==
  ASSUME InclusionInv, entries # <<>>, disk' = disk, entries' = entries, comments' \in Seq(Comment),
         SourcesOK(disk, entries, lookup', canonical'), stack' # <<>>, IsRunning(disk, entries, stack', tokens', config')
  PROVE  InclusionInv'
  BY DEF InclusionInv, Loaded

\* The stack after a step of its top.
LEMMA TopReplaced ==
  ASSUME stack \in Seq(Machine), NEW n, n = Len(stack), n > 0, NEW m \in Machine, stack' = Replaced(m)
  PROVE  stack' # <<>> /\ Moves(stack, n, m, stack')
  <1>1. stack' = [stack EXCEPT ![n] = m]
    BY DEF Replaced
  <1>2. n \in Nat /\ n \in 1 .. n
    BY LenProperties
  <1> HIDE DEF Machine
  <1>3. stack' \in Seq(Machine) /\ Len(stack') = n
    BY <1>1, <1>2, ExceptSeq
  <1>4. stack' # <<>>
    BY <1>3, EmptySeq
  <1> QED BY <1>1, <1>4 DEF Moves

\* A step that shows nothing.
LEMMA QuietStep ==
  ASSUME InclusionInv, entries # <<>>, NEW parts, NEW totals, Stacked(disk, entries, stack, parts, totals),
         NEW n, n = Len(stack), Says(entries, tokens, config, totals[n]),
         NEW g \in Machine, Kept(Top, g), g.redirected = <<>>,
         NEW path, path = entries[Top.file].path, NEW T, T = Text(Top), NEW headers, headers = HeadersAt(disk, Top.depth),
         Reads(g, path, T, headers, parts[n]),
         stack' = Replaced(g), comments' \in Seq(Comment), UNCHANGED <<disk, entries, lookup, canonical, tokens, config>>
  PROVE  InclusionInv'
  <1>1. disk \in Disks /\ Loaded /\ entries \in Seq(Entry)
    BY DEF InclusionInv, Loaded, SourcesOK
  <1>2. stack \in Seq(Machine) /\ n > 0 /\ Top = stack[n] /\ Levels(disk, entries, stack, parts, totals, n)
    BY DEF Stacked, Top
  <1>3. n \in Nat /\ n \in 1 .. n
    BY <1>2, LenProperties
  <1>4. stack' # <<>> /\ Moves(stack, n, g, stack')
    BY <1>2, TopReplaced
  <1> DEFINE x == <<>>
  <1>5. x \in Seq(Item) /\ parts[n] \o x = parts[n] /\ totals[n] \o x = totals[n]
    <2>1. \A k \in 1 .. n : parts[k] \in Seq(Item) /\ totals[k] \in Seq(Item)
      BY <1>2 DEF Levels
    <2> HIDE DEF Item
    <2>2. parts[n] \in Seq(Item) /\ totals[n] \in Seq(Item) /\ x \in Seq(Item)
      BY <1>3, <2>1
    <2> QED BY <2>2, ConcatEmptySeq
  <1>6. ReadsIn(disk, entries, g, parts[n] \o x)
    <2>1. g.file = Top.file /\ g.depth = Top.depth
      BY DEF Kept
    <2> QED BY <1>5, <2>1 DEF ReadsIn, Text
  <1>7. Says(entries, tokens, config, totals[n] \o x)
    BY <1>5
  <1>8. Kept(stack[n], g)
    BY <1>2
  <1> HIDE DEF x
  <1>9. IsRunning(disk, entries, stack', tokens, config)
    BY <1>1, <1>4, <1>5, <1>6, <1>7, <1>8, GoesOn
  <1> QED BY <1>1, <1>4, <1>9, Continued DEF Loaded

\* What has been output.
LEMMA SaysTyped ==
  ASSUME NEW list, NEW out, NEW c, NEW total, Says(list, out, c, total)
  PROVE  Len(out) \in Nat /\ out \in Seq(OutToken) /\ c \in Config /\ total \in Seq(Item)
  <1>1. out \in Seq(OutToken) /\ c \in Config /\ total \in Seq(Item)
    BY DEF Says
  <1> HIDE DEF OutToken
  <1> QED BY <1>1, LenProperties

-----------------------------------------------------------------------------
(* The steps.                                                               *)

\* What is there while a file is read.
LEMMA WhileReading ==
  ASSUME InclusionInv, stack # <<>>
  PROVE  /\ entries # <<>> /\ Loaded /\ disk \in Disks /\ comments \in Seq(Comment) /\ entries \in Seq(Entry)
         /\ SourcesOK(disk, entries, lookup, canonical)
         /\ IsRunning(disk, entries, stack, tokens, config)
  BY DEF InclusionInv, NothingYet, Loaded, SourcesOK

\* StartMainFile keeps the invariant.
LEMMA MainFileStarts ==
  ASSUME InclusionInv, StartMainFile
  PROVE  InclusionInv'
  <1>1. /\ entries = <<>> /\ NothingYet /\ disk \in Disks /\ comments \in Seq(Comment)
        /\ lookup = <<>> /\ canonical = <<>> /\ tokens = <<>> /\ config \in Config /\ config.version = "460" /\ config.extensions = {}
    BY DEF InclusionInv, NothingYet, StartMainFile
  <1>2. PICK text \in MainTexts : entries' = <<[path |-> NoPath, text |-> text]>>
    BY DEF StartMainFile
  <1> DEFINE e == [path |-> NoPath, text |-> text]
             list == <<e>>
             m == NewMachine(MainFile, 0, <<>>, 0, 0)
             now == <<m>>
             headers == HeadersAt(disk, 0)
  <1>3. e \in Entry /\ text \in FileTexts /\ NoPath \in Paths /\ e.path = NoPath /\ e.text = text
    BY FileAssumption DEF Entry, Paths
  <1>4. list \in Seq(Entry) /\ Len(list) = 1 /\ list[1] = e /\ list # <<>>
    <2> HIDE DEF e, Entry
    <2> QED BY <1>3
  <1>5. SourcesOK(disk, list, <<>>, <<>>)
    <2>1. 2 .. Len(list) = {}
      BY <1>4
    <2>2. DOMAIN <<>> = {}
      OBVIOUS
    <2> HIDE DEF list
    <2> QED BY <1>4, <2>1, <2>2 DEF SourcesOK
  <1>6. MaxIncludeDepth \in Nat /\ 0 \in 0 .. MaxIncludeDepth
    BY FileAssumption
  <1>7. headers \in Headers
    <2>1. MaxIncludeDepth - 0 = MaxIncludeDepth /\ MaxIncludeDepth \in 0 .. MaxIncludeDepth
      BY <1>6
    <2> QED BY <1>1, <2>1, IncludedTyped DEF HeadersAt
  <1>8. /\ m \in Machine /\ m.file = 1 /\ m.depth = 0 /\ m.redirected = <<>> /\ ~m.ended
        /\ Reads(m, NoPath, text, headers, <<>>)
    <2> DEFINE file == MainFile
               zero == 0
               nothing == <<>>
    <2>1. MadeOf(file, zero, nothing, zero, zero) /\ m = NewMachine(file, zero, nothing, zero, zero)
      BY DEF MainFile, MadeOf
    <2> HIDE DEF m, headers, file, zero, nothing
    <2>2. /\ m \in Machine /\ m.file = file /\ m.depth = zero /\ m.redirected = <<>> /\ ~m.ended
          /\ Reads(m, NoPath, text, headers, <<>>)
      BY <1>3, <1>7, <2>1, MachineMade, StartReads
    <2> QED BY <2>2 DEF file, zero, MainFile
  <1> DEFINE parts == [k \in 1 .. 1 |-> <<>>]
             totals == [k \in 0 .. 1 |-> <<>>]
  <1>9. Stacked(disk, list, now, parts, totals) /\ totals[Len(now)] = <<>> /\ now # <<>>
    <2>1. now \in Seq(Machine) /\ Len(now) = 1 /\ now[1] = m
      <3> HIDE DEF m, Machine
      <3> QED BY <1>8
    <2>2. parts[1] = <<>> /\ totals[0] = <<>> /\ totals[1] = <<>> /\ <<>> \o <<>> = <<>> /\ <<>> \in Seq(Item)
      OBVIOUS
    <2>3. ReadsIn(disk, list, m, parts[1])
      BY <1>3, <1>4, <1>8, <2>2 DEF ReadsIn
    <2>4. 1 - 1 = 0 /\ 1 .. 0 = {} /\ 1 .. 1 = {1} /\ 1 \in 1 .. 1
      OBVIOUS
    <2> HIDE DEF m, parts, totals, now, list, Machine, Item
    <2>5. Levels(disk, list, now, parts, totals, 1)
      <3>1. \A k \in 1 .. 1 : now[k] \in Machine /\ now[k].file \in 1 .. Len(list) /\ now[k].depth \in 0 .. MaxIncludeDepth
        BY <1>4, <1>6, <1>8, <2>1, <2>4
      <3>2. \A k \in 1 .. 1 : parts[k] \in Seq(Item) /\ totals[k] \in Seq(Item) /\ totals[k] = totals[k - 1] \o parts[k]
        BY <2>2, <2>4
      <3>3. \A k \in 1 .. 1 - 1 : FALSE
        BY <2>4
      <3> QED BY <1>8, <2>1, <2>2, <3>1, <3>2, <3>3 DEF Levels
    <2>6. now # <<>>
      <3>1. Len(<<>>) = 0
        OBVIOUS
      <3>2. Len(now) # 0
        BY <2>1
      <3> QED BY <3>1, <3>2
    <2>7. Len(now) > 0
      BY <2>1
    <2>8. Stacked(disk, list, now, parts, totals)
      BY <1>8, <2>1, <2>2, <2>3, <2>5, <2>7 DEF Stacked
    <2> QED BY <2>1, <2>2, <2>6, <2>8
  <1>10. Says(list, tokens, config, totals[Len(now)])
    <2> HIDE DEF list, now, totals
    <2> QED BY <1>1, <1>9, SaysNothing
  <1>11. /\ entries' = list /\ stack' = now /\ disk' = disk /\ lookup' = <<>> /\ canonical' = <<>>
         /\ tokens' = tokens /\ comments' = comments /\ config' = config
    BY <1>1, <1>2 DEF StartMainFile
  <1>12. list[MainFile].path = NoPath
    BY <1>3, <1>4 DEF MainFile
  <1> HIDE DEF list, now, parts, totals
  <1> QED BY <1>1, <1>4, <1>5, <1>9, <1>10, <1>11, <1>12 DEF InclusionInv, IsRunning, Loaded

\* FeedComment does.
LEMMA CommentFed ==
  ASSUME InclusionInv, Reading, FeedComment
  PROVE  InclusionInv'
  <1> DEFINE m == Top
             t == Lex(m)
             T == Text(m)
             n == Len(stack)
             path == entries[m.file].path
             headers == HeadersAt(disk, m.depth)
             g == Pended(m, t)
  <1>1. /\ stack # <<>> /\ ~m.ended /\ IsComment(t) /\ IsFed(m, t) /\ stack' = Replaced(g)
        /\ UNCHANGED <<disk, entries, lookup, canonical, tokens, comments, config>>
    BY DEF Reading, FeedComment, sources, Pended
  <1>2. /\ entries # <<>> /\ Loaded /\ disk \in Disks /\ comments \in Seq(Comment)
        /\ IsRunning(disk, entries, stack, tokens, config)
    BY <1>1, WhileReading
  <1>3. PICK parts, totals : Stacked(disk, entries, stack, parts, totals) /\ Says(entries, tokens, config, totals[n])
    BY <1>2 DEF IsRunning
  <1> HIDE DEF m, t, T, n, path, headers, g
  <1>4. /\ m \in Machine /\ T \in FileTexts /\ path \in Paths /\ headers \in Headers /\ parts[n] \in Seq(Item)
        /\ Reads(m, path, T, headers, parts[n]) /\ m.redirected = <<>>
    BY <1>1, <1>2, <1>3, AtTop DEF m, t, T, n, path, headers
  <1>5. T = Text(m) /\ t = Lex(m) /\ g = Pended(m, t)
    BY DEF T, t, g
  <1>6. g \in Machine /\ Kept(m, g) /\ g.redirected = <<>> /\ Reads(g, path, T, headers, parts[n])
    BY <1>1, <1>4, <1>5, StepComment
  <1> QED BY <1>1, <1>2, <1>3, <1>6, QuietStep DEF m, T, n, path, headers

\* SkipInactive does.
LEMMA TokenSkipped ==
  ASSUME InclusionInv, Reading, SkipInactive
  PROVE  InclusionInv'
  <1> DEFINE m == Top
             t == Lex(m)
             T == Text(m)
             n == Len(stack)
             path == entries[m.file].path
             headers == HeadersAt(disk, m.depth)
             g == Advance(m)
  <1>1. /\ stack # <<>> /\ ~m.ended /\ ~IsFed(m, t) /\ stack' = Replaced(g)
        /\ UNCHANGED <<disk, entries, lookup, canonical, tokens, comments, config>>
    BY DEF Reading, SkipInactive, sources
  <1>2. /\ entries # <<>> /\ Loaded /\ disk \in Disks /\ comments \in Seq(Comment)
        /\ IsRunning(disk, entries, stack, tokens, config)
    BY <1>1, WhileReading
  <1>3. PICK parts, totals : Stacked(disk, entries, stack, parts, totals) /\ Says(entries, tokens, config, totals[n])
    BY <1>2 DEF IsRunning
  <1> HIDE DEF m, t, T, n, path, headers, g
  <1>4. /\ m \in Machine /\ T \in FileTexts /\ path \in Paths /\ headers \in Headers /\ parts[n] \in Seq(Item)
        /\ Reads(m, path, T, headers, parts[n]) /\ m.redirected = <<>>
    BY <1>1, <1>2, <1>3, AtTop DEF m, t, T, n, path, headers
  <1>5. T = Text(m) /\ t = Lex(m) /\ g = Advance(m)
    BY DEF T, t, g
  <1>6. g \in Machine /\ Kept(m, g) /\ g.redirected = <<>> /\ Reads(g, path, T, headers, parts[n])
    BY <1>1, <1>4, <1>5, StepSkip
  <1> QED BY <1>1, <1>2, <1>3, <1>6, QuietStep DEF m, T, n, path, headers

\* FeedDirectiveToken does.
LEMMA DirectiveTokenFed ==
  ASSUME InclusionInv, Reading, FeedDirectiveToken
  PROVE  InclusionInv'
  <1> DEFINE m == Top
             t == Lex(m)
             T == Text(m)
             n == Len(stack)
             path == entries[m.file].path
             headers == HeadersAt(disk, m.depth)
             f == Flushed(Advance(m), t)
             g == IF f.state = "ExpectDirective" THEN AcceptOnExpectDirective(f, t) ELSE AcceptOnExpectDirectiveTail(f, t)
  <1>1. /\ stack # <<>> /\ ~m.ended /\ ~IsComment(t) /\ InDirective(m) /\ ~EndsDirective(m, t) /\ stack' = Replaced(g)
        /\ comments' = FlushedComments(m, t)
        /\ UNCHANGED <<disk, entries, lookup, canonical, tokens, config>>
    BY DEF Reading, FeedDirectiveToken, sources
  <1>2. /\ entries # <<>> /\ Loaded /\ disk \in Disks /\ comments \in Seq(Comment)
        /\ IsRunning(disk, entries, stack, tokens, config)
    BY <1>1, WhileReading
  <1>3. PICK parts, totals : Stacked(disk, entries, stack, parts, totals) /\ Says(entries, tokens, config, totals[n])
    BY <1>2 DEF IsRunning
  <1> HIDE DEF m, t, T, n, path, headers, f, g
  <1>4. /\ m \in Machine /\ T \in FileTexts /\ path \in Paths /\ headers \in Headers /\ parts[n] \in Seq(Item)
        /\ Reads(m, path, T, headers, parts[n]) /\ m.redirected = <<>> /\ t \in Token
    BY <1>1, <1>2, <1>3, AtTop DEF m, t, T, n, path, headers
  <1>5. /\ T = Text(m) /\ t = Lex(m) /\ f = Flushed(Advance(m), t)
        /\ g = IF f.state = "ExpectDirective" THEN AcceptOnExpectDirective(f, t) ELSE AcceptOnExpectDirectiveTail(f, t)
    BY DEF T, t, f, g
  <1>6. g \in Machine /\ Kept(m, g) /\ g.redirected = <<>> /\ Reads(g, path, T, headers, parts[n])
    BY <1>1, <1>4, <1>5, StepDirective
  <1>7. comments' \in Seq(Comment)
    BY <1>1, <1>2, <1>3, <1>4, SaysTyped, FlushedTyped
  <1> QED BY <1>1, <1>2, <1>3, <1>6, <1>7, QuietStep DEF m, T, n, path, headers

\* FeedText does.
LEMMA TextFed ==
  ASSUME InclusionInv, Reading, FeedText
  PROVE  InclusionInv'
  <1> DEFINE m == Top
             t == Lex(m)
             T == Text(m)
             n == Len(stack)
             path == entries[m.file].path
             headers == HeadersAt(disk, m.depth)
             f == Flushed(Advance(m), t)
             g == AcceptOnText(f, t)
  <1>1. /\ stack # <<>> /\ ~m.ended /\ ~IsComment(t) /\ IsFed(m, t) /\ ~InDirective(m) /\ stack' = Replaced(g)
        /\ comments' = FlushedComments(m, t) /\ tokens' = Output(f, t)
        /\ UNCHANGED <<disk, entries, lookup, canonical, config>>
    BY DEF Reading, FeedText, sources
  <1>2. /\ entries # <<>> /\ Loaded /\ disk \in Disks /\ comments \in Seq(Comment) /\ entries \in Seq(Entry)
        /\ IsRunning(disk, entries, stack, tokens, config) /\ SourcesOK(disk, entries, lookup, canonical)
    BY <1>1, WhileReading
  <1>3. PICK parts, totals : Stacked(disk, entries, stack, parts, totals) /\ Says(entries, tokens, config, totals[n])
    BY <1>2 DEF IsRunning
  <1> HIDE DEF m, t, T, n, path, headers, f, g
  <1>4. /\ m \in Machine /\ T \in FileTexts /\ path \in Paths /\ headers \in Headers /\ parts[n] \in Seq(Item) /\ totals[n] \in Seq(Item)
        /\ Reads(m, path, T, headers, parts[n]) /\ m.redirected = <<>> /\ t \in Token /\ t.file = m.file
        /\ n \in Nat \ {0} /\ m = stack[n] /\ m.file \in 1 .. Len(entries)
    BY <1>1, <1>2, <1>3, AtTop DEF m, t, T, n, path, headers
  <1>5. T = Text(m) /\ t = Lex(m) /\ f = Flushed(Advance(m), t) /\ g = AcceptOnText(f, t)
    BY DEF T, t, f, g
  <1>6. f \in Machine /\ Kept(m, f) /\ f.redirected = <<>>
    BY <1>4, <1>5, AdvancedFlushed
  <1>7. g \in Machine /\ Kept(m, g) /\ g.redirected = <<>>
    <2>1. g \in Machine /\ Kept(f, g) /\ g.redirected = <<>>
      BY <1>4, <1>5, <1>6, AcceptedText
    <2> QED BY <1>6, <2>1 DEF Kept
  <1> DEFINE x == Shown(f, t, path)
  <1>8. Reads(g, path, T, headers, parts[n] \o x)
    BY <1>1, <1>4, <1>5, StepText
  <1>9. x \in Seq(Item)
    BY <1>4, ShownTyped
  <1>10. Says(entries, tokens', config, totals[n] \o x)
    <2>1. path = entries[t.file].path /\ t.file \in 1 .. Len(entries)
      BY <1>4 DEF path
    <2>2. tokens' = IF IsOutput(f, t) THEN Append(tokens, OutputToken(t)) ELSE tokens
      BY <1>1 DEF Output
    <2> HIDE DEF OutputToken
    <2> QED BY <1>3, <1>4, <2>1, <2>2, SaysShown
  <1>11. ReadsIn(disk, entries, g, parts[n] \o x)
    <2>1. g.file = m.file /\ g.depth = m.depth
      BY <1>7 DEF Kept
    <2> QED BY <1>8, <2>1 DEF ReadsIn, Text, T, path, headers
  <1>12. stack' # <<>> /\ Moves(stack, n, g, stack')
    <2>1. stack \in Seq(Machine) /\ n > 0
      BY <1>3 DEF Stacked, n
    <2> QED BY <1>1, <1>7, <2>1, TopReplaced DEF n
  <1>13. comments' \in Seq(Comment)
    BY <1>1, <1>2, <1>3, <1>4, SaysTyped, FlushedTyped
  <1> HIDE DEF x
  <1>14. IsRunning(disk, entries, stack', tokens', config)
    <2>1. Kept(stack[n], g)
      BY <1>4, <1>7
    <2> QED BY <1>2, <1>3, <1>7, <1>9, <1>10, <1>11, <1>12, <2>1, GoesOn
  <1> QED BY <1>1, <1>2, <1>12, <1>13, <1>14, Continued

-----------------------------------------------------------------------------
(* The end of a directive.                                                  *)

Regroups(u, v, w) == (u \o v) \o w = u \o (v \o w)
\* Concatenation, of three sequences.
LEMMA ConcatRegroups ==
  ASSUME NEW S, NEW u \in Seq(S), NEW v \in Seq(S), NEW w \in Seq(S)
  PROVE  Regroups(u, v, w)
BY SMTT(30), ConcatAssociative DEF Regroups

\* A header that is not found, or too deep.
LEMMA NothingThere ==
  ASSUME NEW onDisk \in Disks, NEW depth \in 0 .. MaxIncludeDepth, NEW name \in DOMAIN Canonical,
         depth = MaxIncludeDepth \/ Resolved(onDisk, name) = NoPath
  PROVE  HeadersAt(onDisk, depth)[name] = <<>>
  <1> DEFINE k == MaxIncludeDepth - depth
  <1>1. k = 0 \/ (k \in 1 .. MaxIncludeDepth /\ depth # MaxIncludeDepth)
    BY FileAssumption
  <1> HIDE DEF k
  <1>2. Included(onDisk)[k][name] = <<>>
    BY <1>1, IncludedTyped
  <1> QED BY <1>2 DEF HeadersAt, k

\* The directive of a machine names what its line does.
LEMMA DirectiveNamed ==
  ASSUME NEW m \in Machine, NEW T \in FileTexts, NEW h, NEW t, NEW path, NEW headers, NEW items, NEW d,
         Ends(m, h, t, path, T, headers, items, d)
  PROVE  /\ IsDirective(T, d, "include") <=> DirectiveName(m.directive) = "include"
         /\ NamesHeader(Directive(T, d)) <=> Len(m.directive) > 1 /\ Arg(m.directive, 1) \in DOMAIN Canonical
         /\ Len(m.directive) > 1 => Arg(m.directive, 1) = Directive(T, d)[2] /\ m.directive[2] \in Token
         /\ m.directive # <<>> <=> Len(m.directive) > 0
         /\ Len(m.directive) \in Nat
  <1> DEFINE D == m.directive
             R == Directive(T, d)
  <1>1. d \in 1 .. Len(T) /\ IsDirectiveLine(T[d]) /\ Words(D) = R /\ D \in Seq(Token)
    BY DEF Ends, Machine
  <1>2. /\ Len(D) \in Nat /\ Len(R) = Len(D)
        /\ \A k \in 1 .. Len(D) : R[k] = D[k].text
        /\ \A name : name # "none" => (IsDirective(T, d, name) <=> DirectiveName(D) = name)
        /\ D = <<>> <=> Len(D) = 0
    BY <1>1, DirectiveWords
  <1> HIDE DEF D, R, Token
  <1>3. Len(D) > 1 => Arg(D, 1) = R[2] /\ D[2] \in Token
    <2>1. Len(D) > 1 => 2 \in 1 .. Len(D)
      BY <1>2
    <2>2. 1 + 1 = 2
      OBVIOUS
    <2> QED BY <1>1, <1>2, <2>1, <2>2, ElementOfSeq DEF Arg
  <1>4. IsDirective(T, d, "include") <=> DirectiveName(D) = "include"
    BY <1>2
  <1>5. NamesHeader(R) <=> Len(D) > 1 /\ Arg(D, 1) \in DOMAIN Canonical
    BY <1>2, <1>3 DEF NamesHeader
  <1> QED BY <1>2, <1>3, <1>4, <1>5 DEF D, R

\* What the SourceManager has opened after a search.
LEMMA ManagerSearched ==
  ASSUME disk \in Disks, SourcesOK(disk, entries, lookup, canonical), NEW name \in DOMAIN Canonical,
         NEW found, found = Search(Manager, name)
  PROVE  /\ SourcesOK(disk, found.src.entries, found.src.lookup, found.src.canonical)
         /\ Grows(entries, found.src.entries)
         /\ found.file = NoFile => found.src.entries = entries /\ Resolved(disk, name) = NoPath
         /\ found.file # NoFile => /\ Resolved(disk, name) # NoPath
                                   /\ IsFile(disk, found.src.entries, found.file, Resolved(disk, name))
  <1> DEFINE src == Manager
  <1>1. src.entries = entries /\ src.lookup = lookup /\ src.canonical = canonical /\ DOMAIN src = {"entries", "lookup", "canonical"}
    BY DEF Manager
  <1>2. found = Search(src, name)
    OBVIOUS
  <1> HIDE DEF src
  <1>3. SourcesOK(disk, src.entries, src.lookup, src.canonical)
    BY <1>1
  <1>4. /\ SourcesOK(disk, found.src.entries, found.src.lookup, found.src.canonical)
        /\ Grows(src.entries, found.src.entries)
        /\ found.file = NoFile => found.src.entries = src.entries /\ Resolved(disk, name) = NoPath
        /\ found.file # NoFile => /\ Resolved(disk, name) # NoPath
                                  /\ IsFile(disk, found.src.entries, found.file, Resolved(disk, name))
    BY <1>1, <1>2, <1>3, SearchFinds
  <1> QED BY <1>1, <1>4

\* EndDirective keeps the invariant.
LEMMA DirectiveEnded ==
  ASSUME InclusionInv, Reading, EndDirective
  PROVE  InclusionInv'
  <1> DEFINE m == Top
             t == Lex(m)
             T == Text(m)
             n == Len(stack)
             path == entries[m.file].path
             headers == HeadersAt(disk, m.depth)
             f == Flushed(Advance(m), t)
             h == HandleConditional(f)
             a == AfterDirective(h)
             g == AcceptOnText(a, t)
             name == Arg(f.directive, 1)
             found == Search(Manager, name)
  <1>1. /\ stack # <<>> /\ ~m.ended /\ ~IsComment(t) /\ EndsDirective(m, t) /\ stack' = Replaced(g)
        /\ comments' = FlushedComments(m, t) /\ tokens' = Output(a, t)
        /\ config' = HandleConfig(config, f.directive)
        /\ TriesInclude(f) => found.file = NoFile /\ lookup' = found.src.lookup /\ canonical' = found.src.canonical
        /\ ~TriesInclude(f) => lookup' = lookup /\ canonical' = canonical
        /\ disk' = disk /\ entries' = entries
    BY DEF Reading, EndDirective
  <1>2. /\ entries # <<>> /\ Loaded /\ disk \in Disks /\ comments \in Seq(Comment) /\ entries \in Seq(Entry)
        /\ IsRunning(disk, entries, stack, tokens, config) /\ SourcesOK(disk, entries, lookup, canonical)
    BY <1>1, WhileReading
  <1>3. PICK parts, totals : Stacked(disk, entries, stack, parts, totals) /\ Says(entries, tokens, config, totals[n])
    BY <1>2 DEF IsRunning
  <1> HIDE DEF m, t, T, n, path, headers, f, h, a, g, name, found
  <1>4. /\ m \in Machine /\ T \in FileTexts /\ path \in Paths /\ headers \in Headers /\ parts[n] \in Seq(Item) /\ totals[n] \in Seq(Item)
        /\ Reads(m, path, T, headers, parts[n]) /\ m.redirected = <<>> /\ t \in Token /\ t.file = m.file
        /\ n \in Nat \ {0} /\ m = stack[n] /\ m.file \in 1 .. Len(entries) /\ m.depth \in 0 .. MaxIncludeDepth
    BY <1>1, <1>2, <1>3, AtTop DEF m, t, T, n, path, headers
  <1>5. T = Text(m) /\ t = Lex(m) /\ f = Flushed(Advance(m), t) /\ h = HandleConditional(f) /\ a = AfterDirective(h) /\ g = AcceptOnText(a, t)
    BY DEF T, t, f, h, a, g
  <1>6. f \in Machine /\ Kept(m, f) /\ f.redirected = <<>> /\ f.directive = m.directive
    BY <1>4, <1>5, AdvancedFlushed
  <1>7. /\ h \in Machine /\ Kept(m, h) /\ h.redirected = <<>> /\ ~h.ended
        /\ \E d \in 1 .. Len(T) : Ends(m, h, t, path, T, headers, parts[n], d)
    BY <1>1, <1>4, <1>5, StepEnd
  <1>8. PICK d \in 1 .. Len(T) : Ends(m, h, t, path, T, headers, parts[n], d)
    BY <1>7
  <1>9. a \in Machine /\ Kept(h, a) /\ a.redirected = <<>>
    BY <1>5, <1>7, AfterTyped
  <1>10. g \in Machine /\ Kept(m, g) /\ g.redirected = <<>>
    <2>1. g \in Machine /\ Kept(a, g) /\ g.redirected = <<>>
      BY <1>4, <1>5, <1>9, AcceptedText
    <2> QED BY <1>7, <1>9, <2>1 DEF Kept
  <1> DEFINE L == LineItems(path, T, d, headers)
             S == Shown(a, t, path)
             x == L \o S
             W == Item
             part == parts[n]
             total == totals[n]
  <1>11. L \in Seq(W) /\ S \in Seq(W) /\ part \in Seq(W) /\ total \in Seq(W)
    BY <1>4, <1>8, LineItemsTyped, ShownTyped
  <1>12. Arrives(a, t, path, T, headers, part \o L)
    BY <1>5, <1>8 DEF Ends
  <1>13. NotIncluded(T, d, headers) /\ SourcesOK(disk, entries, lookup', canonical')
    <2>1. /\ IsDirective(T, d, "include") <=> DirectiveName(m.directive) = "include"
          /\ NamesHeader(Directive(T, d)) <=> Len(m.directive) > 1 /\ Arg(m.directive, 1) \in DOMAIN Canonical
          /\ Len(m.directive) > 1 => Arg(m.directive, 1) = Directive(T, d)[2]
      BY <1>4, <1>8, DirectiveNamed
    <2>2. name = Arg(m.directive, 1) /\ found = Search(Manager, name) /\ f.depth = m.depth
      BY <1>6 DEF name, found, Kept
    <2>3. CASE TriesInclude(f)
      <3>1. name \in DOMAIN Canonical /\ Len(m.directive) > 1
        BY <1>6, <2>3 DEF TriesInclude, name
      <3>2. SourcesOK(disk, found.src.entries, found.src.lookup, found.src.canonical) /\ found.src.entries = entries /\ Resolved(disk, name) = NoPath
        BY <1>1, <1>2, <2>2, <2>3, <3>1, ManagerSearched
      <3>3. headers[name] = <<>>
        BY <1>2, <1>4, <3>1, <3>2, NothingThere DEF headers
      <3> QED BY <1>1, <2>1, <2>2, <2>3, <3>1, <3>2, <3>3 DEF NotIncluded
    <2>4. CASE ~TriesInclude(f)
      <3>1. ASSUME IsDirective(T, d, "include"), NamesHeader(Directive(T, d))
            PROVE  headers[Directive(T, d)[2]] = <<>>
        <4>1. name \in DOMAIN Canonical /\ name = Directive(T, d)[2] /\ ~(m.depth < MaxIncludeDepth)
          BY <1>6, <2>1, <2>2, <2>4, <3>1 DEF TriesInclude
        <4>2. m.depth = MaxIncludeDepth
          BY <1>4, <4>1, FileAssumption
        <4> QED BY <1>2, <1>4, <4>1, <4>2, NothingThere DEF headers
      <3> QED BY <1>1, <1>2, <2>4, <3>1 DEF NotIncluded
    <2> QED BY <2>3, <2>4
  <1> HIDE DEF L, S, x, W, part, total
  <1>14. /\ part \o L \in Seq(W) /\ x \in Seq(W) /\ total \o L \in Seq(W)
         /\ (part \o L) \o S = part \o x /\ (total \o L) \o S = total \o x
    <2>1. part \o L \in Seq(W) /\ total \o L \in Seq(W)
      BY <1>11, ConcatProperties
    <2>2. L \o S \in Seq(W)
      BY <1>11, ConcatProperties
    <2>3. Regroups(part, L, S)
      BY <1>11, ConcatRegroups
    <2>4. Regroups(total, L, S)
      BY <1>11, ConcatRegroups
    <2> QED BY <2>1, <2>2, <2>3, <2>4 DEF x, Regroups
  <1>15. ReadsIn(disk, entries, g, part \o x)
    <2>1. Reads(g, path, T, headers, (part \o L) \o S)
      BY <1>4, <1>5, <1>9, <1>12, <1>14, Dispatched DEF S, W
    <2>2. g.file = m.file /\ g.depth = m.depth
      BY <1>10 DEF Kept
    <2> QED BY <1>14, <2>1, <2>2 DEF ReadsIn, Text, T, path, headers
  <1>16. Says(entries, tokens', config', total \o x)
    <2>1. config' = HandleConfig(config, m.directive)
      BY <1>1, <1>6
    <2>2. Says(entries, tokens, config', total \o L)
      BY <1>3, <1>4, <1>8, <1>13, <2>1, DirectiveSays DEF L, total
    <2>3. path = entries[t.file].path /\ t.file \in 1 .. Len(entries)
      BY <1>4 DEF path
    <2>4. tokens' = IF IsOutput(a, t) THEN Append(tokens, OutputToken(t)) ELSE tokens
      BY <1>1 DEF Output
    <2> HIDE DEF OutputToken
    <2>5. Says(entries, tokens', config', (total \o L) \o S)
      BY <1>4, <2>2, <2>3, <2>4, SaysShown DEF S
    <2> QED BY <1>14, <2>5
  <1>17. stack' # <<>> /\ Moves(stack, n, g, stack')
    <2>1. stack \in Seq(Machine) /\ n > 0
      BY <1>3 DEF Stacked, n
    <2> QED BY <1>1, <1>10, <2>1, TopReplaced DEF n
  <1>18. comments' \in Seq(Comment)
    BY <1>1, <1>2, <1>3, <1>4, SaysTyped, FlushedTyped
  <1>19. IsRunning(disk, entries, stack', tokens', config')
    <2>1. Kept(stack[n], g)
      BY <1>4, <1>10
    <2> QED BY <1>2, <1>3, <1>10, <1>14, <1>15, <1>16, <1>17, <2>1, GoesOn DEF W, part, total
  <1> QED BY <1>1, <1>2, <1>13, <1>17, <1>18, <1>19, Continued

-----------------------------------------------------------------------------
(* Files entered and left.                                                  *)
\* EnterInclude does.
LEMMA FileEntered ==
  ASSUME InclusionInv, Reading, EnterInclude
  PROVE  InclusionInv'
  <1> DEFINE m == Top
             t == Lex(m)
             T == Text(m)
             n == Len(stack)
             path == entries[m.file].path
             headers == HeadersAt(disk, m.depth)
             f == Flushed(Advance(m), t)
             h == HandleConditional(f)
             name == Arg(f.directive, 1)
             found == Search(Manager, name)
             word == f.directive[2]
             range == IF f.expansion # <<>> THEN f.expansion ELSE <<word.line, word.column>>
             o == [f EXCEPT !.redirected = <<t>>]
             file == found.file
             depth == f.depth + 1
             firstToken == Len(tokens)
             firstComment == Len(comments')
             inner == NewMachine(file, depth, range, firstToken, firstComment)
             new == found.src.entries
  <1>1. /\ stack # <<>> /\ ~m.ended /\ ~IsComment(t) /\ EndsDirective(m, t) /\ TriesInclude(f) /\ file # NoFile
        /\ comments' = FlushedComments(m, t) /\ tokens' = tokens /\ config' = config
        /\ entries' = new /\ lookup' = found.src.lookup /\ canonical' = found.src.canonical /\ disk' = disk
        /\ stack' = Append(Replaced(o), inner)
    BY DEF Reading, EnterInclude
  <1>2. /\ entries # <<>> /\ Loaded /\ disk \in Disks /\ comments \in Seq(Comment) /\ entries \in Seq(Entry)
        /\ IsRunning(disk, entries, stack, tokens, config) /\ SourcesOK(disk, entries, lookup, canonical)
    BY <1>1, WhileReading
  <1>3. PICK parts, totals : Stacked(disk, entries, stack, parts, totals) /\ Says(entries, tokens, config, totals[n])
    BY <1>2 DEF IsRunning
  <1> HIDE DEF m, t, T, n, path, headers, f, h, name, found, word, range, o, file, depth, inner, new, firstToken, firstComment
  <1>4. /\ m \in Machine /\ T \in FileTexts /\ path \in Paths /\ headers \in Headers /\ parts[n] \in Seq(Item) /\ totals[n] \in Seq(Item)
        /\ Reads(m, path, T, headers, parts[n]) /\ m.redirected = <<>> /\ t \in Token /\ t.file = m.file
        /\ n \in Nat \ {0} /\ m = stack[n] /\ m.file \in 1 .. Len(entries) /\ m.depth \in 0 .. MaxIncludeDepth
    BY <1>1, <1>2, <1>3, AtTop DEF m, t, T, n, path, headers
  <1>5. T = Text(m) /\ t = Lex(m) /\ f = Flushed(Advance(m), t) /\ h = HandleConditional(f)
    BY DEF T, t, f, h
  <1>6. f \in Machine /\ Kept(m, f) /\ f.redirected = <<>> /\ f.directive = m.directive /\ f.ended = m.ended
    BY <1>4, <1>5, AdvancedFlushed
  <1>7. /\ DirectiveName(m.directive) \notin {"if", "endif"} => h = f
        /\ \E d \in 1 .. Len(T) : Ends(m, h, t, path, T, headers, parts[n], d)
    <2> DEFINE items == parts[n]
    <2>1. /\ m \in Machine /\ T \in FileTexts /\ path \in Paths /\ headers \in Headers /\ items \in Seq(Item)
          /\ Reads(m, path, T, headers, items) /\ ~m.ended /\ ~IsComment(t) /\ EndsDirective(m, t)
      BY <1>1, <1>4
    <2> HIDE DEF items, Machine, Item
    <2>2. /\ DirectiveName(m.directive) \notin {"if", "endif"} => h = f
          /\ \E d \in 1 .. Len(T) : Ends(m, h, t, path, T, headers, items, d)
      BY <1>5, <2>1, StepEnd
    <2> QED BY <2>2 DEF items
  <1>8. PICK d \in 1 .. Len(T) : Ends(m, h, t, path, T, headers, parts[n], d)
    BY <1>7
  <1>9. /\ DirectiveName(m.directive) = "include" /\ f.depth < MaxIncludeDepth /\ Len(m.directive) > 1
        /\ name = Arg(m.directive, 1) /\ name \in DOMAIN Canonical /\ h = f
    BY <1>1, <1>6, <1>7 DEF TriesInclude, name
  <1>10. /\ IsDirective(T, d, "include") /\ NamesHeader(Directive(T, d)) /\ name = Directive(T, d)[2]
         /\ word \in Token /\ m.directive # <<>>
    <2>1. /\ IsDirective(T, d, "include") <=> DirectiveName(m.directive) = "include"
          /\ NamesHeader(Directive(T, d)) <=> Len(m.directive) > 1 /\ Arg(m.directive, 1) \in DOMAIN Canonical
          /\ Len(m.directive) > 1 => Arg(m.directive, 1) = Directive(T, d)[2] /\ m.directive[2] \in Token
          /\ m.directive # <<>> <=> Len(m.directive) > 0
          /\ Len(m.directive) \in Nat
      BY <1>4, <1>8, DirectiveNamed
    <2>2. Len(m.directive) > 0
      BY <1>9, <2>1
    <2> HIDE DEF Token
    <2> QED BY <1>6, <1>9, <2>1, <2>2 DEF word
  <1>11. LineItems(path, T, d, headers) = headers[name]
    <2>1. ~IsSwallowed(T, d) /\ (Active(m.conditionals) <=> IsSelected(T, d)) /\ IsRead(m, m.directive[1].text)
      BY <1>8, <1>10 DEF Ends
    <2>2. m.directive[1].text = "include"
      BY <1>9 DEF DirectiveName, Arg
    <2>3. IsSelected(T, d)
      BY <2>1, <2>2 DEF IsRead, InActive, Active
    <2> QED BY <1>10, <2>1, <2>3 DEF LineItems
  <1>12. Arrives(AfterDirective(f), t, path, T, headers, parts[n] \o headers[name])
    BY <1>8, <1>9, <1>11 DEF Ends
  <1>13. /\ SourcesOK(disk, new, lookup', canonical') /\ Grows(entries, new) /\ new \in Seq(Entry) /\ new # <<>>
         /\ Resolved(disk, name) # NoPath /\ IsFile(disk, new, file, Resolved(disk, name))
    <2>1. found = Search(Manager, name)
      BY DEF found
    <2>2. /\ SourcesOK(disk, found.src.entries, found.src.lookup, found.src.canonical)
          /\ Grows(entries, found.src.entries)
          /\ found.file # NoFile => /\ Resolved(disk, name) # NoPath
                                    /\ IsFile(disk, found.src.entries, found.file, Resolved(disk, name))
      BY <1>2, <1>9, <2>1, ManagerSearched
    <2> QED BY <1>1, <2>2 DEF new, file, SourcesOK
  <1>14. file \in 1 .. Len(new) /\ file \in Nat /\ new[file].path = Resolved(disk, name) /\ new[file].text = disk[Resolved(disk, name)]
    <2>1. Len(new) \in Nat
      BY <1>13, LenProperties
    <2> QED BY <1>13, <2>1 DEF IsFile
  <1>15. depth = m.depth + 1 /\ depth \in 0 .. MaxIncludeDepth /\ depth \in Nat
    <2>1. f.depth = m.depth /\ MaxIncludeDepth \in Nat
      BY <1>6, FileAssumption DEF Kept
    <2> QED BY <1>4, <1>9, <2>1 DEF depth
  <1>16. range \in Seq(Nat)
    <2>1. word.line \in Nat /\ word.column \in Nat /\ f.expansion \in Seq(Nat)
      BY <1>6, <1>10 DEF Token, Machine
    <2> QED BY <2>1 DEF range
  <1>17. firstToken \in Nat
    BY <1>3, SaysTyped DEF firstToken
  <1>18. comments' \in Seq(Comment)
    BY <1>1, <1>2, <1>4, <1>17, FlushedTyped DEF firstToken
  <1>19. firstComment \in Nat
    <2> HIDE DEF Comment
    <2> QED BY <1>18, LenProperties DEF firstComment
  <1> DEFINE P == new[file].path
             U == new[file].text
             below == HeadersAt(disk, depth)
  <1>20. P \in Paths /\ U \in FileTexts /\ below \in Headers
    <2> DEFINE q == [file |-> file, depth |-> depth]
    <2>1. q.file = file /\ q.depth = depth
      OBVIOUS
    <2> HIDE DEF q
    <2>2. new[q.file].path \in Paths /\ new[q.file].text \in FileTexts /\ HeadersAt(disk, q.depth) \in Headers
      BY <1>2, <1>13, <1>14, <1>15, <2>1, LevelTyped
    <2> QED BY <2>1, <2>2
  <1> HIDE DEF P, U, below
  <1>21. /\ inner \in Machine /\ inner.file = file /\ inner.depth = depth /\ inner.redirected = <<>>
         /\ Reads(inner, P, U, below, <<>>)
    <2>1. inner = NewMachine(file, depth, range, firstToken, firstComment)
      BY DEF inner
    <2>2. MadeOf(file, depth, range, firstToken, firstComment)
      BY <1>14, <1>15, <1>16, <1>17, <1>19 DEF MadeOf
    <2>3. inner \in Machine /\ inner.file = file /\ inner.depth = depth /\ inner.redirected = <<>>
      BY <2>1, <2>2, MachineMade
    <2>4. Reads(inner, P, U, below, <<>>)
      BY <1>20, <2>1, <2>2, StartReads
    <2> QED BY <2>3, <2>4
  <1>22. ReadsIn(disk, new, inner, <<>>)
    BY <1>21 DEF ReadsIn, P, U, below
  <1>23. o \in Machine /\ Kept(stack[n], o) /\ o.redirected = <<t>> /\ ~o.ended /\ [o EXCEPT !.redirected = <<>>] = f
    <2> DEFINE r == <<t>>
    <2>1. r \in Seq(Token)
      BY <1>4
    <2>2. o = [f EXCEPT !.redirected = r]
      BY DEF o
    <2> HIDE DEF r, Token
    <2>3. o \in Machine
      BY <1>6, <2>1, <2>2 DEF Machine
    <2>4. o.redirected = r /\ o.ended = f.ended /\ Kept(f, o)
      BY <1>6, <2>2 DEF Machine, Kept
    <2>5. [o EXCEPT !.redirected = <<>>] = f
      BY <1>6, <2>2 DEF Machine
    <2>6. Kept(stack[n], o)
      BY <1>4, <1>6, <2>4 DEF Kept
    <2> QED BY <1>1, <1>6, <2>3, <2>4, <2>5, <2>6 DEF r
  <1>24. WaitsFor(disk, new, o, inner, parts[n])
    <2>1. o.file = m.file /\ o.depth = m.depth
      BY <1>4, <1>23 DEF Kept
    <2>2. new[m.file] = entries[m.file]
      BY <1>4, <1>13 DEF Grows
    <2>3. new[o.file].path = path /\ new[o.file].text = T /\ HeadersAt(disk, o.depth) = headers
      BY <2>1, <2>2 DEF path, T, Text, headers
    <2>4. o.redirected[1] = t
      BY <1>23
    <2>5. Arrives(AfterDirective([o EXCEPT !.redirected = <<>>]), o.redirected[1], new[o.file].path, new[o.file].text,
                  HeadersAt(disk, o.depth), parts[n] \o HeadersAt(disk, o.depth)[name])
      BY <1>12, <1>23, <2>3, <2>4
    <2>6. new[inner.file].path = Resolved(disk, name) /\ new[inner.file].text = disk[Resolved(disk, name)] /\ inner.depth = o.depth + 1
      BY <1>14, <1>15, <1>21, <2>1
    <2>7. \E e \in Token : o.redirected = <<e>> /\ e.file = o.file
      BY <1>4, <1>23, <2>1
    <2> QED BY <1>9, <1>13, <1>23, <2>5, <2>6, <2>7 DEF WaitsFor
  <1>25. Enters(stack, n, o, inner, stack')
    BY <1>1 DEF Enters, Replaced, n
  <1>26. HasRead(disk, new, stack', totals[n])
    <2>1. inner.file \in 1 .. Len(new) /\ inner.depth \in 0 .. MaxIncludeDepth
      BY <1>14, <1>15, <1>21
    <2> QED BY <1>2, <1>3, <1>13, <1>21, <1>22, <1>23, <1>24, <1>25, <2>1, Entered
  <1>27. IsRunning(disk, new, stack', tokens, config)
    <2>1. Says(new, tokens, config, totals[n])
      BY <1>2, <1>3, <1>13, SaysGrows
    <2> QED BY <1>26, <2>1 DEF HasRead, IsRunning
  <1>28. stack' # <<>>
    <2>1. Len(stack') > 0
      BY <1>26 DEF HasRead, Stacked
    <2>2. Len(<<>>) = 0
      OBVIOUS
    <2> QED BY <2>1, <2>2
  <1>29. new[MainFile].path = NoPath
    <2>1. Len(entries) \in Nat /\ Len(entries) > 0 /\ 1 \in 1 .. Len(entries)
      BY <1>2, <1>4, LenProperties
    <2> QED BY <1>2, <1>13, <2>1 DEF Grows, Loaded, MainFile
  <1> QED BY <1>1, <1>2, <1>13, <1>18, <1>27, <1>28, <1>29 DEF InclusionInv, Loaded

\* LeaveFile does: the includer has now read the header and the token it kept.
LEMMA FileLeft ==
  ASSUME InclusionInv, LeaveFile
  PROVE  InclusionInv'
  <1> DEFINE n == Len(stack)
             outer == stack[n - 1]
             t == outer.redirected[1]
             m == AfterDirective([outer EXCEPT !.redirected = <<>>])
             path == entries[t.file].path
  <1>1. /\ n > 1 /\ Top.ended /\ tokens' = Output(m, t)
        /\ stack' = Append(SubSeq(stack, 1, n - 2), AcceptOnText(m, t))
        /\ UNCHANGED <<disk, entries, lookup, canonical, comments, config>>
    BY DEF LeaveFile, sources
  <1>2. stack # <<>>
    <2>1. Len(<<>>) = 0
      OBVIOUS
    <2> QED BY <1>1, <2>1
  <1>3. /\ entries # <<>> /\ Loaded /\ disk \in Disks /\ comments \in Seq(Comment) /\ entries \in Seq(Entry)
        /\ IsRunning(disk, entries, stack, tokens, config) /\ SourcesOK(disk, entries, lookup, canonical)
    BY <1>2, WhileReading
  <1>4. PICK parts, totals : Stacked(disk, entries, stack, parts, totals) /\ Says(entries, tokens, config, totals[n])
    BY <1>3 DEF IsRunning
  <1>5. Leaves(stack, n, outer, t, m, stack')
    BY <1>1 DEF Leaves, Top
  <1> HIDE DEF n, outer, t, m
  <1>6. /\ t \in Token /\ t.file = outer.file /\ t.file \in 1 .. Len(entries) /\ path \in Paths
        /\ HasRead(disk, entries, stack', totals[n] \o Shown(m, t, path))
    BY <1>3, <1>4, <1>5, Left
  <1> HIDE DEF path
  <1>7. Says(entries, tokens', config, totals[n] \o Shown(m, t, path))
    <2>1. tokens' = IF IsOutput(m, t) THEN Append(tokens, OutputToken(t)) ELSE tokens
      BY <1>1 DEF Output
    <2>2. path = entries[t.file].path
      BY DEF path
    <2> HIDE DEF OutputToken
    <2> QED BY <1>4, <1>6, <2>1, <2>2, SaysShown
  <1>8. IsRunning(disk, entries, stack', tokens', config)
    BY <1>6, <1>7 DEF HasRead, IsRunning
  <1>9. stack' # <<>>
    <2>1. Len(stack') > 0
      BY <1>6 DEF HasRead, Stacked
    <2>2. Len(<<>>) = 0
      OBVIOUS
    <2> QED BY <2>1, <2>2
  <1> QED BY <1>1, <1>3, <1>8, <1>9, Continued

\* Finish does: the main file has been read to its end.
LEMMA MainFileFinished ==
  ASSUME InclusionInv, Finish
  PROVE  InclusionInv'
  <1> DEFINE o == OutputToken(Lex(Top))
             w == TokensOf(MeantItems)
  <1>1. /\ Len(stack) = 1 /\ Top.ended /\ tokens' = Append(tokens, o) /\ stack' = <<>>
        /\ UNCHANGED <<disk, entries, lookup, canonical, comments, config>>
    BY DEF Finish, sources
  <1> HIDE DEF o, w
  <1>2. stack # <<>>
    <2>1. Len(<<>>) = 0
      OBVIOUS
    <2>2. Len(stack) # 0
      BY <1>1
    <2> QED BY <2>1, <2>2
  <1>3. /\ entries # <<>> /\ Loaded /\ disk \in Disks /\ comments \in Seq(Comment) /\ entries \in Seq(Entry)
        /\ IsRunning(disk, entries, stack, tokens, config) /\ SourcesOK(disk, entries, lookup, canonical)
    BY <1>2, WhileReading
  <1>4. PICK parts, totals : Stacked(disk, entries, stack, parts, totals) /\ Says(entries, tokens, config, totals[1])
    BY <1>1, <1>3 DEF IsRunning
  <1>5. totals[1] = MeantItems
    <2>1. /\ Levels(disk, entries, stack, parts, totals, 1) /\ ReadsIn(disk, entries, Top, parts[1]) /\ Top = stack[1]
      BY <1>1, <1>4 DEF Stacked, Top
    <2>2. 1 - 1 = 0 /\ 1 \in 1 .. 1
      OBVIOUS
    <2>3. /\ stack[1].file = 1 /\ stack[1].depth = 0 /\ totals[0] = <<>>
          /\ \A k \in 1 .. 1 : parts[k] \in Seq(Item) /\ totals[k] = totals[k - 1] \o parts[k]
      BY <2>1 DEF Levels
    <2> HIDE DEF Item
    <2>4. parts[1] \in Seq(Item) /\ totals[1] = <<>> \o parts[1]
      BY <2>2, <2>3
    <2>5. totals[1] = parts[1]
      BY <2>4, ConcatEmptySeq
    <2>6. parts[1] = Items(entries[1].path, entries[1].text, HeadersAt(disk, 0))
      BY <1>1, <2>1, <2>3 DEF ReadsIn, Reads
    <2>7. MaxIncludeDepth - 0 = MaxIncludeDepth
      BY FileAssumption
    <2>8. HeadersAt(disk, 0) = Included(disk)[MaxIncludeDepth]
      BY <2>7 DEF HeadersAt
    <2> QED BY <1>3, <2>5, <2>6, <2>8 DEF MeantItems, Loaded, MainFile
  <1>6. /\ MeantItems \in Seq(Item) /\ tokens \in Seq(OutToken) /\ Len(tokens) = Len(w)
        /\ \A k \in 1 .. Len(tokens) : PlaceOf(entries, tokens[k]) = w[k]
        /\ ConfigIsMeant
    BY <1>4, <1>5 DEF Says, ConfigIsMeant, w
  <1>7. w \in Seq(Place)
    <2>1. Directed(<<>>) \in Item
      BY DEF Directed, Item
    <2> HIDE DEF Item, Place
    <2> QED BY <1>6, <2>1, TokensOn DEF w
  <1>8. DOMAIN w = 1 .. Len(w) /\ Len(tokens) \in Nat
    <2> HIDE DEF Place, OutToken
    <2> QED BY <1>6, <1>7, LenProperties
  <1> DEFINE W == OutToken \cup {o}
  <1>9. tokens \in Seq(W) /\ o \in W
    <2> HIDE DEF OutToken
    <2>1. \A k \in 1 .. Len(tokens) : tokens[k] \in W
      BY <1>6, ElementOfSeq
    <2>2. tokens = [k \in 1 .. Len(tokens) |-> tokens[k]]
      BY <1>6, LenProperties
    <2> QED BY <1>8, <2>1, <2>2, IsASeq
  <1>10. Len(tokens') = Len(tokens) + 1 /\ \A k \in 1 .. Len(tokens) : tokens'[k] = tokens[k]
    <2> HIDE DEF W
    <2> QED BY <1>1, <1>9, AppendProperties
  <1>11. MeantItems' = MeantItems /\ ConfigIsMeant'
    BY <1>1, <1>6 DEF MeantItems, ConfigIsMeant
  <1>12. \A i \in DOMAIN w : Position(tokens[i])' = w[i]
    BY <1>1, <1>6, <1>8, <1>10 DEF PlaceOf, Position
  <1>13. SaidAll'
    BY <1>6, <1>10, <1>11, <1>12 DEF SaidAll, w
  <1> QED BY <1>1, <1>3, <1>13 DEF InclusionInv, Loaded

-----------------------------------------------------------------------------
(* Files and what is spelled in them.                                       *)
Covers(spans, last, k) == {i \in 1 .. last : spans[i].begin < k /\ k <= spans[i].end}

\* What is output is of the file of the innermost range around it, or of the deepest
\* state machine that began before it.
Told(out, len, spans, last, open, n) ==
    /\ len \in Nat /\ last \in Nat /\ n \in Nat
    /\ \A i \in 1 .. last : spans[i].begin \in Nat /\ spans[i].end \in Nat /\ spans[i].end <= len
    /\ \A j \in 1 .. n : open[j].begin \in Nat /\ open[j].begin <= len
    /\ \A k \in 1 .. len :
           \/ Covers(spans, last, k) # {} /\ out[k].file = spans[Min(Covers(spans, last, k))].file
           \/ /\ Covers(spans, last, k) = {}
              /\ \E j \in 1 .. n : /\ open[j].begin < k /\ out[k].file = open[j].file
                                   /\ \A l \in j + 1 .. n : k <= open[l].begin

\* More of one file.
GoesOnIn(out, len, more, length, file) ==
    /\ length \in Nat /\ len <= length /\ \A k \in 1 .. len : more[k] = out[k]
    /\ \A k \in len + 1 .. length : more[k].file = file

\* What goes on in the innermost open file is told of by that file.
LEMMA ToldMore ==
  ASSUME NEW out, NEW len, NEW spans, NEW last, NEW open, NEW n, Told(out, len, spans, last, open, n), n > 0,
         NEW more, NEW length, GoesOnIn(out, len, more, length, open[n].file)
  PROVE  Told(more, length, spans, last, open, n)
  <1>1. /\ len \in Nat /\ last \in Nat /\ n \in Nat /\ n \in 1 .. n
        /\ \A i \in 1 .. last : spans[i].begin \in Nat /\ spans[i].end \in Nat /\ spans[i].end <= len
        /\ \A j \in 1 .. n : open[j].begin \in Nat /\ open[j].begin <= len
        /\ length \in Nat /\ len <= length /\ \A k \in 1 .. len : more[k] = out[k]
        /\ \A k \in len + 1 .. length : more[k].file = open[n].file
    BY DEF Told, GoesOnIn
  <1>2. ASSUME NEW k \in 1 .. length
        PROVE  \/ Covers(spans, last, k) # {} /\ more[k].file = spans[Min(Covers(spans, last, k))].file
               \/ /\ Covers(spans, last, k) = {}
                  /\ \E j \in 1 .. n : /\ open[j].begin < k /\ more[k].file = open[j].file
                                       /\ \A l \in j + 1 .. n : k <= open[l].begin
    <2>1. CASE k \in 1 .. len
      <3>1. more[k] = out[k]
        BY <1>1, <2>1
      <3> QED BY <2>1, <3>1 DEF Told
    <2>2. CASE k \in len + 1 .. length
      <3>1. Covers(spans, last, k) = {}
        <4>1. \A i \in 1 .. last : ~(k <= spans[i].end)
          BY <1>1, <2>2
        <4> QED BY <4>1 DEF Covers
      <3>2. open[n].begin < k /\ more[k].file = open[n].file /\ n + 1 .. n = {}
        BY <1>1, <2>2
      <3> QED BY <1>1, <3>1, <3>2
    <2> QED BY <1>1, <2>1, <2>2
  <1>3. /\ \A i \in 1 .. last : spans[i].end <= length
        /\ \A j \in 1 .. n : open[j].begin <= length
    BY <1>1
  <1> QED BY <1>1, <1>2, <1>3 DEF Told

\* The same, with open files or ranges that say the same.
LEMMA ToldAlike ==
  ASSUME NEW out, NEW len, NEW spans, NEW last, NEW open, NEW n, Told(out, len, spans, last, open, n),
         NEW now, \A j \in 1 .. n : now[j].begin = open[j].begin /\ now[j].file = open[j].file
  PROVE  Told(out, len, spans, last, now, n)
  <1>1. \A j \in 1 .. n : now[j].begin \in Nat /\ now[j].begin <= len
    BY DEF Told
  <1>2. ASSUME NEW k \in 1 .. len, NEW j \in 1 .. n, open[j].begin < k, out[k].file = open[j].file,
               \A l \in j + 1 .. n : k <= open[l].begin
        PROVE  now[j].begin < k /\ out[k].file = now[j].file /\ \A l \in j + 1 .. n : k <= now[l].begin
    <2>1. \A l \in j + 1 .. n : l \in 1 .. n
      BY DEF Told
    <2> QED BY <1>2, <2>1
  <1> QED BY <1>1, <1>2 DEF Told

\* A file is entered.
LEMMA ToldEnter ==
  ASSUME NEW out, NEW len, NEW spans, NEW last, NEW open, NEW n, Told(out, len, spans, last, open, n),
         NEW o, IsAbove(o, n), NEW now, \A j \in 1 .. n : now[j].begin = open[j].begin /\ now[j].file = open[j].file,
         now[o].begin = len
  PROVE  Told(out, len, spans, last, now, o)
  <1>1. n \in Nat /\ len \in Nat /\ o = n + 1
    BY DEF Told, IsAbove
  <1>2. /\ o \in Nat /\ \A j \in 1 .. o : j = o \/ j \in 1 .. n
        /\ \A j \in 1 .. n : j \in 1 .. o /\ \A l \in j + 1 .. o : l = o \/ l \in j + 1 .. n
    BY <1>1
  <1>3. Told(out, len, spans, last, now, n)
    BY ToldAlike
  <1>4. \A j \in 1 .. o : now[j].begin \in Nat /\ now[j].begin <= len
    BY <1>1, <1>2, <1>3 DEF Told
  <1>5. ASSUME NEW k \in 1 .. len, NEW j \in 1 .. n, now[j].begin < k, out[k].file = now[j].file,
               \A l \in j + 1 .. n : k <= now[l].begin
        PROVE  j \in 1 .. o /\ \A l \in j + 1 .. o : k <= now[l].begin
    <2>1. k <= len
      BY <1>1
    <2> QED BY <1>2, <1>5, <2>1
  <1> QED BY <1>2, <1>3, <1>4, <1>5 DEF Told

\* A file is left.
LEMMA ToldLeave ==
  ASSUME NEW out, NEW len, NEW spans, NEW last, NEW open, NEW n, Told(out, len, spans, last, open, n), n > 0,
         NEW o, o = n - 1, NEW next, next = last + 1,
         NEW new, \A i \in 1 .. last : new[i] = spans[i], new[next].begin = open[n].begin, new[next].end = len,
         new[next].file = open[n].file
  PROVE  Told(out, len, new, next, open, o)
  <1>1. /\ len \in Nat /\ last \in Nat /\ n \in Nat /\ n \in 1 .. n /\ o \in Nat /\ next \in Nat /\ o + 1 = n
        /\ \A i \in 1 .. next : i = next \/ i \in 1 .. last
        /\ \A i \in 1 .. last : i \in 1 .. next /\ i # next /\ i < next
        /\ next \in 1 .. next
        /\ \A j \in 1 .. o : j \in 1 .. n /\ j # n /\ n \in j + 1 .. n
        /\ \A j \in 1 .. n : j = n \/ j \in 1 .. o
    BY DEF Told
  <1>2. /\ \A i \in 1 .. last : spans[i].begin \in Nat /\ spans[i].end \in Nat /\ spans[i].end <= len
        /\ \A j \in 1 .. n : open[j].begin \in Nat /\ open[j].begin <= len
    BY DEF Told
  <1>3. \A i \in 1 .. next : new[i].begin \in Nat /\ new[i].end \in Nat /\ new[i].end <= len
    BY <1>1, <1>2
  <1>4. ASSUME NEW k \in 1 .. len
        PROVE  \/ Covers(new, next, k) # {} /\ out[k].file = new[Min(Covers(new, next, k))].file
               \/ /\ Covers(new, next, k) = {}
                  /\ \E j \in 1 .. o : /\ open[j].begin < k /\ out[k].file = open[j].file
                                       /\ \A l \in j + 1 .. o : k <= open[l].begin
    <2> DEFINE A == Covers(spans, last, k)
               B == Covers(new, next, k)
    <2>1. A \in SUBSET Nat /\ B \in SUBSET Nat
      BY DEF Covers
    <2>2. B = A \cup (IF open[n].begin < k THEN {next} ELSE {})
      <3>1. k <= len
        BY <1>1
      <3>2. \A i \in 1 .. last : i \in A <=> i \in B
        BY <1>1 DEF Covers
      <3>3. next \in B <=> open[n].begin < k
        BY <1>1, <3>1 DEF Covers
      <3>4. A \subseteq 1 .. last /\ B \subseteq 1 .. next
        BY DEF Covers
      <3> HIDE DEF A, B
      <3> QED BY <1>1, <3>2, <3>3, <3>4
    <2>3. \/ A # {} /\ out[k].file = spans[Min(A)].file
          \/ A = {} /\ \E j \in 1 .. n : /\ open[j].begin < k /\ out[k].file = open[j].file
                                         /\ \A l \in j + 1 .. n : k <= open[l].begin
      BY DEF Told
    <2>4. A \subseteq 1 .. last
      BY DEF Covers
    <2> HIDE DEF A, B
    <2>5. CASE A # {}
      <3>1. Min(A) \in A /\ \A i \in A : Min(A) <= i
        BY <2>1, <2>5, MinIsLeast
      <3>2. B # {} /\ Min(B) \in B /\ \A i \in B : Min(B) <= i
        BY <2>1, <2>2, <2>5, MinIsLeast
      <3>3. Min(A) \in 1 .. last /\ Min(A) < next
        BY <1>1, <2>4, <3>1
      <3> DEFINE a == Min(A)
                 b == Min(B)
      <3>4. a \in Nat /\ b \in Nat /\ b <= a /\ a < next /\ b \in B /\ \A i \in A : a <= i
        BY <2>1, <2>2, <3>1, <3>2, <3>3
      <3> HIDE DEF a, b
      <3>5. b # next
        BY <1>1, <3>4
      <3>6. b \in A
        BY <2>2, <3>4, <3>5
      <3>8. a <= b
        BY <3>4, <3>6
      <3>9. b = a
        BY <3>4, <3>8
      <3>7. Min(B) = Min(A)
        BY <3>9 DEF a, b
      <3> QED BY <2>3, <2>5, <3>2, <3>3, <3>7 DEF B
    <2>6. CASE A = {} /\ open[n].begin < k
      <3>1. B = {next}
        BY <2>2, <2>6
      <3>2. Min(B) = next
        BY <2>1, <3>1, MinIsLeast
      <3>3. PICK j \in 1 .. n : out[k].file = open[j].file /\ \A l \in j + 1 .. n : k <= open[l].begin
        BY <2>3, <2>6
      <3>4. j = n
        <4>1. ASSUME j \in 1 .. o PROVE FALSE
          <5>1. k <= open[n].begin
            BY <1>1, <3>3, <4>1
          <5> QED BY <1>1, <1>2, <2>6, <5>1
        <4> QED BY <1>1, <4>1
      <3> QED BY <3>1, <3>2, <3>3, <3>4 DEF B
    <2>7. CASE A = {} /\ ~(open[n].begin < k)
      <3>1. B = {}
        BY <2>2, <2>7
      <3>2. PICK j \in 1 .. n : /\ open[j].begin < k /\ out[k].file = open[j].file
                                /\ \A l \in j + 1 .. n : k <= open[l].begin
        BY <2>3, <2>7
      <3>3. j \in 1 .. o
        BY <1>1, <2>7, <3>2
      <3>4. \A l \in j + 1 .. o : l \in j + 1 .. n
        BY <1>1, <3>3
      <3> QED BY <3>1, <3>2, <3>3, <3>4 DEF B
    <2> QED BY <2>5, <2>6, <2>7
  <1>5. \A j \in 1 .. o : open[j].begin \in Nat /\ open[j].begin <= len
    BY <1>1, <1>2
  <1> QED BY <1>1, <1>3, <1>4, <1>5 DEF Told

-----------------------------------------------------------------------------
(* The ranges of files.                                                     *)
PreprocessedFile == [file : Nat, beginToken : Nat, endToken : Nat, beginComment : Nat, endComment : Nat]

TokenSpans(fs) == [i \in 1 .. Len(fs) |-> [file |-> fs[i].file, begin |-> fs[i].beginToken, end |-> fs[i].endToken]]
CommentSpans(fs) == [i \in 1 .. Len(fs) |-> [file |-> fs[i].file, begin |-> fs[i].beginComment, end |-> fs[i].endComment]]
TokenOpens(st) == [j \in 1 .. Len(st) |-> [file |-> st[j].file, begin |-> st[j].beginToken]]
CommentOpens(st) == [j \in 1 .. Len(st) |-> [file |-> st[j].file, begin |-> st[j].beginComment]]

ToldBy(out, said, fs, st) ==
    /\ Told(out, Len(out), TokenSpans(fs), Len(fs), TokenOpens(st), Len(st))
    /\ Told(said, Len(said), CommentSpans(fs), Len(fs), CommentOpens(st), Len(st))

MoreOf(out, more, file) == GoesOnIn(out, Len(out), more, Len(more), file)

\* The comments that wait are of the file that is read.
OwnComments(m) == \A i \in 1 .. Len(m.pending) : m.pending[i].file = m.file
AllOwnComments(st) == \A j \in 1 .. Len(st) : OwnComments(st[j])

\* What has been output is told of by the ranges of the files that have been read,
\* or else by the state machines of those that are being read.
RangesInv ==
    /\ files \in Seq(PreprocessedFile)
    /\ stack # <<>> => ToldBy(tokens, comments, files, stack) /\ AllOwnComments(stack)
    /\ Ended => RangesTellFiles

\* Nothing goes on.
LEMMA NoMoreOf ==
  ASSUME NEW S, NEW out \in Seq(S), NEW file
  PROVE  MoreOf(out, out, file)
  <1>1. Len(out) \in Nat
    BY LenProperties
  <1>2. Len(out) + 1 .. Len(out) = {}
    BY <1>1
  <1> QED BY <1>1, <1>2 DEF MoreOf, GoesOnIn

\* One more of a file.
LEMMA OneMoreOf ==
  ASSUME NEW S, NEW out \in Seq(S), NEW e \in S, NEW more, more = Append(out, e), NEW file, e.file = file
  PROVE  MoreOf(out, more, file)
  <1>1. Len(out) \in Nat /\ Len(more) = Len(out) + 1 /\ more[Len(out) + 1] = e /\ \A k \in 1 .. Len(out) : more[k] = out[k]
    BY AppendProperties, LenProperties
  <1>2. \A k \in Len(out) + 1 .. Len(more) : k = Len(out) + 1
    BY <1>1
  <1> QED BY <1>1, <1>2 DEF MoreOf, GoesOnIn

\* A token that is output is of its file.
LEMMA OutputMoreOf ==
  ASSUME NEW S, tokens \in Seq(S), NEW t, OutputToken(t) \in S, NEW m, NEW more, more = Output(m, t)
  PROVE  MoreOf(tokens, more, t.file)
  <1> DEFINE e == OutputToken(t)
  <1>1. e.file = t.file
    BY DEF OutputToken
  <1>2. CASE IsOutput(m, t)
    <2>1. more = Append(tokens, e)
      BY <1>2 DEF Output
    <2> HIDE DEF e
    <2> QED BY <1>1, <2>1, OneMoreOf DEF e
  <1>3. CASE ~IsOutput(m, t)
    <2>1. more = tokens
      BY <1>3 DEF Output
    <2> QED BY <2>1, NoMoreOf
  <1> QED BY <1>2, <1>3

\* So are the comments.
LEMMA FlushedMoreOf ==
  ASSUME comments \in Seq(Comment), Len(tokens) \in Nat, NEW m \in Machine, OwnComments(m), NEW t \in Token,
         NEW new, new = FlushedComments(m, t)
  PROVE  MoreOf(comments, new, m.file)
  <1> DEFINE a == Len(comments)
             p == Len(m.pending)
  <1>1. /\ Len(new) = a + p /\ a \in Nat /\ p \in Nat /\ \A k \in 1 .. a : new[k] = comments[k]
        /\ \A k \in 1 .. p : new[a + k].file = m.pending[k].file
    BY FlushedTyped
  <1>2. \A k \in 1 .. p : m.pending[k].file = m.file
    BY DEF OwnComments
  <1> HIDE DEF a, p
  <1>3. ASSUME NEW k \in a + 1 .. a + p PROVE new[k].file = m.file
    <2> DEFINE j == k - a
    <2>1. j \in 1 .. p /\ a + j = k
      BY <1>1
    <2> HIDE DEF j
    <2> QED BY <1>1, <1>2, <2>1
  <1>4. a + p \in Nat /\ a <= a + p
    BY <1>1
  <1> QED BY <1>1, <1>3, <1>4 DEF MoreOf, GoesOnIn, a

\* The state machines on a stack that begin where they began.
Alike(st, now, n) == \A j \in 1 .. n : Kept(st[j], now[j])

\* State machines that begin where they began open the same files.
LEMMA OpensAlike ==
  ASSUME NEW st, NEW now, NEW n \in Nat, Len(st) \in Nat, Len(now) \in Nat, n <= Len(st), n <= Len(now), Alike(st, now, n)
  PROVE  /\ \A j \in 1 .. n : TokenOpens(now)[j].begin = TokenOpens(st)[j].begin /\ TokenOpens(now)[j].file = TokenOpens(st)[j].file
         /\ \A j \in 1 .. n : CommentOpens(now)[j].begin = CommentOpens(st)[j].begin /\ CommentOpens(now)[j].file = CommentOpens(st)[j].file
  <1>1. \A j \in 1 .. n : j \in 1 .. Len(st) /\ j \in 1 .. Len(now)
    OBVIOUS
  <1>2. \A j \in 1 .. n : now[j].file = st[j].file /\ now[j].beginToken = st[j].beginToken /\ now[j].beginComment = st[j].beginComment
    BY DEF Alike, Kept
  <1> QED BY <1>1, <1>2 DEF TokenOpens, CommentOpens

\* More is output of the file that is read.
LEMMA TopGoesOn ==
  ASSUME NEW out, NEW said, NEW fs, NEW st, ToldBy(out, said, fs, st), Len(st) \in Nat, Len(st) > 0,
         NEW now, Len(now) = Len(st), Alike(st, now, Len(st)),
         NEW outs, MoreOf(out, outs, st[Len(st)].file), NEW says, MoreOf(said, says, st[Len(st)].file)
  PROVE  ToldBy(outs, says, fs, now)
  <1> DEFINE n == Len(st)
  <1>1. n \in Nat /\ n > 0 /\ n \in 1 .. n /\ n <= n
    OBVIOUS
  <1>2. TokenOpens(st)[n].file = st[n].file /\ CommentOpens(st)[n].file = st[n].file
    BY <1>1 DEF TokenOpens, CommentOpens
  <1>3. /\ Told(out, Len(out), TokenSpans(fs), Len(fs), TokenOpens(st), n)
        /\ Told(said, Len(said), CommentSpans(fs), Len(fs), CommentOpens(st), n)
    BY DEF ToldBy
  <1>4. /\ GoesOnIn(out, Len(out), outs, Len(outs), TokenOpens(st)[n].file)
        /\ GoesOnIn(said, Len(said), says, Len(says), CommentOpens(st)[n].file)
    BY <1>2 DEF MoreOf
  <1>5. /\ \A j \in 1 .. n : TokenOpens(now)[j].begin = TokenOpens(st)[j].begin /\ TokenOpens(now)[j].file = TokenOpens(st)[j].file
        /\ \A j \in 1 .. n : CommentOpens(now)[j].begin = CommentOpens(st)[j].begin /\ CommentOpens(now)[j].file = CommentOpens(st)[j].file
    BY <1>1, OpensAlike
  <1>6. Len(now) = n
    OBVIOUS
  <1> HIDE DEF n
  <1>7. Told(outs, Len(outs), TokenSpans(fs), Len(fs), TokenOpens(st), n) /\ Told(says, Len(says), CommentSpans(fs), Len(fs), CommentOpens(st), n)
    BY <1>1, <1>3, <1>4, ToldMore
  <1>8. Told(outs, Len(outs), TokenSpans(fs), Len(fs), TokenOpens(now), n)
    BY <1>5, <1>7, ToldAlike
  <1>9. Told(says, Len(says), CommentSpans(fs), Len(fs), CommentOpens(now), n)
    BY <1>5, <1>7, ToldAlike
  <1> QED BY <1>6, <1>8, <1>9 DEF ToldBy

\* A file is entered.
LEMMA FileOpened ==
  ASSUME NEW out, NEW said, NEW fs, NEW st, ToldBy(out, said, fs, st), NEW n, n = Len(st), n \in Nat,
         NEW now, Len(now) = n + 1, Alike(st, now, n), now[n + 1].beginToken = Len(out), now[n + 1].beginComment = Len(said)
  PROVE  ToldBy(out, said, fs, now)
  <1> DEFINE o == n + 1
  <1>1. o \in Nat /\ o \in 1 .. o /\ n <= o /\ n <= n /\ Len(now) = o
    OBVIOUS
  <1>2. /\ Told(out, Len(out), TokenSpans(fs), Len(fs), TokenOpens(st), n)
        /\ Told(said, Len(said), CommentSpans(fs), Len(fs), CommentOpens(st), n)
    BY DEF ToldBy
  <1>3. /\ \A j \in 1 .. n : TokenOpens(now)[j].begin = TokenOpens(st)[j].begin /\ TokenOpens(now)[j].file = TokenOpens(st)[j].file
        /\ \A j \in 1 .. n : CommentOpens(now)[j].begin = CommentOpens(st)[j].begin /\ CommentOpens(now)[j].file = CommentOpens(st)[j].file
    BY <1>1, OpensAlike
  <1>4. TokenOpens(now)[o].begin = Len(out) /\ CommentOpens(now)[o].begin = Len(said)
    BY <1>1 DEF TokenOpens, CommentOpens
  <1>5. IsAbove(o, n)
    BY DEF IsAbove
  <1> HIDE DEF o
  <1>6. Told(out, Len(out), TokenSpans(fs), Len(fs), TokenOpens(now), o)
    <2> DEFINE spans == TokenSpans(fs)
               last == Len(fs)
               open == TokenOpens(st)
               opens == TokenOpens(now)
               len == Len(out)
    <2>1. /\ Told(out, len, spans, last, open, n) /\ opens[o].begin = len
          /\ \A j \in 1 .. n : opens[j].begin = open[j].begin /\ opens[j].file = open[j].file
      BY <1>2, <1>3, <1>4
    <2> HIDE DEF spans, last, open, opens, len
    <2>2. Told(out, len, spans, last, opens, o)
      BY <1>5, <2>1, ToldEnter
    <2> QED BY <2>2 DEF spans, last, opens, len
  <1>7. Told(said, Len(said), CommentSpans(fs), Len(fs), CommentOpens(now), o)
    <2> DEFINE spans == CommentSpans(fs)
               last == Len(fs)
               open == CommentOpens(st)
               opens == CommentOpens(now)
               len == Len(said)
    <2>1. /\ Told(said, len, spans, last, open, n) /\ opens[o].begin = len
          /\ \A j \in 1 .. n : opens[j].begin = open[j].begin /\ opens[j].file = open[j].file
      BY <1>2, <1>3, <1>4
    <2> HIDE DEF spans, last, open, opens, len
    <2>2. Told(said, len, spans, last, opens, o)
      BY <1>5, <2>1, ToldEnter
    <2> QED BY <2>2 DEF spans, last, opens, len
  <1> QED BY <1>1, <1>6, <1>7 DEF ToldBy

\* The range of a file that has been read.
RangeOf(m, out, said) ==
    [file |-> m.file, beginToken |-> m.beginToken, endToken |-> Len(out),
     beginComment |-> m.beginComment, endComment |-> Len(said)]

\* The range of the innermost open file is output, which tells of what the file did.
LEMMA FileClosed ==
  ASSUME NEW out, NEW said, NEW fs \in Seq(PreprocessedFile), NEW st \in Seq(Machine), ToldBy(out, said, fs, st),
         NEW n, n = Len(st), n > 0, NEW r, r = RangeOf(st[n], out, said), NEW more, more = Append(fs, r)
  PROVE  /\ more \in Seq(PreprocessedFile)
         /\ Told(out, Len(out), TokenSpans(more), Len(more), TokenOpens(st), n - 1)
         /\ Told(said, Len(said), CommentSpans(more), Len(more), CommentOpens(st), n - 1)
  <1> DEFINE last == Len(fs)
             next == Len(more)
             o == n - 1
  <1>1. /\ Told(out, Len(out), TokenSpans(fs), last, TokenOpens(st), n)
        /\ Told(said, Len(said), CommentSpans(fs), last, CommentOpens(st), n)
    BY DEF ToldBy
  <1>2. Len(out) \in Nat /\ Len(said) \in Nat
    BY <1>1 DEF Told
  <1>3. n \in Nat /\ n \in 1 .. n /\ last \in Nat
    <2>1. n \in Nat /\ last \in Nat
      BY LenProperties
    <2> QED BY <2>1
  <1>4. r \in PreprocessedFile
    <2>1. st[n] \in Machine
      <3> HIDE DEF Machine
      <3> QED BY <1>3, ElementOfSeq
    <2>2. st[n].file \in Nat /\ st[n].beginToken \in Nat /\ st[n].beginComment \in Nat
      BY <2>1 DEF Machine
    <2> QED BY <1>2, <2>2 DEF RangeOf, PreprocessedFile
  <1>5. more \in Seq(PreprocessedFile) /\ next = last + 1 /\ more[next] = r /\ \A i \in 1 .. last : more[i] = fs[i]
    <2> HIDE DEF PreprocessedFile
    <2> QED BY <1>4, AppendProperties
  <1>6. next \in 1 .. next /\ \A i \in 1 .. last : i \in 1 .. next
    BY <1>3, <1>5
  <1>7. /\ \A i \in 1 .. last : TokenSpans(more)[i] = TokenSpans(fs)[i] /\ CommentSpans(more)[i] = CommentSpans(fs)[i]
        /\ TokenSpans(more)[next].file = r.file /\ TokenSpans(more)[next].begin = r.beginToken /\ TokenSpans(more)[next].end = r.endToken
        /\ CommentSpans(more)[next].file = r.file /\ CommentSpans(more)[next].begin = r.beginComment /\ CommentSpans(more)[next].end = r.endComment
    BY <1>5, <1>6 DEF TokenSpans, CommentSpans
  <1>8. /\ TokenOpens(st)[n].file = r.file /\ TokenOpens(st)[n].begin = r.beginToken /\ r.endToken = Len(out)
        /\ CommentOpens(st)[n].file = r.file /\ CommentOpens(st)[n].begin = r.beginComment /\ r.endComment = Len(said)
    BY <1>3 DEF TokenOpens, CommentOpens, RangeOf
  <1>9. o = n - 1
    OBVIOUS
  <1> HIDE DEF o, last, next
  <1>10. Told(out, Len(out), TokenSpans(more), next, TokenOpens(st), o)
    <2> DEFINE spans == TokenSpans(fs)
               new == TokenSpans(more)
               open == TokenOpens(st)
               len == Len(out)
    <2>1. /\ Told(out, len, spans, last, open, n) /\ \A i \in 1 .. last : new[i] = spans[i]
          /\ new[next].begin = open[n].begin /\ new[next].end = len /\ new[next].file = open[n].file
      BY <1>1, <1>7, <1>8
    <2> HIDE DEF spans, new, open, len
    <2>2. Told(out, len, new, next, open, o)
      BY <1>5, <1>9, <2>1, ToldLeave
    <2> QED BY <2>2 DEF new, open, len
  <1>11. Told(said, Len(said), CommentSpans(more), next, CommentOpens(st), o)
    <2> DEFINE spans == CommentSpans(fs)
               new == CommentSpans(more)
               open == CommentOpens(st)
               len == Len(said)
    <2>1. /\ Told(said, len, spans, last, open, n) /\ \A i \in 1 .. last : new[i] = spans[i]
          /\ new[next].begin = open[n].begin /\ new[next].end = len /\ new[next].file = open[n].file
      BY <1>1, <1>7, <1>8
    <2> HIDE DEF spans, new, open, len
    <2>2. Told(said, len, new, next, open, o)
      BY <1>5, <1>9, <2>1, ToldLeave
    <2> QED BY <2>2 DEF new, open, len
  <1> QED BY <1>5, <1>10, <1>11 DEF o, next

\* When no file is read any more, the ranges tell the file of everything.
RangesTell(out, said, fs) ==
    /\ \A k \in DOMAIN out :
           out[k].file = fs[Min({i \in DOMAIN fs : fs[i].beginToken < k /\ k <= fs[i].endToken})].file
    /\ \A k \in DOMAIN said :
           said[k].file = fs[Min({i \in DOMAIN fs : fs[i].beginComment < k /\ k <= fs[i].endComment})].file

\* When no file is read any more, the ranges tell of everything.
LEMMA AllClosed ==
  ASSUME NEW S, NEW out \in Seq(S), NEW R, NEW said \in Seq(R), NEW fs \in Seq(PreprocessedFile),
         NEW open, NEW opens,
         Told(out, Len(out), TokenSpans(fs), Len(fs), open, 0),
         Told(said, Len(said), CommentSpans(fs), Len(fs), opens, 0)
  PROVE  RangesTell(out, said, fs)
  <1>1. DOMAIN out = 1 .. Len(out) /\ DOMAIN said = 1 .. Len(said) /\ DOMAIN fs = 1 .. Len(fs)
    <2> HIDE DEF PreprocessedFile
    <2> QED BY LenProperties
  <1>2. 1 .. 0 = {}
    OBVIOUS
  <1>3. ASSUME NEW k \in DOMAIN out
        PROVE  out[k].file = fs[Min({i \in DOMAIN fs : fs[i].beginToken < k /\ k <= fs[i].endToken})].file
    <2> DEFINE A == Covers(TokenSpans(fs), Len(fs), k)
               B == {i \in DOMAIN fs : fs[i].beginToken < k /\ k <= fs[i].endToken}
    <2>1. A # {} /\ out[k].file = TokenSpans(fs)[Min(A)].file
      BY <1>1, <1>2, <1>3 DEF Told
    <2>2. A = B
      BY <1>1 DEF Covers, TokenSpans
    <2>3. A \subseteq 1 .. Len(fs)
      BY DEF Covers
    <2> HIDE DEF A, B
    <2>4. Min(A) \in A
      <3>1. A \in SUBSET Nat
        BY <2>3
      <3> QED BY <2>1, <3>1, MinIsLeast
    <2>5. TokenSpans(fs)[Min(A)].file = fs[Min(A)].file
      BY <2>3, <2>4 DEF TokenSpans
    <2> QED BY <2>1, <2>2, <2>5 DEF B
  <1>4. ASSUME NEW k \in DOMAIN said
        PROVE  said[k].file = fs[Min({i \in DOMAIN fs : fs[i].beginComment < k /\ k <= fs[i].endComment})].file
    <2> DEFINE A == Covers(CommentSpans(fs), Len(fs), k)
               B == {i \in DOMAIN fs : fs[i].beginComment < k /\ k <= fs[i].endComment}
    <2>1. A # {} /\ said[k].file = CommentSpans(fs)[Min(A)].file
      BY <1>1, <1>2, <1>4 DEF Told
    <2>2. A = B
      BY <1>1 DEF Covers, CommentSpans
    <2>3. A \subseteq 1 .. Len(fs)
      BY DEF Covers
    <2> HIDE DEF A, B
    <2>4. Min(A) \in A
      <3>1. A \in SUBSET Nat
        BY <2>3
      <3> QED BY <2>1, <3>1, MinIsLeast
    <2>5. CommentSpans(fs)[Min(A)].file = fs[Min(A)].file
      BY <2>3, <2>4 DEF CommentSpans
    <2> QED BY <2>1, <2>2, <2>5 DEF B
  <1> QED BY <1>3, <1>4 DEF RangesTell

-----------------------------------------------------------------------------
(* The steps, and the ranges of files.                                      *)

\* What is read.
LEMMA WhatIsRead ==
  ASSUME InclusionInv, stack # <<>>
  PROVE  /\ entries # <<>> /\ stack \in Seq(Machine) /\ Len(stack) \in Nat /\ Len(stack) > 0
         /\ tokens \in Seq(OutToken) /\ Len(tokens) \in Nat /\ comments \in Seq(Comment) /\ Len(comments) \in Nat
         /\ Top = stack[Len(stack)] /\ Top \in Machine
         /\ ~Top.ended => Lex(Top) \in Token /\ Lex(Top).file = Top.file
  <1>1. /\ entries # <<>> /\ Loaded /\ disk \in Disks /\ comments \in Seq(Comment)
        /\ IsRunning(disk, entries, stack, tokens, config)
    BY WhileReading
  <1>2. PICK parts, totals : Stacked(disk, entries, stack, parts, totals) /\ Says(entries, tokens, config, totals[Len(stack)])
    BY <1>1 DEF IsRunning
  <1>3. tokens \in Seq(OutToken) /\ Len(tokens) \in Nat
    BY <1>2, SaysTyped
  <1>4. stack \in Seq(Machine) /\ Len(stack) \in Nat /\ Len(stack) > 0 /\ Top = stack[Len(stack)] /\ Top \in Machine
    <2>1. stack \in Seq(Machine) /\ Len(stack) > 0
      BY <1>2 DEF Stacked
    <2> HIDE DEF Machine
    <2>2. Len(stack) \in Nat
      BY <2>1, LenProperties
    <2>3. Len(stack) \in 1 .. Len(stack)
      BY <2>1, <2>2
    <2> QED BY <2>1, <2>2, <2>3, ElementOfSeq DEF Top
  <1>5. ASSUME ~Top.ended PROVE Lex(Top) \in Token /\ Lex(Top).file = Top.file
    <2> DEFINE m == Top
               t == Lex(m)
               T == Text(m)
               n == Len(stack)
               path == entries[m.file].path
               headers == HeadersAt(disk, m.depth)
    <2> HIDE DEF m, t, T, n, path, headers
    <2>1. t \in Token /\ t.file = m.file
      BY <1>1, <1>2, <1>5, AtTop DEF m, t, T, n, path, headers
    <2> QED BY <2>1 DEF m, t
  <1>6. Len(comments) \in Nat
    <2> HIDE DEF Comment
    <2> QED BY <1>1, LenProperties
  <1> QED BY <1>1, <1>3, <1>4, <1>5, <1>6

\* A token as it is output.
LEMMA OutputTyped ==
  ASSUME NEW t \in Token
  PROVE  OutputToken(t) \in OutToken
  <1>1. t.text \in STRING \cup {"eof"} /\ t.file \in Nat /\ t.line \in Nat /\ t.column \in Nat
    BY DEF Token
  <1>2. <<t.line, t.column>> \in Seq(Nat)
    BY <1>1
  <1> QED BY <1>1, <1>2 DEF OutputToken, OutToken

\* The state machine at the top of the stack goes on.
LEMMA TopStep ==
  ASSUME InclusionInv, RangesInv, stack # <<>>, NEW g \in Machine, Kept(Top, g), OwnComments(g),
         stack' = Replaced(g), files' = files,
         MoreOf(tokens, tokens', Top.file), MoreOf(comments, comments', Top.file)
  PROVE  RangesInv'
  <1> DEFINE n == Len(stack)
  <1>1. stack \in Seq(Machine) /\ n \in Nat /\ n > 0 /\ n \in 1 .. n /\ Top = stack[n]
    BY WhatIsRead
  <1>2. stack' = [stack EXCEPT ![n] = g]
    BY DEF Replaced
  <1>3. Len(stack') = n /\ \A j \in 1 .. n : stack'[j] = IF j = n THEN g ELSE stack[j]
    <2> HIDE DEF Machine
    <2> QED BY <1>1, <1>2, ExceptSeq
  <1>4. stack' # <<>>
    <2>1. Len(<<>>) = 0
      OBVIOUS
    <2>2. Len(stack') # 0
      BY <1>1, <1>3
    <2> QED BY <2>1, <2>2
  <1> HIDE DEF n
  <1>5. Alike(stack, stack', n)
    <2>1. Kept(stack[n], g)
      BY <1>1
    <2>2. \A j \in 1 .. n : Kept(stack[j], stack[j])
      BY DEF Kept
    <2> QED BY <1>3, <2>1, <2>2 DEF Alike
  <1>6. ToldBy(tokens, comments, files, stack) /\ AllOwnComments(stack) /\ files \in Seq(PreprocessedFile)
    BY DEF RangesInv
  <1>7. ToldBy(tokens', comments', files, stack')
    <2> DEFINE now == stack'
               outs == tokens'
               says == comments'
    <2>1. Len(now) = n /\ Alike(stack, now, n) /\ MoreOf(tokens, outs, stack[n].file) /\ MoreOf(comments, says, stack[n].file)
      BY <1>1, <1>3, <1>5
    <2> HIDE DEF now, outs, says
    <2>2. ToldBy(outs, says, files, now)
      BY <1>1, <1>6, <2>1, TopGoesOn DEF n
    <2> QED BY <2>2 DEF now, outs, says
  <1>8. AllOwnComments(stack')
    BY <1>3, <1>6 DEF AllOwnComments, n
  <1>9. ~Ended'
    BY <1>4 DEF Ended
  <1> QED BY <1>6, <1>7, <1>8, <1>9 DEF RangesInv

\* No comment waits.
LEMMA NothingWaits ==
  ASSUME NEW m, m.pending = <<>>
  PROVE  OwnComments(m)
  <1>1. 1 .. Len(<<>>) = {}
    OBVIOUS
  <1> QED BY <1>1 DEF OwnComments

\* The comments that wait in the top state machine are of its file.
LEMMA TopOwnComments ==
  ASSUME InclusionInv, RangesInv, stack # <<>>
  PROVE  OwnComments(Top)
  <1>1. Len(stack) \in 1 .. Len(stack)
    BY WhatIsRead
  <1> QED BY <1>1 DEF RangesInv, AllOwnComments, Top

\* A token is fed.
LEMMA FedStep ==
  ASSUME InclusionInv, RangesInv, Reading, NEW g \in Machine, Kept(Top, g), g.pending = <<>>,
         stack' = Replaced(g), files' = files, comments' = FlushedComments(Top, Lex(Top)),
         NEW m, tokens' = tokens \/ tokens' = Output(m, Lex(Top))
  PROVE  RangesInv'
  <1> DEFINE t == Lex(Top)
  <1>1. /\ stack # <<>> /\ tokens \in Seq(OutToken) /\ Len(tokens) \in Nat /\ comments \in Seq(Comment) /\ Top \in Machine
        /\ t \in Token /\ t.file = Top.file
    BY WhatIsRead DEF Reading
  <1> HIDE DEF t
  <1>2. OwnComments(Top) /\ OwnComments(g)
    BY <1>1, TopOwnComments, NothingWaits
  <1>3. MoreOf(comments, comments', Top.file)
    <2>1. comments' = FlushedComments(Top, t)
      BY DEF t
    <2> QED BY <1>1, <1>2, <2>1, FlushedMoreOf
  <1>4. MoreOf(tokens, tokens', Top.file)
    <2>1. OutputToken(t) \in OutToken
      BY <1>1, OutputTyped
    <2>2. tokens' = tokens \/ tokens' = Output(m, t)
      BY DEF t
    <2> HIDE DEF OutToken
    <2>3. CASE tokens' = tokens
      BY <1>1, <2>3, NoMoreOf
    <2>4. CASE tokens' = Output(m, t)
      BY <1>1, <2>1, <2>4, OutputMoreOf
    <2> QED BY <2>2, <2>3, <2>4
  <1> QED BY <1>1, <1>2, <1>3, <1>4, TopStep

\* FeedComment keeps what the ranges tell.
LEMMA CommentRanges ==
  ASSUME InclusionInv, RangesInv, Reading, FeedComment
  PROVE  RangesInv'
  <1> DEFINE t == Lex(Top)
             a == Advance(Top)
             g == Pended(Top, t)
  <1>1. stack # <<>> /\ ~Top.ended /\ stack' = Replaced(g) /\ tokens' = tokens /\ comments' = comments /\ files' = files
    BY DEF Reading, FeedComment, Pended
  <1>2. Top \in Machine /\ t \in Token /\ t.file = Top.file /\ tokens \in Seq(OutToken) /\ comments \in Seq(Comment)
    BY <1>1, WhatIsRead
  <1>3. a \in Machine /\ Kept(Top, a) /\ a.pending = Top.pending /\ Top.pending \in Seq(Token)
    <2>1. Top.pending \in Seq(Token)
      BY <1>2 DEF Machine
    <2> HIDE DEF Machine, Token
    <2> QED BY <1>2, <2>1, Advanced
  <1> DEFINE p == Append(a.pending, t)
  <1>4. /\ p \in Seq(Token) /\ Len(p) = Len(Top.pending) + 1 /\ p[Len(Top.pending) + 1] = t /\ Len(Top.pending) \in Nat
        /\ \A k \in 1 .. Len(Top.pending) : p[k] = Top.pending[k]
    <2> HIDE DEF Token
    <2> QED BY <1>2, <1>3, AppendProperties, LenProperties
  <1>5. g = [a EXCEPT !.pending = p]
    BY DEF Pended
  <1> HIDE DEF g, a, p, t
  <1>6. g \in Machine /\ Kept(Top, g) /\ g.pending = p
    <2> HIDE DEF Token
    <2> QED BY <1>3, <1>4, <1>5 DEF Machine, Kept
  <1>7. OwnComments(g)
    <2>1. g.file = Top.file
      BY <1>6 DEF Kept
    <2>2. \A k \in 1 .. Len(p) : k = Len(Top.pending) + 1 \/ k \in 1 .. Len(Top.pending)
      BY <1>4
    <2>3. \A k \in 1 .. Len(Top.pending) : Top.pending[k].file = Top.file
      BY <1>1, TopOwnComments DEF OwnComments
    <2> QED BY <1>2, <1>4, <1>6, <2>1, <2>2, <2>3 DEF OwnComments
  <1>8. MoreOf(tokens, tokens', Top.file) /\ MoreOf(comments, comments', Top.file)
    <2> HIDE DEF OutToken, Comment
    <2> QED BY <1>1, <1>2, NoMoreOf
  <1> QED BY <1>1, <1>6, <1>7, <1>8, TopStep

\* SkipInactive does.
LEMMA SkippedRanges ==
  ASSUME InclusionInv, RangesInv, Reading, SkipInactive
  PROVE  RangesInv'
  <1> DEFINE t == Lex(Top)
             g == Advance(Top)
  <1>1. stack # <<>> /\ ~Top.ended /\ stack' = Replaced(g) /\ tokens' = tokens /\ comments' = comments /\ files' = files
    BY DEF Reading, SkipInactive
  <1>2. Top \in Machine /\ t \in Token /\ tokens \in Seq(OutToken) /\ comments \in Seq(Comment)
    BY <1>1, WhatIsRead
  <1>3. g \in Machine /\ Kept(Top, g) /\ g.pending = Top.pending
    <2> HIDE DEF Machine, Token
    <2> QED BY <1>2, Advanced
  <1> HIDE DEF g, t
  <1>4. OwnComments(g)
    BY <1>1, <1>3, TopOwnComments DEF OwnComments, Kept
  <1>5. MoreOf(tokens, tokens', Top.file) /\ MoreOf(comments, comments', Top.file)
    <2> HIDE DEF OutToken, Comment
    <2> QED BY <1>1, <1>2, NoMoreOf
  <1> QED BY <1>1, <1>3, <1>4, <1>5, TopStep

\* FeedText does.
LEMMA TextRanges ==
  ASSUME InclusionInv, RangesInv, Reading, FeedText
  PROVE  RangesInv'
  <1> DEFINE t == Lex(Top)
             f == Flushed(Advance(Top), t)
             g == AcceptOnText(f, t)
  <1>1. /\ stack # <<>> /\ ~Top.ended /\ stack' = Replaced(g) /\ tokens' = Output(f, t)
        /\ comments' = FlushedComments(Top, t) /\ files' = files
    BY DEF Reading, FeedText
  <1>2. Top \in Machine /\ t \in Token
    BY <1>1, WhatIsRead
  <1>3. f \in Machine /\ Kept(Top, f) /\ f.pending = <<>>
    <2> HIDE DEF Machine, Token
    <2> QED BY <1>2, AdvancedFlushed
  <1>4. g \in Machine /\ Kept(f, g) /\ g.pending = <<>>
    <2> HIDE DEF f, t, Machine, Token
    <2> QED BY <1>2, <1>3, AcceptedText
  <1> HIDE DEF f, g
  <1>5. Kept(Top, g)
    BY <1>3, <1>4 DEF Kept
  <1> QED BY <1>1, <1>4, <1>5, FedStep

\* What is known of a token that is fed in a directive.
LEMMA InDirectiveRead ==
  ASSUME InclusionInv, Reading, NEW T, T = Text(Top), NEW path, path = entries[Top.file].path, NEW headers, headers = HeadersAt(disk, Top.depth)
  PROVE  /\ Top \in Machine /\ T \in FileTexts /\ path \in Paths /\ headers \in Headers
         /\ \E items \in Seq(Item) : Reads(Top, path, T, headers, items)
  <1>1. stack # <<>> /\ ~Top.ended
    BY DEF Reading
  <1>2. Loaded /\ disk \in Disks /\ IsRunning(disk, entries, stack, tokens, config)
    BY <1>1, WhileReading
  <1>3. PICK parts, totals : Stacked(disk, entries, stack, parts, totals)
    BY <1>2 DEF IsRunning
  <1> DEFINE m == Top
             t == Lex(m)
             n == Len(stack)
  <1> HIDE DEF m, t, n
  <1>4. m \in Machine /\ T \in FileTexts /\ path \in Paths /\ headers \in Headers /\ parts[n] \in Seq(Item) /\ Reads(m, path, T, headers, parts[n])
    <2>1. /\ m = Top /\ t = Lex(m) /\ n = Len(stack) /\ T = Text(m) /\ path = entries[m.file].path
          /\ headers = HeadersAt(disk, m.depth) /\ ~m.ended
      BY <1>1 DEF m, t, n
    <2> QED BY <1>2, <1>3, <2>1, AtTop
  <1> QED BY <1>4 DEF m

\* FeedDirectiveToken does.
LEMMA DirectiveTokenRanges ==
  ASSUME InclusionInv, RangesInv, Reading, FeedDirectiveToken
  PROVE  RangesInv'
  <1> DEFINE m == Top
             t == Lex(m)
             T == Text(m)
             path == entries[m.file].path
             headers == HeadersAt(disk, m.depth)
             f == Flushed(Advance(m), t)
             g == IF f.state = "ExpectDirective" THEN AcceptOnExpectDirective(f, t) ELSE AcceptOnExpectDirectiveTail(f, t)
  <1>1. /\ ~m.ended /\ ~IsComment(t) /\ InDirective(m) /\ ~EndsDirective(m, t) /\ stack' = Replaced(g)
        /\ comments' = FlushedComments(m, t) /\ tokens' = tokens /\ files' = files
    BY DEF Reading, FeedDirectiveToken
  <1>2. T = Text(m) /\ t = Lex(m) /\ f = Flushed(Advance(m), t) /\ path = entries[m.file].path /\ headers = HeadersAt(disk, m.depth)
        /\ g = IF f.state = "ExpectDirective" THEN AcceptOnExpectDirective(f, t) ELSE AcceptOnExpectDirectiveTail(f, t)
    OBVIOUS
  <1> HIDE DEF m, t, T, path, headers, f, g
  <1>3. m \in Machine /\ T \in FileTexts /\ path \in Paths /\ headers \in Headers
    BY <1>2, InDirectiveRead DEF m
  <1>4. PICK items \in Seq(Item) : Reads(m, path, T, headers, items)
    BY <1>2, InDirectiveRead DEF m
  <1>5. g \in Machine /\ Kept(m, g) /\ g.pending = <<>>
    BY <1>1, <1>2, <1>3, <1>4, StepDirective
  <1> QED BY <1>1, <1>5, FedStep DEF m, t

\* EndDirective does.
LEMMA DirectiveEndRanges ==
  ASSUME InclusionInv, RangesInv, Reading, EndDirective
  PROVE  RangesInv'
  <1> DEFINE m == Top
             t == Lex(m)
             T == Text(m)
             path == entries[m.file].path
             headers == HeadersAt(disk, m.depth)
             f == Flushed(Advance(m), t)
             h == HandleConditional(f)
             a == AfterDirective(h)
             g == AcceptOnText(a, t)
  <1>1. /\ stack # <<>> /\ ~m.ended /\ ~IsComment(t) /\ EndsDirective(m, t) /\ stack' = Replaced(g)
        /\ comments' = FlushedComments(m, t) /\ tokens' = Output(a, t) /\ files' = files
    BY DEF Reading, EndDirective
  <1>2. T = Text(m) /\ t = Lex(m) /\ f = Flushed(Advance(m), t) /\ path = entries[m.file].path /\ headers = HeadersAt(disk, m.depth)
        /\ h = HandleConditional(f) /\ a = AfterDirective(h) /\ g = AcceptOnText(a, t)
    OBVIOUS
  <1>0. t \in Token
    BY <1>1, WhatIsRead
  <1> HIDE DEF m, t, T, path, headers, f, h, a, g
  <1>3. m \in Machine /\ T \in FileTexts /\ path \in Paths /\ headers \in Headers
    BY <1>2, InDirectiveRead DEF m
  <1>4. PICK items \in Seq(Item) : Reads(m, path, T, headers, items)
    BY <1>2, InDirectiveRead DEF m
  <1>5. h \in Machine /\ Kept(m, h) /\ h.pending = <<>>
    BY <1>1, <1>2, <1>3, <1>4, StepEnd
  <1>6. a \in Machine /\ Kept(h, a) /\ a.pending = <<>>
    BY <1>2, <1>5, AfterTyped
  <1>7. g \in Machine /\ Kept(a, g) /\ g.pending = <<>>
    BY <1>0, <1>2, <1>6, AcceptedText
  <1>8. Kept(m, g)
    BY <1>5, <1>6, <1>7 DEF Kept
  <1> QED BY <1>1, <1>7, <1>8, FedStep DEF m, t

\* EnterInclude does: the header begins where the output ends.
LEMMA EnterRanges ==
  ASSUME InclusionInv, RangesInv, Reading, EnterInclude
  PROVE  RangesInv'
  <1> DEFINE m == Top
             t == Lex(m)
             n == Len(stack)
             f == Flushed(Advance(m), t)
             o == [f EXCEPT !.redirected = <<t>>]
             file == Search(Manager, Arg(f.directive, 1)).file
             range == IF f.expansion # <<>> THEN f.expansion ELSE <<f.directive[2].line, f.directive[2].column>>
             inner == NewMachine(file, f.depth + 1, range, Len(tokens), Len(comments'))
             now == [stack EXCEPT ![n] = o]
  <1>1. /\ stack # <<>> /\ ~m.ended /\ comments' = FlushedComments(m, t) /\ tokens' = tokens /\ files' = files
        /\ stack' = Append(now, inner)
    BY DEF Reading, EnterInclude, Replaced
  <1>2. /\ m \in Machine /\ t \in Token /\ t.file = m.file /\ tokens \in Seq(OutToken) /\ Len(tokens) \in Nat
        /\ comments \in Seq(Comment) /\ stack \in Seq(Machine) /\ n \in Nat /\ n > 0 /\ n \in 1 .. n /\ m = stack[n]
    BY <1>1, WhatIsRead
  <1>3. f \in Machine /\ Kept(m, f) /\ f.pending = <<>>
    <2> HIDE DEF Machine, Token
    <2> QED BY <1>2, AdvancedFlushed
  <1>4. o \in Machine /\ Kept(m, o) /\ o.pending = <<>>
    <2> DEFINE r == <<t>>
    <2>1. r \in Seq(Token) /\ o = [f EXCEPT !.redirected = r]
      BY <1>2
    <2> HIDE DEF r, f, o, Token
    <2> QED BY <1>3, <2>1 DEF Machine, Kept
  <1>5. inner.beginToken = Len(tokens) /\ inner.beginComment = Len(comments') /\ inner.pending = <<>>
    BY DEF NewMachine
  <1> HIDE DEF m, t, n, f, o, inner, now
  <1>6. now \in Seq(Machine) /\ Len(now) = n /\ \A j \in 1 .. n : now[j] = IF j = n THEN o ELSE stack[j]
    <2> HIDE DEF Machine
    <2> QED BY <1>2, <1>4, ExceptSeq DEF now, n
  <1> DEFINE S == Machine \cup {inner}
  <1>7. Len(stack') = n + 1 /\ stack'[n + 1] = inner /\ \A j \in 1 .. n : stack'[j] = now[j]
    <2> HIDE DEF Machine
    <2>1. now \in Seq(S) /\ inner \in S
      <3>1. \A j \in 1 .. n : now[j] \in S
        BY <1>6, ElementOfSeq
      <3>2. now = [j \in 1 .. n |-> now[j]]
        BY <1>6, LenProperties
      <3>3. n \in Nat
        BY <1>2
      <3> HIDE DEF S
      <3>4. now \in Seq(S)
        BY <3>1, <3>2, <3>3, IsASeq
      <3> QED BY <3>4 DEF S
    <2> HIDE DEF S
    <2> QED BY <1>1, <1>6, <2>1, AppendProperties
  <1>8. OwnComments(m) /\ OwnComments(o) /\ OwnComments(inner)
    BY <1>1, <1>4, <1>5, TopOwnComments, NothingWaits DEF m
  <1>9. MoreOf(comments, comments', m.file) /\ MoreOf(tokens, tokens, m.file)
    <2>1. MoreOf(comments, comments', m.file)
      BY <1>1, <1>2, <1>8, FlushedMoreOf
    <2> HIDE DEF OutToken
    <2> QED BY <1>2, <2>1, NoMoreOf
  <1>10. ToldBy(tokens, comments, files, stack) /\ AllOwnComments(stack) /\ files \in Seq(PreprocessedFile)
    BY <1>1 DEF RangesInv
  <1>11. Alike(stack, now, n)
    <2>1. Kept(stack[n], o)
      BY <1>2, <1>4
    <2>2. \A j \in 1 .. n : Kept(stack[j], stack[j])
      BY DEF Kept
    <2> QED BY <1>6, <2>1, <2>2 DEF Alike
  <1>12. ToldBy(tokens, comments', files, now)
    <2> DEFINE says == comments'
    <2>1. MoreOf(comments, says, stack[n].file) /\ MoreOf(tokens, tokens, stack[n].file)
      BY <1>2, <1>9
    <2> HIDE DEF says
    <2>2. ToldBy(tokens, says, files, now)
      BY <1>2, <1>6, <1>10, <1>11, <2>1, TopGoesOn DEF n
    <2> QED BY <2>2 DEF says
  <1>13. ToldBy(tokens', comments', files', stack')
    <2> DEFINE all == stack'
               says == comments'
    <2>1. Alike(now, all, n)
      <3>1. \A j \in 1 .. n : Kept(now[j], now[j])
        BY DEF Kept
      <3> QED BY <1>7, <3>1 DEF Alike
    <2>2. n = Len(now) /\ Len(all) = n + 1 /\ all[n + 1].beginToken = Len(tokens) /\ all[n + 1].beginComment = Len(says)
      BY <1>5, <1>6, <1>7
    <2> HIDE DEF all, says
    <2>3. ToldBy(tokens, says, files, now)
      BY <1>12 DEF says
    <2>4. ToldBy(tokens, says, files, all)
      BY <1>2, <2>1, <2>2, <2>3, FileOpened
    <2> QED BY <1>1, <2>4 DEF all, says
  <1>14. AllOwnComments(stack')
    <2>1. \A j \in 1 .. n + 1 : j = n + 1 \/ j \in 1 .. n
      BY <1>2
    <2>2. \A j \in 1 .. n : OwnComments(stack[j])
      BY <1>10 DEF AllOwnComments, n
    <2> QED BY <1>6, <1>7, <1>8, <2>1, <2>2 DEF AllOwnComments
  <1>15. stack' # <<>>
    <2>1. Len(<<>>) = 0
      OBVIOUS
    <2>2. Len(stack') # 0
      BY <1>2, <1>7
    <2> QED BY <2>1, <2>2
  <1> QED BY <1>1, <1>10, <1>13, <1>14, <1>15 DEF RangesInv, Ended

\* LeaveFile does: the header's range ends where the output ends, before the kept token.
LEMMA LeaveRanges ==
  ASSUME InclusionInv, RangesInv, LeaveFile
  PROVE  RangesInv'
  <1> DEFINE n == Len(stack)
             b == n - 1
             outer == stack[b]
             t == outer.redirected[1]
             i == [outer EXCEPT !.redirected = <<>>]
             m == AfterDirective(i)
             a == AcceptOnText(m, t)
             r == RangeOf(stack[n], tokens, comments)
             low == [j \in 1 .. b |-> stack[j]]
  <1>1. /\ n > 1 /\ Top.ended /\ tokens' = Output(m, t) /\ comments' = comments
        /\ stack' = Append(SubSeq(stack, 1, n - 2), a)
        /\ files' = Append(files, r)
        /\ UNCHANGED <<disk, entries>>
    BY DEF LeaveFile, sources, FileRange, RangeOf, Top
  <1>2. stack # <<>>
    <2>1. Len(<<>>) = 0
      OBVIOUS
    <2> QED BY <1>1, <2>1
  <1>3. /\ stack \in Seq(Machine) /\ n \in Nat /\ tokens \in Seq(OutToken) /\ comments \in Seq(Comment)
        /\ b \in Nat /\ b > 0 /\ b \in 1 .. n /\ b \in 1 .. b /\ n - 2 = b - 1 /\ b + 1 = n
    <2>1. stack \in Seq(Machine) /\ n \in Nat /\ tokens \in Seq(OutToken) /\ comments \in Seq(Comment)
      BY <1>2, WhatIsRead
    <2>2. n > 1
      BY <1>1
    <2> HIDE DEF n
    <2>3. b \in Nat /\ b > 0 /\ b \in 1 .. n /\ b \in 1 .. b /\ n - 2 = b - 1 /\ b + 1 = n
      BY <2>1, <2>2
    <2> QED BY <2>1, <2>3
  <1>4. Leaves(stack, n, outer, t, m, stack')
    BY <1>1 DEF Leaves, Top
  <1> HIDE DEF n, b, outer, t, m, a, r, i, low
  <1>5. t \in Token /\ t.file = outer.file
    <2>1. disk \in Disks /\ entries \in Seq(Entry) /\ IsRunning(disk, entries, stack, tokens, config)
      BY <1>2, WhileReading
    <2>2. PICK parts, totals : Stacked(disk, entries, stack, parts, totals)
      BY <2>1 DEF IsRunning
    <2> QED BY <1>4, <2>1, <2>2, Left
  <1>6. outer \in Machine /\ OwnComments(outer) /\ outer = stack[b]
    <2>1. outer = stack[b]
      BY DEF outer
    <2>2. OwnComments(stack[b])
      BY <1>2, <1>3 DEF RangesInv, AllOwnComments, n
    <2> HIDE DEF Machine
    <2> QED BY <1>3, <2>1, <2>2, ElementOfSeq DEF n
  <1>7. a \in Machine /\ Kept(outer, a) /\ a.pending = outer.pending
    <2>1. i = [outer EXCEPT !.redirected = <<>>] /\ <<>> \in Seq(Token)
      BY DEF i
    <2> HIDE DEF Token
    <2>2. i \in Machine /\ Kept(outer, i) /\ i.pending = outer.pending
      BY <1>6, <2>1 DEF Machine, Kept
    <2> HIDE DEF Machine
    <2>3. m \in Machine /\ Kept(i, m) /\ m.pending = i.pending
      BY <2>2, AfterTyped DEF m
    <2>4. a \in Machine /\ Kept(m, a) /\ a.pending = m.pending
      BY <1>5, <2>3, AcceptedText DEF a
    <2> QED BY <2>2, <2>3, <2>4 DEF Kept
  <1>8. Len(stack') = b /\ stack'[b] = a /\ \A k \in 1 .. b - 1 : stack'[k] = stack[k]
    <2>1. AcceptOnText(m, t) \in Machine
      BY <1>7 DEF a
    <2> HIDE DEF Machine
    <2>2. Len(stack') = n - 1 /\ stack'[n - 1] = AcceptOnText(m, t) /\ \A k \in 1 .. n - 2 : stack'[k] = stack[k]
      BY <1>3, <1>4, <2>1, StackLeft
    <2> QED BY <1>3, <2>2 DEF a, b
  <1>9. ToldBy(tokens, comments, files, stack) /\ AllOwnComments(stack) /\ files \in Seq(PreprocessedFile)
    BY <1>2 DEF RangesInv
  <1>10. /\ files' \in Seq(PreprocessedFile)
         /\ Told(tokens, Len(tokens), TokenSpans(files'), Len(files'), TokenOpens(stack), b)
         /\ Told(comments, Len(comments), CommentSpans(files'), Len(files'), CommentOpens(stack), b)
    <2> DEFINE more == files'
    <2>1. more = Append(files, r) /\ r = RangeOf(stack[n], tokens, comments) /\ n = Len(stack) /\ n > 0
      BY <1>1, <1>3 DEF r, n
    <2> HIDE DEF more, Machine, PreprocessedFile
    <2>2. /\ more \in Seq(PreprocessedFile)
          /\ Told(tokens, Len(tokens), TokenSpans(more), Len(more), TokenOpens(stack), n - 1)
          /\ Told(comments, Len(comments), CommentSpans(more), Len(more), CommentOpens(stack), n - 1)
      BY <1>3, <1>9, <2>1, FileClosed
    <2> QED BY <2>2 DEF more, b
  <1>11. low \in Seq(Machine) /\ Len(low) = b /\ \A j \in 1 .. b : low[j] = stack[j]
    <2>1. \A j \in 1 .. b : stack[j] \in Machine
      <3>1. \A j \in 1 .. b : j \in 1 .. Len(stack)
        BY <1>3 DEF n
      <3> HIDE DEF Machine
      <3> QED BY <1>3, <3>1, ElementOfSeq
    <2>2. low = [j \in 1 .. b |-> stack[j]]
      BY DEF low
    <2> HIDE DEF Machine
    <2> QED BY <1>3, <2>1, <2>2, IsASeq, LenProperties
  <1>12. ToldBy(tokens, comments, files', low)
    <2>1. Alike(stack, low, b)
      <3>1. \A j \in 1 .. b : Kept(stack[j], stack[j])
        BY DEF Kept
      <3> QED BY <1>11, <3>1 DEF Alike
    <2>2. Len(stack) \in Nat /\ b <= Len(stack) /\ Len(low) \in Nat /\ b <= Len(low)
      BY <1>3, <1>11 DEF n
    <2>3. /\ \A j \in 1 .. b : TokenOpens(low)[j].begin = TokenOpens(stack)[j].begin /\ TokenOpens(low)[j].file = TokenOpens(stack)[j].file
          /\ \A j \in 1 .. b : CommentOpens(low)[j].begin = CommentOpens(stack)[j].begin /\ CommentOpens(low)[j].file = CommentOpens(stack)[j].file
      BY <1>3, <2>1, <2>2, OpensAlike
    <2>4. Told(tokens, Len(tokens), TokenSpans(files'), Len(files'), TokenOpens(low), b)
      BY <1>10, <2>3, ToldAlike
    <2>5. Told(comments, Len(comments), CommentSpans(files'), Len(files'), CommentOpens(low), b)
      BY <1>10, <2>3, ToldAlike
    <2> QED BY <1>11, <2>4, <2>5 DEF ToldBy
  <1>13. MoreOf(tokens, tokens', outer.file) /\ MoreOf(comments, comments', outer.file)
    <2>1. OutputToken(t) \in OutToken
      BY <1>5, OutputTyped
    <2> HIDE DEF OutToken, Comment
    <2>2. MoreOf(tokens, tokens', t.file)
      BY <1>1, <1>3, <2>1, OutputMoreOf
    <2> QED BY <1>1, <1>3, <1>5, <2>2, NoMoreOf
  <1>14. \A j \in 1 .. b : stack'[j] = IF j = b THEN a ELSE stack[j]
    <2>1. \A j \in 1 .. b : j = b \/ j \in 1 .. b - 1
      BY <1>3
    <2> QED BY <1>8, <2>1
  <1>15. ToldBy(tokens', comments', files', stack')
    <2> DEFINE outs == tokens'
               says == comments'
               fs == files'
               now == stack'
    <2>1. Alike(low, now, b)
      <3>1. \A j \in 1 .. b : Kept(low[j], low[j])
        BY DEF Kept
      <3>2. Kept(low[b], a)
        BY <1>3, <1>6, <1>7, <1>11
      <3> QED BY <1>11, <1>14, <3>1, <3>2 DEF Alike
    <2>2. ToldBy(tokens, comments, fs, low) /\ MoreOf(tokens, outs, low[b].file) /\ MoreOf(comments, says, low[b].file) /\ Len(now) = b
      BY <1>3, <1>6, <1>8, <1>11, <1>12, <1>13
    <2> HIDE DEF outs, says, fs, now
    <2>3. ToldBy(outs, says, fs, now)
      BY <1>3, <1>11, <2>1, <2>2, TopGoesOn
    <2> QED BY <2>3 DEF outs, says, fs, now
  <1>16. AllOwnComments(stack')
    <2>1. OwnComments(a)
      BY <1>6, <1>7 DEF OwnComments, Kept
    <2>2. \A j \in 1 .. b : OwnComments(stack[j])
      <3>1. \A j \in 1 .. b : j \in 1 .. Len(stack)
        BY <1>3 DEF n
      <3> QED BY <1>9, <3>1 DEF AllOwnComments
    <2> QED BY <1>8, <1>14, <2>1, <2>2 DEF AllOwnComments
  <1>17. stack' # <<>>
    <2>1. Len(<<>>) = 0
      OBVIOUS
    <2>2. Len(stack') # 0
      BY <1>3, <1>8
    <2> QED BY <2>1, <2>2
  <1> QED BY <1>10, <1>15, <1>16, <1>17 DEF RangesInv, Ended

\* Finish does: the end of the main file is in its range.
LEMMA FinishRanges ==
  ASSUME InclusionInv, RangesInv, Finish
  PROVE  RangesInv'
  <1> DEFINE m == Top
             t == Lex(m)
             o == OutputToken(t)
             r == RangeOf(stack[1], tokens', comments)
  <1>1. /\ Len(stack) = 1 /\ tokens' = Append(tokens, o) /\ comments' = comments /\ stack' = <<>>
        /\ files' = Append(files, r) /\ m = stack[1]
    BY DEF Finish, FileRange, RangeOf, Top
  <1>2. stack # <<>>
    <2>1. Len(<<>>) = 0
      OBVIOUS
    <2>2. Len(stack) # 0
      BY <1>1
    <2> QED BY <2>1, <2>2
  <1>3. stack \in Seq(Machine) /\ tokens \in Seq(OutToken) /\ comments \in Seq(Comment)
    BY <1>2, WhatIsRead
  <1>4. o.file = m.file
    BY DEF OutputToken, Lex
  <1> HIDE DEF o, m, r
  <1> DEFINE W == OutToken \cup {o}
  <1>5. tokens \in Seq(W) /\ o \in W
    <2> HIDE DEF OutToken
    <2>1. \A k \in 1 .. Len(tokens) : tokens[k] \in W
      BY <1>3, ElementOfSeq
    <2>2. tokens = [k \in 1 .. Len(tokens) |-> tokens[k]] /\ Len(tokens) \in Nat
      BY <1>3, LenProperties
    <2> QED BY <2>1, <2>2, IsASeq
  <1> HIDE DEF W
  <1>6. tokens' \in Seq(W)
    BY <1>1, <1>5, AppendProperties
  <1>7. MoreOf(tokens, tokens', m.file) /\ MoreOf(comments, comments, m.file)
    <2> HIDE DEF Comment
    <2> QED BY <1>1, <1>3, <1>4, <1>5, OneMoreOf, NoMoreOf
  <1>8. ToldBy(tokens, comments, files, stack) /\ files \in Seq(PreprocessedFile)
    BY <1>2 DEF RangesInv
  <1>9. ToldBy(tokens', comments, files, stack)
    <2> DEFINE outs == tokens'
               n == Len(stack)
    <2>1. Alike(stack, stack, n) /\ n \in Nat /\ n > 0 /\ stack[n] = m
      BY <1>1 DEF Alike, Kept
    <2>2. MoreOf(tokens, outs, stack[n].file) /\ MoreOf(comments, comments, stack[n].file)
      BY <1>7, <2>1
    <2> HIDE DEF outs
    <2>3. ToldBy(outs, comments, files, stack)
      BY <1>8, <2>1, <2>2, TopGoesOn
    <2> QED BY <2>3 DEF outs
  <1>10. /\ files' \in Seq(PreprocessedFile)
         /\ Told(tokens', Len(tokens'), TokenSpans(files'), Len(files'), TokenOpens(stack), 0)
         /\ Told(comments, Len(comments), CommentSpans(files'), Len(files'), CommentOpens(stack), 0)
    <2> DEFINE more == files'
               outs == tokens'
               n == Len(stack)
    <2>1. more = Append(files, r) /\ r = RangeOf(stack[n], outs, comments) /\ n > 0 /\ n - 1 = 0 /\ ToldBy(outs, comments, files, stack)
      BY <1>1, <1>9 DEF r
    <2> HIDE DEF more, outs, Machine, PreprocessedFile, n
    <2>2. /\ more \in Seq(PreprocessedFile)
          /\ Told(outs, Len(outs), TokenSpans(more), Len(more), TokenOpens(stack), n - 1)
          /\ Told(comments, Len(comments), CommentSpans(more), Len(more), CommentOpens(stack), n - 1)
      BY <1>3, <1>8, <2>1, FileClosed DEF n
    <2> QED BY <2>1, <2>2 DEF more, outs
  <1>11. RangesTellFiles'
    <2> DEFINE outs == tokens'
               fs == files'
    <2>1. /\ outs \in Seq(W) /\ fs \in Seq(PreprocessedFile)
          /\ Told(outs, Len(outs), TokenSpans(fs), Len(fs), TokenOpens(stack), 0)
          /\ Told(comments, Len(comments), CommentSpans(fs), Len(fs), CommentOpens(stack), 0)
      BY <1>6, <1>10
    <2> HIDE DEF outs, fs, Comment, PreprocessedFile
    <2>2. RangesTell(outs, comments, fs)
      BY <1>3, <2>1, AllClosed
    <2>3. RangesTell(tokens', comments', files')
      BY <1>1, <2>2 DEF outs, fs
    <2> QED BY <2>3 DEF RangesTell, RangesTellFiles, Innermost
  <1> QED BY <1>1, <1>10, <1>11 DEF RangesInv

\* StartMainFile does.
LEMMA StartRanges ==
  ASSUME InclusionInv, RangesInv, StartMainFile
  PROVE  RangesInv'
  <1> DEFINE m == NewMachine(MainFile, 0, <<>>, 0, 0)
             now == <<m>>
  <1>1. /\ entries = <<>> /\ NothingYet /\ stack' = now /\ tokens' = tokens /\ comments' = comments /\ files' = files
    BY DEF InclusionInv, StartMainFile
  <1>2. tokens = <<>> /\ comments = <<>> /\ files = <<>>
    BY <1>1 DEF NothingYet
  <1>3. Len(<<>>) = 0 /\ 1 .. 0 = {} /\ 1 .. 1 = {1} /\ <<>> \in Seq(PreprocessedFile)
    OBVIOUS
  <1>4. m.beginToken = 0 /\ m.beginComment = 0 /\ m.pending = <<>>
    BY DEF NewMachine
  <1> HIDE DEF m
  <1>5. Len(now) = 1 /\ now[1] = m /\ now # <<>>
    OBVIOUS
  <1> HIDE DEF now
  <1>6. TokenOpens(now)[1].begin = 0 /\ CommentOpens(now)[1].begin = 0
    BY <1>3, <1>4, <1>5 DEF TokenOpens, CommentOpens
  <1>7. Told(<<>>, 0, TokenSpans(<<>>), 0, TokenOpens(now), 1) /\ Told(<<>>, 0, CommentSpans(<<>>), 0, CommentOpens(now), 1)
    BY <1>3, <1>6 DEF Told
  <1>8. ToldBy(<<>>, <<>>, <<>>, now)
    BY <1>3, <1>5, <1>7 DEF ToldBy
  <1>9. AllOwnComments(now)
    BY <1>3, <1>4, <1>5, NothingWaits DEF AllOwnComments
  <1> QED BY <1>1, <1>2, <1>3, <1>5, <1>8, <1>9 DEF RangesInv, Ended

\* Initially nothing has been read or output.
LEMMA FilesBegin ==
  ASSUME FileInit
  PROVE  InclusionInv /\ RangesInv
  <1>1. /\ disk \in Disks /\ entries = <<>> /\ lookup = <<>> /\ canonical = <<>> /\ stack = <<>>
        /\ tokens = <<>> /\ comments = <<>> /\ files = <<>>
        /\ config.version = "460" /\ config.extensions = {}
        /\ config = [version |-> "460", profile |-> "core", extensions |-> {}]
    BY DEF FileInit
  <1>2. config \in Config
    BY <1>1 DEF Config, Versions, Profiles
  <1>3. <<>> \in Seq(Comment) /\ <<>> \in Seq(PreprocessedFile)
    OBVIOUS
  <1>4. InclusionInv
    BY <1>1, <1>2, <1>3 DEF InclusionInv, NothingYet
  <1>5. RangesInv
    BY <1>1, <1>3 DEF RangesInv, Ended
  <1> QED BY <1>4, <1>5

\* Every step keeps the invariant.
LEMMA FileStepKeeps ==
  ASSUME InclusionInv, RangesInv, [FileNext]_fileVars
  PROVE  InclusionInv' /\ RangesInv'
  <1>1. CASE UNCHANGED fileVars
    <2>1. UNCHANGED <<disk, entries, lookup, canonical, stack, tokens, comments, files, config>>
      BY <1>1 DEF fileVars
    <2>2. InclusionInv'
      BY <2>1 DEF InclusionInv, NothingYet, Loaded, SaidAll, ConfigIsMeant, MeantItems, Position
    <2>3. RangesInv'
      BY <2>1 DEF RangesInv, Ended, RangesTellFiles, Innermost
    <2> QED BY <2>2, <2>3
  <1>2. CASE StartMainFile
    BY <1>2, MainFileStarts, StartRanges
  <1>3. CASE Reading /\ FeedComment
    BY <1>3, CommentFed, CommentRanges
  <1>4. CASE Reading /\ SkipInactive
    BY <1>4, TokenSkipped, SkippedRanges
  <1>5. CASE Reading /\ FeedText
    BY <1>5, TextFed, TextRanges
  <1>6. CASE Reading /\ FeedDirectiveToken
    BY <1>6, DirectiveTokenFed, DirectiveTokenRanges
  <1>7. CASE Reading /\ EndDirective
    BY <1>7, DirectiveEnded, DirectiveEndRanges
  <1>8. CASE Reading /\ EnterInclude
    BY <1>8, FileEntered, EnterRanges
  <1>9. CASE LeaveFile
    BY <1>9, FileLeft, LeaveRanges
  <1>10. CASE Finish
    BY <1>10, MainFileFinished, FinishRanges
  <1> QED BY <1>1, <1>2, <1>3, <1>4, <1>5, <1>6, <1>7, <1>8, <1>9, <1>10 DEF FileNext, Halted

-----------------------------------------------------------------------------
(* What preprocessing leaves.                                               *)

\* Whatever files there are and whatever they say, what has been output is at any
\* time what each of the files on the stack stands for up to the place it is read
\* to, and of the file that a range, or else a state machine, says it is of.
\* (PreprocessSourceFile, FeedPPToken, HandleIncludeDirective)
THEOREM InclusionInvariant == FileSpec => [](InclusionInv /\ RangesInv)
  <1>1. FileInit => InclusionInv /\ RangesInv
    BY FilesBegin
  <1>2. InclusionInv /\ RangesInv /\ [FileNext]_fileVars => (InclusionInv /\ RangesInv)'
    BY FileStepKeeps
  <1> QED BY <1>1, <1>2, PTL DEF FileSpec

\* When the main file has been preprocessed, the tokens are those that nested
\* inclusion stands for, the ranges of the files tell where each token and each
\* comment is spelled, the configuration is that of the directives, and no file was
\* opened twice: for all texts, headers and include directories and any depth limit.
\* (PreprocessSourceFile, HandleIncludeDirective, OnVersionDirective, OpenFromFile)
THEOREM PreprocessingIsInclusion == FileSpec => []OutputIsInclusion
  <1>1. InclusionInv /\ RangesInv => OutputIsInclusion
    <2> SUFFICES ASSUME InclusionInv, RangesInv, Ended PROVE OutputIsInclusion
      BY DEF OutputIsInclusion
    <2>1. Loaded /\ SaidAll /\ RangesTellFiles /\ disk \in Disks
      BY DEF InclusionInv, RangesInv, Ended
    <2>2. OneEntryPerFile
      BY <2>1, KeptOnce DEF Loaded, OneEntryPerFile
    <2> QED BY <2>1, <2>2 DEF SaidAll, OutputIsInclusion
  <1> QED BY <1>1, InclusionInvariant, PTL

=============================================================================
