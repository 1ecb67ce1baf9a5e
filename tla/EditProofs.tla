----------------------------- MODULE EditProofs -----------------------------
(***************************************************************************)
(* The two kinds of edits of the protocol, for data of every kind and      *)
(* length and any number of edits: what the deltas of SemanticTokens make  *)
(* of the client's copy, and what the edits of DocumentText make of the    *)
(* server's.                                                               *)
(*                                                                         *)
(* Deltas.  DeltaTurnsOldIntoNew is about the calculation: the edit        *)
(* replaces what lies between the common prefix and the common suffix,     *)
(* which is the whole difference.  The inductive invariant is about the    *)
(* cache: the old result of a delta is the response just before it, whose  *)
(* id is the one that the client named.                                    *)
(*                                                                         *)
(* Texts.  Where no edit is behind a wide character, the scan of           *)
(* ApplySourceChange stops at the place the client means, because          *)
(* positions grow strictly from place to place.                            *)
(***************************************************************************)
EXTENDS SemanticTokens, DocumentText, SequenceTheorems, FiniteSetTheorems, WellFoundedInduction, TLAPS

-----------------------------------------------------------------------------
ResponseType ==
    [kind : {"full", "delta"}, resultId : Nat, tokens : Tokens, previous : Nat,
     edits : {<<>>} \cup {DeltaEdits(old, new) : old, new \in Tokens}]

StateTypes ==
    /\ nextResultId \in Nat /\ nextResultId = Len(responses)
    /\ cachedResultId \in Nat
    /\ cachedTokens \in Tokens
    /\ requests \in Seq(RequestType) /\ Len(requests) <= MaxInFlight
    /\ Len(requests) + Len(responses) <= MaxResponses
    /\ responses \in Seq(ResponseType)

\* The request for a delta names a response that was sent.
RequestsNameResponses ==
    \A i \in DOMAIN requests :
        requests[i].kind = "delta" => requests[i].previous \in DOMAIN responses

\* The state holds what was sent last.
CacheIsLast ==
    responses # <<>> => cachedResultId = Last.resultId /\ cachedTokens = Last.tokens

\* A delta was calculated from the response before it, and that one has the
\* id that the client named.
DeltaFollowsCache ==
    responses # <<>> /\ Last.kind = "delta" =>
        /\ Len(responses) > 1
        /\ Last.previous \in 1 .. Len(responses) - 1
        /\ responses[Len(responses) - 1].resultId = Named.resultId
        /\ Last.edits = DeltaEdits(responses[Len(responses) - 1].tokens, Last.tokens)

IInv == StateTypes /\ RequestsNameResponses /\ CacheIsLast /\ DeltaFollowsCache

-----------------------------------------------------------------------------
(* The calculation of a delta.                                              *)

LEMMA TokensAreSequences ==
  ASSUME NEW tokens \in Tokens
  PROVE  /\ tokens \in Seq(Data) /\ Len(tokens) \in 0 .. MaxLength
         /\ \A n \in 1 .. Len(tokens) : tokens[n] \in Data
  <1>1. PICK n \in 0 .. MaxLength : tokens \in [1 .. n -> Data]
    BY DEF Tokens
  <1>2. n \in Nat
    BY BoundAssumption
  <1>3. QED
    BY <1>1, <1>2

\* A set of numbers with a bound has a greatest one.
LEMMA GreatestExists ==
  ASSUME NEW bound \in Nat, NEW S, S \subseteq 0 .. bound, S # {}
  PROVE  Max(S) \in S /\ \A n \in S : n <= Max(S)
  <1> DEFINE Distances == {bound - n : n \in S}
  <1>1. Distances \subseteq Nat /\ Distances # {}
    <2>1. \A n \in S : bound - n \in Nat
      OBVIOUS
    <2>2. QED
      BY <2>1
  <1>2. PICK d \in Distances : \A e \in Distances : ~(<<e, d>> \in OpToRel(<, Nat))
    BY <1>1, WFMin, NatLessThanWellFounded
  <1>3. \A e \in Distances : ~(e < d)
    <2>1. \A e, m \in Nat : e < m => <<e, m>> \in OpToRel(<, Nat)
      BY DEF OpToRel
    <2>2. QED
      BY <1>1, <1>2, <2>1
  <1>4. PICK n \in S : d = bound - n
    BY <1>2
  <1>5. \A m \in S : m <= n
    <2>1. SUFFICES ASSUME NEW m \in S
                   PROVE  m <= n
      OBVIOUS
    <2>2. ~(bound - m < bound - n)
      BY <1>3, <1>4
    <2>3. m \in Int /\ n \in Int
      OBVIOUS
    <2>4. QED
      BY <2>2, <2>3
  <1>6. \E x \in S : \A y \in S : x >= y
    BY <1>5
  <1>7. Max(S) \in S /\ \A y \in S : Max(S) >= y
    BY <1>6 DEF Max
  <1>8. QED
    BY <1>7

LEMMA ShorterLength ==
  ASSUME NEW m \in Nat, NEW n \in Nat
  PROVE  Min({m, n}) = IF m <= n THEN m ELSE n
  BY DEF Min

\* The prefix and the suffix are common to both, and neither reaches into the
\* other in the old result or in the new one.
LEMMA PrefixAndSuffix ==
  ASSUME NEW old \in Tokens, NEW new \in Tokens
  PROVE  LET p == CommonPrefix(old, new)
             q == CommonSuffix(old, new)
         IN  /\ p \in Nat /\ q \in Nat
             /\ p + q <= Len(old) /\ p + q <= Len(new)
             /\ SubSeq(old, 1, p) = SubSeq(new, 1, p)
             /\ SuffixOf(old, q) = SuffixOf(new, q)
  <1> DEFINE shorter == Min({Len(old), Len(new)})
             Prefixes == {n \in 0 .. shorter : SubSeq(old, 1, n) = SubSeq(new, 1, n)}
  <1>1. old \in Seq(Data) /\ new \in Seq(Data) /\ Len(old) \in Nat /\ Len(new) \in Nat
    BY TokensAreSequences
  <1>2. shorter \in Nat /\ shorter <= Len(old) /\ shorter <= Len(new)
    BY <1>1, ShorterLength
  <1> HIDE DEF shorter
  <1>3. 0 \in Prefixes
    BY <1>1, <1>2, SubSeqEmpty
  <1>4. Prefixes \subseteq 0 .. shorter
    OBVIOUS
  <1>5. CommonPrefix(old, new) \in Prefixes
    <2>1. CommonPrefix(old, new) = Max(Prefixes)
      BY DEF CommonPrefix, shorter
    <2> HIDE DEF Prefixes
    <2>2. QED
      BY <1>2, <1>3, <1>4, <2>1, GreatestExists
  <1> DEFINE p == CommonPrefix(old, new)
             Suffixes == {n \in 0 .. shorter - p : SuffixOf(old, n) = SuffixOf(new, n)}
  <1>6. p \in 0 .. shorter /\ SubSeq(old, 1, p) = SubSeq(new, 1, p)
    BY <1>5
  <1>7. CommonSuffix(old, new) = Max(Suffixes)
    BY DEF CommonSuffix, shorter
  <1> HIDE DEF p
  <1>8. shorter - p \in Nat
    BY <1>2, <1>6
  <1>9. 0 \in Suffixes
    <2>1. SuffixOf(old, 0) = <<>> /\ SuffixOf(new, 0) = <<>>
      BY <1>1, SubSeqEmpty DEF SuffixOf
    <2>2. QED
      BY <1>8, <2>1
  <1>10. Suffixes \subseteq 0 .. shorter - p
    OBVIOUS
  <1>11. CommonSuffix(old, new) \in Suffixes
    <2> HIDE DEF Suffixes
    <2>1. QED
      BY <1>7, <1>8, <1>9, <1>10, GreatestExists
  <1>12. QED
    BY <1>1, <1>2, <1>6, <1>11 DEF p

\* Applied to the old result, the edits give the new one, unless the new one
\* is the old one cut short.
LEMMA DeltaTurnsOldIntoNew ==
  ASSUME NEW old \in Tokens, NEW new \in Tokens, ~IsTruncation(old, new)
  PROVE  ApplyEdits(old, DeltaEdits(old, new)) = new
  <1> DEFINE p == CommonPrefix(old, new)
             q == CommonSuffix(old, new)
  <1>1. old \in Seq(Data) /\ new \in Seq(Data) /\ Len(old) \in Nat /\ Len(new) \in Nat
    BY TokensAreSequences
  <1>2. /\ p \in Nat /\ q \in Nat
        /\ p + q <= Len(old) /\ p + q <= Len(new)
        /\ SubSeq(old, 1, p) = SubSeq(new, 1, p)
        /\ SuffixOf(old, q) = SuffixOf(new, q)
    BY PrefixAndSuffix
  <1>3. CASE p = Len(new)
    <2>1. DeltaEdits(old, new) = <<>>
      BY <1>3 DEF DeltaEdits
    <2>2. new = SubSeq(old, 1, Len(new))
      BY <1>1, <1>2, <1>3, SubSeqFull
    <2>3. Len(old) = Len(new)
      BY <1>1, <1>2, <1>3, <2>2 DEF IsTruncation
    <2>4. old = new
      BY <1>1, <2>2, <2>3, SubSeqFull
    <2>5. QED
      BY <2>1, <2>4 DEF ApplyEdits
  <1>4. CASE p # Len(new)
    <2> DEFINE edit == [start       |-> p,
                        deleteCount |-> Len(old) - p - q,
                        data        |-> SubSeq(new, p + 1, Len(new) - q)]
    <2>1. DeltaEdits(old, new) = <<edit>>
      BY <1>4 DEF DeltaEdits
    <2>2. ApplyEdits(old, <<edit>>) =
             SubSeq(old, 1, p) \o edit.data \o SubSeq(old, p + (Len(old) - p - q) + 1, Len(old))
      BY DEF ApplyEdits
    <2> HIDE DEF p, q
    <2>3. p + (Len(old) - p - q) + 1 = Len(old) - q + 1
      BY <1>1, <1>2
    <2>4. ApplyEdits(old, <<edit>>) =
             SubSeq(new, 1, p) \o SubSeq(new, p + 1, Len(new) - q)
                \o SubSeq(new, Len(new) - q + 1, Len(new))
      BY <1>2, <2>2, <2>3 DEF SuffixOf
    <2>5. SubSeq(new, 1, p) \o SubSeq(new, p + 1, Len(new) - q) = SubSeq(new, 1, Len(new) - q)
      <3>1. 1 \in 1 .. Len(new) + 1 /\ p \in 1 - 1 .. Len(new) /\ Len(new) - q \in p .. Len(new)
        BY <1>1, <1>2
      <3>2. QED
        BY <1>1, <3>1, ConcatAdjacentSubSeq
    <2>6. SubSeq(new, 1, Len(new) - q) \o SubSeq(new, Len(new) - q + 1, Len(new)) = new
      <3>1. /\ 1 \in 1 .. Len(new) + 1 /\ Len(new) - q \in 1 - 1 .. Len(new)
            /\ Len(new) \in Len(new) - q .. Len(new)
        BY <1>1, <1>2
      <3>2. SubSeq(new, 1, Len(new) - q) \o SubSeq(new, Len(new) - q + 1, Len(new)) = SubSeq(new, 1, Len(new))
        BY <1>1, <3>1, ConcatAdjacentSubSeq
      <3>3. QED
        BY <1>1, <3>2, SubSeqFull
    <2>7. QED
      BY <2>1, <2>4, <2>5, <2>6
  <1>5. QED
    BY <1>3, <1>4

-----------------------------------------------------------------------------
(* The cache and the requests.                                              *)

Without(s, i) == SubSeq(s, 1, i - 1) \o SubSeq(s, i + 1, Len(s))

\* A request that is answered leaves the others as they are.
LEMMA RequestRemoved ==
  ASSUME NEW S, NEW s \in Seq(S), NEW i \in 1 .. Len(s)
  PROVE  /\ Without(s, i) \in Seq(S) /\ Len(Without(s, i)) = Len(s) - 1
         /\ \A a \in DOMAIN Without(s, i) : \E b \in DOMAIN s : Without(s, i)[a] = s[b]
  <1> DEFINE front == SubSeq(s, 1, i - 1)
             back == SubSeq(s, i + 1, Len(s))
  <1>1. Len(s) \in Nat /\ DOMAIN s = 1 .. Len(s) /\ \A b \in 1 .. Len(s) : s[b] \in S
    BY ElementOfSeq
  <1>2. /\ front \in Seq(S) /\ Len(front) = i - 1
        /\ \A a \in 1 .. i - 1 : front[a] = s[a]
    BY <1>1, SubSeqProperties
  <1>3. /\ back \in Seq(S) /\ Len(back) = Len(s) - i
        /\ \A a \in 1 .. Len(s) - i : back[a] = s[i + a]
    <2>1. \A k \in i + 1 .. Len(s) : s[k] \in S
      BY <1>1
    <2>2. i + 1 \in 1 .. Len(s) + 1 /\ i + 1 \in Int /\ Len(s) \in Int
      BY <1>1
    <2>3. /\ back \in Seq(S)
          /\ Len(back) = IF i + 1 <= Len(s) THEN Len(s) - (i + 1) + 1 ELSE 0
          /\ \A a \in 1 .. Len(s) - (i + 1) + 1 : back[a] = s[(i + 1) + a - 1]
      BY <1>1, <2>1, <2>2, SubSeqProperties
    <2> HIDE DEF back
    <2>4. /\ Len(s) - (i + 1) + 1 = Len(s) - i
          /\ IF i + 1 <= Len(s) THEN TRUE ELSE Len(s) - i = 0
      BY <2>2
    <2>5. \A a \in 1 .. Len(s) - i : (i + 1) + a - 1 = i + a
      BY <2>2
    <2>6. QED
      BY <2>3, <2>4, <2>5
  <1> HIDE DEF front, back
  <1>4. /\ front \o back \in Seq(S) /\ Len(front \o back) = (i - 1) + (Len(s) - i)
        /\ \A a \in 1 .. (i - 1) + (Len(s) - i) : (front \o back)[a] =
              IF a <= i - 1 THEN front[a] ELSE back[a - (i - 1)]
    <2>1. /\ front \o back \in Seq(S) /\ Len(front \o back) = Len(front) + Len(back)
          /\ \A a \in 1 .. Len(front) + Len(back) : (front \o back)[a] =
                IF a <= Len(front) THEN front[a] ELSE back[a - Len(front)]
      BY <1>2, <1>3, ConcatProperties
    <2>2. QED
      BY <1>2, <1>3, <2>1
  <1>5. (i - 1) + (Len(s) - i) = Len(s) - 1 /\ DOMAIN (front \o back) = 1 .. Len(front \o back)
    BY <1>1, <1>4
  <1>6. ASSUME NEW a \in 1 .. Len(s) - 1
        PROVE  \E b \in DOMAIN s : (front \o back)[a] = s[b]
    <2>1. CASE a <= i - 1
      <3>1. a \in 1 .. i - 1 /\ a \in 1 .. Len(s) /\ (front \o back)[a] = front[a]
        BY <1>1, <1>4, <1>5, <2>1
      <3>2. QED
        BY <1>1, <1>2, <3>1
    <2>2. CASE ~(a <= i - 1)
      <3> DEFINE c == a - (i - 1)
      <3>1. c \in 1 .. Len(s) - i /\ i + c \in 1 .. Len(s)
        BY <1>1, <2>2
      <3>2. (front \o back)[a] = back[c]
        BY <1>4, <1>5, <2>2
      <3> HIDE DEF c
      <3>3. QED
        BY <1>1, <1>3, <3>1, <3>2
    <2>3. QED
      BY <2>1, <2>2
  <1>7. QED
    BY <1>4, <1>5, <1>6 DEF front, back, Without

\* A response that holds what the cache will hold keeps the invariant, if it
\* is a delta from the response before it, when it is one.
LEMMA RespondKeeps ==
  ASSUME IInv, NEW i \in DOMAIN requests, NEW response \in ResponseType,
         Respond(i, response), nextResultId' = nextResultId + 1,
         cachedResultId' = response.resultId, cachedTokens' = response.tokens,
         response.kind = "delta" =>
             /\ response.previous \in DOMAIN responses
             /\ cachedResultId = responses[response.previous].resultId
             /\ response.edits = DeltaEdits(cachedTokens, response.tokens)
  PROVE  IInv'
  <1> DEFINE n == Len(responses)
  <1>1. /\ requests \in Seq(RequestType) /\ responses \in Seq(ResponseType)
        /\ n \in Nat /\ Len(requests) \in Nat /\ i \in 1 .. Len(requests)
        /\ DOMAIN responses = 1 .. n /\ nextResultId = n
        /\ Len(requests) <= MaxInFlight /\ Len(requests) + n <= MaxResponses
    BY DEF IInv, StateTypes
  <1>2. /\ requests' \in Seq(RequestType) /\ Len(requests') = Len(requests) - 1
        /\ \A a \in DOMAIN requests' : \E b \in DOMAIN requests : requests'[a] = requests[b]
    <2>1. requests' = Without(requests, i)
      BY DEF Respond, Without
    <2>2. requests \in Seq(RequestType) /\ i \in 1 .. Len(requests)
      BY <1>1
    <2>3. QED
      BY <2>1, <2>2, RequestRemoved
  <1>3. /\ responses' \in Seq(ResponseType) /\ Len(responses') = n + 1
        /\ \A j \in 1 .. n : responses'[j] = responses[j]
        /\ responses'[n + 1] = response
        /\ responses' # <<>> /\ DOMAIN responses' = 1 .. n + 1
    <2>1. responses' = Append(responses, response)
      BY DEF Respond
    <2>2. /\ responses' \in Seq(ResponseType) /\ Len(responses') = n + 1
          /\ \A j \in 1 .. n : responses'[j] = responses[j]
          /\ responses'[n + 1] = response
      BY <1>1, <2>1, AppendProperties
    <2>3. DOMAIN responses' = 1 .. n + 1
      BY <2>2, LenProperties
    <2>4. QED
      BY <1>1, <2>2, <2>3
  <1>4. Last' = response
    BY <1>3 DEF Last
  <1>5. StateTypes'
    <2>1. response.resultId \in Nat /\ response.tokens \in Tokens
      BY DEF ResponseType
    <2>2. QED
      BY <1>1, <1>2, <1>3, <2>1, BoundAssumption DEF StateTypes
  <1>6. RequestsNameResponses'
    <2>1. 1 .. n \subseteq 1 .. n + 1
      BY <1>1
    <2>2. QED
      BY <1>1, <1>2, <1>3, <2>1 DEF IInv, RequestsNameResponses
  <1>7. CacheIsLast'
    BY <1>4 DEF CacheIsLast
  <1>8. DeltaFollowsCache'
    <2>1. SUFFICES ASSUME response.kind = "delta"
                   PROVE  DeltaFollowsCache'
      BY <1>4 DEF DeltaFollowsCache
    <2>2. /\ response.previous \in 1 .. n
          /\ cachedResultId = responses[response.previous].resultId
          /\ response.edits = DeltaEdits(cachedTokens, response.tokens)
      BY <1>1, <2>1
    <2>3. n > 0 /\ n \in 1 .. n
      BY <1>1, <2>2
    <2>4. responses # <<>>
      BY <1>1, <2>3
    <2>5. cachedResultId = responses[n].resultId /\ cachedTokens = responses[n].tokens
      BY <2>4 DEF IInv, CacheIsLast, Last
    <2>6. /\ Len(responses') - 1 = n /\ responses'[n] = responses[n]
          /\ responses'[response.previous] = responses[response.previous]
      BY <1>1, <1>3, <2>2, <2>3
    <2>7. Named' = responses'[response.previous]
      BY <1>4 DEF Named
    <2>8. response.previous \in 1 .. Len(responses') - 1 /\ Len(responses') > 1
      BY <1>1, <1>3, <2>2, <2>3
    <2>9. responses'[Len(responses') - 1].resultId = Named'.resultId
      BY <2>2, <2>5, <2>6, <2>7
    <2>10. response.edits = DeltaEdits(responses'[Len(responses') - 1].tokens, response.tokens)
      BY <2>2, <2>5, <2>6
    <2>11. QED
      BY <1>4, <2>8, <2>9, <2>10 DEF DeltaFollowsCache
  <1>9. QED
    BY <1>5, <1>6, <1>7, <1>8 DEF IInv

LEMMA FullResponseKeeps ==
  ASSUME IInv, NEW i \in DOMAIN requests, NEW new \in Tokens,
         Respond(i, FullResponse(new)), nextResultId' = nextResultId + 1,
         cachedResultId' = nextResultId, cachedTokens' = new
  PROVE  IInv'
  <1>1. nextResultId \in Nat
    BY DEF IInv, StateTypes
  <1>2. /\ FullResponse(new) \in ResponseType
        /\ FullResponse(new).kind = "full"
        /\ FullResponse(new).resultId = nextResultId /\ FullResponse(new).tokens = new
    BY <1>1 DEF FullResponse, ResponseType
  <1>3. QED
    BY <1>2, RespondKeeps

LEMMA StepInv ==
  ASSUME IInv, [Next]_vars
  PROVE  IInv'
  <1>1. CASE Ask
    <2>1. PICK kind \in {"full", "delta"} :
             /\ kind = "delta" => responses # <<>>
             /\ requests' = Append(requests, [kind |-> kind, previous |-> Len(responses)])
      BY <1>1 DEF Ask
    <2>2. /\ Len(requests) < MaxInFlight /\ Len(requests) + Len(responses) < MaxResponses
          /\ UNCHANGED <<stateVars, responses>>
      BY <1>1 DEF Ask
    <2>3. /\ Len(responses) \in Nat /\ Len(requests) \in Nat /\ requests \in Seq(RequestType)
          /\ responses \in Seq(ResponseType)
      BY DEF IInv, StateTypes
    <2> DEFINE request == [kind |-> kind, previous |-> Len(responses)]
    <2>4. request \in RequestType
      BY <2>2, <2>3, BoundAssumption DEF RequestType
    <2> HIDE DEF request
    <2>5. /\ requests' \in Seq(RequestType) /\ Len(requests') = Len(requests) + 1
          /\ \A a \in 1 .. Len(requests) : requests'[a] = requests[a]
          /\ requests'[Len(requests) + 1] = request
          /\ DOMAIN requests' = 1 .. Len(requests) + 1
      BY <2>1, <2>3, <2>4, AppendProperties, LenProperties DEF request
    <2>6. StateTypes'
      BY <2>2, <2>3, <2>5, BoundAssumption DEF IInv, StateTypes, stateVars
    <2>7. RequestsNameResponses'
      <3>1. kind = "delta" => Len(responses) \in DOMAIN responses
        BY <2>1, <2>3
      <3>2. \A a \in DOMAIN requests' : a \in DOMAIN requests \/ a = Len(requests) + 1
        BY <2>3, <2>5
      <3>3. request.kind = kind /\ request.previous = Len(responses)
        BY DEF request
      <3>4. QED
        BY <2>2, <2>3, <2>5, <3>1, <3>2, <3>3 DEF IInv, RequestsNameResponses
    <2>8. CacheIsLast' /\ DeltaFollowsCache'
      BY <2>2 DEF IInv, CacheIsLast, DeltaFollowsCache, stateVars, Last, Named
    <2>9. QED
      BY <2>6, <2>7, <2>8 DEF IInv
  <1>2. CASE UNCHANGED vars
    BY <1>2 DEF vars, stateVars, IInv, StateTypes, RequestsNameResponses, CacheIsLast,
       DeltaFollowsCache, Last, Named
  <1>3. ASSUME NEW i \in DOMAIN requests, NEW new \in Tokens, HandleSemanticTokens(i, new)
        PROVE  IInv'
    BY <1>3, FullResponseKeeps DEF HandleSemanticTokens
  <1>4. ASSUME NEW i \in DOMAIN requests, NEW new \in Tokens, HandleSemanticTokensDelta(i, new)
        PROVE  IInv'
    <2> DEFINE previous == requests[i].previous
    <2>1. /\ nextResultId' = nextResultId + 1 /\ requests[i].kind = "delta"
          /\ previous \in DOMAIN responses
      BY <1>4 DEF HandleSemanticTokensDelta, IInv, RequestsNameResponses
    <2>2. CASE ReplaceAll(i, new)
      BY <2>1, <2>2, FullResponseKeeps DEF ReplaceAll
    <2>3. CASE SendDelta(i, new) /\ responses[previous].resultId = cachedResultId
      <3> DEFINE response ==
                   [kind |-> "delta", resultId |-> cachedResultId + nextResultId, tokens |-> new,
                    previous |-> previous, edits |-> DeltaEdits(cachedTokens, new)]
      <3>1. /\ Respond(i, response) /\ cachedTokens' = new
            /\ cachedResultId' = cachedResultId + nextResultId
        BY <2>3 DEF SendDelta
      <3>2. cachedResultId + nextResultId \in Nat /\ cachedTokens \in Tokens /\ previous \in Nat
        BY <2>1 DEF IInv, StateTypes
      <3>3. response \in ResponseType
        BY <3>2 DEF ResponseType
      <3>4. /\ response.kind = "delta" /\ response.resultId = cachedResultId + nextResultId
            /\ response.tokens = new /\ response.previous = previous
            /\ response.edits = DeltaEdits(cachedTokens, new)
        OBVIOUS
      <3> HIDE DEF response
      <3>5. QED
        BY <2>1, <2>3, <3>1, <3>3, <3>4, RespondKeeps
    <2>4. QED
      BY <1>4, <2>2, <2>3 DEF HandleSemanticTokensDelta
  <1>5. QED
    BY <1>1, <1>2, <1>3, <1>4 DEF Next, Quiet

-----------------------------------------------------------------------------
\* The cache holds the last response and a delta starts from the one before.
THEOREM Inductive == Spec => []IInv
  <1>1. Init => IInv
    <2>1. SUFFICES ASSUME Init
                   PROVE  IInv
      OBVIOUS
    <2>2. <<>> \in Tokens /\ Len(requests) = 0 /\ Len(responses) = 0
      BY <2>1, BoundAssumption DEF Init, Tokens
    <2>3. requests \in Seq(RequestType) /\ responses \in Seq(ResponseType)
      BY <2>1 DEF Init
    <2>4. QED
      BY <2>1, <2>2, <2>3, BoundAssumption DEF Init, IInv, StateTypes, RequestsNameResponses,
         CacheIsLast, DeltaFollowsCache
  <1>2. IInv /\ [Next]_vars => IInv'
    BY StepInv
  <1>3. QED
    BY <1>1, <1>2, PTL DEF Spec

\* Every variable has its type, each response took one id, and a delta is
\* only asked for a response that was sent.
THEOREM TypeCorrect == Spec => []TypeOK
  <1>1. IInv => TypeOK
    BY BoundAssumption DEF IInv, StateTypes, RequestsNameResponses, TypeOK
  <1>2. QED
    BY <1>1, Inductive, PTL

\* A delta gives the new result when the client applies it to the one it has
\* named (HandleSemanticTokensDelta), unless the new one is the old one cut
\* short or the id was given to several responses.
THEOREM DeltasAreExact == Spec => []DeltaExactUnlessTruncated
  <1>1. IInv => DeltaExactUnlessTruncated
    <2>1. SUFFICES ASSUME IInv, responses # <<>>, Last.kind = "delta", NamesOneResponse,
                          ~IsTruncation(Named.tokens, Last.tokens)
                   PROVE  ApplyEdits(Named.tokens, Last.edits) = Last.tokens
      BY DEF DeltaExactUnlessTruncated
    <2> DEFINE n == Len(responses)
    <2>2. /\ n > 1 /\ n \in Nat
          /\ Last.previous \in 1 .. n - 1
          /\ responses[n - 1].resultId = Named.resultId
          /\ Last.edits = DeltaEdits(responses[n - 1].tokens, Last.tokens)
      BY <2>1 DEF IInv, DeltaFollowsCache, StateTypes
    <2>3. n - 1 = Last.previous
      BY <2>1, <2>2 DEF NamesOneResponse
    <2>4. Last.edits = DeltaEdits(Named.tokens, Last.tokens)
      BY <2>2, <2>3 DEF Named
    <2>5. Last.tokens \in Tokens /\ Named.tokens \in Tokens
      <3>1. responses \in Seq(ResponseType)
        BY <2>1 DEF IInv, StateTypes
      <3>2. \A j \in 1 .. n : responses[j] \in ResponseType
        BY <3>1, ElementOfSeq
      <3>3. \A response \in ResponseType : response.tokens \in Tokens
        BY DEF ResponseType
      <3>4. n \in 1 .. n /\ Last.previous \in 1 .. n
        BY <2>2
      <3>5. QED
        BY <3>2, <3>3, <3>4 DEF Last, Named
    <2>6. QED
      BY <2>1, <2>4, <2>5, DeltaTurnsOldIntoNew
  <1>2. QED
    BY <1>1, Inductive, PTL

-----------------------------------------------------------------------------
(* Positions.                                                              *)

\* A set of places has a number of elements, which grows with the set.
LEMMA PlacesFinite ==
    ASSUME NEW n \in Nat, NEW S, S \subseteq 1 .. n
    PROVE  /\ IsFiniteSet(S) /\ Cardinality(S) \in Nat
           /\ \A T : T \subseteq S => /\ Cardinality(T) \in Nat /\ Cardinality(T) <= Cardinality(S)
                                      /\ (Cardinality(T) = Cardinality(S) => T = S)
<1>1. IsFiniteSet(1 .. n)
    BY FS_Interval
<1>2. IsFiniteSet(S)
    BY <1>1, FS_Subset
<1>3. Cardinality(S) \in Nat
    BY <1>2, FS_CardinalityType
<1>4. ASSUME NEW T, T \subseteq S
      PROVE  /\ Cardinality(T) \in Nat /\ Cardinality(T) <= Cardinality(S)
             /\ (Cardinality(T) = Cardinality(S) => T = S)
    <2>1. IsFiniteSet(T)
        BY <1>2, <1>4, FS_Subset
    <2>2. QED BY <1>2, <1>4, <2>1, FS_Subset, FS_CardinalityType
<1>5. QED BY <1>2, <1>3, <1>4

\* Positions are pairs of numbers.
LEMMA BytePositionType ==
    ASSUME NEW U, NEW text \in Seq(U), NEW i \in Places(text)
    PROVE  BytePosition(text, i).line \in Nat /\ BytePosition(text, i).character \in Nat
<1>1. i - 1 \in Nat /\ i \in Int
    BY DEF Places
<1>2. {k \in 1 .. i - 1 : text[k] = "LF"} \subseteq 1 .. i - 1 /\ OnLine(text, i) \subseteq 1 .. i - 1
    BY DEF OnLine
<1>3. QED BY <1>1, <1>2, PlacesFinite DEF BytePosition, Line

\* The loop of ApplySourceChange does not stop early: of two places the first
\* has the smaller position.
LEMMA EarlierPlaceIsBefore ==
    ASSUME NEW U, NEW text \in Seq(U), NEW i \in Places(text), NEW j \in Places(text), j < i
    PROVE  ~AtOrAfter(BytePosition(text, j), BytePosition(text, i))
<1> DEFINE Ends(p) == {k \in 1 .. p - 1 : text[k] = "LF"}
<1>1. /\ i \in Int /\ j \in Int /\ i - 1 \in Nat /\ j - 1 \in Nat /\ 1 <= j /\ i <= Len(text) + 1
      /\ Len(text) \in Nat
    BY DEF Places
<1>2. Ends(j) \subseteq Ends(i) /\ Ends(i) \subseteq 1 .. i - 1
    BY <1>1
<1>3. /\ Cardinality(Ends(i)) \in Nat /\ Cardinality(Ends(j)) \in Nat
      /\ Cardinality(Ends(j)) <= Cardinality(Ends(i))
      /\ Cardinality(Ends(j)) = Cardinality(Ends(i)) => Ends(j) = Ends(i)
    BY <1>1, <1>2, PlacesFinite
<1>4. Line(text, i) = Cardinality(Ends(i)) /\ Line(text, j) = Cardinality(Ends(j))
    BY DEF Line
<1>5. CASE Line(text, j) # Line(text, i)
    BY <1>3, <1>4, <1>5 DEF AtOrAfter, BytePosition
<1>6. CASE Line(text, j) = Line(text, i)
    <2>1. \A k \in j .. i - 1 : text[k] # "LF"
        <3>1. SUFFICES ASSUME NEW k \in j .. i - 1, text[k] = "LF" PROVE FALSE
            OBVIOUS
        <3>2. k \in Ends(i) /\ k \notin Ends(j)
            BY <1>1, <3>1
        <3>3. QED BY <1>3, <1>4, <1>6, <3>2
    <2>2. OnLine(text, j) \subseteq OnLine(text, i)
        <3>1. SUFFICES ASSUME NEW k \in OnLine(text, j) PROVE k \in OnLine(text, i)
            OBVIOUS
        <3>2. k \in 1 .. i - 1 /\ k \in Int
            BY <1>1, <3>1 DEF OnLine
        <3>3. \A m \in k .. j - 1 : text[m] # "LF"
            BY <3>1 DEF OnLine
        <3>4. \A m \in k .. i - 1 : m \in k .. j - 1 \/ m \in j .. i - 1
            BY <1>1, <3>2
        <3>5. QED BY <2>1, <3>2, <3>3, <3>4 DEF OnLine
    <2>3. i - 1 \in OnLine(text, i) /\ i - 1 \notin OnLine(text, j)
        BY <1>1, <2>1 DEF OnLine
    <2>4. OnLine(text, i) \subseteq 1 .. i - 1
        BY DEF OnLine
    <2>5. Cardinality(OnLine(text, j)) < Cardinality(OnLine(text, i))
        <3>1. /\ Cardinality(OnLine(text, i)) \in Nat /\ Cardinality(OnLine(text, j)) \in Nat
              /\ Cardinality(OnLine(text, j)) <= Cardinality(OnLine(text, i))
              /\ Cardinality(OnLine(text, j)) = Cardinality(OnLine(text, i)) => OnLine(text, j) = OnLine(text, i)
            BY <1>1, <2>2, <2>4, PlacesFinite
        <3>2. QED BY <2>3, <3>1
    <2>6. /\ Cardinality(OnLine(text, i)) \in Nat /\ Cardinality(OnLine(text, j)) \in Nat
          /\ Line(text, i) \in Nat
        BY <1>1, <1>3, <1>4, <2>2, <2>4, PlacesFinite
    <2>7. QED BY <1>6, <2>5, <2>6 DEF AtOrAfter, BytePosition
<1>7. QED BY <1>5, <1>6

\* The scan for the position of a place stops there, when it starts before it.
LEMMA ScanStopsAtPlace ==
    ASSUME NEW U, NEW text \in Seq(U), NEW i \in Places(text), NEW from \in Places(text), from <= i
    PROVE  FirstPlace(text, from, BytePosition(text, i)) = i
<1> DEFINE Stops(p) == p = Len(text) + 1 \/ AtOrAfter(BytePosition(text, p), BytePosition(text, i))
           First(p) == p \in from .. Len(text) + 1 /\ Stops(p) /\ \A q \in from .. p - 1 : ~Stops(q)
<1>1. /\ i \in Int /\ from \in Int /\ 1 <= from /\ i <= Len(text) + 1 /\ Len(text) \in Nat
    BY DEF Places
<1>2. Stops(i)
    BY BytePositionType DEF AtOrAfter
<1>3. \A q \in from .. i - 1 : ~Stops(q)
    <2>1. SUFFICES ASSUME NEW q \in from .. i - 1 PROVE ~Stops(q)
        OBVIOUS
    <2>2. q \in Places(text) /\ q < i /\ q # Len(text) + 1
        BY <1>1, <2>1 DEF Places
    <2>3. QED BY <2>2, EarlierPlaceIsBefore
<1>4. First(i)
    BY <1>1, <1>2, <1>3
<1>5. ASSUME NEW p, First(p) PROVE p = i
    <2>1. p \in Int /\ from <= p
        BY <1>1, <1>5
    <2>2. ~(p < i)
        BY <1>1, <1>3, <1>5, <2>1
    <2>3. ~(i < p)
        BY <1>1, <1>2, <1>5, <2>1
    <2>4. QED BY <1>1, <2>1, <2>2, <2>3
<1>6. FirstPlace(text, from, BytePosition(text, i))
        = CHOOSE p \in from .. Len(text) + 1 : Stops(p) /\ \A q \in from .. p - 1 : ~Stops(q)
    BY DEF FirstPlace
<1>7. QED BY <1>4, <1>5, <1>6

\* Behind ASCII only, UTF-8 and UTF-16 count the same.
LEMMA PlainPositionsAgree ==
    ASSUME NEW U, NEW text \in Seq(U), NEW i \in Places(text), IsPlain(text, i)
    PROVE  LspPosition(text, i) = BytePosition(text, i)
<1> DEFINE chars == {k \in OnLine(text, i) : text[k] # "C"}
           wide == {k \in OnLine(text, i) : text[k] = "L4"}
<1>1. chars = OnLine(text, i)
    BY DEF IsPlain
<1>2. wide = {}
    BY DEF IsPlain
<1>3. Cardinality(wide) = 0
    BY <1>2, FS_EmptySet
<1>4. Cardinality(OnLine(text, i)) \in Nat
    BY BytePositionType DEF BytePosition
<1>5. Cardinality(chars) + Cardinality(wide) = Cardinality(OnLine(text, i))
    <2> HIDE DEF chars, wide
    <2>1. QED BY <1>1, <1>3, <1>4
<1>6. LspPosition(text, i) = [line |-> Line(text, i), character |-> Cardinality(chars) + Cardinality(wide)]
    BY DEF LspPosition
<1>7. QED BY <1>5, <1>6 DEF BytePosition

\* An edit does the same to both copies.
LEMMA PlainEditIsMirrored ==
    ASSUME NEW U, NEW text \in Seq(U), NEW begin \in Places(text), NEW end \in Places(text), NEW new,
           begin <= end, IsPlain(text, begin), IsPlain(text, end)
    PROVE  ApplySourceChange(text, LspPosition(text, begin), LspPosition(text, end), new)
             = Replaced(text, begin, end, new)
<1>1. 1 \in Places(text) /\ 1 <= begin
    BY DEF Places
<1>2. FirstPlace(text, 1, LspPosition(text, begin)) = begin
    BY <1>1, PlainPositionsAgree, ScanStopsAtPlace
<1>3. FirstPlace(text, begin, LspPosition(text, end)) = end
    BY PlainPositionsAgree, ScanStopsAtPlace
<1>4. QED BY <1>2, <1>3 DEF ApplySourceChange

-----------------------------------------------------------------------------
TextInv == client \in Seq(Units) /\ PlainEditsMirrored

LEMMA ReplacedType ==
    ASSUME NEW U, NEW text \in Seq(U), NEW new \in Seq(U), NEW begin \in Places(text), NEW end \in Places(text)
    PROVE  Replaced(text, begin, end, new) \in Seq(U)
<1>1. SubSeq(text, 1, begin - 1) \in Seq(U)
    BY SubSeqProperties DEF Places
<1>2. SubSeq(text, end, Len(text)) \in Seq(U)
    BY SubSeqProperties DEF Places
<1>3. QED BY <1>1, <1>2, ConcatProperties DEF Replaced

\* For texts of any length over any units and however many edits: the server
\* compiles the text the user sees, unless an edit was behind a wide character.
THEOREM EditsAreMirrored == TextSpec => []PlainEditsMirrored
<1>1. TextInit => TextInv
    BY TextAssumption DEF TextInit, TextInv, PlainEditsMirrored
<1>2. TextInv /\ [TextNext]_textVars => TextInv'
    <2>1. SUFFICES ASSUME TextInv, [TextNext]_textVars PROVE TextInv'
        OBVIOUS
    <2>2. CASE UNCHANGED textVars
        BY <2>1, <2>2 DEF TextInv, PlainEditsMirrored, textVars
    <2>3. CASE ReplaceWhole
        BY <2>3, TextAssumption DEF ReplaceWhole, TextInv, PlainEditsMirrored
    <2>4. ASSUME NEW begin \in Places(client), NEW end \in Places(client), NEW new \in Inserted,
                 Edit(begin, end, new)
          PROVE  TextInv'
        <3>1. client' \in Seq(Units)
            BY <2>1, <2>4, TextAssumption, ReplacedType DEF Edit, TextInv
        <3>2. ASSUME ~shifted' PROVE server' = client'
            <4>1. ~shifted /\ IsPlain(client, begin) /\ IsPlain(client, end) /\ begin <= end
                BY <2>4, <3>2 DEF Edit
            <4>2. server = client /\ client \in Seq(Units)
                BY <2>1, <4>1 DEF TextInv, PlainEditsMirrored
            <4>3. QED BY <2>4, <4>1, <4>2, PlainEditIsMirrored DEF Edit
        <3>3. QED BY <3>1, <3>2 DEF TextInv, PlainEditsMirrored
    <2>5. QED BY <2>1, <2>2, <2>3, <2>4 DEF TextNext
<1>3. QED BY <1>1, <1>2, PTL DEF TextSpec, TextInv
=============================================================================
