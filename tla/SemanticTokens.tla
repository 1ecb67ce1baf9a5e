--------------------------- MODULE SemanticTokens ---------------------------
(***************************************************************************)
(* The result cache of textDocument/semanticTokens/full and full/delta for *)
(* one document: HandleSemanticTokens, HandleSemanticTokensDelta and the   *)
(* SemanticTokenState they share under the state mutex of DocumentService. *)
(* The queries of one document may reach the state in any order and may be *)
(* about any version, so a pending request is handled at any time and with *)
(* any tokens.  The client keeps the last response it received and names   *)
(* it by its result id when it asks for a delta.                           *)
(***************************************************************************)
EXTENDS Naturals, Sequences, FiniteSetsExt

CONSTANTS
    Data,          \* values of the encoded tokens
    MaxLength,     \* bound on the number of values in a result
    MaxInFlight,   \* requests the client has outstanding at a time
    MaxResponses   \* bound on the length of a run

ASSUME BoundAssumption ==
    MaxLength \in Nat /\ MaxInFlight \in Nat \ {0} /\ MaxResponses \in Nat

Tokens == UNION {[1 .. n -> Data] : n \in 0 .. MaxLength}

VARIABLES
    nextResultId, cachedResultId, cachedTokens,   \* SemanticTokenState
    requests,   \* outstanding: "full" or the number of the response named
    responses   \* what the server sent, in order, with the tokens it meant

stateVars == <<nextResultId, cachedResultId, cachedTokens>>
vars == <<stateVars, requests, responses>>

Init ==
    /\ nextResultId = 0
    /\ cachedResultId = 0
    /\ cachedTokens = <<>>
    /\ requests = <<>>
    /\ responses = <<>>

-----------------------------------------------------------------------------
\* Lengths of the longest common prefix and, behind it, of the longest common
\* suffix of two results.
CommonPrefix(old, new) ==
    Max({n \in 0 .. Min({Len(old), Len(new)}) : SubSeq(old, 1, n) = SubSeq(new, 1, n)})

SuffixOf(s, n) == SubSeq(s, Len(s) - n + 1, Len(s))

\* Mutant: the suffix may reach into the common prefix.
CommonSuffixOverlapping(old, new) ==
    Max({n \in 0 .. Min({Len(old), Len(new)}) : SuffixOf(old, n) = SuffixOf(new, n)})

CommonSuffix(old, new) ==
    Max({n \in 0 .. Min({Len(old), Len(new)}) - CommonPrefix(old, new) :
            SuffixOf(old, n) = SuffixOf(new, n)})

\* The edits of a delta response: none when the new result ends where the
\* common prefix ends, else one replacement.
DeltaEdits(old, new) ==
    LET prefix == CommonPrefix(old, new)
        suffix == CommonSuffix(old, new)
    IN  IF prefix = Len(new)
        THEN <<>>
        ELSE << [start       |-> prefix,
                 deleteCount |-> Len(old) - prefix - suffix,
                 data        |-> SubSeq(new, prefix + 1, Len(new) - suffix)] >>

\* How a client applies them.
ApplyEdits(tokens, edits) ==
    IF edits = <<>>
    THEN tokens
    ELSE LET e == edits[1]
         IN  SubSeq(tokens, 1, e.start) \o e.data
               \o SubSeq(tokens, e.start + e.deleteCount + 1, Len(tokens))

-----------------------------------------------------------------------------
\* The client asks for everything, or for a delta to the last response.
Ask ==
    /\ Len(requests) < MaxInFlight
    /\ Len(requests) + Len(responses) < MaxResponses
    /\ \E request \in {"full"} \cup (IF responses = <<>> THEN {} ELSE {"delta"}) :
          requests' = Append(requests, [kind |-> request, previous |-> Len(responses)])
    /\ UNCHANGED <<stateVars, responses>>

Respond(i, response) ==
    /\ requests' = SubSeq(requests, 1, i - 1) \o SubSeq(requests, i + 1, Len(requests))
    /\ responses' = Append(responses, response)

FullResponse(new) ==
    [kind |-> "full", resultId |-> nextResultId, tokens |-> new, previous |-> 0, edits |-> <<>>]

HandleSemanticTokens(i, new) ==
    /\ requests[i].kind = "full"
    /\ cachedResultId' = nextResultId
    /\ cachedTokens' = new
    /\ nextResultId' = nextResultId + 1
    /\ Respond(i, FullResponse(new))

\* The cache does not hold the result the client has: full replacement.
ReplaceAll(i, new) ==
    /\ cachedResultId' = nextResultId
    /\ cachedTokens' = new
    /\ Respond(i, FullResponse(new))

\* The cache holds the result the client has, by its id.  The new id is added
\* to the old one.
SendDelta(i, new) ==
    LET resultId == cachedResultId + nextResultId
    IN  /\ cachedResultId' = resultId
        /\ cachedTokens' = new
        /\ Respond(i, [kind |-> "delta", resultId |-> resultId, tokens |-> new,
                       previous |-> requests[i].previous,
                       edits |-> DeltaEdits(cachedTokens, new)])

HandleSemanticTokensDelta(i, new) ==
    /\ requests[i].kind = "delta"
    /\ nextResultId' = nextResultId + 1
    /\ IF responses[requests[i].previous].resultId = cachedResultId
       THEN SendDelta(i, new)
       ELSE ReplaceAll(i, new)

\* The client has no question outstanding and asks none.
Quiet == requests = <<>> /\ UNCHANGED vars

Next ==
    \/ Ask
    \/ Quiet
    \/ \E i \in DOMAIN requests, new \in Tokens :
          HandleSemanticTokens(i, new) \/ HandleSemanticTokensDelta(i, new)

Spec == Init /\ [][Next]_vars

-----------------------------------------------------------------------------
RequestType == [kind : {"full", "delta"}, previous : 0 .. MaxResponses]

TypeOK ==
    /\ nextResultId \in 0 .. MaxResponses
    /\ cachedResultId \in Nat
    /\ cachedTokens \in Tokens
    /\ requests \in Seq(RequestType) /\ Len(requests) <= MaxInFlight
    /\ nextResultId = Len(responses)
    /\ \A i \in DOMAIN requests :
          requests[i].kind = "delta" => requests[i].previous \in DOMAIN responses

Last == responses[Len(responses)]
Named == responses[Last.previous]

\* The id the client named belongs to one of the responses it had by then.
NamesOneResponse ==
    \A j \in 1 .. Len(responses) - 1 : responses[j].resultId = Named.resultId => j = Last.previous

\* The new result is the old one cut short.
IsTruncation(old, new) == Len(new) < Len(old) /\ new = SubSeq(old, 1, Len(new))

\* However requests overtake one another, a delta applied to the result the
\* client has named gives the new result, also when the common prefix and
\* suffix meet or overlap: unless the new result is the old one cut short, or
\* the id names several responses (see below for both).
DeltaExactUnlessTruncated ==
    (responses # <<>> /\ Last.kind = "delta" /\ NamesOneResponse
       /\ ~IsTruncation(Named.tokens, Last.tokens))
        => ApplyEdits(Named.tokens, Last.edits) = Last.tokens

\* "The semantic token edits to transform a previous result into a new
\* result": applying a delta gives the new result.  Does not hold: tokens
\* that vanish at the end of the document stay.
DeltaTransformsPreviousResult ==
    responses # <<>> /\ Last.kind = "delta" /\ NamesOneResponse
        => ApplyEdits(Named.tokens, Last.edits) = Last.tokens

\* "The result id of a previous response": an id names one response.  Does
\* not hold: see SendDelta.
ResultIdNamesOneResponse ==
    \A i, j \in DOMAIN responses :
        responses[i].resultId = responses[j].resultId => i = j
=============================================================================
