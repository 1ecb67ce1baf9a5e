-------------------------- MODULE DocumentContract --------------------------
(***************************************************************************)
(* What the document side of the language server promises its client,      *)
(* without threads, compilations or locks: a request about an open         *)
(* document is answered once, from the content the document had when the   *)
(* request was handled, whatever is edited, closed or reopened meanwhile.  *)
(***************************************************************************)
CONSTANTS
    Uris, Requests, Texts,
    None                \* no content: the document is not open

VARIABLES
    buffer,  \* Uris -> the content of the document
    asked,   \* Requests -> the content the request is about, once accepted
    answer   \* Requests -> the content the response was computed from

vars == <<buffer, asked, answer>>

Init ==
    /\ buffer = [u \in Uris |-> None]
    /\ asked = [r \in Requests |-> None]
    /\ answer = [r \in Requests |-> None]

Open(u, text) ==
    /\ buffer[u] = None
    /\ buffer' = [buffer EXCEPT ![u] = text]
    /\ UNCHANGED <<asked, answer>>

Edit(u, text) ==
    /\ buffer[u] # None
    /\ buffer' = [buffer EXCEPT ![u] = text]
    /\ UNCHANGED <<asked, answer>>

Close(u) ==
    /\ buffer[u] # None
    /\ buffer' = [buffer EXCEPT ![u] = None]
    /\ UNCHANGED <<asked, answer>>

\* The end of the server closes every document.
CloseAll ==
    /\ buffer' = [u \in Uris |-> None]
    /\ UNCHANGED <<asked, answer>>

Ask(r, u) ==
    /\ buffer[u] # None
    /\ asked[r] = None
    /\ asked' = [asked EXCEPT ![r] = buffer[u]]
    /\ UNCHANGED <<buffer, answer>>

Answer(r) ==
    /\ asked[r] # None
    /\ answer[r] = None
    /\ answer' = [answer EXCEPT ![r] = asked[r]]
    /\ UNCHANGED <<buffer, asked>>

Next ==
    \/ \E u \in Uris, text \in Texts : Open(u, text) \/ Edit(u, text)
    \/ \E u \in Uris : Close(u)
    \/ CloseAll
    \/ \E r \in Requests, u \in Uris : Ask(r, u)
    \/ \E r \in Requests : Answer(r)

Spec == Init /\ [][Next]_vars

FairSpec == Spec /\ \A r \in Requests : WF_vars(Answer(r))
=============================================================================
