----------------------- MODULE DocumentServiceProofs -----------------------
(***************************************************************************)
(* Safety of DocumentService for every number of documents, contexts,      *)
(* versions, requests and pool threads: its type invariant, what the two   *)
(* assertions of BackgroundCompilation say, expiry, and that extensions    *)
(* are never switched off.                                                 *)
(*                                                                         *)
(* The inductive invariant IInv has a part for the documents, one for the  *)
(* compilations, one for the flags of the tasks and one for the queries.   *)
(* Each part is shown to be preserved by every step, given all of IInv     *)
(* before the step; a step that leaves the variables of a part alone is    *)
(* covered by the frame lemma of that part.                                *)
(*                                                                         *)
(* A second invariant, MutexInv, says who holds the mutex of a feature     *)
(* state; with a third it gives the refinement of the contract.            *)
(***************************************************************************)
EXTENDS DocumentService, FiniteSetTheorems, TLAPS

-----------------------------------------------------------------------------
\* The context of an open document is in use and has a version.
OpenDocumentHasVersion ==
    \A u \in Uris : documentContexts[u] \in Contexts =>
        /\ contextState[documentContexts[u]] # "unused"
        /\ backgroundCompilation[documentContexts[u]] \in Created

\* No version belongs to a context that was never opened.
UnusedContextIsBlank ==
    \A x \in Contexts : contextState[x] = "unused" =>
        /\ backgroundCompilation[x] = None
        /\ \A c \in Created : comp[c].context # x

LatestIsCreated ==
    \A x \in Contexts : backgroundCompilation[x] \in Created \cup {None}

\* Between the steps of a didChange the document stays open, its version is
\* expired, and the config read so far has lost no extension.
HandlerEditsOpenDocument ==
    handler # IdleHandler =>
        /\ documentContexts[handler.uri] \in Contexts
        /\ isExpired[Edited]
        /\ handler.pc \in {"readPreamble", "install"} =>
              comp[Edited].config.extensions \subseteq handler.config.extensions

DocumentInv ==
    /\ DocumentTypes
    /\ OpenDocumentHasVersion /\ UnusedContextIsBlank /\ LatestIsCreated
    /\ HandlerEditsOpenDocument /\ OnlyLatestUnexpired

\* The flags of a version tell how far its Run has come, and a result never
\* has fewer extensions than the config it was compiled with.
FlagsFollowRun ==
    \A c \in Compilations :
        /\ compPc[c] = "unused" <=> comp[c] = None
        /\ isPreambleAvailable[c] <=> compPc[c] \in {"main", "published", "releasing", "done"}
        /\ isAvailable[c] <=> compPc[c] \in {"published", "releasing", "done"}
        /\ isAvailable[c] => comp[c].config.extensions \subseteq nextConfig[c].extensions

CompilationInv == CompilationTypes /\ FlagsFollowRun /\ PreambleMatchesConfig

Accepted == {r \in Requests : queryPc[r] \notin {"unsent", "ignored"}}

QueriesHaveVersion ==
    \A r \in Accepted :
        /\ query[r] \in QueryType
        /\ query[r].compilation \in Created

\* Who waits for the latch of a version waits for that version, and who waits
\* for a mutex has passed the latch of its own.
WaitersWait ==
    /\ \A c \in Compilations : \A i \in DOMAIN signalResumeQueue[c] :
          /\ signalResumeQueue[c][i] \in Accepted
          /\ query[signalResumeQueue[c][i]].compilation = c
    /\ \A m \in StateMutexes : \A i \in DOMAIN lockQueue[m] :
          /\ lockQueue[m][i] \in Accepted
          /\ isAvailable[query[lockQueue[m][i]].compilation]

QueryInv == QueryTypes /\ QueriesHaveVersion /\ WaitersWait /\ QueryFindsResult

IInv == DocumentInv /\ CompilationInv /\ TaskTypes /\ QueryInv

-----------------------------------------------------------------------------
LEMMA DocumentFrame ==
  ASSUME DocumentInv, UNCHANGED <<docVars, handler, comp, isExpired>>
  PROVE  DocumentInv'
  BY DEF DocumentInv, docVars, DocumentTypes, OpenDocumentHasVersion, UnusedContextIsBlank,
         LatestIsCreated, HandlerEditsOpenDocument, OnlyLatestUnexpired, Created, Edited

LEMMA CompilationFrame ==
  ASSUME CompilationInv, UNCHANGED <<compPc, comp, flagVars>>
  PROVE  CompilationInv'
  BY DEF CompilationInv, flagVars, CompilationTypes, FlagsFollowRun, PreambleMatchesConfig, Created

LEMMA TaskFrame ==
  ASSUME TaskTypes, UNCHANGED <<isExpired, diagnostic>>
  PROVE  TaskTypes'
  BY DEF TaskTypes

LEMMA QueryFrame ==
  ASSUME QueryInv, UNCHANGED <<comp, isAvailable, signalResumeQueue, queryVars, lockVars>>
  PROVE  QueryInv'
  BY DEF QueryInv, queryVars, lockVars, QueryTypes, QueriesHaveVersion, WaitersWait,
         QueryFindsResult, Created, Accepted

\* A version that is made is not None.
LEMMA NewVersion ==
  ASSUME CompilationTypes, NEW c \in Unused, NEW u \in Uris, NEW x \in Contexts, NEW text \in Texts,
         NEW config \in LanguageConfig, NEW preamble \in LanguageConfig \cup {NoPreamble},
         NewCompilation(c, u, x, text, config, preamble)
  PROVE  /\ comp'[c] \in CompilationType
         /\ comp'[c] # None
         /\ comp'[c].context = x /\ comp'[c].config = config /\ comp'[c].preamble = preamble
         /\ comp' = [comp EXCEPT ![c] = comp'[c]]
  BY NullObjectAssumption DEF CompilationTypes, Unused, NewCompilation, CompilationType

LEMMA DefaultConfigType == DefaultConfig \in LanguageConfig
  BY TextAssumption DEF DefaultConfig, LanguageConfig

\* What the handler reads of the latest version is a config, without a loss of
\* extensions, and a preamble.
LEMMA NextTypes ==
  ASSUME CompilationInv, NEW c \in Created
  PROVE  /\ NextLanguageConfig(c) \in LanguageConfig
         /\ NextPreamble(c) \in LanguageConfig \cup {NoPreamble}
         /\ comp[c].config.extensions \subseteq NextLanguageConfig(c).extensions
  BY DEF CompilationInv, CompilationTypes, FlagsFollowRun, Created, NextLanguageConfig,
         NextPreamble, CompilationType

-----------------------------------------------------------------------------
LEMMA HandlerFrame ==
  ASSUME DocumentInv, handler' \in HandlerType, HandlerEditsOpenDocument',
         UNCHANGED <<docVars, comp, isExpired>>
  PROVE  DocumentInv'
  BY DEF DocumentInv, DocumentTypes, OpenDocumentHasVersion, UnusedContextIsBlank, LatestIsCreated,
         OnlyLatestUnexpired, Created, docVars

LEMMA DocumentStep ==
  ASSUME IInv, [Next]_vars
  PROVE  DocumentInv'
  <1> USE NullAssumption DEF IInv, DocumentInv, DocumentTypes, OpenDocumentHasVersion,
          UnusedContextIsBlank, LatestIsCreated, HandlerEditsOpenDocument, OnlyLatestUnexpired,
          Created, Edited, Listening, MainThreadFree, docVars, flagVars, compVars
  <1>1. ASSUME NEW u \in Uris, NEW t \in Texts, NEW x \in Contexts, NEW c \in Compilations,
               DidOpen(u, t, x, c)
        PROVE  DocumentInv'
    <2>1. NewCompilation(c, u, x, t, DefaultConfig, NoPreamble) /\ c \in Unused
      BY <1>1 DEF DidOpen
    <2>2. /\ comp'[c] # None /\ comp'[c].context = x
          /\ comp' = [comp EXCEPT ![c] = comp'[c]]
      BY <2>1, NewVersion, DefaultConfigType DEF CompilationInv
    <2>3. QED
      BY <1>1, <2>2 DEF DidOpen, NewCompilation, CompilationInv, CompilationTypes, FlagsFollowRun,
         Unused
  <1>2. ASSUME NEW u \in Uris, NEW t \in Texts, BeginChange(u, t)
        PROVE  DocumentInv'
    BY <1>2 DEF BeginChange, TaskTypes, HandlerType, IdleHandler
  <1>3. ASSUME ReadNextConfig
        PROVE  DocumentInv'
    <2>1. handler # IdleHandler
      BY <1>3 DEF ReadNextConfig, IdleHandler
    <2>2. Edited \in Created
      BY <2>1 DEF HandlerType, IdleHandler
    <2>3. NextLanguageConfig(Edited) \in LanguageConfig
          /\ comp[Edited].config.extensions \subseteq NextLanguageConfig(Edited).extensions
      BY <2>2, NextTypes
    <2>4. HandlerEditsOpenDocument'
      BY <1>3, <2>1, <2>3 DEF ReadNextConfig, HandlerType, IdleHandler
    <2>5. handler' \in HandlerType /\ UNCHANGED <<docVars, comp, isExpired>>
      BY <1>3, <2>1, <2>3 DEF ReadNextConfig, HandlerType
    <2>6. QED
      BY <2>4, <2>5, HandlerFrame
  <1>4. ASSUME ReadNextPreamble
        PROVE  DocumentInv'
    <2>1. handler # IdleHandler
      BY <1>4 DEF ReadNextPreamble, IdleHandler
    <2>2. Edited \in Created
      BY <2>1 DEF HandlerType, IdleHandler
    <2>3. NextPreamble(Edited) \in LanguageConfig \cup {NoPreamble}
      BY <2>2, NextTypes
    <2>4. HandlerEditsOpenDocument'
      BY <1>4, <2>1 DEF ReadNextPreamble, HandlerType, IdleHandler
    <2>5. handler' \in HandlerType /\ UNCHANGED <<docVars, comp, isExpired>>
      BY <1>4, <2>1, <2>3 DEF ReadNextPreamble, HandlerType
    <2>6. QED
      BY <2>4, <2>5, HandlerFrame
  <1>5. ASSUME NEW c \in Compilations, InstallChange(c)
        PROVE  DocumentInv'
    <2> DEFINE x == documentContexts[handler.uri]
    <2>1. handler # IdleHandler /\ x \in Contexts /\ isExpired[backgroundCompilation[x]]
      BY <1>5 DEF InstallChange, IdleHandler
    <2>2. /\ comp'[c] # None /\ comp'[c].context = x
          /\ comp' = [comp EXCEPT ![c] = comp'[c]]
      <3>1. handler.uri \in Uris /\ handler.text \in Texts /\ handler.config \in LanguageConfig
            /\ UsablePreamble(handler.preamble, handler.config) \in LanguageConfig \cup {NoPreamble}
        BY <1>5 DEF InstallChange, HandlerType, IdleHandler, UsablePreamble
      <3>2. QED
        BY <1>5, <2>1, <3>1, NewVersion DEF InstallChange, CompilationInv
    <2>3. QED
      BY <1>5, <2>1, <2>2 DEF InstallChange, NewCompilation, CompilationInv, CompilationTypes,
         FlagsFollowRun, Unused, HandlerType, IdleHandler
  <1>6. ASSUME NEW u \in Uris, ChangeUnopened(u)
        PROVE  DocumentInv'
    BY <1>6 DEF ChangeUnopened, InsertNullEntry
  <1>7. ASSUME NEW u \in Uris, DidClose(u)
        PROVE  DocumentInv'
    BY <1>7 DEF DidClose
  <1>8. ASSUME NEW u \in Uris, CloseNullEntry(u)
        PROVE  DocumentInv'
    BY <1>8 DEF CloseNullEntry
  <1>9. ASSUME Exit
        PROVE  DocumentInv'
    BY <1>9 DEF Exit
  <1>10. ASSUME NEW x \in Contexts, ContextStep(x)
         PROVE  DocumentInv'
    BY <1>10 DEF ContextStep, AwaitScopeEmpty, DestroyContext
  <1>11. ASSUME NEW u \in Uris, NEW r \in Requests, QueryUnopened(r, u)
         PROVE  DocumentInv'
    BY <1>11 DEF QueryUnopened, InsertNullEntry
  <1>12. ASSUME NEW u \in Uris, NEW r \in Requests, NEW f \in Features, ScheduleQuery(r, u, f)
         PROVE  DocumentInv'
    BY <1>12, DocumentFrame DEF ScheduleQuery
  <1>13. ASSUME NEW c \in Compilations, CompilationStep(c)
         PROVE  DocumentInv'
    BY <1>13, DocumentFrame DEF CompilationStep, StartCompilation, PublishPreamble, PublishResult,
       CountDown, ResumeWaiter, FinishCompilation
  <1>14. ASSUME NEW c \in Compilations, DiagnosticStep(c)
         PROVE  DocumentInv'
    BY <1>14, DocumentFrame DEF DiagnosticStep, DebounceElapsed, StartDiagnostic, CheckDiagnostic,
       PublishDiagnostic, MoveDiagnostic
  <1>15. ASSUME NEW r \in Requests, QueryStep(r)
         PROVE  DocumentInv'
    BY <1>15, DocumentFrame DEF QueryStep, StartQuery, AnswerQuery, FinishQuery
  <1>16. ASSUME UNCHANGED vars
         PROVE  DocumentInv'
    BY <1>16, DocumentFrame DEF vars
  <1>17. QED
    BY <1>1, <1>2, <1>3, <1>4, <1>5, <1>6, <1>7, <1>8, <1>9, <1>10, <1>11, <1>12, <1>13, <1>14,
       <1>15, <1>16 DEF Next, ClientStep, HandlerStep, Idle

LEMMA CompilationStepInv ==
  ASSUME IInv, [Next]_vars
  PROVE  CompilationInv'
  <1> USE NullAssumption DEF IInv, CompilationInv, CompilationTypes, FlagsFollowRun,
          PreambleMatchesConfig, Created, Listening, docVars, flagVars, CompRunning
  <1>1. ASSUME NEW u \in Uris, NEW t \in Texts, NEW x \in Contexts, NEW c \in Compilations,
               DidOpen(u, t, x, c)
        PROVE  CompilationInv'
    <2>1. NewCompilation(c, u, x, t, DefaultConfig, NoPreamble) /\ c \in Unused
      BY <1>1 DEF DidOpen
    <2>2. /\ comp'[c] \in CompilationType /\ comp'[c] # None
          /\ comp'[c].preamble = NoPreamble
          /\ comp' = [comp EXCEPT ![c] = comp'[c]]
      BY <2>1, NewVersion, DefaultConfigType
    <2>3. QED
      BY <1>1, <2>2 DEF DidOpen, ScheduleBackgroundCompilation, Unused
  <1>2. ASSUME NEW c \in Compilations, InstallChange(c)
        PROVE  CompilationInv'
    <2>1. /\ comp'[c] \in CompilationType /\ comp'[c] # None
          /\ comp'[c].preamble \in {NoPreamble, comp'[c].config}
          /\ comp' = [comp EXCEPT ![c] = comp'[c]]
      <3>1. handler # IdleHandler
        BY <1>2 DEF InstallChange, IdleHandler
      <3>2. documentContexts[handler.uri] \in Contexts
        BY <3>1 DEF DocumentInv, HandlerEditsOpenDocument
      <3>3. handler.uri \in Uris /\ handler.text \in Texts /\ handler.config \in LanguageConfig
            /\ UsablePreamble(handler.preamble, handler.config) \in LanguageConfig \cup {NoPreamble}
            /\ UsablePreamble(handler.preamble, handler.config) \in {NoPreamble, handler.config}
        BY <1>2 DEF InstallChange, HandlerType, IdleHandler, UsablePreamble, DocumentInv,
           DocumentTypes
      <3>4. QED
        BY <1>2, <3>2, <3>3, NewVersion DEF InstallChange
    <2>2. QED
      BY <1>2, <2>1 DEF InstallChange, ScheduleBackgroundCompilation, Unused
  <1>3. ASSUME NEW c \in Compilations, StartCompilation(c)
        PROVE  CompilationInv'
    BY <1>3 DEF StartCompilation
  <1>4. ASSUME NEW c \in Compilations, PublishPreamble(c)
        PROVE  CompilationInv'
    <2>1. comp[c] \in CompilationType /\ comp[c].config \in LanguageConfig
      BY <1>4 DEF PublishPreamble, CompilationType
    <2>2. QED
      BY <1>4, <2>1 DEF PublishPreamble
  <1>5. ASSUME NEW c \in Compilations, PublishResult(c)
        PROVE  CompilationInv'
    <2>1. comp[c] \in CompilationType /\ comp[c].config \in LanguageConfig /\ comp[c].text \in Texts
          /\ nextPreamble[c] = comp[c].config
      BY <1>5 DEF PublishResult, CompilationType
    <2>2. CollectConfig(nextPreamble[c], comp[c].text) \in LanguageConfig
          /\ comp[c].config.extensions
                \subseteq CollectConfig(nextPreamble[c], comp[c].text).extensions
      BY <2>1, TextAssumption DEF CollectConfig, LanguageConfig
    <2>3. QED
      BY <1>5, <2>2 DEF PublishResult
  <1>6. ASSUME NEW c \in Compilations, CountDown(c) \/ FinishCompilation(c)
        PROVE  CompilationInv'
    BY <1>6 DEF CountDown, FinishCompilation
  <1>7. ASSUME UNCHANGED compVars \/ UNCHANGED <<compPc, comp, flagVars>>
        PROVE  CompilationInv'
    BY <1>7, CompilationFrame DEF compVars
  <1>8. QED
    BY <1>1, <1>2, <1>3, <1>4, <1>5, <1>6, <1>7
    DEF Next, vars, ClientStep, BeginChange, DidClose, ChangeUnopened, CloseNullEntry, QueryUnopened,
        ScheduleQuery, Exit, HandlerStep, ReadNextConfig, ReadNextPreamble, CompilationStep,
        ResumeWaiter, DiagnosticStep, DebounceElapsed, StartDiagnostic, CheckDiagnostic,
        PublishDiagnostic, MoveDiagnostic, QueryStep, StartQuery, AnswerQuery, FinishQuery,
        ContextStep, AwaitScopeEmpty, DestroyContext, Idle

-----------------------------------------------------------------------------
LEMMA TaskStepInv ==
  ASSUME IInv, [Next]_vars
  PROVE  TaskTypes'
  <1> USE DEF IInv, TaskTypes
  <1>1. ASSUME NEW u \in Uris, NEW t \in Texts, NEW x \in Contexts, NEW c \in Compilations,
               DidOpen(u, t, x, c)
        PROVE  TaskTypes'
    BY <1>1 DEF DidOpen, ScheduleBackgroundDiagnostic
  <1>2. ASSUME NEW u \in Uris, NEW t \in Texts, BeginChange(u, t)
        PROVE  TaskTypes'
    BY <1>2 DEF BeginChange
  <1>3. ASSUME NEW c \in Compilations, InstallChange(c)
        PROVE  TaskTypes'
    BY <1>3 DEF InstallChange, ScheduleBackgroundDiagnostic
  <1>4. ASSUME NEW c \in Compilations, DiagnosticStep(c)
        PROVE  TaskTypes'
    BY <1>4 DEF DiagnosticStep, DebounceElapsed, StartDiagnostic, CheckDiagnostic,
       PublishDiagnostic, MoveDiagnostic, DiagRunning, compVars
  <1>5. ASSUME UNCHANGED <<isExpired, diagnostic>>
        PROVE  TaskTypes'
    BY <1>5
  <1>6. QED
    BY <1>1, <1>2, <1>3, <1>4, <1>5
    DEF Next, vars, compVars, ClientStep, DidClose, ChangeUnopened, CloseNullEntry, QueryUnopened,
        ScheduleQuery, Exit, HandlerStep, ReadNextConfig, ReadNextPreamble, CompilationStep,
        StartCompilation, PublishPreamble, PublishResult, CountDown, ResumeWaiter,
        FinishCompilation, QueryStep, StartQuery, AnswerQuery, FinishQuery, ContextStep,
        AwaitScopeEmpty, DestroyContext, Idle

-----------------------------------------------------------------------------
\* A queue of requests loses its head or gains an element.
LEMMA QueueOps ==
  ASSUME NEW q \in Seq(Requests)
  PROVE  /\ \A r \in Requests :
               /\ Append(q, r) \in Seq(Requests)
               /\ \A i \in DOMAIN Append(q, r) :
                     \/ i \in DOMAIN q /\ Append(q, r)[i] = q[i]
                     \/ Append(q, r)[i] = r
         /\ q # <<>> =>
               /\ 1 \in DOMAIN q /\ Head(q) = q[1] /\ Head(q) \in Requests
               /\ Tail(q) \in Seq(Requests)
               /\ \A i \in DOMAIN Tail(q) : i + 1 \in DOMAIN q /\ Tail(q)[i] = q[i + 1]
  OBVIOUS

\* Where a query goes that the latch of its version lets through.
LEMMA LetLockInv ==
  ASSUME QueryTypes, NEW r \in Requests, NEW x \in Contexts, NEW f \in Features,
         LetLock(r, x, f)
  PROVE  /\ queryPc' \in [Requests -> {"unsent", "ignored", "waiting", "locking", "queued", "done"}
                                      \cup QueryRunning]
         /\ r \in Accepted'
         /\ \A s \in Requests \ {r} : queryPc'[s] = queryPc[s]
         /\ locked' \in [StateMutexes -> BOOLEAN]
         /\ lockQueue' \in [StateMutexes -> Seq(Requests)]
         /\ \A m \in StateMutexes : \A i \in DOMAIN lockQueue'[m] :
               \/ i \in DOMAIN lockQueue[m] /\ lockQueue'[m][i] = lockQueue[m][i]
               \/ lockQueue'[m][i] = r
  <1> DEFINE m == <<x, f>>
  <1>1. f \in StatefulFeatures => m \in StateMutexes
    BY DEF StateMutexes
  <1>2. f \in StatefulFeatures => lockQueue[m] \in Seq(Requests)
    BY <1>1 DEF QueryTypes
  <1> USE DEF LetLock, QueryTypes, Accepted, lockVars
  <1>3. CASE f \in StatelessFeatures /\ queryPc' = [queryPc EXCEPT ![r] = "queued"]
             /\ UNCHANGED lockVars
    BY <1>3
  <1>4. CASE f \in StatefulFeatures /\ queryPc' = [queryPc EXCEPT ![r] = "queued"]
             /\ locked' = [locked EXCEPT ![m] = TRUE] /\ UNCHANGED lockQueue
    BY <1>1, <1>4
  <1>5. CASE f \in StatefulFeatures /\ queryPc' = [queryPc EXCEPT ![r] = "locking"]
             /\ lockQueue' = [lockQueue EXCEPT ![m] = Append(@, r)] /\ UNCHANGED locked
    <2>1. lockQueue' \in [StateMutexes -> Seq(Requests)]
      BY <1>1, <1>2, <1>5, QueueOps
    <2>2. lockQueue'[m] = Append(lockQueue[m], r)
          /\ \A n \in StateMutexes \ {m} : lockQueue'[n] = lockQueue[n]
      BY <1>1, <1>5
    <2>3. ASSUME NEW n \in StateMutexes
          PROVE  \A i \in DOMAIN lockQueue'[n] :
               \/ i \in DOMAIN lockQueue[n] /\ lockQueue'[n][i] = lockQueue[n][i]
               \/ lockQueue'[n][i] = r
      <3>1. CASE n = m
        <4>1. \A i \in DOMAIN Append(lockQueue[m], r) :
                 \/ i \in DOMAIN lockQueue[m] /\ Append(lockQueue[m], r)[i] = lockQueue[m][i]
                 \/ Append(lockQueue[m], r)[i] = r
          BY <1>2, <1>5, QueueOps
        <4>2. QED
          BY <2>2, <3>1, <4>1
      <3>2. CASE n # m
        BY <2>2, <3>2
      <3>3. QED
        BY <3>1, <3>2
    <2>4. QED
      BY <1>5, <2>1, <2>3
  <1>6. QED
    BY <1>3, <1>4, <1>5

LEMMA QueryStepInv ==
  ASSUME IInv, [Next]_vars
  PROVE  QueryInv'
  <1> USE DEF IInv, QueryInv
  <1>1. ASSUME NEW c \in Compilations, NEW u \in Uris, NEW x \in Contexts, NEW text \in Texts,
               NEW config \in LanguageConfig, NEW preamble \in LanguageConfig \cup {NoPreamble},
               c \in Unused, NewCompilation(c, u, x, text, config, preamble),
               UNCHANGED <<isAvailable, signalResumeQueue, queryVars, lockVars>>
        PROVE  QueryInv'
    <2>1. comp'[c] # None /\ comp' = [comp EXCEPT ![c] = comp'[c]]
      BY <1>1, NewVersion DEF CompilationInv
    <2>2. Created \subseteq Created'
      BY <2>1 DEF Created, CompilationInv, CompilationTypes
    <2>3. QED
      BY <1>1, <2>2 DEF queryVars, lockVars, QueryTypes, QueriesHaveVersion, WaitersWait,
         QueryFindsResult, Accepted
  <1>2. ASSUME NEW u \in Uris, NEW t \in Texts, NEW x \in Contexts, NEW c \in Compilations,
               DidOpen(u, t, x, c)
        PROVE  QueryInv'
    BY <1>1, <1>2, DefaultConfigType DEF DidOpen, flagVars
  <1>3. ASSUME NEW c \in Compilations, InstallChange(c)
        PROVE  QueryInv'
    <2>1. handler # IdleHandler /\ documentContexts[handler.uri] \in Contexts
      BY <1>3 DEF InstallChange, IdleHandler, DocumentInv, HandlerEditsOpenDocument
    <2>2. handler.uri \in Uris /\ handler.text \in Texts /\ handler.config \in LanguageConfig
          /\ UsablePreamble(handler.preamble, handler.config) \in LanguageConfig \cup {NoPreamble}
      BY <1>3 DEF InstallChange, HandlerType, IdleHandler, UsablePreamble, DocumentInv, DocumentTypes
    <2>3. QED
      BY <1>1, <1>3, <2>1, <2>2 DEF InstallChange, flagVars
  <1>4. ASSUME NEW c \in Compilations, PublishResult(c)
        PROVE  QueryInv'
    <2>1. \A d \in Compilations : isAvailable[d] => isAvailable'[d]
      BY <1>4 DEF PublishResult, CompilationInv, CompilationTypes
    <2>2. UNCHANGED <<comp, signalResumeQueue, queryVars, lockVars>>
      BY <1>4 DEF PublishResult
    <2>3. \A m \in StateMutexes : \A i \in DOMAIN lockQueue[m] :
             query[lockQueue[m][i]].compilation \in Compilations
      BY DEF QueryTypes, WaitersWait, QueriesHaveVersion, Accepted, Created
    <2>4. \A r \in Accepted : query[r].compilation \in Compilations
      BY DEF QueriesHaveVersion, Created
    <2>5. QueryFindsResult'
      BY <2>1, <2>2, <2>4 DEF QueryFindsResult, queryVars, QueryRunning, Accepted
    <2>6. QED
      BY <2>1, <2>2, <2>3, <2>5 DEF queryVars, lockVars, QueryTypes, QueriesHaveVersion, WaitersWait,
         Created, Accepted
  <1>5. ASSUME NEW c \in Compilations, ResumeWaiter(c)
        PROVE  QueryInv'
    <2> DEFINE r == Head(signalResumeQueue[c])
    <2>1. /\ r \in Requests /\ r \in Accepted /\ query[r].compilation = c
          /\ Tail(signalResumeQueue[c]) \in Seq(Requests)
          /\ \A i \in DOMAIN Tail(signalResumeQueue[c]) :
                /\ i + 1 \in DOMAIN signalResumeQueue[c]
                /\ Tail(signalResumeQueue[c])[i] = signalResumeQueue[c][i + 1]
      BY <1>5, QueueOps DEF ResumeWaiter, QueryTypes, WaitersWait
    <2>2. query[r].context \in Contexts /\ query[r].feature \in Features
      BY <2>1 DEF QueriesHaveVersion, QueryType
    <2>3. LetLock(r, query[r].context, query[r].feature) /\ QueryTypes
      BY <1>5 DEF ResumeWaiter
    <2>4. isAvailable[c]
      BY <1>5 DEF ResumeWaiter, CompilationInv, FlagsFollowRun
    <2>5. UNCHANGED <<comp, isAvailable, query, answer>>
          /\ signalResumeQueue' = [signalResumeQueue EXCEPT ![c] = Tail(@)]
      BY <1>5 DEF ResumeWaiter, flagVars
    <2>6. /\ r \in Accepted'
          /\ \A s \in Requests \ {r} : queryPc'[s] = queryPc[s]
          /\ \A m \in StateMutexes : \A i \in DOMAIN lockQueue'[m] :
                \/ i \in DOMAIN lockQueue[m] /\ lockQueue'[m][i] = lockQueue[m][i]
                \/ lockQueue'[m][i] = r
      BY <2>1, <2>2, <2>3, LetLockInv
    <2>7. QueryTypes'
      BY <2>1, <2>2, <2>3, <2>5, LetLockInv DEF QueryTypes
    <2>8. Accepted' = Accepted
      BY <2>1, <2>6 DEF Accepted
    <2>9. QueriesHaveVersion' /\ QueryFindsResult'
      BY <2>1, <2>4, <2>5, <2>6, <2>8 DEF QueriesHaveVersion, QueryFindsResult, Created
    <2>10. WaitersWait'
      <3>1. ASSUME NEW d \in Compilations, NEW i \in DOMAIN signalResumeQueue'[d]
            PROVE  /\ signalResumeQueue'[d][i] \in Accepted'
                   /\ query'[signalResumeQueue'[d][i]].compilation = d
        BY <2>1, <2>5, <2>8 DEF WaitersWait, QueryTypes
      <3>2. ASSUME NEW m \in StateMutexes, NEW i \in DOMAIN lockQueue'[m]
            PROVE  /\ lockQueue'[m][i] \in Accepted'
                   /\ isAvailable'[query'[lockQueue'[m][i]].compilation]
        <4>1. CASE lockQueue'[m][i] = r
          BY <2>1, <2>4, <2>5, <2>6, <4>1
        <4>2. CASE i \in DOMAIN lockQueue[m] /\ lockQueue'[m][i] = lockQueue[m][i]
          BY <2>5, <2>8, <4>2 DEF WaitersWait
        <4>3. QED
          BY <2>6, <4>1, <4>2
      <3>3. QED
        BY <3>1, <3>2 DEF WaitersWait
    <2>11. QED
      BY <2>7, <2>9, <2>10
  <1>6. ASSUME NEW u \in Uris, NEW r \in Requests, NEW f \in Features, ScheduleQuery(r, u, f)
        PROVE  QueryInv'
    <2> DEFINE x == documentContexts[u]
               c == backgroundCompilation[x]
    <2>1. x \in Contexts /\ c \in Created /\ r \notin Accepted
      BY <1>6 DEF ScheduleQuery, Accepted, DocumentInv, OpenDocumentHasVersion
    <2>2. /\ query' = [query EXCEPT ![r] = [context |-> x, compilation |-> c, feature |-> f]]
          /\ UNCHANGED <<comp, isAvailable, answer>>
      BY <1>6 DEF ScheduleQuery, flagVars
    <2>3. [context |-> x, compilation |-> c, feature |-> f] \in QueryType
      BY <2>1 DEF QueryType, Created
    <2>4. CASE /\ LatchOpen(c)
               /\ LetLock(r, x, f)
               /\ UNCHANGED signalResumeQueue
      <3>1. isAvailable[c]
        BY <2>1, <2>4 DEF LatchOpen, CompilationInv, FlagsFollowRun, Created
      <3>2. QueryTypes'
        BY <2>1, <2>2, <2>3, <2>4, LetLockInv DEF QueryTypes
      <3>3. r \in Accepted' /\ Accepted \subseteq Accepted' /\ r \notin Accepted
        BY <2>1, <2>4, LetLockInv DEF Accepted
      <3>4. QueriesHaveVersion'
        BY <2>1, <2>2, <2>3, <2>4, <3>3, LetLockInv DEF QueriesHaveVersion, Created, QueryTypes, Accepted
      <3>5. QueryFindsResult'
        BY <2>1, <2>2, <2>4, <3>1, LetLockInv DEF QueryFindsResult, QueryTypes
      <3>6. WaitersWait'
        <4>1. ASSUME NEW d \in Compilations, NEW i \in DOMAIN signalResumeQueue'[d]
              PROVE  /\ signalResumeQueue'[d][i] \in Accepted'
                     /\ query'[signalResumeQueue'[d][i]].compilation = d
          BY <2>2, <2>4, <3>3 DEF WaitersWait, QueryTypes
        <4>2. ASSUME NEW m \in StateMutexes, NEW i \in DOMAIN lockQueue'[m]
              PROVE  /\ lockQueue'[m][i] \in Accepted'
                     /\ isAvailable'[query'[lockQueue'[m][i]].compilation]
          BY <2>1, <2>2, <2>4, <3>1, <3>3, LetLockInv DEF WaitersWait, QueryTypes
        <4>3. QED
          BY <4>1, <4>2 DEF WaitersWait
      <3>7. QED
        BY <3>2, <3>4, <3>5, <3>6
    <2>5. CASE /\ ~LatchOpen(c)
               /\ signalResumeQueue' = [signalResumeQueue EXCEPT ![c] = Append(@, r)]
               /\ queryPc' = [queryPc EXCEPT ![r] = "waiting"]
               /\ UNCHANGED lockVars
      <3>1. /\ signalResumeQueue[c] \in Seq(Requests)
            /\ Append(signalResumeQueue[c], r) \in Seq(Requests)
            /\ \A i \in DOMAIN Append(signalResumeQueue[c], r) :
                  \/ i \in DOMAIN signalResumeQueue[c]
                     /\ Append(signalResumeQueue[c], r)[i] = signalResumeQueue[c][i]
                  \/ Append(signalResumeQueue[c], r)[i] = r
        BY <2>1, QueueOps DEF QueryTypes, Created
      <3>2. r \in Accepted' /\ Accepted \subseteq Accepted' /\ r \notin Accepted
        BY <2>1, <2>5 DEF Accepted, QueryTypes
      <3>3. QueryTypes'
        BY <2>2, <2>3, <2>5, <3>1 DEF QueryTypes, lockVars
      <3>4. QueriesHaveVersion' /\ QueryFindsResult'
        BY <2>1, <2>2, <2>3, <2>5 DEF QueriesHaveVersion, QueryFindsResult, QueryTypes, Created,
           Accepted, QueryRunning
      <3>5. WaitersWait'
        <4>1. ASSUME NEW d \in Compilations, NEW i \in DOMAIN signalResumeQueue'[d]
              PROVE  /\ signalResumeQueue'[d][i] \in Accepted'
                     /\ query'[signalResumeQueue'[d][i]].compilation = d
          BY <2>1, <2>2, <2>5, <3>1, <3>2 DEF WaitersWait, QueryTypes, Created
        <4>2. ASSUME NEW m \in StateMutexes, NEW i \in DOMAIN lockQueue'[m]
              PROVE  /\ lockQueue'[m][i] \in Accepted'
                     /\ isAvailable'[query'[lockQueue'[m][i]].compilation]
          BY <2>2, <2>5, <3>2 DEF WaitersWait, QueryTypes, lockVars
        <4>3. QED
          BY <4>1, <4>2 DEF WaitersWait
      <3>6. QED
        BY <3>3, <3>4, <3>5
    <2>6. QED
      BY <1>6, <2>4, <2>5 DEF ScheduleQuery
  <1>7. ASSUME NEW u \in Uris, NEW r \in Requests, QueryUnopened(r, u)
        PROVE  QueryInv'
    BY <1>7 DEF QueryUnopened, compVars, flagVars, lockVars, QueryTypes, QueriesHaveVersion,
       WaitersWait, QueryFindsResult, Accepted, Created, QueryRunning
  <1>8. ASSUME NEW r \in Requests, StartQuery(r)
        PROVE  QueryInv'
    BY <1>8 DEF StartQuery, compVars, flagVars, lockVars, QueryTypes, QueriesHaveVersion,
       WaitersWait, QueryFindsResult, Accepted, Created, QueryRunning
  <1>9. ASSUME NEW r \in Requests, AnswerQuery(r)
        PROVE  QueryInv'
    <2>1. comp[query[r].compilation].text \in Texts
      BY <1>9 DEF AnswerQuery, QueriesHaveVersion, Accepted, Created, CompilationInv,
         CompilationTypes, CompilationType
    <2>2. QED
      BY <1>9, <2>1 DEF AnswerQuery, compVars, flagVars, lockVars, QueryTypes, QueriesHaveVersion,
         WaitersWait, QueryFindsResult, Accepted, Created, QueryRunning
  <1>10. ASSUME NEW r \in Requests, FinishQuery(r)
         PROVE  QueryInv'
    <2> DEFINE m == <<query[r].context, query[r].feature>>
    <2>1. UNCHANGED <<comp, isAvailable, signalResumeQueue, query, answer>>
      BY <1>10 DEF FinishQuery, compVars, flagVars
    <2>2. CASE queryPc' = [queryPc EXCEPT ![r] = "done"] /\ UNCHANGED lockVars
      BY <1>10, <2>1, <2>2 DEF FinishQuery, lockVars, QueryTypes, QueriesHaveVersion, WaitersWait,
         QueryFindsResult, Accepted, Created, QueryRunning
    <2>3. CASE query[r].feature \in StatefulFeatures /\ Unlock(r, m)
      <3>1. m \in StateMutexes
        BY <1>10, <2>3 DEF FinishQuery, QueriesHaveVersion, Accepted, QueryType, StateMutexes
      <3>2. CASE /\ lockQueue[m] # <<>>
                 /\ queryPc' = [queryPc EXCEPT ![r] = "done", ![Head(lockQueue[m])] = "queued"]
                 /\ lockQueue' = [lockQueue EXCEPT ![m] = Tail(@)]
                 /\ UNCHANGED locked
        <4> DEFINE h == Head(lockQueue[m])
        <4>1. /\ h \in Requests /\ h \in Accepted /\ isAvailable[query[h].compilation]
              /\ Tail(lockQueue[m]) \in Seq(Requests)
              /\ \A i \in DOMAIN Tail(lockQueue[m]) :
                    i + 1 \in DOMAIN lockQueue[m] /\ Tail(lockQueue[m])[i] = lockQueue[m][i + 1]
          BY <3>1, <3>2, QueueOps DEF QueryTypes, WaitersWait
        <4>2. QueryTypes'
          BY <2>1, <3>1, <3>2, <4>1 DEF QueryTypes
        <4>3. Accepted' = Accepted
          BY <1>10, <3>2, <4>1 DEF FinishQuery, Accepted, QueryTypes
        <4>4. QueriesHaveVersion' /\ QueryFindsResult'
          BY <2>1, <3>2, <4>1, <4>3 DEF QueriesHaveVersion, QueryFindsResult, QueryTypes, Created,
             QueryRunning
        <4>5. WaitersWait'
          <5>1. UNCHANGED <<signalResumeQueue, query, isAvailable>>
            BY <2>1
          <5>2. \A c \in Compilations : \A i \in DOMAIN signalResumeQueue'[c] :
                   /\ signalResumeQueue'[c][i] \in Accepted'
                   /\ query'[signalResumeQueue'[c][i]].compilation = c
            BY <4>3, <5>1 DEF WaitersWait
          <5>3. ASSUME NEW n \in StateMutexes, NEW i \in DOMAIN lockQueue'[n]
                PROVE  lockQueue'[n][i] \in Accepted' /\ isAvailable'[query'[lockQueue'[n][i]].compilation]
            <6>1. PICK j \in DOMAIN lockQueue[n] : lockQueue'[n][i] = lockQueue[n][j]
              BY <3>1, <3>2, <4>1, <5>3 DEF QueryTypes
            <6>2. QED
              BY <4>3, <5>1, <6>1 DEF WaitersWait
          <5>4. QED
            BY <5>2, <5>3 DEF WaitersWait
        <4>6. QED
          BY <4>2, <4>4, <4>5
      <3>3. CASE /\ queryPc' = [queryPc EXCEPT ![r] = "done"]
                 /\ locked' = [locked EXCEPT ![m] = FALSE]
                 /\ UNCHANGED lockQueue
        BY <1>10, <2>1, <3>1, <3>3 DEF FinishQuery, QueryTypes, QueriesHaveVersion, WaitersWait,
           QueryFindsResult, Accepted, Created, QueryRunning
      <3>4. QED
        BY <2>3, <3>2, <3>3 DEF Unlock
    <2>4. QED
      BY <1>10, <2>2, <2>3 DEF FinishQuery
  <1>11. ASSUME UNCHANGED <<comp, isAvailable, signalResumeQueue, queryVars, lockVars>>
         PROVE  QueryInv'
    BY <1>11, QueryFrame
  <1>12. QED
    BY <1>2, <1>3, <1>4, <1>5, <1>6, <1>7, <1>8, <1>9, <1>10, <1>11
    DEF Next, vars, compVars, flagVars, ClientStep, BeginChange, DidClose, ChangeUnopened,
        CloseNullEntry, Exit, HandlerStep, ReadNextConfig, ReadNextPreamble, CompilationStep,
        StartCompilation, PublishPreamble, CountDown, FinishCompilation, DiagnosticStep,
        DebounceElapsed, StartDiagnostic, CheckDiagnostic, PublishDiagnostic, MoveDiagnostic,
        QueryStep, ContextStep, AwaitScopeEmpty, DestroyContext, Idle

-----------------------------------------------------------------------------
(***************************************************************************)
(* Theorems.                                                               *)
(***************************************************************************)
LEMMA InitIInv == Init => IInv
  <1> SUFFICES ASSUME Init
               PROVE  IInv
    OBVIOUS
  <1> USE NullAssumption DEF Init
  <1>1. DocumentInv
    BY DEF DocumentInv, DocumentTypes, HandlerType, OpenDocumentHasVersion, UnusedContextIsBlank,
       LatestIsCreated, HandlerEditsOpenDocument, OnlyLatestUnexpired, Created
  <1>2. CompilationInv
    BY DefaultConfigType DEF CompilationInv, CompilationTypes, FlagsFollowRun,
       PreambleMatchesConfig, Created
  <1>3. TaskTypes
    BY DEF TaskTypes
  <1>4. QueryInv
    BY DEF QueryInv, QueryTypes, QueriesHaveVersion, WaitersWait, QueryFindsResult, Accepted,
       QueryRunning
  <1>5. QED
    BY <1>1, <1>2, <1>3, <1>4 DEF IInv

\* The inductive invariant holds of every behaviour.
THEOREM Inductive == Spec => []IInv
  <1>1. IInv /\ [Next]_vars => IInv'
    BY DocumentStep, CompilationStepInv, TaskStepInv, QueryStepInv DEF IInv
  <1>2. QED
    BY InitIInv, <1>1, PTL DEF Spec

\* Every variable keeps its type.
THEOREM TypeCorrect == Spec => []TypeOK
  <1>1. IInv => TypeOK
    BY DEF IInv, DocumentInv, CompilationInv, QueryInv, TypeOK
  <1>2. QED
    BY Inductive, <1>1, PTL

\* The assertion of the BackgroundCompilation constructor never fails: a
\* version never gets a preamble that was compiled for another config.
THEOREM PreambleAlwaysMatches == Spec => []PreambleMatchesConfig
  <1>1. IInv => PreambleMatchesConfig
    BY DEF IInv, CompilationInv
  <1>2. QED
    BY Inductive, <1>1, PTL

\* The assertion of GetLanguageQueryInfo never fails: a query that runs finds
\* the result of the version it asked about.
THEOREM QueryAlwaysFindsResult == Spec => []QueryFindsResult
  <1>1. IInv => QueryFindsResult
    BY DEF IInv, QueryInv
  <1>2. QED
    BY Inductive, <1>1, PTL

\* Every version but the latest of its document is expired.
THEOREM OnlyLatestIsUnexpired == Spec => []OnlyLatestUnexpired
  <1>1. IInv => OnlyLatestUnexpired
    BY DEF IInv, DocumentInv
  <1>2. QED
    BY Inductive, <1>1, PTL

\* A change installs a version with all extensions of the one it replaces.
LEMMA InstallKeepsExtensions ==
  ASSUME IInv, NEW c \in Compilations, InstallChange(c), NEW x \in Contexts,
         backgroundCompilation[x] \in Created
  PROVE  comp[backgroundCompilation[x]].config.extensions
           \subseteq comp'[backgroundCompilation'[x]].config.extensions
  <1> DEFINE y == documentContexts[handler.uri]
  <1>1. handler # IdleHandler /\ y \in Contexts /\ handler \in HandlerType
        /\ comp[backgroundCompilation[y]].config.extensions \subseteq handler.config.extensions
    BY DEF InstallChange, IInv, DocumentInv, DocumentTypes, HandlerEditsOpenDocument, Edited,
       IdleHandler
  <1>2. /\ comp'[c].config = handler.config
        /\ comp' = [comp EXCEPT ![c] = comp'[c]]
        /\ backgroundCompilation' = [backgroundCompilation EXCEPT ![y] = c]
    BY <1>1 DEF InstallChange, NewCompilation, IInv, CompilationInv, CompilationTypes
  <1>3. comp[c] = None
    BY DEF InstallChange, Unused, IInv, CompilationInv, FlagsFollowRun
  <1>4. CASE x = y
    BY <1>1, <1>2, <1>4 DEF IInv, DocumentInv, DocumentTypes
  <1>5. CASE x # y
    <2>1. backgroundCompilation'[x] = backgroundCompilation[x]
      BY <1>2, <1>5 DEF IInv, DocumentInv, DocumentTypes
    <2>2. backgroundCompilation[x] \in Compilations /\ backgroundCompilation[x] # c
      BY <1>3 DEF Created
    <2>3. comp'[backgroundCompilation[x]] = comp[backgroundCompilation[x]]
      BY <1>2, <2>2 DEF IInv, CompilationInv, CompilationTypes
    <2>4. QED
      BY <2>1, <2>3
  <1>6. QED
    BY <1>4, <1>5

\* Extensions are never switched off from one version of a document to the
\* next, however much of the previous one had been compiled.
THEOREM ExtensionsAreKept == Spec => ExtensionsNeverForgotten
  <1> DEFINE Kept ==
        \A x \in Contexts :
           backgroundCompilation[x] \in Created =>
              comp[backgroundCompilation[x]].config.extensions
                \subseteq comp'[backgroundCompilation'[x]].config.extensions
  <1>1. ASSUME IInv, [Next]_vars
        PROVE  Kept
    <2>1. ASSUME UNCHANGED <<comp, backgroundCompilation>>
          PROVE  Kept
      BY <2>1
    <2>2. ASSUME NEW u \in Uris, NEW t \in Texts, NEW x \in Contexts, NEW c \in Compilations,
                 DidOpen(u, t, x, c)
          PROVE  Kept
      <3>1. /\ backgroundCompilation' = [backgroundCompilation EXCEPT ![x] = c]
            /\ \A d \in Compilations \ {c} : comp'[d] = comp[d]
        BY <2>2, <1>1 DEF DidOpen, NewCompilation, IInv, CompilationInv, CompilationTypes
      <3>2. backgroundCompilation[x] = None /\ c \notin Created
        BY <2>2, <1>1 DEF DidOpen, Unused, IInv, DocumentInv, UnusedContextIsBlank, CompilationInv,
           FlagsFollowRun, Created
      <3>3. QED
        BY <1>1, <3>1, <3>2, NullAssumption DEF Created, IInv, DocumentInv, DocumentTypes
    <2>3. ASSUME NEW c \in Compilations, InstallChange(c)
          PROVE  Kept
      BY <1>1, <2>3, InstallKeepsExtensions
    <2>4. QED
      BY <1>1, <2>1, <2>2, <2>3
      DEF Next, vars, docVars, compVars, flagVars, ClientStep, BeginChange, DidClose,
          ChangeUnopened, CloseNullEntry, QueryUnopened, ScheduleQuery, Exit, HandlerStep,
          ReadNextConfig, ReadNextPreamble, CompilationStep, StartCompilation, PublishPreamble,
          PublishResult, CountDown, ResumeWaiter, FinishCompilation, DiagnosticStep,
          DebounceElapsed, StartDiagnostic, CheckDiagnostic, PublishDiagnostic, MoveDiagnostic,
          QueryStep, StartQuery, AnswerQuery, FinishQuery, ContextStep, AwaitScopeEmpty,
          DestroyContext, Idle
  <1>2. IInv /\ [Next]_vars => [Kept]_vars
    BY <1>1
  <1>3. QED
    BY Inductive, <1>2, PTL DEF Spec, ExtensionsNeverForgotten

\* A version that is expired before its diagnostics are ready stays so.
LEMMA ReplacedStaysUnsent ==
  ASSUME TaskTypes, [Next]_vars, NEW c \in Compilations,
         isExpired[c], diagnostic[c] \notin {"sending", "sent"}
  PROVE  isExpired'[c] /\ diagnostic'[c] \notin {"sending", "sent"}
  <1> USE DEF TaskTypes
  <1>1. ASSUME UNCHANGED <<isExpired, diagnostic>>
        PROVE  isExpired'[c] /\ diagnostic'[c] \notin {"sending", "sent"}
    BY <1>1
  <1>2. ASSUME NEW d \in Compilations, NEW u,
               ScheduleBackgroundDiagnostic(d, u), UNCHANGED isExpired
        PROVE  isExpired'[c] /\ diagnostic'[c] \notin {"sending", "sent"}
    BY <1>2 DEF ScheduleBackgroundDiagnostic
  <1>3. ASSUME NEW u \in Uris, NEW t \in Texts, BeginChange(u, t)
        PROVE  isExpired'[c] /\ diagnostic'[c] \notin {"sending", "sent"}
    BY <1>3 DEF BeginChange
  <1>4. ASSUME NEW d \in Compilations, DiagnosticStep(d)
        PROVE  isExpired'[c] /\ diagnostic'[c] \notin {"sending", "sent"}
    BY <1>4 DEF DiagnosticStep, DebounceElapsed, StartDiagnostic, CheckDiagnostic,
       PublishDiagnostic, MoveDiagnostic, compVars
  <1>5. ASSUME NEW u \in Uris, NEW t \in Texts, NEW x \in Contexts, NEW d \in Compilations,
               DidOpen(u, t, x, d)
        PROVE  isExpired'[c] /\ diagnostic'[c] \notin {"sending", "sent"}
    BY <1>2, <1>5 DEF DidOpen
  <1>6. ASSUME NEW d \in Compilations, InstallChange(d)
        PROVE  isExpired'[c] /\ diagnostic'[c] \notin {"sending", "sent"}
    BY <1>2, <1>6 DEF InstallChange
  <1>7. QED
    BY <1>1, <1>3, <1>4, <1>5, <1>6
    DEF Next, vars, docVars, compVars, ClientStep, DidClose, ChangeUnopened, CloseNullEntry,
        QueryUnopened, ScheduleQuery, Exit, HandlerStep, ReadNextConfig, ReadNextPreamble,
        CompilationStep, StartCompilation, PublishPreamble, PublishResult, CountDown,
        ResumeWaiter, FinishCompilation, QueryStep, StartQuery, AnswerQuery, FinishQuery,
        ContextStep, AwaitScopeEmpty, DestroyContext, Idle

\* A version that a change replaces before its diagnostics are ready never
\* publishes them: the flag is read again after the computation.
THEOREM ReplacedIsNeverPublished == Spec => ReplacedNeverPublished
  <1> SUFFICES ASSUME NEW c \in Compilations
               PROVE  Spec => [](isExpired[c] /\ diagnostic[c] \in {"timer", "queued", "computing"}
                                   => [](diagnostic[c] # "sent"))
    BY DEF ReplacedNeverPublished
  <1> DEFINE Unsent == isExpired[c] /\ diagnostic[c] \notin {"sending", "sent"}
  <1>1. IInv /\ [Next]_vars /\ Unsent => Unsent'
    BY ReplacedStaysUnsent DEF IInv
  <1>2. isExpired[c] /\ diagnostic[c] \in {"timer", "queued", "computing"} => Unsent
    OBVIOUS
  <1>3. Unsent => diagnostic[c] # "sent"
    OBVIOUS
  <1>4. QED
    BY Inductive, <1>1, <1>2, <1>3, PTL DEF Spec

-----------------------------------------------------------------------------
(***************************************************************************)
(* The locks of DocumentService, and that it implements DocumentContract.  *)
(*                                                                         *)
(* The mutex of a feature's state has at most one holder                   *)
(* (OneHolderPerState).  A query that is handed the mutex must be known to *)
(* wait for that mutex and to be in its queue only once: the invariant     *)
(* says of both kinds of queues who is in them.                            *)
(*                                                                         *)
(* The contract (ImplementsContract), and that a server that is not told   *)
(* to exit keeps every context until its tasks are done                    *)
(* (ContextOutlivesTasks), need besides that no two open documents share a *)
(* context: otherwise a change to one would change the other, or closing   *)
(* it would free the other's context.                                      *)
(***************************************************************************)

NoRepetition(queue) == \A i, j \in DOMAIN queue : queue[i] = queue[j] => i = j

\* In the queue of a latch are queries that wait, each of them once.
LatchQueues ==
    \A c \in Compilations :
        /\ \A i \in DOMAIN signalResumeQueue[c] : queryPc[signalResumeQueue[c][i]] = "waiting"
        /\ NoRepetition(signalResumeQueue[c])

Wants(r, m) == <<query[r].context, query[r].feature>> = m

\* In the queue of a mutex are queries that wait for it, each of them once.
LockQueues ==
    \A m \in StateMutexes :
        /\ \A i \in DOMAIN lockQueue[m] :
              queryPc[lockQueue[m][i]] = "locking" /\ Wants(lockQueue[m][i], m)
        /\ NoRepetition(lockQueue[m])

\* A locked mutex has one holder, a free one has no holder and no queue.
LockedByOne ==
    \A m \in StateMutexes :
        \/ locked[m] /\ \E r \in Requests : Holders(m) = {r}
        \/ ~locked[m] /\ Holders(m) = {} /\ lockQueue[m] = <<>>

MutexInv == LatchQueues /\ LockQueues /\ LockedByOne

-----------------------------------------------------------------------------
LEMMA MutexFrame ==
  ASSUME MutexInv, UNCHANGED <<signalResumeQueue, queryPc, query, lockVars>>
  PROVE  MutexInv'
  BY DEF MutexInv, LatchQueues, LockQueues, LockedByOne, Holders, Wants, NoRepetition, lockVars

\* A queue without repetition keeps that when its head leaves it or a request
\* joins it that is not in it.
LEMMA QueueKeeps ==
  ASSUME NEW q \in Seq(Requests), NoRepetition(q)
  PROVE  /\ \A r \in Requests : (\A i \in DOMAIN q : q[i] # r) => NoRepetition(Append(q, r))
         /\ q # <<>> => /\ NoRepetition(Tail(q))
                        /\ \A i \in DOMAIN Tail(q) : Tail(q)[i] # Head(q)
  <1>1. ASSUME NEW r \in Requests, \A i \in DOMAIN q : q[i] # r
        PROVE  NoRepetition(Append(q, r))
    BY <1>1 DEF NoRepetition
  <1>2. ASSUME q # <<>>
        PROVE  /\ NoRepetition(Tail(q))
               /\ \A i \in DOMAIN Tail(q) : Tail(q)[i] # Head(q)
    BY <1>2 DEF NoRepetition
  <1>3. QED
    BY <1>1, <1>2

\* A query that is no holder and in no queue of a mutex takes the one it wants
\* or queues for it.
LEMMA LetLockKeeps ==
  ASSUME QueryTypes, LockQueues, LockedByOne,
         NEW r \in Requests, queryPc[r] \in {"unsent", "waiting"},
         NEW x \in Contexts, NEW f \in Features, LetLock(r, x, f),
         query'[r].context = x, query'[r].feature = f,
         \A s \in Requests \ {r} : query'[s] = query[s]
  PROVE  LockQueues' /\ LockedByOne'
  <1> DEFINE m == <<x, f>>
             WantsNext(s, n) == <<query'[s].context, query'[s].feature>> = n
  <1>1. \A n \in StateMutexes : \A i \in DOMAIN lockQueue[n] :
           lockQueue[n][i] \in Requests /\ lockQueue[n][i] # r
    BY DEF QueryTypes, LockQueues
  <1>2. \A n \in StateMutexes : r \notin Holders(n)
    BY DEF Holders, QueryRunning
  <1>3. ASSUME NEW n \in StateMutexes, n # m \/ queryPc'[r] = "locking",
               queryPc' = [queryPc EXCEPT ![r] = queryPc'[r]]
        PROVE  Holders(n)' = Holders(n)
    BY <1>2, <1>3 DEF Holders, QueryTypes, QueryRunning
  <1>4. CASE f \in StatelessFeatures /\ queryPc' = [queryPc EXCEPT ![r] = "queued"]
             /\ UNCHANGED lockVars
    <2>1. m \notin StateMutexes
      BY <1>4, FeatureAssumption DEF StateMutexes
    <2>2. \A n \in StateMutexes : Holders(n)' = Holders(n)
      BY <1>3, <1>4, <2>1 DEF QueryTypes
    <2>3. LockQueues'
      BY <1>1, <1>4 DEF LockQueues, lockVars, Wants, QueryTypes
    <2>4. QED
      BY <1>4, <2>2, <2>3 DEF LockedByOne, lockVars
  <1>5. CASE f \in StatefulFeatures /\ ~locked[m] /\ locked' = [locked EXCEPT ![m] = TRUE]
             /\ queryPc' = [queryPc EXCEPT ![r] = "queued"] /\ UNCHANGED lockQueue
    <2>1. m \in StateMutexes
      BY <1>5 DEF StateMutexes
    <2>2. Holders(m)' = {r}
      <3>1. Holders(m) = {}
        BY <1>5, <2>1 DEF LockedByOne
      <3>2. QED
        BY <1>5, <3>1 DEF Holders, QueryTypes
    <2>3. \A n \in StateMutexes \ {m} : Holders(n)' = Holders(n)
      BY <1>3, <1>5 DEF QueryTypes
    <2>4. LockQueues'
      BY <1>1, <1>5 DEF LockQueues, Wants, QueryTypes
    <2>5. LockedByOne'
      <3>1. ASSUME NEW n \in StateMutexes
            PROVE  \/ locked'[n] /\ \E s \in Requests : Holders(n)' = {s}
                   \/ ~locked'[n] /\ Holders(n)' = {} /\ lockQueue'[n] = <<>>
        <4>1. CASE n = m
          BY <1>5, <2>1, <2>2, <4>1 DEF QueryTypes
        <4>2. CASE n # m
          BY <1>5, <2>3, <4>2 DEF LockedByOne, QueryTypes
        <4>3. QED
          BY <4>1, <4>2
      <3>2. QED
        BY <3>1 DEF LockedByOne
    <2>6. QED
      BY <2>4, <2>5
  <1>6. CASE f \in StatefulFeatures /\ locked[m]
             /\ lockQueue' = [lockQueue EXCEPT ![m] = Append(@, r)]
             /\ queryPc' = [queryPc EXCEPT ![r] = "locking"] /\ UNCHANGED locked
    <2>1. m \in StateMutexes /\ lockQueue[m] \in Seq(Requests)
      BY <1>6 DEF StateMutexes, QueryTypes
    <2>2. \A n \in StateMutexes : Holders(n)' = Holders(n)
      BY <1>3, <1>6 DEF QueryTypes
    <2>3. LockQueues'
      <3>1. ASSUME NEW n \in StateMutexes
            PROVE  /\ \A i \in DOMAIN lockQueue'[n] :
                         queryPc'[lockQueue'[n][i]] = "locking" /\ WantsNext(lockQueue'[n][i], n)
                   /\ NoRepetition(lockQueue'[n])
        <4>1. CASE n # m
          BY <1>1, <1>6, <4>1 DEF LockQueues, Wants, QueryTypes
        <4>2. CASE n = m
          <5>1. lockQueue'[m] = Append(lockQueue[m], r)
            BY <1>6, <2>1 DEF QueryTypes
          <5>2. NoRepetition(Append(lockQueue[m], r))
            BY <1>1, <2>1, QueueKeeps DEF LockQueues
          <5>3. ASSUME NEW i \in DOMAIN Append(lockQueue[m], r)
                PROVE  /\ queryPc'[Append(lockQueue[m], r)[i]] = "locking"
                       /\ WantsNext(Append(lockQueue[m], r)[i], m)
            <6>1. \/ i \in DOMAIN lockQueue[m] /\ Append(lockQueue[m], r)[i] = lockQueue[m][i]
                  \/ Append(lockQueue[m], r)[i] = r
              BY <2>1, <5>3, QueueOps
            <6>2. QED
              <7>1. CASE /\ i \in DOMAIN lockQueue[m]
                         /\ Append(lockQueue[m], r)[i] = lockQueue[m][i]
                <8> DEFINE s == lockQueue[m][i]
                <8>1. s \in Requests \ {r}
                  BY <1>1, <2>1, <7>1
                <8>2. queryPc[s] = "locking" /\ Wants(s, m)
                  BY <2>1, <7>1 DEF LockQueues
                <8>3. queryPc'[s] = queryPc[s] /\ query'[s] = query[s]
                  BY <1>6, <8>1 DEF QueryTypes
                <8>4. QED
                  BY <7>1, <8>2, <8>3 DEF Wants
              <7>2. CASE Append(lockQueue[m], r)[i] = r
                <8>1. queryPc'[r] = "locking"
                  BY <1>6 DEF QueryTypes
                <8>2. QED
                  BY <7>2, <8>1
              <7>3. QED
                BY <6>1, <7>1, <7>2
          <5>4. /\ \A i \in DOMAIN lockQueue'[m] :
                      queryPc'[lockQueue'[m][i]] = "locking" /\ WantsNext(lockQueue'[m][i], m)
                /\ NoRepetition(lockQueue'[m])
            BY <5>1, <5>2, <5>3
          <5>5. QED
            BY <4>2, <5>4
        <4>3. QED
          BY <4>1, <4>2
      <3>2. QED
        BY <3>1 DEF LockQueues, Wants
    <2>4. LockedByOne'
      BY <1>6, <2>1, <2>2 DEF LockedByOne, QueryTypes
    <2>5. QED
      BY <2>3, <2>4
  <1>7. QED
    BY <1>4, <1>5, <1>6 DEF LetLock

\* A query goes from one state outside every queue to another.
LEMMA MoveKeeps ==
  ASSUME QueryTypes, MutexInv, NEW r \in Requests, NEW pc,
         queryPc[r] \notin {"waiting", "locking"}, pc \notin {"waiting", "locking"},
         pc \in {"queued"} \cup QueryRunning <=> queryPc[r] \in {"queued"} \cup QueryRunning,
         queryPc' = [queryPc EXCEPT ![r] = pc],
         UNCHANGED <<signalResumeQueue, query, lockVars>>
  PROVE  MutexInv'
  <1>1. \A n \in StateMutexes : Holders(n)' = Holders(n)
    BY DEF Holders, QueryTypes
  <1>2. LatchQueues' /\ LockQueues'
    BY DEF MutexInv, LatchQueues, LockQueues, Wants, QueryTypes, lockVars
  <1>3. LockedByOne'
    BY <1>1 DEF MutexInv, LockedByOne, lockVars
  <1>4. QED
    BY <1>2, <1>3 DEF MutexInv

\* The latch of a version lets the first of its waiters through.
LEMMA ResumeKeeps ==
  ASSUME IInv, MutexInv, NEW c \in Compilations, ResumeWaiter(c)
  PROVE  MutexInv'
  <1> DEFINE r == Head(signalResumeQueue[c])
  <1>1. /\ signalResumeQueue[c] \in Seq(Requests) /\ signalResumeQueue[c] # <<>>
        /\ signalResumeQueue' = [signalResumeQueue EXCEPT ![c] = Tail(@)]
        /\ UNCHANGED query
    BY DEF ResumeWaiter, IInv, QueryInv, QueryTypes
  <1>2. /\ r \in Requests /\ r \in Accepted /\ queryPc[r] = "waiting"
        /\ query[r].compilation = c
    BY <1>1, QueueOps DEF IInv, QueryInv, WaitersWait, MutexInv, LatchQueues
  <1>3. query[r].context \in Contexts /\ query[r].feature \in Features
    BY <1>2 DEF IInv, QueryInv, QueriesHaveVersion, QueryType
  <1>4. LetLock(r, query[r].context, query[r].feature) /\ QueryTypes
    BY DEF ResumeWaiter, IInv, QueryInv
  <1>5. LockQueues' /\ LockedByOne'
    BY <1>1, <1>2, <1>3, <1>4, LetLockKeeps DEF MutexInv
  <1>6. \A s \in Requests \ {r} : queryPc'[s] = queryPc[s]
    BY <1>2, <1>3, <1>4, LetLockInv
  <1>7. ASSUME NEW d \in Compilations
        PROVE  /\ \A i \in DOMAIN signalResumeQueue'[d] : queryPc'[signalResumeQueue'[d][i]] = "waiting"
               /\ NoRepetition(signalResumeQueue'[d])
    <2>1. CASE d = c
      <3>1. signalResumeQueue'[d] = Tail(signalResumeQueue[c])
        BY <1>1, <1>4, <2>1 DEF QueryTypes
      <3>2. /\ NoRepetition(Tail(signalResumeQueue[c]))
            /\ \A i \in DOMAIN Tail(signalResumeQueue[c]) : Tail(signalResumeQueue[c])[i] # r
        BY <1>1, QueueKeeps DEF MutexInv, LatchQueues
      <3>3. ASSUME NEW i \in DOMAIN Tail(signalResumeQueue[c])
            PROVE  queryPc'[Tail(signalResumeQueue[c])[i]] = "waiting"
        <4>1. /\ i + 1 \in DOMAIN signalResumeQueue[c]
              /\ Tail(signalResumeQueue[c])[i] = signalResumeQueue[c][i + 1]
          BY <1>1, QueueOps
        <4>2. /\ Tail(signalResumeQueue[c])[i] \in Requests \ {r}
              /\ queryPc[Tail(signalResumeQueue[c])[i]] = "waiting"
          BY <1>1, <3>2, <4>1 DEF MutexInv, LatchQueues
        <4>3. QED
          BY <1>6, <4>2
      <3>4. QED
        BY <3>1, <3>2, <3>3
    <2>2. CASE d # c
      <3>1. signalResumeQueue'[d] = signalResumeQueue[d] /\ signalResumeQueue[d] \in Seq(Requests)
        BY <1>1, <1>4, <2>2 DEF QueryTypes
      <3>2. \A i \in DOMAIN signalResumeQueue[d] : signalResumeQueue[d][i] \in Requests \ {r}
        BY <1>2, <2>2, <3>1 DEF IInv, QueryInv, WaitersWait
      <3>3. QED
        BY <1>6, <3>1, <3>2 DEF MutexInv, LatchQueues
    <2>3. QED
      BY <2>1, <2>2
  <1>8. QED
    BY <1>5, <1>7 DEF MutexInv, LatchQueues

\* A new query goes through an open latch or joins the queue of a closed one.
LEMMA ScheduleKeeps ==
  ASSUME IInv, MutexInv, NEW u \in Uris, NEW r \in Requests, NEW f \in Features,
         ScheduleQuery(r, u, f)
  PROVE  MutexInv'
  <1> DEFINE x == documentContexts[u]
             c == backgroundCompilation[x]
  <1>1. x \in Contexts /\ c \in Created /\ queryPc[r] = "unsent" /\ QueryTypes
    BY DEF ScheduleQuery, IInv, DocumentInv, OpenDocumentHasVersion, QueryInv
  <1>2. query' = [query EXCEPT ![r] = [context |-> x, compilation |-> c, feature |-> f]]
    BY DEF ScheduleQuery
  <1>3. /\ query'[r].context = x /\ query'[r].feature = f
        /\ \A s \in Requests \ {r} : query'[s] = query[s]
    BY <1>1, <1>2 DEF QueryTypes
  <1>4. \A d \in Compilations : \A i \in DOMAIN signalResumeQueue[d] :
           signalResumeQueue[d][i] \in Requests \ {r}
    BY <1>1 DEF QueryTypes, MutexInv, LatchQueues
  <1>5. CASE LetLock(r, x, f) /\ UNCHANGED signalResumeQueue
    <2>1. LockQueues' /\ LockedByOne'
      BY <1>1, <1>3, <1>5, LetLockKeeps DEF MutexInv
    <2>2. \A s \in Requests \ {r} : queryPc'[s] = queryPc[s]
      BY <1>1, <1>5, LetLockInv
    <2>3. LatchQueues'
      BY <1>4, <1>5, <2>2 DEF MutexInv, LatchQueues
    <2>4. QED
      BY <2>1, <2>3 DEF MutexInv
  <1>6. CASE /\ signalResumeQueue' = [signalResumeQueue EXCEPT ![c] = Append(@, r)]
             /\ queryPc' = [queryPc EXCEPT ![r] = "waiting"]
             /\ UNCHANGED lockVars
    <2>1. c \in Compilations /\ signalResumeQueue[c] \in Seq(Requests)
      BY <1>1 DEF Created, QueryTypes
    <2>2. LockQueues' /\ LockedByOne'
      <3>1. \A m \in StateMutexes : Holders(m)' = Holders(m)
        BY <1>1, <1>3, <1>6 DEF Holders, QueryTypes, QueryRunning
      <3>2. \A m \in StateMutexes : \A i \in DOMAIN lockQueue[m] :
               lockQueue[m][i] \in Requests \ {r}
        BY <1>1 DEF QueryTypes, MutexInv, LockQueues
      <3>3. LockQueues'
        BY <1>1, <1>3, <1>6, <3>2 DEF MutexInv, LockQueues, Wants, QueryTypes, lockVars
      <3>4. QED
        BY <1>6, <3>1, <3>3 DEF MutexInv, LockedByOne, lockVars
    <2>3. ASSUME NEW d \in Compilations
          PROVE  /\ \A i \in DOMAIN signalResumeQueue'[d] : queryPc'[signalResumeQueue'[d][i]] = "waiting"
                 /\ NoRepetition(signalResumeQueue'[d])
      <3>1. CASE d # c
        BY <1>1, <1>4, <1>6, <3>1 DEF MutexInv, LatchQueues, QueryTypes
      <3>2. CASE d = c
        <4>1. signalResumeQueue'[d] = Append(signalResumeQueue[c], r)
          BY <1>1, <1>6, <2>1, <3>2 DEF QueryTypes
        <4>2. NoRepetition(Append(signalResumeQueue[c], r))
          BY <1>4, <2>1, QueueKeeps DEF MutexInv, LatchQueues
        <4>3. ASSUME NEW i \in DOMAIN Append(signalResumeQueue[c], r)
              PROVE  queryPc'[Append(signalResumeQueue[c], r)[i]] = "waiting"
          <5>1. \/ i \in DOMAIN signalResumeQueue[c]
                   /\ Append(signalResumeQueue[c], r)[i] = signalResumeQueue[c][i]
                \/ Append(signalResumeQueue[c], r)[i] = r
            BY <2>1, QueueOps
          <5>2. QED
            BY <1>1, <1>4, <1>6, <2>1, <5>1 DEF MutexInv, LatchQueues, QueryTypes
        <4>4. QED
          BY <4>1, <4>2, <4>3
      <3>3. QED
        BY <3>1, <3>2
    <2>4. QED
      BY <2>2, <2>3 DEF MutexInv, LatchQueues
  <1>7. QED
    BY <1>5, <1>6 DEF ScheduleQuery

\* The holder hands the mutex to the first query that waits for it.
LEMMA HandOverKeeps ==
  ASSUME QueryTypes, MutexInv, NEW r \in Requests, queryPc[r] = "answered",
         NEW m \in StateMutexes, Wants(r, m), lockQueue[m] # <<>>,
         queryPc' = [queryPc EXCEPT ![r] = "done", ![Head(lockQueue[m])] = "queued"],
         lockQueue' = [lockQueue EXCEPT ![m] = Tail(@)],
         UNCHANGED <<signalResumeQueue, query, locked>>
  PROVE  MutexInv'
  <1> DEFINE h == Head(lockQueue[m])
             WantsNext(s, n) == <<query'[s].context, query'[s].feature>> = n
  <1>1. /\ lockQueue[m] \in Seq(Requests)
        /\ h \in Requests /\ queryPc[h] = "locking" /\ Wants(h, m) /\ h # r
    <2>1. lockQueue[m] \in Seq(Requests)
      BY DEF QueryTypes
    <2>2. 1 \in DOMAIN lockQueue[m] /\ h = lockQueue[m][1] /\ h \in Requests
      BY <2>1, QueueOps
    <2>3. QED
      BY <2>1, <2>2 DEF MutexInv, LockQueues
  <1>2. /\ queryPc'[r] = "done" /\ queryPc'[h] = "queued"
        /\ \A s \in Requests \ {r, h} : queryPc'[s] = queryPc[s]
    BY <1>1 DEF QueryTypes
  <1>3. locked[m] /\ Holders(m) = {r}
    <2>1. r \in Holders(m)
      BY DEF Holders, Wants, QueryRunning
    <2>2. QED
      BY <2>1 DEF MutexInv, LockedByOne
  <1>4. Holders(m)' = {h}
    <2>1. h \in Holders(m)'
      BY <1>1, <1>2 DEF Holders, Wants
    <2>2. ASSUME NEW s \in Requests \ {r, h}
          PROVE  s \notin Holders(m)'
      BY <1>2, <1>3 DEF Holders
    <2>3. r \notin Holders(m)'
      BY <1>1, <1>2 DEF Holders, QueryRunning
    <2>4. Holders(m)' \subseteq Requests
      BY DEF Holders
    <2>5. QED
      BY <2>1, <2>2, <2>3, <2>4
  <1>5. \A n \in StateMutexes \ {m} : Holders(n)' = Holders(n)
    BY <1>1, <1>2 DEF Holders, Wants
  <1>6. LockedByOne'
    <2>1. ASSUME NEW n \in StateMutexes
          PROVE  \/ locked'[n] /\ \E s \in Requests : Holders(n)' = {s}
                 \/ ~locked'[n] /\ Holders(n)' = {} /\ lockQueue'[n] = <<>>
      <3>1. CASE n = m
        BY <1>1, <1>3, <1>4, <3>1
      <3>2. CASE n # m
        BY <1>5, <3>2 DEF MutexInv, LockedByOne, QueryTypes
      <3>3. QED
        BY <3>1, <3>2
    <2>2. QED
      BY <2>1 DEF LockedByOne
  <1>7. LockQueues'
    <2>1. ASSUME NEW n \in StateMutexes
          PROVE  /\ \A i \in DOMAIN lockQueue'[n] :
                       /\ queryPc'[lockQueue'[n][i]] = "locking"
                       /\ WantsNext(lockQueue'[n][i], n)
                 /\ NoRepetition(lockQueue'[n])
      <3>1. CASE n = m
        <4>1. lockQueue'[n] = Tail(lockQueue[m])
          BY <3>1 DEF QueryTypes
        <4>2. /\ NoRepetition(Tail(lockQueue[m]))
              /\ \A i \in DOMAIN Tail(lockQueue[m]) : Tail(lockQueue[m])[i] # h
          BY <1>1, QueueKeeps DEF MutexInv, LockQueues
        <4>3. ASSUME NEW i \in DOMAIN Tail(lockQueue[m])
              PROVE  /\ queryPc'[Tail(lockQueue[m])[i]] = "locking"
                     /\ Wants(Tail(lockQueue[m])[i], m)
          <5>1. i + 1 \in DOMAIN lockQueue[m] /\ Tail(lockQueue[m])[i] = lockQueue[m][i + 1]
            BY <1>1, QueueOps
          <5>2. /\ Tail(lockQueue[m])[i] \in Requests \ {r, h}
                /\ queryPc[Tail(lockQueue[m])[i]] = "locking"
                /\ Wants(Tail(lockQueue[m])[i], m)
            BY <1>1, <4>2, <5>1 DEF MutexInv, LockQueues
          <5>3. QED
            BY <1>2, <5>2
        <4>4. QED
          BY <3>1, <4>1, <4>2, <4>3 DEF Wants
      <3>2. CASE n # m
        <4>1. lockQueue'[n] = lockQueue[n] /\ lockQueue[n] \in Seq(Requests)
          BY <3>2 DEF QueryTypes
        <4>2. /\ \A i \in DOMAIN lockQueue[n] :
                    queryPc[lockQueue[n][i]] = "locking" /\ Wants(lockQueue[n][i], n)
              /\ NoRepetition(lockQueue[n])
          BY DEF MutexInv, LockQueues
        <4>3. \A i \in DOMAIN lockQueue[n] : lockQueue[n][i] \in Requests \ {r, h}
          <5>1. ASSUME NEW i \in DOMAIN lockQueue[n]
                PROVE  lockQueue[n][i] \in Requests /\ lockQueue[n][i] # h
            <6>1. lockQueue[n][i] \in Requests
              BY <4>1
            <6>2. Wants(lockQueue[n][i], n) /\ Wants(h, m)
              BY <1>1, <4>2
            <6>3. QED
              BY <3>2, <6>1, <6>2 DEF Wants
          <5>2. \A i \in DOMAIN lockQueue[n] : lockQueue[n][i] # r
            BY <1>1, <4>2
          <5>3. QED
            BY <5>1, <5>2
        <4>4. ASSUME NEW i \in DOMAIN lockQueue[n]
              PROVE  queryPc'[lockQueue[n][i]] = "locking"
          BY <1>2, <4>2, <4>3
        <4>5. QED
          BY <4>1, <4>2, <4>4 DEF Wants
      <3>3. QED
        BY <3>1, <3>2
    <2>2. \A n \in StateMutexes :
             /\ \A i \in DOMAIN lockQueue'[n] :
                   queryPc'[lockQueue'[n][i]] = "locking" /\ WantsNext(lockQueue'[n][i], n)
             /\ NoRepetition(lockQueue'[n])
      BY <2>1
    <2>3. QED
      BY <2>2 DEF LockQueues, Wants
  <1>8. LatchQueues'
    <2>1. \A c \in Compilations : \A i \in DOMAIN signalResumeQueue[c] :
             signalResumeQueue[c][i] \in Requests \ {r, h}
      BY <1>1 DEF QueryTypes, MutexInv, LatchQueues
    <2>2. QED
      BY <1>2, <2>1 DEF MutexInv, LatchQueues
  <1>9. QED
    BY <1>6, <1>7, <1>8 DEF MutexInv

\* The holder of a mutex nobody waits for releases it.
LEMMA ReleaseKeeps ==
  ASSUME QueryTypes, MutexInv, NEW r \in Requests, queryPc[r] = "answered",
         NEW m \in StateMutexes, Wants(r, m), lockQueue[m] = <<>>,
         queryPc' = [queryPc EXCEPT ![r] = "done"],
         locked' = [locked EXCEPT ![m] = FALSE],
         UNCHANGED <<signalResumeQueue, query, lockQueue>>
  PROVE  MutexInv'
  <1>1. Holders(m) = {r}
    <2>1. r \in Holders(m)
      BY DEF Holders, Wants, QueryRunning
    <2>2. QED
      BY <2>1 DEF MutexInv, LockedByOne
  <1>2. Holders(m)' = {}
    <2>1. queryPc'[r] = "done" /\ \A s \in Requests \ {r} : queryPc'[s] = queryPc[s]
      BY DEF QueryTypes
    <2>2. query' = query
      OBVIOUS
    <2>3. ASSUME NEW s \in Requests
          PROVE  s \notin Holders(m)'
      BY <1>1, <2>1, <2>2 DEF Holders, QueryRunning
    <2>4. QED
      BY <2>3 DEF Holders
  <1>3. \A n \in StateMutexes \ {m} : Holders(n)' = Holders(n)
    BY DEF Holders, Wants, QueryTypes
  <1>4. LatchQueues' /\ LockQueues'
    BY DEF MutexInv, LatchQueues, LockQueues, Wants, QueryTypes
  <1>5. ASSUME NEW n \in StateMutexes
        PROVE  \/ locked'[n] /\ \E s \in Requests : Holders(n)' = {s}
               \/ ~locked'[n] /\ Holders(n)' = {} /\ lockQueue'[n] = <<>>
    <2>1. CASE n = m
      BY <1>2, <2>1 DEF QueryTypes
    <2>2. CASE n # m
      BY <1>3, <2>2 DEF MutexInv, LockedByOne, QueryTypes
    <2>3. QED
      BY <2>1, <2>2
  <1>6. QED
    BY <1>4, <1>5 DEF MutexInv, LockedByOne

LEMMA FinishKeeps ==
  ASSUME IInv, MutexInv, NEW r \in Requests, FinishQuery(r)
  PROVE  MutexInv'
  <1> DEFINE m == <<query[r].context, query[r].feature>>
  <1>1. /\ queryPc[r] = "answered" /\ QueryTypes
        /\ UNCHANGED <<signalResumeQueue, query>>
    BY DEF FinishQuery, IInv, QueryInv, compVars
  <1>2. CASE /\ query[r].feature \in StatelessFeatures
             /\ queryPc' = [queryPc EXCEPT ![r] = "done"]
             /\ UNCHANGED lockVars
    <2>1. \A n \in StateMutexes : Holders(n)' = Holders(n)
      BY <1>1, <1>2, FeatureAssumption DEF Holders, StateMutexes, QueryTypes
    <2>2. LatchQueues' /\ LockQueues'
      BY <1>1, <1>2 DEF MutexInv, LatchQueues, LockQueues, Wants, QueryTypes, lockVars
    <2>3. QED
      BY <1>2, <2>1, <2>2 DEF MutexInv, LockedByOne, lockVars
  <1>3. CASE query[r].feature \in StatefulFeatures /\ Unlock(r, m)
    <2>1. m \in StateMutexes /\ Wants(r, m)
      BY <1>1, <1>3 DEF IInv, QueryInv, QueriesHaveVersion, Accepted, QueryType, StateMutexes, Wants
    <2>2. QED
      BY <1>1, <1>3, <2>1, HandOverKeeps, ReleaseKeeps DEF Unlock
  <1>4. QED
    BY <1>2, <1>3 DEF FinishQuery

-----------------------------------------------------------------------------
LEMMA MutexStep ==
  ASSUME IInv, MutexInv, [Next]_vars
  PROVE  MutexInv'
  <1>1. ASSUME NEW u \in Uris, NEW r \in Requests, QueryUnopened(r, u)
        PROVE  MutexInv'
    BY <1>1, MoveKeeps DEF QueryUnopened, IInv, QueryInv, compVars, lockVars, QueryRunning
  <1>2. ASSUME NEW r \in Requests, StartQuery(r) \/ AnswerQuery(r)
        PROVE  MutexInv'
    BY <1>2, MoveKeeps DEF StartQuery, AnswerQuery, IInv, QueryInv, compVars, lockVars, QueryRunning
  <1>3. ASSUME UNCHANGED <<signalResumeQueue, queryPc, query, lockVars>>
        PROVE  MutexInv'
    BY <1>3, MutexFrame
  <1>4. QED
    BY <1>1, <1>2, <1>3, ResumeKeeps, ScheduleKeeps, FinishKeeps
    DEF Next, vars, compVars, queryVars, ClientStep, DidOpen, BeginChange, DidClose, ChangeUnopened,
        CloseNullEntry, Exit, HandlerStep, ReadNextConfig, ReadNextPreamble, InstallChange,
        CompilationStep, StartCompilation, PublishPreamble, PublishResult, CountDown,
        FinishCompilation, DiagnosticStep, DebounceElapsed, StartDiagnostic, CheckDiagnostic,
        PublishDiagnostic, MoveDiagnostic, QueryStep, ContextStep, AwaitScopeEmpty, DestroyContext,
        Idle

LEMMA InitMutexInv == Init => MutexInv
  BY DEF Init, MutexInv, LatchQueues, LockQueues, LockedByOne, NoRepetition, Holders, QueryRunning

\* Only one query at a time has the state of a feature of a document, and the
\* mutex of that state is locked exactly while one has it.
THEOREM StateHasOneHolder == Spec => []OneHolderPerState
  <1>1. IInv /\ MutexInv /\ [Next]_vars => MutexInv'
    BY MutexStep
  <1>2. MutexInv => OneHolderPerState
    <2>1. \A r \in Requests : Cardinality({r}) = 1
      BY FS_Singleton
    <2>2. QED
      BY <2>1, FS_EmptySet DEF MutexInv, LockedByOne, OneHolderPerState
  <1>3. QED
    BY Inductive, InitMutexInv, <1>1, <1>2, PTL DEF Spec
-----------------------------------------------------------------------------
(* The contract.                                                            *)

OpenContextsDistinct ==
    /\ \A u \in Uris : documentContexts[u] \in Contexts =>
          contextState[documentContexts[u]] = "open"
    /\ \A u, v \in Uris :
          documentContexts[u] \in Contexts /\ documentContexts[u] = documentContexts[v] => u = v

\* A query that has not run has no answer.
AnswerPending ==
    \A r \in Requests : queryPc[r] \notin {"answered", "done"} => answer[r] = None

ContractInv == OpenContextsDistinct /\ AnswerPending

-----------------------------------------------------------------------------
LEMMA DistinctStep ==
  ASSUME IInv, OpenContextsDistinct, [Next]_vars
  PROVE  OpenContextsDistinct'
  <1> USE NullAssumption DEF IInv, DocumentInv, DocumentTypes, OpenContextsDistinct
  <1>1. ASSUME NEW u \in Uris, NEW t \in Texts, NEW x \in Contexts, NEW c \in Compilations,
               DidOpen(u, t, x, c)
        PROVE  OpenContextsDistinct'
    BY <1>1 DEF DidOpen
  <1>2. ASSUME NEW u \in Uris, DidClose(u)
        PROVE  OpenContextsDistinct'
    BY <1>2 DEF DidClose
  <1>3. ASSUME NEW u \in Uris, InsertNullEntry(u), UNCHANGED contextState
        PROVE  OpenContextsDistinct'
    BY <1>3 DEF InsertNullEntry
  <1>4. ASSUME Exit
        PROVE  OpenContextsDistinct'
    BY <1>4 DEF Exit
  <1>5. ASSUME NEW x \in Contexts, ContextStep(x)
        PROVE  OpenContextsDistinct'
    BY <1>5 DEF ContextStep, AwaitScopeEmpty, DestroyContext
  <1>6. ASSUME UNCHANGED <<documentContexts, contextState>>
        PROVE  OpenContextsDistinct'
    BY <1>6
  <1>7. QED
    BY <1>1, <1>2, <1>3, <1>4, <1>5, <1>6
    DEF Next, vars, docVars, ClientStep, BeginChange, ChangeUnopened, CloseNullEntry, QueryUnopened,
        ScheduleQuery, HandlerStep, ReadNextConfig, ReadNextPreamble, InstallChange,
        CompilationStep, StartCompilation, PublishPreamble, PublishResult, CountDown, ResumeWaiter,
        FinishCompilation, DiagnosticStep, DebounceElapsed, StartDiagnostic, CheckDiagnostic,
        PublishDiagnostic, MoveDiagnostic, QueryStep, StartQuery, AnswerQuery, FinishQuery, Idle

\* Queries that the latch or the mutex moves have not run.
LEMMA PendingStep ==
  ASSUME IInv, MutexInv, AnswerPending, [Next]_vars
  PROVE  AnswerPending'
  <1> USE DEF IInv, QueryInv, QueryTypes, AnswerPending
  <1>1. ASSUME NEW r \in Requests, NEW pc, queryPc[r] \notin {"answered", "done"},
               queryPc' = [queryPc EXCEPT ![r] = pc], UNCHANGED answer
        PROVE  AnswerPending'
    BY <1>1
  <1>2. ASSUME NEW u \in Uris, NEW r \in Requests, NEW f \in Features, ScheduleQuery(r, u, f)
        PROVE  AnswerPending'
    BY <1>1, <1>2 DEF ScheduleQuery, LetLock
  <1>3. ASSUME NEW c \in Compilations, ResumeWaiter(c)
        PROVE  AnswerPending'
    <2> DEFINE r == Head(signalResumeQueue[c])
    <2>1. signalResumeQueue[c] \in Seq(Requests) /\ signalResumeQueue[c] # <<>>
      BY <1>3 DEF ResumeWaiter
    <2>2. r \in Requests /\ queryPc[r] = "waiting"
      BY <2>1, QueueOps DEF MutexInv, LatchQueues
    <2>3. QED
      BY <1>1, <1>3, <2>2 DEF ResumeWaiter, LetLock
  <1>4. ASSUME NEW u \in Uris, NEW r \in Requests, QueryUnopened(r, u)
        PROVE  AnswerPending'
    BY <1>1, <1>4 DEF QueryUnopened
  <1>5. ASSUME NEW r \in Requests, StartQuery(r) \/ AnswerQuery(r)
        PROVE  AnswerPending'
    BY <1>5 DEF StartQuery, AnswerQuery
  <1>6. ASSUME NEW r \in Requests, FinishQuery(r)
        PROVE  AnswerPending'
    <2> DEFINE m == <<query[r].context, query[r].feature>>
    <2>1. queryPc[r] = "answered" /\ UNCHANGED answer
      BY <1>6 DEF FinishQuery
    <2>2. CASE queryPc' = [queryPc EXCEPT ![r] = "done"]
      BY <2>1, <2>2
    <2>3. CASE /\ query[r].feature \in StatefulFeatures /\ lockQueue[m] # <<>>
               /\ queryPc' = [queryPc EXCEPT ![r] = "done", ![Head(lockQueue[m])] = "queued"]
      <3>1. m \in StateMutexes
        BY <2>1, <2>3 DEF QueriesHaveVersion, Accepted, QueryType, StateMutexes
      <3>2. lockQueue[m] \in Seq(Requests)
        BY <3>1
      <3>3. Head(lockQueue[m]) \in Requests /\ queryPc[Head(lockQueue[m])] = "locking"
        BY <2>3, <3>1, <3>2, QueueOps DEF MutexInv, LockQueues
      <3>4. QED
        BY <2>1, <2>3, <3>3
    <2>4. QED
      BY <1>6, <2>2, <2>3 DEF FinishQuery, Unlock
  <1>7. ASSUME UNCHANGED <<queryPc, answer>>
        PROVE  AnswerPending'
    BY <1>7
  <1> HIDE DEF IInv, QueryInv, QueryTypes, AnswerPending
  <1>8. QED
    BY <1>2, <1>3, <1>4, <1>5, <1>6, <1>7
    DEF Next, vars, queryVars, ClientStep, DidOpen, BeginChange, DidClose, ChangeUnopened,
        CloseNullEntry, Exit, HandlerStep, ReadNextConfig, ReadNextPreamble, InstallChange,
        CompilationStep, StartCompilation, PublishPreamble, PublishResult, CountDown,
        FinishCompilation, DiagnosticStep, DebounceElapsed, StartDiagnostic, CheckDiagnostic,
        PublishDiagnostic, MoveDiagnostic, QueryStep, ContextStep, AwaitScopeEmpty, DestroyContext,
        Idle

THEOREM ContractInvariant == Spec => [](IInv /\ MutexInv /\ ContractInv)
  <1>1. Init => IInv /\ MutexInv /\ ContractInv
    BY InitIInv, InitMutexInv, NullAssumption DEF Init, ContractInv, OpenContextsDistinct, AnswerPending
  <1>2. IInv /\ MutexInv /\ ContractInv /\ [Next]_vars => (IInv /\ MutexInv /\ ContractInv)'
    BY DocumentStep, CompilationStepInv, TaskStepInv, QueryStepInv, MutexStep, DistinctStep, PendingStep
       DEF IInv, ContractInv
  <1>3. QED
    BY <1>1, <1>2, PTL DEF Spec

-----------------------------------------------------------------------------
(***************************************************************************)
(* Contexts outlive their tasks.                                           *)
(***************************************************************************)
\* A task enters the scope of a context only while its document is open.
LEMMA ScopeStep ==
  ASSUME ~ClientMayExit, IInv, MutexInv, OpenContextsDistinct, ContextOutlivesTasks, [Next]_vars
  PROVE  ContextOutlivesTasks'
  <1> SUFFICES ASSUME NEW x \in Contexts, contextState'[x] = "destroyed"
               PROVE  ScopeEmpty(x)'
    BY DEF ContextOutlivesTasks
  <1> USE DEF ScopeEmpty, ActiveCompilations, ActiveDiagnostics, ActiveQueries, IInv, DocumentInv,
          DocumentTypes, CompilationInv, CompilationTypes, TaskTypes, QueryInv, QueryTypes
  <1>0. ASSUME NEW y \in Contexts \ {x}, NEW c \in Compilations, contextState[x] = "destroyed",
               comp'[c].context = y,
               \A d \in Compilations \ {c} : /\ comp'[d] = comp[d] /\ compPc'[d] = compPc[d]
                                             /\ diagnostic'[d] = diagnostic[d],
               UNCHANGED <<queryPc, query>>
        PROVE  ScopeEmpty(x)'
    <2>1. ScopeEmpty(x)
      BY <1>0 DEF ContextOutlivesTasks
    <2>2. ASSUME NEW d \in Compilations
          PROVE  d \notin ActiveCompilations(x)' /\ d \notin ActiveDiagnostics(x)'
      <3>1. CASE d = c
        BY <1>0, <3>1
      <3>2. CASE d # c
        BY <1>0, <2>1, <3>2
      <3>3. QED
        BY <3>1, <3>2
    <2>3. ActiveQueries(x)' = {}
      BY <1>0, <2>1
    <2>4. ActiveCompilations(x)' \subseteq Compilations /\ ActiveDiagnostics(x)' \subseteq Compilations
      OBVIOUS
    <2>5. QED
      BY <2>2, <2>3, <2>4
  <1>1. ASSUME NEW u \in Uris, NEW t \in Texts, NEW y \in Contexts, NEW c \in Compilations,
               DidOpen(u, t, y, c)
        PROVE  ScopeEmpty(x)'
    <2>1. x # y /\ contextState[x] = "destroyed"
      BY <1>1 DEF DidOpen
    <2>2. /\ comp'[c].context = y
          /\ \A d \in Compilations \ {c} : /\ comp'[d] = comp[d] /\ compPc'[d] = compPc[d]
                                           /\ diagnostic'[d] = diagnostic[d]
          /\ UNCHANGED <<queryPc, query>>
      BY <1>1 DEF DidOpen, NewCompilation, ScheduleBackgroundCompilation,
         ScheduleBackgroundDiagnostic, queryVars
    <2>3. QED
      BY <1>0, <2>1, <2>2
  <1>2. ASSUME NEW c \in Compilations, InstallChange(c)
        PROVE  ScopeEmpty(x)'
    <2> DEFINE y == documentContexts[handler.uri]
    <2>1. /\ y \in Contexts /\ contextState[y] = "open"
          /\ contextState[x] = "destroyed" /\ x # y
      BY <1>2 DEF InstallChange, HandlerEditsOpenDocument, IdleHandler, OpenContextsDistinct,
         HandlerType
    <2>2. /\ comp'[c].context = y
          /\ \A d \in Compilations \ {c} : /\ comp'[d] = comp[d] /\ compPc'[d] = compPc[d]
                                           /\ diagnostic'[d] = diagnostic[d]
          /\ UNCHANGED <<queryPc, query>>
      BY <1>2 DEF InstallChange, NewCompilation, ScheduleBackgroundCompilation,
         ScheduleBackgroundDiagnostic, queryVars
    <2>3. QED
      BY <1>0, <2>1, <2>2
  <1>3. ASSUME NEW u \in Uris, NEW r \in Requests, NEW f \in Features, ScheduleQuery(r, u, f)
        PROVE  ScopeEmpty(x)'
    <2> DEFINE y == documentContexts[u]
    <2>1. y \in Contexts /\ contextState[y] = "open" /\ contextState[x] = "destroyed"
      BY <1>3 DEF ScheduleQuery, OpenContextsDistinct, docVars
    <2>2. ScopeEmpty(x) /\ x # y
      BY <2>1 DEF ContextOutlivesTasks
    <2>3. /\ query'[r].context = y
          /\ \A s \in Requests \ {r} : query'[s] = query[s] /\ queryPc'[s] = queryPc[s]
          /\ UNCHANGED <<comp, compPc, diagnostic>>
      BY <1>3 DEF ScheduleQuery, LetLock
    <2>4. ActiveQueries(x)' = {}
      BY <2>2, <2>3
    <2>5. ActiveCompilations(x)' = {} /\ ActiveDiagnostics(x)' = {}
      BY <2>2, <2>3
    <2>6. QED
      BY <2>4, <2>5
  <1>4. ASSUME contextState[x] = "destroyed", UNCHANGED <<comp, query>>,
               \A c \in Compilations :
                  /\ compPc[c] \in {"unused", "done"} => compPc'[c] = compPc[c]
                  /\ diagnostic[c] \notin {"timer", "queued"} \cup DiagRunning
                        => diagnostic'[c] = diagnostic[c],
               \A r \in Requests :
                  queryPc'[r] \notin {"unsent", "ignored", "done"}
                     => queryPc[r] \notin {"unsent", "ignored", "done"}
        PROVE  ScopeEmpty(x)'
    <2>1. ScopeEmpty(x)
      BY <1>4 DEF ContextOutlivesTasks
    <2>2. ActiveQueries(x)' = {}
      BY <1>4, <2>1
    <2>3. ActiveCompilations(x)' = {} /\ ActiveDiagnostics(x)' = {}
      BY <1>4, <2>1
    <2>4. QED
      BY <2>2, <2>3
  <1>5. ASSUME NEW c \in Compilations, CompilationStep(c)
        PROVE  ScopeEmpty(x)'
    <2>1. CASE ResumeWaiter(c)
      <3> DEFINE r == Head(signalResumeQueue[c])
      <3>1. r \in Requests /\ queryPc[r] = "waiting"
        BY <2>1, QueueOps DEF ResumeWaiter, MutexInv, LatchQueues
      <3>2. \A s \in Requests \ {r} : queryPc'[s] = queryPc[s]
        BY <2>1 DEF ResumeWaiter, LetLock
      <3>3. QED
        BY <1>4, <2>1, <3>1, <3>2 DEF ResumeWaiter, docVars
    <2>2. CASE StartCompilation(c) \/ PublishPreamble(c) \/ PublishResult(c) \/ CountDown(c)
               \/ FinishCompilation(c)
      BY <1>4, <2>2 DEF StartCompilation, PublishPreamble, PublishResult, CountDown,
         FinishCompilation, docVars, queryVars
    <2>3. QED
      BY <1>5, <2>1, <2>2 DEF CompilationStep
  <1>6. ASSUME NEW c \in Compilations, DiagnosticStep(c)
        PROVE  ScopeEmpty(x)'
    BY <1>4, <1>6 DEF DiagnosticStep, DebounceElapsed, StartDiagnostic, CheckDiagnostic,
       PublishDiagnostic, MoveDiagnostic, docVars, compVars, queryVars, DiagRunning
  <1>7. ASSUME NEW r \in Requests, StartQuery(r) \/ AnswerQuery(r)
        PROVE  ScopeEmpty(x)'
    BY <1>4, <1>7 DEF StartQuery, AnswerQuery, docVars, compVars
  <1>8. ASSUME NEW r \in Requests, FinishQuery(r)
        PROVE  ScopeEmpty(x)'
    <2> DEFINE m == <<query[r].context, query[r].feature>>
    <2>1. /\ queryPc[r] = "answered" /\ contextState[x] = "destroyed"
          /\ UNCHANGED <<comp, query, compPc, diagnostic>>
      BY <1>8 DEF FinishQuery, docVars, compVars
    <2>2. CASE queryPc' = [queryPc EXCEPT ![r] = "done"]
      BY <1>4, <2>1, <2>2
    <2>3. CASE /\ query[r].feature \in StatefulFeatures /\ lockQueue[m] # <<>>
               /\ queryPc' = [queryPc EXCEPT ![r] = "done", ![Head(lockQueue[m])] = "queued"]
      <3>1. m \in StateMutexes
        BY <2>1, <2>3 DEF QueriesHaveVersion, Accepted, QueryType, StateMutexes
      <3>2. lockQueue[m] \in Seq(Requests)
        BY <3>1
      <3>3. Head(lockQueue[m]) \in Requests /\ queryPc[Head(lockQueue[m])] = "locking"
        BY <2>3, <3>1, <3>2, QueueOps DEF MutexInv, LockQueues
      <3>4. QED
        BY <1>4, <2>1, <2>3, <3>3
    <2>4. QED
      BY <1>8, <2>2, <2>3 DEF FinishQuery, Unlock
  <1>9. ASSUME NEW u \in Uris, NEW r \in Requests, QueryUnopened(r, u)
        PROVE  ScopeEmpty(x)'
    BY <1>4, <1>9 DEF QueryUnopened, compVars
  <1>10. ASSUME NEW u \in Uris, DidClose(u)
         PROVE  ScopeEmpty(x)'
    BY <1>4, <1>10 DEF DidClose, compVars, queryVars
  <1>11. ASSUME NEW y \in Contexts, ContextStep(y)
         PROVE  ScopeEmpty(x)'
    <2>1. UNCHANGED <<comp, compPc, diagnostic, queryPc, query>>
      BY <1>11 DEF ContextStep, AwaitScopeEmpty, DestroyContext, compVars, queryVars
    <2>2. CASE contextState[x] = "destroyed"
      BY <1>4, <2>1, <2>2
    <2>3. CASE contextState[x] # "destroyed"
      BY <1>11, <2>1, <2>3 DEF ContextStep, AwaitScopeEmpty, DestroyContext
    <2>4. QED
      BY <2>2, <2>3
  <1>12. ASSUME UNCHANGED <<contextState, comp, compPc, diagnostic, queryPc, query>>
         PROVE  ScopeEmpty(x)'
    BY <1>4, <1>12
  <1> HIDE DEF IInv, DocumentInv, DocumentTypes, CompilationInv, CompilationTypes, TaskTypes, QueryInv,
           QueryTypes, ScopeEmpty, ActiveCompilations, ActiveDiagnostics, ActiveQueries
  <1>13. QED
    BY <1>1, <1>2, <1>3, <1>5, <1>6, <1>7, <1>8, <1>9, <1>10, <1>11, <1>12
    DEF Next, vars, docVars, compVars, queryVars, ClientStep, BeginChange, ChangeUnopened,
        CloseNullEntry, Exit, HandlerStep, ReadNextConfig, ReadNextPreamble, QueryStep, Idle

\* "We have to keep this context alive until all tasks in the scope are
\* finished": true of a server that is never told to exit.
THEOREM ContextsOutliveTasks ==
  ASSUME ~ClientMayExit
  PROVE  Spec => []ContextOutlivesTasks
  <1>1. Init => ContextOutlivesTasks
    BY DEF Init, ContextOutlivesTasks
  <1>2. IInv /\ MutexInv /\ ContractInv /\ ContextOutlivesTasks /\ [Next]_vars
           => ContextOutlivesTasks'
    BY ScopeStep DEF ContractInv
  <1>3. QED
    BY ContractInvariant, <1>1, <1>2, PTL DEF Spec

-----------------------------------------------------------------------------
(***************************************************************************)
(* The refinement.                                                         *)
(***************************************************************************)
Buffer == [u \in Uris |->
             IF documentContexts[u] \in Contexts
             THEN comp[backgroundCompilation[documentContexts[u]]].text ELSE None]
Asked == [r \in Requests |->
            IF queryPc[r] \in {"unsent", "ignored"}
            THEN None ELSE comp[query[r].compilation].text]

\* Versions have a text, so an open document has a content and an accepted
\* request is about one.
LEMMA ContentTypes ==
  ASSUME IInv
  PROVE  /\ \A u \in Uris : Buffer[u] # None <=> documentContexts[u] \in Contexts
         /\ \A r \in Requests : Asked[r] # None <=> r \in Accepted
  <1>1. \A c \in Created : comp[c].text \in Texts /\ comp[c].text # None
    BY NullAssumption DEF IInv, CompilationInv, CompilationTypes, CompilationType, Created
  <1>2. \A u \in Uris : documentContexts[u] \in Contexts =>
           backgroundCompilation[documentContexts[u]] \in Created
    BY DEF IInv, DocumentInv, OpenDocumentHasVersion
  <1>3. \A r \in Accepted : query[r].compilation \in Created
    BY DEF IInv, QueryInv, QueriesHaveVersion
  <1>4. QED
    BY <1>1, <1>2, <1>3 DEF Buffer, Asked, Accepted

\* A step that changes no content is a stutter of the contract.
LEMMA ContentFrame ==
  ASSUME IInv, UNCHANGED <<documentContexts, backgroundCompilation, comp, query, answer>>,
         \A r \in Requests : queryPc'[r] \in {"unsent", "ignored"} <=> queryPc[r] \in {"unsent", "ignored"}
  PROVE  UNCHANGED <<Buffer, Asked, answer>>
  BY DEF Buffer, Asked

\* c becomes the latest version of document u in context x, with this text.
VersionInstalled(u, x, c, text) ==
    /\ u \in Uris /\ x \in Contexts /\ c \in Unused /\ text \in Texts
    /\ comp' = [comp EXCEPT ![c] = comp'[c]]
    /\ comp'[c].text = text
    /\ backgroundCompilation' = [backgroundCompilation EXCEPT ![x] = c]
    /\ documentContexts' = [documentContexts EXCEPT ![u] = x]
    /\ \A v \in Uris \ {u} : documentContexts[v] # x
    /\ UNCHANGED queryVars

\* A new version gives the document of its context a text and changes nothing
\* else that a client sees.
LEMMA NewContent ==
  ASSUME IInv, NEW u, NEW x, NEW c, NEW text, VersionInstalled(u, x, c, text)
  PROVE  Buffer' = [Buffer EXCEPT ![u] = text] /\ Asked' = Asked /\ answer' = answer
  <1> USE DEF VersionInstalled
  <1>1. c \in Compilations /\ c \notin Created
    BY DEF Unused, Created, IInv, CompilationInv, FlagsFollowRun
  <1>2. \A d \in Created : comp'[d] = comp[d]
    BY <1>1 DEF Created, IInv, CompilationInv, CompilationTypes
  <1>3. comp'[c].text = text
    OBVIOUS
  <1>4. documentContexts'[u] = x /\ backgroundCompilation'[x] = c
    BY DEF IInv, DocumentInv, DocumentTypes
  <1>5. ASSUME NEW v \in Uris \ {u}
        PROVE  Buffer'[v] = Buffer[v]
    <2>1. documentContexts'[v] = documentContexts[v] /\ documentContexts[v] # x
      BY DEF IInv, DocumentInv, DocumentTypes
    <2>2. CASE documentContexts[v] \in Contexts
      <3>1. /\ backgroundCompilation'[documentContexts[v]] = backgroundCompilation[documentContexts[v]]
            /\ backgroundCompilation[documentContexts[v]] \in Created
        BY <2>1, <2>2 DEF IInv, DocumentInv, DocumentTypes, OpenDocumentHasVersion
      <3>2. QED
        BY <1>2, <2>1, <2>2, <3>1 DEF Buffer
    <2>3. CASE documentContexts[v] \notin Contexts
      BY <2>1, <2>3 DEF Buffer
    <2>4. QED
      BY <2>2, <2>3
  <1>6. Buffer' = [Buffer EXCEPT ![u] = text]
    <2>1. Buffer'[u] = text
      BY <1>3, <1>4 DEF Buffer
    <2>2. QED
      BY <1>5, <2>1 DEF Buffer
  <1>7. Asked' = Asked
    <2>1. \A r \in Requests : r \in Accepted => query[r].compilation \in Created
      BY DEF IInv, QueryInv, QueriesHaveVersion
    <2>2. QED
      BY <1>2, <2>1 DEF Asked, Accepted, queryVars
  <1>8. QED
    BY <1>6, <1>7 DEF queryVars

LEMMA ContractStep ==
  ASSUME IInv, MutexInv, OpenContextsDistinct, AnswerPending, [Next]_vars
  PROVE  [Contract!Next]_(Contract!vars)
  <1>1. ASSUME NEW u \in Uris, NEW t \in Texts, NEW x \in Contexts, NEW c \in Compilations,
               DidOpen(u, t, x, c)
        PROVE  Contract!Open(u, t)
    <2>1. /\ c \in Unused /\ documentContexts[u] \notin Contexts /\ contextState[x] = "unused"
          /\ NewCompilation(c, u, x, t, DefaultConfig, NoPreamble)
          /\ UNCHANGED queryVars
          /\ documentContexts' = [documentContexts EXCEPT ![u] = x]
      BY <1>1 DEF DidOpen
    <2>2. /\ comp' = [comp EXCEPT ![c] = comp'[c]] /\ comp'[c].text = t
          /\ backgroundCompilation' = [backgroundCompilation EXCEPT ![x] = c]
      BY <2>1 DEF NewCompilation, IInv, CompilationInv, CompilationTypes
    <2>3. \A v \in Uris \ {u} : documentContexts[v] # x
      BY <2>1 DEF IInv, DocumentInv, OpenDocumentHasVersion
    <2>4. Buffer' = [Buffer EXCEPT ![u] = t] /\ Asked' = Asked /\ answer' = answer
      <3>1. VersionInstalled(u, x, c, t)
        BY <1>1, <2>1, <2>2, <2>3 DEF VersionInstalled
      <3>2. QED
        BY <3>1, NewContent
    <2>5. Buffer[u] = None
      BY <2>1 DEF Buffer
    <2>6. QED
      BY <2>4, <2>5 DEF Contract!Open, Buffer, Asked
  <1>2. ASSUME NEW c \in Compilations, NEW u \in Uris, NEW t \in Texts,
               InstallChange(c), handler.pc = "install", u = handler.uri, t = handler.text
        PROVE  Contract!Edit(u, t)
    <2> DEFINE x == documentContexts[u]
    <2>1. /\ x \in Contexts /\ c \in Unused
          /\ UNCHANGED queryVars
          /\ UNCHANGED documentContexts
      BY <1>2 DEF InstallChange, IInv, DocumentInv, IdleHandler, HandlerEditsOpenDocument
    <2>2. /\ comp' = [comp EXCEPT ![c] = comp'[c]] /\ comp'[c].text = t
          /\ backgroundCompilation' = [backgroundCompilation EXCEPT ![x] = c]
      BY <1>2 DEF InstallChange, NewCompilation, IInv, CompilationInv, CompilationTypes
    <2>3. /\ documentContexts' = [documentContexts EXCEPT ![u] = x]
          /\ \A v \in Uris \ {u} : documentContexts[v] # x
      BY <2>1 DEF IInv, DocumentInv, DocumentTypes, OpenContextsDistinct
    <2>4. Buffer' = [Buffer EXCEPT ![u] = t] /\ Asked' = Asked /\ answer' = answer
      <3>1. VersionInstalled(u, x, c, t)
        BY <1>2, <2>1, <2>2, <2>3 DEF VersionInstalled
      <3>2. QED
        BY <3>1, NewContent
    <2>5. Buffer[u] # None
      BY <2>1, ContentTypes
    <2>6. QED
      BY <2>4, <2>5 DEF Contract!Edit, Buffer, Asked
  <1>3. ASSUME NEW u \in Uris, DidClose(u)
        PROVE  Contract!Close(u)
    <2>1. /\ documentContexts[u] \in Contexts
          /\ documentContexts' = [documentContexts EXCEPT ![u] = "absent"]
          /\ UNCHANGED <<backgroundCompilation, comp, queryPc, query, answer>>
      BY <1>3 DEF DidClose, compVars, queryVars
    <2>2. Buffer[u] # None
      BY <2>1, ContentTypes
    <2>3. Buffer' = [Buffer EXCEPT ![u] = None]
      BY <2>1, NullAssumption DEF Buffer, IInv, DocumentInv, DocumentTypes
    <2>4. Asked' = Asked /\ answer' = answer
      BY <2>1 DEF Asked
    <2>5. QED
      BY <2>2, <2>3, <2>4 DEF Contract!Close, Buffer, Asked
  <1>4. ASSUME Exit
        PROVE  Contract!CloseAll
    <2>1. /\ documentContexts' = [u \in Uris |-> "absent"]
          /\ UNCHANGED <<backgroundCompilation, comp, queryPc, query, answer>>
      BY <1>4 DEF Exit, compVars, queryVars
    <2>2. Buffer' = [u \in Uris |-> None]
      BY <2>1, NullAssumption DEF Buffer
    <2>3. Asked' = Asked /\ answer' = answer
      BY <2>1 DEF Asked
    <2>4. QED
      BY <2>2, <2>3 DEF Contract!CloseAll, Buffer, Asked
  <1>5. ASSUME NEW u \in Uris, NEW r \in Requests, NEW f \in Features, ScheduleQuery(r, u, f)
        PROVE  Contract!Ask(r, u)
    <2> DEFINE x == documentContexts[u]
               c == backgroundCompilation[x]
    <2>1. /\ x \in Contexts /\ queryPc[r] = "unsent"
          /\ query' = [query EXCEPT ![r] = [context |-> x, compilation |-> c, feature |-> f]]
          /\ UNCHANGED <<documentContexts, backgroundCompilation, comp, answer>>
      BY <1>5 DEF ScheduleQuery, docVars
    <2>2. queryPc'[r] \notin {"unsent", "ignored"} /\ \A s \in Requests \ {r} : queryPc'[s] = queryPc[s]
      BY <1>5 DEF ScheduleQuery, LetLock, IInv, QueryInv, QueryTypes
    <2>3. Buffer' = Buffer /\ answer' = answer
      BY <2>1 DEF Buffer
    <2>4. Buffer[u] # None /\ Asked[r] = None
      BY <2>1, ContentTypes DEF Asked
    <2>5. Asked' = [Asked EXCEPT ![r] = Buffer[u]]
      <3>1. query'[r].compilation = c /\ \A s \in Requests \ {r} : query'[s] = query[s]
        BY <2>1 DEF IInv, QueryInv, QueryTypes
      <3>2. Asked'[r] = Buffer[u]
        BY <2>1, <2>2, <3>1 DEF Asked, Buffer
      <3>3. \A s \in Requests \ {r} : Asked'[s] = Asked[s]
        BY <2>1, <2>2, <3>1 DEF Asked
      <3>4. QED
        BY <3>2, <3>3 DEF Asked
    <2>6. QED
      BY <2>3, <2>4, <2>5 DEF Contract!Ask, Buffer, Asked
  <1>6. ASSUME NEW r \in Requests, AnswerQuery(r)
        PROVE  Contract!Answer(r)
    <2>1. /\ queryPc[r] = "running" /\ queryPc' = [queryPc EXCEPT ![r] = "answered"]
          /\ answer' = [answer EXCEPT ![r] = comp[query[r].compilation].text]
          /\ UNCHANGED <<documentContexts, backgroundCompilation, comp, query>>
      BY <1>6 DEF AnswerQuery, docVars, compVars
    <2>2. Asked[r] # None /\ Asked[r] = comp[query[r].compilation].text /\ answer[r] = None
      BY <2>1, ContentTypes DEF Asked, Accepted, AnswerPending
    <2>3. Buffer' = Buffer /\ Asked' = Asked
      BY <2>1 DEF Buffer, Asked, IInv, QueryInv, QueryTypes
    <2>4. QED
      BY <2>1, <2>2, <2>3 DEF Contract!Answer, Buffer, Asked
  <1>7. ASSUME UNCHANGED <<documentContexts, backgroundCompilation, comp, query, answer>>,
               \A r \in Requests :
                  queryPc'[r] \in {"unsent", "ignored"} <=> queryPc[r] \in {"unsent", "ignored"}
        PROVE  UNCHANGED Contract!vars
    BY <1>7, ContentFrame DEF Contract!vars, Buffer, Asked
  <1>8. ASSUME NEW u \in Uris, InsertNullEntry(u), documentContexts[u] \notin Contexts,
               UNCHANGED <<backgroundCompilation, comp, query, answer>>,
               \A r \in Requests :
                  queryPc'[r] \in {"unsent", "ignored"} <=> queryPc[r] \in {"unsent", "ignored"}
        PROVE  UNCHANGED Contract!vars
    <2>1. Buffer' = Buffer
      BY <1>8, NullAssumption DEF InsertNullEntry, Buffer, IInv, DocumentInv, DocumentTypes
    <2>2. Asked' = Asked
      BY <1>8 DEF Asked
    <2>3. QED
      BY <1>8, <2>1, <2>2 DEF Contract!vars, Buffer, Asked
  <1>9. ASSUME NEW u \in Uris, ChangeUnopened(u)
        PROVE  UNCHANGED Contract!vars
    BY <1>8, <1>9 DEF ChangeUnopened, compVars, queryVars
  <1>10. ASSUME NEW u \in Uris, NEW r \in Requests, QueryUnopened(r, u)
         PROVE  UNCHANGED Contract!vars
    <2>1. \A s \in Requests :
             queryPc'[s] \in {"unsent", "ignored"} <=> queryPc[s] \in {"unsent", "ignored"}
      BY <1>10 DEF QueryUnopened, IInv, QueryInv, QueryTypes
    <2>2. QED
      BY <1>8, <1>10, <2>1 DEF QueryUnopened, compVars
  <1>11. ASSUME NEW u \in Uris, CloseNullEntry(u)
         PROVE  UNCHANGED Contract!vars
    BY <1>7, <1>11 DEF CloseNullEntry, compVars, queryVars
  <1>12. ASSUME NEW u \in Uris, NEW t \in Texts, BeginChange(u, t)
         PROVE  UNCHANGED Contract!vars
    BY <1>7, <1>12 DEF BeginChange, docVars, queryVars
  <1>13. ASSUME NEW c \in Compilations, CompilationStep(c)
         PROVE  UNCHANGED Contract!vars
    <2>1. CASE ResumeWaiter(c)
      <3> DEFINE r == Head(signalResumeQueue[c])
      <3>1. signalResumeQueue[c] \in Seq(Requests) /\ signalResumeQueue[c] # <<>>
        BY <2>1 DEF ResumeWaiter, IInv, QueryInv, QueryTypes
      <3>2. r \in Requests /\ queryPc[r] = "waiting"
        BY <3>1, QueueOps DEF MutexInv, LatchQueues
      <3>3. \A s \in Requests :
               queryPc'[s] \in {"unsent", "ignored"} <=> queryPc[s] \in {"unsent", "ignored"}
        BY <2>1, <3>2 DEF ResumeWaiter, LetLock, IInv, QueryInv, QueryTypes
      <3>4. QED
        BY <1>7, <2>1, <3>3 DEF ResumeWaiter, docVars
    <2>2. CASE StartCompilation(c) \/ PublishPreamble(c) \/ PublishResult(c) \/ CountDown(c)
               \/ FinishCompilation(c)
      BY <1>7, <2>2 DEF StartCompilation, PublishPreamble, PublishResult, CountDown,
         FinishCompilation, docVars, queryVars
    <2>3. QED
      BY <1>13, <2>1, <2>2 DEF CompilationStep
  <1>14. ASSUME NEW c \in Compilations, DiagnosticStep(c)
         PROVE  UNCHANGED Contract!vars
    BY <1>7, <1>14 DEF DiagnosticStep, DebounceElapsed, StartDiagnostic, CheckDiagnostic,
       PublishDiagnostic, MoveDiagnostic, docVars, compVars, queryVars
  <1>15. ASSUME NEW r \in Requests, StartQuery(r)
         PROVE  UNCHANGED Contract!vars
    <2>1. \A s \in Requests :
             queryPc'[s] \in {"unsent", "ignored"} <=> queryPc[s] \in {"unsent", "ignored"}
      BY <1>15 DEF StartQuery, IInv, QueryInv, QueryTypes
    <2>2. QED
      BY <1>7, <1>15, <2>1 DEF StartQuery, docVars, compVars
  <1>16. ASSUME NEW r \in Requests, FinishQuery(r)
         PROVE  UNCHANGED Contract!vars
    <2> DEFINE m == <<query[r].context, query[r].feature>>
    <2>1. /\ queryPc[r] = "answered"
          /\ UNCHANGED <<documentContexts, backgroundCompilation, comp, query, answer>>
      BY <1>16 DEF FinishQuery, docVars, compVars
    <2>2. CASE queryPc' = [queryPc EXCEPT ![r] = "done"]
      BY <1>7, <2>1, <2>2 DEF IInv, QueryInv, QueryTypes
    <2>3. CASE /\ query[r].feature \in StatefulFeatures /\ lockQueue[m] # <<>>
               /\ queryPc' = [queryPc EXCEPT ![r] = "done", ![Head(lockQueue[m])] = "queued"]
      <3>1. m \in StateMutexes
        BY <2>1, <2>3 DEF IInv, QueryInv, QueriesHaveVersion, Accepted, QueryType, StateMutexes
      <3>2. lockQueue[m] \in Seq(Requests)
        BY <3>1 DEF IInv, QueryInv, QueryTypes
      <3>3. Head(lockQueue[m]) \in Requests /\ queryPc[Head(lockQueue[m])] = "locking"
        BY <2>3, <3>1, <3>2, QueueOps DEF MutexInv, LockQueues
      <3>4. QED
        BY <1>7, <2>1, <2>3, <3>3 DEF IInv, QueryInv, QueryTypes
    <2>4. QED
      BY <1>16, <2>2, <2>3 DEF FinishQuery, Unlock
  <1>17. ASSUME NEW x \in Contexts, ContextStep(x)
         PROVE  UNCHANGED Contract!vars
    BY <1>7, <1>17 DEF ContextStep, AwaitScopeEmpty, DestroyContext, compVars, queryVars
  <1>18. ASSUME ReadNextConfig \/ ReadNextPreamble \/ UNCHANGED vars
         PROVE  UNCHANGED Contract!vars
    BY <1>7, <1>18 DEF ReadNextConfig, ReadNextPreamble, vars, docVars, compVars, queryVars
  <1>19. CASE ClientStep
    BY <1>1, <1>3, <1>4, <1>5, <1>9, <1>10, <1>11, <1>12, <1>19 DEF ClientStep, Contract!Next
  <1>20. CASE HandlerStep
    <2>1. CASE \E c \in Compilations : InstallChange(c)
      <3>1. PICK c \in Compilations : InstallChange(c)
        BY <2>1
      <3>2. handler.pc = "install" /\ handler.uri \in Uris /\ handler.text \in Texts
        BY <3>1 DEF InstallChange, IInv, DocumentInv, DocumentTypes, HandlerType, IdleHandler
      <3>3. PICK u \in Uris, t \in Texts : u = handler.uri /\ t = handler.text
        BY <3>2
      <3>4. Contract!Edit(u, t)
        BY <1>2, <3>1, <3>2, <3>3
      <3>5. QED
        BY <3>4 DEF Contract!Next
    <2>2. QED
      BY <1>18, <1>20, <2>1 DEF HandlerStep
  <1>21. CASE \E r \in Requests : QueryStep(r)
    BY <1>6, <1>15, <1>16, <1>21 DEF QueryStep, Contract!Next
  <1>22. QED
    BY <1>13, <1>14, <1>17, <1>18, <1>19, <1>20, <1>21 DEF Next, Idle

\* A request about an open document is answered once, from the content the
\* document had when the request was handled (LanguageService::
\* ScheduleLanguageQuery captures the version), whatever is edited, closed or
\* reopened meanwhile, with any number of threads: the detailed service
\* implements the safety part of DocumentContract.
THEOREM ContractImplemented == Spec => ImplementsContract
  <1>1. Init => Contract!Init
    BY NullAssumption DEF Init, Contract!Init
  <1>2. QED
    BY <1>1, ContractInvariant, ContractStep, PTL DEF Spec, ContractInv, ImplementsContract, Contract!Spec
=============================================================================
