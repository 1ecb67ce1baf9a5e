-------------------------- MODULE DocumentService --------------------------
(***************************************************************************)
(* The document side of the glsld language server: LanguageService, its    *)
(* TextDocumentContexts, the BackgroundCompilation of every version and    *)
(* the tasks spawned on them.                                              *)
(*                                                                         *)
(* Threads.  The main thread runs one message handler at a time.  Handlers *)
(* that only create objects or start tasks are one action; the didChange   *)
(* handler reads two flags a worker may set meanwhile and is split at each *)
(* read.  At most NumWorkers pool threads run tasks; a task step that a    *)
(* thread performs without reading anything another thread writes is one   *)
(* action.  A task that awaits (a latch, a state mutex, the timer, a pool  *)
(* thread) is split at the await.                                          *)
(*                                                                         *)
(* Data.  A text is a model value with the directives it declares; a       *)
(* PrecompiledPreamble is the LanguageConfig it was compiled for, and      *)
(* NoPreamble is the null pointer.  What the language features compute is  *)
(* abstracted to the text they computed it from.                           *)
(***************************************************************************)
EXTENDS Naturals, Sequences, FiniteSets

CONSTANTS
    Uris,               \* document names the client uses
    StagelessUris,      \* those whose extension names no shader stage
    Contexts,           \* identities of TextDocumentContext objects
    Compilations,       \* identities of BackgroundCompilation objects
    Requests,           \* JSON-RPC request ids
    StatefulFeatures,   \* features with a mutable state (SemanticTokenState ...)
    StatelessFeatures,  \* features whose StateType is std::monostate
    Texts,              \* document contents
    Versions,           \* values of a #version directive
    Extensions,         \* ExtensionId
    DeclaredVersion,    \* [Texts -> Versions \cup {NoVersion}]
    EnabledExtensions,  \* [Texts -> SUBSET Extensions]
    DefaultVersion,     \* the version of LanguageConfig{}
    NoVersion, NoPreamble, None,
    NumWorkers,         \* threads of backgroundWorkerCtx
    ClientMayMisuse,    \* the client names documents it has not opened
    ClientMayExit       \* the client sends exit

ASSUME UriAssumption == StagelessUris \subseteq Uris
ASSUME TextAssumption ==
    /\ DeclaredVersion \in [Texts -> Versions \cup {NoVersion}]
    /\ EnabledExtensions \in [Texts -> SUBSET Extensions]
    /\ DefaultVersion \in Versions
ASSUME WorkerAssumption == NumWorkers \in Nat \ {0}
ASSUME FeatureAssumption == StatefulFeatures \cap StatelessFeatures = {}
ASSUME NullAssumption ==
    /\ None \notin Contexts \cup Compilations \cup Texts
    /\ {"absent", "null"} \cap Contexts = {}

Features == StatefulFeatures \cup StatelessFeatures

LanguageConfig == [version : Versions, extensions : SUBSET Extensions]

ASSUME PreambleAssumption == NoPreamble \notin LanguageConfig

DefaultConfig == [version |-> DefaultVersion, extensions |-> {}]

\* Mutant: the collector starts from LanguageConfig{} instead of the config of
\* the preamble.
CollectFromDefault(config, text) ==
    [version    |-> IF DeclaredVersion[text] = NoVersion
                    THEN DefaultVersion ELSE DeclaredVersion[text],
     extensions |-> EnabledExtensions[text]]

\* What LanguageConfigCollector turns config into while text is preprocessed:
\* a version replaces the version, extensions are only ever switched on.
CollectConfig(config, text) ==
    [version    |-> IF DeclaredVersion[text] = NoVersion
                    THEN config.version
                    ELSE DeclaredVersion[text],
     extensions |-> config.extensions \cup EnabledExtensions[text]]

-----------------------------------------------------------------------------
VARIABLES
    server,            \* "listening", "exited" or "crashed"
    documentContexts,  \* Uris -> "absent", "null" (an empty pointer) or a context
    contextState,      \* Contexts -> life cycle of the object
    backgroundCompilation, \* Contexts -> the latest compilation of the document
    handler,           \* the didChange handler in progress on the main thread
    compPc,            \* Compilations -> where its Run task is
    comp,              \* Compilations -> the const members, None before creation
    nextPreamble, nextConfig, isPreambleAvailable, isAvailable, isExpired,
    signalResumeQueue, \* Compilations -> waiters of latchCompilation
    diagnostic,        \* Compilations -> where its diagnostic task is
    queryPc,           \* Requests -> where the query is
    query,             \* Requests -> [context, compilation, feature]
    answer,            \* Requests -> the text the response was computed from
    locked,            \* state mutexes: held or not
    lockQueue          \* state mutexes: waiting requests

docVars   == <<server, documentContexts, contextState, backgroundCompilation>>
flagVars  == <<nextPreamble, nextConfig, isPreambleAvailable, isAvailable>>
compVars  == <<compPc, comp, flagVars, isExpired, signalResumeQueue>>
queryVars == <<queryPc, query, answer>>
lockVars  == <<locked, lockQueue>>
vars == <<docVars, handler, compVars, diagnostic, queryVars, lockVars>>

IdleHandler == [pc |-> "idle"]
StateMutexes == Contexts \X StatefulFeatures

CompRunning == {"preamble", "main", "published", "releasing"}
DiagRunning == {"computing", "sending"}
QueryRunning == {"running", "answered"}

\* Mutant: on_empty is awaited synchronously and keeps its pool thread.
BusyWithBlockingClose ==
    Cardinality({c \in Compilations : compPc[c] \in CompRunning})
    + Cardinality({c \in Compilations : diagnostic[c] \in DiagRunning})
    + Cardinality({r \in Requests : queryPc[r] \in QueryRunning})
    + Cardinality({x \in Contexts : contextState[x] = "draining"})

\* Pool threads that are executing a task.
BusyWorkers ==
    Cardinality({c \in Compilations : compPc[c] \in CompRunning})
    + Cardinality({c \in Compilations : diagnostic[c] \in DiagRunning})
    + Cardinality({r \in Requests : queryPc[r] \in QueryRunning})

WorkerFree == BusyWorkers < NumWorkers

Listening == server = "listening"
MainThreadFree == Listening /\ handler = IdleHandler

Unused == {c \in Compilations : compPc[c] = "unused"}

\* Tasks that have been spawned in the async scope of context x and have not
\* left it.
ActiveCompilations(x) ==
    {c \in Compilations : compPc[c] \notin {"unused", "done"} /\ comp[c].context = x}
ActiveDiagnostics(x) ==
    {c \in Compilations :
        diagnostic[c] \in {"timer", "queued"} \cup DiagRunning /\ comp[c].context = x}
ActiveQueries(x) ==
    {r \in Requests : queryPc[r] \notin {"unsent", "ignored", "done"} /\ query[r].context = x}
ScopeEmpty(x) ==
    ActiveCompilations(x) = {} /\ ActiveDiagnostics(x) = {} /\ ActiveQueries(x) = {}

Init ==
    /\ server = "listening"
    /\ documentContexts = [u \in Uris |-> "absent"]
    /\ contextState = [x \in Contexts |-> "unused"]
    /\ backgroundCompilation = [x \in Contexts |-> None]
    /\ handler = IdleHandler
    /\ compPc = [c \in Compilations |-> "unused"]
    /\ comp = [c \in Compilations |-> None]
    /\ nextPreamble = [c \in Compilations |-> NoPreamble]
    /\ nextConfig = [c \in Compilations |-> DefaultConfig]
    /\ isPreambleAvailable = [c \in Compilations |-> FALSE]
    /\ isAvailable = [c \in Compilations |-> FALSE]
    /\ isExpired = [c \in Compilations |-> FALSE]
    /\ signalResumeQueue = [c \in Compilations |-> <<>>]
    /\ diagnostic = [c \in Compilations |-> "none"]
    /\ queryPc = [r \in Requests |-> "unsent"]
    /\ query = [r \in Requests |-> None]
    /\ answer = [r \in Requests |-> None]
    /\ locked = [m \in StateMutexes |-> FALSE]
    /\ lockQueue = [m \in StateMutexes |-> <<>>]

-----------------------------------------------------------------------------
(***************************************************************************)
(* Document synchronisation, on the main thread.                           *)
(***************************************************************************)

\* ScheduleBackgroundCompilation and ScheduleBackgroundDiagnostic: both tasks
\* enter the scope of the document; no diagnostic without a shader stage.
ScheduleBackgroundCompilation(c) == compPc' = [compPc EXCEPT ![c] = "queued"]
ScheduleBackgroundDiagnostic(c, u) ==
    diagnostic' = [diagnostic EXCEPT ![c] = IF u \in StagelessUris THEN "none" ELSE "timer"]

NewCompilation(c, u, x, text, config, preamble) ==
    /\ comp' = [comp EXCEPT ![c] = [context |-> x, uri |-> u, text |-> text,
                                    config |-> config, preamble |-> preamble]]
    /\ backgroundCompilation' = [backgroundCompilation EXCEPT ![x] = c]

\* didOpen of a document without a context (of an open one it is ignored).
DidOpen(u, text, x, c) ==
    /\ MainThreadFree
    /\ documentContexts[u] \notin Contexts
    /\ contextState[x] = "unused" /\ c \in Unused
    /\ documentContexts' = [documentContexts EXCEPT ![u] = x]
    /\ contextState' = [contextState EXCEPT ![x] = "open"]
    /\ NewCompilation(c, u, x, text, DefaultConfig, NoPreamble)
    /\ ScheduleBackgroundCompilation(c)
    /\ ScheduleBackgroundDiagnostic(c, u)
    /\ UNCHANGED <<server, handler, flagVars, isExpired, signalResumeQueue,
                   queryVars, lockVars>>

\* didChange of an open document: the running version is expired first ...
BeginChange(u, text) ==
    /\ MainThreadFree
    /\ documentContexts[u] \in Contexts
    /\ Unused # {}
    /\ isExpired' = [isExpired EXCEPT ![backgroundCompilation[documentContexts[u]]] = TRUE]
    /\ handler' = [pc |-> "readConfig", uri |-> u, text |-> text]
    /\ UNCHANGED <<docVars, compPc, comp, flagVars, signalResumeQueue, diagnostic,
                   queryVars, lockVars>>

Edited == backgroundCompilation[documentContexts[handler.uri]]

NextLanguageConfig(c) == IF isAvailable[c] THEN nextConfig[c] ELSE comp[c].config
NextPreamble(c) == IF isPreambleAvailable[c] THEN nextPreamble[c] ELSE comp[c].preamble

\* ... then what it has learned so far is read, one flag after the other ...
ReadNextConfig ==
    /\ Listening /\ handler.pc = "readConfig"
    /\ handler' = [pc |-> "readPreamble", uri |-> handler.uri, text |-> handler.text,
                   config |-> NextLanguageConfig(Edited)]
    /\ UNCHANGED <<docVars, compVars, diagnostic, queryVars, lockVars>>

ReadNextPreamble ==
    /\ Listening /\ handler.pc = "readPreamble"
    /\ handler' = [pc |-> "install", uri |-> handler.uri, text |-> handler.text,
                   config |-> handler.config, preamble |-> NextPreamble(Edited)]
    /\ UNCHANGED <<docVars, compVars, diagnostic, queryVars, lockVars>>

\* Mutant: the preamble is passed on unchecked.
AnyPreamble(preamble, config) == preamble

\* A preamble compiled for another config is outdated and discarded.
UsablePreamble(preamble, config) ==
    IF preamble # NoPreamble /\ preamble # config THEN NoPreamble ELSE preamble

\* ... and the new version replaces it and is scheduled.
InstallChange(c) ==
    /\ Listening /\ handler.pc = "install"
    /\ c \in Unused
    /\ NewCompilation(c, handler.uri, documentContexts[handler.uri], handler.text,
                      handler.config, UsablePreamble(handler.preamble, handler.config))
    /\ ScheduleBackgroundCompilation(c)
    /\ ScheduleBackgroundDiagnostic(c, handler.uri)
    /\ handler' = IdleHandler
    /\ UNCHANGED <<server, documentContexts, contextState, flagVars, isExpired,
                   signalResumeQueue, queryVars, lockVars>>

\* documentContexts[uri] inserts an empty pointer for a document never opened.
InsertNullEntry(u) == documentContexts' = [documentContexts EXCEPT ![u] = "null"]

ChangeUnopened(u) ==
    /\ MainThreadFree /\ ClientMayMisuse
    /\ documentContexts[u] \notin Contexts
    /\ InsertNullEntry(u)
    /\ UNCHANGED <<server, contextState, backgroundCompilation, handler, compVars,
                   diagnostic, queryVars, lockVars>>

\* didClose of an open document: the entry goes, the context waits on the pool
\* for its scope to become empty.  The running version is not expired.
DidClose(u) ==
    /\ MainThreadFree
    /\ documentContexts[u] \in Contexts
    /\ contextState' = [contextState EXCEPT ![documentContexts[u]] = "closing"]
    /\ documentContexts' = [documentContexts EXCEPT ![u] = "absent"]
    /\ UNCHANGED <<server, backgroundCompilation, handler, compVars, diagnostic,
                   queryVars, lockVars>>

\* didClose only looks whether the map has an entry: an empty pointer is
\* dereferenced, which ends the process.
CloseNullEntry(u) ==
    /\ MainThreadFree /\ ClientMayMisuse
    /\ documentContexts[u] = "null"
    /\ server' = "crashed"
    /\ UNCHANGED <<documentContexts, contextState, backgroundCompilation, handler,
                   compVars, diagnostic, queryVars, lockVars>>

\* exit (or the end of the input): the loop of the main thread ends and the
\* destructor of LanguageService destroys documentContexts, its last member,
\* while the pool still runs.
Exit ==
    /\ MainThreadFree /\ ClientMayExit
    /\ server' = "exited"
    /\ documentContexts' = [u \in Uris |-> "absent"]
    /\ contextState' = [x \in Contexts |->
                          IF contextState[x] = "open" THEN "destroyed" ELSE contextState[x]]
    /\ UNCHANGED <<backgroundCompilation, handler, compVars, diagnostic, queryVars, lockVars>>

\* The pool starts on_empty, and the context goes when the scope is empty.
AwaitScopeEmpty(x) ==
    /\ Listening /\ WorkerFree
    /\ contextState[x] = "closing"
    /\ contextState' = [contextState EXCEPT ![x] = "draining"]
    /\ UNCHANGED <<server, documentContexts, backgroundCompilation, handler, compVars,
                   diagnostic, queryVars, lockVars>>

\* Mutant: the context goes as soon as the pool gets to it.
DestroyAtOnce(x) ==
    /\ Listening
    /\ contextState[x] = "draining"
    /\ contextState' = [contextState EXCEPT ![x] = "destroyed"]
    /\ UNCHANGED <<server, documentContexts, backgroundCompilation, handler, compVars,
                   diagnostic, queryVars, lockVars>>

DestroyContext(x) ==
    /\ Listening
    /\ contextState[x] = "draining"
    /\ ScopeEmpty(x)
    /\ contextState' = [contextState EXCEPT ![x] = "destroyed"]
    /\ UNCHANGED <<server, documentContexts, backgroundCompilation, handler, compVars,
                   diagnostic, queryVars, lockVars>>

-----------------------------------------------------------------------------
(***************************************************************************)
(* BackgroundCompilation::Run, on a pool thread.                           *)
(***************************************************************************)
StartCompilation(c) ==
    /\ Listening /\ WorkerFree
    /\ compPc[c] = "queued"
    /\ compPc' = [compPc EXCEPT ![c] = "preamble"]
    /\ UNCHANGED <<docVars, handler, comp, flagVars, isExpired, signalResumeQueue,
                   diagnostic, queryVars, lockVars>>

\* First pass: the preamble handed over, or one compiled for the config.
PublishPreamble(c) ==
    /\ Listening
    /\ compPc[c] = "preamble"
    /\ nextPreamble' = [nextPreamble EXCEPT ![c] =
          IF comp[c].preamble = NoPreamble THEN comp[c].config ELSE comp[c].preamble]
    /\ isPreambleAvailable' = [isPreambleAvailable EXCEPT ![c] = TRUE]
    /\ compPc' = [compPc EXCEPT ![c] = "main"]
    /\ UNCHANGED <<docVars, handler, comp, nextConfig, isAvailable, isExpired,
                   signalResumeQueue, diagnostic, queryVars, lockVars>>

\* Second pass: the text is compiled on the preamble and its directives are
\* collected on top of the config the preamble was compiled for.
PublishResult(c) ==
    /\ Listening
    /\ compPc[c] = "main"
    /\ nextConfig' = [nextConfig EXCEPT ![c] = CollectConfig(nextPreamble[c], comp[c].text)]
    /\ isAvailable' = [isAvailable EXCEPT ![c] = TRUE]
    /\ compPc' = [compPc EXCEPT ![c] = "published"]
    /\ UNCHANGED <<docVars, handler, comp, nextPreamble, isPreambleAvailable, isExpired,
                   signalResumeQueue, diagnostic, queryVars, lockVars>>

\* latchCompilation.CountDown: the counter reaches zero and the queue of
\* waiters becomes a local of this thread (nothing is pushed any more) ...
CountDown(c) ==
    /\ Listening
    /\ compPc[c] = "published"
    /\ compPc' = [compPc EXCEPT ![c] = "releasing"]
    /\ UNCHANGED <<docVars, handler, comp, flagVars, isExpired, signalResumeQueue,
                   diagnostic, queryVars, lockVars>>

\* Mutant: the latch opens when the preamble is there.
LatchOpenEarly(c) == compPc[c] \in {"main", "published", "releasing", "done"}

LatchOpen(c) == compPc[c] \in {"releasing", "done"}

\* let_value after the latch: a feature with state takes its mutex or queues
\* for it, and the query goes on to the pool.
LetLock(r, x, f) ==
    LET m == <<x, f>>
    IN  \/ /\ f \in StatelessFeatures
           /\ queryPc' = [queryPc EXCEPT ![r] = "queued"]
           /\ UNCHANGED lockVars
        \/ /\ f \in StatefulFeatures
           /\ ~locked[m]
           /\ locked' = [locked EXCEPT ![m] = TRUE]
           /\ queryPc' = [queryPc EXCEPT ![r] = "queued"]
           /\ UNCHANGED lockQueue
        \/ /\ f \in StatefulFeatures
           /\ locked[m]
           /\ lockQueue' = [lockQueue EXCEPT ![m] = Append(@, r)]
           /\ queryPc' = [queryPc EXCEPT ![r] = "locking"]
           /\ UNCHANGED locked

\* ... and the waiters are resumed in turn, on this thread.  (What the loop
\* reads of a waiter it has already resumed is the subject of AsyncLatch.)
ResumeWaiter(c) ==
    /\ Listening
    /\ compPc[c] = "releasing"
    /\ signalResumeQueue[c] # <<>>
    /\ LET r == Head(signalResumeQueue[c])
       IN  LetLock(r, query[r].context, query[r].feature)
    /\ signalResumeQueue' = [signalResumeQueue EXCEPT ![c] = Tail(@)]
    /\ UNCHANGED <<docVars, handler, compPc, comp, flagVars, isExpired, diagnostic,
                   query, answer>>

FinishCompilation(c) ==
    /\ Listening
    /\ compPc[c] = "releasing"
    /\ signalResumeQueue[c] = <<>>
    /\ compPc' = [compPc EXCEPT ![c] = "done"]
    /\ UNCHANGED <<docVars, handler, comp, flagVars, isExpired, signalResumeQueue,
                   diagnostic, queryVars, lockVars>>

-----------------------------------------------------------------------------
(***************************************************************************)
(* The diagnostic task of a version.                                       *)
(***************************************************************************)
MoveDiagnostic(c, from, to) ==
    /\ Listening
    /\ diagnostic[c] = from
    /\ diagnostic' = [diagnostic EXCEPT ![c] = to]
    /\ UNCHANGED <<docVars, handler, compVars, queryVars, lockVars>>

\* The debounce timer expires and the task moves to the pool.
DebounceElapsed(c) == MoveDiagnostic(c, "timer", "queued")

\* Mutant: a version still being compiled is skipped as well.
StartDiagnosticIfAvailable(c) ==
    /\ WorkerFree
    /\ MoveDiagnostic(c, "queued",
                      IF isExpired[c] \/ ~isAvailable[c] THEN "skipped" ELSE "computing")

\* A version that a change has expired is skipped.
StartDiagnostic(c) ==
    /\ WorkerFree
    /\ MoveDiagnostic(c, "queued", IF isExpired[c] THEN "skipped" ELSE "computing")

\* Mutant: the flag is not read again.
SendUnchecked(c) == MoveDiagnostic(c, "computing", "sending")

\* After the computation the flag is read again.
CheckDiagnostic(c) ==
    MoveDiagnostic(c, "computing", IF isExpired[c] THEN "skipped" ELSE "sending")

PublishDiagnostic(c) == MoveDiagnostic(c, "sending", "sent")

-----------------------------------------------------------------------------
(***************************************************************************)
(* Language queries.                                                       *)
(***************************************************************************)
\* ScheduleLanguageQuery: the latest compilation is captured, and the query
\* waits for its latch or goes straight on.
ScheduleQuery(r, u, f) ==
    LET x == documentContexts[u]
        c == backgroundCompilation[x]
    IN  /\ MainThreadFree
        /\ queryPc[r] = "unsent"
        /\ x \in Contexts
        /\ query' = [query EXCEPT ![r] = [context |-> x, compilation |-> c, feature |-> f]]
        /\ \/ /\ LatchOpen(c)
              /\ LetLock(r, x, f)
              /\ UNCHANGED signalResumeQueue
           \/ /\ ~LatchOpen(c)
              /\ signalResumeQueue' = [signalResumeQueue EXCEPT ![c] = Append(@, r)]
              /\ queryPc' = [queryPc EXCEPT ![r] = "waiting"]
              /\ UNCHANGED lockVars
        /\ UNCHANGED <<docVars, handler, compPc, comp, flagVars, isExpired, diagnostic, answer>>

\* A query for a document that is not open is logged and never answered.
QueryUnopened(r, u) ==
    /\ MainThreadFree /\ ClientMayMisuse
    /\ queryPc[r] = "unsent"
    /\ documentContexts[u] \notin Contexts
    /\ InsertNullEntry(u)
    /\ queryPc' = [queryPc EXCEPT ![r] = "ignored"]
    /\ UNCHANGED <<server, contextState, backgroundCompilation, handler, compVars,
                   diagnostic, query, answer, lockVars>>

StartQuery(r) ==
    /\ Listening /\ WorkerFree
    /\ queryPc[r] = "queued"
    /\ queryPc' = [queryPc EXCEPT ![r] = "running"]
    /\ UNCHANGED <<docVars, handler, compVars, diagnostic, query, answer, lockVars>>

\* Mutant: the callback reads the latest compilation of its document.
AnswerFromLatest(r) ==
    /\ Listening
    /\ queryPc[r] = "running"
    /\ answer' = [answer EXCEPT ![r] =
                     comp[backgroundCompilation[query[r].context]].text]
    /\ queryPc' = [queryPc EXCEPT ![r] = "answered"]
    /\ UNCHANGED <<docVars, handler, compVars, diagnostic, query, lockVars>>

\* The feature computes from the captured compilation and responds.
AnswerQuery(r) ==
    /\ Listening
    /\ queryPc[r] = "running"
    /\ answer' = [answer EXCEPT ![r] = comp[query[r].compilation].text]
    /\ queryPc' = [queryPc EXCEPT ![r] = "answered"]
    /\ UNCHANGED <<docVars, handler, compVars, diagnostic, query, lockVars>>

\* Mutant: Unlock wakes the next waiter after it has released the mutex.
UnlockThenWake(r, m) ==
    \/ /\ lockQueue[m] # <<>>
       /\ queryPc' = [queryPc EXCEPT ![r] = "done", ![Head(lockQueue[m])] = "queued"]
       /\ lockQueue' = [lockQueue EXCEPT ![m] = Tail(@)]
       /\ locked' = [locked EXCEPT ![m] = FALSE]
    \/ /\ lockQueue[m] = <<>>
       /\ queryPc' = [queryPc EXCEPT ![r] = "done"]
       /\ locked' = [locked EXCEPT ![m] = FALSE]
       /\ UNCHANGED lockQueue

\* Mutant: Unlock releases the mutex and wakes nobody.
UnlockOnly(r, m) ==
    /\ queryPc' = [queryPc EXCEPT ![r] = "done"]
    /\ locked' = [locked EXCEPT ![m] = FALSE]
    /\ UNCHANGED lockQueue

\* AsyncMutex::Unlock hands the mutex to the next waiter, still locked, or
\* releases it.
Unlock(r, m) ==
    \/ /\ lockQueue[m] # <<>>
       /\ queryPc' = [queryPc EXCEPT ![r] = "done", ![Head(lockQueue[m])] = "queued"]
       /\ lockQueue' = [lockQueue EXCEPT ![m] = Tail(@)]
       /\ UNCHANGED locked
    \/ /\ lockQueue[m] = <<>>
       /\ queryPc' = [queryPc EXCEPT ![r] = "done"]
       /\ locked' = [locked EXCEPT ![m] = FALSE]
       /\ UNCHANGED lockQueue

\* The unique_lock of the callback is destroyed and the query leaves the scope.
FinishQuery(r) ==
    /\ Listening
    /\ queryPc[r] = "answered"
    /\ \/ /\ query[r].feature \in StatelessFeatures
          /\ queryPc' = [queryPc EXCEPT ![r] = "done"]
          /\ UNCHANGED lockVars
       \/ /\ query[r].feature \in StatefulFeatures
          /\ Unlock(r, <<query[r].context, query[r].feature>>)
    /\ UNCHANGED <<docVars, handler, compVars, diagnostic, query, answer>>

-----------------------------------------------------------------------------
ClientStep ==
    \/ \E u \in Uris, t \in Texts :
          \/ \E x \in Contexts, c \in Compilations : DidOpen(u, t, x, c)
          \/ BeginChange(u, t)
    \/ \E u \in Uris :
          \/ DidClose(u)
          \/ ChangeUnopened(u)
          \/ CloseNullEntry(u)
          \/ \E r \in Requests :
                \/ QueryUnopened(r, u)
                \/ \E f \in Features : ScheduleQuery(r, u, f)
    \/ Exit

HandlerStep ==
    \/ ReadNextConfig
    \/ ReadNextPreamble
    \/ \E c \in Compilations : InstallChange(c)

CompilationStep(c) ==
    \/ StartCompilation(c)
    \/ PublishPreamble(c)
    \/ PublishResult(c)
    \/ CountDown(c)
    \/ ResumeWaiter(c)
    \/ FinishCompilation(c)

DiagnosticStep(c) ==
    \/ DebounceElapsed(c)
    \/ StartDiagnostic(c)
    \/ CheckDiagnostic(c)
    \/ PublishDiagnostic(c)

QueryStep(r) ==
    \/ StartQuery(r)
    \/ AnswerQuery(r)
    \/ FinishQuery(r)

ContextStep(x) ==
    \/ AwaitScopeEmpty(x)
    \/ DestroyContext(x)

\* Nothing is left to run: the server waits for a message or has ended.
Quiescent ==
    \/ ~Listening
    \/ /\ handler = IdleHandler
       /\ \A c \in Compilations :
             /\ compPc[c] \in {"unused", "done"}
             /\ diagnostic[c] \in {"none", "skipped", "sent"}
       /\ \A r \in Requests : queryPc[r] \in {"unsent", "ignored", "done"}
       /\ \A x \in Contexts : contextState[x] \in {"unused", "open", "destroyed"}

Idle == Quiescent /\ UNCHANGED vars

Next ==
    \/ ClientStep
    \/ HandlerStep
    \/ \E c \in Compilations : CompilationStep(c) \/ DiagnosticStep(c)
    \/ \E r \in Requests : QueryStep(r)
    \/ \E x \in Contexts : ContextStep(x)
    \/ Idle

Spec == Init /\ [][Next]_vars

\* The pool runs what is scheduled on it and every task ends; the timer
\* expires; the main thread finishes a handler.  The client owes nothing.
Fairness ==
    /\ WF_vars(HandlerStep)
    /\ \A c \in Compilations : WF_vars(CompilationStep(c)) /\ WF_vars(DiagnosticStep(c))
    /\ \A r \in Requests : WF_vars(QueryStep(r))
    /\ \A x \in Contexts : WF_vars(ContextStep(x))

FairSpec == Spec /\ Fairness

-----------------------------------------------------------------------------
(***************************************************************************)
(* Properties.                                                             *)
(***************************************************************************)
HandlerType ==
    {IdleHandler}
    \cup [pc : {"readConfig"}, uri : Uris, text : Texts]
    \cup [pc : {"readPreamble"}, uri : Uris, text : Texts, config : LanguageConfig]
    \cup [pc : {"install"}, uri : Uris, text : Texts, config : LanguageConfig,
          preamble : LanguageConfig \cup {NoPreamble}]

CompilationType ==
    [context : Contexts, uri : Uris, text : Texts, config : LanguageConfig,
     preamble : LanguageConfig \cup {NoPreamble}]

QueryType == [context : Contexts, compilation : Compilations, feature : Features]

ASSUME NullObjectAssumption == None \notin CompilationType \cup QueryType

DocumentTypes ==
    /\ server \in {"listening", "exited", "crashed"}
    /\ documentContexts \in [Uris -> Contexts \cup {"absent", "null"}]
    /\ contextState \in [Contexts -> {"unused", "open", "closing", "draining", "destroyed"}]
    /\ backgroundCompilation \in [Contexts -> Compilations \cup {None}]
    /\ handler \in HandlerType

CompilationTypes ==
    /\ compPc \in [Compilations -> {"unused", "queued", "done"} \cup CompRunning]
    /\ comp \in [Compilations -> CompilationType \cup {None}]
    /\ nextPreamble \in [Compilations -> LanguageConfig \cup {NoPreamble}]
    /\ nextConfig \in [Compilations -> LanguageConfig]
    /\ isPreambleAvailable \in [Compilations -> BOOLEAN]
    /\ isAvailable \in [Compilations -> BOOLEAN]

TaskTypes ==
    /\ isExpired \in [Compilations -> BOOLEAN]
    /\ diagnostic \in [Compilations ->
                         {"none", "timer", "queued", "skipped", "sent"} \cup DiagRunning]

QueryTypes ==
    /\ signalResumeQueue \in [Compilations -> Seq(Requests)]
    /\ queryPc \in [Requests -> {"unsent", "ignored", "waiting", "locking", "queued", "done"}
                                \cup QueryRunning]
    /\ query \in [Requests -> QueryType \cup {None}]
    /\ answer \in [Requests -> Texts \cup {None}]
    /\ locked \in [StateMutexes -> BOOLEAN]
    /\ lockQueue \in [StateMutexes -> Seq(Requests)]

TypeOK == DocumentTypes /\ CompilationTypes /\ TaskTypes /\ QueryTypes

Created == {c \in Compilations : comp[c] # None}

\* The assertion of the BackgroundCompilation constructor, although the two
\* flags it depends on are read at different moments: a version is compiled on
\* a preamble of exactly its own config, or compiles one itself.
PreambleMatchesConfig ==
    \A c \in Created :
        /\ comp[c].preamble \in {NoPreamble, comp[c].config}
        /\ isPreambleAvailable[c] => nextPreamble[c] = comp[c].config

\* The assertion of GetLanguageQueryInfo: a query that has reached the pool,
\* whichever way it was resumed, finds the result of its version.
QueryFindsResult ==
    \A r \in Requests :
        queryPc[r] \in {"locking", "queued"} \cup QueryRunning
            => isAvailable[query[r].compilation]

Holders(m) ==
    {r \in Requests : /\ queryPc[r] \in {"queued"} \cup QueryRunning
                      /\ <<query[r].context, query[r].feature>> = m}

\* Only one query at a time has the state of a feature of a document, and the
\* mutex is never left locked without a query that will unlock it.
OneHolderPerState ==
    \A m \in StateMutexes :
        /\ Cardinality(Holders(m)) = (IF locked[m] THEN 1 ELSE 0)
        /\ lockQueue[m] # <<>> => locked[m]

\* "We have to keep this context alive until all tasks in the scope are
\* finished": no task of a document, however old, outlives its context.
ContextOutlivesTasks ==
    \A x \in Contexts : contextState[x] = "destroyed" => ScopeEmpty(x)

\* Of all versions a context ever had exactly the latest is not expired
\* (between the steps of a didChange none is).
OnlyLatestUnexpired ==
    \A c \in Created :
        ~isExpired[c] => c = backgroundCompilation[comp[c].context]

\* A version that a change replaces before its diagnostics are ready, be they
\* still debounced, waiting for a thread or being computed, never publishes.
ReplacedNeverPublished ==
    \A c \in Compilations :
        [](isExpired[c] /\ diagnostic[c] \in {"timer", "queued", "computing"}
             => [](diagnostic[c] # "sent"))

\* From one version of a document to the next the extensions compiled in only
\* grow, no matter how far the previous version had been compiled.
ExtensionsNeverForgotten ==
    [][\A x \in Contexts :
         backgroundCompilation[x] \in Created =>
            comp[backgroundCompilation[x]].config.extensions
              \subseteq comp'[backgroundCompilation'[x]].config.extensions]_vars

\* A closed document is eventually freed.
ClosedContextDestroyed ==
    \A x \in Contexts : contextState[x] = "closing" ~> contextState[x] = "destroyed"

\* A version that no change replaces gets its diagnostics published.
LatestVersionDiagnosed ==
    \A c \in Compilations :
        diagnostic[c] = "timer" ~> (isExpired[c] \/ diagnostic[c] = "sent")

-----------------------------------------------------------------------------
\* What the documents promise a client, seen through the latest version.
Contract == INSTANCE DocumentContract WITH
    buffer <- [u \in Uris |->
                 IF documentContexts[u] \in Contexts
                 THEN comp[backgroundCompilation[documentContexts[u]]].text ELSE None],
    asked  <- [r \in Requests |->
                 IF queryPc[r] \in {"unsent", "ignored"}
                 THEN None ELSE comp[query[r].compilation].text],
    answer <- answer

ImplementsContract == Contract!Spec
ImplementsFairContract == Contract!FairSpec
=============================================================================
